--------------------------- MODULE ServicesProofs ---------------------------
\* Theorems about the services and their pages, for every value of the
\* constants: the governance service (DaoService), the stores and what
\* rests on them, the receipts and their page, the debug collector and
\* the agents (MCOperations).
EXTENDS MCOperations, DaoService, SumTheorems

\* The governance service keeps what it promises for every finite set of
\* wallets, proposals and requests, however they interleave.
\*
\* What a request has read before an await is, where it matters, still so
\* when it is written: StillHolds says which part, and that is what makes
\* the sums of SumTheorems carry over each step.

Statuses == {"none", "active", "succeeded", "defeated", "executed"}
Tallies == [VoteChoice -> Nat]
Rows == [wallet : Wallets, choice : VoteChoice, weight : Nat]
Proposals == [status : Statuses, kind : ProposalKind, amount : Nat, tally : Tallies,
              totalVotes : Nat, voterCount : Nat, executedAt : BOOLEAN]
Executing == {"execute.receipt", "execute.proposal", "execute.spend"}

Locals ==
  [at : {"idle", "return"}]
    \cup [at : {"create.proposal"}, p : ProposalIds]
    \cup [at : {"vote.tally"}, p : ProposalIds, row : Rows]
    \cup [at : {"finalize.proposal", "finalize.discovery"}, p : ProposalIds, passed : BOOLEAN,
          status : {"succeeded", "defeated"}, was : Statuses]
    \cup [at : Executing, p : ProposalIds, read : Proposals]

TypeOK ==
  /\ member \in [Wallets -> [joined : BOOLEAN, active : BOOLEAN, stake : Nat,
                             reputation : Nat, votingPower : Nat]]
  /\ proposal \in [ProposalIds -> Proposals]
  /\ delegation \in [Wallets -> [active : BOOLEAN, to : Wallets, weight : Nat]]
  /\ ledger \in [ProposalIds -> Seq(Rows)]
  /\ receipts \in [ProposalIds -> Nat]
  /\ spend \in Nat
  /\ discovery \in [ProposalIds -> Statuses]
  /\ req \in [Requests -> Locals]
  /\ patient \in BOOLEAN /\ failing \in BOOLEAN

\* Nothing is known of a proposal before it is created.
Untouched == \A p \in ProposalIds :
  proposal[p].status = "none" => proposal[p] = NoProposal /\ receipts[p] = 0

\* A second create can put another proposal in place of the one a request
\* has read only if clients do not wait for one another.
Firm(p) == p \notin reused \/ patient

\* The proposal an execution has read is past its vote, and its amount and,
\* until it is written back, its tally are those the store still has.
StillHolds == \A r \in Requests :
  req[r].at \in Executing /\ Firm(req[r].p) =>
    LET now == proposal[req[r].p] IN
    /\ now.status \notin {"none", "active"}
    /\ req[r].read.kind = now.kind /\ req[r].read.amount = now.amount
    /\ req[r].at = "execute.receipt" => req[r].read.tally = now.tally

Members == \A w \in Wallets : member[w].active => member[w].joined

Inv == TypeOK /\ Untouched /\ StillHolds /\ Members

\* What holds besides when clients wait for one another.
Alone == \A r, other \in Requests : req[r] # Idle /\ req[other] # Idle => r = other

FirstVotes == \A r \in Requests :
  req[r].at = "vote.tally" => ~AlreadyVoted(req[r].p, req[r].row.wallet, req[r].row.choice)

ExecutionsInTurn ==
  /\ \A r \in Requests :
       /\ req[r].at = "execute.receipt" => ~proposal[req[r].p].executedAt
       /\ reused = {} /\ req[r].at = "execute.proposal" =>
            spend + SpentBy(req[r].read) <= ExecutedAmounts
  /\ ~failing => \A p \in ProposalIds \ reused : receipts[p] # 0 =>
       proposal[p].executedAt \/ \E r \in Requests : At(r, "execute.receipt", p)

VerdictsOnTheirWay ==
  /\ \A r \in Requests :
       req[r].at = "finalize.proposal" => req[r].status = proposal[req[r].p].status
  /\ ~failing => \A p \in ProposalIds : proposal[p].status \in {"succeeded", "defeated"} =>
       discovery[p] = proposal[p].status \/ \E r \in Requests : At(r, "finalize.proposal", p)

SpentOnce ==
  /\ \A p \in ProposalIds \ reused : ~failing => receipts[p] <= 1
  /\ reused = {} => spend <= ExecutedAmounts

Turns == Alone /\ FirstVotes /\ OneVotePerWallet /\ ExecutionsInTurn /\ SpentOnce
           /\ VerdictsOnTheirWay

InTurn == patient => Turns

----
\* The invariant.

LEMMA InitInv == Init => Inv
<1> SUFFICES ASSUME Init PROVE Inv OBVIOUS
<1> USE DEF Init
<1>1. NoVotes \in Tallies BY DEF NoVotes, Tallies
<1>2. NoProposal \in Proposals BY <1>1 DEF NoProposal, Proposals, Statuses, ProposalKind
<1>3. \A w \in Wallets : NoDelegation \in [active : BOOLEAN, to : Wallets, weight : Nat] BY DEF NoDelegation
<1>4. Idle \in Locals BY DEF Idle, Locals
<1>5. patient \in BOOLEAN /\ failing \in BOOLEAN BY ServiceAssumption DEF ServiceAssumption
<1>6. TypeOK BY <1>3, <1>2, <1>4, <1>5 DEF NoMember, TypeOK, Statuses
<1>7. Untouched /\ StillHolds /\ Members BY DEF Untouched, StillHolds, Members, Idle, Executing, NoMember
<1> QED BY <1>6, <1>7 DEF Inv

LEMMA PowerType ==
  ASSUME TypeOK, NEW w \in Wallets
  PROVE  EffectiveVotingPower(w) \in Nat
<1> DEFINE D == Delegators(w)
           f == [d \in D |-> delegation[d].weight]
<1>1. D \subseteq Wallets BY DEF Delegators
<1>2. IsFiniteSet(D) BY <1>1, ServiceAssumption, FS_Subset DEF ServiceAssumption
<1>3. \A d \in D : f[d] \in Nat BY <1>1 DEF TypeOK
<1>4. SumFunctionOnSet(f, D) \in Nat
 <2> HIDE DEF D, f
 <2> QED BY <1>2, <1>3, SumIsNat
<1>5. SumFunction(f) = SumFunctionOnSet(f, D)
 <2>1. DOMAIN f = D OBVIOUS
 <2> HIDE DEF D, f
 <2> QED BY <2>1 DEF SumFunction
<1>6. SumFunction(f) \in Nat BY <1>4, <1>5
<1>7. member[w].votingPower \in Nat BY DEF TypeOK
<1> QED BY <1>6, <1>7 DEF EffectiveVotingPower

\* What a request does to req.
LEMMA AwaitsType ==
  ASSUME TypeOK, NEW r \in Requests, NEW l \in Locals, Awaits(r, l)
  PROVE  /\ req' \in [Requests -> Locals]
         /\ req'[r] = l
         /\ \A other \in Requests \ {r} : req'[other] = req[other]
  BY DEF TypeOK, Awaits

LEMMA LastAwaitType ==
  ASSUME TypeOK, NEW r \in Requests, LastAwait(r)
  PROVE  /\ req' \in [Requests -> Locals]
         /\ req'[r] = [at |-> "return"]
         /\ \A other \in Requests \ {r} : req'[other] = req[other]
<1>1. [at |-> "return"] \in Locals BY DEF Locals
<1> QED BY <1>1, AwaitsType DEF LastAwait

\* The locals a resumed request has.
LEMMA LocalsType ==
  ASSUME TypeOK, NEW r \in Requests
  PROVE  /\ req[r].at = "create.proposal" => req[r].p \in ProposalIds
         /\ req[r].at = "vote.tally" => req[r].p \in ProposalIds /\ req[r].row \in Rows
         /\ req[r].at \in {"finalize.proposal", "finalize.discovery"} =>
              /\ req[r].p \in ProposalIds /\ req[r].status \in {"succeeded", "defeated"}
              /\ [req[r] EXCEPT !.at = "finalize.discovery"] \in Locals
         /\ req[r].at \in Executing =>
              /\ req[r].p \in ProposalIds /\ req[r].read \in Proposals
              /\ \A at \in Executing : [req[r] EXCEPT !.at = at] =
                   [at |-> at, p |-> req[r].p, read |-> req[r].read]
<1>1. req[r] \in Locals BY DEF TypeOK
<1>2. req[r].at = "create.proposal" => req[r].p \in ProposalIds BY <1>1 DEF Locals, Executing
<1>3. req[r].at = "vote.tally" => req[r].p \in ProposalIds /\ req[r].row \in Rows BY <1>1 DEF Locals, Executing
<1>4. ASSUME req[r].at \in {"finalize.proposal", "finalize.discovery"}
      PROVE  /\ req[r].p \in ProposalIds /\ req[r].status \in {"succeeded", "defeated"}
             /\ [req[r] EXCEPT !.at = "finalize.discovery"] \in Locals
  BY <1>1, <1>4 DEF Locals, Executing
<1>5. ASSUME req[r].at \in Executing
      PROVE  /\ req[r].p \in ProposalIds /\ req[r].read \in Proposals
             /\ \A at \in Executing : [req[r] EXCEPT !.at = at] =
                  [at |-> at, p |-> req[r].p, read |-> req[r].read]
  BY <1>1, <1>5 DEF Locals, Executing
<1> QED BY <1>2, <1>3, <1>4, <1>5

LEMMA NextType == TypeOK /\ [Next]_vars => TypeOK'
<1> SUFFICES ASSUME TypeOK, [Next]_vars PROVE TypeOK' OBVIOUS
<1>1. CASE UNCHANGED vars BY <1>1 DEF vars, store, TypeOK
<1>2. CASE Next
 <2> PICK r \in Requests : Start(r) \/ Resume(r) BY <1>2 DEF Next
 <2> UNCHANGED <<patient, failing>> BY <1>2 DEF Next
 <2>1. ASSUME NEW w \in Wallets, NEW stake \in Stakes, NEW reputation \in Reputations,
              NEW active \in BOOLEAN,
              RegisterMember(r, w, stake, reputation) \/ UpdateMember(r, w, stake, reputation, active)
       PROVE  TypeOK'
  <3>1. stake + reputation * 10 \in Nat /\ stake \in Nat /\ reputation \in Nat
    BY ServiceAssumption DEF ServiceAssumption
  <3>2. LastAwait(r) /\ UNCHANGED <<proposal, delegation, ledger, receipts, spend, discovery>>
    BY <2>1 DEF RegisterMember, UpdateMember
  <3>3. member' \in [Wallets -> [joined : BOOLEAN, active : BOOLEAN, stake : Nat,
                                reputation : Nat, votingPower : Nat]]
   <4> DEFINE row(b) == [joined |-> TRUE, active |-> b, stake |-> stake,
                         reputation |-> reputation, votingPower |-> stake + reputation * 10]
   <4>1. member' = [member EXCEPT ![w] = row(TRUE)] \/ member' = [member EXCEPT ![w] = row(active)]
     BY <2>1 DEF RegisterMember, UpdateMember
   <4>2. \A b \in BOOLEAN : row(b) \in [joined : BOOLEAN, active : BOOLEAN, stake : Nat,
                                     reputation : Nat, votingPower : Nat]
     BY <3>1
   <4> HIDE DEF row
   <4> QED BY <4>1, <4>2 DEF TypeOK
  <3> QED BY <3>2, <3>3, LastAwaitType DEF TypeOK
 <2>2. ASSUME NEW from \in Wallets, NEW to \in Wallets,
              DelegateVotePower(r, from, to) \/ RevokeDelegate(r, from)
       PROVE  TypeOK'
  <3>1. LastAwait(r) /\ UNCHANGED <<member, proposal, ledger, receipts, spend, discovery>>
    BY <2>2 DEF DelegateVotePower, RevokeDelegate
  <3>2. NoDelegation \in [active : BOOLEAN, to : Wallets, weight : Nat] BY DEF NoDelegation
  <3>3. delegation' \in [Wallets -> [active : BOOLEAN, to : Wallets, weight : Nat]]
   <4> DEFINE row == [active |-> TRUE, to |-> to, weight |-> member[from].votingPower]
   <4>1. delegation' = [delegation EXCEPT ![from] = row]
           \/ delegation' = [delegation EXCEPT ![from] = NoDelegation]
     BY <2>2 DEF DelegateVotePower, RevokeDelegate
   <4>2. row \in [active : BOOLEAN, to : Wallets, weight : Nat] BY DEF TypeOK
   <4> HIDE DEF row
   <4> QED BY <3>2, <4>1, <4>2 DEF TypeOK
  <3> QED BY <3>1, <3>3, LastAwaitType DEF TypeOK
 <2>3. ASSUME NEW p \in ProposalIds, NEW kind \in ProposalKind, NEW amount \in Amounts,
              CreateProposal(r, p, kind, amount)
       PROVE  TypeOK'
  <3>1. /\ Awaits(r, [at |-> "create.proposal", p |-> p])
        /\ UNCHANGED <<member, delegation, ledger, receipts, spend, discovery>>
    BY <2>3 DEF CreateProposal
  <3>2. [at |-> "create.proposal", p |-> p] \in Locals BY DEF Locals
  <3>3. [NoProposal EXCEPT !.status = "active", !.kind = kind, !.amount = amount] \in Proposals
    BY ServiceAssumption
       DEF ServiceAssumption, NoProposal, NoVotes, Proposals, Tallies, Statuses, ProposalKind
  <3>4. proposal' \in [ProposalIds -> Proposals] BY <2>3, <3>3 DEF CreateProposal, TypeOK
  <3> QED BY <3>1, <3>2, <3>4, AwaitsType DEF TypeOK
 <2>4. CASE CreateRecommendations(r) BY <2>4, LastAwaitType DEF CreateRecommendations, TypeOK
 <2>5. ASSUME NEW p \in ProposalIds, NEW w \in Wallets, NEW c \in Ballots, CastVote(r, p, w, c)
       PROVE  TypeOK'
  <3> DEFINE weight == EffectiveVotingPower(w)
             l == [at |-> "vote.tally", p |-> p,
                   row |-> [wallet |-> w, choice |-> c, weight |-> weight]]
  <3>1. weight \in Nat /\ c \in VoteChoice BY PowerType, ServiceAssumption DEF ServiceAssumption
  <3>2. /\ proposal' = [proposal EXCEPT ![p] = WithVote(@, c, weight)]
        /\ Awaits(r, l)
        /\ UNCHANGED <<member, delegation, ledger, receipts, spend, discovery>>
    BY <2>5 DEF CastVote
  <3> HIDE DEF weight
  <3>3. l \in Locals BY <3>1 DEF Locals, Rows
  <3>4. WithVote(proposal[p], c, weight) \in Proposals
   <4> DEFINE prop == proposal[p]
              tally == [prop.tally EXCEPT ![c] = prop.tally[c] + weight]
   <4>1. prop \in Proposals BY DEF TypeOK
   <4>2. prop.tally \in Tallies /\ prop.tally[c] + weight \in Nat BY <3>1, <4>1 DEF Proposals, Tallies
   <4>3. tally \in Tallies BY <3>1, <4>2 DEF Tallies
   <4>4. WithVote(prop, c, weight) =
           [prop EXCEPT !.tally = tally, !.totalVotes = prop.totalVotes + weight, !.voterCount = prop.voterCount + 1]
     BY <4>1 DEF WithVote, Proposals
   <4> HIDE DEF prop, tally
   <4> DEFINE total == prop.totalVotes + weight
              count == prop.voterCount + 1
   <4>5. total \in Nat /\ count \in Nat BY <3>1, <4>1 DEF Proposals
   <4> HIDE DEF total, count
   <4>6. [prop EXCEPT !.tally = tally, !.totalVotes = total, !.voterCount = count] \in Proposals
     BY <4>1, <4>3, <4>5 DEF Proposals
   <4>7. WithVote(prop, c, weight) \in Proposals BY <4>4, <4>6 DEF total, count
   <4> QED BY <4>7 DEF prop
  <3>5. proposal' \in [ProposalIds -> Proposals] BY <3>2, <3>4 DEF TypeOK
  <3> HIDE DEF l
  <3> QED BY <3>2, <3>3, <3>5, AwaitsType DEF TypeOK
 <2>6. CASE VoteLedger(r)
  <3>1. /\ LastAwait(r) /\ req[r].p \in ProposalIds /\ req[r].row \in Rows
        /\ UNCHANGED <<member, proposal, delegation, receipts, spend, discovery>>
    BY <2>6, LocalsType DEF VoteLedger
  <3>2. ledger' \in [ProposalIds -> Seq(Rows)] BY <2>6, <3>1 DEF VoteLedger, TypeOK
  <3> QED BY <3>1, <3>2, LastAwaitType DEF TypeOK
 <2>7. ASSUME NEW p \in ProposalIds, FinalizeProposal(r, p) PROVE TypeOK'
  <3> DEFINE passed == Passed(proposal[p])
             next == Finalized(proposal[p], passed)
             l == [at |-> "finalize.proposal", p |-> p, passed |-> passed,
                   status |-> next.status, was |-> proposal[p].status]
  <3>1. /\ proposal' = [proposal EXCEPT ![p] = next] /\ Awaits(r, l)
        /\ UNCHANGED <<member, delegation, ledger, receipts, spend, discovery>>
    BY <2>7 DEF FinalizeProposal
  <3>2. passed \in BOOLEAN BY DEF Passed
  <3> HIDE DEF passed
  <3>3. next \in Proposals /\ next.status \in {"succeeded", "defeated"} BY DEF Finalized, Proposals, Statuses, TypeOK
  <3>4. proposal[p].status \in Statuses BY DEF TypeOK, Proposals
  <3> HIDE DEF next
  <3>5. l \in Locals BY <3>2, <3>3, <3>4 DEF Locals
  <3>6. proposal' \in [ProposalIds -> Proposals] BY <3>1, <3>3 DEF TypeOK
  <3> HIDE DEF l
  <3> QED BY <3>1, <3>5, <3>6, AwaitsType DEF TypeOK
 <2>8. CASE FinalizeDiscovery(r)
  <3>1. /\ req[r].p \in ProposalIds /\ req[r].status \in Statuses
        /\ [req[r] EXCEPT !.at = "finalize.discovery"] \in Locals
    BY <2>8, LocalsType DEF FinalizeDiscovery, Statuses
  <3>2. discovery' \in [ProposalIds -> Statuses] BY <2>8, <3>1 DEF FinalizeDiscovery, RowStatus, TypeOK
  <3>3. req' \in [Requests -> Locals] BY <2>8, <3>1, AwaitsType, LastAwaitType DEF FinalizeDiscovery
  <3> QED BY <2>8, <3>2, <3>3 DEF FinalizeDiscovery, TypeOK
 <2>9. CASE FinalizeMemory(r) BY <2>9, LastAwaitType DEF FinalizeMemory, TypeOK
 <2>10. ASSUME NEW p \in ProposalIds, ExecuteReceipt(r, p) PROVE TypeOK'
  <3> DEFINE l == [at |-> "execute.receipt", p |-> p, read |-> proposal[p]]
  <3>1. Awaits(r, l) /\ UNCHANGED <<member, proposal, delegation, ledger, spend, discovery>>
    BY <2>10 DEF ExecuteReceipt
  <3>2. l \in Locals BY DEF Locals, Executing, TypeOK
  <3>3. receipts' \in [ProposalIds -> Nat] BY <2>10 DEF ExecuteReceipt, TypeOK
  <3> HIDE DEF l
  <3> QED BY <3>1, <3>2, <3>3, AwaitsType DEF TypeOK
 <2>11. CASE ExecuteProposal(r)
  <3> DEFINE l == [at |-> "execute.proposal", p |-> req[r].p, read |-> req[r].read]
  <3>1. req[r].p \in ProposalIds /\ req[r].read \in Proposals BY <2>11, LocalsType DEF ExecuteProposal, Executing
  <3>2. Awaits(r, l) /\ UNCHANGED <<member, delegation, ledger, receipts, spend, discovery>>
    BY <2>11, LocalsType DEF ExecuteProposal, Executing
  <3>3. l \in Locals BY <3>1 DEF Locals, Executing
  <3>4. [req[r].read EXCEPT !.status = "executed", !.executedAt = TRUE] \in Proposals BY <3>1 DEF Proposals, Statuses
  <3>5. proposal' \in [ProposalIds -> Proposals] BY <2>11, <3>1, <3>4 DEF ExecuteProposal, TypeOK
  <3> HIDE DEF l
  <3> QED BY <3>2, <3>3, <3>5, AwaitsType DEF TypeOK
 <2>12. CASE ExecuteSpend(r)
  <3> DEFINE l == [at |-> "execute.spend", p |-> req[r].p, read |-> req[r].read]
  <3>1. req[r].p \in ProposalIds /\ req[r].read \in Proposals BY <2>12, LocalsType DEF ExecuteSpend, Executing
  <3>2. Awaits(r, l) /\ UNCHANGED <<member, proposal, delegation, ledger, receipts, discovery>>
    BY <2>12, LocalsType DEF ExecuteSpend, Executing
  <3>3. l \in Locals BY <3>1 DEF Locals, Executing
  <3>4. spend' \in Nat BY <2>12, <3>1 DEF ExecuteSpend, SpentBy, Proposals, TypeOK
  <3> HIDE DEF l
  <3> QED BY <3>2, <3>3, <3>4, AwaitsType DEF TypeOK
 <2>13. CASE ExecuteMemory(r) BY <2>13, LastAwaitType DEF ExecuteMemory, TypeOK
 <2>14. CASE Return(r) \/ PersistRejects(r)
  <3>1. Idle \in Locals BY DEF Idle, Locals
  <3> QED BY <2>14, <3>1 DEF Return, PersistRejects, store, TypeOK
 <2> QED
   BY <2>1, <2>2, <2>3, <2>4, <2>5, <2>6, <2>7, <2>8, <2>9, <2>10, <2>11, <2>12, <2>13, <2>14,
      ServiceAssumption DEF ServiceAssumption, Start, Started, Resume
<1> QED BY <1>1, <1>2

\* What no step takes back.
KeptOf(p) ==
  /\ proposal[p].status # "none" =>
       proposal'[p].kind = proposal[p].kind /\ proposal'[p].amount = proposal[p].amount
  /\ proposal[p].status \notin {"none", "active"} =>
       /\ proposal'[p].status \notin {"none", "active"}
       /\ proposal'[p].tally = proposal[p].tally
  /\ proposal[p].executedAt => proposal'[p].executedAt

Kept == \A p \in ProposalIds : Excused(p) \/ KeptOf(p)

LEMMA ReusedGrows ==
  ASSUME NEW r \in Requests, Start(r) \/ Resume(r)
  PROVE  reused \subseteq reused'
  BY DEF Start, Started, Resume, RegisterMember, UpdateMember, DelegateVotePower, RevokeDelegate,
         CreateProposal, CastVote, FinalizeProposal, ExecuteReceipt, CreateRecommendations,
         VoteLedger, FinalizeDiscovery, FinalizeMemory, ExecuteProposal, ExecuteSpend,
         ExecuteMemory, Return, PersistRejects, store

LEMMA StepKeeps == Inv /\ [Next]_vars => Kept
<1> SUFFICES ASSUME Inv, [Next]_vars PROVE Kept OBVIOUS
<1> USE DEF Inv
<1>1. CASE UNCHANGED proposal BY <1>1 DEF Kept, KeptOf
<1>2. ASSUME NEW r \in Requests, NEW p \in ProposalIds, NEW kind \in ProposalKind,
             NEW amount \in Amounts, CreateProposal(r, p, kind, amount)
      PROVE  Kept
 <2>1. \A q \in ProposalIds \ {p} : KeptOf(q) BY <1>2 DEF CreateProposal, TypeOK, KeptOf
 <2>2. CASE proposal[p].status = "none" BY <2>1, <2>2 DEF Untouched, NoProposal, Kept, KeptOf
 <2>3. CASE proposal[p].status # "none"
  <3>1. req[r] = Idle /\ req'[r] = [at |-> "create.proposal", p |-> p] /\ p \in reused'
    BY <1>2, <2>3 DEF CreateProposal, Awaits, TypeOK
  <3>2. Overwrites(p) BY <2>3, <3>1 DEF Overwrites, At
  <3> QED BY <2>1, <3>1, <3>2 DEF Kept, Excused
 <2> QED BY <2>2, <2>3
<1>3. ASSUME NEW r \in Requests, NEW p \in ProposalIds, NEW w \in Wallets, NEW c \in Ballots,
             CastVote(r, p, w, c)
      PROVE  Kept BY <1>3 DEF CastVote, TakesVotes, TypeOK, WithVote, Proposals, Kept, KeptOf
<1>4. ASSUME NEW r \in Requests, NEW p \in ProposalIds, FinalizeProposal(r, p) PROVE Kept
  BY <1>4 DEF FinalizeProposal, Finalized, TypeOK, Proposals, Kept, KeptOf
<1>5. ASSUME NEW r \in Requests, ExecuteProposal(r) PROVE Kept
 <2> DEFINE p == req[r].p
 <2>1. req[r].at = "execute.receipt" /\ p \in ProposalIds /\ req[r].read \in Proposals
   BY <1>5, LocalsType DEF ExecuteProposal, Executing
 <2>2. Firm(p) =>
         /\ req[r].read.kind = proposal[p].kind /\ req[r].read.amount = proposal[p].amount
         /\ req[r].read.tally = proposal[p].tally
   BY <2>1 DEF StillHolds, Executing
 <2>3. proposal'[p] = [req[r].read EXCEPT !.status = "executed", !.executedAt = TRUE]
   BY <1>5, <2>1 DEF ExecuteProposal, TypeOK
 <2>4. Firm(p) => KeptOf(p) BY <2>1, <2>2, <2>3 DEF Proposals, KeptOf
 <2>5. \A q \in ProposalIds \ {p} : proposal'[q] = proposal[q] BY <1>5 DEF ExecuteProposal, TypeOK
 <2>6. ~Firm(p) => Excused(p) BY <1>5 DEF ExecuteProposal, Firm, Excused
 <2> QED BY <2>4, <2>5, <2>6 DEF Kept, KeptOf
<1>6. CASE Next
 <2>1. PICK r \in Requests : Start(r) \/ Resume(r) BY <1>6 DEF Next
 <2>2. CASE Start(r)
  <3>1. Started(r) BY <2>2 DEF Start
  <3> QED
    BY <3>1, <1>1, <1>2, <1>3, <1>4
       DEF Started, RegisterMember, UpdateMember, DelegateVotePower, RevokeDelegate, ExecuteReceipt
 <2>3. CASE Resume(r)
   BY <2>3, <1>1, <1>5
      DEF Resume, CreateRecommendations, VoteLedger, FinalizeDiscovery, FinalizeMemory,
          ExecuteSpend, ExecuteMemory, Return, PersistRejects, store
 <2> QED BY <2>1, <2>2, <2>3
<1> QED BY <1>1, <1>6 DEF vars, store

\* The requests other than the one that acts keep what they have read.
LEMMA OthersHold ==
  ASSUME StillHolds, Kept, NEW r \in Requests, TypeOK, TypeOK', UNCHANGED <<reused, patient>>,
         \A other \in Requests \ {r} : req'[other] = req[other],
         req'[r].at # "create.proposal",
         req'[r].at \in Executing /\ Firm(req'[r].p) =>
           LET now == proposal'[req'[r].p] IN
           /\ now.status \notin {"none", "active"}
           /\ req'[r].read.kind = now.kind /\ req'[r].read.amount = now.amount
           /\ req'[r].at = "execute.receipt" => req'[r].read.tally = now.tally
  PROVE  StillHolds'
<1> SUFFICES ASSUME NEW other \in Requests, req'[other].at \in Executing, other # r,
                    Firm(req'[other].p)
             PROVE  LET now == proposal'[req'[other].p] IN
                    /\ now.status \notin {"none", "active"}
                    /\ req'[other].read.kind = now.kind /\ req'[other].read.amount = now.amount
                    /\ req'[other].at = "execute.receipt" => req'[other].read.tally = now.tally
  BY DEF StillHolds, Firm
<1>1. req'[other] = req[other] /\ req[other].p \in ProposalIds BY LocalsType
<1>2. \A p \in ProposalIds : ~Overwrites(p) BY DEF Overwrites, At, Idle
<1>3. KeptOf(req[other].p) BY <1>1, <1>2 DEF Kept, Excused, Firm
<1> QED BY <1>1, <1>3 DEF StillHolds, KeptOf

LEMMA NextInv == Inv /\ [Next]_vars => Inv'
<1> SUFFICES ASSUME Inv, [Next]_vars PROVE Inv' OBVIOUS
<1>1. TypeOK' /\ Kept BY NextType, StepKeeps DEF Inv
<1>2. CASE UNCHANGED vars BY <1>2 DEF vars, store, Inv, TypeOK, Untouched, StillHolds, Firm, Members
<1>3. CASE Next
 <2> USE DEF Inv
 <2> PICK r \in Requests : Start(r) \/ Resume(r) BY <1>3 DEF Next
 <2> UNCHANGED patient BY <1>3 DEF Next
 <2>1. StillHolds'
  <3>1. CASE ExecuteProposal(r)
   <4> DEFINE p == req[r].p
   <4>1. req[r].at = "execute.receipt" /\ p \in ProposalIds /\ req[r].read \in Proposals
     BY <3>1, LocalsType DEF ExecuteProposal, Executing
   <4>2. req'[r] = [at |-> "execute.proposal", p |-> p, read |-> req[r].read]
           /\ \A other \in Requests \ {r} : req'[other] = req[other]
     BY <3>1, <4>1, LocalsType DEF ExecuteProposal, Executing, Awaits, TypeOK
   <4>3. Firm(p) =>
           /\ req[r].read.kind = proposal[p].kind /\ req[r].read.amount = proposal[p].amount
           /\ proposal[p].status \notin {"none", "active"}
     BY <4>1 DEF StillHolds, Executing
   <4>4. reused' = reused BY <3>1 DEF ExecuteProposal
   <4>5. proposal'[p] = proposal[p] \/ proposal'[p] = [req[r].read EXCEPT !.status = "executed", !.executedAt = TRUE]
     BY <3>1, <4>1 DEF ExecuteProposal, TypeOK
   <4> HIDE DEF p
   <4>6. Firm(p) => LET now == proposal'[p] IN
           /\ now.status \notin {"none", "active"}
           /\ req[r].read.kind = now.kind /\ req[r].read.amount = now.amount
     BY <4>1, <4>3, <4>5 DEF Proposals
   <4> QED BY <1>1, <4>1, <4>2, <4>4, <4>6, OthersHold
  <3>2. CASE ExecuteSpend(r)
   <4> DEFINE p == req[r].p
   <4>1. req[r].at = "execute.proposal" /\ p \in ProposalIds /\ req[r].read \in Proposals
     BY <3>2, LocalsType DEF ExecuteSpend, Executing
   <4>2. req'[r] = [at |-> "execute.spend", p |-> p, read |-> req[r].read]
           /\ \A other \in Requests \ {r} : req'[other] = req[other]
     BY <3>2, <4>1, LocalsType DEF ExecuteSpend, Executing, Awaits, TypeOK
   <4>3. Firm(p) =>
           /\ req[r].read.kind = proposal[p].kind /\ req[r].read.amount = proposal[p].amount
           /\ proposal[p].status \notin {"none", "active"}
     BY <4>1 DEF StillHolds, Executing
   <4>4. reused' = reused BY <3>2 DEF ExecuteSpend
   <4>5. proposal'[p] = proposal[p] \/ proposal'[p] = [req[r].read EXCEPT !.status = "executed", !.executedAt = TRUE]
     BY <3>2, <4>1 DEF ExecuteSpend, TypeOK
   <4> HIDE DEF p
   <4>6. Firm(p) => LET now == proposal'[p] IN
           /\ now.status \notin {"none", "active"}
           /\ req[r].read.kind = now.kind /\ req[r].read.amount = now.amount
     BY <4>1, <4>3, <4>5 DEF Proposals
   <4> QED BY <1>1, <4>1, <4>2, <4>4, <4>6, OthersHold
  <3>3. ASSUME NEW p \in ProposalIds, ExecuteReceipt(r, p) PROVE StillHolds'
    BY <3>3, <1>1, OthersHold DEF ExecuteReceipt, Awaits, TypeOK, Executable
  <3>4. CASE /\ req'[r].at \notin Executing \cup {"create.proposal"} /\ reused' = reused
             /\ \A other \in Requests \ {r} : req'[other] = req[other]
    BY <1>1, <3>4, OthersHold
  <3>5. ASSUME LastAwait(r) \/ (req' = [req EXCEPT ![r] = Idle]), reused' = reused
        PROVE  StillHolds'
    BY <3>5, <3>4 DEF LastAwait, Awaits, Idle, TypeOK, Executing
  <3>6. ASSUME Start(r), NEW p \in ProposalIds, NEW kind \in ProposalKind, NEW amount \in Amounts,
               CreateProposal(r, p, kind, amount)
        PROVE  StillHolds'
   <4> SUFFICES ASSUME NEW other \in Requests, req'[other].at \in Executing,
                       req'[other].p \notin reused' \/ patient'
                PROVE  LET now == proposal'[req'[other].p] IN
                       /\ now.status \notin {"none", "active"}
                       /\ req'[other].read.kind = now.kind /\ req'[other].read.amount = now.amount
                       /\ req'[other].at = "execute.receipt" => req'[other].read.tally = now.tally
     BY DEF StillHolds, Firm
   <4>1. other # r /\ req'[other] = req[other] BY <3>6 DEF CreateProposal, Awaits, Executing, TypeOK
   <4>2. ~patient BY <3>6, <4>1 DEF Start, Idle, Executing
   <4>3. /\ req[other].p \notin reused'
         /\ reused' = IF proposal[p].status = "none" THEN reused ELSE reused \cup {p}
     BY <3>6, <4>1, <4>2 DEF CreateProposal
   <4>4. Firm(req[other].p) BY <4>3 DEF Firm
   <4>5. proposal[req[other].p].status # "none" BY <4>1, <4>4 DEF StillHolds
   <4>6. req[other].p # p /\ req[other].p \in ProposalIds BY <4>1, <4>3, <4>5, LocalsType
   <4>7. proposal'[req[other].p] = proposal[req[other].p] BY <3>6, <4>6 DEF CreateProposal, TypeOK
   <4> QED BY <4>1, <4>4, <4>7 DEF StillHolds
  <3>7. ASSUME NEW p \in ProposalIds, NEW w \in Wallets, NEW c \in Ballots, CastVote(r, p, w, c)
        PROVE  StillHolds'
    BY <3>4, <3>7 DEF CastVote, Awaits, Executing, TypeOK
  <3>8. ASSUME NEW p \in ProposalIds, FinalizeProposal(r, p) PROVE StillHolds'
    BY <3>4, <3>8 DEF FinalizeProposal, Awaits, Executing, TypeOK
  <3>9. CASE FinalizeDiscovery(r)
   <4>1. req'[r].at \in {"return", "finalize.discovery"}
           /\ \A other \in Requests \ {r} : req'[other] = req[other]
    <5> DEFINE l == [req[r] EXCEPT !.at = "finalize.discovery"]
    <5>1. l \in Locals /\ l.at = "finalize.discovery"
      BY <3>9, LocalsType DEF FinalizeDiscovery, TypeOK, Locals, Executing
    <5>2. LastAwait(r) \/ Awaits(r, l) BY <3>9 DEF FinalizeDiscovery
    <5> HIDE DEF l
    <5> QED BY <5>1, <5>2, AwaitsType, LastAwaitType
   <4>2. reused' = reused BY <3>9 DEF FinalizeDiscovery
   <4> QED BY <3>4, <4>1, <4>2 DEF Executing
  <3>10. CASE Start(r)
    BY <3>10, <3>3, <3>5, <3>6, <3>7, <3>8
       DEF Start, Started, RegisterMember, UpdateMember, DelegateVotePower, RevokeDelegate
  <3>11. CASE Resume(r)
    BY <3>11, <3>1, <3>2, <3>5, <3>9
       DEF Resume, CreateRecommendations, VoteLedger, FinalizeMemory, ExecuteMemory, Return,
           PersistRejects, store
  <3> QED BY <3>10, <3>11
 <2>2. Untouched'
  <3>1. CASE UNCHANGED <<proposal, receipts>> BY <3>1 DEF Untouched
  <3>2. ASSUME NEW p \in ProposalIds, \A q \in ProposalIds \ {p} : proposal'[q] = proposal[q],
               receipts' = receipts, proposal'[p].status # "none"
        PROVE  Untouched'
    BY <3>2 DEF Untouched
  <3>3. ASSUME NEW p \in ProposalIds, NEW kind \in ProposalKind, NEW amount \in Amounts,
               CreateProposal(r, p, kind, amount)
        PROVE  Untouched'
    BY <3>2, <3>3 DEF CreateProposal, TypeOK, NoProposal
  <3>4. ASSUME NEW p \in ProposalIds, NEW w \in Wallets, NEW c \in Ballots, CastVote(r, p, w, c)
        PROVE  Untouched'
    BY <3>2, <3>4 DEF CastVote, TakesVotes, WithVote, TypeOK, Proposals
  <3>5. ASSUME NEW p \in ProposalIds, FinalizeProposal(r, p) PROVE Untouched'
    BY <3>2, <3>5 DEF FinalizeProposal, Finalized, TypeOK, Proposals
  <3>6. CASE ExecuteProposal(r)
   <4>1. req[r].p \in ProposalIds /\ req[r].read \in Proposals BY <3>6, LocalsType DEF ExecuteProposal, Executing
   <4> QED BY <3>2, <3>6, <4>1 DEF ExecuteProposal, TypeOK, Proposals
  <3>7. ASSUME NEW p \in ProposalIds, ExecuteReceipt(r, p) PROVE Untouched'
    BY <3>7 DEF ExecuteReceipt, Executable, Untouched, TypeOK
  <3>8. CASE Start(r)
    BY <3>8, <3>1, <3>3, <3>4, <3>5, <3>7
       DEF Start, Started, RegisterMember, UpdateMember, DelegateVotePower, RevokeDelegate
  <3>9. CASE Resume(r)
    BY <3>9, <3>1, <3>6
       DEF Resume, CreateRecommendations, VoteLedger, FinalizeDiscovery, FinalizeMemory,
           ExecuteSpend, ExecuteMemory, Return, PersistRejects, store
  <3> QED BY <3>8, <3>9
 <2>3. Members'
  <3>1. CASE UNCHANGED member BY <3>1 DEF Members
  <3>2. ASSUME NEW w \in Wallets, NEW stake \in Stakes, NEW reputation \in Reputations,
               NEW active \in Actives, UpdateMember(r, w, stake, reputation, active)
        PROVE  Members'
    BY <3>2 DEF UpdateMember, Members, TypeOK
  <3>3. ASSUME NEW w \in Wallets, NEW stake \in Stakes, NEW reputation \in Reputations,
               RegisterMember(r, w, stake, reputation)
        PROVE  Members'
    BY <3>3 DEF RegisterMember, Members, TypeOK
  <3>4. CASE Start(r)
    BY <3>4, <3>1, <3>2, <3>3
       DEF Start, Started, DelegateVotePower, RevokeDelegate, CreateProposal, CastVote,
           FinalizeProposal, ExecuteReceipt
  <3>5. CASE Resume(r)
    BY <3>5, <3>1
       DEF Resume, CreateRecommendations, VoteLedger, FinalizeDiscovery, FinalizeMemory,
           ExecuteProposal, ExecuteSpend, ExecuteMemory, Return, PersistRejects, store
  <3> QED BY <3>4, <3>5
 <2> QED BY <1>1, <2>1, <2>2, <2>3
<1> QED BY <1>2, <1>3

\* TypeOK, Untouched, StillHolds and Members hold in every state.
THEOREM WhatIsReadStands == Spec => []Inv
<1>1. Init => Inv BY InitInv
<1>2. Inv /\ [Next]_vars => Inv' BY NextInv
<1> QED BY <1>1, <1>2, PTL DEF Spec

\* However requests interleave and whatever persist fails, a finalized
\* proposal keeps its tally and an executed one its mark; only a second
\* create of the id takes them, or, where clients do not wait, a request
\* that has read the proposal which was there before.
THEOREM VerdictsAlwaysStand == Spec => VerdictsStand
<1>1. Inv /\ [Next]_vars =>
        \A p \in ProposalIds : proposal[p].status \notin {"none", "active"} =>
                               Excused(p) \/ proposal'[p].tally = proposal[p].tally
  BY StepKeeps DEF Kept, KeptOf
<1>2. Inv /\ [Next]_vars =>
        \A p \in ProposalIds : proposal[p].executedAt => Excused(p) \/ proposal'[p].executedAt
  BY StepKeeps DEF Kept, KeptOf
<1>3. Spec => TallyFrozen BY <1>1, WhatIsReadStands, PTL DEF Spec, TallyFrozen
<1>4. Spec => ExecutionIsPermanent BY <1>2, WhatIsReadStands, PTL DEF Spec, ExecutionIsPermanent
<1> QED BY <1>3, <1>4 DEF VerdictsStand
----
\* The tallies.

\* The weight that request r has tallied for c on p and not yet recorded.
Tallied(r, p, c) == IF At(r, "vote.tally", p) THEN WeightFor(req[r].row, c) ELSE 0

Weights(rows, c) == [i \in DOMAIN rows |-> WeightFor(rows[i], c)]

LEMMA WeightsType ==
  ASSUME NEW rows \in Seq(Rows), NEW c
  PROVE  /\ IsFiniteSet(1..Len(rows))
         /\ Weights(rows, c) \in [1..Len(rows) -> Nat]
<1>1. \A row \in Rows : WeightFor(row, c) \in Nat BY DEF WeightFor, Rows
<1>2. DOMAIN rows = 1..Len(rows) /\ \A i \in 1..Len(rows) : rows[i] \in Rows OBVIOUS
<1>3. Weights(rows, c) \in [1..Len(rows) -> Nat] BY <1>1, <1>2 DEF Weights
<1> QED BY <1>3, FS_Interval

LEMMA WeightsOfOneMore ==
  ASSUME NEW rows \in Seq(Rows), NEW row \in Rows, NEW c
  PROVE  /\ SumFunction(Weights(rows, c)) \in Nat
         /\ SumFunction(Weights(Append(rows, row), c)) =
              SumFunction(Weights(rows, c)) + WeightFor(row, c)
<1> DEFINE S == 1..Len(rows)
           n == Len(rows) + 1
           more == Append(rows, row)
           T == 1..Len(more)
           f == Weights(rows, c)
           e == Weights(more, c)
<1>1. IsFiniteSet(S) /\ n \notin S /\ T = S \cup {n} /\ more \in Seq(Rows)
 <2>1. Len(more) = Len(rows) + 1 /\ Len(rows) \in Nat /\ more \in Seq(Rows) OBVIOUS
 <2>2. 1..(Len(rows) + 1) = (1..Len(rows)) \cup {Len(rows) + 1} BY <2>1
 <2>3. IsFiniteSet(1..Len(rows)) BY <2>1, FS_Interval
 <2>4. n \notin S BY <2>1
 <2>5. T = S \cup {n} BY <2>1, <2>2
 <2> QED BY <2>1, <2>3, <2>4, <2>5
<1>2. f \in [S -> Nat] /\ e \in [T -> Nat] BY <1>1, WeightsType
<1>3. e[n] = WeightFor(row, c) /\ \A i \in S : e[i] = f[i] BY DEF Weights
<1> HIDE DEF S, T, n, more, f, e
<1>4. SameOn(f, e, S) /\ OneMore(S, n, T) BY <1>1, <1>3 DEF SameOn, OneMore
<1>5. SumFunction(f) \in Nat BY <1>1, <1>2, FunctionSumIsNat
<1>6. SumFunction(e) = e[n] + SumFunction(f) BY <1>1, <1>2, <1>4, FunctionSumOfMore
<1>7. WeightFor(row, c) \in Nat BY DEF WeightFor, Rows
<1>8. SumFunction(e) = SumFunction(f) + WeightFor(row, c) BY <1>3, <1>5, <1>6, <1>7
<1> QED BY <1>5, <1>8 DEF e, f, more

LEMMA TallySums ==
  ASSUME TypeOK, NEW p \in ProposalIds, NEW c \in VoteChoice
  PROVE  /\ Recorded(p, c) \in Nat /\ Unrecorded(p, c) \in Nat
         /\ Recorded(p, c) = SumFunction(Weights(ledger[p], c))
         /\ Unrecorded(p, c) = SumFunction([r \in Requests |-> Tallied(r, p, c)])
         /\ [r \in Requests |-> Tallied(r, p, c)] \in [Requests -> Nat]
         /\ proposal[p].tally[c] \in Nat
<1>1. ledger[p] \in Seq(Rows) /\ proposal[p].tally[c] \in Nat BY DEF TypeOK, Proposals, Tallies
<1>2. Recorded(p, c) = SumFunction(Weights(ledger[p], c)) BY DEF Recorded, Weights
<1>3. Recorded(p, c) \in Nat BY <1>1, <1>2, WeightsType, FunctionSumIsNat
<1>4. Unrecorded(p, c) = SumFunction([r \in Requests |-> Tallied(r, p, c)]) BY DEF Unrecorded, Tallied
<1>5. [r \in Requests |-> Tallied(r, p, c)] \in [Requests -> Nat] BY LocalsType DEF Tallied, WeightFor, At, Rows
<1>6. Unrecorded(p, c) \in Nat BY <1>4, <1>5, FunctionSumIsNat, ServiceAssumption DEF ServiceAssumption
<1> QED BY <1>1, <1>2, <1>3, <1>4, <1>5, <1>6

\* One request at a time changes what it has tallied.
LEMMA UnrecordedStep ==
  ASSUME TypeOK, TypeOK', NEW p \in ProposalIds, NEW c \in VoteChoice, NEW r \in Requests,
         \A other \in Requests \ {r} : req'[other] = req[other]
  PROVE  /\ Tallied(r, p, c) \in Nat /\ Tallied(r, p, c)' \in Nat
         /\ Unrecorded(p, c)' + Tallied(r, p, c) = Unrecorded(p, c) + Tallied(r, p, c)'
<1> DEFINE f == [o \in Requests |-> Tallied(o, p, c)]
           e == [o \in Requests |-> Tallied(o, p, c)']
<1>1. f \in [Requests -> Nat] /\ Unrecorded(p, c) = SumFunction(f) BY TallySums
<1>2. e \in [Requests -> Nat] /\ Unrecorded(p, c)' = SumFunction(e)
 <2>1. e \in [Requests -> Nat]
  <3> SUFFICES ASSUME NEW o \in Requests PROVE Tallied(o, p, c)' \in Nat OBVIOUS
  <3>1. req'[o].at = "vote.tally" => req'[o].row \in Rows BY DEF TypeOK, Locals, Executing
  <3> QED BY <3>1 DEF Tallied, At, WeightFor, Rows
 <2>2. Unrecorded(p, c)' = SumFunction(e) BY DEF Unrecorded, Tallied
 <2> QED BY <2>1, <2>2
<1>3. \A o \in Requests \ {r} : e[o] = f[o] BY DEF Tallied, At
<1>4. f[r] = Tallied(r, p, c) /\ e[r] = Tallied(r, p, c)' OBVIOUS
<1> HIDE DEF e, f
<1>5. SumFunction(e) + f[r] = SumFunction(f) + e[r]
  BY <1>1, <1>2, <1>3, FunctionSumOfChange, ServiceAssumption DEF ServiceAssumption
<1> QED BY <1>1, <1>2, <1>4, <1>5

\* A step adds to a tally what it has tallied, and to the ledger what it
\* has tallied no more; only a persist that rejects forgets it, and only a
\* second create, or an execution after it, puts another tally in its place.
Carried(r, p, c) ==
  /\ proposal'[p].tally[c] >= proposal[p].tally[c]
  /\ proposal'[p].tally[c] + Tallied(r, p, c) + Recorded(p, c)
       = proposal[p].tally[c] + Tallied(r, p, c)' + Recorded(p, c)'

Forgotten(r, p, c) ==
  /\ failing
  /\ proposal'[p].tally[c] = proposal[p].tally[c]
  /\ Recorded(p, c)' = Recorded(p, c)
  /\ Tallied(r, p, c)' = 0

Replaced(r, p, c) ==
  /\ p \in reused'
  /\ Recorded(p, c)' = Recorded(p, c)
  /\ Tallied(r, p, c) = 0 /\ Tallied(r, p, c)' = 0
  /\ \/ proposal'[p].tally[c] = 0
     \/ At(r, "execute.receipt", p) /\ proposal'[p].tally[c] = req[r].read.tally[c]

LEMMA StepCarries ==
  ASSUME Inv, TypeOK', NEW r \in Requests, Start(r) \/ Resume(r), UNCHANGED failing,
         NEW p \in ProposalIds, NEW c \in VoteChoice
  PROVE  /\ \A other \in Requests \ {r} : req'[other] = req[other]
         /\ Carried(r, p, c) \/ Forgotten(r, p, c) \/ Replaced(r, p, c)
<1> DEFINE Others == \A other \in Requests \ {r} : req'[other] = req[other]
           Goal == Others /\ (Carried(r, p, c) \/ Forgotten(r, p, c) \/ Replaced(r, p, c))
<1> USE DEF Inv
<1>1. /\ proposal[p].tally[c] \in Nat /\ Recorded(p, c) \in Nat
      /\ proposal'[p].tally[c] \in Nat
 <2>1. proposal'[p].tally[c] \in Nat BY DEF TypeOK, Proposals, Tallies
 <2> QED BY <2>1, TallySums
<1>2. UNCHANGED ledger => Recorded(p, c)' = Recorded(p, c) BY DEF Recorded
<1>3. ASSUME req[r].at # "vote.tally", req'[r].at # "vote.tally", Others, UNCHANGED ledger,
             proposal'[p].tally[c] = proposal[p].tally[c]
      PROVE  Goal BY <1>3, <1>1, <1>2 DEF Tallied, At, Carried
<1>4. ASSUME LastAwait(r), req[r].at # "vote.tally", UNCHANGED <<proposal, ledger>> PROVE Goal
  BY <1>4, LastAwaitType, <1>3
<1>5. ASSUME NEW q \in ProposalIds, NEW kind \in ProposalKind, NEW amount \in Amounts,
             CreateProposal(r, q, kind, amount)
      PROVE  Goal
 <2>1. req[r].at # "vote.tally" /\ req'[r].at # "vote.tally" /\ Others /\ UNCHANGED ledger
   BY <1>5 DEF CreateProposal, Awaits, Idle, TypeOK
 <2>2. CASE q # p
  <3>1. proposal'[p].tally[c] = proposal[p].tally[c] BY <1>5, <2>2 DEF CreateProposal, TypeOK
  <3> QED BY <1>3, <2>1, <3>1
 <2>3. CASE q = p
  <3>1. proposal'[p].tally = NoVotes BY <1>5, <2>3 DEF CreateProposal, TypeOK, NoProposal
  <3>2. CASE proposal[p].status = "none"
   <4>1. proposal[p].tally = NoVotes BY <3>2 DEF Untouched, NoProposal
   <4> QED BY <1>3, <2>1, <3>1, <4>1
  <3>3. CASE proposal[p].status # "none"
   <4>1. p \in reused' BY <1>5, <2>3, <3>3 DEF CreateProposal
   <4>2. proposal'[p].tally[c] = 0 BY <3>1 DEF NoVotes
   <4> QED BY <1>2, <2>1, <4>1, <4>2 DEF Replaced, Tallied, At
  <3> QED BY <3>2, <3>3
 <2> QED BY <2>2, <2>3
<1>6. ASSUME NEW q \in ProposalIds, NEW w \in Wallets, NEW k \in Ballots, CastVote(r, q, w, k)
      PROVE  Goal
 <2> DEFINE weight == EffectiveVotingPower(w)
            row == [wallet |-> w, choice |-> k, weight |-> weight]
 <2>1. weight \in Nat BY PowerType
 <2>2. /\ req[r] = Idle /\ UNCHANGED ledger
       /\ proposal' = [proposal EXCEPT ![q] = WithVote(@, k, weight)]
       /\ Awaits(r, [at |-> "vote.tally", p |-> q, row |-> row])
   BY <1>6 DEF CastVote
 <2> HIDE DEF weight
 <2>3. Others /\ req'[r] = [at |-> "vote.tally", p |-> q, row |-> row] BY <2>2 DEF Awaits, TypeOK
 <2>4. Tallied(r, p, c) = 0 BY <2>2 DEF Tallied, At, Idle
 <2>5. Tallied(r, p, c)' = IF q = p /\ k = c THEN weight ELSE 0 BY <2>3 DEF Tallied, At, WeightFor
 <2>6. proposal'[p].tally[c] = proposal[p].tally[c] + IF q = p /\ k = c THEN weight ELSE 0
  <3>1. CASE q = p
   <4>1. proposal[p] \in Proposals /\ proposal[p].tally \in Tallies /\ k \in VoteChoice
     BY ServiceAssumption DEF TypeOK, Proposals, ServiceAssumption
   <4>2. proposal'[p].tally = [proposal[p].tally EXCEPT ![k] = @ + weight]
     BY <2>2, <3>1, <4>1 DEF TypeOK, WithVote, Proposals
   <4> QED BY <1>1, <2>1, <3>1, <4>1, <4>2 DEF Tallies
  <3>2. CASE q # p BY <1>1, <2>2, <3>2 DEF TypeOK
  <3> QED BY <3>1, <3>2
 <2> QED BY <1>1, <1>2, <2>1, <2>2, <2>3, <2>4, <2>5, <2>6 DEF Carried
<1>7. CASE VoteLedger(r)
 <2> DEFINE q == req[r].p
            row == req[r].row
 <2>1. q \in ProposalIds /\ row \in Rows /\ req[r].at = "vote.tally" BY <1>7, LocalsType DEF VoteLedger
 <2>2. Others /\ req'[r].at = "return" BY <1>7, LastAwaitType DEF VoteLedger
 <2>3. proposal' = proposal /\ ledger' = [ledger EXCEPT ![q] = Append(@, row)] BY <1>7 DEF VoteLedger
 <2>4. Tallied(r, p, c) = (IF q = p THEN WeightFor(row, c) ELSE 0) /\ Tallied(r, p, c)' = 0
   BY <2>1, <2>2 DEF Tallied, At
 <2>5. Recorded(p, c)' = Recorded(p, c) + IF q = p THEN WeightFor(row, c) ELSE 0
  <3>1. ledger[p] \in Seq(Rows) /\ Recorded(p, c) = SumFunction(Weights(ledger[p], c)) BY TallySums DEF TypeOK
  <3>2. Recorded(p, c)' = SumFunction(Weights(ledger'[p], c)) BY DEF Recorded, Weights
  <3>3. CASE q = p
   <4>1. ledger'[p] = Append(ledger[p], row) BY <2>1, <2>3, <3>3 DEF TypeOK
   <4> HIDE DEF row, q
   <4>2. SumFunction(Weights(Append(ledger[p], row), c))
           = SumFunction(Weights(ledger[p], c)) + WeightFor(row, c)
     BY <2>1, <3>1, WeightsOfOneMore
   <4> QED BY <3>1, <3>2, <3>3, <4>1, <4>2
  <3>4. CASE q # p BY <2>3, <3>4, <1>1, <3>1, <3>2 DEF TypeOK
  <3> QED BY <3>3, <3>4
 <2>6. WeightFor(row, c) \in Nat BY <2>1 DEF WeightFor, Rows
 <2> HIDE DEF row, q
 <2> QED BY <1>1, <2>2, <2>3, <2>4, <2>5, <2>6 DEF Carried
<1>8. ASSUME NEW q \in ProposalIds, FinalizeProposal(r, q) PROVE Goal
 <2>1. req[r].at # "vote.tally" /\ req'[r].at # "vote.tally" /\ Others /\ UNCHANGED ledger
   BY <1>8 DEF FinalizeProposal, Awaits, Idle, TypeOK
 <2>2. proposal'[p].tally = proposal[p].tally BY <1>8 DEF FinalizeProposal, Finalized, TypeOK, Proposals
 <2> QED BY <1>3, <2>1, <2>2
<1>9. CASE FinalizeDiscovery(r)
 <2>1. req[r] \in Locals /\ req[r].at = "finalize.proposal" BY <1>9 DEF FinalizeDiscovery, TypeOK
 <2>2. CASE LastAwait(r) BY <1>4, <1>9, <2>1, <2>2 DEF FinalizeDiscovery
 <2>3. CASE Awaits(r, [req[r] EXCEPT !.at = "finalize.discovery"])
  <3> DEFINE l == [req[r] EXCEPT !.at = "finalize.discovery"]
  <3>1. l \in Locals /\ l.at = "finalize.discovery" BY <2>1, LocalsType DEF Locals, Executing
  <3> HIDE DEF l
  <3>2. req'[r] = l /\ Others BY <2>3, <3>1, AwaitsType DEF l
  <3> QED BY <1>3, <1>9, <2>1, <3>1, <3>2 DEF FinalizeDiscovery
 <2> QED BY <1>9, <2>2, <2>3 DEF FinalizeDiscovery
<1>10. ASSUME NEW q \in ProposalIds, ExecuteReceipt(r, q) PROVE Goal
  BY <1>3, <1>10 DEF ExecuteReceipt, Awaits, Idle, TypeOK
<1>11. CASE ExecuteProposal(r) \/ ExecuteSpend(r)
 <2>1. req[r].at \in Executing /\ req[r].p \in ProposalIds
   BY <1>11, LocalsType DEF ExecuteProposal, ExecuteSpend, Executing
 <2>2. UNCHANGED ledger /\ Others /\ req'[r].at # "vote.tally" /\ req[r].at # "vote.tally"
  <3> DEFINE l(at) == [at |-> at, p |-> req[r].p, read |-> req[r].read]
  <3>1. \A at \in Executing : [req[r] EXCEPT !.at = at] = l(at) BY <2>1, LocalsType
  <3>2. Awaits(r, l("execute.proposal")) \/ Awaits(r, l("execute.spend"))
    BY <1>11, <3>1 DEF ExecuteProposal, ExecuteSpend, Executing
  <3>3. Others /\ req'[r].at \in Executing BY <3>2 DEF Awaits, Executing, TypeOK
  <3> QED BY <1>11, <2>1, <3>3 DEF ExecuteProposal, ExecuteSpend, Executing
 <2>3. CASE ExecuteSpend(r) BY <1>3, <2>2, <2>3 DEF ExecuteSpend
 <2>4. CASE ExecuteProposal(r)
  <3>1. /\ req[r].at = "execute.receipt" /\ req[r].read \in Proposals /\ reused' = reused
        /\ Firm(req[r].p) => req[r].read.tally = proposal[req[r].p].tally
    BY <2>1, <2>4, LocalsType DEF ExecuteProposal, StillHolds, Executing
  <3>2. proposal'[p].tally = IF p = req[r].p THEN req[r].read.tally ELSE proposal[p].tally
    BY <2>1, <2>4, <3>1 DEF ExecuteProposal, TypeOK, Proposals
  <3>3. CASE p # req[r].p \/ Firm(p) BY <1>3, <2>2, <3>1, <3>2, <3>3
  <3>4. CASE p = req[r].p /\ ~Firm(p) BY <1>2, <2>2, <3>1, <3>2, <3>4 DEF Replaced, Firm, Tallied, At
  <3> QED BY <3>3, <3>4
 <2> QED BY <1>11, <2>3, <2>4
<1>12. CASE Return(r) BY <1>3, <1>12 DEF Return, store, Idle, TypeOK
<1>13. CASE PersistRejects(r)
 <2>1. failing /\ proposal' = proposal /\ ledger' = ledger /\ req' = [req EXCEPT ![r] = Idle]
   BY <1>13 DEF PersistRejects, store
 <2>2. Others /\ Tallied(r, p, c)' = 0 BY <2>1 DEF Tallied, At, Idle, TypeOK
 <2> QED BY <1>2, <2>1, <2>2 DEF Forgotten
<1>14. CASE Start(r)
  BY <1>14, <1>4, <1>5, <1>6, <1>8, <1>10
     DEF Start, Started, RegisterMember, UpdateMember, DelegateVotePower, RevokeDelegate, Idle
<1>15. CASE Resume(r)
  BY <1>15, <1>4, <1>7, <1>9, <1>11, <1>12, <1>13
     DEF Resume, CreateRecommendations, FinalizeMemory, ExecuteMemory
<1> QED BY <1>14, <1>15

\* What an execution reads is the proposal of that moment.
LEMMA ReadAsItIs ==
  ASSUME TypeOK, NEW r \in Requests, Start(r) \/ Resume(r), NEW p, At(r, "execute.receipt", p)'
  PROVE  req'[r].read = proposal[p]
<1>1. ASSUME LastAwait(r) PROVE FALSE BY <1>1, LastAwaitType DEF At
<1>2. ASSUME NEW q \in ProposalIds, ExecuteReceipt(r, q) PROVE req'[r].read = proposal[p]
  BY <1>2 DEF ExecuteReceipt, Awaits, At, TypeOK
<1>3. CASE Start(r)
 <2>1. ASSUME NEW q \in ProposalIds, NEW kind \in ProposalKind, NEW amount \in Amounts,
              CreateProposal(r, q, kind, amount)
       PROVE  FALSE BY <2>1 DEF CreateProposal, Awaits, At, TypeOK
 <2>2. ASSUME NEW q \in ProposalIds, NEW w \in Wallets, NEW c \in Ballots, CastVote(r, q, w, c)
       PROVE  FALSE BY <2>2 DEF CastVote, Awaits, At, TypeOK
 <2>3. ASSUME NEW q \in ProposalIds, FinalizeProposal(r, q)
       PROVE  FALSE BY <2>3 DEF FinalizeProposal, Awaits, At, TypeOK
 <2> QED
   BY <1>1, <1>2, <1>3, <2>1, <2>2, <2>3
      DEF Start, Started, RegisterMember, UpdateMember, DelegateVotePower, RevokeDelegate
<1>4. ASSUME FinalizeDiscovery(r) \/ ExecuteProposal(r) \/ ExecuteSpend(r) PROVE FALSE
 <2>1. PICK at \in {"finalize.discovery", "execute.proposal", "execute.spend"} :
         Awaits(r, [req[r] EXCEPT !.at = at])
   BY <1>1, <1>4 DEF FinalizeDiscovery, ExecuteProposal, ExecuteSpend
 <2>2. req[r] \in Locals BY DEF TypeOK
 <2>3. [req[r] EXCEPT !.at = at].at = at BY <2>2 DEF Locals, Executing
 <2> QED BY <2>1, <2>3 DEF Awaits, At, TypeOK
<1>5. CASE Resume(r)
  BY <1>1, <1>4, <1>5
     DEF Resume, CreateRecommendations, VoteLedger, FinalizeMemory, ExecuteMemory, Return,
         PersistRejects, Idle, At, TypeOK
<1> QED BY <1>3, <1>5

\* What an execution has read is never more than is accounted for.
ReadsAccounted ==
  ~failing => \A r \in Requests, p \in ProposalIds, c \in VoteChoice :
    At(r, "execute.receipt", p) => req[r].read.tally[c] <= Recorded(p, c) + Unrecorded(p, c)

LEMMA InitTallies == Init => TallyAccountsForVotes
<1> SUFFICES ASSUME Init, NEW p \in ProposalIds, NEW c \in VoteChoice
             PROVE  /\ proposal[p].tally[c] = 0
                    /\ Recorded(p, c) = 0
                    /\ Unrecorded(p, c) = 0
  BY DEF TallyAccountsForVotes
<1>1. TypeOK BY InitInv DEF Inv
<1>2. proposal[p].tally[c] = 0 BY DEF Init, NoProposal, NoVotes
<1>3. Recorded(p, c) = 0
 <2> DEFINE f == Weights(ledger[p], c)
 <2>1. ledger[p] = << >> /\ ledger[p] \in Seq(Rows) BY <1>1 DEF Init, TypeOK
 <2>2. IsFiniteSet(1..Len(ledger[p])) /\ f \in [1..Len(ledger[p]) -> Nat] BY <2>1, WeightsType
 <2>3. \A i \in 1..Len(ledger[p]) : f[i] = 0 BY <2>1
 <2> HIDE DEF f
 <2>4. SumFunction(f) = 0 BY <2>2, <2>3, FunctionSumOfZeros
 <2> QED BY <1>1, <2>4, TallySums DEF f
<1>4. Unrecorded(p, c) = 0
 <2> DEFINE f == [r \in Requests |-> Tallied(r, p, c)]
 <2>1. f \in [Requests -> Nat] /\ Unrecorded(p, c) = SumFunction(f) BY <1>1, TallySums
 <2>2. \A r \in Requests : f[r] = 0 BY DEF Init, Idle, Tallied, At
 <2> HIDE DEF f
 <2> QED BY <2>1, <2>2, FunctionSumOfZeros, ServiceAssumption DEF ServiceAssumption
<1> QED BY <1>2, <1>3, <1>4

TalliesAreNat == \A p \in ProposalIds, c \in VoteChoice :
  Recorded(p, c) \in Nat /\ Unrecorded(p, c) \in Nat /\ proposal[p].tally[c] \in Nat

LEMMA TallyTypes == TypeOK => TalliesAreNat
  BY TallySums DEF TalliesAreNat

LEMMA NextTallies ==
  ASSUME Inv, TallyAccountsForVotes, ReadsAccounted, [Next]_vars
  PROVE  TallyAccountsForVotes' /\ ReadsAccounted'
<1>1. CASE UNCHANGED vars BY <1>1 DEF vars, store, TallyAccountsForVotes, ReadsAccounted, Recorded, Unrecorded, At
<1>2. CASE Next
 <2>1. PICK r \in Requests : Start(r) \/ Resume(r) BY <1>2 DEF Next
 <2>2. UNCHANGED failing /\ TypeOK' /\ failing \in BOOLEAN BY <1>2, NextType DEF Next, Inv, TypeOK
 <2>3. ASSUME NEW p \in ProposalIds, NEW c \in VoteChoice
       PROVE  LET before == Recorded(p, c) + Unrecorded(p, c)
                  after == Recorded(p, c)' + Unrecorded(p, c)'
              IN /\ ~failing => proposal'[p].tally[c] <= after
                 /\ p \notin reused' => proposal'[p].tally[c] >= after
                 /\ ~failing => before <= after
                 /\ \A s \in Requests :
                      ~failing /\ At(s, "execute.receipt", p)' => req'[s].read.tally[c] <= after
  <3>1. /\ \A other \in Requests \ {r} : req'[other] = req[other]
        /\ Carried(r, p, c) \/ Forgotten(r, p, c) \/ Replaced(r, p, c)
    BY <2>1, <2>2, StepCarries
  <3>2. /\ Tallied(r, p, c) \in Nat /\ Tallied(r, p, c)' \in Nat
        /\ Unrecorded(p, c)' + Tallied(r, p, c) = Unrecorded(p, c) + Tallied(r, p, c)'
    BY <2>2, <3>1, UnrecordedStep DEF Inv
  <3>3. Recorded(p, c) \in Nat /\ Unrecorded(p, c) \in Nat /\ proposal[p].tally[c] \in Nat BY TallySums DEF Inv
  <3>4. Recorded(p, c)' \in Nat /\ Unrecorded(p, c)' \in Nat /\ proposal'[p].tally[c] \in Nat
   <4>1. TalliesAreNat' BY <2>2, TallyTypes, PTL
   <4> QED BY <4>1 DEF TalliesAreNat
  <3>5. /\ ~failing => proposal[p].tally[c] <= Recorded(p, c) + Unrecorded(p, c)
        /\ p \notin reused => proposal[p].tally[c] >= Recorded(p, c) + Unrecorded(p, c)
        /\ p \in reused => p \in reused'
    BY <2>1, ReusedGrows DEF TallyAccountsForVotes
  <3>6. ASSUME ~failing, At(r, "execute.receipt", p)
        PROVE  /\ req[r].read.tally[c] \in Nat
               /\ req[r].read.tally[c] <= Recorded(p, c) + Unrecorded(p, c)
   <4>1. req[r].read \in Proposals BY <3>6, LocalsType DEF Inv, At, Executing
   <4> QED BY <3>6, <4>1 DEF ReadsAccounted, Proposals, Tallies
  <3>7. /\ ~failing => proposal'[p].tally[c] <= Recorded(p, c)' + Unrecorded(p, c)'
        /\ p \notin reused' => proposal'[p].tally[c] >= Recorded(p, c)' + Unrecorded(p, c)'
        /\ ~failing => Recorded(p, c) + Unrecorded(p, c) <= Recorded(p, c)' + Unrecorded(p, c)'
   <4>1. CASE Carried(r, p, c) BY <3>2, <3>3, <3>4, <3>5, <4>1 DEF Carried
   <4>2. CASE Forgotten(r, p, c) BY <3>2, <3>3, <3>4, <3>5, <4>2 DEF Forgotten
   <4>3. CASE Replaced(r, p, c) BY <3>2, <3>3, <3>4, <3>6, <4>3 DEF Replaced
   <4> QED BY <3>1, <4>1, <4>2, <4>3
  <3>8. ASSUME NEW s \in Requests, ~failing, At(s, "execute.receipt", p)'
        PROVE  req'[s].read.tally[c] <= Recorded(p, c)' + Unrecorded(p, c)'
   <4>1. CASE s = r
    <5>1. req'[r].read = proposal[p] BY <2>1, <3>8, <4>1, ReadAsItIs DEF Inv
    <5> QED BY <3>3, <3>4, <3>5, <3>7, <3>8, <4>1, <5>1
   <4>2. CASE s # r
    <5>1. req'[s] = req[s] /\ At(s, "execute.receipt", p) BY <3>1, <3>8, <4>2 DEF At
    <5>2. req[s].read \in Proposals BY <5>1, LocalsType DEF Inv, At, Executing
    <5>3. req[s].read.tally[c] \in Nat BY <5>2 DEF Proposals, Tallies
    <5>4. req[s].read.tally[c] <= Recorded(p, c) + Unrecorded(p, c) BY <3>8, <5>1 DEF ReadsAccounted
    <5> QED BY <3>3, <3>4, <3>7, <3>8, <5>1, <5>3, <5>4
   <4> QED BY <4>1, <4>2
  <3> QED BY <3>7, <3>8
 <2> QED BY <2>2, <2>3 DEF TallyAccountsForVotes, ReadsAccounted
<1> QED BY <1>1, <1>2

----
\* The treasury spend.

Owing(p) == {r \in Requests : Owes(r, p)}
Due(p) == receipts[p] * Amount(p)

LEMMA Products ==
  \A n, k \in Nat : /\ n * k \in Nat /\ 0 * k = 0 /\ n * 0 = 0
                    /\ (n + 1) * k = n * k + k
  OBVIOUS

SpendTypes ==
  /\ \A p \in ProposalIds :
       /\ IsFiniteSet(Owing(p)) /\ Cardinality(Owing(p)) \in Nat
       /\ Amount(p) \in Nat /\ receipts[p] \in Nat
       /\ Due(p) \in Nat /\ Unspent(p) \in Nat
       /\ Unspent(p) = Cardinality(Owing(p)) * Amount(p)
  /\ SumFunction([p \in ProposalIds |-> Due(p)]) \in Nat
  /\ SumFunction([p \in ProposalIds |-> Unspent(p)]) \in Nat

LEMMA SpendTyped == TypeOK => SpendTypes
<1> SUFFICES ASSUME TypeOK PROVE SpendTypes OBVIOUS
<1>1. ASSUME NEW p \in ProposalIds
      PROVE  /\ IsFiniteSet(Owing(p)) /\ Cardinality(Owing(p)) \in Nat
             /\ Amount(p) \in Nat /\ receipts[p] \in Nat
             /\ Due(p) \in Nat /\ Unspent(p) \in Nat
             /\ Unspent(p) = Cardinality(Owing(p)) * Amount(p)
 <2>1. IsFiniteSet(Owing(p))
   BY ServiceAssumption, FS_Subset, Owing(p) \in SUBSET Requests DEF ServiceAssumption, Owing
 <2>2. Cardinality(Owing(p)) \in Nat BY <2>1, FS_CardinalityType
 <2>3. Amount(p) \in Nat /\ receipts[p] \in Nat BY DEF Amount, TypeOK, Proposals
 <2>4. Unspent(p) = Cardinality(Owing(p)) * Amount(p) BY DEF Unspent, Owing
 <2> QED BY <2>1, <2>2, <2>3, <2>4, Products DEF Due
<1>2. SumFunction([p \in ProposalIds |-> Due(p)]) \in Nat
  BY <1>1, FunctionSumIsNat, ServiceAssumption DEF ServiceAssumption
<1>3. SumFunction([p \in ProposalIds |-> Unspent(p)]) \in Nat
  BY <1>1, FunctionSumIsNat, ServiceAssumption DEF ServiceAssumption
<1> QED BY <1>1, <1>2, <1>3 DEF SpendTypes

\* One request comes to owe an amount, or owes it no more.
LEMMA OwingStep ==
  ASSUME TypeOK, NEW r \in Requests, NEW p,
         \A other \in Requests \ {r} : req'[other] = req[other]
  PROVE  /\ Owes(r, p)' = Owes(r, p) => Owing(p)' = Owing(p)
         /\ ~Owes(r, p) /\ Owes(r, p)' => Cardinality(Owing(p)') = Cardinality(Owing(p)) + 1
         /\ Owes(r, p) /\ ~Owes(r, p)' => Cardinality(Owing(p)) = Cardinality(Owing(p)') + 1
<1>0. IsFiniteSet(Owing(p)) /\ IsFiniteSet(Owing(p)')
  BY ServiceAssumption, FS_Subset, Owing(p) \in SUBSET Requests, Owing(p)' \in SUBSET Requests
     DEF ServiceAssumption, Owing
<1>1. \A other \in Requests \ {r} : Owes(other, p)' = Owes(other, p) BY DEF Owes, At
<1>2. ASSUME Owes(r, p)' = Owes(r, p) PROVE Owing(p)' = Owing(p) BY <1>1, <1>2 DEF Owing
<1>3. ASSUME ~Owes(r, p), Owes(r, p)'
      PROVE  Cardinality(Owing(p)') = Cardinality(Owing(p)) + 1
  BY <1>1, <1>3, <1>0, FS_AddElement DEF Owing
<1>4. ASSUME Owes(r, p), ~Owes(r, p)'
      PROVE  Cardinality(Owing(p)) = Cardinality(Owing(p)') + 1
  BY <1>1, <1>4, <1>0, FS_AddElement DEF Owing
<1> QED BY <1>2, <1>3, <1>4

\* A step in which r comes to owe nothing new and no receipt for p is added.
LEMMA SameUnspent ==
  ASSUME Inv, TypeOK', Kept, NEW r \in Requests, NEW p \in ProposalIds,
         reused = {}, reused' = {},
         \A other \in Requests \ {r} : req'[other] = req[other],
         receipts'[p] = receipts[p], Owes(r, p)' = Owes(r, p)
  PROVE  Due(p)' = Due(p) /\ Unspent(p)' = Unspent(p)
<1> USE DEF Inv
<1>1. Owing(p)' = Owing(p) BY OwingStep
<1>2. SpendTypes /\ SpendTypes'
 <2>1. SpendTypes BY SpendTyped
 <2>2. SpendTypes' BY SpendTyped, PTL
 <2> QED BY <2>1, <2>2
<1>3. /\ Due(p) = receipts[p] * Amount(p) /\ Unspent(p) = Cardinality(Owing(p)) * Amount(p)
      /\ Due(p)' = receipts[p] * Amount(p)' /\ Unspent(p)' = Cardinality(Owing(p)) * Amount(p)'
  BY <1>1, <1>2 DEF SpendTypes, Due
<1>4. CASE proposal[p].status # "none" BY <1>4, <1>3 DEF Kept, KeptOf, Excused, Amount
<1>5. CASE proposal[p].status = "none"
 <2>1. receipts[p] = 0 BY <1>5 DEF Untouched
 <2>2. Owing(p) = {} BY <1>5 DEF Owing, Owes, At, StillHolds, Firm, Executing
 <2>3. Cardinality(Owing(p)) = 0 BY <2>2, FS_EmptySet
 <2>4. Amount(p) \in Nat /\ Amount(p)' \in Nat BY <1>2 DEF SpendTypes
 <2> QED BY <1>3, <2>1, <2>3, <2>4, Products
<1> QED BY <1>4, <1>5

\* What a step does to the spend: nothing, or something for one proposal
\* that its receipts and the executions still under way account for, or a
\* persist that rejects drops the spend of an execution.
SameFor(p) == Due(p)' = Due(p) /\ Unspent(p)' = Unspent(p)

Settled(q) ==
  /\ \A p \in ProposalIds \ {q} : SameFor(p)
  /\ spend' + Unspent(q)' + Due(q) = spend + Unspent(q) + Due(q)'

Dropped(q) ==
  /\ failing /\ spend' = spend
  /\ \A p \in ProposalIds \ {q} : SameFor(p)
  /\ Due(q)' = Due(q) /\ Unspent(q)' <= Unspent(q)

Accounted ==
  \/ spend' = spend /\ \A p \in ProposalIds : SameFor(p)
  \/ \E q \in ProposalIds : Settled(q) \/ Dropped(q)

LEMMA StepAccounts ==
  ASSUME Inv, TypeOK', Kept, NEW r \in Requests, Start(r) \/ Resume(r), reused' = {}
  PROVE  Accounted
<1> USE DEF Inv
<1> DEFINE Others == \A other \in Requests \ {r} : req'[other] = req[other]
<1>0. reused = {} BY ReusedGrows
<1>1. SpendTypes /\ SpendTypes'
 <2>1. SpendTypes BY SpendTyped
 <2>2. SpendTypes' BY SpendTyped, PTL
 <2> QED BY <2>1, <2>2
\* Actions that leave receipts, spend and what is owed alone.
<1>2. ASSUME Others, receipts' = receipts, spend' = spend,
             \A p \in ProposalIds : Owes(r, p)' = Owes(r, p)
      PROVE  Accounted
  BY <1>2, <1>0, SameUnspent DEF Accounted, SameFor
<1>3. ASSUME Others, receipts' = receipts, spend' = spend,
             req[r].at \notin {"execute.receipt", "execute.proposal"},
             req'[r].at \notin {"execute.receipt", "execute.proposal"}
      PROVE  Accounted
  BY <1>2, <1>3 DEF Owes, At
<1>4. ASSUME LastAwait(r), receipts' = receipts, spend' = spend,
             req[r].at \notin {"execute.receipt", "execute.proposal"}
      PROVE  Accounted
  BY <1>3, <1>4, LastAwaitType
<1>5. ASSUME NEW p \in ProposalIds, NEW kind \in ProposalKind, NEW amount \in Amounts,
             CreateProposal(r, p, kind, amount)
      PROVE  Accounted
  BY <1>3, <1>5 DEF CreateProposal, Awaits, Idle, TypeOK
<1>6. ASSUME NEW p \in ProposalIds, NEW w \in Wallets, NEW c \in Ballots, CastVote(r, p, w, c)
      PROVE  Accounted
  BY <1>3, <1>6 DEF CastVote, Awaits, Idle, TypeOK
<1>7. ASSUME NEW p \in ProposalIds, FinalizeProposal(r, p) PROVE Accounted
  BY <1>3, <1>7 DEF FinalizeProposal, Awaits, Idle, TypeOK
<1>8. CASE FinalizeDiscovery(r)
 <2> DEFINE l == [req[r] EXCEPT !.at = "finalize.discovery"]
 <2>1. l \in Locals /\ l.at = "finalize.discovery"
  <3>1. req[r] \in Locals /\ req[r].at = "finalize.proposal" BY <1>8 DEF FinalizeDiscovery, TypeOK
  <3> QED BY <3>1, LocalsType DEF Locals, Executing
 <2>2. LastAwait(r) \/ Awaits(r, l) BY <1>8 DEF FinalizeDiscovery
 <2> HIDE DEF l
 <2>3. Others /\ req'[r].at \in {"return", "finalize.discovery"} BY <2>1, <2>2, AwaitsType, LastAwaitType
 <2> QED BY <1>3, <1>8, <2>3 DEF FinalizeDiscovery
<1>9. ASSUME NEW q \in ProposalIds, ExecuteReceipt(r, q) PROVE Accounted
 <2>1. /\ req[r] = Idle /\ req'[r] = [at |-> "execute.receipt", p |-> q, read |-> proposal[q]]
       /\ Others /\ proposal' = proposal /\ spend' = spend
       /\ receipts' = [receipts EXCEPT ![q] = @ + 1]
   BY <1>9 DEF ExecuteReceipt, Awaits, TypeOK
 <2>2. \A p \in ProposalIds \ {q} : SameFor(p)
  <3> SUFFICES ASSUME NEW p \in ProposalIds \ {q} PROVE SameFor(p) OBVIOUS
  <3>1. receipts'[p] = receipts[p] /\ Owes(r, p)' = Owes(r, p) BY <2>1 DEF Owes, At, Idle, TypeOK
  <3> QED BY <2>1, <3>1, <1>0, SameUnspent DEF SameFor
 <2>3. ~Owes(r, q) /\ Owes(r, q)' BY <2>1 DEF Owes, At, Idle
 <2>4. Cardinality(Owing(q)') = Cardinality(Owing(q)) + 1 BY <2>1, <2>3, OwingStep
 <2>5. Amount(q)' = Amount(q) /\ receipts'[q] = receipts[q] + 1 BY <2>1 DEF Amount, TypeOK
 <2>6. /\ Unspent(q) = Cardinality(Owing(q)) * Amount(q)
       /\ Unspent(q)' = (Cardinality(Owing(q)) + 1) * Amount(q)
       /\ Due(q) = receipts[q] * Amount(q) /\ Due(q)' = (receipts[q] + 1) * Amount(q)
   BY <1>1, <2>4, <2>5 DEF SpendTypes, Due
 <2>7. /\ Cardinality(Owing(q)) \in Nat /\ receipts[q] \in Nat /\ Amount(q) \in Nat
       /\ Unspent(q) \in Nat /\ Due(q) \in Nat /\ spend \in Nat
   BY <1>1 DEF SpendTypes, TypeOK
 <2>8. Unspent(q)' = Unspent(q) + Amount(q) /\ Due(q)' = Due(q) + Amount(q) BY <2>6, <2>7, Products
 <2>9. spend' + Unspent(q)' + Due(q) = spend + Unspent(q) + Due(q)' BY <2>1, <2>7, <2>8
 <2> QED BY <2>2, <2>9 DEF Accounted, Settled
<1>10. ASSUME req[r].at \in Executing
       PROVE  /\ req[r].p \in ProposalIds /\ req[r].read \in Proposals
              /\ SpentBy(req[r].read) = Amount(req[r].p)
  BY <1>0, <1>10, LocalsType DEF StillHolds, Firm, SpentBy, Amount
<1>11. CASE ExecuteProposal(r)
 <2>1. /\ req[r].at = "execute.receipt" /\ req[r].p \in ProposalIds
       /\ receipts' = receipts /\ spend' = spend
   BY <1>10, <1>11 DEF ExecuteProposal, Executing
 <2>2. Others /\ req'[r] = [at |-> "execute.proposal", p |-> req[r].p, read |-> req[r].read]
   BY <1>11, <2>1, LocalsType DEF ExecuteProposal, Awaits, Executing, TypeOK
 <2> QED BY <1>2, <2>1, <2>2 DEF Owes, At
\* The execution at q owes its amount no more.
<1>12. ASSUME NEW q \in ProposalIds, At(r, "execute.proposal", q),
              req'[r].at \notin {"execute.receipt", "execute.proposal"},
              Others, receipts' = receipts, proposal' = proposal
       PROVE  /\ \A p \in ProposalIds \ {q} : SameFor(p)
              /\ Due(q)' = Due(q) /\ Amount(q) \in Nat
              /\ Due(q) \in Nat /\ Unspent(q)' \in Nat
              /\ Unspent(q) = Unspent(q)' + Amount(q)
 <2>1. Owes(r, q) /\ ~Owes(r, q)' BY <1>12 DEF Owes, At
 <2>2. \A p \in ProposalIds \ {q} : SameFor(p) BY <1>12, <1>0, SameUnspent DEF Owes, At, SameFor
 <2>3. Cardinality(Owing(q)) = Cardinality(Owing(q)') + 1 BY <1>12, <2>1, OwingStep
 <2>4. Amount(q)' = Amount(q) /\ Due(q)' = Due(q) BY <1>12 DEF Amount, Due
 <2>5. /\ Unspent(q) = Cardinality(Owing(q)) * Amount(q)
       /\ Unspent(q)' = Cardinality(Owing(q)') * Amount(q)'
       /\ Cardinality(Owing(q)') \in Nat /\ Amount(q) \in Nat
       /\ Due(q) \in Nat /\ Unspent(q)' \in Nat
   BY <1>1 DEF SpendTypes
 <2>6. Unspent(q) = Unspent(q)' + Amount(q) BY <2>3, <2>4, <2>5, Products
 <2> QED BY <2>2, <2>4, <2>5, <2>6
<1>13. CASE ExecuteSpend(r)
 <2>1. /\ req[r].at = "execute.proposal" /\ receipts' = receipts /\ proposal' = proposal
       /\ spend' = spend + SpentBy(req[r].read)
   BY <1>13 DEF ExecuteSpend
 <2>2. PICK q \in ProposalIds : At(r, "execute.proposal", q) /\ SpentBy(req[r].read) = Amount(q)
   BY <1>10, <2>1 DEF At, Executing
 <2>3. Others /\ req'[r].at = "execute.spend" BY <1>13, <2>1, LocalsType DEF ExecuteSpend, Awaits, Executing, TypeOK
 <2>4. /\ \A p \in ProposalIds \ {q} : SameFor(p)
       /\ Due(q)' = Due(q) /\ Amount(q) \in Nat /\ Due(q) \in Nat /\ Unspent(q)' \in Nat
       /\ Unspent(q) = Unspent(q)' + Amount(q)
   BY <1>12, <2>1, <2>2, <2>3
 <2>5. spend \in Nat BY DEF TypeOK
 <2>6. spend' + Unspent(q)' + Due(q) = spend + Unspent(q) + Due(q)' BY <2>1, <2>2, <2>4, <2>5
 <2> QED BY <2>4, <2>6 DEF Accounted, Settled
<1>14. CASE ExecuteMemory(r)
 <2>1. LastAwait(r) /\ receipts' = receipts /\ spend' = spend /\ proposal' = proposal BY <1>14 DEF ExecuteMemory
 <2>2. CASE req[r].at = "execute.spend" BY <1>4, <2>1, <2>2
 <2>3. CASE req[r].at = "execute.proposal" /\ SpentBy(req[r].read) = 0
  <3>1. PICK q \in ProposalIds : At(r, "execute.proposal", q) /\ Amount(q) = 0 BY <1>10, <2>3 DEF At, Executing
  <3>2. Others /\ req'[r].at = "return" BY <2>1, LastAwaitType
  <3>3. /\ \A p \in ProposalIds \ {q} : SameFor(p)
        /\ Due(q)' = Due(q) /\ Unspent(q)' \in Nat
        /\ Unspent(q) = Unspent(q)' + Amount(q)
    BY <1>12, <2>1, <3>1, <3>2
  <3>4. SameFor(q) BY <3>1, <3>3 DEF SameFor
  <3> QED BY <2>1, <3>3, <3>4 DEF Accounted
 <2> QED BY <1>14, <2>2, <2>3 DEF ExecuteMemory
<1>15. CASE Return(r) BY <1>3, <1>15 DEF Return, store, Idle, TypeOK
<1>16. CASE PersistRejects(r)
 <2>1. /\ failing /\ receipts' = receipts /\ proposal' = proposal /\ spend' = spend
       /\ req'[r].at = "idle" /\ Others
   BY <1>16 DEF PersistRejects, store, Idle, TypeOK
 <2>2. CASE \A p \in ProposalIds : ~Owes(r, p) BY <1>2, <2>1, <2>2 DEF Owes, At
 <2>3. ASSUME NEW q \in ProposalIds, Owes(r, q) PROVE Accounted
  <3>1. req[r].p = q /\ \A p \in ProposalIds \ {q} : ~Owes(r, p) BY <2>3 DEF Owes, At
  <3>2. \A p \in ProposalIds : ~Owes(r, p)' BY <2>1 DEF Owes, At
  <3>3. \A p \in ProposalIds \ {q} : SameFor(p) BY <3>1, <3>2, <2>1, <1>0, SameUnspent DEF Owes, At, SameFor
  <3>4. Cardinality(Owing(q)) = Cardinality(Owing(q)') + 1 BY <2>1, <2>3, <3>2, OwingStep
  <3>5. Amount(q)' = Amount(q) /\ Due(q)' = Due(q) BY <2>1 DEF Amount, Due
  <3>6. /\ Unspent(q) = Cardinality(Owing(q)) * Amount(q)
        /\ Unspent(q)' = Cardinality(Owing(q)') * Amount(q)'
        /\ Cardinality(Owing(q)') \in Nat /\ Amount(q) \in Nat /\ Unspent(q)' \in Nat
    BY <1>1 DEF SpendTypes
  <3>7. Unspent(q) = Unspent(q)' + Amount(q) BY <3>4, <3>5, <3>6, Products
  <3>8. Unspent(q)' <= Unspent(q) BY <3>6, <3>7
  <3> QED BY <2>1, <3>3, <3>5, <3>8 DEF Accounted, Dropped
 <2> QED BY <2>2, <2>3
<1>17. CASE Start(r)
  BY <1>17, <1>4, <1>5, <1>6, <1>7, <1>9
     DEF Start, Started, RegisterMember, UpdateMember, DelegateVotePower, RevokeDelegate, Idle
<1>18. CASE Resume(r)
  BY <1>18, <1>4, <1>8, <1>11, <1>13, <1>14, <1>15, <1>16
     DEF Resume, CreateRecommendations, VoteLedger, FinalizeMemory
<1> QED BY <1>17, <1>18

Dues(P) == SumFunction([p \in P |-> Due(p)])
Pending(P) == SumFunction([p \in P |-> Unspent(p)])

Rests ==
  reused = {} =>
  IF failing THEN spend + Pending(ProposalIds) <= Dues(ProposalIds)
  ELSE spend + Pending(ProposalIds) = Dues(ProposalIds)

LEMMA SpendRests == SpendRestsOnReceipts <=> Rests
  BY DEF SpendRestsOnReceipts, Rests, Dues, Pending, Due

\* The sums change as the one proposal does.
LEMMA SumsOfOne ==
  ASSUME SpendTypes, SpendTypes', NEW q \in ProposalIds,
         \A p \in ProposalIds \ {q} : SameFor(p)
  PROVE  /\ Dues(ProposalIds)' + Due(q) = Dues(ProposalIds) + Due(q)'
         /\ Pending(ProposalIds)' + Unspent(q) = Pending(ProposalIds) + Unspent(q)'
<1> DEFINE d == [p \in ProposalIds |-> Due(p)]
           e == [p \in ProposalIds |-> Due(p)']
           u == [p \in ProposalIds |-> Unspent(p)]
           v == [p \in ProposalIds |-> Unspent(p)']
<1>1. /\ d \in [ProposalIds -> Nat] /\ e \in [ProposalIds -> Nat]
      /\ u \in [ProposalIds -> Nat] /\ v \in [ProposalIds -> Nat]
  BY DEF SpendTypes
<1>2. Dues(ProposalIds) = SumFunction(d) /\ Dues(ProposalIds)' = SumFunction(e) BY DEF Dues
<1>3. Pending(ProposalIds) = SumFunction(u) /\ Pending(ProposalIds)' = SumFunction(v) BY DEF Pending
<1>4. \A p \in ProposalIds \ {q} : e[p] = d[p] /\ v[p] = u[p] BY DEF SameFor
<1>5. d[q] = Due(q) /\ e[q] = Due(q)' /\ u[q] = Unspent(q) /\ v[q] = Unspent(q)' OBVIOUS
<1> HIDE DEF d, e, u, v
<1>6. IsFiniteSet(ProposalIds) BY ServiceAssumption DEF ServiceAssumption
<1>7. SumFunction(e) + d[q] = SumFunction(d) + e[q] BY <1>1, <1>4, <1>6, FunctionSumOfChange
<1>8. SumFunction(v) + u[q] = SumFunction(u) + v[q] BY <1>1, <1>4, <1>6, FunctionSumOfChange
<1> QED BY <1>2, <1>3, <1>5, <1>7, <1>8

LEMMA InitSpend == Init => SpendRestsOnReceipts
<1> SUFFICES ASSUME Init PROVE SpendRestsOnReceipts OBVIOUS
<1>1. SpendTypes BY InitInv, SpendTyped DEF Inv
<1>2. ASSUME NEW p \in ProposalIds PROVE Due(p) = 0 /\ Unspent(p) = 0
 <2>1. receipts[p] = 0 /\ Owing(p) = {} BY DEF Init, Owing, Owes, At, Idle
 <2>2. Cardinality(Owing(p)) = 0 BY <2>1, FS_EmptySet
 <2>3. /\ Amount(p) \in Nat /\ Unspent(p) = Cardinality(Owing(p)) * Amount(p)
       /\ Due(p) = receipts[p] * Amount(p)
   BY <1>1 DEF SpendTypes, Due
 <2> QED BY <2>1, <2>2, <2>3, Products
<1> DEFINE d == [p \in ProposalIds |-> Due(p)]
           u == [p \in ProposalIds |-> Unspent(p)]
<1>3. /\ d \in [ProposalIds -> Nat] /\ u \in [ProposalIds -> Nat]
      /\ \A p \in ProposalIds : d[p] = 0 /\ u[p] = 0
      /\ Dues(ProposalIds) = SumFunction(d) /\ Pending(ProposalIds) = SumFunction(u)
  BY <1>2 DEF Dues, Pending
<1> HIDE DEF d, u
<1>4. Dues(ProposalIds) = 0 /\ Pending(ProposalIds) = 0
  BY <1>3, FunctionSumOfZeros, ServiceAssumption DEF ServiceAssumption
<1> QED BY <1>4, SpendRests DEF Rests, Init

LEMMA NextSpend == Inv /\ SpendRestsOnReceipts /\ [Next]_vars => SpendRestsOnReceipts'
<1> SUFFICES ASSUME Inv, SpendRestsOnReceipts, [Next]_vars PROVE SpendRestsOnReceipts' OBVIOUS
<1>1. CASE UNCHANGED vars BY <1>1 DEF vars, store, SpendRestsOnReceipts, Unspent, Owes, At, Amount
<1>2. CASE Next
 <2>1. PICK r \in Requests : Start(r) \/ Resume(r) BY <1>2 DEF Next
 <2>2. failing' = failing /\ TypeOK' /\ Kept BY <1>2, NextType, StepKeeps DEF Next, Inv
 <2>3. reused' = {} => Accounted BY <2>1, <2>2, StepAccounts
 <2>4. SpendTypes BY SpendTyped DEF Inv
 <2>5. SpendTypes' BY <2>2, SpendTyped, PTL
 <2>6. /\ spend \in Nat /\ Dues(ProposalIds) \in Nat /\ Pending(ProposalIds) \in Nat
       /\ spend' \in Nat /\ Dues(ProposalIds)' \in Nat /\ Pending(ProposalIds)' \in Nat
  <3>1. Dues(ProposalIds) \in Nat /\ Pending(ProposalIds) \in Nat BY <2>4 DEF SpendTypes, Dues, Pending
  <3>2. Dues(ProposalIds)' \in Nat /\ Pending(ProposalIds)' \in Nat BY <2>5 DEF SpendTypes, Dues, Pending
  <3> QED BY <2>2, <3>1, <3>2 DEF Inv, TypeOK
 <2>0. reused' = {} => reused = {} BY <2>1, ReusedGrows
 <2>7. ASSUME spend' = spend, \A p \in ProposalIds : SameFor(p) PROVE Rests'
   BY <2>0, <2>7, <2>2, SpendRests DEF SameFor, Dues, Pending, Rests
 <2>8. ASSUME NEW q \in ProposalIds, Settled(q) \/ Dropped(q) PROVE Rests'
  <3>1. /\ Dues(ProposalIds)' + Due(q) = Dues(ProposalIds) + Due(q)'
        /\ Pending(ProposalIds)' + Unspent(q) = Pending(ProposalIds) + Unspent(q)'
    BY <2>4, <2>5, <2>8, SumsOfOne DEF Settled, Dropped
  <3>2. Due(q) \in Nat /\ Due(q)' \in Nat /\ Unspent(q) \in Nat /\ Unspent(q)' \in Nat BY <2>4, <2>5 DEF SpendTypes
  <3>3. CASE Settled(q)
   <4>1. spend' + Unspent(q)' + Due(q) = spend + Unspent(q) + Due(q)' BY <3>3 DEF Settled
   <4>2. spend' + Pending(ProposalIds)' + Dues(ProposalIds)
           = spend + Pending(ProposalIds) + Dues(ProposalIds)'
     BY <2>6, <3>1, <3>2, <4>1
   <4> QED BY <2>0, <2>2, <2>6, <4>2, SpendRests DEF Rests
  <3>4. CASE Dropped(q)
   <4>1. failing /\ spend' = spend /\ Due(q)' = Due(q) /\ Unspent(q)' <= Unspent(q) BY <3>4 DEF Dropped
   <4>2. /\ Dues(ProposalIds)' = Dues(ProposalIds)
         /\ Pending(ProposalIds)' <= Pending(ProposalIds)
     BY <2>6, <3>1, <3>2, <4>1
   <4> QED BY <2>0, <2>2, <2>6, <4>1, <4>2, SpendRests DEF Rests
  <3> QED BY <2>8, <3>3, <3>4
 <2>9. Rests' BY <2>3, <2>7, <2>8 DEF Accounted, Rests
 <2> QED BY <2>9, SpendRests, PTL
<1> QED BY <1>1, <1>2

\* However requests interleave at the awaits of daoService.ts and whatever
\* persist fails: each tally is the weight of the votes recorded and still
\* to be recorded (at most that, once its id has been created again), and
\* the treasury spend is the amounts of the executions that have a receipt
\* and are past their spend, neither ever more.
THEOREM NothingIsEverLost == Spec => []NothingIsLost
<1>1. Init => TallyAccountsForVotes /\ ReadsAccounted /\ SpendRestsOnReceipts
  BY InitTallies, InitSpend DEF Init, ReadsAccounted, At, Idle
<1>2. /\ Inv /\ TallyAccountsForVotes /\ ReadsAccounted /\ [Next]_vars =>
           TallyAccountsForVotes' /\ ReadsAccounted'
      /\ Inv /\ SpendRestsOnReceipts /\ [Next]_vars => SpendRestsOnReceipts'
  BY NextTallies, NextSpend
<1> QED BY <1>1, <1>2, WhatIsReadStands, PTL DEF Spec, NothingIsLost

----
\* Delegated power.

\* Each wallet's power is with itself or with the wallet it delegates to,
\* so the powers that votes would have are at most sums of disjoint groups.
LEMMA PowerIsHeldOnce == TypeOK => PowerHeldOnce
<1> SUFFICES ASSUME TypeOK,
                    \A w \in Wallets : delegation[w].active =>
                                         delegation[w].weight = member[w].votingPower
             PROVE  SumFunction([w \in Wallets |-> EffectiveVotingPower(w)]) <= Power
  BY DEF PowerHeldOnce
<1> DEFINE e == [w \in Wallets |-> EffectiveVotingPower(w)]
           f == [w \in Wallets |-> member[w].votingPower]
           h == [w \in Wallets |-> IF delegation[w].active THEN delegation[w].to ELSE w]
<1>1. \A w \in Wallets : e[w] \in Nat /\ f[w] \in Nat BY PowerType DEF TypeOK
<1>2. IsFiniteSet(Wallets) BY ServiceAssumption DEF ServiceAssumption
<1>3. ASSUME NEW w \in Wallets
      PROVE  e[w] <= SumFunctionOnSet(f, {y \in Wallets : h[y] = w})
 <2> DEFINE D == Delegators(w)
            G == {y \in Wallets : h[y] = w}
            g == [d \in D |-> delegation[d].weight]
 <2>1. IsFiniteSet(D) /\ D \subseteq Wallets /\ IsFiniteSet(G) /\ G \subseteq Wallets
   BY <1>2, FS_Subset DEF Delegators
 <2>2. SumFunctionOnSet(f, G) \in Nat
  <3> HIDE DEF e, f, G
  <3> QED BY <1>1, <2>1, SumIsNat
 <2>3. CASE ~member[w].active \/ delegation[w].active
  <3>1. e[w] = 0 BY <2>3 DEF EffectiveVotingPower
  <3> HIDE DEF e, f, h
  <3> QED BY <2>2, <3>1
 <2>4. CASE member[w].active /\ ~delegation[w].active
  <3>1. e[w] = f[w] + SumFunction(g) BY <2>4 DEF EffectiveVotingPower
  <3>2. w \notin D /\ G = D \cup {w} BY <2>4 DEF Delegators
  <3>3. \A d \in D : f[d] = g[d] BY DEF Delegators
  <3>4. SumFunction(g) = SumFunctionOnSet(g, D)
   <4>1. DOMAIN g = D OBVIOUS
   <4> HIDE DEF g, D
   <4> QED BY <4>1, SumOfFunction
  <3> HIDE DEF e, f, g, h, D
  <3>5. SumFunctionOnSet(g, D) = SumFunctionOnSet(f, D) BY <2>1, <3>3, SumOfSame
  <3>6. SumFunctionOnSet(f, D \cup {w}) = f[w] + SumFunctionOnSet(f, D) BY <1>1, <2>1, <3>2, SumWith
  <3>7. e[w] = SumFunctionOnSet(f, G) BY <3>1, <3>2, <3>4, <3>5, <3>6
  <3> QED BY <2>2, <3>7
 <2> QED BY <2>3, <2>4
<1>4. SumFunction(e) = SumFunctionOnSet(e, Wallets) /\ SumFunction(f) = SumFunctionOnSet(f, Wallets)
 <2>1. DOMAIN e = Wallets /\ DOMAIN f = Wallets OBVIOUS
 <2> HIDE DEF e, f
 <2> QED BY <2>1, SumOfFunction
<1>5. SumFunction(e) <= SumFunction(f)
 <2> HIDE DEF e, f, h
 <2>1. SumFunctionOnSet(e, Wallets) <= SumFunctionOnSet(f, Wallets) BY <1>1, <1>2, <1>3, SumOfGroups
 <2> QED BY <1>4, <2>1
<1> QED BY <1>5 DEF Power

----
\* Clients that wait for one another.

LEMMA OneActs ==
  ASSUME TypeOK, NEW r \in Requests, Start(r) \/ Resume(r)
  PROVE  \A other \in Requests \ {r} : req'[other] = req[other]
<1> DEFINE Others == \A other \in Requests \ {r} : req'[other] = req[other]
<1>1. ASSUME NEW l, Awaits(r, l) \/ req' = [req EXCEPT ![r] = l] PROVE Others BY <1>1 DEF Awaits, TypeOK
<1> HIDE DEF Others
<1>2. ASSUME LastAwait(r) PROVE Others BY <1>1, <1>2 DEF LastAwait
<1>3. ASSUME Start(r) PROVE Others
 <2>1. ASSUME NEW p \in ProposalIds, NEW kind \in ProposalKind, NEW amount \in Amounts,
              CreateProposal(r, p, kind, amount)
       PROVE  Others
   BY <1>1, <2>1 DEF CreateProposal
 <2>2. ASSUME NEW p \in ProposalIds, NEW w \in Wallets, NEW c \in Ballots, CastVote(r, p, w, c)
       PROVE  Others
   BY <1>1, <2>2 DEF CastVote
 <2>3. ASSUME NEW p \in ProposalIds, FinalizeProposal(r, p) \/ ExecuteReceipt(r, p) PROVE Others
   BY <1>1, <2>3 DEF FinalizeProposal, ExecuteReceipt
 <2> QED
   BY <1>2, <1>3, <2>1, <2>2, <2>3
      DEF Start, Started, RegisterMember, UpdateMember, DelegateVotePower, RevokeDelegate
<1>4. ASSUME Resume(r) PROVE Others
 <2>1. ASSUME FinalizeDiscovery(r) \/ ExecuteProposal(r) \/ ExecuteSpend(r) PROVE Others
   BY <1>1, <1>2, <2>1 DEF FinalizeDiscovery, ExecuteProposal, ExecuteSpend
 <2>2. ASSUME Return(r) \/ PersistRejects(r) PROVE Others BY <1>1, <2>2 DEF Return, PersistRejects
 <2> QED
   BY <1>2, <1>4, <2>1, <2>2
      DEF Resume, CreateRecommendations, VoteLedger, FinalizeMemory, ExecuteMemory
<1> QED BY <1>3, <1>4 DEF Others

Executed(p) == IF proposal[p].executedAt THEN Amount(p) ELSE 0

LEMMA ExecutedTypes ==
  ASSUME TypeOK
  PROVE  /\ [p \in ProposalIds |-> Executed(p)] \in [ProposalIds -> Nat]
         /\ ExecutedAmounts = SumFunction([p \in ProposalIds |-> Executed(p)])
<1>1. \A p \in ProposalIds : Executed(p) \in Nat BY DEF TypeOK, Proposals, Executed, Amount
<1> QED BY <1>1 DEF ExecutedAmounts, Executed

ExecutedNat == ExecutedAmounts \in Nat

LEMMA ExecutedIsNat == TypeOK => ExecutedNat
  BY ExecutedTypes, FunctionSumIsNat, ServiceAssumption DEF ServiceAssumption, ExecutedNat

\* One proposal comes to be executed, and the others are as they were.
LEMMA ExecutedStep ==
  ASSUME TypeOK, TypeOK', NEW q \in ProposalIds,
         \A p \in ProposalIds \ {q} : Executed(p)' = Executed(p)
  PROVE  /\ Executed(q) \in Nat /\ Executed(q)' \in Nat
         /\ SumFunction([p \in ProposalIds |-> Executed(p)]) \in Nat
         /\ SumFunction([p \in ProposalIds |-> Executed(p)']) + Executed(q)
              = SumFunction([p \in ProposalIds |-> Executed(p)]) + Executed(q)'
<1> DEFINE f == [p \in ProposalIds |-> Executed(p)]
           e == [p \in ProposalIds |-> Executed(p)']
<1>1. f \in [ProposalIds -> Nat] BY ExecutedTypes
<1>2. e \in [ProposalIds -> Nat] BY DEF TypeOK, Proposals, Executed, Amount
<1>3. /\ \A p \in ProposalIds \ {q} : e[p] = f[p]
      /\ f[q] = Executed(q) /\ e[q] = Executed(q)' /\ f[q] \in Nat /\ e[q] \in Nat
  BY <1>1, <1>2
<1> HIDE DEF e, f
<1>4. /\ SumFunction(f) \in Nat
      /\ SumFunction(e) + f[q] = SumFunction(f) + e[q]
  BY <1>1, <1>2, <1>3, FunctionSumOfChange, ServiceAssumption DEF ServiceAssumption
<1> QED BY <1>3, <1>4 DEF e, f

LEMMA TurnsStep ==
  ASSUME Inv, TypeOK', Kept, patient, failing' = failing, Turns,
         NEW r \in Requests, Start(r) \/ Resume(r)
  PROVE  Turns'
<1> USE DEF Inv, Turns
<1>0. reused \subseteq reused' BY ReusedGrows
<1>1. \A other \in Requests \ {r} : req[other] = Idle /\ req'[other] = Idle
 <2>1. \A other \in Requests \ {r} : req'[other] = req[other] BY OneActs
 <2>2. CASE Start(r) BY <2>1, <2>2 DEF Start
 <2>3. CASE Resume(r)
  <3>1. req[r] # Idle
    BY <2>3 DEF Resume, CreateRecommendations, VoteLedger, FinalizeDiscovery, FinalizeMemory,
                ExecuteProposal, ExecuteSpend, ExecuteMemory, Return, PersistRejects, Idle
  <3> QED BY <2>1, <3>1 DEF Alone
 <2> QED BY <2>2, <2>3
<1>2. Alone' BY <1>1 DEF Alone
\* What leaves a part as it was.
<1>3. ASSUME ledger' = ledger, req'[r].at # "vote.tally"
      PROVE  FirstVotes' /\ OneVotePerWallet' BY <1>3, <1>1 DEF OneVotePerWallet, FirstVotes, Idle
<1>4. ASSUME reused' = {}, \A p \in ProposalIds : proposal'[p].executedAt = proposal[p].executedAt
      PROVE  ExecutedAmounts' = ExecutedAmounts
 <2>1. \A p \in ProposalIds : Executed(p)' = Executed(p)
  <3> SUFFICES ASSUME NEW p \in ProposalIds, proposal[p].executedAt PROVE Amount(p)' = Amount(p) BY <1>4 DEF Executed
  <3>1. proposal[p].status # "none" BY DEF Untouched, NoProposal
  <3> QED BY <1>4, <3>1 DEF Kept, KeptOf, Excused, Amount
 <2>2. [p \in ProposalIds |-> Executed(p)'] = [p \in ProposalIds |-> Executed(p)] BY <2>1
 <2> QED BY <2>2 DEF ExecutedAmounts, Executed
<1>5. ASSUME receipts' = receipts, spend' = spend,
             \A p \in ProposalIds \ reused' : proposal'[p].executedAt = proposal[p].executedAt,
             req[r].at # "execute.receipt" \/ failing,
             req'[r].at \notin {"execute.receipt", "execute.proposal"}
      PROVE  ExecutionsInTurn' /\ SpentOnce'
 <2>1. ExecutionsInTurn' BY <1>0, <1>5, <1>1 DEF Idle, ExecutionsInTurn, At
 <2>2. \A p \in ProposalIds \ reused' : ~failing => receipts'[p] <= 1 BY <1>0, <1>5 DEF SpentOnce
 <2>3. reused' = {} => spend' <= ExecutedAmounts' BY <1>0, <1>4, <1>5 DEF SpentOnce
 <2> QED BY <2>1, <2>2, <2>3 DEF SpentOnce
<1>6. ASSUME \A p \in ProposalIds : proposal'[p].status \in {"succeeded", "defeated"} =>
                                      proposal'[p].status = proposal[p].status,
             discovery' = discovery, req[r].at # "finalize.proposal" \/ failing,
             req'[r].at # "finalize.proposal"
      PROVE  VerdictsOnTheirWay'
  BY <1>1, <1>6 DEF VerdictsOnTheirWay, At, Idle
<1>7. ASSUME ledger' = ledger, receipts' = receipts, spend' = spend, proposal' = proposal,
             discovery' = discovery,
             req[r].at \notin {"execute.receipt", "finalize.proposal"} \/ failing,
             req'[r].at \notin {"vote.tally", "execute.receipt", "execute.proposal",
                                "finalize.proposal"}
      PROVE  Turns' BY <1>3, <1>7, <1>5, <1>6, <1>2
<1>8. ASSUME LastAwait(r), UNCHANGED <<ledger, receipts, spend, proposal, discovery>>,
             req[r].at \notin {"execute.receipt", "finalize.proposal"}
      PROVE  Turns'
  BY <1>7, <1>8, LastAwaitType
\* The actions.
<1>9. ASSUME NEW p \in ProposalIds, NEW kind \in ProposalKind, NEW amount \in Amounts,
             CreateProposal(r, p, kind, amount)
      PROVE  Turns'
 <2>1. /\ ledger' = ledger /\ receipts' = receipts /\ spend' = spend /\ discovery' = discovery
       /\ req[r] = Idle /\ req'[r].at = "create.proposal"
   BY <1>9 DEF CreateProposal, Awaits, TypeOK
 <2>2. /\ proposal'[p].status = "active"
       /\ p \notin reused' => proposal'[p].executedAt = proposal[p].executedAt
       /\ \A q \in ProposalIds \ {p} : proposal'[q] = proposal[q]
   BY <1>9 DEF CreateProposal, Untouched, NoProposal, TypeOK
 <2>3. FirstVotes' /\ OneVotePerWallet' BY <1>3, <2>1
 <2>4. ExecutionsInTurn' /\ SpentOnce' BY <1>5, <2>1, <2>2 DEF Idle
 <2>5. VerdictsOnTheirWay' BY <1>6, <2>1, <2>2 DEF Idle
 <2> QED BY <1>2, <2>3, <2>4, <2>5
<1>10. ASSUME NEW p \in ProposalIds, NEW w \in Wallets, NEW c \in Ballots, CastVote(r, p, w, c)
       PROVE  Turns'
 <2> DEFINE row == [wallet |-> w, choice |-> c, weight |-> EffectiveVotingPower(w)]
 <2>1. /\ ledger' = ledger /\ receipts' = receipts /\ spend' = spend /\ discovery' = discovery
       /\ req[r] = Idle /\ req'[r] = [at |-> "vote.tally", p |-> p, row |-> row]
       /\ ~AlreadyVoted(p, w, c)
   BY <1>10 DEF CastVote, Awaits, TypeOK
 <2>2. /\ proposal'[p].status = "active" /\ proposal'[p].executedAt = proposal[p].executedAt
       /\ \A q \in ProposalIds \ {p} : proposal'[q] = proposal[q]
   BY <1>10 DEF CastVote, TakesVotes, WithVote, TypeOK, Proposals
 <2>3. FirstVotes' BY <2>1, <1>1 DEF AlreadyVoted, Idle, FirstVotes
 <2>4. OneVotePerWallet' BY <2>1 DEF OneVotePerWallet
 <2>5. ExecutionsInTurn' /\ SpentOnce' BY <1>5, <2>1, <2>2 DEF Idle
 <2>6. VerdictsOnTheirWay' BY <1>6, <2>1, <2>2 DEF Idle
 <2> QED BY <1>2, <2>3, <2>4, <2>5, <2>6
<1>11. ASSUME VoteLedger(r) PROVE Turns'
 <2> DEFINE p == req[r].p
            row == req[r].row
 <2>1. /\ req[r].at = "vote.tally" /\ p \in ProposalIds /\ row \in Rows
       /\ receipts' = receipts /\ spend' = spend /\ proposal' = proposal
       /\ discovery' = discovery /\ req'[r].at = "return"
       /\ ledger' = [ledger EXCEPT ![p] = Append(ledger[p], row)]
  <3>1. req[r].at = "vote.tally" /\ LastAwait(r) BY <1>11 DEF VoteLedger
  <3>2. p \in ProposalIds /\ row \in Rows BY <3>1, LocalsType
  <3>3. req'[r].at = "return" BY <3>1, LastAwaitType
  <3> QED BY <1>11, <3>1, <3>2, <3>3 DEF VoteLedger
 <2>2. FirstVotes' BY <1>1, <2>1 DEF FirstVotes, Idle
 <2>3. OneVotePerWallet'
  <3>1. \A i \in DOMAIN ledger[p] : ledger[p][i].wallet # row.wallet BY <2>1 DEF FirstVotes, AlreadyVoted
  <3> HIDE DEF p, row
  <3>2. ledger[p] \in Seq(Rows) BY <2>1 DEF TypeOK
  <3>3. \A q \in ProposalIds \ {p} : ledger'[q] = ledger[q] BY <2>1 DEF TypeOK
  <3>4. ledger'[p] = Append(ledger[p], row) BY <2>1 DEF TypeOK
  <3>5. \A i, j \in DOMAIN ledger'[p] : ledger'[p][i].wallet = ledger'[p][j].wallet => i = j
   <4> DEFINE n == Len(ledger[p]) + 1
   <4>1. DOMAIN ledger'[p] = (DOMAIN ledger[p]) \cup {n} BY <3>2, <3>4
   <4>2. ledger'[p][n] = row /\ \A i \in DOMAIN ledger[p] : ledger'[p][i] = ledger[p][i] BY <3>2, <3>4
   <4>3. \A i, j \in DOMAIN ledger[p] : ledger[p][i].wallet = ledger[p][j].wallet => i = j
     BY <2>1 DEF OneVotePerWallet
   <4> HIDE DEF n
   <4> QED BY <3>1, <4>1, <4>2, <4>3
  <3> QED BY <3>3, <3>5 DEF OneVotePerWallet
 <2>4. ExecutionsInTurn' /\ SpentOnce' BY <1>5, <2>1
 <2>5. VerdictsOnTheirWay' BY <1>6, <2>1
 <2> QED BY <1>2, <2>2, <2>3, <2>4, <2>5
<1>12. ASSUME NEW p \in ProposalIds, FinalizeProposal(r, p) PROVE Turns'
 <2> DEFINE passed == Passed(proposal[p])
            next == Finalized(proposal[p], passed)
 <2>1. /\ ledger' = ledger /\ receipts' = receipts /\ spend' = spend /\ discovery' = discovery
       /\ req[r] = Idle /\ proposal'[p] = next
       /\ \A q \in ProposalIds \ {p} : proposal'[q] = proposal[q]
   BY <1>12 DEF FinalizeProposal, TypeOK
 <2>2. req'[r].at = "finalize.proposal" /\ req'[r].p = p /\ req'[r].status = next.status
   BY <1>12 DEF FinalizeProposal, Awaits, TypeOK
 <2>3. next.executedAt = proposal[p].executedAt BY DEF Finalized, TypeOK, Proposals
 <2> HIDE DEF next
 <2>4. FirstVotes' /\ OneVotePerWallet' BY <1>3, <2>1, <2>2
 <2>5. ExecutionsInTurn' /\ SpentOnce' BY <1>5, <2>1, <2>2, <2>3 DEF Idle
 <2>6. VerdictsOnTheirWay'
  <3>1. \A s \in Requests :
          req'[s].at = "finalize.proposal" => req'[s].status = proposal'[req'[s].p].status
    BY <1>1, <2>1, <2>2 DEF Idle
  <3>2. ASSUME ~failing, NEW q \in ProposalIds,
               proposal'[q].status \in {"succeeded", "defeated"}
        PROVE  discovery'[q] = proposal'[q].status \/ At(r, "finalize.proposal", q)'
   <4>1. CASE q = p BY <2>2, <4>1 DEF At
   <4>2. CASE q # p BY <1>1, <2>1, <3>2, <4>2 DEF VerdictsOnTheirWay, At, Idle
   <4> QED BY <4>1, <4>2
  <3> QED BY <3>1, <3>2 DEF VerdictsOnTheirWay
 <2> QED BY <1>2, <2>4, <2>5, <2>6
<1>13. ASSUME FinalizeDiscovery(r) PROVE Turns'
 <2> DEFINE p == req[r].p
            l == [req[r] EXCEPT !.at = "finalize.discovery"]
 <2>1. /\ ledger' = ledger /\ receipts' = receipts /\ spend' = spend /\ proposal' = proposal
       /\ req[r].at = "finalize.proposal" /\ p \in ProposalIds
       /\ discovery' = [discovery EXCEPT ![p] = req[r].status]
       /\ l \in Locals
   BY <1>13, LocalsType DEF FinalizeDiscovery, RowStatus
 <2>2. l.at = "finalize.discovery" BY <2>1 DEF TypeOK, Locals, Executing
 <2>3. LastAwait(r) \/ Awaits(r, l) BY <1>13 DEF FinalizeDiscovery
 <2> HIDE DEF l
 <2>4. req'[r].at \in {"return", "finalize.discovery"} BY <2>1, <2>2, <2>3, AwaitsType, LastAwaitType
 <2>5. FirstVotes' /\ OneVotePerWallet' BY <1>3, <2>1, <2>4
 <2>6. ExecutionsInTurn' /\ SpentOnce' BY <1>5, <2>1, <2>4
 <2>7. VerdictsOnTheirWay'
  <3>1. \A s \in Requests : req'[s].at # "finalize.proposal" BY <1>1, <2>4 DEF Idle
  <3>2. ASSUME ~failing, NEW q \in ProposalIds,
               proposal[q].status \in {"succeeded", "defeated"}
        PROVE  discovery'[q] = proposal[q].status
   <4>1. req[r].status = proposal[p].status BY <2>1 DEF VerdictsOnTheirWay
   <4>2. CASE q = p BY <2>1, <4>1, <4>2 DEF TypeOK
   <4>3. CASE q # p
    <5>1. discovery[q] = proposal[q].status BY <1>1, <3>2, <4>3 DEF VerdictsOnTheirWay, At, Idle
    <5> QED BY <2>1, <4>3, <5>1 DEF TypeOK
   <4> QED BY <4>2, <4>3
  <3> QED BY <2>1, <3>1, <3>2 DEF VerdictsOnTheirWay
 <2> QED BY <1>2, <2>5, <2>6, <2>7
<1>14. ASSUME NEW p \in ProposalIds, ExecuteReceipt(r, p) PROVE Turns'
 <2>1. /\ ledger' = ledger /\ spend' = spend /\ proposal' = proposal /\ discovery' = discovery
       /\ req[r] = Idle /\ receipts' = [receipts EXCEPT ![p] = @ + 1]
       /\ proposal[p].status = "succeeded" /\ ~proposal[p].executedAt
       /\ req'[r].at = "execute.receipt" /\ req'[r].p = p
   BY <1>14 DEF ExecuteReceipt, Executable, Awaits, TypeOK
 <2>2. FirstVotes' /\ OneVotePerWallet' BY <1>3, <2>1
 <2>3. VerdictsOnTheirWay' BY <1>6, <2>1 DEF Idle
 <2>4. ExecutedAmounts' = ExecutedAmounts BY <2>1 DEF ExecutedAmounts, Amount
 <2>5. ASSUME ~failing, NEW q \in ProposalIds \ reused'
       PROVE  /\ receipts'[q] <= 1
              /\ receipts'[q] # 0 => proposal'[q].executedAt \/ At(r, "execute.receipt", q)'
  <3>1. \A s \in Requests : ~At(s, "execute.receipt", q) BY <1>1, <2>1 DEF At, Idle
  <3>2. CASE q = p
   <4>1. receipts[p] = 0 BY <1>0, <2>1, <2>5, <3>1, <3>2 DEF ExecutionsInTurn
   <4>2. receipts'[p] = 1 BY <2>1, <4>1 DEF TypeOK
   <4> QED BY <2>1, <3>2, <4>2 DEF At
  <3>3. CASE q # p BY <1>0, <2>1, <2>5, <3>3, <3>1 DEF TypeOK, SpentOnce, ExecutionsInTurn
  <3> QED BY <3>2, <3>3
 <2>6. SpentOnce' BY <1>0, <2>1, <2>4, <2>5 DEF SpentOnce
 <2>7. ExecutionsInTurn' BY <1>1, <2>1, <2>5 DEF Idle, ExecutionsInTurn
 <2> QED BY <1>2, <2>2, <2>3, <2>6, <2>7
<1>15. ASSUME ExecuteProposal(r) PROVE Turns'
 <2> DEFINE read == req[r].read
 <2>1. PICK p \in ProposalIds : At(r, "execute.receipt", p) /\ read \in Proposals
   BY <1>15, LocalsType DEF ExecuteProposal, At, Executing
 <2>2. read.kind = proposal[p].kind /\ read.amount = proposal[p].amount
         /\ ~proposal[p].executedAt
   BY <2>1 DEF At, StillHolds, Firm, Executing, ExecutionsInTurn
 <2>3. /\ ledger' = ledger /\ receipts' = receipts /\ spend' = spend /\ discovery' = discovery
       /\ proposal' = [proposal EXCEPT ![p] = [read EXCEPT !.status = "executed", !.executedAt = TRUE]]
       /\ Awaits(r, [req[r] EXCEPT !.at = "execute.proposal"])
   BY <1>15, <2>1 DEF ExecuteProposal, At
 <2>4. req'[r] = [at |-> "execute.proposal", p |-> p, read |-> read]
   BY <2>1, <2>3, LocalsType DEF Awaits, At, Executing, TypeOK
 <2> HIDE DEF read
 <2>5. /\ proposal'[p].status = "executed" /\ proposal'[p].executedAt
       /\ proposal'[p].kind = read.kind /\ proposal'[p].amount = read.amount
       /\ \A q \in ProposalIds \ {p} : proposal'[q] = proposal[q]
   BY <2>1, <2>3 DEF TypeOK, Proposals
 <2>6. FirstVotes' /\ OneVotePerWallet' BY <1>3, <2>3, <2>4
 <2>7. VerdictsOnTheirWay' BY <1>6, <2>1, <2>3, <2>4, <2>5 DEF At
 <2>8. Executed(p) = 0 /\ Executed(p)' = SpentBy(read) BY <2>2, <2>5 DEF Executed, Amount, SpentBy
 <2>9. \A q \in ProposalIds \ {p} : Executed(q)' = Executed(q) BY <2>5 DEF Executed, Amount
 <2>10. reused' = {} => spend' + SpentBy(read) <= ExecutedAmounts' /\ spend' <= ExecutedAmounts'
  <3>1. /\ Executed(p)' \in Nat /\ ExecutedAmounts \in Nat
        /\ SumFunction([q \in ProposalIds |-> Executed(q)']) + Executed(p)
             = ExecutedAmounts + Executed(p)'
    BY <2>9, ExecutedStep, ExecutedTypes
  <3>2. ExecutedAmounts' = SumFunction([q \in ProposalIds |-> Executed(q)']) BY DEF ExecutedAmounts, Executed
  <3>3. spend \in Nat /\ (reused' = {} => spend <= ExecutedAmounts) BY <1>0 DEF TypeOK, SpentOnce
  <3> DEFINE after == SumFunction([q \in ProposalIds |-> Executed(q)'])
  <3>4. after \in Nat
   <4>1. ExecutedAmounts' \in Nat
    <5>1. ExecutedNat' BY ExecutedIsNat, PTL
    <5> QED BY <5>1 DEF ExecutedNat
   <4> QED BY <3>2, <4>1
  <3> HIDE DEF after
  <3> QED BY <2>3, <2>8, <3>1, <3>2, <3>3, <3>4 DEF after
 <2>11. SpentOnce' BY <1>0, <2>3, <2>10 DEF SpentOnce
 <2>12. ExecutionsInTurn'
  <3>1. \A s \in Requests :
          /\ req'[s].at # "execute.receipt"
          /\ req'[s].at = "execute.proposal" => req'[s].read = read
    BY <1>1, <2>4 DEF Idle
  <3>2. ASSUME ~failing, NEW q \in ProposalIds \ reused', receipts'[q] # 0
        PROVE  proposal'[q].executedAt
    BY <1>0, <1>1, <2>1, <2>3, <2>5, <3>2 DEF ExecutionsInTurn, At, Idle
  <3> QED BY <2>10, <3>1, <3>2 DEF ExecutionsInTurn
 <2> QED BY <1>2, <2>6, <2>7, <2>11, <2>12
<1>16. ASSUME ExecuteSpend(r) PROVE Turns'
 <2>1. /\ ledger' = ledger /\ receipts' = receipts /\ proposal' = proposal
       /\ discovery' = discovery /\ spend' = spend + SpentBy(req[r].read)
       /\ req[r].at = "execute.proposal"
   BY <1>16 DEF ExecuteSpend
 <2>2. req'[r].at = "execute.spend" BY <1>16, <2>1, LocalsType DEF ExecuteSpend, Awaits, Executing, TypeOK
 <2>3. FirstVotes' /\ OneVotePerWallet' BY <1>3, <2>1, <2>2
 <2>4. VerdictsOnTheirWay' BY <1>6, <2>1, <2>2
 <2>5. ExecutedAmounts' = ExecutedAmounts BY <2>1 DEF ExecutedAmounts, Amount
 <2>6. SpentOnce' BY <1>0, <2>1, <2>5 DEF SpentOnce, ExecutionsInTurn
 <2>7. \A s \in Requests : req'[s].at \notin {"execute.receipt", "execute.proposal"} BY <1>1, <2>2 DEF Idle
 <2>8. ~failing => \A p \in ProposalIds \ reused' : receipts'[p] # 0 => proposal'[p].executedAt
   BY <1>0, <1>1, <2>1 DEF ExecutionsInTurn, At, Idle
 <2>9. ExecutionsInTurn' BY <2>7, <2>8 DEF ExecutionsInTurn
 <2> QED BY <1>2, <2>3, <2>4, <2>6, <2>9
<1>17. ASSUME Return(r) \/ PersistRejects(r) PROVE Turns'
  BY <1>17, <1>7 DEF Return, PersistRejects, store, Idle, TypeOK
<1>18. ASSUME ExecuteMemory(r) PROVE Turns' BY <1>8, <1>18 DEF ExecuteMemory
<1>19. CASE Start(r)
  BY <1>19, <1>8, <1>9, <1>10, <1>12, <1>14
     DEF Start, Started, RegisterMember, UpdateMember, DelegateVotePower, RevokeDelegate, Idle
<1>20. CASE Resume(r)
  BY <1>20, <1>8, <1>11, <1>13, <1>15, <1>16, <1>17, <1>18
     DEF Resume, CreateRecommendations, FinalizeMemory
<1> QED BY <1>19, <1>20

LEMMA InitTurns == Init => Turns
<1> SUFFICES ASSUME Init PROVE Turns OBVIOUS
<1>1. \A r \in Requests : req[r] = Idle BY DEF Init
<1>2. Alone /\ FirstVotes BY <1>1 DEF Alone, FirstVotes, Idle
<1>3. OneVotePerWallet BY DEF Init, OneVotePerWallet
<1>4. ExecutionsInTurn /\ VerdictsOnTheirWay BY <1>1 DEF Init, ExecutionsInTurn, VerdictsOnTheirWay, NoProposal, Idle
<1>5. SpentOnce BY InitInv, ExecutedIsNat DEF Inv, ExecutedNat, Init, SpentOnce
<1> QED BY <1>2, <1>3, <1>4, <1>5 DEF Turns

LEMMA NextInTurn == Inv /\ InTurn /\ [Next]_vars => InTurn'
<1> SUFFICES ASSUME Inv, InTurn, [Next]_vars, patient' PROVE Turns' BY DEF InTurn
<1>1. CASE UNCHANGED vars
 <2>1. Turns BY <1>1 DEF InTurn, vars
 <2> QED
   BY <1>1, <2>1 DEF vars, store, Turns, Alone, FirstVotes, AlreadyVoted, OneVotePerWallet,
      ExecutionsInTurn, ExecutedAmounts, Amount, SpentOnce, VerdictsOnTheirWay, At
<1>2. CASE Next
 <2>1. PICK r \in Requests : Start(r) \/ Resume(r) BY <1>2 DEF Next
 <2>2. patient /\ failing' = failing /\ TypeOK' /\ Kept /\ Turns BY <1>2, NextType, StepKeeps DEF Next, Inv, InTurn
 <2> QED BY <2>1, <2>2, TurnsStep
<1> QED BY <1>1, <1>2

\* When clients wait for one another, a wallet has one vote on a proposal,
\* an execution one receipt and its amount is spent once, a returned
\* finalization has updated the discovery row, and no power is held twice.
THEOREM PromisesAreKept == Spec => []PromisesInTurn
<1>1. Init => InTurn BY InitTurns DEF InTurn
<1>2. Inv /\ InTurn => PromisesInTurn
 <2> SUFFICES ASSUME Inv, InTurn PROVE PromisesInTurn OBVIOUS
 <2>1. OneVoteEach BY DEF InTurn, Turns, OneVoteEach
 <2>2. ExecutedOnce BY DEF InTurn, Turns, SpentOnce, ExecutedOnce
 <2>3. DiscoveryFollows BY DEF InTurn, Turns, VerdictsOnTheirWay, At, DiscoveryFollows
 <2>4. PowerHeldOnce BY PowerIsHeldOnce DEF Inv
 <2> QED BY <2>1, <2>2, <2>3, <2>4 DEF PromisesInTurn
<1> QED BY <1>1, <1>2, NextInTurn, WhatIsReadStands, PTL DEF Spec

----
\* What the dashboard shows.

LEMMA ProductGrows ==
  ASSUME NEW a \in Nat, NEW b \in Nat, NEW c \in Nat, a <= b
  PROVE  a * c <= b * c /\ c * a <= c * b
<1>1. PICK k \in Nat : b = a + k OBVIOUS
<1>2. (a + k) * c = a * c + k * c OBVIOUS
<1>3. a * c \in Nat /\ k * c \in Nat /\ b * c = c * b /\ a * c = c * a OBVIOUS
<1> QED BY <1>1, <1>2, <1>3

LEMMA Quotients ==
  ASSUME NEW s \in Nat, NEW n \in Nat \ {0}
  PROVE  s \div n \in Nat /\ (s \div n) * n <= s /\ s < (s \div n + 1) * n
  OBVIOUS

\* As many voters as members are the whole of the scale, and more are no
\* less.
LEMMA WholeParticipation ==
  ASSUME NEW b \in Nat, NEW n \in Nat \ {0}, NEW v \in Nat, n <= v
  PROVE  /\ (n * b) \div n <= b /\ (n * b) \div n \in Nat
         /\ (v * b) \div n \in Nat /\ b <= (v * b) \div n
<1> DEFINE q == (n * b) \div n
           u == (v * b) \div n
<1>1. n * b \in Nat /\ v * b \in Nat /\ n * b = b * n OBVIOUS
<1>2. q \in Nat /\ q * n <= n * b BY <1>1, Quotients
<1>3. u \in Nat /\ v * b < (u + 1) * n BY <1>1, Quotients
<1> HIDE DEF q, u
<1>4. q <= b
 <2> SUFFICES ASSUME b + 1 <= q PROVE FALSE BY <1>2
 <2>1. (b + 1) * n <= q * n BY <1>2, ProductGrows
 <2>2. (b + 1) * n = b * n + n /\ q * n \in Nat /\ b * n \in Nat BY <1>2
 <2> QED BY <1>1, <1>2, <2>1, <2>2
<1>5. b <= u
 <2> SUFFICES ASSUME u + 1 <= b PROVE FALSE BY <1>3
 <2>1. (u + 1) * n <= b * n BY <1>3, ProductGrows
 <2>2. n * b <= v * b BY ProductGrows
 <2>3. (u + 1) * n \in Nat BY <1>3
 <2> QED BY <1>1, <1>3, <2>1, <2>2, <2>3
<1> QED BY <1>2, <1>3, <1>4, <1>5 DEF q, u

LEMMA QuorumIsJudged == TypeOK => QuorumShownIsJudged
<1> SUFFICES ASSUME TypeOK, NEW p \in ProposalIds, proposal[p].status = "active", Eligible > 0
             PROVE  LET judged == ParticipationBps(proposal[p]) >= QuorumBps
                    IN /\ (CanonicalStatus(proposal[p]) = "quorum_reached") = judged
                       /\ ("quorum" \in StagesDone(proposal[p])) = judged
  BY DEF QuorumShownIsJudged
<1> DEFINE v == proposal[p].voterCount
           n == Eligible
           displayed == ShownParticipation(proposal[p])
           judged == ParticipationBps(proposal[p])
<1>1. v \in Nat /\ n \in Nat \ {0} /\ BpsScale \in Nat /\ QuorumBps \in Nat /\ QuorumBps <= BpsScale
 <2>1. n \in Nat BY FS_Subset, ServiceAssumption, FS_CardinalityType DEF ServiceAssumption, Eligible
 <2> QED BY <2>1, ServiceAssumption DEF TypeOK, Proposals, ServiceAssumption
<1>2. judged = (v * BpsScale) \div n BY <1>1 DEF ParticipationBps, Eligible
<1>3. displayed = ((IF v < n THEN v ELSE n) * BpsScale) \div n BY <1>1 DEF ShownParticipation
<1>4. judged \in Nat /\ displayed \in Nat /\ (displayed >= QuorumBps <=> judged >= QuorumBps)
 <2> HIDE DEF v, n, displayed, judged
 <2>1. CASE v < n BY <1>1, <1>2, <1>3, <2>1, Quotients
 <2>2. CASE n <= v BY <1>1, <1>3, <2>2, WholeParticipation, <1>2
 <2> QED BY <1>1, <2>1, <2>2
<1>5. (CanonicalStatus(proposal[p]) = "quorum_reached") <=> displayed >= QuorumBps BY DEF CanonicalStatus
<1>6. ("quorum" \in StagesDone(proposal[p])) <=> displayed >= QuorumBps BY <1>5 DEF StagesDone, CanonicalStatus
<1> HIDE DEF displayed, judged
<1> QED BY <1>4, <1>5, <1>6 DEF displayed, judged

LEMMA ButtonsMatch == TypeOK /\ Members => ButtonsMatchService
<1> SUFFICES ASSUME TypeOK, Members, NEW p \in ProposalIds, NEW w \in Wallets
             PROVE  VoteEnabled(w, p) =
                      (TakesVotes(p) /\ member[w].joined /\ EffectiveVotingPower(w) > 0)
  BY DEF ButtonsMatchService
<1>1. EffectiveVotingPower(w) > 0 => member[w].joined BY PowerType DEF EffectiveVotingPower, Members
<1>2. Open(proposal[p]) <=> proposal[p].status \in {"none", "active"}
  BY DEF TypeOK, Proposals, Open, CanonicalStatus, Statuses
<1> QED BY <1>1, <1>2 DEF VoteEnabled, TakesVotes

\* The dashboard shows a quorum exactly when a finalization would find it,
\* and offers the vote exactly to those whose vote would count.
THEOREM ShownAsItIsJudged == Spec => []ShownAsJudged
<1>1. Inv => ShownAsJudged BY QuorumIsJudged, ButtonsMatch DEF Inv, ShownAsJudged
<1> QED BY <1>1, WhatIsReadStands, PTL

----
\* Lists, their beginnings and what is in them.

LEMMA PrefixIs ==
  ASSUME NEW S, NEW s \in Seq(S), NEW t \in Seq(S)
  PROVE  IsPrefix(s, t) <=> Len(s) <= Len(t) /\ \A i \in 1..Len(s) : s[i] = t[i]
<1>1. Len(s) \in Nat /\ Len(t) \in Nat OBVIOUS
<1>2. SubSeq(s, 1, Len(s)) = s OBVIOUS
<1>3. CASE Len(s) <= Len(t)
 <2> DEFINE u == SubSeq(t, 1, Len(s))
 <2>1. u \in Seq(S) /\ Len(u) = Len(s) /\ \A i \in 1..Len(s) : u[i] = t[i] BY <1>1, <1>3
 <2> HIDE DEF u
 <2>2. s = u <=> \A i \in 1..Len(s) : s[i] = u[i] BY <1>1, <2>1
 <2>3. IsPrefix(s, t) <=> s = u BY <1>2, <1>3 DEF IsPrefix, u
 <2> QED BY <1>3, <2>1, <2>2, <2>3
<1>4. CASE ~(Len(s) <= Len(t)) BY <1>4 DEF IsPrefix
<1> QED BY <1>3, <1>4

LEMMA PrefixAppend ==
  ASSUME NEW S, NEW s \in Seq(S), NEW t \in Seq(S), NEW x \in S, IsPrefix(s, t)
  PROVE  IsPrefix(s, Append(t, x))
<1> DEFINE u == Append(t, x)
<1>1. u \in Seq(S) /\ Len(u) = Len(t) + 1 /\ \A i \in 1..Len(t) : u[i] = t[i] OBVIOUS
<1>2. Len(s) \in Nat /\ Len(t) \in Nat OBVIOUS
<1>3. Len(s) <= Len(t) /\ \A i \in 1..Len(s) : s[i] = t[i] BY PrefixIs
<1> HIDE DEF u
<1>4. Len(s) <= Len(u) /\ \A i \in 1..Len(s) : s[i] = u[i] BY <1>1, <1>2, <1>3
<1>5. IsPrefix(s, u) BY <1>1, <1>4, PrefixIs
<1> QED BY <1>5 DEF u

LEMMA PrefixOfItself ==
  ASSUME NEW S, NEW s \in Seq(S)
  PROVE  IsPrefix(s, s) /\ IsPrefix(<<>>, s)
<1>1. Len(s) \in Nat /\ <<>> \in Seq(S) /\ Len(<<>>) = 0 OBVIOUS
<1>2. IsPrefix(s, s) BY <1>1, PrefixIs
<1>3. Len(<<>>) <= Len(s) /\ 1..Len(<<>>) = {} BY <1>1
<1>4. IsPrefix(<<>>, s) BY <1>1, <1>3, PrefixIs
<1> QED BY <1>2, <1>4

LEMMA PrefixContains ==
  ASSUME NEW S, NEW s \in Seq(S), NEW t \in Seq(S), IsPrefix(s, t)
  PROVE  ToSet(s) \subseteq ToSet(t)
<1>1. Len(s) <= Len(t) /\ \A i \in 1..Len(s) : s[i] = t[i] BY PrefixIs
<1>2. DOMAIN s = 1..Len(s) /\ DOMAIN t = 1..Len(t) /\ Len(s) \in Nat /\ Len(t) \in Nat OBVIOUS
<1> QED BY <1>1, <1>2 DEF ToSet

LEMMA ToSetAppend ==
  ASSUME NEW S, NEW s \in Seq(S), NEW x \in S
  PROVE  ToSet(Append(s, x)) = ToSet(s) \cup {x}
<1> DEFINE u == Append(s, x)
<1>1. /\ DOMAIN u = 1..(Len(s) + 1) /\ DOMAIN s = 1..Len(s) /\ Len(s) \in Nat
      /\ u[Len(s) + 1] = x /\ \A i \in 1..Len(s) : u[i] = s[i]
  OBVIOUS
<1>2. 1..(Len(s) + 1) = 1..Len(s) \cup {Len(s) + 1} BY <1>1
<1> HIDE DEF u
<1>3. ToSet(u) = ToSet(s) \cup {x} BY <1>1, <1>2 DEF ToSet
<1> QED BY <1>3 DEF u

LEMMA ToSetEmpty == ToSet(<<>>) = {}
  BY DEF ToSet

----
\* The JSON store.  A snapshot and the file are beginnings of the memory,
\* and while no write was cut short or overlapped another one, the one
\* write in progress has everything that was answered, or the file has.

UnderWay == {"chained", "mkdir", "writing"}

StoreTypes ==
  /\ chained \in BOOLEAN /\ storeUp \in BOOLEAN
  /\ mem \in Seq(Saves) /\ chain \in Seq(Saves)
  /\ file \in Seq(Saves) \cup {Torn, Absent}
  /\ saving \in [Saves -> UnderWay \cup {"new", "saved", "failed", "lost"}]
  /\ snapshots \in [Saves -> Seq(Saves)]
  /\ mixed \subseteq Saves
  /\ rejected \in BOOLEAN /\ overlapped \in BOOLEAN /\ cutShort \in BOOLEAN

StorePrefixes ==
  /\ storeUp /\ file \notin {Torn, Absent} => IsPrefix(file, mem)
  /\ \A s \in Saves : IsPrefix(snapshots[s], mem)
  /\ \A s \in Saves : saving[s] \in UnderWay => storeUp /\ s \in ToSet(mem)
  /\ ~storeUp => ~rejected /\ \A s \in Saves : snapshots[s] = <<>>

InTurns ==
  /\ chained => ~overlapped /\ \A s \in Saves : saving[s] # "mkdir"
  /\ ~overlapped => /\ \A s, o \in Saves : saving[s] = "writing" /\ saving[o] = "writing" => s = o
                    /\ \A s \in Saves : saving[s] = "writing" => file = Torn
                    /\ mixed = {}

Calm == ~cutShort /\ ~overlapped

CalmStore ==
  Calm => /\ \A s \in Saves : saving[s] = "saved" /\ storeUp => s \in ToSet(mem)
          /\ (\A s \in Saves : saving[s] # "writing") =>
                \A s \in Saves : saving[s] = "saved" => s \in ToSet(Parsed)
          /\ \A w \in Saves : saving[w] = "writing" =>
                \A s \in Saves : saving[s] = "saved" \/ s = w => s \in ToSet(snapshots[w])

Poisoned ==
  chained => /\ \A s \in Saves : saving[s] = "failed" => /\ s \in ToSet(mem) => rejected
                                                         /\ s \notin ToSet(Parsed)
             /\ rejected => file = Torn /\ \A s \in Saves : saving[s] # "writing"

StoreSound == StoreTypes /\ StorePrefixes /\ InTurns /\ CalmStore /\ Poisoned

LEMMA NamesApart ==
  ASSUME StoreTypes
  PROVE  /\ Torn \notin Seq(Saves) /\ Absent \notin Seq(Saves) /\ Torn # Absent
         /\ Parsed \in Seq(Saves)
         /\ Parsed = IF file \in Seq(Saves) THEN file ELSE <<>>
<1>1. "torn" \notin Saves /\ "absent" \notin Saves BY StoreAssumption DEF StoreAssumption
<1>2. ASSUME NEW x, x \notin Saves
      PROVE  <<x>> \notin Seq(Saves) BY <1>2
<1>3. Torn \notin Seq(Saves) /\ Absent \notin Seq(Saves) BY <1>1, <1>2 DEF Torn, Absent
<1>4. Torn # Absent BY DEF Torn, Absent
<1> QED BY <1>3, <1>4 DEF Parsed, StoreTypes

LEMMA StoreStartsSound ==
  ASSUME StoreSound, StoreStarts
  PROVE  StoreSound'
<1>1. /\ Torn \notin Seq(Saves) /\ Absent \notin Seq(Saves) /\ Parsed \in Seq(Saves)
      /\ Parsed = IF file \in Seq(Saves) THEN file ELSE <<>>
  BY NamesApart DEF StoreSound
<1>2. /\ mem' = Parsed /\ file' = (IF chained THEN Parsed ELSE file) /\ storeUp' = TRUE /\ ~storeUp
      /\ UNCHANGED <<chained, saving, chain, snapshots, mixed, rejected, overlapped, cutShort>>
  BY DEF StoreStarts
<1>3. file' \in Seq(Saves) => file' = Parsed BY <1>1, <1>2
<1>4. StoreTypes' BY <1>1, <1>2 DEF StoreSound, StoreTypes
<1>5. Parsed' = Parsed BY <1>1, <1>2 DEF Parsed, StoreSound, StoreTypes
<1>6. StorePrefixes'
 <2>1. file' \notin {Torn, Absent} => file' = Parsed BY <1>3, <1>4 DEF StoreTypes
 <2>2. IsPrefix(Parsed, Parsed) /\ IsPrefix(<<>>, Parsed) BY <1>1, PrefixOfItself
 <2>3. \A s \in Saves : snapshots[s] = <<>> /\ saving[s] \notin UnderWay BY <1>2 DEF StoreSound, StorePrefixes
 <2> QED BY <1>2, <2>1, <2>2, <2>3 DEF StorePrefixes
<1>7. \A s \in Saves : saving[s] # "writing" /\ saving[s] \notin UnderWay
  BY <1>2 DEF StoreSound, StorePrefixes, UnderWay
<1>8. InTurns' BY <1>2, <1>7 DEF StoreSound, InTurns
<1>9. CalmStore' BY <1>2, <1>5, <1>7 DEF StoreSound, CalmStore, Calm
<1>10. Poisoned' BY <1>2, <1>5, <1>7 DEF StoreSound, StorePrefixes, Poisoned
<1> QED BY <1>4, <1>6, <1>8, <1>9, <1>10 DEF StoreSound


LEMMA SaveSound ==
  ASSUME StoreSound, NEW s \in Saves, Save(s)
  PROVE  StoreSound'
<1>1. /\ mem' = Append(mem, s) /\ storeUp /\ saving[s] = "new"
      /\ \/ chained /\ chain' = Append(chain, s) /\ saving' = [saving EXCEPT ![s] = "chained"]
         \/ ~chained /\ saving' = [saving EXCEPT ![s] = "mkdir"] /\ chain' = chain
      /\ UNCHANGED <<chained, storeUp, file, snapshots, mixed, rejected, overlapped, cutShort>>
  BY DEF Save
<1>2. mem \in Seq(Saves) BY DEF StoreSound, StoreTypes
<1>3. mem' \in Seq(Saves) /\ ToSet(mem') = ToSet(mem) \cup {s} BY <1>1, <1>2, ToSetAppend
<1>4. saving \in [Saves -> UnderWay \cup {"new", "saved", "failed", "lost"}] BY DEF StoreSound, StoreTypes
<1>5. /\ \A o \in Saves : o # s => saving'[o] = saving[o]
      /\ saving'[s] \in {"chained", "mkdir"} /\ (chained => saving'[s] = "chained")
      /\ saving' \in [Saves -> UnderWay \cup {"new", "saved", "failed", "lost"}]
  BY <1>1, <1>4 DEF UnderWay
<1>6. StoreTypes'
 <2>1. chain \in Seq(Saves) /\ Append(chain, s) \in Seq(Saves) BY DEF StoreSound, StoreTypes
 <2>2. chain' \in Seq(Saves) BY <1>1, <2>1
 <2> QED BY <1>1, <1>3, <1>5, <2>2 DEF StoreSound, StoreTypes
<1>7. StorePrefixes'
 <2>1. ASSUME NEW t \in Seq(Saves), IsPrefix(t, mem)
       PROVE  IsPrefix(t, mem')
   BY <1>1, <1>2, <2>1, PrefixAppend
 <2>2. file \notin {Torn, Absent} => file \in Seq(Saves) BY DEF StoreSound, StoreTypes
 <2>3. \A o \in Saves : snapshots[o] \in Seq(Saves) BY DEF StoreSound, StoreTypes
 <2> QED BY <1>1, <1>3, <1>5, <2>1, <2>2, <2>3 DEF StoreSound, StorePrefixes
<1>8. \A o \in Saves : /\ saving'[o] = "writing" <=> saving[o] = "writing"
                       /\ saving'[o] = "saved" <=> saving[o] = "saved"
                       /\ saving'[o] = "failed" => saving[o] = "failed" /\ o # s
  BY <1>1, <1>5
<1>9. InTurns' BY <1>1, <1>5, <1>8 DEF StoreSound, InTurns
<1>10. Parsed' = Parsed BY <1>1 DEF Parsed
<1>11. CalmStore' BY <1>1, <1>3, <1>8, <1>10 DEF StoreSound, CalmStore, Calm
<1>12. Poisoned' BY <1>1, <1>3, <1>8, <1>10 DEF StoreSound, Poisoned
<1> QED BY <1>6, <1>7, <1>9, <1>11, <1>12 DEF StoreSound

LEMMA WriteBeginsSound ==
  ASSUME StoreSound, NEW s \in Saves, WriteBegins(s)
  PROVE  StoreSound'
<1>1. /\ saving' = [saving EXCEPT ![s] = "writing"] /\ file' = Torn
      /\ snapshots' = [snapshots EXCEPT ![s] = mem]
      /\ mixed' = (IF Writing = {} THEN mixed ELSE mixed \cup Writing \cup {s})
      /\ overlapped' = (overlapped \/ Writing # {})
      /\ UNCHANGED <<chained, storeUp, mem, rejected, cutShort>>
      /\ ~(chained /\ rejected)
  BY DEF WriteBegins, Stringified
<1>2. /\ chained => Writing = {} /\ saving[s] = "chained" /\ chain # <<>> /\ chain' = Tail(chain)
      /\ ~chained => saving[s] = "mkdir" /\ chain' = chain
  BY DEF WriteBegins, Turn, OutOfTurn
<1>3. /\ saving \in [Saves -> UnderWay \cup {"new", "saved", "failed", "lost"}]
      /\ snapshots \in [Saves -> Seq(Saves)] /\ mem \in Seq(Saves) /\ chain \in Seq(Saves)
  BY DEF StoreSound, StoreTypes
<1>4. /\ \A o \in Saves : o # s => saving'[o] = saving[o] /\ snapshots'[o] = snapshots[o]
      /\ saving'[s] = "writing" /\ snapshots'[s] = mem
      /\ saving' \in [Saves -> UnderWay \cup {"new", "saved", "failed", "lost"}]
      /\ snapshots' \in [Saves -> Seq(Saves)]
      /\ saving[s] \in UnderWay
  BY <1>1, <1>2, <1>3 DEF UnderWay
<1>5. chain' \in Seq(Saves)
 <2>1. CASE chained
  <3>1. chain \in Seq(Saves) /\ chain # <<>> /\ chain' = Tail(chain) BY <1>2, <1>3, <2>1
  <3> QED BY <3>1
 <2>2. CASE ~chained BY <1>2, <1>3, <2>2
 <2> QED BY <2>1, <2>2
<1>6. StoreTypes' BY <1>1, <1>4, <1>5 DEF StoreSound, StoreTypes, Writing
<1>7. StorePrefixes' BY <1>3, PrefixOfItself, <1>4, <1>1 DEF StoreSound, StorePrefixes
<1>8. ~overlapped' => \A o \in Saves : saving[o] # "writing" BY <1>1 DEF Writing
<1>9. InTurns' BY <1>1, <1>2, <1>4, <1>8 DEF StoreSound, InTurns, Writing
<1>10. CalmStore'
 <2> SUFFICES ASSUME Calm'
              PROVE  \A o \in Saves : saving[o] = "saved" \/ o = s => o \in ToSet(mem)
   BY <1>1, <1>4, <1>8 DEF CalmStore, Calm
 <2>1. Calm /\ storeUp /\ s \in ToSet(mem) BY <1>1, <1>4 DEF Calm, StoreSound, StorePrefixes
 <2> QED BY <2>1 DEF StoreSound, CalmStore
<1>11. Poisoned' BY <1>1, ToSetEmpty, <1>4 DEF Parsed, StoreSound, Poisoned
<1> QED BY <1>6, <1>7, <1>9, <1>10, <1>11 DEF StoreSound

LEMMA WriteEndsSound ==
  ASSUME StoreSound, NEW s \in Saves, WriteEnds(s)
  PROVE  StoreSound'
<1>1. /\ saving[s] = "writing" /\ saving' = [saving EXCEPT ![s] = "saved"]
      /\ mixed' = mixed \ {s} /\ snapshots' = [snapshots EXCEPT ![s] = <<>>]
      /\ file' \in (IF s \in mixed
                    THEN {snapshots[s], file, Torn} \cup {snapshots[o] : o \in Writing}
                    ELSE {snapshots[s]})
      /\ UNCHANGED <<chained, storeUp, mem, chain, rejected, overlapped, cutShort>>
  BY DEF WriteEnds
<1>2. /\ saving \in [Saves -> UnderWay \cup {"new", "saved", "failed", "lost"}]
      /\ snapshots \in [Saves -> Seq(Saves)] /\ mem \in Seq(Saves)
  BY DEF StoreSound, StoreTypes
<1>3. /\ \A o \in Saves : o # s => saving'[o] = saving[o] /\ snapshots'[o] = snapshots[o]
      /\ saving'[s] = "saved" /\ snapshots'[s] = <<>>
      /\ saving' \in [Saves -> UnderWay \cup {"new", "saved", "failed", "lost"}]
      /\ snapshots' \in [Saves -> Seq(Saves)]
  BY <1>1, <1>2
<1>4. file' = file \/ file' = Torn \/ \E o \in Saves : file' = snapshots[o] BY <1>1 DEF Writing
<1>5. StoreTypes' BY <1>1, <1>2, <1>3, <1>4 DEF StoreSound, StoreTypes
<1>6. storeUp BY <1>1 DEF StoreSound, StorePrefixes, UnderWay
<1>7. StorePrefixes'
 <2>1. IsPrefix(<<>>, mem) BY <1>2, PrefixOfItself
 <2>2. file' \notin {Torn, Absent} => IsPrefix(file', mem) BY <1>4, <1>6 DEF StoreSound, StorePrefixes
 <2>3. \A o \in Saves : saving'[o] \in UnderWay => saving[o] \in UnderWay BY <1>3 DEF UnderWay
 <2> QED BY <1>1, <1>3, <1>6, <2>1, <2>2, <2>3 DEF StoreSound, StorePrefixes
<1>8. ~overlapped => /\ file' = snapshots[s] /\ mixed' = {}
                     /\ \A o \in Saves : saving'[o] # "writing"
  BY <1>1, <1>3 DEF StoreSound, InTurns
<1>9. InTurns' BY <1>1, <1>3, <1>8 DEF StoreSound, InTurns
<1>10. ~overlapped => Parsed' = snapshots[s] BY <1>2, NamesApart, <1>8 DEF StoreSound, Parsed
<1>11. CalmStore'
 <2> SUFFICES ASSUME Calm
              PROVE  /\ \A o \in Saves : saving'[o] = "saved" => o \in ToSet(mem)
                     /\ \A o \in Saves : saving'[o] = "saved" => o \in ToSet(Parsed')
   BY <1>1, <1>8 DEF CalmStore, Calm
 <2>1. \A o \in Saves : saving'[o] = "saved" => saving[o] = "saved" \/ o = s BY <1>3
 <2>2. \A o \in Saves : saving'[o] = "saved" => o \in ToSet(snapshots[s]) BY <1>1, <2>1 DEF StoreSound, CalmStore
 <2>3. ToSet(snapshots[s]) \subseteq ToSet(mem) BY <1>2, PrefixContains DEF StoreSound, StorePrefixes
 <2> QED BY <1>10, <2>2, <2>3 DEF Calm
<1>12. Poisoned'
 <2> SUFFICES ASSUME chained
              PROVE  /\ \A o \in Saves : saving'[o] = "failed" =>
                           /\ o \in ToSet(mem) => rejected
                           /\ o \notin ToSet(Parsed')
                     /\ ~rejected
   BY <1>1 DEF Poisoned
 <2>1. ~overlapped /\ ~rejected BY <1>1 DEF StoreSound, InTurns, Poisoned
 <2>2. \A o \in Saves : saving'[o] = "failed" => saving[o] = "failed" BY <1>3
 <2>3. ToSet(snapshots[s]) \subseteq ToSet(mem) BY <1>2, PrefixContains DEF StoreSound, StorePrefixes
 <2> QED BY <1>10, <2>1, <2>2, <2>3 DEF StoreSound, Poisoned
<1> QED BY <1>5, <1>7, <1>9, <1>11, <1>12 DEF StoreSound

\* A save ends badly, with or without a write of its own.
LEMMA SaveFailsSound ==
  ASSUME StoreSound, NEW s \in Saves,
         saving' = [saving EXCEPT ![s] = "failed"],
         UNCHANGED <<chained, storeUp, mem, file, overlapped>>,
         \/ /\ saving[s] = "mkdir" /\ UNCHANGED <<chain, snapshots, mixed, rejected, cutShort>>
         \/ /\ saving[s] = "writing" /\ chain' = chain
            /\ mixed' = mixed \ {s} /\ snapshots' = [snapshots EXCEPT ![s] = <<>>]
            /\ rejected' = (rejected \/ chained) /\ cutShort' = TRUE
         \/ /\ chained /\ rejected /\ chain' = Tail(chain) /\ chain # <<>>
            /\ UNCHANGED <<snapshots, mixed, rejected, cutShort>>
  PROVE  StoreSound'
<1>1. /\ saving \in [Saves -> UnderWay \cup {"new", "saved", "failed", "lost"}]
      /\ snapshots \in [Saves -> Seq(Saves)] /\ mem \in Seq(Saves) /\ chain \in Seq(Saves)
  BY DEF StoreSound, StoreTypes
<1>2. /\ \A o \in Saves : o # s => saving'[o] = saving[o]
      /\ saving'[s] = "failed"
      /\ saving' \in [Saves -> UnderWay \cup {"new", "saved", "failed", "lost"}]
  BY <1>1
<1>3. /\ snapshots' \in [Saves -> Seq(Saves)]
      /\ \A o \in Saves : snapshots'[o] = snapshots[o] \/ (o = s /\ snapshots'[o] = <<>>)
      /\ mixed' \subseteq mixed
 <2>1. /\ snapshots' = snapshots \/ snapshots' = [snapshots EXCEPT ![s] = <<>>]
       /\ mixed' \subseteq mixed
   OBVIOUS
 <2>2. <<>> \in Seq(Saves) OBVIOUS
 <2> QED BY <1>1, <2>1, <2>2
<1>4. chain' \in Seq(Saves)
 <2>1. chain' = chain \/ (chain # <<>> /\ chain' = Tail(chain)) OBVIOUS
 <2>2. chain # <<>> => Tail(chain) \in Seq(Saves) BY <1>1
 <2> QED BY <1>1, <2>1, <2>2
<1>5. rejected' \in BOOLEAN /\ cutShort' \in BOOLEAN BY DEF StoreSound, StoreTypes
<1>6. StoreTypes' BY <1>2, <1>3, <1>4, <1>5 DEF StoreSound, StoreTypes
<1>7. \A o \in Saves : saving'[o] \in UnderWay => saving[o] = saving'[o] /\ o # s BY <1>2 DEF UnderWay
<1>8. StorePrefixes'
 <2>1. IsPrefix(<<>>, mem) BY <1>1, PrefixOfItself
 <2> QED
  <3>1. file' \notin {Torn, Absent} /\ storeUp' => IsPrefix(file', mem') BY DEF StoreSound, StorePrefixes
  <3>2. \A o \in Saves : IsPrefix(snapshots'[o], mem') BY <1>3, <2>1 DEF StoreSound, StorePrefixes
  <3>3. \A o \in Saves : saving'[o] \in UnderWay => storeUp' /\ o \in ToSet(mem')
    BY <1>7 DEF StoreSound, StorePrefixes
  <3>4. ~storeUp => saving[s] \notin UnderWay /\ ~rejected BY DEF StoreSound, StorePrefixes
  <3>5. ~storeUp => rejected' = rejected BY <3>4 DEF UnderWay
  <3>6. ~storeUp' => ~rejected' /\ \A o \in Saves : snapshots'[o] = <<>>
    BY <1>3, <3>4, <3>5 DEF StoreSound, StorePrefixes
  <3> QED BY <3>1, <3>2, <3>3, <3>6 DEF StorePrefixes
<1>9. \A o \in Saves : saving'[o] = "writing" => saving[o] = "writing" /\ o # s BY <1>2
<1>10. \A o \in Saves : saving'[o] = "mkdir" => saving[o] = "mkdir" BY <1>2
<1>11. InTurns' BY <1>3, <1>9, <1>10 DEF StoreSound, InTurns
<1>12. Parsed' = Parsed BY DEF Parsed
<1>13. \A o \in Saves : saving'[o] = "saved" => saving[o] = "saved" BY <1>2
<1>14. CalmStore'
 <2>1. CASE cutShort' = TRUE BY <2>1 DEF CalmStore, Calm
 <2>2. CASE saving[s] # "writing" /\ UNCHANGED <<snapshots, cutShort>>
   BY <1>2, <2>2, <1>12, <1>13 DEF StoreSound, CalmStore, Calm
 <2>3. chained /\ rejected => saving[s] # "writing" BY DEF StoreSound, Poisoned
 <2> QED BY <2>1, <2>2, <2>3
<1>15. Poisoned'
 <2> SUFFICES ASSUME chained
              PROVE  Poisoned'
   BY DEF Poisoned
 <2>1. saving[s] # "mkdir" BY DEF StoreSound, InTurns
 <2>2. rejected'
  <3>1. \/ rejected' = (rejected \/ chained)
        \/ rejected /\ rejected' = rejected
    BY <2>1
  <3>2. CASE rejected' = (rejected \/ chained) BY <3>2, Zenon
  <3>3. CASE rejected /\ rejected' = rejected BY <3>3, Zenon
  <3> QED BY <3>1, <3>2, <3>3
 <2>3. file = Torn BY <2>1 DEF StoreSound, InTurns, Poisoned
 <2>4. \A o \in Saves : saving'[o] # "writing" BY <1>9, <2>1 DEF StoreSound, InTurns, Poisoned
 <2>5. ToSet(Parsed') = {} BY <1>12, <2>3, ToSetEmpty DEF Parsed
 <2> QED BY <2>2, <2>3, <2>4, <2>5 DEF Poisoned
<1> QED BY <1>6, <1>8, <1>11, <1>14, <1>15 DEF StoreSound

LEMMA StoreCrashesSound ==
  ASSUME StoreSound, StoreCrashes
  PROVE  StoreSound'
<1>1. /\ storeUp' = FALSE /\ mem' = <<>> /\ chain' = <<>> /\ mixed' = {} /\ rejected' = FALSE
      /\ saving' = [s \in Saves |-> IF saving[s] \in UnderWay THEN "lost" ELSE saving[s]]
      /\ snapshots' = [s \in Saves |-> <<>>]
      /\ cutShort' = (cutShort \/ Writing # {})
      /\ UNCHANGED <<chained, file, overlapped>>
  BY DEF StoreCrashes, UnderWay
<1>2. saving \in [Saves -> UnderWay \cup {"new", "saved", "failed", "lost"}] BY DEF StoreSound, StoreTypes
<1>3. /\ saving' \in [Saves -> UnderWay \cup {"new", "saved", "failed", "lost"}]
      /\ \A s \in Saves : /\ saving'[s] \notin UnderWay
                          /\ saving'[s] # "writing" /\ saving'[s] # "mkdir"
                          /\ saving'[s] = "saved" <=> saving[s] = "saved"
                          /\ saving'[s] = "failed" <=> saving[s] = "failed"
  BY <1>1, <1>2 DEF UnderWay
<1>4. <<>> \in Seq(Saves) /\ \A s \in Saves : snapshots'[s] = <<>> BY <1>1
<1>5. StoreTypes' BY <1>1, <1>3, <1>4 DEF StoreSound, StoreTypes
<1>6. StorePrefixes' BY <1>1, <1>4, PrefixOfItself, <1>3 DEF StorePrefixes
<1>7. InTurns' BY <1>1, <1>3 DEF StoreSound, InTurns
<1>8. Parsed' = Parsed BY <1>1 DEF Parsed
<1>9. CalmStore'
 <2> SUFFICES ASSUME Calm', NEW s \in Saves, saving[s] = "saved"
              PROVE  s \in ToSet(Parsed)
   BY <1>1, <1>3, <1>8 DEF CalmStore
 <2>1. Calm /\ \A o \in Saves : saving[o] # "writing" BY <1>1 DEF Calm, Writing
 <2> QED BY <2>1 DEF StoreSound, CalmStore
<1>10. Poisoned' BY <1>1, ToSetEmpty, <1>3, <1>8 DEF StoreSound, Poisoned
<1> QED BY <1>5, <1>6, <1>7, <1>9, <1>10 DEF StoreSound

LEMMA StoreStep ==
  ASSUME StoreSound, [StoreNext]_storeVars
  PROVE  StoreSound'
<1>1. ASSUME NEW s \in Saves, MkdirFails(s)
      PROVE  StoreSound'
  BY <1>1, SaveFailsSound DEF MkdirFails, UnderWay
<1>2. ASSUME NEW s \in Saves, WriteFailsMidway(s)
      PROVE  StoreSound'
  BY <1>2, SaveFailsSound DEF WriteFailsMidway, UnderWay, ChainRejects
<1>3. ASSUME NEW s \in Saves, RejectedUntried(s)
      PROVE  StoreSound'
  BY <1>3, SaveFailsSound DEF RejectedUntried
<1>4. CASE UNCHANGED storeVars
  BY <1>4 DEF storeVars, StoreSound, StoreTypes, StorePrefixes, InTurns, CalmStore, Calm, Poisoned, Parsed
<1> QED
  BY <1>1, <1>2, <1>3, <1>4, StoreStartsSound, StoreCrashesSound, SaveSound, WriteBeginsSound,
     WriteEndsSound DEF StoreNext, Progress

\* However many saves there are and however the server crashes: between
\* writes the file of a store has what was answered, unless a write was
\* cut short or overlapped another, and what a restart reads is in the
\* order it was saved in; and once a chained write has rejected, no later
\* save is answered well.
THEOREM StoreKeeps ==
  OperationsSpec => []AnsweredIsOnDisk /\ []RestoresAPrefix /\ PoisonedUntilRestart
<1>1. OperationsInit => StoreSound
 <2> SUFFICES ASSUME StoreInit
              PROVE  StoreSound
   BY DEF OperationsInit
 <2>1. /\ chained \in BOOLEAN /\ storeUp = FALSE /\ mem = <<>> /\ file = Absent /\ chain = <<>>
       /\ saving = [s \in Saves |-> "new"] /\ snapshots = [s \in Saves |-> <<>>] /\ mixed = {}
       /\ rejected = FALSE /\ overlapped = FALSE /\ cutShort = FALSE
   BY StoreAssumption DEF StoreInit, StoreAssumption
 <2>2. <<>> \in Seq(Saves) OBVIOUS
 <2>3. StoreTypes BY <2>1, <2>2 DEF StoreTypes
 <2>4. StorePrefixes BY <2>2, PrefixOfItself, <2>1 DEF StorePrefixes, UnderWay
 <2>5. InTurns /\ CalmStore /\ Poisoned BY <2>1 DEF InTurns, CalmStore, Poisoned
 <2> QED BY <2>3, <2>4, <2>5 DEF StoreSound
<1>2. StoreSound /\ [OperationsNext]_operationsVars => StoreSound'
 <2> SUFFICES ASSUME StoreSound, [OperationsNext]_operationsVars
              PROVE  StoreSound'
   OBVIOUS
 <2>1. [StoreNext]_storeVars BY DEF OperationsNext, ClientNext, ServiceNext, operationsVars, serviceVars
 <2> QED BY <2>1, StoreStep
<1>3. StoreSound => AnsweredIsOnDisk
 <2> SUFFICES ASSUME StoreSound, ~cutShort, chained \/ ~overlapped, Writing = {}
              PROVE  Answered \subseteq ToSet(Parsed)
   BY DEF AnsweredIsOnDisk
 <2>1. Calm /\ \A s \in Saves : saving[s] # "writing" BY DEF Calm, Writing, StoreSound, InTurns
 <2> QED BY <2>1 DEF StoreSound, CalmStore, Answered
<1>4. StoreSound => RestoresAPrefix BY DEF StoreSound, StorePrefixes, RestoresAPrefix
<1>5. StoreSound /\ [OperationsNext]_operationsVars =>
        [ (chained /\ \E s \in ToSet(mem) : saving[s] = "failed") =>
            \A s \in Saves : saving'[s] = "saved" => saving[s] = "saved" ]_storeVars
 <2> SUFFICES ASSUME StoreSound, [OperationsNext]_operationsVars, storeVars' # storeVars,
                     chained, NEW f \in ToSet(mem), saving[f] = "failed",
                     NEW s \in Saves, saving'[s] = "saved"
              PROVE  saving[s] = "saved"
   OBVIOUS
 <2>1. StoreNext BY DEF OperationsNext, ClientNext, ServiceNext, operationsVars, serviceVars
 <2>2. mem \in Seq(Saves) /\ saving \in [Saves -> UnderWay \cup {"new", "saved", "failed", "lost"}]
   BY DEF StoreSound, StoreTypes
 <2>3. f \in Saves BY <2>2 DEF ToSet
 <2>4. \A o \in Saves : saving[o] # "writing" BY <2>3 DEF StoreSound, Poisoned
 <2>5. CASE StoreStarts BY <2>5 DEF StoreStarts
 <2>6. CASE StoreCrashes BY <2>2, <2>6 DEF StoreCrashes
 <2>7. ASSUME NEW o \in Saves, Save(o)
       PROVE  saving[s] = "saved"
   BY <2>2, <2>7 DEF Save
 <2>8. ASSUME NEW o \in Saves, WriteBegins(o) \/ WriteEnds(o) \/ RejectedUntried(o)
       PROVE  saving[s] = "saved"
   BY <2>2, <2>4, <2>8 DEF WriteBegins, WriteEnds, RejectedUntried
 <2>9. ASSUME NEW o \in Saves, MkdirFails(o) \/ WriteFailsMidway(o)
       PROVE  saving[s] = "saved"
   BY <2>2, <2>9 DEF MkdirFails, WriteFailsMidway
 <2> QED BY <2>1, <2>5, <2>6, <2>7, <2>8, <2>9 DEF StoreNext, Progress
<1> QED BY <1>1, <1>2, <1>3, <1>4, <1>5, PTL DEF OperationsSpec, PoisonedUntilRestart

----
\* The NFT service.  Every state that is in memory, in the file or about
\* to be written counts its mints, and none of another moment of the same
\* collection lists a mint that the memory has not.

Collections == [mint : Nat, max : Nat, minted : Nat, frozen : BOOLEAN]
MintRows == [mint : Nat, of : Nat]

Counted(state, k) ==
  /\ state.collection \in Collections
  /\ state = [collection |-> state.collection, mints |-> state.mints]
  /\ state.mints \subseteq MintRows /\ IsFiniteSet(state.mints)
  /\ state.collection.mint <= k
  /\ \A m \in state.mints : m.of <= k /\ m.mint <= k
  /\ state.collection.minted = Cardinality(MintsOf(state))
  /\ state.collection.minted <= state.collection.max

NoMore(state, of) ==
  state.collection.mint = of.collection.mint => MintsOf(state) \subseteq MintsOf(of)

Awaiting == {c \in NftCalls : nftCalls[c].pending}

NftSound ==
  /\ keys \in Nat
  /\ Counted(nft, keys) /\ Counted(nftFile, keys) /\ NoMore(nftFile, nft)
  /\ nftCalls = [c \in NftCalls |-> nftCalls[c]]
  /\ \A c \in NftCalls : \/ nftCalls[c] = NoWrite
                         \/ /\ nftCalls[c] = [pending |-> TRUE, state |-> nftCalls[c].state]
                            /\ Counted(nftCalls[c].state, keys) /\ NoMore(nftCalls[c].state, nft)

LEMMA EmptyCounted ==
  ASSUME NEW k \in Nat, NEW of
  PROVE  Counted(EmptyNft, k) /\ NoMore(EmptyNft, of)
<1>1. MintsOf(EmptyNft) = {} /\ EmptyNft.mints = {} /\ EmptyNft.collection = NoCollection BY DEF MintsOf, EmptyNft
<1>2. IsFiniteSet({}) /\ Cardinality({}) = 0 BY FS_EmptySet
<1>3. /\ NoCollection \in Collections
      /\ NoCollection.mint = 0 /\ NoCollection.minted = 0 /\ NoCollection.max = 0
  BY DEF NoCollection, Collections
<1>4. EmptyNft = [collection |-> EmptyNft.collection, mints |-> EmptyNft.mints] BY DEF EmptyNft
<1> QED BY <1>1, <1>2, <1>3, <1>4 DEF Counted, NoMore

LEMMA CountedLater ==
  ASSUME NEW state, NEW k \in Nat, NEW l \in Nat, k <= l, Counted(state, k)
  PROVE  Counted(state, l)
  BY DEF Counted, Collections, MintRows

\* What a request makes of the memory, and puts aside to be written.
LEMMA PersistsSound ==
  ASSUME NftSound, NEW c \in NftCalls, NEW state, Persists(c, state),
         keys' \in Nat, keys <= keys', Counted(state, keys'),
         \A x : Counted(x, keys) /\ NoMore(x, nft) => NoMore(x, state)
  PROVE  NftSound'
<1>1. /\ nft' = state /\ nftFile' = nftFile
      /\ nftCalls' = [nftCalls EXCEPT ![c] = [pending |-> TRUE, state |-> state]]
  BY DEF Persists
<1>2. keys \in Nat BY DEF NftSound
<1>3. NoMore(state, state) BY DEF NoMore
<1>4. Counted(nftFile, keys') /\ NoMore(nftFile, state) BY <1>2, CountedLater DEF NftSound
<1>5. \A d \in NftCalls : \/ nftCalls'[d] = NoWrite
                          \/ /\ nftCalls'[d] = [pending |-> TRUE, state |-> nftCalls'[d].state]
                             /\ Counted(nftCalls'[d].state, keys') /\ NoMore(nftCalls'[d].state, state)
 <2> SUFFICES ASSUME NEW d \in NftCalls
              PROVE  \/ nftCalls'[d] = NoWrite
                     \/ /\ nftCalls'[d] = [pending |-> TRUE, state |-> nftCalls'[d].state]
                        /\ Counted(nftCalls'[d].state, keys') /\ NoMore(nftCalls'[d].state, state)
   OBVIOUS
 <2>1. CASE d = c BY <1>1, <2>1, <1>3 DEF NftSound
 <2>2. CASE d # c BY <1>1, <2>2, <1>2, CountedLater DEF NftSound
 <2> QED BY <2>1, <2>2
<1>6. nftCalls' = [d \in NftCalls |-> nftCalls'[d]] BY <1>1 DEF NftSound
<1> QED BY <1>1, <1>4, <1>5, <1>6 DEF NftSound

LEMMA CreateCollectionSound ==
  ASSUME NftSound, NEW c \in NftCalls, NEW max \in Supplies, CreateCollection(c, max)
  PROVE  NftSound'
<1> DEFINE row == NewCollection(max)
           state == [nft EXCEPT !.collection = row]
<1>1. keys \in Nat /\ keys' = keys + 1 /\ Persists(c, state) BY DEF CreateCollection, NewKey, NftSound
<1>2. /\ row \in Collections /\ row.mint = keys + 1 /\ row.minted = 0 /\ row.max = max
      /\ max \in Nat
  BY <1>1, NftAssumption DEF NftAssumption, NewCollection, Collections
<1> HIDE DEF row
<1>3. state = [collection |-> row, mints |-> nft.mints] BY DEF NftSound, Counted
<1> HIDE DEF state
<1>4. state.collection = row /\ state.mints = nft.mints BY <1>3
<1>5. MintsOf(state) = {} BY <1>1, <1>2, <1>4 DEF MintsOf, NftSound, Counted, MintRows
<1>6. Counted(state, keys')
 <2>1. /\ nft.mints \subseteq MintRows /\ IsFiniteSet(nft.mints)
       /\ \A m \in nft.mints : m.of <= keys /\ m.mint <= keys
   BY DEF NftSound, Counted
 <2>2. \A m \in state.mints : m.of <= keys' /\ m.mint <= keys' BY <1>1, <1>4, <2>1 DEF MintRows
 <2>3. Cardinality(MintsOf(state)) = 0 BY <1>5, FS_EmptySet
 <2>4. state = [collection |-> state.collection, mints |-> state.mints] BY <1>3, <1>4
 <2> QED BY <1>1, <1>2, <1>4, <2>1, <2>2, <2>3, <2>4 DEF Counted
<1>7. \A x : Counted(x, keys) => NoMore(x, state) BY <1>1, <1>2, <1>4 DEF Counted, NoMore, Collections
<1> QED BY <1>1, <1>6, <1>7, PersistsSound

LEMMA MintSound ==
  ASSUME NftSound, NEW c \in NftCalls, Mint(c)
  PROVE  NftSound'
<1> DEFINE row == [mint |-> keys + 1, of |-> nft.collection.mint]
           coll == [nft.collection EXCEPT !.minted = @ + 1]
           state == [collection |-> coll, mints |-> nft.mints \cup {row}]
<1>1. keys \in Nat /\ keys' = keys + 1 /\ Persists(c, state) /\ nft.collection.minted < nft.collection.max
  BY DEF Mint, NewKey, MayMint, NftSound
<1>2. nft.collection \in Collections BY DEF NftSound, Counted
<1>3. /\ coll \in Collections /\ coll.mint = nft.collection.mint /\ coll.max = nft.collection.max
      /\ coll.minted = nft.collection.minted + 1
  BY <1>2 DEF Collections
<1>4. row \in MintRows /\ row.mint = keys + 1 /\ row.of = nft.collection.mint BY <1>1, <1>2 DEF MintRows, Collections
<1>5. state.collection = coll /\ state.mints = nft.mints \cup {row}
      /\ state = [collection |-> state.collection, mints |-> state.mints]
  OBVIOUS
<1> HIDE DEF row, coll, state
<1>6. row \notin nft.mints BY <1>1, <1>4 DEF NftSound, Counted, MintRows
<1>7. MintsOf(state) = MintsOf(nft) \cup {row} /\ row \notin MintsOf(nft) BY <1>3, <1>4, <1>5, <1>6 DEF MintsOf
<1>8. IsFiniteSet(MintsOf(nft)) /\ IsFiniteSet(state.mints)
  BY <1>5, FS_Subset, FS_AddElement DEF NftSound, Counted, MintsOf
<1>9. Cardinality(MintsOf(state)) = Cardinality(MintsOf(nft)) + 1 BY <1>7, <1>8, FS_AddElement
<1>10. Counted(state, keys')
 <2>1. nft.mints \subseteq MintRows /\ \A m \in nft.mints : m.of <= keys /\ m.mint <= keys BY DEF NftSound, Counted
 <2>2. nft.collection.mint <= keys /\ nft.collection.minted = Cardinality(MintsOf(nft)) BY DEF NftSound, Counted
 <2>3. \A m \in state.mints : m.of <= keys' /\ m.mint <= keys'
   BY <1>1, <1>2, <1>4, <1>5, <2>1, <2>2 DEF MintRows, Collections
 <2>4. state.collection.minted <= state.collection.max /\ state.collection.mint <= keys'
   BY <1>1, <1>2, <1>3, <1>5, <2>2 DEF Collections
 <2> QED BY <1>3, <1>4, <1>5, <1>8, <1>9, <2>1, <2>2, <2>3, <2>4 DEF Counted
<1>11. \A x : NoMore(x, nft) => NoMore(x, state) BY <1>3, <1>5, <1>7 DEF NoMore
<1> QED BY <1>1, <1>10, <1>11, PersistsSound

LEMMA FreezeSound ==
  ASSUME NftSound, NEW c \in NftCalls, Freeze(c)
  PROVE  NftSound'
<1> DEFINE coll == [nft.collection EXCEPT !.frozen = TRUE]
           state == [nft EXCEPT !.collection.frozen = TRUE]
<1>1. keys \in Nat /\ keys' = keys /\ Persists(c, state) BY DEF Freeze, NftSound
<1>2. nft.collection \in Collections BY DEF NftSound, Counted
<1>3. /\ coll \in Collections /\ coll.mint = nft.collection.mint /\ coll.max = nft.collection.max
      /\ coll.minted = nft.collection.minted
  BY <1>2 DEF Collections
<1>4. state = [collection |-> coll, mints |-> nft.mints]
 <2>1. nft = [collection |-> nft.collection, mints |-> nft.mints] BY DEF NftSound, Counted
 <2>2. PICK c0, m0 : nft = [collection |-> c0, mints |-> m0] BY <2>1
 <2>3. nft.collection = c0 /\ nft.mints = m0 BY <2>2
 <2> DEFINE d == [c0 EXCEPT !.frozen = TRUE]
 <2>4. state = [nft EXCEPT !.collection = d] BY <2>3
 <2>5. coll = d BY <2>3
 <2> HIDE DEF d, coll, state
 <2>6. [nft EXCEPT !.collection = d] = [collection |-> d, mints |-> m0] BY <2>2
 <2> QED BY <2>3, <2>4, <2>5, <2>6
<1> HIDE DEF coll, state
<1>5. state.collection = coll /\ state.mints = nft.mints
      /\ state = [collection |-> state.collection, mints |-> state.mints]
  BY <1>4
<1>6. MintsOf(state) = MintsOf(nft) BY <1>3, <1>5 DEF MintsOf
<1>7. Counted(state, keys') BY <1>1, <1>3, <1>5, <1>6 DEF NftSound, Counted
<1>8. \A x : NoMore(x, nft) => NoMore(x, state) BY <1>3, <1>5, <1>6 DEF NoMore
<1> QED BY <1>1, <1>7, <1>8, PersistsSound

\* A write begins late, ends, or does not.
LEMMA WriteSound ==
  ASSUME NftSound, NEW c \in NftCalls, Stringify(c) \/ Written(c) \/ NotWritten(c)
  PROVE  NftSound'
<1>1. keys' = keys /\ nft' = nft /\ keys \in Nat BY DEF Stringify, Written, NotWritten, NftSound
<1>2. nftCalls[c].pending BY DEF Stringify, Written, NotWritten
<1>3. NoWrite.pending = FALSE BY DEF NoWrite
<1>4. Counted(nftCalls[c].state, keys) /\ NoMore(nftCalls[c].state, nft) BY <1>2, <1>3 DEF NftSound
<1>5. nftFile' \in {nftFile, EmptyNft, nftCalls[c].state} BY DEF Stringify, Written, NotWritten
<1>6. Counted(nftFile', keys) /\ NoMore(nftFile', nft) BY <1>1, <1>4, <1>5, EmptyCounted DEF NftSound
<1>7. /\ nftCalls' = [d \in NftCalls |-> nftCalls'[d]]
      /\ \A d \in NftCalls : d # c => nftCalls'[d] = nftCalls[d]
      /\ nftCalls'[c] = NoWrite \/ nftCalls'[c] = [nftCalls[c] EXCEPT !.state = nft]
  BY DEF Stringify, Written, NotWritten, NftSound
<1>8. [nftCalls[c] EXCEPT !.state = nft] = [pending |-> TRUE, state |-> nft]
 <2>1. nftCalls[c] = [pending |-> TRUE, state |-> nftCalls[c].state] BY <1>2, <1>3 DEF NftSound
 <2>2. ASSUME NEW r, NEW p, NEW x, NEW y, r = [pending |-> p, state |-> x]
       PROVE  [r EXCEPT !.state = y] = [pending |-> p, state |-> y]
   BY <2>2
 <2> QED BY <2>1, <2>2, ZenonT(30)
<1>9. Counted(nft, keys) /\ NoMore(nft, nft) BY DEF NftSound, NoMore
<1>10. \A d \in NftCalls : \/ nftCalls'[d] = NoWrite
                           \/ /\ nftCalls'[d] = [pending |-> TRUE, state |-> nftCalls'[d].state]
                              /\ Counted(nftCalls'[d].state, keys) /\ NoMore(nftCalls'[d].state, nft)
  BY <1>7, <1>8, <1>9 DEF NftSound
<1> QED BY <1>1, <1>6, <1>7, <1>9, <1>10 DEF NftSound

LEMMA NftRestartsSound ==
  ASSUME NftSound, NftRestarts
  PROVE  NftSound'
<1>1. PICK read \in {nftFile, EmptyNft} : nft' = read /\ nftFile' = read BY DEF NftRestarts
<1>2. nftCalls' = [c \in NftCalls |-> NoWrite] /\ keys' = keys /\ keys \in Nat BY DEF NftRestarts, NftSound
<1>3. Counted(read, keys) /\ NoMore(read, read) BY <1>1, <1>2, EmptyCounted DEF NftSound, NoMore
<1>4. \A c \in NftCalls : nftCalls'[c] = NoWrite BY <1>2
<1> QED BY <1>1, <1>2, <1>3, <1>4 DEF NftSound

LEMMA NftStep ==
  ASSUME NftSound, [NftServiceNext]_nftServiceVars
  PROVE  NftSound'
<1>1. CASE UNCHANGED nftServiceVars BY <1>1 DEF nftServiceVars, NftSound
<1> QED
  BY <1>1, CreateCollectionSound, MintSound, FreezeSound, WriteSound, NftRestartsSound
     DEF NftServiceNext

\* A collection that is frozen here and in its file gets no further mint.
LEMMA StaysFrozen ==
  ASSUME NftSound, NftServiceNext, nft.collection.frozen, nftFile.collection = nft.collection,
         \A c \in NftCalls : ~nftCalls[c].pending
  PROVE  MintsOf(nft') = MintsOf(nft) \/ nft'.collection.mint # nft.collection.mint
<1>1. ASSUME NEW c \in NftCalls, NEW max \in Supplies, CreateCollection(c, max)
      PROVE  nft'.collection.mint # nft.collection.mint
  BY <1>1 DEF CreateCollection, Persists, NftSound, Counted, NewCollection, Collections
<1>2. ASSUME NEW c \in NftCalls, Mint(c)
      PROVE  FALSE
  BY <1>2 DEF Mint, MayMint
<1>3. ASSUME NEW c \in NftCalls, Freeze(c)
      PROVE  MintsOf(nft') = MintsOf(nft)
  BY <1>3 DEF Freeze, Persists, NftSound, Counted, Collections, MintsOf
<1>4. ASSUME NEW c \in NftCalls, Stringify(c) \/ Written(c) \/ NotWritten(c)
      PROVE  FALSE
  BY <1>4 DEF Stringify, Written, NotWritten
<1>5. ASSUME NftRestarts
      PROVE  MintsOf(nft') = MintsOf(nft)
 <2>1. nft' = nftFile BY <1>5 DEF NftRestarts
 <2>2. MintsOf(nftFile) \subseteq MintsOf(nft) BY DEF NftSound, NoMore
 <2>3. IsFiniteSet(MintsOf(nft)) BY FS_Subset DEF NftSound, Counted, MintsOf
 <2>4. Cardinality(MintsOf(nftFile)) = Cardinality(MintsOf(nft)) BY DEF NftSound, Counted
 <2> QED BY <2>1, <2>2, <2>3, <2>4, FS_Subset
<1> QED BY <1>1, <1>2, <1>3, <1>4, <1>5 DEF NftServiceNext

\* However many requests there are and whichever of their writes fail: the
\* collection counts its own mints, within its supply, in memory and in
\* its file, and once it is frozen in both it gets no other.
THEOREM CollectionKeeps == OperationsSpec => []CountsItsMints /\ FrozenIsFinal
<1>1. OperationsInit => NftSound
 <2> SUFFICES ASSUME NftServiceInit
              PROVE  NftSound
   BY DEF OperationsInit
 <2>1. keys \in Nat /\ nft = EmptyNft /\ nftFile = EmptyNft /\ nftCalls = [c \in NftCalls |-> NoWrite]
   BY DEF NftServiceInit
 <2> QED BY <2>1, EmptyCounted DEF NftSound
<1>2. NftSound /\ [OperationsNext]_operationsVars => NftSound'
 <2> SUFFICES ASSUME NftSound, [OperationsNext]_operationsVars
              PROVE  NftSound'
   OBVIOUS
 <2>1. [NftServiceNext]_nftServiceVars BY DEF OperationsNext, ClientNext, ServiceNext, operationsVars, serviceVars
 <2> QED BY <2>1, NftStep
<1>3. NftSound => CountsItsMints BY DEF NftSound, Counted, CountsItsMints
<1>4. NftSound /\ [OperationsNext]_operationsVars =>
        [ (/\ nft.collection.frozen /\ nftFile.collection = nft.collection
           /\ \A c \in NftCalls : ~nftCalls[c].pending)
          => MintsOf(nft') = MintsOf(nft) \/ nft'.collection.mint # nft.collection.mint ]_nftServiceVars
 <2> SUFFICES ASSUME NftSound, [OperationsNext]_operationsVars, nftServiceVars' # nftServiceVars,
                     nft.collection.frozen, nftFile.collection = nft.collection,
                     \A c \in NftCalls : ~nftCalls[c].pending
              PROVE  MintsOf(nft') = MintsOf(nft) \/ nft'.collection.mint # nft.collection.mint
   OBVIOUS
 <2>1. NftServiceNext BY DEF OperationsNext, ClientNext, ServiceNext, operationsVars, serviceVars
 <2> QED BY <2>1, StaysFrozen
<1> QED BY <1>1, <1>2, <1>3, <1>4, PTL DEF OperationsSpec, FrozenIsFinal

\* What the stores promise, together: StoresHold.
THEOREM StoresAlwaysHold == OperationsSpec => StoresHold
  BY StoreKeeps, CollectionKeeps, PTL DEF StoresHold

----
\* The page of the receipts.  A page without a choice has listed nothing
\* and awaits one call at most, which will not load a chain; a page with a
\* choice has no call that knows of none, so a list never takes it back.

Tasks == {<<"post", "list">>, <<"post", "plans">>, <<"post", "list", "chain">>}
Remainders == {<<"list">>, <<"plans">>, <<"list", "chain">>, <<"chain">>}
PageCallRow == [steps : Tasks \cup Remainders, id : Nat, task : BOOLEAN, sent : Nat]

\* A call that ends what the page is busy with.
EndsBusy(call) == call.task \/ Head(call.steps) \in {"list", "plans"}

PageTypes ==
  /\ reflectionCount \in Nat /\ listedCount \in Nat /\ chosenId \in Nat /\ chainOf \in Nat
  /\ receiptsBusy \in BOOLEAN /\ crossed \in BOOLEAN
  /\ pageCalls \in Seq(PageCallRow)

CallsKnow ==
  /\ \A call \in ToSet(pageCalls) : call.steps \in Tasks => call.task
  /\ chosenId = 0 => /\ listedCount = 0 /\ Len(pageCalls) <= 1
                     /\ \A call \in ToSet(pageCalls) :
                           /\ receiptsBusy /\ call.id = 0
                           /\ ~LoadsChain(call)
  /\ chosenId # 0 => \A call \in ToSet(pageCalls) : call.id # 0

ChainAwaited(call) == call.steps = <<"chain">>

ChainsKnow ==
  chosenId # 0 /\ ~crossed =>
     /\ \A call \in ToSet(pageCalls) : LoadsChain(call) => call.id = chosenId
     /\ chainOf = chosenId \/ \E call \in ToSet(pageCalls) : ChainAwaited(call)

BusyKnows == receiptsBusy => \E call \in ToSet(pageCalls) : EndsBusy(call)

PageSound == PageTypes /\ CallsKnow /\ ChainsKnow /\ BusyKnows

\* What the lists of steps are.
LEMMA StepsAre ==
  ASSUME NEW steps \in Tasks \cup Remainders
  PROVE  /\ steps \in Tasks <=> Head(steps) = "post"
         /\ Head(steps) = "list" <=> steps \in {<<"list">>, <<"list", "chain">>}
         /\ Head(steps) = "chain" <=> steps = <<"chain">>
         /\ Head(steps) = "plans" <=> steps = <<"plans">>
         /\ Len(steps) = 1 <=> steps \in {<<"list">>, <<"plans">>, <<"chain">>}
         /\ Len(steps) # 1 => Tail(steps) \in Remainders
         /\ steps = <<"post", "list">> => Tail(steps) = <<"list">>
         /\ steps = <<"post", "plans">> => Tail(steps) = <<"plans">>
         /\ steps = <<"post", "list", "chain">> => Tail(steps) = <<"list", "chain">>
         /\ steps = <<"list", "chain">> => Tail(steps) = <<"chain">>
         /\ (\E k \in DOMAIN steps : steps[k] = "chain") <=>
               steps \in {<<"post", "list", "chain">>, <<"list", "chain">>, <<"chain">>}
<1>1. CASE steps = <<"post", "list">> BY <1>1 DEF Tasks, Remainders
<1>2. CASE steps = <<"post", "plans">> BY <1>2 DEF Tasks, Remainders
<1>3. CASE steps = <<"post", "list", "chain">> BY <1>3 DEF Tasks, Remainders
<1>4. CASE steps = <<"list">> BY <1>4 DEF Tasks, Remainders
<1>5. CASE steps = <<"plans">> BY <1>5 DEF Tasks, Remainders
<1>6. CASE steps = <<"list", "chain">> BY <1>6 DEF Tasks, Remainders
<1>7. CASE steps = <<"chain">> BY <1>7 DEF Tasks, Remainders
<1> QED BY <1>1, <1>2, <1>3, <1>4, <1>5, <1>6, <1>7 DEF Tasks, Remainders

\* The calls but the i-th, and what is left of that one.
OtherCalls(i) == {pageCalls[j] : j \in 1..Len(pageCalls) \ {i}}
Remains(i) ==
  [steps |-> Tail(pageCalls[i].steps), id |-> pageCalls[i].id, task |-> pageCalls[i].task,
   sent |-> reflectionCount]
LeftOf(i) == IF Len(pageCalls[i].steps) = 1 THEN {} ELSE {Remains(i)}

LEMMA ListParts ==
  ASSUME NEW S, NEW a \in Seq(S), NEW b \in Seq(S)
  PROVE  /\ a \o b \in Seq(S) /\ Len(a \o b) = Len(a) + Len(b)
         /\ ToSet(a \o b) = ToSet(a) \cup ToSet(b)
<1> DEFINE c == a \o b
<1>1. /\ c \in Seq(S) /\ Len(c) = Len(a) + Len(b) /\ Len(a) \in Nat /\ Len(b) \in Nat
      /\ \A i \in 1..Len(a) : c[i] = a[i]
      /\ \A i \in 1..Len(b) : c[Len(a) + i] = b[i]
      /\ DOMAIN a = 1..Len(a) /\ DOMAIN b = 1..Len(b) /\ DOMAIN c = 1..(Len(a) + Len(b))
  OBVIOUS
<1> HIDE DEF c
<1>2. ToSet(a) \subseteq ToSet(c) BY <1>1 DEF ToSet
<1>3. ToSet(b) \subseteq ToSet(c)
 <2> SUFFICES ASSUME NEW i \in 1..Len(b)
              PROVE  b[i] \in ToSet(c)
   BY <1>1 DEF ToSet
 <2>1. Len(a) + i \in DOMAIN c /\ c[Len(a) + i] = b[i] BY <1>1
 <2> QED BY <2>1 DEF ToSet
<1>4. ToSet(c) \subseteq ToSet(a) \cup ToSet(b)
 <2> SUFFICES ASSUME NEW i \in 1..(Len(a) + Len(b))
              PROVE  c[i] \in ToSet(a) \cup ToSet(b)
   BY <1>1 DEF ToSet
 <2>1. CASE i <= Len(a) BY <1>1, <2>1 DEF ToSet
 <2>2. CASE ~(i <= Len(a))
  <3>1. i - Len(a) \in 1..Len(b) /\ Len(a) + (i - Len(a)) = i BY <1>1, <2>2
  <3>2. c[i] = b[i - Len(a)] BY <1>1, <3>1
  <3> QED BY <1>1, <3>1, <3>2 DEF ToSet
 <2> QED BY <2>1, <2>2
<1> QED BY <1>1, <1>2, <1>3, <1>4 DEF c

LEMMA WithoutIs ==
  ASSUME PageTypes, NEW i \in 1..Len(pageCalls)
  PROVE  /\ Without(i) \in Seq(PageCallRow) /\ Len(Without(i)) <= Len(pageCalls)
         /\ ToSet(Without(i)) = OtherCalls(i)
<1> DEFINE n == Len(pageCalls)
           a == SubSeq(pageCalls, 1, i - 1)
           b == SubSeq(pageCalls, i + 1, n)
<1>1. pageCalls \in Seq(PageCallRow) /\ n \in Nat BY DEF PageTypes
<1>2. /\ a \in Seq(PageCallRow) /\ Len(a) = i - 1 /\ \A j \in 1..(i - 1) : a[j] = pageCalls[j]
      /\ DOMAIN a = 1..(i - 1)
  BY <1>1
<1>3. /\ b \in Seq(PageCallRow) /\ Len(b) = n - i /\ \A j \in 1..(n - i) : b[j] = pageCalls[i + j]
      /\ DOMAIN b = 1..(n - i)
  BY <1>1
<1>4. Without(i) = a \o b BY DEF Without
<1> HIDE DEF n, a, b
<1>5. /\ Without(i) \in Seq(PageCallRow) /\ Len(Without(i)) = Len(a) + Len(b)
      /\ ToSet(Without(i)) = ToSet(a) \cup ToSet(b)
 <2>1. /\ a \o b \in Seq(PageCallRow) /\ Len(a \o b) = Len(a) + Len(b)
       /\ ToSet(a \o b) = ToSet(a) \cup ToSet(b)
   BY <1>2, <1>3, ListParts
 <2> QED BY <1>4, <2>1
<1>6. ToSet(a) \cup ToSet(b) \subseteq OtherCalls(i)
 <2>1. \A j \in 1..(i - 1) : a[j] \in OtherCalls(i) BY <1>1, <1>2 DEF OtherCalls, n
 <2>2. ASSUME NEW j \in 1..(n - i)
       PROVE  b[j] \in OtherCalls(i) BY <1>1, <1>3 DEF n, OtherCalls
 <2> QED BY <1>2, <1>3, <2>1, <2>2 DEF ToSet
<1>7. OtherCalls(i) \subseteq ToSet(a) \cup ToSet(b)
 <2> SUFFICES ASSUME NEW j \in 1..n, j # i
              PROVE  pageCalls[j] \in ToSet(a) \cup ToSet(b)
   BY DEF OtherCalls, n
 <2>1. CASE j < i BY <1>1, <2>1, <1>2 DEF n, ToSet
 <2>2. CASE j > i
  <3>1. j - i \in 1..(n - i) /\ i + (j - i) = j BY <1>1, <2>2 DEF n
  <3>2. b[j - i] = pageCalls[j] BY <1>3, <3>1
  <3> QED BY <1>3, <3>1, <3>2 DEF ToSet
 <2> QED BY <1>1, <2>1, <2>2 DEF n
<1> QED BY <1>1, <1>2, <1>3, <1>5, <1>6, <1>7 DEF n

LEMMA CallsParted ==
  ASSUME PageTypes, NEW i \in 1..Len(pageCalls)
  PROVE  /\ ToSet(pageCalls) = OtherCalls(i) \cup {pageCalls[i]}
         /\ Len(pageCalls) <= 1 => OtherCalls(i) = {}
         /\ pageCalls[i] \in PageCallRow
<1>1. pageCalls \in Seq(PageCallRow) /\ Len(pageCalls) \in Nat /\ DOMAIN pageCalls = 1..Len(pageCalls)
  BY DEF PageTypes
<1>2. ToSet(pageCalls) = OtherCalls(i) \cup {pageCalls[i]} BY <1>1 DEF ToSet, OtherCalls
<1>3. Len(pageCalls) <= 1 => 1..Len(pageCalls) \ {i} = {} BY <1>1
<1> QED BY <1>1, <1>2, <1>3 DEF OtherCalls

LEMMA AdvancedIs ==
  ASSUME PageTypes, NEW i \in 1..Len(pageCalls)
  PROVE  /\ Advanced(i) \in Seq(PageCallRow) /\ Len(Advanced(i)) <= Len(pageCalls)
         /\ ToSet(Advanced(i)) = OtherCalls(i) \cup LeftOf(i)
<1>1. CASE Len(pageCalls[i].steps) = 1 BY <1>1, WithoutIs DEF Advanced, LeftOf
<1>2. CASE Len(pageCalls[i].steps) # 1
 <2> DEFINE n == Len(pageCalls)
            list == Advanced(i)
 <2>1. pageCalls \in [1..n -> PageCallRow] /\ n \in Nat BY DEF PageTypes
 <2>2. pageCalls[i] \in PageCallRow BY <2>1
 <2>3. Remains(i) \in PageCallRow BY <1>2, <2>2, StepsAre DEF PageCallRow, PageTypes, Remains
 <2>4. [pageCalls[i] EXCEPT !.steps = Tail(pageCalls[i].steps), !.sent = reflectionCount] = Remains(i)
  <3> DEFINE call == pageCalls[i]
             left == Tail(call.steps)
  <3>2. PICK a, b, c, d : call = [steps |-> a, id |-> b, task |-> c, sent |-> d] BY <2>2 DEF PageCallRow
  <3>3. call.id = b /\ call.task = c BY <3>2
  <3> HIDE DEF call, left
  <3>4. [call EXCEPT !.steps = left, !.sent = reflectionCount] =
           [steps |-> left, id |-> b, task |-> c, sent |-> reflectionCount]
   <4> DEFINE new == [call EXCEPT !.steps = left, !.sent = reflectionCount]
   <4>1. new \in [steps : {left}, id : {b}, task : {c}, sent : {reflectionCount}] BY <3>2
   <4> HIDE DEF new
   <4>2. new = [steps |-> left, id |-> b, task |-> c, sent |-> reflectionCount] BY <4>1
   <4> QED BY <4>2 DEF new
  <3>5. Remains(i) = [steps |-> left, id |-> b, task |-> c, sent |-> reflectionCount] BY <3>3 DEF Remains, left, call
  <3> QED BY <3>4, <3>5 DEF call, left
 <2>5. list = [pageCalls EXCEPT ![i] = Remains(i)] BY <1>2, <2>1, <2>4 DEF Advanced
 <2> HIDE DEF n, list
 <2>6. list \in [1..n -> PageCallRow] /\ list[i] = Remains(i) /\ \A j \in 1..n : j # i => list[j] = pageCalls[j]
   BY <2>1, <2>3, <2>5
 <2>7. list \in Seq(PageCallRow) /\ Len(list) = n /\ DOMAIN list = 1..n BY <2>1, <2>6
 <2>8. i \in 1..n BY DEF n
 <2>9. ToSet(list) = {list[j] : j \in 1..n \ {i}} \cup {list[i]} BY <2>7, <2>8 DEF ToSet
 <2>10. {list[j] : j \in 1..n \ {i}} = OtherCalls(i) BY <2>6 DEF OtherCalls, n
 <2> QED BY <1>2, <2>1, <2>6, <2>7, <2>9, <2>10 DEF LeftOf, list, n
<1> QED BY <1>1, <1>2

LEMMA ChainOfSteps ==
  ASSUME NEW call \in PageCallRow
  PROVE  LoadsChain(call) <=>
           call.steps \in {<<"post", "list", "chain">>, <<"list", "chain">>, <<"chain">>}
<1>1. call.steps \in Tasks \cup Remainders BY DEF PageCallRow
<1> QED BY <1>1, StepsAre DEF LoadsChain

LEMMA LeftIs ==
  ASSUME PageTypes, NEW i \in 1..Len(pageCalls), NEW call \in LeftOf(i)
  PROVE  /\ call.id = pageCalls[i].id /\ call.task = pageCalls[i].task
         /\ call.steps \notin Tasks
         /\ LoadsChain(call) => LoadsChain(pageCalls[i])
         /\ call \in PageCallRow
<1>1. Len(pageCalls[i].steps) # 1 /\ call = Remains(i) BY DEF LeftOf
<1>2. pageCalls[i] \in PageCallRow /\ pageCalls[i].steps \in Tasks \cup Remainders BY CallsParted DEF PageCallRow
<1>3. call.id = pageCalls[i].id /\ call.task = pageCalls[i].task /\ call.steps = Tail(pageCalls[i].steps)
  BY <1>1 DEF Remains
<1>4. call.steps \in Remainders BY <1>1, <1>2, <1>3, StepsAre
<1>5. call \in PageCallRow BY <1>1, <1>2, <1>3, <1>4 DEF PageTypes, Remains, PageCallRow
<1>6. call.steps \notin Tasks BY <1>4, StepsAre DEF Remainders
<1>7. LoadsChain(call) => LoadsChain(pageCalls[i])
 <2>1. call.steps \in {<<"list", "chain">>, <<"chain">>} =>
          pageCalls[i].steps \in {<<"post", "list", "chain">>, <<"list", "chain">>}
  <3>1. ASSUME NEW steps \in Tasks \cup Remainders, Len(steps) # 1,
               Tail(steps) \in {<<"list", "chain">>, <<"chain">>}
        PROVE  steps \in {<<"post", "list", "chain">>, <<"list", "chain">>}
   <4>1. steps = <<"post", "list">> => Tail(steps) = <<"list">> BY StepsAre
   <4>2. steps = <<"post", "plans">> => Tail(steps) = <<"plans">> BY StepsAre
   <4>3. steps \in Tasks \cup {<<"list", "chain">>} BY <3>1, StepsAre DEF Remainders
   <4>4. <<"list">> \notin {<<"list", "chain">>, <<"chain">>} /\ <<"plans">> \notin {<<"list", "chain">>, <<"chain">>}
     OBVIOUS
   <4> QED BY <3>1, <4>1, <4>2, <4>3, <4>4 DEF Tasks
  <3> QED BY <1>1, <1>2, <1>3, <3>1
 <2>2. LoadsChain(call) => call.steps \in {<<"list", "chain">>, <<"chain">>} BY <1>5, <1>6, ChainOfSteps DEF Tasks
 <2> QED BY <1>2, <2>1, <2>2, ChainOfSteps
<1> QED BY <1>3, <1>5, <1>6, <1>7

\* A call takes a step, or is over.
LEMMA CallGoesOn ==
  ASSUME PageSound, NEW i \in 1..Len(pageCalls), UNCHANGED <<reflectionCount, chosenId>>,
         pageCalls' = Advanced(i) \/ pageCalls' = Without(i),
         listedCount' \in Nat, receiptsBusy' \in BOOLEAN, crossed' \in BOOLEAN,
         chosenId = 0 => listedCount' = 0,
         crossed => crossed',
         \/ ~ChainAwaited(pageCalls[i]) /\ chainOf' = chainOf
         \/ crossed' /\ chainOf' = chainOf
         \/ ChainAwaited(pageCalls[i]) /\ chainOf' = pageCalls[i].id,
         receiptsBusy' => \/ receiptsBusy /\ ~EndsBusy(pageCalls[i])
                          \/ pageCalls' = Advanced(i) /\ pageCalls[i].steps \in Tasks,
         chosenId = 0 /\ pageCalls[i].steps \in Tasks => receiptsBusy' \/ pageCalls' = Without(i),
         chosenId = 0 /\ pageCalls[i].steps \notin Tasks => LeftOf(i) = {}
  PROVE  PageSound'
<1> DEFINE call == pageCalls[i]
           Old == ToSet(pageCalls)
           New == ToSet(pageCalls)'
<1>1. PageTypes BY DEF PageSound
<1>2. /\ Old = OtherCalls(i) \cup {call} /\ call \in PageCallRow
      /\ Len(pageCalls) <= 1 => OtherCalls(i) = {}
  BY <1>1, CallsParted
<1>3. /\ pageCalls' \in Seq(PageCallRow) /\ Len(pageCalls') <= Len(pageCalls)
      /\ New \subseteq OtherCalls(i) \cup LeftOf(i) /\ OtherCalls(i) \subseteq New
      /\ pageCalls' = Advanced(i) => New = OtherCalls(i) \cup LeftOf(i)
      /\ pageCalls' = Without(i) => New = OtherCalls(i)
  BY <1>1, AdvancedIs, WithoutIs
<1>4. \A c \in LeftOf(i) : /\ c.id = call.id /\ c.task = call.task /\ c.steps \notin Tasks
                           /\ LoadsChain(c) => LoadsChain(call)
  BY <1>1, LeftIs
<1>5. Len(pageCalls) \in Nat /\ Len(pageCalls') \in Nat BY <1>1, <1>3 DEF PageTypes
<1>6. chainOf' \in Nat BY <1>1, <1>2 DEF PageTypes, PageCallRow
<1>7. PageTypes' BY <1>1, <1>3, <1>6 DEF PageTypes
<1>8. call.steps \in Tasks => call.task /\ LeftOf(i) # {}
 <2>1. call.steps \in Tasks => call.task BY <1>2 DEF PageSound, CallsKnow
 <2>2. call.steps \in Tasks => Len(call.steps) # 1 BY <1>2, StepsAre DEF PageCallRow
 <2> QED BY <2>1, <2>2 DEF LeftOf
<1> HIDE DEF call, Old, New
<1>9. CallsKnow'
 <2>1. \A c \in New : c.steps \in Tasks => c.task BY <1>2, <1>3, <1>4 DEF PageSound, CallsKnow, Old
 <2>2. ASSUME chosenId = 0
       PROVE  /\ Len(pageCalls') <= 1
              /\ \A c \in New : receiptsBusy' /\ c.id = 0 /\ ~LoadsChain(c)
  <3>1. Len(pageCalls) <= 1 /\ OtherCalls(i) = {} /\ call.id = 0 /\ ~LoadsChain(call)
    BY <1>2, <2>2 DEF PageSound, CallsKnow, Old
  <3>2. New \subseteq LeftOf(i) BY <1>3, <3>1
  <3>3. New # {} => receiptsBusy' BY <1>3, <2>2, <3>1, <3>2 DEF call
  <3> QED BY <1>3, <1>4, <1>5, <3>1, <3>2, <3>3
 <2>3. chosenId # 0 => \A c \in New : c.id # 0 BY <1>2, <1>3, <1>4 DEF PageSound, CallsKnow, Old
 <2> QED BY <2>1, <2>2, <2>3 DEF CallsKnow, New
<1>10. ChainsKnow'
 <2> SUFFICES ASSUME chosenId # 0, ~crossed'
              PROVE  /\ \A c \in New : LoadsChain(c) => c.id = chosenId
                     /\ chainOf' = chosenId \/ \E c \in New : ChainAwaited(c)
   BY DEF ChainsKnow, New, ChainAwaited, LoadsChain
 <2>1. /\ \A c \in Old : LoadsChain(c) => c.id = chosenId
       /\ chainOf = chosenId \/ \E c \in Old : ChainAwaited(c)
   BY DEF PageSound, ChainsKnow, Old
 <2>2. \A c \in New : LoadsChain(c) => c.id = chosenId BY <1>2, <1>3, <1>4, <2>1
 <2>3. CASE ChainAwaited(call) /\ chainOf' = call.id BY <1>2, <2>3, ChainOfSteps, <2>1, <2>2 DEF ChainAwaited
 <2>4. CASE ~ChainAwaited(call) /\ chainOf' = chainOf BY <1>2, <1>3, <2>1, <2>2, <2>4
 <2> QED BY <2>3, <2>4 DEF call
<1>11. BusyKnows'
 <2> SUFFICES ASSUME receiptsBusy'
              PROVE  \E c \in New : EndsBusy(c)
   BY DEF BusyKnows, New, EndsBusy
 <2>1. CASE receiptsBusy /\ ~EndsBusy(call) BY <1>2, <1>3, <2>1 DEF PageSound, BusyKnows, Old
 <2>2. CASE pageCalls' = Advanced(i) /\ call.steps \in Tasks BY <1>3, <1>8, <2>2, <1>4 DEF EndsBusy
 <2> QED BY <2>1, <2>2 DEF call
<1> QED BY <1>7, <1>9, <1>10, <1>11 DEF PageSound

LEMMA PageCallIs ==
  ASSUME reflectionCount \in Nat, NEW steps \in Tasks \cup Remainders, NEW id \in Nat
  PROVE  /\ PageCall(steps, id) \in PageCallRow
         /\ PageCall(steps, id).steps = steps /\ PageCall(steps, id).id = id
         /\ PageCall(steps, id).task = (Head(steps) = "post")
  BY DEF PageCall, PageCallRow

LEMMA StartsTaskSound ==
  ASSUME PageSound, NEW steps \in Tasks \cup {<<"list">>}, StartsTask(steps),
         steps = <<"post", "list", "chain">> => chosenId # 0
  PROVE  PageSound'
<1> DEFINE call == PageCall(steps, chosenId)
           Old == ToSet(pageCalls)
           New == ToSet(pageCalls)'
<1>1. /\ ~receiptsBusy /\ receiptsBusy' = TRUE /\ pageCalls' = Append(pageCalls, call)
      /\ UNCHANGED <<reflectionCount, listedCount, chosenId, chainOf, crossed>>
  BY DEF StartsTask, Enabled
<1>2. PageTypes /\ chosenId \in Nat /\ pageCalls \in Seq(PageCallRow) BY DEF PageSound, PageTypes
<1>3. steps \in Tasks \cup Remainders BY DEF Remainders
<1>4. /\ call \in PageCallRow /\ call.steps = steps /\ call.id = chosenId
      /\ call.task = (Head(steps) = "post")
  BY <1>2, <1>3, PageCallIs DEF PageTypes
<1> HIDE DEF call
<1>5. pageCalls' \in Seq(PageCallRow) /\ New = Old \cup {call} BY <1>1, <1>2, <1>4, ToSetAppend
<1>6. PageTypes' BY <1>1, <1>5 DEF PageSound, PageTypes
<1>7. LoadsChain(call) => chosenId # 0 BY <1>4, ChainOfSteps DEF Tasks
<1>8. EndsBusy(call) /\ (steps \in Tasks => call.task) /\ ~ChainAwaited(call)
  BY <1>3, StepsAre, <1>4 DEF Tasks, EndsBusy, ChainAwaited
<1>9. chosenId = 0 => Len(pageCalls) = 0 /\ Old = {}
 <2>1. chosenId = 0 => Old = {} BY <1>1 DEF PageSound, CallsKnow
 <2>2. Old = {} => Len(pageCalls) = 0
  <3>1. DOMAIN pageCalls = 1..Len(pageCalls) /\ Len(pageCalls) \in Nat BY <1>2
  <3>2. Len(pageCalls) # 0 => pageCalls[1] \in Old BY <3>1 DEF ToSet
  <3> QED BY <3>2
 <2> QED BY <2>1, <2>2
<1>10. Len(pageCalls') = Len(pageCalls) + 1 /\ Len(pageCalls) \in Nat BY <1>1, <1>2
<1> HIDE DEF Old, New
<1>11. CallsKnow'
 <2>1. \A x \in New : x.steps \in Tasks => x.task BY <1>4, <1>5, <1>8 DEF PageSound, CallsKnow, Old
 <2>2. chosenId = 0 => /\ Len(pageCalls') <= 1
                       /\ \A x \in New : x.id = 0 /\ ~LoadsChain(x)
   BY <1>4, <1>5, <1>7, <1>9, <1>10
 <2>3. chosenId # 0 => \A x \in New : x.id # 0 BY <1>4, <1>5 DEF PageSound, CallsKnow, Old
 <2> QED BY <1>1, <2>1, <2>2, <2>3 DEF PageSound, CallsKnow, New, LoadsChain
<1>12. ChainsKnow' BY <1>1, <1>4, <1>5 DEF PageSound, ChainsKnow, New, Old, LoadsChain, ChainAwaited
<1>13. BusyKnows' BY <1>5, <1>8 DEF BusyKnows, New, EndsBusy
<1> QED BY <1>6, <1>11, <1>12, <1>13 DEF PageSound

\* The two loads of a choice, and that a choice which crosses no chain of
\* another one leaves only chains of its own.
LEMMA LoadsAre ==
  ASSUME PageTypes, NEW id \in Nat
  PROVE  /\ LoadsOf(id) \in Seq(PageCallRow)
         /\ ToSet(LoadsOf(id)) = {PageCall(<<"list">>, id), PageCall(<<"chain">>, id)}
<1> DEFINE a == PageCall(<<"list">>, id)
           b == PageCall(<<"chain">>, id)
<1>1. a \in PageCallRow /\ b \in PageCallRow BY PageCallIs DEF Remainders, PageTypes
<1>2. LoadsOf(id) = <<a, b>> BY DEF LoadsOf
<1> HIDE DEF a, b
<1>3. /\ <<a, b>> \in Seq(PageCallRow) /\ DOMAIN <<a, b>> = {1, 2}
      /\ <<a, b>>[1] = a /\ <<a, b>>[2] = b
  BY <1>1
<1>4. ToSet(<<a, b>>) = {a, b} BY <1>3 DEF ToSet
<1> QED BY <1>2, <1>3, <1>4 DEF a, b

LEMMA CrossesIs ==
  ASSUME PageTypes, NEW id
  PROVE  Crosses(id) <=> \E c \in ToSet(pageCalls) : LoadsChain(c) /\ c.id # id
<1>1. DOMAIN pageCalls = 1..Len(pageCalls) BY DEF PageTypes
<1> QED BY <1>1 DEF Crosses, ToSet

\* A choice is made, of calls that all know one.
LEMMA ChosenSound ==
  ASSUME PageSound, NEW id \in Nat, id # 0, NEW calls,
         pageCalls' = calls \o LoadsOf(id), calls \in Seq(PageCallRow),
         ToSet(calls) \subseteq ToSet(pageCalls),
         \A c \in ToSet(calls) : c.id # 0,
         chosenId' = id, crossed' = Crosses(id), receiptsBusy' = TRUE,
         listedCount' \in Nat, UNCHANGED <<reflectionCount, chainOf>>
  PROVE  PageSound'
<1> DEFINE a == PageCall(<<"list">>, id)
           b == PageCall(<<"chain">>, id)
           New == ToSet(pageCalls)'
           CallsKept == ToSet(calls)
           Loads == LoadsOf(id)
<1>1. PageTypes BY DEF PageSound
<1>2. Loads \in Seq(PageCallRow) /\ ToSet(Loads) = {a, b} BY <1>1, LoadsAre
<1>3. /\ a \in PageCallRow /\ a.steps = <<"list">> /\ a.id = id
      /\ b \in PageCallRow /\ b.steps = <<"chain">> /\ b.id = id
  BY <1>1, PageCallIs DEF Remainders, PageTypes
<1> HIDE DEF a, b, Loads
<1>4. pageCalls' \in Seq(PageCallRow) /\ New = CallsKept \cup {a, b} BY <1>2, ListParts DEF Loads
<1>5. PageTypes' BY <1>4 DEF Crosses, PageSound, PageTypes
<1>6. <<"list">> \notin Tasks /\ <<"chain">> \notin Tasks BY StepsAre DEF Remainders
<1> HIDE DEF New, CallsKept
<1>7. CallsKnow' BY <1>3, <1>4, <1>6 DEF PageSound, CallsKnow, CallsKept, New
<1>8. ChainsKnow'
 <2> SUFFICES ASSUME ~Crosses(id)
              PROVE  /\ \A c \in New : LoadsChain(c) => c.id = id
                     /\ \E c \in New : ChainAwaited(c)
   BY DEF ChainsKnow, New, LoadsChain, ChainAwaited
 <2>1. \A c \in CallsKept : LoadsChain(c) => c.id = id BY <1>1, CrossesIs DEF CallsKept
 <2> QED BY <1>3, <1>4, <2>1 DEF ChainAwaited
<1>9. BusyKnows' BY <1>3, <1>4 DEF BusyKnows, New, EndsBusy
<1> QED BY <1>5, <1>7, <1>8, <1>9 DEF PageSound

LEMMA SelectItemSound ==
  ASSUME PageSound, NEW id, SelectItem(id)
  PROVE  PageSound'
<1>1. /\ id \in 1..listedCount /\ listedCount \in Nat /\ pageCalls \in Seq(PageCallRow)
  BY DEF SelectItem, PageSound, PageTypes
<1>2. id \in Nat /\ id # 0 /\ chosenId # 0 BY <1>1 DEF PageSound, CallsKnow
<1>3. \A c \in ToSet(pageCalls) : c.id # 0 BY <1>2 DEF PageSound, CallsKnow
<1> QED BY <1>1, <1>2, <1>3, ChosenSound DEF SelectItem

\* A list's answer makes a choice only for a page that had none.
LEMMA NewChoiceSound ==
  ASSUME PageSound, NEW i \in 1..Len(pageCalls), NEW n \in Nat, ReflectionsAnswer(i, n),
         pageCalls[i].id = 0, n \notin {0, chosenId}
  PROVE  PageSound' /\ chosenId = 0
<1>1. PageTypes /\ pageCalls[i] \in PageCallRow /\ pageCalls[i] \in ToSet(pageCalls) BY CallsParted DEF PageSound
<1>2. chosenId = 0 BY <1>1 DEF PageSound, CallsKnow
<1>3. OtherCalls(i) = {} /\ ~LoadsChain(pageCalls[i]) BY <1>1, <1>2, CallsParted DEF PageSound, CallsKnow
<1>4. Head(pageCalls[i].steps) = "list" BY DEF ReflectionsAnswer
<1>5. LeftOf(i) = {} BY <1>1, <1>4, StepsAre, <1>3, ChainOfSteps DEF PageCallRow, LeftOf
<1>6. Advanced(i) \in Seq(PageCallRow) /\ ToSet(Advanced(i)) = {} BY <1>1, <1>3, <1>5, AdvancedIs
<1>7. /\ pageCalls' = Advanced(i) \o LoadsOf(n) /\ chosenId' = n /\ crossed' = Crosses(n)
      /\ receiptsBusy' = TRUE /\ listedCount' = n /\ UNCHANGED <<reflectionCount, chainOf>>
  BY DEF ReflectionsAnswer
<1>8. PageSound' BY <1>6, <1>7, ChosenSound
<1> QED BY <1>2, <1>8

LEMMA PageCallSound ==
  ASSUME PageSound, NEW i \in DOMAIN pageCalls,
         \/ PostAnswers(i) \/ PlansAnswer(i) \/ ChainAnswers(i) \/ CallFails(i)
         \/ \E n \in 0..MaxReflections : ReflectionsAnswer(i, n)
  PROVE  PageSound'
<1> DEFINE call == pageCalls[i]
<1>1. PageTypes /\ i \in 1..Len(pageCalls) BY DEF PageSound, PageTypes
<1>2. call \in PageCallRow /\ call \in ToSet(pageCalls) /\ call.steps \in Tasks \cup Remainders
  BY <1>1, CallsParted DEF PageCallRow
<1>3. /\ call.steps \in Tasks <=> Head(call.steps) = "post"
      /\ Head(call.steps) = "list" <=> call.steps \in {<<"list">>, <<"list", "chain">>}
      /\ Head(call.steps) = "chain" <=> call.steps = <<"chain">>
      /\ Head(call.steps) = "plans" <=> call.steps = <<"plans">>
      /\ Len(call.steps) = 1 <=> call.steps \in {<<"list">>, <<"plans">>, <<"chain">>}
  BY <1>2, StepsAre
<1>4. /\ call.steps \in Tasks => call.task
      /\ chosenId = 0 => receiptsBusy /\ call.id = 0 /\ ~LoadsChain(call) /\ listedCount = 0
  BY <1>2 DEF PageSound, CallsKnow
<1>5. /\ receiptsBusy \in BOOLEAN /\ crossed \in BOOLEAN /\ listedCount \in Nat
      /\ chosenId \in Nat /\ reflectionCount \in Nat /\ chainOf \in Nat
  BY <1>1 DEF PageTypes
<1>6. LoadsChain(call) <=>
        call.steps \in {<<"post", "list", "chain">>, <<"list", "chain">>, <<"chain">>}
  BY <1>2, ChainOfSteps
<1>7. chosenId = 0 /\ call.steps \notin Tasks => LeftOf(i) = {} BY <1>3, <1>4, <1>6, <1>2 DEF Remainders, LeftOf
<1>8. ASSUME UNCHANGED <<reflectionCount, chosenId>>,
             pageCalls' = Advanced(i) \/ pageCalls' = Without(i),
             listedCount' \in Nat, receiptsBusy' \in BOOLEAN, crossed' \in BOOLEAN,
             chosenId = 0 => listedCount' = 0,
             crossed => crossed',
             \/ ~ChainAwaited(call) /\ chainOf' = chainOf
             \/ crossed' /\ chainOf' = chainOf
             \/ ChainAwaited(call) /\ chainOf' = call.id,
             receiptsBusy' => \/ receiptsBusy /\ ~EndsBusy(call)
                              \/ pageCalls' = Advanced(i) /\ call.steps \in Tasks,
             chosenId = 0 /\ call.steps \in Tasks => receiptsBusy' \/ pageCalls' = Without(i)
      PROVE  PageSound'
  BY <1>1, <1>7, <1>8, CallGoesOn
<1> HIDE DEF call
<1>9. CASE PostAnswers(i)
 <2>1. /\ Head(call.steps) = "post" /\ pageCalls' = Advanced(i)
       /\ receiptsBusy' = (receiptsBusy \/ call.steps[2] = "list")
       /\ UNCHANGED <<reflectionCount, listedCount, chosenId, chainOf, crossed>>
   BY <1>9 DEF PostAnswers, call
 <2>2. call.steps \in Tasks /\ ~ChainAwaited(call) BY <1>3, <2>1 DEF ChainAwaited
 <2>3. chosenId = 0 => receiptsBusy' = TRUE BY <1>4, <2>1
 <2> QED BY <1>4, <1>5, <1>8, <2>1, <2>2, <2>3
<1>10. CASE PlansAnswer(i)
 <2>1. /\ Head(call.steps) = "plans" /\ pageCalls' = Advanced(i) /\ receiptsBusy' = FALSE
       /\ UNCHANGED <<reflectionCount, listedCount, chosenId, chainOf, crossed>>
   BY <1>10 DEF PlansAnswer, call
 <2>2. call.steps \notin Tasks /\ ~ChainAwaited(call) BY <1>3, <2>1 DEF ChainAwaited
 <2> QED BY <1>4, <1>5, <1>8, <2>1, <2>2
<1>11. CASE ChainAnswers(i)
 <2>1. /\ Head(call.steps) = "chain" /\ pageCalls' = Advanced(i) /\ chainOf' = call.id
       /\ receiptsBusy' = (receiptsBusy /\ ~call.task)
       /\ UNCHANGED <<reflectionCount, listedCount, chosenId, crossed>>
   BY <1>11 DEF ChainAnswers, call
 <2>2. call.steps \notin Tasks /\ ChainAwaited(call) BY <1>3, <2>1 DEF ChainAwaited
 <2>3. receiptsBusy' => receiptsBusy /\ ~EndsBusy(call) BY <2>1 DEF EndsBusy
 <2>4. receiptsBusy' \in BOOLEAN BY <2>1
 <2> QED BY <1>4, <1>5, <1>8, <2>1, <2>2, <2>3, <2>4
<1>12. CASE CallFails(i)
 <2>1. /\ Head(call.steps) # "plans" /\ pageCalls' = Without(i)
       /\ receiptsBusy' = (receiptsBusy /\ ~call.task /\ Head(call.steps) # "list")
       /\ crossed' = (crossed \/ call.steps = <<"chain">>)
       /\ UNCHANGED <<reflectionCount, listedCount, chosenId, chainOf>>
   BY <1>12 DEF CallFails, BusyAfterFailure, call
 <2>2. receiptsBusy' => receiptsBusy /\ ~EndsBusy(call) BY <2>1 DEF EndsBusy
 <2>3. receiptsBusy' \in BOOLEAN /\ crossed' \in BOOLEAN BY <2>1
 <2>4. /\ crossed => crossed'
       /\ ~ChainAwaited(call) \/ crossed'
   BY <2>1 DEF ChainAwaited
 <2> QED BY <1>4, <1>5, <1>8, <2>1, <2>2, <2>3, <2>4
<1>13. ASSUME NEW n \in 0..MaxReflections, ReflectionsAnswer(i, n)
       PROVE  PageSound'
 <2>1. n \in Nat /\ Head(call.steps) = "list" /\ listedCount' = n BY <1>13 DEF ReflectionsAnswer, call
 <2>2. CASE call.id = 0 /\ n \notin {0, chosenId} BY <1>1, <1>13, <2>1, <2>2, NewChoiceSound DEF call
 <2>3. CASE ~(call.id = 0 /\ n \notin {0, chosenId})
  <3>1. /\ pageCalls' = Advanced(i) /\ receiptsBusy' = FALSE
        /\ UNCHANGED <<reflectionCount, chainOf, chosenId, crossed>>
    BY <1>13, <2>3 DEF ReflectionsAnswer, call
  <3>2. call.steps \notin Tasks /\ ~ChainAwaited(call) BY <1>3, <2>1 DEF ChainAwaited
  <3>3. chosenId = 0 => n = 0 BY <1>4, <2>3
  <3> QED BY <1>5, <1>8, <2>1, <3>1, <3>2, <3>3
 <2> QED BY <2>2, <2>3
<1> QED BY <1>9, <1>10, <1>11, <1>12, <1>13

LEMMA PageStep ==
  ASSUME PageSound, [ReceiptsPageNext]_receiptsPageVars
  PROVE  PageSound'
<1>1. CASE RefreshList \/ RunDemo \/ RunPlanDemo
 <2>1. <<"post", "list">> # <<"post", "list", "chain">> /\ <<"list">> # <<"post", "list", "chain">>
       /\ <<"post", "plans">> # <<"post", "list", "chain">> OBVIOUS
 <2> QED BY <1>1, <2>1, StartsTaskSound DEF RefreshList, RunDemo, RunPlanDemo, Tasks
<1>2. CASE VerifySelected BY <1>2, StartsTaskSound DEF VerifySelected, Tasks
<1>3. CASE ReflectionStored
 <2>1. /\ reflectionCount' = reflectionCount + 1
       /\ UNCHANGED <<listedCount, chosenId, chainOf, receiptsBusy, pageCalls, crossed>>
   BY <1>3 DEF ReflectionStored
 <2> QED BY <2>1 DEF PageSound, PageTypes, CallsKnow, ChainsKnow, BusyKnows, LoadsChain, ChainAwaited, EndsBusy
<1>4. CASE UNCHANGED receiptsPageVars
  BY <1>4 DEF receiptsPageVars, PageSound, PageTypes, CallsKnow, ChainsKnow, BusyKnows, LoadsChain,
              ChainAwaited, EndsBusy
<1> QED BY <1>1, <1>2, <1>3, <1>4, PageCallSound, SelectItemSound DEF ReceiptsPageNext

\* A choice is only taken back by another one.
LEMMA ChoiceStays ==
  ASSUME PageSound, ReceiptsPageNext, chosenId # 0
  PROVE  chosenId' = chosenId \/ \E id \in 1..MaxReflections : SelectItem(id)
<1>1. ASSUME NEW i \in DOMAIN pageCalls, NEW n \in 0..MaxReflections, ReflectionsAnswer(i, n)
      PROVE  chosenId' = chosenId
 <2>1. i \in 1..Len(pageCalls) /\ n \in Nat BY DEF PageSound, PageTypes
 <2>2. ~(pageCalls[i].id = 0 /\ n \notin {0, chosenId}) BY <1>1, <2>1, NewChoiceSound
 <2> QED BY <1>1, <2>2 DEF ReflectionsAnswer
<1> QED
  BY <1>1 DEF ReceiptsPageNext, RefreshList, RunDemo, RunPlanDemo, VerifySelected, StartsTask,
     PostAnswers, PlansAnswer, ChainAnswers, CallFails, ReflectionStored

\* However many tasks, loads and failures overlap: the page shows the
\* chain of the reflection that is chosen, comes out of being busy, and
\* keeps to its choice.
THEOREM PageKeepsItsChoice == OperationsSpec => []ChainIsOfTheChosen /\ []BusyEnds /\ ChoiceIsKept
<1>1. OperationsInit => PageSound
 <2> SUFFICES ASSUME ReceiptsPageInit
              PROVE  PageSound
   BY DEF OperationsInit
 <2> DEFINE call == PageCall(<<"list">>, 0)
 <2>1. /\ reflectionCount \in Nat /\ listedCount = 0 /\ chosenId = 0 /\ chainOf = 0
       /\ crossed = FALSE /\ receiptsBusy = TRUE /\ pageCalls = <<call>>
   BY DEF ReceiptsPageInit
 <2>2. <<"list">> \in Tasks \cup Remainders BY DEF Remainders
 <2>3. call \in PageCallRow /\ call.steps = <<"list">> /\ call.id = 0 BY <2>1, <2>2, PageCallIs
 <2> HIDE DEF call
 <2>5. pageCalls \in Seq(PageCallRow) /\ Len(pageCalls) = 1 /\ ToSet(pageCalls) = {call} BY <2>3, <2>1 DEF ToSet
 <2>6. <<"list">> \notin Tasks /\ Head(<<"list">>) = "list" BY StepsAre DEF Remainders
 <2>7. ~LoadsChain(call) BY <2>3, ChainOfSteps
 <2>8. PageTypes BY <2>1, <2>5 DEF PageTypes
 <2>9. CallsKnow BY <2>1, <2>3, <2>5, <2>6, <2>7 DEF CallsKnow
 <2>10. ChainsKnow /\ BusyKnows BY <2>1, <2>3, <2>5, <2>6 DEF ChainsKnow, BusyKnows, EndsBusy
 <2> QED BY <2>8, <2>9, <2>10 DEF PageSound
<1>2. PageSound /\ [OperationsNext]_operationsVars => PageSound'
 <2> SUFFICES ASSUME PageSound, [OperationsNext]_operationsVars
              PROVE  PageSound'
   OBVIOUS
 <2>1. [ReceiptsPageNext]_receiptsPageVars BY DEF OperationsNext, ClientNext, ServiceNext, operationsVars, frontVars
 <2> QED BY <2>1, PageStep
<1>3. PageSound => ChainIsOfTheChosen
 <2> SUFFICES ASSUME PageSound, chosenId # 0, ~crossed,
                     \A i \in DOMAIN pageCalls : ~LoadsChain(pageCalls[i])
              PROVE  chainOf = chosenId
   BY DEF ChainIsOfTheChosen
 <2>1. \A call \in ToSet(pageCalls) : ~LoadsChain(call) BY DEF ToSet
 <2>2. \A call \in ToSet(pageCalls) : ChainAwaited(call) => LoadsChain(call)
  <3>1. pageCalls \in Seq(PageCallRow) BY DEF PageSound, PageTypes
  <3>2. \A call \in ToSet(pageCalls) : call \in PageCallRow BY <3>1 DEF ToSet
  <3> QED BY <3>2, ChainOfSteps DEF ChainAwaited
 <2> QED BY <2>1, <2>2 DEF PageSound, ChainsKnow
<1>4. PageSound => BusyEnds BY DEF PageSound, BusyKnows, BusyEnds, EndsBusy, ToSet
<1>5. PageSound /\ [OperationsNext]_operationsVars =>
        [ chosenId # 0 => chosenId' = chosenId \/ \E id \in 1..MaxReflections : SelectItem(id)
        ]_receiptsPageVars
 <2> SUFFICES ASSUME PageSound, [OperationsNext]_operationsVars, receiptsPageVars' # receiptsPageVars,
                     chosenId # 0
              PROVE  chosenId' = chosenId \/ \E id \in 1..MaxReflections : SelectItem(id)
   OBVIOUS
 <2>1. ReceiptsPageNext BY DEF OperationsNext, ClientNext, ServiceNext, operationsVars, frontVars
 <2> QED BY <2>1, ChoiceStays
<1> QED BY <1>1, <1>2, <1>3, <1>4, <1>5, PTL DEF OperationsSpec, ChoiceIsKept

----
\* The structured receipts.  The last row of an id that was posted is the
\* one that was posted first, and the sidecar's rows have ids of their own
\* and claim nothing.

PostedRow == [id : ReceiptIds, receipt : PostedReceipts]

LastOf(list, id, k) ==
  k \in 1..Len(list) /\ list[k].id = id /\ \A j \in 1..Len(list) : list[j].id = id => j <= k

StructuredSound ==
  /\ mirrored \in Nat /\ historyRow \in Evidence
  /\ manualReceipts \in Seq(PostedRow)
  /\ \A k \in 1..Len(manualReceipts) : manualReceipts[k].id \in DOMAIN firstPosted
  /\ \A id \in DOMAIN firstPosted :
        \E k : LastOf(manualReceipts, id, k) /\ manualReceipts[k].receipt = firstPosted[id]

LEMMA PostReceiptSound ==
  ASSUME StructuredSound, NEW id \in ReceiptIds, NEW receipt \in PostedReceipts,
         PostReceipt(id, receipt)
  PROVE  StructuredSound'
<1> DEFINE row == [id |-> id, receipt |-> receipt]
           new == <<row>> \o manualReceipts
           n == Len(manualReceipts)
<1>1. /\ manualReceipts' = new /\ UNCHANGED <<mirrored, historyRow>>
      /\ firstPosted' = IF id \in DOMAIN firstPosted THEN firstPosted
                        ELSE [k \in DOMAIN firstPosted \cup {id} |->
                                IF k = id THEN receipt ELSE firstPosted[k]]
  BY DEF PostReceipt
<1>2. manualReceipts \in Seq(PostedRow) /\ n \in Nat BY DEF StructuredSound
<1>3. row \in PostedRow /\ row.id = id /\ row.receipt = receipt BY DEF PostedRow
<1> HIDE DEF row
<1>4. /\ new \in Seq(PostedRow) /\ Len(new) = n + 1 /\ new[1] = row
      /\ \A k \in 1..n : new[k + 1] = manualReceipts[k]
  BY <1>2, <1>3
<1> HIDE DEF new, n
<1>5. /\ DOMAIN firstPosted' = DOMAIN firstPosted \cup {id}
      /\ \A o \in DOMAIN firstPosted : firstPosted'[o] = firstPosted[o]
      /\ id \notin DOMAIN firstPosted => firstPosted'[id] = receipt
  BY <1>1
<1>6. \A k \in 1..(n + 1) : k = 1 \/ (k - 1 \in 1..n /\ new[k] = manualReceipts[k - 1])
 <2> SUFFICES ASSUME NEW k \in 1..(n + 1), k # 1
              PROVE  k - 1 \in 1..n /\ new[k] = manualReceipts[k - 1]
   OBVIOUS
 <2>1. k - 1 \in 1..n /\ (k - 1) + 1 = k BY <1>2
 <2> QED BY <1>4, <2>1
<1>7. \A k \in 1..(n + 1) : new[k].id \in DOMAIN firstPosted' BY <1>3, <1>4, <1>5, <1>6 DEF StructuredSound, n
<1>8. ASSUME NEW o \in DOMAIN firstPosted'
      PROVE  \E k : LastOf(new, o, k) /\ new[k].receipt = firstPosted'[o]
 <2>1. CASE o \in DOMAIN firstPosted
  <3>1. PICK k : LastOf(manualReceipts, o, k) /\ manualReceipts[k].receipt = firstPosted[o]
    BY <2>1 DEF StructuredSound
  <3>2. k \in 1..n /\ manualReceipts[k].id = o /\ \A j \in 1..n : manualReceipts[j].id = o => j <= k
    BY <3>1 DEF LastOf, n
  <3>3. k + 1 \in 1..(n + 1) /\ new[k + 1] = manualReceipts[k] BY <1>2, <1>4, <3>2
  <3>4. ASSUME NEW j \in 1..(n + 1), new[j].id = o
        PROVE  j <= k + 1
   <4>1. CASE j = 1 BY <3>2, <4>1
   <4>2. CASE j # 1 BY <1>6, <3>4, <4>2, <3>2
   <4> QED BY <4>1, <4>2
  <3>5. LastOf(new, o, k + 1) BY <1>4, <3>2, <3>3, <3>4 DEF LastOf
  <3> QED BY <1>5, <2>1, <3>1, <3>3, <3>5
 <2>2. CASE o \notin DOMAIN firstPosted
  <3>1. o = id /\ firstPosted'[o] = receipt BY <1>5, <2>2
  <3>2. \A j \in 1..(n + 1) : new[j].id = o => j <= 1 BY <1>2, <1>6, <2>2 DEF StructuredSound, n
  <3>3. LastOf(new, o, 1) BY <1>2, <1>3, <1>4, <3>1, <3>2 DEF LastOf
  <3> QED BY <1>3, <1>4, <3>1, <3>3
 <2> QED BY <2>1, <2>2
<1> QED BY <1>1, <1>4, <1>7, <1>8 DEF StructuredSound

LEMMA StructuredStep ==
  ASSUME StructuredSound, [StructuredNext]_structuredVars
  PROVE  StructuredSound'
<1>1. CASE SidecarMirrors BY <1>1 DEF SidecarMirrors, StructuredSound
<1>2. CASE UNCHANGED structuredVars BY <1>2 DEF structuredVars, StructuredSound
<1> QED BY <1>1, <1>2, PostReceiptSound DEF StructuredNext

\* What the merged list is, and the row of an id that comes last in it.
LEMMA MergedIs ==
  ASSUME StructuredSound
  PROVE  /\ DOMAIN MergedRows = 1..(mirrored + Len(manualReceipts))
         /\ \A i \in 1..mirrored :
               /\ MergedRows[i].id = <<"sidecar", i>>
               /\ MergedRows[i].receipt = MirrorReceiptRowToStructured(SidecarReceipt)
         /\ \A k \in 1..Len(manualReceipts) : MergedRows[mirrored + k] = manualReceipts[k]
<1> DEFINE labelled == MirrorReceiptRowToStructured(SidecarReceipt)
           S == [id : {<<"sidecar", i>> : i \in 1..mirrored}, receipt : {labelled}] \cup PostedRow
           derived == Derived
<1>1. mirrored \in Nat /\ manualReceipts \in Seq(PostedRow) BY DEF StructuredSound
<1> HIDE DEF labelled
<1>2. \A i \in 1..mirrored :
        /\ [id |-> <<"sidecar", i>>, receipt |-> labelled] \in S
        /\ [id |-> <<"sidecar", i>>, receipt |-> labelled].id = <<"sidecar", i>>
        /\ [id |-> <<"sidecar", i>>, receipt |-> labelled].receipt = labelled
  OBVIOUS
<1>3. derived = [i \in 1..mirrored |-> [id |-> <<"sidecar", i>>, receipt |-> labelled]] BY DEF Derived, labelled
<1>4. manualReceipts \in Seq(S) BY <1>1
<1> HIDE DEF S, derived
<1>5. derived \in [1..mirrored -> S] BY <1>2, <1>3
<1>6. derived \in Seq(S) /\ Len(derived) = mirrored BY <1>1, <1>5
<1>7. /\ DOMAIN (derived \o manualReceipts) = 1..(mirrored + Len(manualReceipts))
      /\ \A i \in 1..mirrored : (derived \o manualReceipts)[i] = derived[i]
      /\ \A k \in 1..Len(manualReceipts) : (derived \o manualReceipts)[mirrored + k] = manualReceipts[k]
  BY <1>1, <1>4, <1>6
<1>8. MergedRows = derived \o manualReceipts BY DEF MergedRows, derived
<1> QED BY <1>2, <1>3, <1>7, <1>8 DEF labelled

LastRow(id, i) ==
  /\ i \in DOMAIN MergedRows /\ MergedRows[i].id = id
  /\ \A j \in DOMAIN MergedRows : MergedRows[j].id = id => j <= i

LEMMA ListedIs ==
  ASSUME StructuredSound, NEW id, NEW i, LastRow(id, i)
  PROVE  id \in DOMAIN ListedReceipts /\ ListedReceipts[id] = MergedRows[i].receipt
<1> DEFINE P(k) == /\ k \in DOMAIN MergedRows /\ MergedRows[k].id = id
                   /\ \A j \in DOMAIN MergedRows : MergedRows[j].id = id => j <= k
           last == CHOOSE k \in DOMAIN MergedRows :
                     /\ MergedRows[k].id = id
                     /\ \A j \in DOMAIN MergedRows : MergedRows[j].id = id => j <= k
<1>1. DOMAIN MergedRows \subseteq Nat BY MergedIs DEF StructuredSound
<1>2. LastRow(id, last) BY DEF LastRow
<1>3. last = i BY <1>1, <1>2 DEF LastRow
<1>4. id \in {MergedRows[k].id : k \in DOMAIN MergedRows} BY DEF LastRow
<1>5. /\ DOMAIN ListedReceipts = {MergedRows[k].id : k \in DOMAIN MergedRows}
      /\ ListedReceipts[id] = MergedRows[last].receipt
  BY <1>4 DEF ListedReceipts
<1> QED BY <1>3, <1>4, <1>5

LEMMA PostedIsListed ==
  ASSUME StructuredSound, NEW id \in DOMAIN firstPosted
  PROVE  ListedReceipts[id] = firstPosted[id]
<1> DEFINE n == Len(manualReceipts)
<1>1. PICK k : LastOf(manualReceipts, id, k) /\ manualReceipts[k].receipt = firstPosted[id] BY DEF StructuredSound
<1>2. k \in 1..n /\ manualReceipts[k].id = id /\ \A j \in 1..n : manualReceipts[j].id = id => j <= k
  BY <1>1 DEF LastOf
<1>3. mirrored \in Nat /\ n \in Nat BY DEF StructuredSound
<1>4. mirrored + k \in DOMAIN MergedRows /\ MergedRows[mirrored + k] = manualReceipts[k] BY <1>2, <1>3, MergedIs
<1>5. ASSUME NEW j \in DOMAIN MergedRows, MergedRows[j].id = id
      PROVE  j <= mirrored + k
 <2>1. j \in 1..(mirrored + n) BY MergedIs
 <2>2. CASE j <= mirrored BY <1>2, <1>3, <2>1, <2>2
 <2>3. CASE ~(j <= mirrored)
  <3>1. j - mirrored \in 1..n /\ mirrored + (j - mirrored) = j BY <1>3, <2>1, <2>3
  <3>2. MergedRows[j] = manualReceipts[j - mirrored] BY <3>1, MergedIs
  <3>3. j - mirrored <= k BY <1>2, <1>5, <3>1, <3>2
  <3> QED BY <1>2, <1>3, <2>1, <3>3
 <2> QED BY <2>2, <2>3
<1>6. LastRow(id, mirrored + k) BY <1>2, <1>4, <1>5 DEF LastRow
<1> QED BY <1>1, <1>4, <1>6, ListedIs

LEMMA SidecarClaimsNothing ==
  ASSUME StructuredSound, NEW id \in DOMAIN ListedReceipts, id \notin DOMAIN firstPosted
  PROVE  ~ClaimIsMade(ListedReceipts[id])
<1> DEFINE n == Len(manualReceipts)
<1>1. mirrored \in Nat /\ n \in Nat BY DEF StructuredSound
<1>2. DOMAIN ListedReceipts = {MergedRows[k].id : k \in DOMAIN MergedRows} BY DEF ListedReceipts
<1>3. PICK i \in DOMAIN MergedRows : MergedRows[i].id = id BY <1>2
<1>4. ASSUME NEW j \in DOMAIN MergedRows, MergedRows[j].id = id
      PROVE  j \in 1..mirrored /\ id = <<"sidecar", j>>
 <2>1. j \in 1..(mirrored + n) BY MergedIs
 <2>2. CASE ~(j <= mirrored)
  <3>1. j - mirrored \in 1..n /\ mirrored + (j - mirrored) = j BY <1>1, <2>1, <2>2
  <3>2. MergedRows[j] = manualReceipts[j - mirrored] BY <3>1, MergedIs
  <3> QED BY <1>4, <3>1, <3>2 DEF StructuredSound
 <2>3. CASE j <= mirrored
  <3>1. j \in 1..mirrored BY <1>1, <2>1, <2>3
  <3> QED BY <1>4, <3>1, MergedIs
 <2> QED BY <2>2, <2>3
<1>5. i \in 1..mirrored /\ id = <<"sidecar", i>> BY <1>3, <1>4
<1>6. LastRow(id, i)
 <2>1. \A j \in DOMAIN MergedRows : MergedRows[j].id = id => j = i BY <1>4, <1>5
 <2> QED BY <1>1, <1>3, <1>5, <2>1 DEF LastRow
<1>7. ListedReceipts[id] = MirrorReceiptRowToStructured(SidecarReceipt) BY <1>5, <1>6, ListedIs, MergedIs
<1>8. MirrorReceiptRowToStructured(SidecarReceipt).proof = "demo_only"
  BY DEF MirrorReceiptRowToStructured, SidecarReceipt, Structured, InferProofIntegrity
<1> QED BY <1>7, <1>8 DEF ClaimIsMade

LEMMA HistoryIsBacked ==
  ASSUME historyRow \in Evidence, NEW demo \in BOOLEAN, NEW receipt,
         receipt = SolanaTxRecordToStructured(historyRow, demo)
  PROVE  /\ ClaimIsMade(receipt) =>
              ~demo /\ historyRow = [status |-> "verified", sig |-> "real", explorer |-> TRUE]
         /\ ClaimIsMade(receipt) = CanClaimAnchored(receipt)
         /\ ClaimIsMade(receipt) = SaidOnSolana(receipt)
<1> DEFINE proof == DeriveProofStatusFromSolanaRow(historyRow)
<1>1. CASE demo BY <1>1 DEF SolanaTxRecordToStructured, Structured, ClaimIsMade, CanClaimAnchored, SaidOnSolana
<1>2. CASE ~demo
 <2>1. receipt = [Structured(historyRow, proof) EXCEPT !.status = ReceiptStatusToStructured(@)]
   BY <1>2 DEF SolanaTxRecordToStructured
 <2> HIDE DEF proof
 <2>2. /\ receipt.proof = proof /\ receipt.sig = historyRow.sig /\ receipt.explorer = historyRow.explorer
       /\ receipt.status = ReceiptStatusToStructured(historyRow.status)
   BY <2>1 DEF Structured
 <2>3. proof = "verified" =>
         historyRow.status = "verified" /\ historyRow.sig = "real" /\ historyRow.explorer
   BY DEF proof, DeriveProofStatusFromSolanaRow, Evidence
 <2>4. proof = "verified" =>
         historyRow = [status |-> "verified", sig |-> "real", explorer |-> TRUE]
   BY <2>3 DEF Evidence
 <2>5. ReceiptStatusToStructured("verified") = "verified" BY DEF ReceiptStatusToStructured
 <2>6. proof = "verified" <=> CanClaimAnchored(receipt) BY <2>2, <2>3, <2>5 DEF CanClaimAnchored
 <2>7. proof = "verified" <=> SaidOnSolana(receipt) BY <2>2, <2>3 DEF SaidOnSolana
 <2>8. ClaimIsMade(receipt) <=> proof = "verified" BY <2>2 DEF ClaimIsMade
 <2> QED BY <1>2, <2>4, <2>6, <2>7, <2>8 DEF ClaimIsMade, CanClaimAnchored, SaidOnSolana
<1> QED BY <1>1, <1>2

\* Whatever the sidecar mirrors and whoever posts again: a posted receipt
\* stays the first of its id, and only what was posted as verified, or is
\* verified, signed and linked, is claimed.
THEOREM PostedReceiptsStay == OperationsSpec => []FirstPostedStays /\ []ClaimsAreBacked
<1>1. OperationsInit => StructuredSound
 <2> SUFFICES ASSUME StructuredInit
              PROVE  StructuredSound
   BY DEF OperationsInit
 <2>1. manualReceipts \in Seq(PostedRow) /\ Len(manualReceipts) = 0 /\ DOMAIN firstPosted = {} BY DEF StructuredInit
 <2> QED BY <2>1 DEF StructuredInit, StructuredSound
<1>2. StructuredSound /\ [OperationsNext]_operationsVars => StructuredSound'
 <2> SUFFICES ASSUME StructuredSound, [OperationsNext]_operationsVars
              PROVE  StructuredSound'
   OBVIOUS
 <2>1. [StructuredNext]_structuredVars BY DEF OperationsNext, ClientNext, ServiceNext, operationsVars, serviceVars
 <2> QED BY <2>1, StructuredStep
<1>3. StructuredSound => FirstPostedStays BY PostedIsListed DEF FirstPostedStays
<1>4. StructuredSound => ClaimsAreBacked
 <2> SUFFICES ASSUME StructuredSound
              PROVE  ClaimsAreBacked
   OBVIOUS
 <2>1. ASSUME NEW id \in DOMAIN ListedReceipts, ClaimIsMade(ListedReceipts[id])
       PROVE  id \in DOMAIN firstPosted /\ firstPosted[id].proof = "verified"
   BY <2>1, SidecarClaimsNothing, PostedIsListed DEF ClaimIsMade
 <2>2. historyRow \in Evidence BY DEF StructuredSound
 <2>3. ASSUME NEW demo \in BOOLEAN
       PROVE  LET receipt == SolanaTxRecordToStructured(historyRow, demo) IN
              /\ ClaimIsMade(receipt) =>
                    ~demo /\ historyRow = [status |-> "verified", sig |-> "real", explorer |-> TRUE]
              /\ ClaimIsMade(receipt) = CanClaimAnchored(receipt)
              /\ ClaimIsMade(receipt) = SaidOnSolana(receipt)
   BY <2>2, HistoryIsBacked
 <2> QED BY <2>1, <2>3 DEF ClaimsAreBacked
<1> QED BY <1>1, <1>2, <1>3, <1>4, PTL DEF OperationsSpec

\* What the page and the list of the receipts promise: ReceiptsHold.
THEOREM ReceiptsAlwaysHold == OperationsSpec => ReceiptsHold
  BY PageKeepsItsChoice, PostedReceiptsStay, PTL DEF ReceiptsHold

----
\* The debug collector.  The entries of a kind rise from the file through
\* the report that is not yet written to the buffer, and what a report has
\* written is in its file or was cut.

Logs == [LogKinds -> Seq(Nat)]
ReportRow == [payload : Logs, written : BOOLEAN]

Rising(s) == \A i, j \in 1..Len(s) : i < j => s[i] < s[j]
AllBelow(s, t) == \A x \in ToSet(s), y \in ToSet(t) : x < y

Until(m, s) == \A x \in ToSet(s) : x <= m

CollectorTypes ==
  /\ moment \in Nat /\ logBuffer \in Logs /\ logFiles \in Logs
  /\ reports \subseteq ReportRow
  /\ beside \in BOOLEAN
  /\ \A k \in LogKinds : Until(moment, logBuffer[k]) /\ Until(moment, logFiles[k])
  /\ \A r \in reports, k \in LogKinds : Until(moment, r.payload[k])

WrittenIsThere ==
  \A r \in reports : r.written => EntriesOf(r.payload) \subseteq EntriesOf(logFiles) \cup cut

LogsRise ==
  ~beside =>
    /\ \A r, q \in reports : r = q
    /\ \A k \in LogKinds : Rising(logBuffer[k]) /\ Rising(logFiles[k]) /\ AllBelow(logFiles[k], logBuffer[k])
    /\ \A r \in reports, k \in LogKinds :
          /\ Rising(r.payload[k]) /\ AllBelow(r.payload[k], logBuffer[k])
          /\ ~r.written => AllBelow(logFiles[k], r.payload[k])

CollectorSound == CollectorTypes /\ WithinLimits /\ WrittenIsThere /\ NoEntryVanishes /\ LogsRise

LEMMA SizesAre ==
  /\ BufferSize \in [LogKinds -> Nat]
  /\ LogSize \in Nat /\ TrimTarget \in Nat /\ TrimTarget <= LogSize
  BY CollectorAssumption DEF CollectorAssumption, LogKinds

LEMMA EntriesAre ==
  ASSUME NEW p
  PROVE  /\ \A k, x : <<k, x>> \in EntriesOf(p) <=> k \in LogKinds /\ x \in ToSet(p[k])
         /\ \A e \in EntriesOf(p) : e = <<e[1], e[2]>> /\ e[1] \in LogKinds /\ e[2] \in ToSet(p[e[1]])
<1> DEFINE R(k) == {k} \X ToSet(p[k])
<1>1. \A e : e \in EntriesOf(p) <=> \E k \in LogKinds : e \in {k} \X ToSet(p[k]) BY DEF EntriesOf
<1> QED BY <1>1

LEMMA EntriesWithin ==
  ASSUME NEW p, NEW q, \A k \in LogKinds : ToSet(p[k]) \subseteq ToSet(q[k])
  PROVE  EntriesOf(p) \subseteq EntriesOf(q)
<1> SUFFICES ASSUME NEW e \in EntriesOf(p)
             PROVE  e \in EntriesOf(q)
  OBVIOUS
<1>1. e = <<e[1], e[2]>> /\ e[1] \in LogKinds /\ e[2] \in ToSet(p[e[1]]) BY EntriesAre
<1>2. <<e[1], e[2]>> \in EntriesOf(q) BY <1>1, EntriesAre
<1> QED BY <1>1, <1>2

LEMMA NewestIs ==
  ASSUME NEW s \in Seq(Nat), NEW n \in Nat
  PROVE  /\ Newest(n, s) \in Seq(Nat) /\ Len(Newest(n, s)) <= n
         /\ ToSet(Newest(n, s)) \subseteq ToSet(s)
         /\ Rising(s) => Rising(Newest(n, s))
<1>1. CASE Len(s) <= n BY <1>1 DEF Newest
<1>2. CASE ~(Len(s) <= n)
 <2> DEFINE t == SubSeq(s, Len(s) - n + 1, Len(s))
            d == Len(s) - n
 <2>1. Len(s) \in Nat /\ d \in Nat /\ d + n = Len(s) /\ DOMAIN s = 1..Len(s) BY <1>2
 <2>2. t \in Seq(Nat) /\ Len(t) = n /\ DOMAIN t = 1..n /\ \A i \in 1..n : t[i] = s[d + i] BY <1>2
 <2>3. Newest(n, s) = t BY <1>2 DEF Newest
 <2> HIDE DEF t, d
 <2>4. \A i \in 1..n : d + i \in 1..Len(s) BY <2>1
 <2>5. ToSet(t) \subseteq ToSet(s) BY <2>1, <2>2, <2>4 DEF ToSet
 <2>6. Rising(s) => Rising(t)
  <3> SUFFICES ASSUME Rising(s), NEW i \in 1..n, NEW j \in 1..n, i < j
               PROVE  t[i] < t[j]
    BY <2>2 DEF Rising
  <3>1. d + i < d + j BY <2>1
  <3> QED BY <2>2, <2>4, <3>1 DEF Rising
 <2> QED BY <2>2, <2>3, <2>5, <2>6
<1> QED BY <1>1, <1>2

LEMMA JoinedRise ==
  ASSUME NEW s \in Seq(Nat), NEW t \in Seq(Nat), Rising(s), Rising(t), AllBelow(s, t)
  PROVE  Rising(s \o t)
<1> DEFINE u == s \o t
           m == Len(s)
           n == Len(t)
<1>1. /\ m \in Nat /\ n \in Nat /\ Len(u) = m + n
      /\ \A i \in 1..m : u[i] = s[i]
      /\ \A i \in 1..n : u[m + i] = t[i]
      /\ DOMAIN s = 1..m /\ DOMAIN t = 1..n
  OBVIOUS
<1>2. \A i \in 1..m, j \in 1..m : i < j => s[i] < s[j] BY DEF Rising
<1>3. \A i \in 1..n, j \in 1..n : i < j => t[i] < t[j] BY DEF Rising
<1>4. \A i \in 1..m, j \in 1..n : s[i] < t[j] BY <1>1 DEF AllBelow, ToSet
<1> HIDE DEF u, m, n
<1>5. ASSUME NEW i \in 1..(m + n), NEW j \in 1..(m + n), i < j
      PROVE  u[i] < u[j]
 <2>1. CASE j <= m BY <1>1, <1>2, <1>5, <2>1
 <2>2. CASE i <= m /\ ~(j <= m)
  <3>1. j - m \in 1..n /\ m + (j - m) = j BY <1>1, <2>2
  <3>2. u[j] = t[j - m] /\ u[i] = s[i] BY <1>1, <2>2, <3>1
  <3> QED BY <1>1, <1>4, <2>2, <3>1, <3>2
 <2>3. CASE ~(i <= m)
  <3>1. j - m \in 1..n /\ m + (j - m) = j /\ i - m \in 1..n /\ m + (i - m) = i /\ i - m < j - m BY <1>1, <1>5, <2>3
  <3>2. u[j] = t[j - m] /\ u[i] = t[i - m] BY <1>1, <3>1
  <3> QED BY <1>3, <3>1, <3>2
 <2> QED BY <1>1, <1>5, <2>1, <2>2, <2>3
<1> QED BY <1>1, <1>5 DEF Rising, u

LEMMA TrimmedIs ==
  ASSUME NEW s \in Seq(Nat)
  PROVE  /\ Trimmed(s) \in Seq(Nat) /\ Len(Trimmed(s)) <= LogSize
         /\ ToSet(Trimmed(s)) \subseteq ToSet(s)
         /\ Rising(s) => Rising(Trimmed(s))
<1>1. CASE Len(s) <= LogSize BY <1>1 DEF Trimmed
<1>2. CASE ~(Len(s) <= LogSize) BY <1>2, NewestIs, SizesAre DEF Trimmed
<1> QED BY <1>1, <1>2

\* What the buffers hold once s has been put in their place.
LEMMA HeldIs ==
  ASSUME NEW s, \A k \in LogKinds : s[k] \in Seq(Nat), HoldsLogs(s)
  PROVE  /\ logBuffer' \in Logs
         /\ EntriesOf(s) \subseteq EntriesOf(logBuffer') \cup cut' /\ cut \subseteq cut'
         /\ \A k \in LogKinds : /\ Len(logBuffer'[k]) <= BufferSize[k]
                                /\ ToSet(logBuffer'[k]) \subseteq ToSet(s[k])
                                /\ Rising(s[k]) => Rising(logBuffer'[k])
<1>1. /\ logBuffer' = [k \in LogKinds |-> Newest(BufferSize[k], s[k])]
      /\ cut' = cut \cup (EntriesOf(s) \ EntriesOf(logBuffer'))
  BY DEF HoldsLogs, Pruned
<1>2. ASSUME NEW k \in LogKinds
      PROVE  /\ logBuffer'[k] \in Seq(Nat) /\ Len(logBuffer'[k]) <= BufferSize[k]
             /\ ToSet(logBuffer'[k]) \subseteq ToSet(s[k])
             /\ Rising(s[k]) => Rising(logBuffer'[k]) BY <1>1, SizesAre, NewestIs
<1>3. logBuffer' \in Logs BY <1>1, <1>2 DEF Logs
<1> QED BY <1>1, <1>2, <1>3

LEMMA ItemsOf ==
  ASSUME NEW S, NEW s \in Seq(S)
  PROVE  ToSet(s) \subseteq S
  BY DEF ToSet

LEMMA MoreBelow ==
  ASSUME NEW s, NEW t, NEW u, ToSet(u) \subseteq ToSet(t)
  PROVE  /\ AllBelow(s, t) => AllBelow(s, u)
         /\ AllBelow(t, s) => AllBelow(u, s)
  BY DEF AllBelow

LEMMA SoundParts ==
  ASSUME CollectorSound
  PROVE  CollectorTypes /\ WithinLimits /\ WrittenIsThere /\ NoEntryVanishes /\ LogsRise
  BY DEF CollectorSound

\* A step that puts s in the place of the buffers.
LEMMA HeldSound ==
  ASSUME CollectorSound, NEW s, \A k \in LogKinds : s[k] \in Seq(Nat), HoldsLogs(s),
         moment' \in Nat, moment <= moment', \A k \in LogKinds : Until(moment', s[k]),
         reports' \subseteq reports, logFiles' = logFiles, untrimmed' = untrimmed,
         refused' = refused, beside' \in BOOLEAN,
         pushed' \subseteq EntriesOf(s) \cup EntriesOf(logFiles) \cup cut \cup refused
                               \cup UNION {EntriesOf(r.payload) : r \in reports'},
         ~beside' => /\ ~beside
                     /\ \A k \in LogKinds : /\ Rising(s[k]) /\ AllBelow(logFiles[k], s[k])
                                            /\ \A r \in reports' : AllBelow(r.payload[k], s[k])
  PROVE  CollectorSound'
<1> USE SoundParts
<1>1. /\ logBuffer' \in Logs
      /\ EntriesOf(s) \subseteq EntriesOf(logBuffer') \cup cut' /\ cut \subseteq cut'
      /\ \A k \in LogKinds : /\ Len(logBuffer'[k]) <= BufferSize[k]
                             /\ ToSet(logBuffer'[k]) \subseteq ToSet(s[k])
                             /\ Rising(s[k]) => Rising(logBuffer'[k])
  BY HeldIs
<1>2. CollectorTypes'
 <2>1. CollectorTypes /\ LogKinds = LogKinds OBVIOUS
 <2>2. ASSUME NEW t, ToSet(t) \subseteq Nat, Until(moment, t)
       PROVE  Until(moment', t)
   BY <2>1, <2>2 DEF CollectorTypes, Until
 <2>3. ASSUME NEW k \in LogKinds
       PROVE  Until(moment', logBuffer'[k])
   BY <1>1 DEF Until
 <2>4. \A k \in LogKinds : ToSet(logFiles[k]) \subseteq Nat /\ \A r \in reports : ToSet(r.payload[k]) \subseteq Nat
   BY <2>1, ItemsOf DEF CollectorTypes, Logs, ReportRow
 <2>5. /\ \A k \in LogKinds : Until(moment', logFiles[k])
       /\ \A r \in reports, k \in LogKinds : Until(moment', r.payload[k])
   BY <2>1, <2>2, <2>4 DEF CollectorTypes
 <2> QED BY <1>1, <2>1, <2>3, <2>5 DEF CollectorTypes
<1>3. WithinLimits' BY <1>1 DEF WithinLimits
<1>4. WrittenIsThere' BY <1>1 DEF WrittenIsThere
<1>5. NoEntryVanishes' BY <1>1 DEF NoEntryVanishes
<1>6. LogsRise'
 <2> SUFFICES ASSUME ~beside'
              PROVE  /\ \A r, q \in reports' : r = q
                     /\ \A k \in LogKinds : /\ Rising(logBuffer'[k]) /\ Rising(logFiles'[k])
                                            /\ AllBelow(logFiles'[k], logBuffer'[k])
                     /\ \A r \in reports', k \in LogKinds :
                           /\ Rising(r.payload[k]) /\ AllBelow(r.payload[k], logBuffer'[k])
                           /\ ~r.written => AllBelow(logFiles'[k], r.payload[k])
   BY DEF LogsRise
 <2>1. /\ \A r, q \in reports : r = q
       /\ \A k \in LogKinds : Rising(logFiles[k])
       /\ \A r \in reports, k \in LogKinds :
             Rising(r.payload[k]) /\ (~r.written => AllBelow(logFiles[k], r.payload[k]))
   BY DEF LogsRise
 <2>2. ASSUME NEW k \in LogKinds
       PROVE  /\ Rising(logBuffer'[k]) /\ AllBelow(logFiles[k], logBuffer'[k])
              /\ \A r \in reports' : AllBelow(r.payload[k], logBuffer'[k]) BY <1>1, MoreBelow
 <2> QED BY <2>1, <2>2
<1> QED BY <1>2, <1>3, <1>4, <1>5, <1>6 DEF CollectorSound

LEMMA AppendedRises ==
  ASSUME NEW s \in Seq(Nat), NEW m \in Nat, Until(m, s)
  PROVE  Rising(s) => Rising(Append(s, m + 1))
<1> DEFINE t == Append(s, m + 1)
           n == Len(s)
<1>1. /\ n \in Nat /\ Len(t) = n + 1 /\ \A i \in 1..n : t[i] = s[i] /\ s[i] <= m /\ s[i] \in Nat
      /\ t[n + 1] = m + 1
  BY DEF ToSet, Until
<1> SUFFICES ASSUME Rising(s)
             PROVE  \A i, j \in 1..Len(t) : i < j => t[i] < t[j]
  BY DEF Rising
<1>2. \A i \in 1..n, j \in 1..n : i < j => s[i] < s[j] BY DEF Rising
<1> HIDE DEF t, n
<1>3. ASSUME NEW i \in 1..(n + 1), NEW j \in 1..(n + 1), i < j
      PROVE  t[i] < t[j]
 <2>1. i \in 1..n BY <1>1, <1>3
 <2>2. CASE j \in 1..n BY <1>1, <1>2, <1>3, <2>1, <2>2
 <2>3. CASE ~(j \in 1..n) BY <1>1, <2>3, <2>1
 <2> QED BY <2>2, <2>3
<1> QED BY <1>1, <1>3

LEMMA PushSound ==
  ASSUME CollectorSound, NEW kinds \in SUBSET LogKinds, Pushes(kinds),
         UNCHANGED <<reports, logFiles, untrimmed, refused, beside>>
  PROVE  CollectorSound'
<1> DEFINE s == [k \in LogKinds |-> IF k \in kinds THEN Append(logBuffer[k], moment + 1) ELSE logBuffer[k]]
<1>1. /\ CollectorTypes /\ NoEntryVanishes /\ LogsRise BY SoundParts
<1>2. /\ moment' = moment + 1 /\ pushed' = pushed \cup {<<k, moment + 1>> : k \in kinds} /\ HoldsLogs(s) BY DEF Pushes
<1>3. /\ moment \in Nat /\ reports' \subseteq reports /\ logFiles' = logFiles /\ refused' = refused
      /\ untrimmed' = untrimmed
      /\ beside' = beside /\ beside' \in BOOLEAN /\ moment' \in Nat
  BY <1>1, <1>2 DEF CollectorTypes
<1>4. \A k \in LogKinds : s[k] = IF k \in kinds THEN Append(logBuffer[k], moment + 1) ELSE logBuffer[k] OBVIOUS
<1> HIDE DEF s
<1>5. ASSUME NEW k \in LogKinds
      PROVE  /\ s[k] \in Seq(Nat)
             /\ ToSet(logBuffer[k]) \subseteq ToSet(s[k])
             /\ ToSet(s[k]) \subseteq ToSet(logBuffer[k]) \cup {moment + 1}
             /\ k \in kinds => moment + 1 \in ToSet(s[k])
             /\ Until(moment', s[k])
             /\ Rising(logBuffer[k]) => Rising(s[k])
 <2>1. logBuffer[k] \in Seq(Nat) /\ Until(moment, logBuffer[k]) BY <1>1 DEF CollectorTypes, Logs
 <2>2. ToSet(logBuffer[k]) \subseteq Nat BY <2>1, ItemsOf
 <2>3. CASE k \in kinds
  <3>1. s[k] = Append(logBuffer[k], moment + 1) BY <1>4, <2>3
  <3>2. moment + 1 \in Nat BY <1>3
  <3>3. ToSet(Append(logBuffer[k], moment + 1)) = ToSet(logBuffer[k]) \cup {moment + 1} BY <2>1, <3>2, ToSetAppend
  <3>4. Rising(logBuffer[k]) => Rising(Append(logBuffer[k], moment + 1)) BY <1>3, <2>1, AppendedRises
  <3>5. Append(logBuffer[k], moment + 1) \in Seq(Nat) BY <2>1, <3>2
  <3>6. Until(moment', s[k]) BY <1>2, <1>3, <2>1, <2>2, <3>1, <3>3 DEF Until
  <3> QED BY <3>1, <3>3, <3>4, <3>5, <3>6
 <2>4. CASE k \notin kinds BY <1>4, <2>4, <1>2, <1>3, <2>1, <2>2 DEF Until
 <2> QED BY <2>3, <2>4
<1>6. pushed' \subseteq EntriesOf(s) \cup EntriesOf(logFiles) \cup cut \cup refused
                            \cup UNION {EntriesOf(r.payload) : r \in reports'}
 <2>1. EntriesOf(logBuffer) \subseteq EntriesOf(s) BY <1>5, EntriesWithin
 <2>2. \A k \in kinds : <<k, moment + 1>> \in EntriesOf(s) BY <1>5, EntriesAre
 <2> QED BY <1>1, <1>2, <2>1, <2>2 DEF NoEntryVanishes
<1>7. ~beside' => /\ ~beside
                  /\ \A k \in LogKinds : /\ Rising(s[k]) /\ AllBelow(logFiles[k], s[k])
                                         /\ \A r \in reports' : AllBelow(r.payload[k], s[k])
 <2> SUFFICES ASSUME ~beside, NEW k \in LogKinds
              PROVE  /\ Rising(s[k]) /\ AllBelow(logFiles[k], s[k])
                     /\ \A r \in reports : AllBelow(r.payload[k], s[k])
   BY <1>3
 <2>1. /\ Rising(logBuffer[k]) /\ AllBelow(logFiles[k], logBuffer[k])
       /\ \A r \in reports : AllBelow(r.payload[k], logBuffer[k])
   BY <1>1 DEF LogsRise
 <2>2. ASSUME NEW t, ToSet(t) \subseteq Nat, Until(moment, t), AllBelow(t, logBuffer[k])
       PROVE  AllBelow(t, s[k]) BY <1>3, <2>2, <1>5 DEF Until, AllBelow
 <2>3. ToSet(logFiles[k]) \subseteq Nat /\ \A r \in reports : ToSet(r.payload[k]) \subseteq Nat
   BY <1>1, ItemsOf DEF CollectorTypes, Logs, ReportRow
 <2>4. Until(moment, logFiles[k]) /\ \A r \in reports : Until(moment, r.payload[k]) BY <1>1 DEF CollectorTypes
 <2> QED BY <1>5, <2>1, <2>2, <2>3, <2>4
<1>8. \A k \in LogKinds : s[k] \in Seq(Nat) BY <1>5
<1>9. (\A k \in LogKinds : Until(moment', s[k])) /\ moment <= moment' BY <1>2, <1>3, <1>5
<1> QED BY <1>2, <1>3, <1>6, <1>7, <1>8, <1>9, HeldSound

\* A step that leaves the buffers and the files, and of the reports drops
\* what is in a file, cut or refused.
LEMMA QuietSound ==
  ASSUME CollectorSound, UNCHANGED <<logBuffer, logFiles, untrimmed, pushed, refused>>,
         moment' \in Nat, moment <= moment', cut \subseteq cut', beside' \in BOOLEAN, ~beside' => ~beside,
         reports' \subseteq reports,
         \A r \in reports \ reports' : EntriesOf(r.payload) \subseteq EntriesOf(logFiles) \cup cut' \cup refused
  PROVE  CollectorSound'
<1>1. CollectorTypes /\ WithinLimits /\ WrittenIsThere /\ NoEntryVanishes /\ LogsRise BY SoundParts
<1>2. CollectorTypes'
 <2>1. ASSUME NEW t, ToSet(t) \subseteq Nat, Until(moment, t)
       PROVE  Until(moment', t)
   BY <1>1, <2>1 DEF CollectorTypes, Until
 <2>2. \A k \in LogKinds : /\ ToSet(logFiles[k]) \subseteq Nat /\ ToSet(logBuffer[k]) \subseteq Nat
                           /\ \A r \in reports : ToSet(r.payload[k]) \subseteq Nat
   BY <1>1, ItemsOf DEF CollectorTypes, Logs, ReportRow
 <2>3. /\ \A k \in LogKinds : Until(moment', logFiles[k]) /\ Until(moment', logBuffer[k])
       /\ \A r \in reports, k \in LogKinds : Until(moment', r.payload[k])
   BY <1>1, <2>1, <2>2 DEF CollectorTypes
 <2> QED BY <1>1, <2>3 DEF CollectorTypes
<1>3. WithinLimits' BY <1>1 DEF WithinLimits
<1>4. WrittenIsThere' BY <1>1 DEF WrittenIsThere
<1>5. NoEntryVanishes' BY <1>1 DEF NoEntryVanishes
<1>6. LogsRise' BY <1>1 DEF LogsRise
<1> QED BY <1>2, <1>3, <1>4, <1>5, <1>6 DEF CollectorSound

LEMMA NoLogsAre ==
  /\ NoLogs \in Logs /\ EntriesOf(NoLogs) = {}
  /\ \A k \in LogKinds : /\ ToSet(NoLogs[k]) = {} /\ Len(NoLogs[k]) = 0 /\ Rising(NoLogs[k])
                         /\ \A s : AllBelow(s, NoLogs[k])
                         /\ \A m : Until(m, NoLogs[k])
<1>1. \A k \in LogKinds : NoLogs[k] = << >> BY DEF NoLogs
<1>2. << >> \in Seq(Nat) /\ ToSet(<< >>) = {} /\ Len(<< >>) = 0 BY DEF ToSet
<1>3. Rising(<< >>) /\ (\A s : AllBelow(s, << >>)) /\ \A m : Until(m, << >>) BY <1>2 DEF Rising, AllBelow, Until
<1>4. NoLogs \in Logs BY <1>1, <1>2 DEF Logs, NoLogs
<1>5. EntriesOf(NoLogs) = {}
 <2> SUFFICES ASSUME NEW e \in EntriesOf(NoLogs)
              PROVE  FALSE
   OBVIOUS
 <2>1. e[1] \in LogKinds /\ e[2] \in ToSet(NoLogs[e[1]]) BY EntriesAre
 <2> QED BY <1>1, <1>2, <2>1
<1> QED BY <1>1, <1>2, <1>3, <1>4, <1>5

\* A step that posts p, which the buffers held.
LEMMA PostSound ==
  ASSUME CollectorSound, UNCHANGED <<logFiles, untrimmed, pushed, refused>>,
         moment' \in Nat, moment <= moment', cut \subseteq cut', beside' \in BOOLEAN,
         NEW p \in Logs,
         \A k \in LogKinds : ToSet(p[k]) \subseteq ToSet(logBuffer[k]) /\ (Rising(logBuffer[k]) => Rising(p[k])),
         reports' = reports \cup {[payload |-> p, written |-> FALSE]},
         logBuffer' = logBuffer \/ logBuffer' = NoLogs,
         EntriesOf(logBuffer) \subseteq EntriesOf(logBuffer') \cup EntriesOf(p) \cup cut',
         ~beside' => ~beside /\ reports = {} /\ logBuffer' = NoLogs
  PROVE  CollectorSound'
<1> DEFINE row == [payload |-> p, written |-> FALSE]
<1>1. CollectorTypes /\ WithinLimits /\ WrittenIsThere /\ NoEntryVanishes /\ LogsRise BY SoundParts
<1>2. row \in ReportRow /\ row.payload = p /\ row.written = FALSE /\ reports' = reports \cup {row} BY DEF ReportRow
<1> HIDE DEF row
<1>3. CollectorTypes'
 <2>1. ASSUME NEW t, ToSet(t) \subseteq Nat, Until(moment, t)
       PROVE  Until(moment', t)
   BY <1>1, <2>1 DEF CollectorTypes, Until
 <2>2. \A k \in LogKinds : /\ ToSet(logFiles[k]) \subseteq Nat /\ ToSet(logBuffer[k]) \subseteq Nat
                           /\ \A r \in reports : ToSet(r.payload[k]) \subseteq Nat
   BY <1>1, ItemsOf DEF CollectorTypes, Logs, ReportRow
 <2>3. /\ \A k \in LogKinds : Until(moment', logFiles[k]) /\ Until(moment', logBuffer[k])
       /\ \A r \in reports, k \in LogKinds : Until(moment', r.payload[k])
   BY <1>1, <2>1, <2>2 DEF CollectorTypes
 <2>4. \A k \in LogKinds : Until(moment', p[k]) BY <2>3 DEF Until
 <2>5. \A k \in LogKinds : Until(moment', logBuffer'[k]) BY <2>3, NoLogsAre
 <2>6. logBuffer' \in Logs /\ logFiles' \in Logs /\ reports' \subseteq ReportRow
   BY <1>1, <1>2, NoLogsAre DEF CollectorTypes
 <2>7. \A r \in reports', k \in LogKinds : Until(moment', r.payload[k]) BY <1>2, <2>3, <2>4
 <2> QED BY <2>3, <2>5, <2>6, <2>7 DEF CollectorTypes
<1>4. WithinLimits' BY SizesAre, <1>1, NoLogsAre DEF WithinLimits
<1>5. WrittenIsThere' BY <1>1, <1>2 DEF WrittenIsThere
<1>6. NoEntryVanishes' BY <1>1, <1>2 DEF NoEntryVanishes
<1>7. LogsRise'
 <2> SUFFICES ASSUME ~beside'
              PROVE  /\ \A r, q \in reports' : r = q
                     /\ \A k \in LogKinds : /\ Rising(logBuffer'[k]) /\ Rising(logFiles'[k])
                                            /\ AllBelow(logFiles'[k], logBuffer'[k])
                     /\ \A r \in reports', k \in LogKinds :
                           /\ Rising(r.payload[k]) /\ AllBelow(r.payload[k], logBuffer'[k])
                           /\ ~r.written => AllBelow(logFiles'[k], r.payload[k])
   BY DEF LogsRise
 <2>1. reports' = {row} /\ logBuffer' = NoLogs BY <1>2
 <2>2. \A k \in LogKinds : /\ Rising(logBuffer[k]) /\ Rising(logFiles[k])
                           /\ AllBelow(logFiles[k], logBuffer[k])
   BY <1>1 DEF LogsRise
 <2>3. \A k \in LogKinds : Rising(p[k]) /\ AllBelow(logFiles[k], p[k]) BY <2>2, MoreBelow
 <2> QED BY <1>2, <2>1, <2>2, <2>3, NoLogsAre
<1> QED BY <1>3, <1>4, <1>5, <1>6, <1>7 DEF CollectorSound

LEMMA FailSound ==
  ASSUME CollectorSound, NEW r \in reports, ReportFails(r)
  PROVE  CollectorSound'
<1>1. CollectorTypes /\ WrittenIsThere /\ NoEntryVanishes /\ LogsRise BY SoundParts
<1>2. /\ reports' = reports \ {r}
      /\ UNCHANGED <<moment, logFiles, untrimmed, pushed, refused>>
      /\ moment \in Nat /\ beside \in BOOLEAN /\ r \in ReportRow
  BY <1>1 DEF ReportFails, CollectorTypes
<1>3. CASE logPage = "open"
 <2> DEFINE s == PutBack(r.payload)
 <2>1. HoldsLogs(s) /\ beside' = (beside \/ r.written) BY <1>3 DEF ReportFails
 <2>2. \A k \in LogKinds : s[k] = r.payload[k] \o logBuffer[k] BY DEF PutBack
 <2> HIDE DEF s
 <2>3. r.written \in BOOLEAN /\ r.payload \in Logs BY <1>2 DEF ReportRow
 <2>4. ASSUME NEW k \in LogKinds
       PROVE  /\ s[k] \in Seq(Nat) /\ ToSet(s[k]) = ToSet(r.payload[k]) \cup ToSet(logBuffer[k])
              /\ r.payload[k] \in Seq(Nat) /\ logBuffer[k] \in Seq(Nat)
  <3>1. r.payload[k] \in Seq(Nat) /\ logBuffer[k] \in Seq(Nat) BY <1>1, <2>3 DEF CollectorTypes, Logs
  <3>2. /\ r.payload[k] \o logBuffer[k] \in Seq(Nat)
        /\ ToSet(r.payload[k] \o logBuffer[k]) = ToSet(r.payload[k]) \cup ToSet(logBuffer[k])
    BY <3>1, ListParts
  <3> QED BY <2>2, <3>1, <3>2
 <2>5. ASSUME NEW k \in LogKinds
       PROVE  Until(moment, s[k]) BY <1>1, <2>4 DEF CollectorTypes, Until
 <2>6. pushed \subseteq EntriesOf(s) \cup EntriesOf(logFiles) \cup cut \cup refused
                              \cup UNION {EntriesOf(q.payload) : q \in reports'}
  <3>1. EntriesOf(r.payload) \subseteq EntriesOf(s) /\ EntriesOf(logBuffer) \subseteq EntriesOf(s)
    BY <2>4, EntriesWithin
  <3> QED BY <1>1, <1>2, <3>1 DEF NoEntryVanishes
 <2>7. ~beside' => /\ ~beside
                   /\ \A k \in LogKinds : /\ Rising(s[k]) /\ AllBelow(logFiles[k], s[k])
                                          /\ \A q \in reports' : AllBelow(q.payload[k], s[k])
  <3> SUFFICES ASSUME ~beside', NEW k \in LogKinds
               PROVE  /\ ~beside /\ Rising(s[k]) /\ AllBelow(logFiles[k], s[k])
                      /\ \A q \in reports' : AllBelow(q.payload[k], s[k])
    BY <1>2, <2>1, <2>3
  <3>1. ~beside /\ ~r.written BY <1>2, <2>1, <2>3
  <3>2. /\ \A q \in reports : q = r
        /\ Rising(logBuffer[k]) /\ AllBelow(logFiles[k], logBuffer[k])
        /\ Rising(r.payload[k]) /\ AllBelow(r.payload[k], logBuffer[k]) /\ AllBelow(logFiles[k], r.payload[k])
    BY <1>1, <3>1 DEF LogsRise
  <3>3. reports' = {} BY <1>2, <3>2
  <3>4. Rising(r.payload[k] \o logBuffer[k]) BY <2>4, <3>2, JoinedRise
  <3>5. AllBelow(logFiles[k], s[k]) BY <2>4, <3>2 DEF AllBelow
  <3> QED BY <2>2, <3>1, <3>3, <3>4, <3>5
 <2>8. /\ \A k \in LogKinds : s[k] \in Seq(Nat)
       /\ \A k \in LogKinds : Until(moment', s[k])
       /\ moment' \in Nat /\ moment <= moment' /\ reports' \subseteq reports /\ beside' \in BOOLEAN
   BY <1>2, <2>1, <2>3, <2>4, <2>5
 <2>9. pushed' \subseteq EntriesOf(s) \cup EntriesOf(logFiles) \cup cut \cup refused
                               \cup UNION {EntriesOf(q.payload) : q \in reports'}
   BY <1>2, <2>6
 <2> QED BY <1>2, <2>1, <2>7, <2>8, <2>9, HeldSound
<1>4. CASE logPage # "open" BY <1>4, <1>1, <1>2, QuietSound DEF ReportFails, WrittenIsThere
<1> QED BY <1>3, <1>4

LEMMA ReportSound ==
  ASSUME CollectorSound, ReportLogs
  PROVE  CollectorSound'
<1>1. CollectorTypes BY SoundParts
<1>2. /\ reports' = reports \cup {[payload |-> logBuffer, written |-> FALSE]}
      /\ logBuffer' = NoLogs /\ beside' = (beside \/ reports # {})
      /\ UNCHANGED <<moment, logFiles, untrimmed, pushed, cut, refused>>
  BY DEF ReportLogs
<1>3. moment \in Nat /\ beside \in BOOLEAN /\ logBuffer \in Logs BY <1>1 DEF CollectorTypes
<1>4. moment' \in Nat /\ moment <= moment' BY <1>2, <1>3
<1>5. beside' \in BOOLEAN /\ (~beside' => ~beside /\ reports = {}) BY <1>2, <1>3, Zenon
<1> QED BY <1>2, <1>3, <1>4, <1>5, PostSound

LEMMA UnloadSound ==
  ASSUME CollectorSound, BeforeUnload
  PROVE  CollectorSound'
<1>1. CollectorTypes /\ WithinLimits /\ WrittenIsThere /\ NoEntryVanishes /\ LogsRise BY SoundParts
<1>2. /\ logBuffer' = NoLogs /\ cut' = cut \cup EntriesOf(logBuffer)
      /\ UNCHANGED <<moment, reports, logFiles, untrimmed, pushed, refused, beside>>
  BY DEF BeforeUnload
<1>3. CollectorTypes' BY <1>1, <1>2, NoLogsAre DEF CollectorTypes
<1>4. WithinLimits' BY SizesAre, <1>1, <1>2, NoLogsAre DEF WithinLimits
<1>5. WrittenIsThere' BY <1>1, <1>2 DEF WrittenIsThere
<1>6. NoEntryVanishes' BY <1>1, <1>2 DEF NoEntryVanishes
<1>7. LogsRise' BY <1>1, <1>2, NoLogsAre DEF LogsRise
<1> QED BY <1>3, <1>4, <1>5, <1>6, <1>7 DEF CollectorSound

LEMMA SpoiltIs ==
  ASSUME NEW s \in Seq(Nat), Len(s) > LogSize, NEW n \in 0..TrimTarget + 1
  PROVE  /\ SpoiltTrim(s, n) \in Seq(Nat)
         /\ ToSet(SpoiltTrim(s, n)) \subseteq ToSet(s)
         /\ Rising(s) => Rising(SpoiltTrim(s, n))
<1>1. CASE n > TrimTarget BY <1>1 DEF SpoiltTrim
<1>2. CASE ~(n > TrimTarget)
 <2> DEFINE t == Newest(TrimTarget, s)
            u == SubSeq(t, 1, n)
 <2>1. /\ t \in Seq(Nat) /\ ToSet(t) \subseteq ToSet(s) /\ (Rising(s) => Rising(t))
       /\ n \in Nat /\ TrimTarget \in Nat /\ n <= TrimTarget
   BY <1>2, NewestIs, SizesAre
 <2>2. Len(t) = TrimTarget
  <3>1. Len(s) \in Nat /\ ~(Len(s) <= TrimTarget) BY SizesAre
  <3>2. t = SubSeq(s, Len(s) - TrimTarget + 1, Len(s)) BY <3>1 DEF Newest
  <3> QED BY <2>1, <3>1, <3>2
 <2>3. SpoiltTrim(s, n) = u BY <1>2 DEF SpoiltTrim
 <2> HIDE DEF t
 <2>4. u \in Seq(Nat) /\ Len(u) = n /\ DOMAIN u = 1..n /\ \A i \in 1..n : u[i] = t[i] BY <2>1, <2>2
 <2> HIDE DEF u
 <2>5. DOMAIN t = 1..TrimTarget /\ \A i \in 1..n : i \in 1..TrimTarget BY <2>1, <2>2
 <2>6. ToSet(u) \subseteq ToSet(t) BY <2>4, <2>5 DEF ToSet
 <2>7. Rising(t) => Rising(u) BY <2>2, <2>4, <2>5 DEF Rising
 <2> QED BY <2>1, <2>3, <2>4, <2>6, <2>7
<1> QED BY <1>1, <1>2

\* The files after payload p was written as far as the first n kinds.
LEMMA FilesAre ==
  ASSUME NEW n \in 0..3, NEW p \in Logs, NEW spoilt, logFiles \in Logs, Writes(n, p, spoilt),
         \A k \in LogKinds : Len(logFiles[k]) <= LogSize \/ k \in untrimmed
  PROVE  /\ logFiles' \in Logs /\ cut \subseteq cut' /\ refused \subseteq refused'
         /\ EntriesOf(logFiles) \subseteq EntriesOf(logFiles') \cup cut'
         /\ EntriesOf(p) \subseteq EntriesOf(logFiles') \cup cut' \cup refused'
         /\ n = 3 => EntriesOf(p) \subseteq EntriesOf(logFiles') \cup cut'
         /\ \A k \in LogKinds :
              /\ Len(logFiles'[k]) <= LogSize \/ k \in untrimmed'
              /\ ToSet(logFiles'[k]) \subseteq ToSet(logFiles[k]) \cup ToSet(p[k])
              /\ Rising(logFiles[k]) /\ Rising(p[k]) /\ AllBelow(logFiles[k], p[k]) => Rising(logFiles'[k])
<1> DEFINE kinds == {WriteOrder[i] : i \in 1..n}
           written == {k \in kinds : p[k] # <<>>}
           appended == [k \in LogKinds |-> logFiles[k] \o p[k]]
<1>1. /\ \A k \in spoilt : k \in written /\ Len(appended[k]) > LogSize
      /\ \E left \in [spoilt -> 0..TrimTarget + 1] :
            logFiles' = [k \in LogKinds |->
                            IF k \in spoilt THEN SpoiltTrim(appended[k], left[k])
                            ELSE IF k \in written THEN Trimmed(appended[k]) ELSE logFiles[k]]
      /\ untrimmed' = (untrimmed \ written) \cup spoilt
      /\ refused' = refused \cup {e \in EntriesOf(p) : e[1] \notin kinds}
      /\ cut' = cut \cup ((EntriesOf(logFiles) \cup {e \in EntriesOf(p) : e[1] \in kinds}) \ EntriesOf(logFiles'))
  BY DEF Writes
<1>2. n = 3 => LogKinds \subseteq kinds BY DEF WriteOrder, LogKinds
<1>3. \A k \in LogKinds : appended[k] = logFiles[k] \o p[k] OBVIOUS
<1> HIDE DEF kinds, written, appended
<1>4. PICK left \in [spoilt -> 0..TrimTarget + 1] :
         logFiles' = [k \in LogKinds |->
                         IF k \in spoilt THEN SpoiltTrim(appended[k], left[k])
                         ELSE IF k \in written THEN Trimmed(appended[k]) ELSE logFiles[k]]
  BY <1>1
<1>5. ASSUME NEW k \in LogKinds
      PROVE  /\ logFiles'[k] \in Seq(Nat) /\ (Len(logFiles'[k]) <= LogSize \/ k \in untrimmed')
             /\ ToSet(logFiles'[k]) \subseteq ToSet(logFiles[k]) \cup ToSet(p[k])
             /\ Rising(logFiles[k]) /\ Rising(p[k]) /\ AllBelow(logFiles[k], p[k]) => Rising(logFiles'[k])
 <2> DEFINE s == logFiles[k]
            t == p[k]
            u == s \o t
 <2>1. s \in Seq(Nat) /\ t \in Seq(Nat) BY DEF Logs
 <2>2. u \in Seq(Nat) /\ ToSet(u) = ToSet(s) \cup ToSet(t) BY <2>1, ListParts
 <2>3. Rising(s) /\ Rising(t) /\ AllBelow(s, t) => Rising(u) BY <2>1, JoinedRise
 <2>4. logFiles'[k] = IF k \in spoilt THEN SpoiltTrim(u, left[k])
                      ELSE IF k \in written THEN Trimmed(u) ELSE s
   BY <1>3, <1>4
 <2>5. k \in spoilt => Len(u) > LogSize /\ left[k] \in 0..TrimTarget + 1 BY <1>1, <1>3, <1>4
 <2>6. Len(s) <= LogSize \/ k \in untrimmed OBVIOUS
 <2> HIDE DEF s, t, u
 <2>7. CASE k \in spoilt
  <3>1. /\ SpoiltTrim(u, left[k]) \in Seq(Nat) /\ ToSet(SpoiltTrim(u, left[k])) \subseteq ToSet(u)
        /\ Rising(u) => Rising(SpoiltTrim(u, left[k]))
    BY <2>2, <2>5, <2>7, SpoiltIs
  <3>2. k \in untrimmed' BY <1>1, <2>7
  <3> QED BY <2>2, <2>3, <2>4, <2>7, <3>1, <3>2 DEF s, t
 <2>8. CASE k \notin spoilt /\ k \in written
  <3>1. /\ Trimmed(u) \in Seq(Nat) /\ Len(Trimmed(u)) <= LogSize
        /\ ToSet(Trimmed(u)) \subseteq ToSet(u) /\ (Rising(u) => Rising(Trimmed(u)))
    BY <2>2, TrimmedIs
  <3> QED BY <2>2, <2>3, <2>4, <2>8, <3>1 DEF s, t
 <2>9. CASE k \notin spoilt /\ k \notin written BY <1>1, <2>1, <2>4, <2>6, <2>9 DEF s, t
 <2> QED BY <2>7, <2>8, <2>9
<1>6. logFiles' \in Logs BY <1>4, <1>5 DEF Logs
<1>7. n = 3 => EntriesOf(p) \subseteq EntriesOf(logFiles') \cup cut' BY EntriesAre, <1>1, <1>2
<1>8. /\ EntriesOf(logFiles) \subseteq EntriesOf(logFiles') \cup cut'
      /\ EntriesOf(p) \subseteq EntriesOf(logFiles') \cup cut' \cup refused'
      /\ cut \subseteq cut' /\ refused \subseteq refused'
  BY <1>1
<1> QED BY <1>5, <1>6, <1>7, <1>8

LEMMA LogWriteSound ==
  ASSUME CollectorSound, NEW r \in reports, ~r.written, NEW n \in 0..3, NEW spoilt, Writes(n, r.payload, spoilt),
         UNCHANGED <<moment, logBuffer, pushed, beside>>,
         reports \ {r} \subseteq reports',
         reports' \subseteq (reports \ {r}) \cup {[r EXCEPT !.written = TRUE]},
         n # 3 => reports' = reports \ {r}
  PROVE  CollectorSound'
<1> DEFINE p == r.payload
           row == [r EXCEPT !.written = TRUE]
<1>1. CollectorTypes /\ WithinLimits /\ WrittenIsThere /\ NoEntryVanishes /\ LogsRise BY SoundParts
<1>2. r \in ReportRow /\ p \in Logs /\ logFiles \in Logs
      /\ \A k \in LogKinds : Len(logFiles[k]) <= LogSize \/ k \in untrimmed
  BY <1>1 DEF CollectorTypes, ReportRow, WithinLimits
<1>3. row \in ReportRow /\ row.payload = p BY <1>2 DEF ReportRow
<1>4. /\ \A q \in reports' : (q \in reports /\ q # r) \/ q = row
      /\ \A q \in reports : q # r => q \in reports'
      /\ \A q \in reports' : q = row => n = 3 \/ q \in reports
  OBVIOUS
<1>5. Writes(n, p, spoilt) OBVIOUS
<1> HIDE DEF p, row
<1>6. /\ logFiles' \in Logs /\ cut \subseteq cut' /\ refused \subseteq refused'
      /\ EntriesOf(logFiles) \subseteq EntriesOf(logFiles') \cup cut'
      /\ EntriesOf(p) \subseteq EntriesOf(logFiles') \cup cut' \cup refused'
      /\ n = 3 => EntriesOf(p) \subseteq EntriesOf(logFiles') \cup cut'
      /\ \A k \in LogKinds :
           /\ Len(logFiles'[k]) <= LogSize \/ k \in untrimmed'
           /\ ToSet(logFiles'[k]) \subseteq ToSet(logFiles[k]) \cup ToSet(p[k])
           /\ Rising(logFiles[k]) /\ Rising(p[k]) /\ AllBelow(logFiles[k], p[k]) => Rising(logFiles'[k])
  BY <1>2, <1>5, FilesAre
<1>7. CollectorTypes'
 <2>1. ASSUME NEW k \in LogKinds
       PROVE  Until(moment, logFiles'[k]) BY <1>1, <1>6 DEF CollectorTypes, p, Until
 <2>2. \A q \in reports' : q \in ReportRow /\ \A k \in LogKinds : Until(moment, q.payload[k])
   BY <1>1, <1>3, <1>4 DEF CollectorTypes, p
 <2> QED BY <1>1, <1>6, <2>1, <2>2 DEF CollectorTypes
<1>8. WithinLimits' BY <1>1, <1>6 DEF WithinLimits
<1>9. WrittenIsThere'
 <2> SUFFICES ASSUME NEW q \in reports', q.written
              PROVE  EntriesOf(q.payload) \subseteq EntriesOf(logFiles') \cup cut'
   BY DEF WrittenIsThere
 <2>1. CASE q \in reports BY <1>1, <1>6, <2>1 DEF WrittenIsThere
 <2>2. CASE q \notin reports BY <1>3, <1>4, <1>6, <2>2
 <2> QED BY <2>1, <2>2
<1>10. NoEntryVanishes'
 <2> SUFFICES ASSUME NEW e \in pushed
              PROVE  e \in EntriesOf(logBuffer) \cup EntriesOf(logFiles') \cup cut' \cup refused'
                             \cup UNION {EntriesOf(q.payload) : q \in reports'}
   BY DEF NoEntryVanishes
 <2>1. \/ e \in EntriesOf(logBuffer) \cup EntriesOf(logFiles) \cup cut \cup refused
       \/ \E q \in reports : e \in EntriesOf(q.payload)
   BY <1>1 DEF NoEntryVanishes
 <2>2. CASE \E q \in reports : e \in EntriesOf(q.payload)
  <3>1. PICK q \in reports : e \in EntriesOf(q.payload) BY <2>2
  <3>2. CASE q = r BY <1>6, <3>1, <3>2 DEF p
  <3>3. CASE q # r BY <1>4, <3>1, <3>3
  <3> QED BY <3>2, <3>3
 <2> QED BY <1>6, <2>1, <2>2
<1>11. LogsRise'
 <2> SUFFICES ASSUME ~beside
              PROVE  /\ \A q, o \in reports' : q = o
                     /\ \A k \in LogKinds : /\ Rising(logBuffer[k]) /\ Rising(logFiles'[k])
                                            /\ AllBelow(logFiles'[k], logBuffer[k])
                     /\ \A q \in reports', k \in LogKinds :
                           /\ Rising(q.payload[k]) /\ AllBelow(q.payload[k], logBuffer[k])
                           /\ ~q.written => AllBelow(logFiles'[k], q.payload[k])
   BY DEF LogsRise
 <2>1. /\ \A q \in reports : q = r
       /\ \A k \in LogKinds : /\ Rising(logBuffer[k]) /\ Rising(logFiles[k]) /\ AllBelow(logFiles[k], logBuffer[k])
                              /\ Rising(p[k]) /\ AllBelow(p[k], logBuffer[k]) /\ AllBelow(logFiles[k], p[k])
   BY <1>1 DEF LogsRise, p
 <2>2. \A q \in reports' : q = row BY <1>4, <2>1
 <2>3. row.written = TRUE BY <1>2 DEF row, ReportRow
 <2>4. \A k \in LogKinds : Rising(logFiles'[k]) /\ AllBelow(logFiles'[k], logBuffer[k]) BY <1>6, <2>1 DEF AllBelow
 <2> QED BY <1>3, <2>1, <2>2, <2>3, <2>4
<1> QED BY <1>7, <1>8, <1>9, <1>10, <1>11 DEF CollectorSound

LEMMA StillSound ==
  ASSUME CollectorSound, UNCHANGED <<moment, logBuffer, reports, logFiles, untrimmed, pushed, cut, refused, beside>>
  PROVE  CollectorSound'
  BY DEF CollectorSound, CollectorTypes, WithinLimits, WrittenIsThere, NoEntryVanishes, LogsRise

LEMMA CollectorStep ==
  ASSUME CollectorSound, CollectorNext
  PROVE  CollectorSound'
<1>1. ASSUME NEW kinds \in SUBSET LogKinds, RequestEnds(0, kinds) \/ RequestEnds(1, kinds)
      PROVE  CollectorSound'
 <2>1. UNCHANGED <<reports, logFiles, untrimmed, refused, beside>> BY <1>1 DEF RequestEnds
 <2>2. CASE kinds = {} BY <1>1, <2>2, <2>1, StillSound DEF RequestEnds
 <2>3. CASE kinds # {} BY <1>1, <2>3, <2>1, PushSound DEF RequestEnds
 <2> QED BY <2>2, <2>3
<1>2. CASE ConsoleCall \/ Uncaught \/ UiEvent \/ FetchBodyEnds
  BY <1>2, PushSound DEF ConsoleCall, Uncaught, UiEvent, FetchBodyEnds, LogKinds
<1>3. CASE FetchBegins BY <1>3, StillSound DEF FetchBegins
<1>4. CASE FetchRejects \/ XhrErrors BY <1>4, <1>1 DEF FetchRejects, XhrErrors, LogKinds
<1>5. CASE \E status \in {"ok", "error"} : (\E captured \in BOOLEAN : FetchAnswers(status, captured)) \/ XhrLoads(status)
 <2>1. PICK status \in {"ok", "error"} : (\E captured \in BOOLEAN : FetchAnswers(status, captured)) \/ XhrLoads(status)
   BY <1>5
 <2>2. RequestEnds(1, EventOf(status)) \/ RequestEnds(0, EventOf(status) \cup {"network"})
   BY <2>1 DEF FetchAnswers, XhrLoads
 <2>3. EventOf(status) \in SUBSET LogKinds /\ EventOf(status) \cup {"network"} \in SUBSET LogKinds
   BY DEF EventOf, LogKinds
 <2> QED BY <1>1, <2>2, <2>3
<1>6. CASE ReportLogs BY <1>6, ReportSound
<1>7. CASE BeforeUnload BY <1>7, UnloadSound
<1>8. ASSUME NEW r \in reports, NEW spoilt \in SUBSET LogKinds,
             \/ ReportFails(r) \/ ReportAnswered(r)
             \/ HandlePayload(r, spoilt) \/ \E n \in 0..2 : WriteThrows(r, n, spoilt)
      PROVE  CollectorSound'
 <2>1. CASE ReportFails(r) BY <2>1, FailSound
 <2>2. CASE ReportAnswered(r)
  <3>1. CollectorTypes /\ WrittenIsThere BY SoundParts
  <3>2. /\ r.written /\ reports' = reports \ {r}
        /\ UNCHANGED <<moment, logBuffer, logFiles, untrimmed, pushed, cut, refused, beside>>
    BY <2>2 DEF ReportAnswered
  <3>3. moment' \in Nat /\ moment <= moment' /\ beside' \in BOOLEAN /\ (~beside' => ~beside)
    BY <3>1, <3>2 DEF CollectorTypes
  <3>4. \A q \in reports \ reports' : EntriesOf(q.payload) \subseteq EntriesOf(logFiles) \cup cut' \cup refused
    BY <3>1, <3>2 DEF WrittenIsThere
  <3> QED BY <3>2, <3>3, <3>4, QuietSound
 <2>3. CASE HandlePayload(r, spoilt) BY <2>3, LogWriteSound DEF HandlePayload
 <2>4. ASSUME NEW n \in 0..2, WriteThrows(r, n, spoilt)
       PROVE  CollectorSound' BY <2>4, LogWriteSound DEF WriteThrows
 <2> QED BY <1>8, <2>1, <2>2, <2>3, <2>4
<1> QED BY <1>2, <1>3, <1>4, <1>5, <1>6, <1>7, <1>8 DEF CollectorNext

LEMMA CollectorBegins ==
  ASSUME CollectorInit
  PROVE  CollectorSound
<1>1. /\ moment = 0 /\ logBuffer = NoLogs /\ logFiles = NoLogs /\ reports = {} /\ pushed = {} /\ beside = FALSE
  BY DEF CollectorInit
<1>2. CollectorTypes /\ WrittenIsThere /\ NoEntryVanishes
  BY <1>1, NoLogsAre DEF CollectorTypes, WrittenIsThere, NoEntryVanishes
<1>3. WithinLimits BY SizesAre, <1>1, NoLogsAre DEF WithinLimits
<1>4. LogsRise BY <1>1, NoLogsAre DEF LogsRise
<1> QED BY <1>2, <1>3, <1>4 DEF CollectorSound

LEMMA RisesInOrder ==
  ASSUME CollectorSound
  PROVE  LogsAreKept
<1>1. CollectorTypes /\ WithinLimits /\ NoEntryVanishes /\ LogsRise BY SoundParts
<1>2. ASSUME ~beside, NEW k \in LogKinds, NEW i \in 1..Len(logFiles[k]) - 1
      PROVE  logFiles[k][i] < logFiles[k][i + 1]
 <2>1. Rising(logFiles[k]) BY <1>1, <1>2 DEF LogsRise
 <2>2. logFiles[k] \in Seq(Nat) BY <1>1 DEF CollectorTypes, Logs
 <2>3. Len(logFiles[k]) \in Nat BY <2>2
 <2>4. i \in 1..Len(logFiles[k]) /\ i + 1 \in 1..Len(logFiles[k]) /\ i < i + 1 BY <2>3
 <2> QED BY <2>1, <2>4 DEF Rising
<1> QED BY <1>1, <1>2 DEF LogsAreKept, WrittenInOrder

\* What the collector is told waits, is under way or is in its file unless
\* a limit has cut it, it went with the page or the server could not write
\* it, the files keep the order of the page while reports go one by one,
\* every buffer keeps its limit, and so does every file whose last trim did
\* not fail: whatever the limits, failures and moments.
THEOREM LogsAreAlwaysKept == OperationsSpec => []LogsAreKept
<1>1. OperationsInit => CollectorSound BY CollectorBegins DEF OperationsInit
<1>2. CollectorSound /\ [OperationsNext]_operationsVars => CollectorSound'
 <2> SUFFICES ASSUME CollectorSound, [OperationsNext]_operationsVars
              PROVE  CollectorSound'
   OBVIOUS
 <2>1. CollectorNext \/ UNCHANGED collectorVars
   BY DEF OperationsNext, ClientNext, ServiceNext, SmallCollectorNext, operationsVars, frontVars
 <2>2. CASE UNCHANGED collectorVars BY <2>2, StillSound DEF collectorVars
 <2> QED BY <2>1, <2>2, CollectorStep
<1>3. CollectorSound => LogsAreKept BY RisesInOrder
<1> QED BY <1>1, <1>2, <1>3, PTL DEF OperationsSpec

LEMMA AppendedTo ==
  ASSUME NEW S, NEW s \in Seq(S), NEW x \in S
  PROVE  /\ Append(s, x) \in Seq(S) /\ Len(Append(s, x)) = Len(s) + 1 /\ Append(s, x)[Len(s) + 1] = x
         /\ \A i \in 1..Len(s) : Append(s, x)[i] = s[i]
  OBVIOUS
LEMMA AppendedIs ==
  ASSUME NEW S, NEW s \in Seq(S), NEW x \in S, NEW t, t = Append(s, x)
  PROVE  /\ t \in Seq(S) /\ Len(t) = Len(s) + 1 /\ t[Len(s) + 1] = x
         /\ \A i \in 1..Len(s) : t[i] = s[i]
  BY AppendedTo
LEMMA TwoAre == ASSUME NEW S, NEW t \in Seq(S), NEW a, NEW b, Len(t) = 2, t[1] = a, t[2] = b PROVE t = <<a, b>>
  OBVIOUS
LEMMA ThreeAre == ASSUME NEW S, NEW t \in Seq(S), NEW a, NEW b, NEW c, Len(t) = 3, t[1] = a, t[2] = b, t[3] = c PROVE t = <<a, b, c>>
  OBVIOUS
LEMMA AppendedAre == ASSUME NEW S, NEW a \in S, NEW b \in S, NEW c \in S PROVE Append(<<a>>, b) = <<a, b>> /\ Append(<<a, b>>, c) = <<a, b, c>>
<1>1. <<a>> \in Seq(S) /\ Len(<<a>>) = 1 /\ <<a>>[1] = a /\ 1 \in 1..1 OBVIOUS
<1>2. Append(<<a>>, b) = <<a, b>>
 <2> DEFINE s == <<a>>
            t == Append(s, b)
 <2>1. s \in Seq(S) /\ Len(s) = 1 /\ s[1] = a BY <1>1
 <2> HIDE DEF s
 <2>2. t \in Seq(S) /\ Len(t) = 2 /\ t[1] = a /\ t[2] = b
  <3>0. t = Append(s, b) OBVIOUS
  <3> HIDE DEF t
  <3>1. /\ t \in Seq(S) /\ Len(t) = Len(s) + 1 /\ t[Len(s) + 1] = b
        /\ \A i \in 1..Len(s) : t[i] = s[i]
    BY <2>1, <3>0, AppendedIs
  <3> QED BY <2>1, <3>1
 <2> HIDE DEF t
 <2>3. t = <<a, b>> BY <2>2, TwoAre
 <2> QED BY <2>3 DEF s, t
<1>3. <<a, b>> \in Seq(S) /\ Len(<<a, b>>) = 2 /\ <<a, b>>[1] = a /\ <<a, b>>[2] = b OBVIOUS
<1>4. Append(<<a, b>>, c) = <<a, b, c>>
 <2> DEFINE s == <<a, b>>
            t == Append(s, c)
 <2>1. s \in Seq(S) /\ Len(s) = 2 /\ s[1] = a /\ s[2] = b BY <1>3
 <2> HIDE DEF s
 <2>2. t \in Seq(S) /\ Len(t) = 3 /\ t[1] = a /\ t[2] = b /\ t[3] = c
  <3>0. t = Append(s, c) OBVIOUS
  <3> HIDE DEF t
  <3>1. /\ t \in Seq(S) /\ Len(t) = Len(s) + 1 /\ t[Len(s) + 1] = c
        /\ \A i \in 1..Len(s) : t[i] = s[i]
    BY <2>1, <3>0, AppendedIs
  <3> QED BY <2>1, <3>1
 <2> HIDE DEF t
 <2>3. t = <<a, b, c>> BY <2>2, ThreeAre
 <2> QED BY <2>3 DEF s, t
<1> QED BY <1>2, <1>4

----
\* The runs of the agents.  A run is what was built for its goal, with
\* what the turn merged into it; while nothing of the turn went wrong, it
\* has exactly the proofs of the phases that are over.

RunRecord(st, gt, ac, pr, pl, de, re, dl, cr, rf, me, pf, fa) ==
  [status |-> st, goalType |-> gt, active |-> ac, priors |-> pr, plan |-> pl, decisions |-> de, recoveries |-> re,
   delegations |-> dl, critic |-> cr, reflections |-> rf, memories |-> me, proofs |-> pf, planFailed |-> fa]

MergedRun(goal, active, priors, status, refs, mems, prfs, failed) ==
  RunRecord(status, GoalType(goal), active, priors, Plan(goal, active, priors), Decisions(active, priors),
        Recoveries(active), Delegations(goal, active, priors), CriticEvaluation(goal, active, priors),
        refs, mems, prfs, failed)

ProvenAt(phase) ==
  CASE phase = "plan" -> <<>>
    [] phase = "reflection" -> <<<<"plan", "verified">>>>
    [] phase = "execution" -> <<<<"plan", "verified">>, <<"reflection", "pending">>>>
    [] phase = "turn" -> <<<<"plan", "verified">>, <<"reflection", "pending">>, <<"execution", "verified">>>>

LearnedAt(phase) == IF phase \in {"plan", "reflection"} THEN 0 ELSE 1

WellProven(phase, active, refs, mems, prfs, failed) ==
  active /\ ~failed /\ prfs = ProvenAt(phase) /\ refs = LearnedAt(phase) /\ mems = LearnedAt(phase)

AgentSound ==
  /\ lessonsKept \in Nat /\ degradedTurn \in BOOLEAN
  /\ turnPhase \in {"turn", "plan", "reflection", "execution"}
  /\ \/ framework = NoFramework /\ turnPhase = "turn"
     \/ \E refs, mems, prfs :
        \E goal \in SUBSET Patterns, active, failed \in BOOLEAN, priors \in Nat,
           status \in {"completed", "degraded", "failed"} :
          /\ framework = MergedRun(goal, active, priors, status, refs, mems, prfs, failed)
          /\ turnPhase = "turn" =>
                /\ status = "completed" => WellProven(turnPhase, active, refs, mems, prfs, failed)
                /\ status = "failed" => failed
          /\ turnPhase # "turn" /\ ~degradedTurn => WellProven(turnPhase, active, refs, mems, prfs, failed)

LEMMA StatusChanges ==
  ASSUME NEW st, NEW gt, NEW ac, NEW pr, NEW pl, NEW de, NEW re, NEW dl, NEW cr, NEW rf, NEW me, NEW pf, NEW fa, NEW x
  PROVE  [RunRecord(st, gt, ac, pr, pl, de, re, dl, cr, rf, me, pf, fa) EXCEPT !.status = x] =
           RunRecord(x, gt, ac, pr, pl, de, re, dl, cr, rf, me, pf, fa)
<1> DEFINE r == RunRecord(st, gt, ac, pr, pl, de, re, dl, cr, rf, me, pf, fa)
<1>1. r = [status |-> st, goalType |-> gt, active |-> ac, priors |-> pr, plan |-> pl, decisions |-> de,
           recoveries |-> re, delegations |-> dl, critic |-> cr, reflections |-> rf, memories |-> me,
           proofs |-> pf, planFailed |-> fa]
  BY DEF RunRecord
<1> HIDE DEF r
<1>2. [r EXCEPT !.status = x] =
               [status |-> x, goalType |-> gt, active |-> ac, priors |-> pr, plan |-> pl, decisions |-> de,
                recoveries |-> re, delegations |-> dl, critic |-> cr, reflections |-> rf, memories |-> me,
                proofs |-> pf, planFailed |-> fa]
  BY <1>1
<1> QED BY <1>2 DEF r, RunRecord

LabelledRun(r, x, y) == [r EXCEPT !.status = x, !.planFailed = y]
RecordedRun(r, x, y, z) == [r EXCEPT !.reflections = x, !.memories = y, !.proofs = z]

LEMMA FailureChanges ==
  ASSUME NEW st, NEW gt, NEW ac, NEW pr, NEW pl, NEW de, NEW re, NEW dl, NEW cr, NEW rf, NEW me, NEW pf, NEW fa, NEW x, NEW y
  PROVE  LabelledRun(RunRecord(st, gt, ac, pr, pl, de, re, dl, cr, rf, me, pf, fa), x, y) =
           RunRecord(x, gt, ac, pr, pl, de, re, dl, cr, rf, me, pf, y)
<1> DEFINE r == RunRecord(st, gt, ac, pr, pl, de, re, dl, cr, rf, me, pf, fa)
<1>1. r = [status |-> st, goalType |-> gt, active |-> ac, priors |-> pr, plan |-> pl, decisions |-> de,
           recoveries |-> re, delegations |-> dl, critic |-> cr, reflections |-> rf, memories |-> me,
           proofs |-> pf, planFailed |-> fa]
  BY DEF RunRecord
<1> HIDE DEF r
<1>2. [r EXCEPT !.status = x, !.planFailed = y] =
               [status |-> x, goalType |-> gt, active |-> ac, priors |-> pr, plan |-> pl, decisions |-> de,
                recoveries |-> re, delegations |-> dl, critic |-> cr, reflections |-> rf, memories |-> me,
                proofs |-> pf, planFailed |-> y]
 <2> DEFINE new == [r EXCEPT !.status = x, !.planFailed = y]
 <2>1. /\ new \in [status : {st, x}, goalType : {gt}, active : {ac}, priors : {pr}, plan : {pl},
                   decisions : {de}, recoveries : {re}, delegations : {dl}, critic : {cr},
                   reflections : {rf, rf}, memories : {me, me}, proofs : {pf, pf},
                   planFailed : {fa, y}]
       /\ new.status = x /\ new.planFailed = y /\ new.reflections = rf /\ new.memories = me /\ new.proofs = pf
   BY <1>1
 <2> HIDE DEF new
 <2>2. new =
              [status |-> x, goalType |-> gt, active |-> ac, priors |-> pr, plan |-> pl, decisions |-> de,
               recoveries |-> re, delegations |-> dl, critic |-> cr, reflections |-> rf, memories |-> me,
               proofs |-> pf, planFailed |-> y]
   BY <2>1
 <2> QED BY <2>2 DEF new
<1> QED BY <1>2 DEF r, RunRecord, LabelledRun, RecordedRun

LEMMA RecordsChange ==
  ASSUME NEW st, NEW gt, NEW ac, NEW pr, NEW pl, NEW de, NEW re, NEW dl, NEW cr, NEW rf, NEW me, NEW pf, NEW fa, NEW x, NEW y, NEW z
  PROVE  RecordedRun(RunRecord(st, gt, ac, pr, pl, de, re, dl, cr, rf, me, pf, fa), x, y, z) =
           RunRecord(st, gt, ac, pr, pl, de, re, dl, cr, x, y, z, fa)
<1> DEFINE r == RunRecord(st, gt, ac, pr, pl, de, re, dl, cr, rf, me, pf, fa)
<1>1. r = [status |-> st, goalType |-> gt, active |-> ac, priors |-> pr, plan |-> pl, decisions |-> de,
           recoveries |-> re, delegations |-> dl, critic |-> cr, reflections |-> rf, memories |-> me,
           proofs |-> pf, planFailed |-> fa]
  BY DEF RunRecord
<1> HIDE DEF r
<1>2. [r EXCEPT !.reflections = x, !.memories = y, !.proofs = z] =
               [status |-> st, goalType |-> gt, active |-> ac, priors |-> pr, plan |-> pl, decisions |-> de,
                recoveries |-> re, delegations |-> dl, critic |-> cr, reflections |-> x, memories |-> y,
                proofs |-> z, planFailed |-> fa]
 <2> DEFINE new == [r EXCEPT !.reflections = x, !.memories = y, !.proofs = z]
 <2>1. /\ new \in [status : {st, st}, goalType : {gt}, active : {ac}, priors : {pr}, plan : {pl},
                   decisions : {de}, recoveries : {re}, delegations : {dl}, critic : {cr},
                   reflections : {rf, x}, memories : {me, y}, proofs : {pf, z},
                   planFailed : {fa, fa}]
       /\ new.status = st /\ new.planFailed = fa /\ new.reflections = x /\ new.memories = y /\ new.proofs = z
   BY <1>1
 <2> HIDE DEF new
 <2>2. new =
              [status |-> st, goalType |-> gt, active |-> ac, priors |-> pr, plan |-> pl, decisions |-> de,
               recoveries |-> re, delegations |-> dl, critic |-> cr, reflections |-> x, memories |-> y,
               proofs |-> z, planFailed |-> fa]
   BY <2>1
 <2> QED BY <2>2 DEF new
<1> QED BY <1>2 DEF r, RunRecord, LabelledRun, RecordedRun


LEMMA RecordsMerged ==
  ASSUME NEW goal, NEW active, NEW priors, NEW status, NEW refs, NEW mems, NEW prfs, NEW failed,
         NEW more, NEW kept, NEW proof,
         framework = MergedRun(goal, active, priors, status, refs, mems, prfs, failed)
  PROVE  WithRecords(more, kept, proof) =
           MergedRun(goal, active, priors, status, refs + more, mems + kept, Append(prfs, proof), failed)
<1> DEFINE x == refs + more
           y == mems + kept
           z == Append(prfs, proof)
<1>1. framework.reflections = refs /\ framework.memories = mems /\ framework.proofs = prfs BY DEF MergedRun, RunRecord
<1>2. WithRecords(more, kept, proof) = RecordedRun(framework, x, y, z) BY <1>1 DEF WithRecords, RecordedRun
<1> HIDE DEF x, y, z
<1>3. RecordedRun(framework, x, y, z) =
        MergedRun(goal, active, priors, status, x, y, z, failed)
  BY RecordsChange DEF MergedRun
<1> QED BY <1>2, <1>3 DEF x, y, z

LEMMA StatusSet ==
  ASSUME NEW goal, NEW active, NEW priors, NEW status, NEW refs, NEW mems, NEW prfs, NEW failed, NEW told
  PROVE  [MergedRun(goal, active, priors, status, refs, mems, prfs, failed) EXCEPT !.status = told] =
           MergedRun(goal, active, priors, told, refs, mems, prfs, failed)
  BY StatusChanges DEF MergedRun

LEMMA FailureSet ==
  ASSUME NEW goal, NEW active, NEW priors, NEW status, NEW refs, NEW mems, NEW prfs, NEW failed, NEW told, NEW lost
  PROVE  LabelledRun(MergedRun(goal, active, priors, status, refs, mems, prfs, failed), told, lost) =
           MergedRun(goal, active, priors, told, refs, mems, prfs, lost)
  BY FailureChanges DEF MergedRun

LEMMA ProofsGrow ==
  /\ ProvenAt("plan") = <<>> /\ LearnedAt("plan") = 0
  /\ Append(ProvenAt("plan"), <<"plan", "verified">>) = ProvenAt("reflection") /\ LearnedAt("reflection") = 0
  /\ Append(ProvenAt("reflection"), <<"reflection", "pending">>) = ProvenAt("execution") /\ LearnedAt("execution") = 1
  /\ Append(ProvenAt("execution"), <<"execution", "verified">>) = ProvenAt("turn") /\ LearnedAt("turn") = 1
<1> DEFINE one == <<"plan", "verified">>
           two == <<"reflection", "pending">>
           three == <<"execution", "verified">>
<1>1. /\ ProvenAt("plan") = <<>> /\ ProvenAt("reflection") = <<one>> /\ ProvenAt("execution") = <<one, two>>
      /\ ProvenAt("turn") = <<one, two, three>>
  BY DEF ProvenAt
<1>2. /\ LearnedAt("plan") = 0 /\ LearnedAt("reflection") = 0 /\ LearnedAt("execution") = 1 /\ LearnedAt("turn") = 1
  BY DEF LearnedAt
<1> HIDE DEF one, two, three
<1>3. Append(<<>>, one) = <<one>> OBVIOUS
<1>4. Append(<<one>>, two) = <<one, two>> /\ Append(<<one, two>>, three) = <<one, two, three>>
 <2>1. one \in {one, two, three} /\ two \in {one, two, three} /\ three \in {one, two, three} OBVIOUS
 <2> QED BY <2>1, AppendedAre
<1> QED BY <1>1, <1>2, <1>3, <1>4 DEF one, two, three

\* The run of a phase under way.
LEMMA RunIs ==
  ASSUME AgentSound, turnPhase # "turn"
  PROVE  \E refs, mems, prfs :
         \E goal \in SUBSET Patterns, active, failed \in BOOLEAN, priors \in Nat,
            status \in {"completed", "degraded", "failed"} :
           /\ framework = MergedRun(goal, active, priors, status, refs, mems, prfs, failed)
           /\ ~degradedTurn => WellProven(turnPhase, active, refs, mems, prfs, failed)
  BY DEF AgentSound

\* What makes the run of a later moment sound.
LEMMA RunSound ==
  ASSUME lessonsKept' \in Nat, degradedTurn' \in BOOLEAN, turnPhase' \in {"turn", "plan", "reflection", "execution"},
         NEW refs, NEW mems, NEW prfs, NEW goal \in SUBSET Patterns, NEW active \in BOOLEAN, NEW failed \in BOOLEAN,
         NEW priors \in Nat, NEW status \in {"completed", "degraded", "failed"},
         framework' = MergedRun(goal, active, priors, status, refs, mems, prfs, failed),
         turnPhase' = "turn" => /\ status = "completed" => WellProven("turn", active, refs, mems, prfs, failed)
                                /\ status = "failed" => failed,
         turnPhase' # "turn" /\ ~degradedTurn' => WellProven(turnPhase', active, refs, mems, prfs, failed)
  PROVE  AgentSound'
<1> DEFINE RunFits(r, m, p, g, a, f, l, s) ==
             /\ framework' = MergedRun(g, a, l, s, r, m, p, f)
             /\ turnPhase' = "turn" => /\ s = "completed" => WellProven(turnPhase', a, r, m, p, f)
                                       /\ s = "failed" => f
             /\ turnPhase' # "turn" /\ ~degradedTurn' => WellProven(turnPhase', a, r, m, p, f)
<1>1. RunFits(refs, mems, prfs, goal, active, failed, priors, status) OBVIOUS
<1>2. \E r, m, p : \E g \in SUBSET Patterns, a, f \in BOOLEAN, l \in Nat, s \in {"completed", "degraded", "failed"} :
         RunFits(r, m, p, g, a, f, l, s)
 <2> HIDE DEF RunFits
 <2> QED BY <1>1
<1> QED BY <1>2 DEF AgentSound

LEMMA TurnSound ==
  ASSUME AgentSound, NEW goal \in SUBSET Patterns, NEW active \in BOOLEAN, TurnBegins(goal, active)
  PROVE  AgentSound'
<1> DEFINE status == IF RiskSignals(goal, active) # {} THEN "degraded" ELSE "completed"
<1>1. /\ framework' = MergedRun(goal, active, PriorReflections, status, 0, 0, <<>>, FALSE)
      /\ degradedTurn' = ~active /\ turnPhase' = "plan" /\ lessonsKept' = lessonsKept
  BY DEF TurnBegins, BuildAgentFrameworkRun, MergedRun, RunRecord
<1>2. lessonsKept \in Nat /\ PriorReflections \in Nat BY DEF AgentSound, PriorReflections
<1>3. status \in {"completed", "degraded", "failed"} OBVIOUS
<1> HIDE DEF status
<1>4. ~degradedTurn' => WellProven("plan", active, 0, 0, <<>>, FALSE) BY <1>1, ProofsGrow DEF WellProven
<1> QED BY <1>1, <1>2, <1>3, <1>4, RunSound

LEMMA PlanSound ==
  ASSUME AgentSound, NEW outcome \in Outcomes, PlanMerged(outcome)
  PROVE  AgentSound'
<1> DEFINE proof == <<"plan", "verified">>
           merged == IF outcome = "failed" THEN framework ELSE WithRecords(0, 0, proof)
<1>1. /\ turnPhase = "plan" /\ turnPhase' = "reflection" /\ lessonsKept' = lessonsKept
      /\ framework' = IF outcome = "ok" THEN merged ELSE [merged EXCEPT !.status = "failed", !.planFailed = TRUE]
      /\ degradedTurn' = (degradedTurn \/ outcome # "ok")
  BY DEF PlanMerged
<1>2. PICK refs, mems, prfs :
      \E goal \in SUBSET Patterns, active, failed \in BOOLEAN, priors \in Nat,
         status \in {"completed", "degraded", "failed"} :
        /\ framework = MergedRun(goal, active, priors, status, refs, mems, prfs, failed)
        /\ ~degradedTurn => WellProven("plan", active, refs, mems, prfs, failed)
  BY <1>1, RunIs
<1>3. PICK goal \in SUBSET Patterns, active \in BOOLEAN, failed \in BOOLEAN, priors \in Nat,
           status \in {"completed", "degraded", "failed"} :
        /\ framework = MergedRun(goal, active, priors, status, refs, mems, prfs, failed)
        /\ ~degradedTurn => WellProven("plan", active, refs, mems, prfs, failed)
  BY <1>2
<1>4. lessonsKept \in Nat /\ degradedTurn \in BOOLEAN BY DEF AgentSound
<1>5. CASE outcome = "ok"
 <2>1. framework' = MergedRun(goal, active, priors, status, refs + 0, mems + 0, Append(prfs, proof), failed)
   BY <1>1, <1>3, <1>5, RecordsMerged
 <2>2. degradedTurn' = degradedTurn BY <1>1, <1>4, <1>5
 <2>3. ~degradedTurn' => WellProven("reflection", active, refs + 0, mems + 0, Append(prfs, proof), failed)
   BY <1>3, <2>2, ProofsGrow DEF WellProven
 <2> QED BY <1>1, <1>4, <2>1, <2>2, <2>3, RunSound
<1>6. CASE outcome # "ok"
 <2>1. \E r, m, p : merged = MergedRun(goal, active, priors, status, r, m, p, failed)
  <3>1. WithRecords(0, 0, proof) = MergedRun(goal, active, priors, status, refs + 0, mems + 0, Append(prfs, proof), failed)
    BY <1>3, RecordsMerged
  <3>2. merged = framework \/ merged = WithRecords(0, 0, proof) OBVIOUS
  <3> HIDE DEF merged
  <3> QED BY <1>3, <3>1, <3>2
 <2>2. PICK r, m, p : merged = MergedRun(goal, active, priors, status, r, m, p, failed) BY <2>1
 <2>3. framework' = LabelledRun(merged, "failed", TRUE) BY <1>1, <1>6 DEF LabelledRun
 <2> HIDE DEF merged
 <2> DEFINE lost == TRUE
 <2>4. framework' = LabelledRun(merged, "failed", lost) /\ lost \in BOOLEAN BY <2>3
 <2> HIDE DEF lost
 <2>5. framework' = MergedRun(goal, active, priors, "failed", r, m, p, lost) BY <2>2, <2>4, FailureSet
 <2>6. turnPhase' = "reflection" /\ degradedTurn' /\ degradedTurn' \in BOOLEAN BY <1>1, <1>6
 <2> QED BY <1>1, <1>4, <2>4, <2>5, <2>6, RunSound
<1> QED BY <1>5, <1>6


LEMMA ReflectionSound ==
  ASSUME AgentSound, NEW outcome \in Outcomes, NEW saved \in BOOLEAN, NEW signed \in BOOLEAN,
         ReflectionMerged(outcome, saved, signed)
  PROVE  AgentSound'
<1> DEFINE proof == <<"reflection", IF signed THEN "pending" ELSE "degraded">>
           merged == IF outcome = "failed" THEN framework ELSE WithRecords(1, 1, proof)
<1>1. /\ turnPhase = "reflection" /\ turnPhase' = "execution"
      /\ lessonsKept' = IF saved THEN lessonsKept + 1 ELSE lessonsKept
      /\ framework' = IF outcome = "ok" THEN merged ELSE [merged EXCEPT !.status = "degraded"]
      /\ degradedTurn' = (degradedTurn \/ outcome # "ok" \/ ~signed)
  BY DEF ReflectionMerged
<1>2. PICK refs, mems, prfs :
      \E goal \in SUBSET Patterns, active, failed \in BOOLEAN, priors \in Nat,
         status \in {"completed", "degraded", "failed"} :
        /\ framework = MergedRun(goal, active, priors, status, refs, mems, prfs, failed)
        /\ ~degradedTurn => WellProven("reflection", active, refs, mems, prfs, failed)
  BY <1>1, RunIs
<1>3. PICK goal \in SUBSET Patterns, active \in BOOLEAN, failed \in BOOLEAN, priors \in Nat,
           status \in {"completed", "degraded", "failed"} :
        /\ framework = MergedRun(goal, active, priors, status, refs, mems, prfs, failed)
        /\ ~degradedTurn => WellProven("reflection", active, refs, mems, prfs, failed)
  BY <1>2
<1>4. lessonsKept \in Nat /\ lessonsKept' \in Nat BY <1>1 DEF AgentSound
<1>5. degradedTurn' \in BOOLEAN /\ (~degradedTurn' => ~degradedTurn /\ outcome = "ok" /\ signed)
  BY <1>1, Zenon DEF AgentSound
<1>6. WithRecords(1, 1, proof) = MergedRun(goal, active, priors, status, refs + 1, mems + 1, Append(prfs, proof), failed)
  BY <1>3, RecordsMerged
<1>7. CASE outcome = "ok"
 <2>1. framework' = MergedRun(goal, active, priors, status, refs + 1, mems + 1, Append(prfs, proof), failed)
   BY <1>1, <1>6, <1>7
 <2>2. ~degradedTurn' => WellProven("execution", active, refs + 1, mems + 1, Append(prfs, proof), failed)
  <3> SUFFICES ASSUME ~degradedTurn'
               PROVE  WellProven("execution", active, refs + 1, mems + 1, Append(prfs, proof), failed)
    OBVIOUS
  <3>1. proof = <<"reflection", "pending">> /\ WellProven("reflection", active, refs, mems, prfs, failed)
    BY <1>3, <1>5
  <3> HIDE DEF proof
  <3> QED BY <3>1, ProofsGrow DEF WellProven
 <2> QED BY <1>1, <1>4, <1>5, <2>1, <2>2, RunSound
<1>8. CASE outcome # "ok"
 <2>1. merged = framework \/ merged = WithRecords(1, 1, proof) OBVIOUS
 <2>2. framework' = [merged EXCEPT !.status = "degraded"] BY <1>1, <1>8
 <2> HIDE DEF merged, proof
 <2>3. PICK r, m, p : merged = MergedRun(goal, active, priors, status, r, m, p, failed) BY <1>3, <1>6, <2>1
 <2>4. framework' = MergedRun(goal, active, priors, "degraded", r, m, p, failed) BY <2>2, <2>3, StatusSet
 <2>5. turnPhase' = "execution" /\ degradedTurn' BY <1>1, <1>5, <1>8
 <2> QED BY <1>4, <1>5, <2>4, <2>5, RunSound
<1> QED BY <1>7, <1>8

LEMMA ExecutionSound ==
  ASSUME AgentSound, NEW outcome \in Outcomes, NEW accepted \in BOOLEAN, ExecutionMerged(outcome, accepted)
  PROVE  AgentSound'
<1> DEFINE proof == <<"execution", IF accepted THEN "verified" ELSE "degraded">>
           merged == IF outcome = "failed" THEN framework ELSE WithRecords(0, 0, proof)
           told == IF outcome = "ok" THEN StatusAfterProof(accepted) ELSE "degraded"
<1>1. /\ turnPhase = "execution" /\ turnPhase' = "turn" /\ lessonsKept' = lessonsKept
      /\ framework' = [merged EXCEPT !.status = told]
      /\ degradedTurn' = (degradedTurn \/ outcome # "ok" \/ ~accepted)
  BY DEF ExecutionMerged
<1>2. PICK refs, mems, prfs :
      \E goal \in SUBSET Patterns, active, failed \in BOOLEAN, priors \in Nat,
         status \in {"completed", "degraded", "failed"} :
        /\ framework = MergedRun(goal, active, priors, status, refs, mems, prfs, failed)
        /\ ~degradedTurn => WellProven("execution", active, refs, mems, prfs, failed)
  BY <1>1, RunIs
<1>3. PICK goal \in SUBSET Patterns, active \in BOOLEAN, failed \in BOOLEAN, priors \in Nat,
           status \in {"completed", "degraded", "failed"} :
        /\ framework = MergedRun(goal, active, priors, status, refs, mems, prfs, failed)
        /\ ~degradedTurn => WellProven("execution", active, refs, mems, prfs, failed)
  BY <1>2
<1>4. lessonsKept' \in Nat /\ degradedTurn' \in BOOLEAN BY <1>1 DEF AgentSound
<1>5. WithRecords(0, 0, proof) = MergedRun(goal, active, priors, status, refs + 0, mems + 0, Append(prfs, proof), failed)
  BY <1>3, RecordsMerged
<1>6. /\ told = "completed" => outcome = "ok" /\ accepted /\ ~degradedTurn
      /\ told = "failed" => framework.planFailed
      /\ told \in {"completed", "degraded", "failed"}
  BY DEF StatusAfterProof
<1>7. framework.planFailed = failed BY <1>3 DEF MergedRun, RunRecord
<1>8. CASE told = "completed"
 <2>1. merged = WithRecords(0, 0, proof) /\ proof = <<"execution", "verified">> BY <1>6, <1>8
 <2> HIDE DEF merged, told, proof
 <2>2. framework' = MergedRun(goal, active, priors, told, refs + 0, mems + 0, Append(prfs, proof), failed)
   BY <1>1, <1>5, <2>1, StatusSet
 <2>3. WellProven("turn", active, refs + 0, mems + 0, Append(prfs, proof), failed)
   BY <1>3, <1>6, <1>8, <2>1, ProofsGrow DEF WellProven
 <2> QED BY <1>1, <1>4, <1>6, <1>8, <2>2, <2>3, RunSound
<1>9. CASE told # "completed"
 <2>1. merged = framework \/ merged = WithRecords(0, 0, proof) OBVIOUS
 <2> HIDE DEF merged, proof, told
 <2>2. PICK r, m, p : merged = MergedRun(goal, active, priors, status, r, m, p, failed) BY <1>3, <1>5, <2>1
 <2>3. framework' = MergedRun(goal, active, priors, told, r, m, p, failed) BY <1>1, <2>2, StatusSet
 <2>4. told = "failed" => failed BY <1>6, <1>7
 <2> QED BY <1>1, <1>4, <1>6, <1>9, <2>3, <2>4, RunSound
<1> QED BY <1>8, <1>9


LEMMA RunFields ==
  ASSUME NEW goal, NEW active, NEW priors, NEW status, NEW refs, NEW mems, NEW prfs, NEW failed, NEW run,
         run = MergedRun(goal, active, priors, status, refs, mems, prfs, failed)
  PROVE  /\ run.status = status /\ run.active = active /\ run.priors = priors
         /\ run.plan = Plan(goal, active, priors) /\ run.decisions = Decisions(active, priors)
         /\ run.recoveries = Recoveries(active) /\ run.delegations = Delegations(goal, active, priors)
         /\ run.critic = CriticEvaluation(goal, active, priors)
         /\ run.reflections = refs /\ run.memories = mems /\ run.proofs = prfs /\ run.planFailed = failed
  BY DEF MergedRun, RunRecord

LEMMA CallsOfSteps ==
  ASSUME NEW active \in BOOLEAN, NEW priors
  PROVE  LET steps == Steps(active, priors) IN
         /\ DOMAIN steps = {1, 2}
         /\ steps[1].owner = "researcher" /\ steps[1].retryCount = 0 /\ steps[1].maxRetries = 2
         /\ DOMAIN steps[1].calls = {1, 2, 3} /\ steps[1].calls # <<>>
         /\ steps[1].calls[1] = ToolCall("context.search_memory", TRUE)
         /\ steps[1].calls[2] = ToolCall("chain.read_session", active)
         /\ steps[1].calls[3] = ToolCall("skill.resolve_registry", TRUE)
         /\ steps[2].owner = "operator" /\ steps[2].retryCount = (IF active THEN 0 ELSE 1) /\ steps[2].maxRetries = 2
         /\ DOMAIN steps[2].calls = {1} /\ steps[2].calls # <<>>
         /\ steps[2].calls[1] = ToolCall(ChosenTool(active), TRUE)
<1> DEFINE a == ToolCall("context.search_memory", TRUE)
           b == ToolCall("chain.read_session", active)
           c == ToolCall("skill.resolve_registry", TRUE)
           d == ToolCall(ChosenTool(active), TRUE)
           n == IF active THEN 0 ELSE 1
           one == StepOf("researcher", <<a, b, c>>, 0, priors)
           two == StepOf("operator", <<d>>, n, 0)
<1>1. Steps(active, priors) = <<one, two>> BY DEF Steps
<1> HIDE DEF a, b, c, d, n
<1>2. /\ one.owner = "researcher" /\ one.retryCount = 0 /\ one.maxRetries = 2 /\ one.calls = <<a, b, c>>
      /\ two.owner = "operator" /\ two.retryCount = n /\ two.maxRetries = 2 /\ two.calls = <<d>>
  BY DEF StepOf
<1> HIDE DEF one, two
<1>3. /\ DOMAIN <<a, b, c>> = {1, 2, 3} /\ <<a, b, c>> # <<>>
      /\ <<a, b, c>>[1] = a /\ <<a, b, c>>[2] = b /\ <<a, b, c>>[3] = c
  OBVIOUS
<1>4. DOMAIN <<d>> = {1} /\ <<d>> # <<>> /\ <<d>>[1] = d OBVIOUS
<1>5. DOMAIN <<one, two>> = {1, 2} /\ <<one, two>>[1] = one /\ <<one, two>>[2] = two OBVIOUS
<1> QED BY <1>1, <1>2, <1>3, <1>4, <1>5, ZenonT(30) DEF a, b, c, d, n

LEMMA RunWasBuilt ==
  ASSUME AgentSound, framework # NoFramework
  PROVE  \E goal \in SUBSET Patterns, active \in BOOLEAN, priors \in Nat :
           /\ framework.active = active /\ framework.priors = priors
           /\ framework.plan.steps = Steps(active, priors)
           /\ framework.decisions = Decisions(active, priors) /\ framework.recoveries = Recoveries(active)
<1>1. \E refs, mems, prfs :
      \E goal \in SUBSET Patterns, active, failed \in BOOLEAN, priors \in Nat,
         status \in {"completed", "degraded", "failed"} :
        framework = MergedRun(goal, active, priors, status, refs, mems, prfs, failed)
  BY DEF AgentSound
<1>2. PICK refs, mems, prfs :
      \E goal \in SUBSET Patterns, active, failed \in BOOLEAN, priors \in Nat,
         status \in {"completed", "degraded", "failed"} :
        framework = MergedRun(goal, active, priors, status, refs, mems, prfs, failed)
  BY <1>1
<1>3. PICK goal \in SUBSET Patterns, active \in BOOLEAN, failed \in BOOLEAN, priors \in Nat,
           status \in {"completed", "degraded", "failed"} :
        framework = MergedRun(goal, active, priors, status, refs, mems, prfs, failed)
  BY <1>2
<1>4. /\ framework.active = active /\ framework.priors = priors /\ framework.recoveries = Recoveries(active)
      /\ framework.plan = Plan(goal, active, priors) /\ framework.decisions = Decisions(active, priors)
  BY <1>3, RunFields
<1>5. Plan(goal, active, priors).steps = Steps(active, priors) BY DEF Plan
<1> QED BY <1>4, <1>5

LEMMA ToolsNeedSession ==
  ASSUME AgentSound
  PROVE  SessionToolsNeedSession
<1> SUFFICES ASSUME framework # NoFramework
             PROVE  SessionToolsNeedSession
  BY DEF SessionToolsNeedSession
<1>1. PICK active \in BOOLEAN, priors \in Nat :
        /\ framework.active = active /\ framework.recoveries = Recoveries(active)
        /\ framework.plan.steps = Steps(active, priors)
  BY RunWasBuilt
<1> DEFINE steps == Steps(active, priors)
           chosen == ChosenTool(active)
<1>2. /\ DOMAIN steps = {1, 2}
      /\ steps[1].retryCount = 0 /\ steps[1].maxRetries = 2 /\ DOMAIN steps[1].calls = {1, 2, 3}
      /\ steps[1].calls[1] = ToolCall("context.search_memory", TRUE)
      /\ steps[1].calls[2] = ToolCall("chain.read_session", active)
      /\ steps[1].calls[3] = ToolCall("skill.resolve_registry", TRUE)
      /\ steps[2].retryCount = (IF active THEN 0 ELSE 1) /\ steps[2].maxRetries = 2 /\ DOMAIN steps[2].calls = {1}
      /\ steps[2].calls[1] = ToolCall(chosen, TRUE)
  BY CallsOfSteps
<1>3. /\ steps[1].calls[1].tool = "context.search_memory" /\ steps[1].calls[2].tool = "chain.read_session"
      /\ steps[1].calls[3].tool = "skill.resolve_registry" /\ steps[2].calls[1].tool = chosen
      /\ ~active => steps[1].calls[2].status = "failed"
  BY <1>2 DEF ToolCall
<1>4. chosen = IF active THEN Primary ELSE Fallback BY DEF ChosenTool
<1>5. framework.plan.steps = steps BY <1>1
<1> HIDE DEF steps, chosen
<1>6. ASSUME ~active, NEW c \in Called(framework), steps[c[1]].calls[c[2]].tool \in RequiresWalletSession
      PROVE  steps[c[1]].calls[c[2]].status = "failed"
 <2>1. c[1] \in {1, 2} /\ c[2] \in DOMAIN steps[c[1]].calls BY <1>2, <1>5 DEF Called
 <2>2. (c[1] = 1 /\ c[2] \in {1, 2, 3}) \/ (c[1] = 2 /\ c[2] = 1) BY <1>2, <2>1
 <2>3. /\ "context.search_memory" \notin RequiresWalletSession
       /\ "skill.resolve_registry" \notin RequiresWalletSession
       /\ Fallback \notin RequiresWalletSession
   BY DEF RequiresWalletSession, Primary, Fallback
 <2>4. c[1] = 1 /\ c[2] = 2 BY <1>3, <1>4, <1>6, <2>2, <2>3
 <2> QED BY <1>3, <1>6, <2>4
<1>7. ASSUME NEW i \in DOMAIN steps
      PROVE  /\ steps[i].retryCount > 0 <=> \E k \in DOMAIN steps[i].calls : steps[i].calls[k].tool = Fallback
             /\ steps[i].retryCount > 0 => framework.recoveries # <<>>
             /\ steps[i].retryCount <= steps[i].maxRetries
 <2>1. CASE i = 1
  <3>1. \A k \in DOMAIN steps[1].calls : steps[1].calls[k].tool # Fallback BY <1>2, <1>3 DEF Fallback
  <3>2. steps[1].retryCount = 0 /\ steps[1].maxRetries = 2 BY <1>2
  <3> QED BY <2>1, <3>1, <3>2
 <2>2. CASE i = 2
  <3>1. Primary # Fallback BY DEF Primary, Fallback
  <3>2. ~active => framework.recoveries # <<>> BY <1>1 DEF Recoveries
  <3>3. /\ steps[2].retryCount = (IF active THEN 0 ELSE 1) /\ steps[2].maxRetries = 2
        /\ (\E k \in DOMAIN steps[2].calls : steps[2].calls[k].tool = Fallback) <=> ~active
    BY <1>2, <1>3, <1>4, <3>1
  <3>4. CASE active BY <2>2, <3>3, <3>4
  <3>5. CASE ~active BY <2>2, <3>2, <3>3, <3>5
  <3> QED BY <3>4, <3>5
 <2> QED BY <1>2, <2>1, <2>2
<1> QED BY <1>1, <1>5, <1>6, <1>7 DEF SessionToolsNeedSession


\* Whatever a decision weighed, it took what it scored best, and its role
\* may do what it weighed.
DecisionIsFair(d) ==
  /\ "retry" \in DOMAIN d.scores => d.role \in Permitted.canRetry
  /\ "plan_full" \in DOMAIN d.scores => d.role \in Permitted.canPlan
  /\ Fallback \in DOMAIN d.scores => d.role \in Permitted.canCallTools
  /\ \A o \in DOMAIN d.scores : d.scores[o] <= d.scores[d.selected]

LEMMA DecisionsAreFair ==
  ASSUME NEW active \in BOOLEAN, NEW priors \in Nat
  PROVE  \A i \in DOMAIN Decisions(active, priors) : DecisionIsFair(Decisions(active, priors)[i])
<1> DEFINE If(b, x, y) == IF b THEN x ELSE y
           k == ChosenTool(active)
           d1 == Decision("coordinator", [skill_primary |-> 90, skill_fallback |-> 35], "skill_primary")
           d2 == Decision("researcher",
                   [inject_recent |-> If(priors > 0, 88, 20), inject_none |-> If(priors > 0, 25, 90)],
                   If(priors > 0, "inject_recent", "inject_none"))
           d3 == Decision("planner", [plan_full |-> 92, plan_min |-> 35], "plan_full")
           d4 == Decision("operator", [t \in {Primary, Fallback} |-> If(t = k, 90, 40)], k)
           d5 == Decision("recovery_manager",
                   [retry |-> If(active, 20, 15), fallback |-> If(active, 10, 90), abort |-> 5],
                   If(active, "retry", "fallback"))
<1>1. Decisions(active, priors) = <<d1, d2, d3, d4, d5>> BY DEF Decisions
<1>2. /\ Permitted.canRetry = {"recovery_manager", "operator"}
      /\ Permitted.canPlan = {"planner", "coordinator"}
      /\ Permitted.canCallTools = {"operator", "researcher"}
  BY DEF Permitted
<1>3. DecisionIsFair(d1)
 <2>1. /\ d1.role = "coordinator" /\ DOMAIN d1.scores = {"skill_primary", "skill_fallback"}
       /\ d1.scores["skill_primary"] = 90 /\ d1.scores["skill_fallback"] = 35 /\ d1.selected = "skill_primary"
   BY DEF Decision
 <2> HIDE DEF d1
 <2> QED BY <1>2, <2>1 DEF DecisionIsFair, Fallback
<1>4. DecisionIsFair(d2)
 <2> DEFINE x == If(priors > 0, 88, 20)
            y == If(priors > 0, 25, 90)
            z == If(priors > 0, "inject_recent", "inject_none")
 <2>1. \/ x = 88 /\ y = 25 /\ z = "inject_recent"
       \/ x = 20 /\ y = 90 /\ z = "inject_none"
   OBVIOUS
 <2>2. d2 = Decision("researcher", [inject_recent |-> x, inject_none |-> y], z) OBVIOUS
 <2> HIDE DEF x, y, z, d2
 <2>3. /\ d2.role = "researcher" /\ DOMAIN d2.scores = {"inject_recent", "inject_none"}
       /\ d2.scores["inject_recent"] = x /\ d2.scores["inject_none"] = y /\ d2.selected = z
   BY <2>2 DEF Decision
 <2> QED BY <1>2, <2>1, <2>3 DEF DecisionIsFair, Fallback
<1>5. DecisionIsFair(d3)
 <2>1. /\ d3.role = "planner" /\ DOMAIN d3.scores = {"plan_full", "plan_min"}
       /\ d3.scores["plan_full"] = 92 /\ d3.scores["plan_min"] = 35 /\ d3.selected = "plan_full"
   BY DEF Decision
 <2> HIDE DEF d3
 <2> QED BY <1>2, <2>1 DEF DecisionIsFair, Fallback
<1>6. DecisionIsFair(d4)
 <2>1. k \in {Primary, Fallback} BY DEF ChosenTool
 <2> HIDE DEF k
 <2>2. /\ d4.role = "operator" /\ DOMAIN d4.scores = {Primary, Fallback} /\ d4.selected = k
       /\ \A t \in {Primary, Fallback} : d4.scores[t] = IF t = k THEN 90 ELSE 40
   BY DEF Decision
 <2> HIDE DEF d4
 <2>3. "retry" \notin DOMAIN d4.scores /\ "plan_full" \notin DOMAIN d4.scores BY <2>2 DEF Primary, Fallback
 <2>4. \A o \in DOMAIN d4.scores : d4.scores[o] <= d4.scores[d4.selected] BY <2>1, <2>2
 <2> QED BY <1>2, <2>2, <2>3, <2>4 DEF DecisionIsFair
<1>7. DecisionIsFair(d5)
 <2> DEFINE x == If(active, 20, 15)
            y == If(active, 10, 90)
            z == If(active, "retry", "fallback")
 <2>1. \/ x = 20 /\ y = 10 /\ z = "retry"
       \/ x = 15 /\ y = 90 /\ z = "fallback"
   OBVIOUS
 <2>2. d5 = Decision("recovery_manager", [retry |-> x, fallback |-> y, abort |-> 5], z) OBVIOUS
 <2> HIDE DEF x, y, z, d5
 <2>3. /\ d5.role = "recovery_manager" /\ DOMAIN d5.scores = {"retry", "fallback", "abort"}
       /\ d5.scores["retry"] = x /\ d5.scores["fallback"] = y /\ d5.scores["abort"] = 5 /\ d5.selected = z
   BY <2>2 DEF Decision
 <2> QED BY <1>2, <2>1, <2>3 DEF DecisionIsFair, Fallback
<1> HIDE DEF d1, d2, d3, d4, d5
<1>8. /\ DOMAIN <<d1, d2, d3, d4, d5>> = {1, 2, 3, 4, 5}
      /\ <<d1, d2, d3, d4, d5>>[1] = d1 /\ <<d1, d2, d3, d4, d5>>[2] = d2 /\ <<d1, d2, d3, d4, d5>>[3] = d3
      /\ <<d1, d2, d3, d4, d5>>[4] = d4 /\ <<d1, d2, d3, d4, d5>>[5] = d5
  OBVIOUS
<1> QED BY <1>1, <1>3, <1>4, <1>5, <1>6, <1>7, <1>8

LEMMA RolesKept ==
  ASSUME AgentSound
  PROVE  RolesKeepTheirPermissions
<1> SUFFICES ASSUME framework # NoFramework
             PROVE  RolesKeepTheirPermissions
  BY DEF RolesKeepTheirPermissions
<1>1. PICK goal \in SUBSET Patterns, active \in BOOLEAN, priors \in Nat :
        /\ framework.plan.steps = Steps(active, priors)
        /\ framework.decisions = Decisions(active, priors)
  BY RunWasBuilt
<1> DEFINE steps == Steps(active, priors)
           decisions == Decisions(active, priors)
<1>2. /\ DOMAIN steps = {1, 2} /\ steps[1].owner = "researcher" /\ steps[1].retryCount = 0
      /\ steps[2].owner = "operator"
  BY CallsOfSteps
<1>3. \A i \in DOMAIN decisions : DecisionIsFair(decisions[i]) BY DecisionsAreFair
<1>4. framework.plan.steps = steps /\ framework.decisions = decisions BY <1>1
<1> HIDE DEF steps, decisions
<1>5. ASSUME NEW i \in DOMAIN steps
      PROVE  /\ steps[i].owner \in Permitted.canCallTools
             /\ steps[i].retryCount > 0 => steps[i].owner \in Permitted.canRetry BY <1>2 DEF Permitted
<1>6. ASSUME NEW i \in DOMAIN decisions
      PROVE  LET d == decisions[i]
             IN  /\ "retry" \in DOMAIN d.scores => d.role \in Permitted.canRetry
                 /\ "plan_full" \in DOMAIN d.scores => d.role \in Permitted.canPlan
                 /\ Fallback \in DOMAIN d.scores => d.role \in Permitted.canCallTools
                 /\ \A o \in DOMAIN d.scores : d.scores[o] <= d.scores[d.selected]
  BY <1>3 DEF DecisionIsFair
<1> QED BY <1>4, <1>5, <1>6 DEF RolesKeepTheirPermissions

LEMMA ScoresRise ==
  ASSUME NEW x \in Int, NEW y \in Int, x <= y
  PROVE  ConfidenceFromScore(x) <= ConfidenceFromScore(y)
<1>1. /\ ConfidenceFromScore(x) = IF x >= 85 THEN 3 ELSE IF x >= 65 THEN 2 ELSE IF x >= 40 THEN 1 ELSE 0
      /\ ConfidenceFromScore(y) = IF y >= 85 THEN 3 ELSE IF y >= 65 THEN 2 ELSE IF y >= 40 THEN 1 ELSE 0
  BY DEF ConfidenceFromScore
<1> QED BY <1>1

LEMMA RisksAre ==
  ASSUME NEW goal
  PROVE  /\ RiskLevel(goal, FALSE) = "high" /\ RiskLevel(goal, TRUE) \in {"high", "medium", "low"}
         /\ PlanPolicy(goal, FALSE) = "needs_review" /\ PlanPolicy(goal, TRUE) = "approved"
<1>1. "wallet_session_inactive" \in RiskSignals(goal, FALSE) BY DEF RiskSignals
<1>2. RiskLevel(goal, FALSE) = "high" BY <1>1 DEF RiskLevel
<1>3. RiskLevel(goal, TRUE) \in {"high", "medium", "low"} BY DEF RiskLevel
<1> QED BY <1>2, <1>3 DEF PlanPolicy

LEMMA MoreConfident ==
  ASSUME NEW goal, NEW active \in BOOLEAN, NEW better \in BOOLEAN, active => better, NEW priors \in Nat
  PROVE  /\ PlanConfidence(goal, better, priors) >= PlanConfidence(goal, active, 0)
         /\ CriticScore(goal, better, priors) >= CriticScore(goal, active, 0)
         /\ PlanConfidence(goal, active, 0) \in Nat
<1> DEFINE p == IF priors > 0 THEN 15 ELSE 0
           risk == IF RiskLevel(goal, TRUE) = "high" THEN 20 ELSE 0
<1>1. /\ PlanConfidence(goal, TRUE, priors) = ConfidenceFromScore(55 + p + 20 - risk)
      /\ PlanConfidence(goal, FALSE, priors) = ConfidenceFromScore(55 + p + 0 - 20)
      /\ PlanConfidence(goal, TRUE, 0) = ConfidenceFromScore(55 + 0 + 20 - risk)
      /\ PlanConfidence(goal, FALSE, 0) = ConfidenceFromScore(55 + 0 + 0 - 20)
 <2> DEFINE high(a) == IF RiskLevel(goal, a) = "high" THEN 20 ELSE 0
 <2>1. high(FALSE) = 20 /\ high(TRUE) = risk BY RisksAre
 <2>2. /\ PlanConfidence(goal, TRUE, priors) = ConfidenceFromScore(55 + p + 20 - high(TRUE))
       /\ PlanConfidence(goal, FALSE, priors) = ConfidenceFromScore(55 + p + 0 - high(FALSE))
   BY DEF PlanConfidence
 <2>3. /\ PlanConfidence(goal, TRUE, 0) = ConfidenceFromScore(55 + 0 + 20 - high(TRUE))
       /\ PlanConfidence(goal, FALSE, 0) = ConfidenceFromScore(55 + 0 + 0 - high(FALSE))
   BY DEF PlanConfidence
 <2> HIDE DEF high, p, risk
 <2> QED BY <2>1, <2>2, <2>3
<1>2. p \in {0, 15} /\ risk \in {0, 20} OBVIOUS
<1> HIDE DEF p, risk
<1>3. /\ ConfidenceFromScore(55 + 0 + 0 - 20) <= ConfidenceFromScore(55 + p + 0 - 20)
      /\ ConfidenceFromScore(55 + 0 + 20 - risk) <= ConfidenceFromScore(55 + p + 20 - risk)
      /\ ConfidenceFromScore(55 + 0 + 0 - 20) <= ConfidenceFromScore(55 + p + 20 - risk)
  BY <1>2, ScoresRise
<1>4. \A x \in Int : ConfidenceFromScore(x) \in Nat BY DEF ConfidenceFromScore
<1>5. PlanConfidence(goal, active, 0) \in Nat /\ PlanConfidence(goal, better, priors) \in Nat
 <2>1. 55 + p + 20 - risk \in Int /\ 55 + p + 0 - 20 \in Int /\ 55 + 0 + 20 - risk \in Int /\ 55 + 0 + 0 - 20 \in Int
   BY <1>2
 <2> QED BY <1>1, <1>4, <2>1
<1>6. PlanConfidence(goal, better, priors) >= PlanConfidence(goal, active, 0) BY <1>1, <1>3, <1>5
<1>7. CriticScore(goal, better, priors) >= CriticScore(goal, active, 0)
 <2> DEFINE taught == IF priors > 0 THEN 15 ELSE 8
            off == IF PlanPolicy(goal, FALSE) = "needs_review" THEN 0 ELSE 25
            on == IF PlanPolicy(goal, TRUE) = "needs_review" THEN 0 ELSE 25
 <2>1. off = 0 /\ on = 25 BY RisksAre
 <2>2. /\ CriticScore(goal, TRUE, priors) = 38 + on + 22 + taught
       /\ CriticScore(goal, FALSE, priors) = 38 + off + 5 + taught
       /\ CriticScore(goal, TRUE, 0) = 38 + on + 22 + 8
       /\ CriticScore(goal, FALSE, 0) = 38 + off + 5 + 8
   BY DEF CriticScore
 <2>3. taught \in {8, 15} OBVIOUS
 <2> HIDE DEF taught, off, on
 <2>4. /\ 38 + on + 22 + taught = 85 + taught /\ 38 + off + 5 + taught = 43 + taught
       /\ 38 + on + 22 + 8 = 93 /\ 38 + off + 5 + 8 = 51
   BY <2>1, <2>3
 <2>5. /\ CriticScore(goal, TRUE, priors) = 85 + taught /\ CriticScore(goal, FALSE, priors) = 43 + taught
       /\ CriticScore(goal, TRUE, 0) = 93 /\ CriticScore(goal, FALSE, 0) = 51
   BY <2>2, <2>4
 <2>6. /\ 85 + taught >= 93 /\ 43 + taught >= 51 /\ 85 + taught >= 51 BY <2>3
 <2>7. \/ CriticScore(goal, better, priors) = 85 + taught
       \/ ~better /\ CriticScore(goal, better, priors) = 43 + taught
   BY <2>5
 <2>8. \/ ~active /\ CriticScore(goal, active, 0) = 51
       \/ better /\ CriticScore(goal, active, 0) = 93
   BY <2>5
 <2> QED BY <2>6, <2>7, <2>8
<1> QED BY <1>5, <1>6, <1>7


LEMMA HandOffsAre ==
  ASSUME NEW goal, NEW active, NEW priors
  PROVE  LET handed == Delegations(goal, active, priors) IN
         /\ DOMAIN handed = {1, 2, 3, 4, 5}
         /\ handed[1].confidence = PlanConfidence(goal, active, priors)
         /\ handed[2].confidence = (IF priors > 0 THEN 3 ELSE 2)
         /\ handed[3].confidence = (IF active THEN 3 ELSE 1)
         /\ handed[4].confidence = 2 /\ handed[5].confidence = 2
<1> DEFINE x == PlanConfidence(goal, active, priors)
           y == IF priors > 0 THEN 3 ELSE 2
           z == IF active THEN 3 ELSE 1
           h1 == HandOff("coordinator", "planner", x)
           h2 == HandOff("planner", "researcher", y)
           h3 == HandOff("researcher", "operator", z)
           h4 == HandOff("operator", "critic", 2)
           h5 == HandOff("critic", "reflector", 2)
<1>1. Delegations(goal, active, priors) = <<h1, h2, h3, h4, h5>> BY DEF Delegations
<1> HIDE DEF x, y, z
<1>2. h1.confidence = x /\ h2.confidence = y /\ h3.confidence = z /\ h4.confidence = 2 /\ h5.confidence = 2
  BY DEF HandOff
<1> HIDE DEF h1, h2, h3, h4, h5
<1>3. /\ DOMAIN <<h1, h2, h3, h4, h5>> = {1, 2, 3, 4, 5}
      /\ <<h1, h2, h3, h4, h5>>[1] = h1 /\ <<h1, h2, h3, h4, h5>>[2] = h2 /\ <<h1, h2, h3, h4, h5>>[3] = h3
      /\ <<h1, h2, h3, h4, h5>>[4] = h4 /\ <<h1, h2, h3, h4, h5>>[5] = h5
  OBVIOUS
<1> QED BY <1>1, <1>2, <1>3 DEF x, y, z

LEMMA BuiltIs ==
  ASSUME NEW goal, NEW active, NEW priors
  PROVE  LET run == BuildAgentFrameworkRun(goal, active, priors) IN
         /\ run.plan.confidence = PlanConfidence(goal, active, priors)
         /\ run.critic.score = CriticScore(goal, active, priors)
         /\ run.delegations = Delegations(goal, active, priors)
<1> DEFINE run == BuildAgentFrameworkRun(goal, active, priors)
<1>1. /\ run.plan = Plan(goal, active, priors) /\ run.critic = CriticEvaluation(goal, active, priors)
      /\ run.delegations = Delegations(goal, active, priors)
  BY DEF BuildAgentFrameworkRun
<1>2. Plan(goal, active, priors).confidence = PlanConfidence(goal, active, priors) BY DEF Plan
<1>3. CriticEvaluation(goal, active, priors).score = CriticScore(goal, active, priors) BY DEF CriticEvaluation
<1> QED BY <1>1, <1>2, <1>3

LEMMA LearningHelps ==
  ASSUME AgentSound
  PROVE  LearningNeverHurts
<1> SUFFICES ASSUME framework # NoFramework, NEW goal \in SUBSET Patterns, NEW active \in BOOLEAN,
                    framework.active \/ ~active
             PROVE  LET run == BuildAgentFrameworkRun(goal, active, 0)
                        learned == BuildAgentFrameworkRun(goal, framework.active, framework.priors)
                    IN  /\ learned.plan.confidence >= run.plan.confidence
                        /\ learned.critic.score >= run.critic.score
                        /\ \A i \in DOMAIN run.delegations :
                              learned.delegations[i].confidence >= run.delegations[i].confidence
  BY DEF LearningNeverHurts
<1>1. PICK better \in BOOLEAN, priors \in Nat : framework.active = better /\ framework.priors = priors BY RunWasBuilt
<1>2. active => better BY <1>1
<1> DEFINE run == BuildAgentFrameworkRun(goal, active, 0)
           learned == BuildAgentFrameworkRun(goal, better, priors)
           from == Delegations(goal, active, 0)
           to == Delegations(goal, better, priors)
<1>3. /\ PlanConfidence(goal, better, priors) >= PlanConfidence(goal, active, 0)
      /\ CriticScore(goal, better, priors) >= CriticScore(goal, active, 0)
  BY <1>2, MoreConfident
<1>4. /\ run.plan.confidence = PlanConfidence(goal, active, 0) /\ run.critic.score = CriticScore(goal, active, 0)
      /\ learned.plan.confidence = PlanConfidence(goal, better, priors)
      /\ learned.critic.score = CriticScore(goal, better, priors)
      /\ run.delegations = from /\ learned.delegations = to
  BY BuiltIs
<1>5. /\ DOMAIN from = {1, 2, 3, 4, 5} /\ from[1].confidence = PlanConfidence(goal, active, 0)
      /\ from[2].confidence = (IF 0 > 0 THEN 3 ELSE 2) /\ from[3].confidence = (IF active THEN 3 ELSE 1)
      /\ from[4].confidence = 2 /\ from[5].confidence = 2
      /\ to[1].confidence = PlanConfidence(goal, better, priors)
      /\ to[2].confidence = (IF priors > 0 THEN 3 ELSE 2) /\ to[3].confidence = (IF better THEN 3 ELSE 1)
      /\ to[4].confidence = 2 /\ to[5].confidence = 2
  BY HandOffsAre
<1> HIDE DEF from, to, run, learned
<1>6. \A i \in DOMAIN from : to[i].confidence >= from[i].confidence
 <2>1. to[1].confidence >= from[1].confidence BY <1>3, <1>5
 <2>2. to[2].confidence >= from[2].confidence BY <1>5
 <2>3. to[3].confidence >= from[3].confidence BY <1>2, <1>5
 <2>4. to[4].confidence >= from[4].confidence /\ to[5].confidence >= from[5].confidence BY <1>5
 <2> QED BY <1>5, <2>1, <2>2, <2>3, <2>4
<1>7. /\ learned.plan.confidence >= run.plan.confidence /\ learned.critic.score >= run.critic.score
      /\ \A i \in DOMAIN run.delegations : learned.delegations[i].confidence >= run.delegations[i].confidence
  BY <1>3, <1>4, <1>6
<1> QED BY <1>1, <1>7 DEF run, learned

LEMMA CompletedProven ==
  ASSUME AgentSound
  PROVE  CompletedRunsAreProven
<1> SUFFICES ASSUME framework # NoFramework, turnPhase = "turn"
             PROVE  CompletedRunsAreProven
  BY DEF CompletedRunsAreProven
<1>1. PICK refs, mems, prfs :
      \E goal \in SUBSET Patterns, active, failed \in BOOLEAN, priors \in Nat,
         status \in {"completed", "degraded", "failed"} :
        /\ framework = MergedRun(goal, active, priors, status, refs, mems, prfs, failed)
        /\ status = "completed" => WellProven("turn", active, refs, mems, prfs, failed)
        /\ status = "failed" => failed
  BY DEF AgentSound
<1>2. PICK goal \in SUBSET Patterns, active \in BOOLEAN, failed \in BOOLEAN, priors \in Nat,
           status \in {"completed", "degraded", "failed"} :
        /\ framework = MergedRun(goal, active, priors, status, refs, mems, prfs, failed)
        /\ status = "completed" => WellProven("turn", active, refs, mems, prfs, failed)
        /\ status = "failed" => failed
  BY <1>1
<1>3. /\ framework.status = status /\ framework.active = active /\ framework.planFailed = failed
      /\ framework.proofs = prfs /\ framework.reflections = refs /\ framework.memories = mems
  BY <1>2, RunFields
<1>4. ProvenAt("turn") = <<<<"plan", "verified">>, <<"reflection", "pending">>, <<"execution", "verified">>>>
      /\ LearnedAt("turn") = 1
  BY DEF ProvenAt, LearnedAt
<1>5. framework.status = "completed" =>
        /\ framework.active /\ ~framework.planFailed /\ framework.proofs = ProvenAt("turn")
        /\ framework.reflections = 1 /\ framework.memories = 1
  BY <1>2, <1>3, <1>4 DEF WellProven
<1>6. framework.status = "failed" => framework.planFailed BY <1>2, <1>3
<1> QED BY <1>4, <1>5, <1>6 DEF CompletedRunsAreProven

LEMMA AgentStep ==
  ASSUME AgentSound, [AgentNext]_agentVars
  PROVE  AgentSound'
<1>1. CASE UNCHANGED agentVars BY <1>1 DEF AgentSound, agentVars
<1>2. ASSUME NEW goal \in SUBSET Patterns, NEW active \in BOOLEAN, TurnBegins(goal, active)
      PROVE  AgentSound'
  BY <1>2, TurnSound
<1>3. ASSUME NEW outcome \in Outcomes, NEW saved \in BOOLEAN, NEW ok \in BOOLEAN,
             PlanMerged(outcome) \/ ReflectionMerged(outcome, saved, ok) \/ ExecutionMerged(outcome, ok)
      PROVE  AgentSound' BY PlanSound, ReflectionSound, ExecutionSound, <1>3
<1> QED BY <1>1, <1>2, <1>3 DEF AgentNext

\* Whatever the goals, sessions and lessons and whichever phases fail: no
\* tool that needs the session succeeds without it, roles keep to what
\* they may, lessons and a session never lower what is planned or judged,
\* and a completed run has every proof.
THEOREM RunsAreAlwaysEarned == OperationsSpec => []RunsAreEarned
<1>1. OperationsInit => AgentSound
 <2> SUFFICES ASSUME AgentInit
              PROVE  AgentSound
   BY DEF OperationsInit
 <2>1. framework = NoFramework /\ lessonsKept = 0 /\ turnPhase = "turn" /\ degradedTurn \in BOOLEAN BY DEF AgentInit
 <2> QED BY <2>1 DEF AgentSound
<1>2. AgentSound /\ [OperationsNext]_operationsVars => AgentSound'
 <2> SUFFICES ASSUME AgentSound, [OperationsNext]_operationsVars
              PROVE  AgentSound'
   OBVIOUS
 <2>1. [AgentNext]_agentVars BY DEF OperationsNext, ClientNext, ServiceNext, operationsVars, serviceVars
 <2> QED BY <2>1, AgentStep
<1>3. AgentSound => RunsAreEarned BY ToolsNeedSession, RolesKept, LearningHelps, CompletedProven DEF RunsAreEarned
<1> QED BY <1>1, <1>2, <1>3, PTL DEF OperationsSpec
=============================================================================
