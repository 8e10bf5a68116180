----------------------------- MODULE DaoService -----------------------------
(***************************************************************************)
(* The server's governance service over its store. JavaScript runs one     *)
(* stretch of a handler at a time; a handler gives way only where it awaits *)
(* the store's persist, which happens after the store's memory has changed. *)
(* An action is one such stretch: the handler's start, or what it does      *)
(* after one of its awaits. req[r].at names the await request r is in       *)
(* ("idle": no request), the other fields are the locals it still needs.    *)
(* A persist that rejects ends the request and undoes nothing.             *)
(***************************************************************************)
EXTENDS Naturals, Sequences, FiniteSets, Functions, TLC

CONSTANTS
  Wallets, ProposalIds,
  Requests,       \* HTTP requests the server may be serving at once
  Stakes, Reputations, MinStake,
  Actives,        \* the active flags a member's update may carry
  Ballots,        \* the choices that are voted
  Amounts,        \* amountLamports of a proposal
  QuorumBps, ThresholdBps, BpsScale,
  Failures,       \* whether persists may reject (a set of BOOLEANs)
  Patience,       \* whether clients wait for the answer to the request before (a set of BOOLEANs)
  MaxVoters,      \* bound: votes tallied per proposal
  MaxReceipts     \* bound: execution receipts per proposal

VoteChoice == {"yes", "no", "abstain", "veto"}
ProposalKind == {"treasury_spend", "text"}

ASSUME ServiceAssumption ==
  /\ IsFiniteSet(Wallets) /\ IsFiniteSet(ProposalIds) /\ IsFiniteSet(Requests)
  /\ Stakes \subseteq Nat /\ Reputations \subseteq Nat /\ Amounts \subseteq Nat
  /\ {MinStake, QuorumBps, ThresholdBps, MaxVoters, MaxReceipts} \subseteq Nat
  /\ BpsScale \in Nat \ {0} /\ QuorumBps <= BpsScale
  /\ Actives \subseteq BOOLEAN /\ Ballots \subseteq VoteChoice
  /\ Failures \subseteq BOOLEAN /\ Patience \subseteq BOOLEAN

VARIABLES
  member,      \* state.members (stake, reputation, power, active)
  proposal,    \* state.proposals ("none": absent)
  delegation,  \* the active row of state.delegations for each wallet
  ledger,      \* state.voteLedger of each proposal, in the order appended
  receipts,    \* how many of state.executionReceipts name the proposal
  spend,       \* state.config.totalTreasurySpend
  discovery,   \* the status in the proposal's row of state.discovery
  lessons,     \* the outcomes in state.governanceMemory of each proposal
  council,     \* proposals with rows in state.agentRecommendations
  reused,      \* the ids that a second create request has carried
  req,         \* the requests being served
  patient,     \* the clients of this behaviour wait for one another
  failing      \* the persists of this behaviour may reject

store == <<member, proposal, delegation, ledger, receipts, spend, discovery,
           lessons, council, reused>>
vars == <<store, req, patient, failing>>

NoMember == [joined |-> FALSE, active |-> FALSE, stake |-> 0, reputation |-> 0,
             votingPower |-> 0]
NoDelegation == [active |-> FALSE, to |-> CHOOSE w \in Wallets : TRUE, weight |-> 0]
NoVotes == [c \in VoteChoice |-> 0]
NoProposal == [status |-> "none", kind |-> "text", amount |-> 0, tally |-> NoVotes,
               totalVotes |-> 0, voterCount |-> 0, executedAt |-> FALSE]
Idle == [at |-> "idle"]

Init ==
  /\ member = [w \in Wallets |-> NoMember]
  /\ proposal = [p \in ProposalIds |-> NoProposal]
  /\ delegation = [w \in Wallets |-> NoDelegation]
  /\ ledger = [p \in ProposalIds |-> <<>>]
  /\ receipts = [p \in ProposalIds |-> 0]
  /\ spend = 0
  /\ discovery = [p \in ProposalIds |-> "none"]
  /\ lessons = [p \in ProposalIds |-> {}]
  /\ council = {} /\ reused = {}
  /\ req = [r \in Requests |-> Idle]
  /\ patient \in Patience /\ failing \in Failures

Awaits(r, locals) == req' = [req EXCEPT ![r] = locals]
LastAwait(r) == Awaits(r, [at |-> "return"])

----------------------------------------
(* Members and delegations: one change, then the await of its persist.     *)

RegisterMember(r, w, stake, reputation) ==
  /\ req[r] = Idle
  /\ stake >= MinStake
  /\ member' = [member EXCEPT ![w] =
       [joined |-> TRUE, active |-> TRUE, stake |-> stake,
        reputation |-> reputation, votingPower |-> stake + reputation * 10]]
  /\ LastAwait(r)
  /\ UNCHANGED <<proposal, delegation, ledger, receipts, spend, discovery, lessons, council, reused>>

UpdateMember(r, w, stake, reputation, active) ==
  /\ req[r] = Idle
  /\ member[w].joined
  /\ member' = [member EXCEPT ![w] =
       [joined |-> TRUE, active |-> active, stake |-> stake,
        reputation |-> reputation, votingPower |-> stake + reputation * 10]]
  /\ LastAwait(r)
  /\ UNCHANGED <<proposal, delegation, ledger, receipts, spend, discovery, lessons, council, reused>>

(* appendDelegation revokes the wallet's active row and adds the new one,  *)
(* whose weight is the member's own power at this moment.                  *)
DelegateVotePower(r, from, to) ==
  /\ req[r] = Idle
  /\ member[from].active /\ member[to].active
  /\ from # to
  /\ delegation' = [delegation EXCEPT ![from] =
       [active |-> TRUE, to |-> to, weight |-> member[from].votingPower]]
  /\ LastAwait(r)
  /\ UNCHANGED <<member, proposal, ledger, receipts, spend, discovery, lessons, council, reused>>

(* Persists only when it revoked a row.                                    *)
RevokeDelegate(r, from) ==
  /\ req[r] = Idle
  /\ delegation[from].active
  /\ delegation' = [delegation EXCEPT ![from] = NoDelegation]
  /\ LastAwait(r)
  /\ UNCHANGED <<member, proposal, ledger, receipts, spend, discovery, lessons, council, reused>>

Delegators(w) == {d \in Wallets : delegation[d].active /\ delegation[d].to = w}

EffectiveVotingPower(w) ==
  IF ~member[w].active \/ delegation[w].active THEN 0
  ELSE member[w].votingPower + SumFunction([d \in Delegators(w) |-> delegation[d].weight])

----------------------------------------
(* Proposals. The id comes from the client, which keeps it for a second    *)
(* try: the row is put in place of whatever has that id, its votes in the   *)
(* ledger, its receipts and its requests under way staying as they are.    *)

CreateProposal(r, p, kind, amount) ==
  /\ req[r] = Idle
  /\ reused' = IF proposal[p].status = "none" THEN reused ELSE reused \cup {p}
  /\ proposal' = [proposal EXCEPT ![p] =
       [NoProposal EXCEPT !.status = "active", !.kind = kind, !.amount = amount]]
  /\ Awaits(r, [at |-> "create.proposal", p |-> p])
  /\ UNCHANGED <<member, delegation, ledger, receipts, spend, discovery, lessons, council>>

CreateRecommendations(r) ==
  /\ req[r].at = "create.proposal"
  /\ council' = council \cup {req[r].p}
  /\ LastAwait(r)
  /\ UNCHANGED <<member, proposal, delegation, ledger, receipts, spend, discovery, lessons, reused>>

AlreadyVoted(p, w, c) == \E i \in DOMAIN ledger[p] : ledger[p][i].wallet = w

WithVote(prop, c, weight) ==
  [prop EXCEPT !.tally[c] = @ + weight, !.totalVotes = @ + weight,
               !.voterCount = @ + 1]

TakesVotes(p) == proposal[p].status = "active"

CastVote(r, p, w, c) ==
  /\ req[r] = Idle
  /\ proposal[p].status # "none" /\ member[w].joined
  /\ TakesVotes(p)
  /\ ~AlreadyVoted(p, w, c)
  /\ EffectiveVotingPower(w) > 0
  /\ proposal[p].voterCount < MaxVoters
  /\ LET weight == EffectiveVotingPower(w)
     IN /\ proposal' = [proposal EXCEPT ![p] = WithVote(@, c, weight)]
        /\ Awaits(r, [at |-> "vote.tally", p |-> p,
                      row |-> [wallet |-> w, choice |-> c, weight |-> weight]])
  /\ UNCHANGED <<member, delegation, ledger, receipts, spend, discovery, lessons, council, reused>>

VoteLedger(r) ==
  /\ req[r].at = "vote.tally"
  /\ ledger' = [ledger EXCEPT ![req[r].p] = Append(@, req[r].row)]
  /\ LastAwait(r)
  /\ UNCHANGED <<member, proposal, delegation, receipts, spend, discovery, lessons, council, reused>>

ParticipationBps(prop) ==
  LET members == Cardinality({w \in Wallets : member[w].active})
  IN IF members > 0 THEN (prop.voterCount * BpsScale) \div members ELSE 0

ApprovalBps(prop) ==
  LET denom == prop.tally["yes"] + prop.tally["no"] + prop.tally["veto"]
  IN IF denom > 0 THEN (prop.tally["yes"] * BpsScale) \div denom ELSE 0

Passed(prop) ==
  /\ ParticipationBps(prop) >= QuorumBps
  /\ ApprovalBps(prop) >= ThresholdBps

(* Fault: finalizing starts the execution fields afresh *)
FinalizedAfresh(prop, passed) ==
  [prop EXCEPT !.status = IF passed THEN "succeeded" ELSE "defeated",
               !.executedAt = FALSE]

Finalized(prop, passed) ==
  [prop EXCEPT !.status = IF passed THEN "succeeded" ELSE "defeated"]

(* Nothing asks what the status was: a proposal is finalized at any time   *)
(* and any number of times.                                                *)
FinalizeProposal(r, p) ==
  /\ req[r] = Idle
  /\ proposal[p].status # "none"
  /\ LET passed == Passed(proposal[p])
         next == Finalized(proposal[p], passed)
     IN /\ proposal' = [proposal EXCEPT ![p] = next]
        /\ Awaits(r, [at |-> "finalize.proposal", p |-> p, passed |-> passed,
                      status |-> next.status, was |-> proposal[p].status])
  /\ UNCHANGED <<member, delegation, ledger, receipts, spend, discovery, lessons, council, reused>>

RowStatus(locals) == locals.status

FinalizeDiscovery(r) ==
  /\ req[r].at = "finalize.proposal"
  /\ discovery' = [discovery EXCEPT ![req[r].p] = RowStatus(req[r])]
  /\ IF req[r].passed THEN LastAwait(r)
     ELSE Awaits(r, [req[r] EXCEPT !.at = "finalize.discovery"])
  /\ UNCHANGED <<member, proposal, delegation, ledger, receipts, spend, lessons, council, reused>>

FinalizeMemory(r) ==
  /\ req[r].at = "finalize.discovery"
  /\ lessons' = [lessons EXCEPT ![req[r].p] = @ \cup {"rejected"}]
  /\ LastAwait(r)
  /\ UNCHANGED <<member, proposal, delegation, ledger, receipts, spend, discovery, council, reused>>

(* Fault: only the status is looked at *)
JustPassed(prop) == prop.status = "succeeded"

Executable(prop) == prop.status = "succeeded" /\ ~prop.executedAt

(* The checks and the execution receipt; the proposal read here is the one *)
(* written back after the await.                                           *)
ExecuteReceipt(r, p) ==
  /\ req[r] = Idle
  /\ Executable(proposal[p])
  /\ receipts[p] < MaxReceipts
  /\ receipts' = [receipts EXCEPT ![p] = @ + 1]
  /\ Awaits(r, [at |-> "execute.receipt", p |-> p, read |-> proposal[p]])
  /\ UNCHANGED <<member, proposal, delegation, ledger, spend, discovery, lessons, council, reused>>

ExecuteProposal(r) ==
  /\ req[r].at = "execute.receipt"
  /\ proposal' = [proposal EXCEPT ![req[r].p] =
       [req[r].read EXCEPT !.status = "executed", !.executedAt = TRUE]]
  /\ Awaits(r, [req[r] EXCEPT !.at = "execute.proposal"])
  /\ UNCHANGED <<member, delegation, ledger, receipts, spend, discovery, lessons, council, reused>>

(* Fault: every executed amount is counted as a treasury spend *)
AnyAmount(prop) == prop.amount

SpentBy(prop) == IF prop.kind = "treasury_spend" THEN prop.amount ELSE 0

(* Only a positive treasury spend is written, and awaited.                 *)
ExecuteSpend(r) ==
  /\ req[r].at = "execute.proposal"
  /\ SpentBy(req[r].read) > 0
  /\ spend' = spend + SpentBy(req[r].read)
  /\ Awaits(r, [req[r] EXCEPT !.at = "execute.spend"])
  /\ UNCHANGED <<member, proposal, delegation, ledger, receipts, discovery, lessons, council, reused>>

ExecuteMemory(r) ==
  /\ \/ req[r].at = "execute.spend"
     \/ req[r].at = "execute.proposal" /\ SpentBy(req[r].read) = 0
  /\ lessons' = [lessons EXCEPT ![req[r].p] = @ \cup {"executed"}]
  /\ LastAwait(r)
  /\ UNCHANGED <<member, proposal, delegation, ledger, receipts, spend, discovery, council, reused>>

----------------------------------------
Return(r) ==
  /\ req[r].at = "return"
  /\ req' = [req EXCEPT ![r] = Idle]
  /\ UNCHANGED store

(* mkdir or writeFile rejects: the handler throws out of its await.        *)
PersistRejects(r) ==
  /\ failing
  /\ req[r] # Idle
  /\ req' = [req EXCEPT ![r] = Idle]
  /\ UNCHANGED store

Started(r) ==
  \/ \E w \in Wallets, stake \in Stakes, reputation \in Reputations :
       \/ RegisterMember(r, w, stake, reputation)
       \/ \E active \in Actives : UpdateMember(r, w, stake, reputation, active)
  \/ \E from, to \in Wallets : DelegateVotePower(r, from, to)
  \/ \E from \in Wallets : RevokeDelegate(r, from)
  \/ \E p \in ProposalIds :
       \/ \E kind \in ProposalKind, amount \in Amounts : CreateProposal(r, p, kind, amount)
       \/ \E w \in Wallets, c \in Ballots : CastVote(r, p, w, c)
       \/ FinalizeProposal(r, p)
       \/ ExecuteReceipt(r, p)

Start(r) ==
  /\ patient => \A other \in Requests : req[other] = Idle
  /\ Started(r)

Resume(r) ==
  \/ CreateRecommendations(r)
  \/ VoteLedger(r)
  \/ FinalizeDiscovery(r)
  \/ FinalizeMemory(r)
  \/ ExecuteProposal(r)
  \/ ExecuteSpend(r)
  \/ ExecuteMemory(r)
  \/ Return(r)
  \/ PersistRejects(r)

Next == (\E r \in Requests : Start(r) \/ Resume(r)) /\ UNCHANGED <<patient, failing>>

Spec == Init /\ [][Next]_vars

----------------------------------------
At(r, place, p) == req[r].at = place /\ req[r].p = p

WeightFor(row, c) == IF row.choice = c THEN row.weight ELSE 0

(* The weight of the ledger's rows for a choice on a proposal.             *)
Recorded(p, c) == SumFunction([i \in DOMAIN ledger[p] |-> WeightFor(ledger[p][i], c)])

(* The weight tallied by votes that have not reached the ledger yet.       *)
Unrecorded(p, c) ==
  SumFunction([r \in Requests |->
                 IF At(r, "vote.tally", p) THEN WeightFor(req[r].row, c) ELSE 0])

(* castVote tallies before it records and executeProposal writes back a    *)
(* proposal it read before an await; even so, however requests interleave, *)
(* each tally is the ledger's weight plus that of the votes still to be    *)
(* recorded, and it is never less when a persist fails in between.  A      *)
(* second create of an id starts its tally afresh, and an execution under  *)
(* way may write the old one back: the tally then is at most that weight.  *)
TallyAccountsForVotes ==
  \A p \in ProposalIds, c \in VoteChoice :
    LET accounted == Recorded(p, c) + Unrecorded(p, c)
    IN /\ ~failing => proposal[p].tally[c] <= accounted
       /\ p \notin reused => proposal[p].tally[c] >= accounted

(* The step puts a new proposal in place of the one that has the id.       *)
Overwrites(p) ==
  /\ proposal[p].status # "none"
  /\ \E r \in Requests : req[r] = Idle /\ At(r, "create.proposal", p)'

(* A second create excuses what it takes away itself and, unless clients    *)
(* wait, what the requests that read the old proposal then write.          *)
Excused(p) == p \in reused' /\ (patient => Overwrites(p))

(* Once a proposal has been finalized no request but a second create of its *)
(* id changes its tallies, not even the late write of an execution that    *)
(* read it earlier.                                                        *)
TallyFrozen ==
  [][\A p \in ProposalIds :
       proposal[p].status \notin {"none", "active"} =>
         Excused(p) \/ proposal'[p].tally = proposal[p].tally]_vars

(* An executed proposal may be finalized again, which reopens its status,  *)
(* but it stays marked as executed.                                        *)
ExecutionIsPermanent ==
  [][\A p \in ProposalIds :
       proposal[p].executedAt => Excused(p) \/ proposal'[p].executedAt]_vars

Amount(p) == IF proposal[p].kind = "treasury_spend" THEN proposal[p].amount ELSE 0

Owes(r, p) == At(r, "execute.receipt", p) \/ At(r, "execute.proposal", p)

Unspent(p) == Cardinality({r \in Requests : Owes(r, p)}) * Amount(p)

(* executeProposal counts the spend two awaits after its receipt: no       *)
(* interleaving of executions loses an amount or counts one without a      *)
(* receipt. When persists fail the total may only lag behind.  (A second   *)
(* create puts another amount in place of the one that was spent.)         *)
SpendRestsOnReceipts ==
  LET due == SumFunction([p \in ProposalIds |-> receipts[p] * Amount(p)])
      pending == SumFunction([p \in ProposalIds |-> Unspent(p)])
  IN reused = {} =>
       IF failing THEN spend + pending <= due ELSE spend + pending = due

Power == SumFunction([w \in Wallets |-> member[w].votingPower])

(* While no power has changed since it was delegated, the powers that votes *)
(* would have now never sum to more than the members hold: no chain, circle *)
(* or change of delegations, and no departure, gives one power to two.     *)
PowerHeldOnce ==
  (\A w \in Wallets : delegation[w].active => delegation[w].weight = member[w].votingPower)
    => SumFunction([w \in Wallets |-> EffectiveVotingPower(w)]) <= Power

(* What the delegation panel tells members: delegating transfers their     *)
(* power, which is then no longer theirs to vote with.  What is tallied on *)
(* a proposal is at most the power the members hold.                       *)
PowerVotedOnce == \A p \in ProposalIds : proposal[p].totalVotes <= Power

(* What daoService.test.ts expects of castVote: a wallet's second vote on  *)
(* a proposal is refused.                                                  *)
OneVotePerWallet ==
  \A p \in ProposalIds : \A i, j \in DOMAIN ledger[p] :
    ledger[p][i].wallet = ledger[p][j].wallet => i = j

(* When clients wait for one another it is refused.                        *)
OneVoteEach == patient => OneVotePerWallet

ExecutedAmounts ==
  SumFunction([p \in ProposalIds |-> IF proposal[p].executedAt THEN Amount(p) ELSE 0])

(* And an execution has one receipt and its amount is counted once,        *)
(* whatever finalizations come between, unless its id is created again.    *)
ExecutedOnce ==
  patient =>
    /\ \A p \in ProposalIds \ reused : ~failing => receipts[p] <= 1
    /\ reused = {} => spend <= ExecutedAmounts

(* And, no persist failing, the discovery row carries the verdict of the   *)
(* last finalization once it has returned.                                 *)
DiscoveryFollows ==
  \A p \in ProposalIds :
    (/\ patient /\ ~failing
     /\ proposal[p].status \in {"succeeded", "defeated"}
     /\ \A r \in Requests : req[r].at # "finalize.proposal")
      => discovery[p] = proposal[p].status

----------------------------------------
(* What the dashboard is shown of the service: the statuses, stages,       *)
(* weights and buttons that governanceMapper.ts and the panels derive from *)
(* the store on each request.  The dashboard creates every proposal with   *)
(* the configuration's quorum and threshold.                               *)

(* Fault: members that left are eligible too *)
AllMembers == Cardinality({w \in Wallets : member[w].joined})

Eligible == Cardinality({w \in Wallets : member[w].active})

(* participationBpsFromCounts of at least one member, at most the scale.   *)
ShownParticipation(prop) ==
  LET eligible == IF Eligible = 0 THEN 1 ELSE Eligible
      voters == IF prop.voterCount < eligible THEN prop.voterCount ELSE eligible
  IN (voters * BpsScale) \div eligible

CanonicalStatus(prop) ==
  CASE prop.status = "executed"  -> "executed"
    [] prop.status = "succeeded" -> "approved"
    [] prop.status = "defeated"  -> "rejected"
    [] OTHER -> IF ShownParticipation(prop) >= QuorumBps THEN "quorum_reached" ELSE "voting"

Open(prop) == CanonicalStatus(prop) \in {"voting", "quorum_reached"}

(* The buttons of the vote panel, on a payload that is not stale.          *)
VoteEnabled(w, p) ==
  /\ proposal[p].status # "none"
  /\ Open(proposal[p])
  /\ EffectiveVotingPower(w) > 0

(* The stages of a proposal that are done. The timeline is built of the    *)
(* first open proposal only, so it never shows the last three as done.     *)
StagesDone(prop) ==
  {"draft", "agents", "publish"}
    \cup (IF \E c \in VoteChoice : prop.tally[c] > 0 THEN {"vote"} ELSE {})
    \cup (IF ShownParticipation(prop) >= QuorumBps THEN {"quorum"} ELSE {})
    \cup (IF CanonicalStatus(prop) \in {"approved", "rejected", "executed"} THEN {"finalize"} ELSE {})
    \cup (IF CanonicalStatus(prop) = "executed" THEN {"execute", "memory"} ELSE {})

----------------------------------------
(* The dashboard computes participation anew, with a floor of one member   *)
(* and a cap that finalizeProposal does not have.  Even so, through joins,  *)
(* departures and votes of members who have left since, it shows a quorum  *)
(* as reached exactly when a finalization would find it reached, unless    *)
(* nobody is active.                                                       *)
QuorumShownIsJudged ==
  \A p \in ProposalIds :
    (proposal[p].status = "active" /\ Eligible > 0) =>
      LET judged == ParticipationBps(proposal[p]) >= QuorumBps
      IN /\ (CanonicalStatus(proposal[p]) = "quorum_reached") = judged
         /\ ("quorum" \in StagesDone(proposal[p])) = judged

(* The vote buttons are enabled for exactly the wallets whose vote castVote *)
(* counts, but for the limit of one vote each, which the panel does not    *)
(* know: whatever was delegated, updated, finalized or executed before.    *)
ButtonsMatchService ==
  \A p \in ProposalIds, w \in Wallets :
    VoteEnabled(w, p) = (TakesVotes(p) /\ member[w].joined /\ EffectiveVotingPower(w) > 0)

(* However requests interleave at the awaits of daoService.ts and whatever *)
(* persist fails, no tallied weight and no spend is lost or counted twice. *)
NothingIsLost ==
    /\ TallyAccountsForVotes
    /\ SpendRestsOnReceipts

(* What daoService.ts promises to clients that wait for one another.       *)
PromisesInTurn ==
    /\ OneVoteEach
    /\ ExecutedOnce
    /\ DiscoveryFollows
    /\ PowerHeldOnce

(* No request of daoService.ts takes back what was decided or done.        *)
VerdictsStand ==
    /\ TallyFrozen
    /\ ExecutionIsPermanent

(* The dashboard shows and offers what the service would judge and take.   *)
ShownAsJudged ==
    /\ QuorumShownIsJudged
    /\ ButtonsMatchService

----------------------------------------
(* For TLC.                                                                *)

(* Requests are compared for equality only (and wallets too, but for the   *)
(* placeholder of NoDelegation).                                           *)
RequestSymmetry == Permutations(Requests)

(* Members are made inactive where requests wait and persists succeed. An   *)
(* id is created twice at most, again as a spend, once the wallets are all *)
(* active members that delegate nothing, and not where persists fail and   *)
(* requests overlap.                                                       *)
SmallNext ==
  /\ Next
  /\ reused' # {} =>
       /\ failing => patient
       /\ \A p \in reused : ~Overwrites(p)
       /\ \A p \in reused' : proposal'[p].kind = "treasury_spend"
       /\ \A w \in Wallets : member'[w].active /\ ~delegation'[w].active
  /\ (patient /\ ~failing) \/ \A w \in Wallets : member'[w].joined = member'[w].active

SmallSpec == Init /\ [][SmallNext]_vars
=============================================================================
