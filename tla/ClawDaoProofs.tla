---------------------------- MODULE ClawDaoProofs ----------------------------
\* Theorems about the DAO program, for every value of its constants: its
\* accounts keep their types and its books balance; its verdicts follow
\* from the counters, and each proposal implements the abstract Ballot;
\* the counters are the sums of the vote records, of the members and of
\* the proposals paid; and, at the end, its discovery rows are pictures of
\* proposals, whose rank no yes vote lowers.
EXTENDS ClawDaoDiscovery, SumTheorems

----
\* The arithmetic of the instructions, for every width of the integers and
\* every scale.

\* A plain addition whose sum is a u64 does not wrap.
LEMMA WrappingAddFits ==
  ASSUME NEW a \in Nat, NEW b \in Nat, a + b <= U64Max
  PROVE  WrappingAdd(a, b) = a + b
<1>1. \A s \in Nat, m \in Nat : s < m => s % m = s OBVIOUS
<1>2. a + b \in Nat /\ U64Max + 1 \in Nat /\ a + b < U64Max + 1 BY NumbersAssumption
<1>3. QED BY <1>1, <1>2 DEF WrappingAdd

\* The ratio never overstates: if its basis points reach t, then the
\* numerator really is at least t parts of the whole denominator, however
\* the product saturated and the quotient was rounded.
THEOREM BpsNeverOverstates ==
  ASSUME NEW n \in Nat, NEW d \in Nat \ {0}, NEW t \in Nat, BpsFromRatio(n, d) >= t
  PROVE  n * BpsScale >= t * d
<1> DEFINE s == SaturatingMul(n, BpsScale)
           q == s \div d
<1>1. n * BpsScale \in Nat BY NumbersAssumption
<1>2. s \in Nat /\ s <= n * BpsScale BY <1>1, NumbersAssumption DEF SaturatingMul, Lesser
<1>3. q \in Nat /\ q * d <= s BY <1>2, QuotientBound
<1>4. t <= q BY <1>3, NumbersAssumption DEF BpsFromRatio, Lesser
<1>5. t * d <= q * d BY <1>3, <1>4, ProductMonotone
<1>6. t * d \in Nat /\ q * d \in Nat BY <1>3
<1> HIDE DEF s, q
<1>7. QED BY <1>1, <1>2, <1>3, <1>5, <1>6

\* A ratio is at most the whole.
LEMMA BpsAtMostWhole ==
  ASSUME NEW n \in Nat, NEW d \in Nat
  PROVE  BpsFromRatio(n, d) \in 0 .. BpsScale
<1>1. n * BpsScale \in Nat BY NumbersAssumption
<1>2. SaturatingMul(n, BpsScale) \in Nat BY <1>1, NumbersAssumption DEF SaturatingMul, Lesser
<1>3. d # 0 => SaturatingMul(n, BpsScale) \div d \in Nat BY <1>2, QuotientBound
<1>4. QED BY <1>3, NumbersAssumption DEF BpsFromRatio, Lesser

\* And where the product does not saturate the ratio decides exactly.
THEOREM BpsExactUnsaturated ==
  ASSUME NEW n \in Nat, NEW d \in Nat \ {0}, NEW t \in 0 .. BpsScale,
         n * BpsScale <= U64Max
  PROVE  BpsFromRatio(n, d) >= t <=> n * BpsScale >= t * d
<1> DEFINE s == n * BpsScale
           q == s \div d
<1>1. s \in Nat /\ SaturatingMul(n, BpsScale) = s BY NumbersAssumption DEF SaturatingMul, Lesser
<1>2. q \in Nat /\ q * d <= s BY <1>1, QuotientBound
<1>3. s < (q + 1) * d BY <1>1
<1>4. ASSUME s >= t * d PROVE t <= q
 <2>1. SUFFICES ASSUME q + 1 <= t PROVE FALSE BY <1>2, NumbersAssumption
 <2>2. (q + 1) * d <= t * d BY <1>2, <2>1, ProductMonotone
 <2>3. t * d \in Nat /\ (q + 1) * d \in Nat BY <1>2
 <2> HIDE DEF s, q
 <2>4. QED BY <1>1, <1>3, <1>4, <2>2, <2>3
<1>5. BpsFromRatio(n, d) = Lesser(q, BpsScale) BY <1>1 DEF BpsFromRatio
<1>6. t <= q => BpsFromRatio(n, d) >= t BY <1>2, <1>5, NumbersAssumption DEF Lesser
<1>7. QED BY <1>4, <1>6, BpsNeverOverstates

----
\* The sum of weights.

LEMMA WeightOfNone == WeightOf({}) = 0
<1>1. Units({}) = {} BY DEF Units
<1>2. QED BY <1>1, FS_EmptySet DEF WeightOf

LEMMA UnitsFinite ==
  ASSUME NEW S, IsFiniteSet(S)
  PROVE  IsFiniteSet(Units(S))
<1>1. IsFiniteSet(1 .. U64Max) BY NumbersAssumption, FS_Interval
<1>2. IsFiniteSet(S \X (1 .. U64Max)) BY <1>1, FS_Product
<1>3. Units(S) \in SUBSET (S \X (1 .. U64Max)) BY DEF Units
<1>4. QED BY <1>2, <1>3, FS_Subset

LEMMA WeightOfType ==
  ASSUME NEW S, IsFiniteSet(S)
  PROVE  WeightOf(S) \in Nat
BY UnitsFinite, FS_CardinalityType DEF WeightOf

\* The units of one record are as many as its weight.
LEMMA UnitsOfOne ==
  ASSUME NEW v, v.weight \in U64
  PROVE  WeightOf({v}) = v.weight
<1> DEFINE n == v.weight
           f == [i \in 1 .. n |-> <<v, i>>]
<1>1. n \in Nat /\ n <= U64Max BY NumbersAssumption DEF U64
<1>2. IsFiniteSet(1 .. n) /\ Cardinality(1 .. n) = n
 <2> HIDE DEF n
 <2>1. n \in Int /\ 1 \in Int BY <1>1
 <2>2. /\ IsFiniteSet(1 .. n)
       /\ Cardinality(1 .. n) = IF 1 > n THEN 0 ELSE n - 1 + 1
   BY <2>1, FS_Interval
 <2>3. QED BY <1>1, <2>2
<1>3. \A u \in Units({v}) : u = <<v, u[2]>> /\ u[2] \in 1 .. n BY <1>1 DEF Units
<1>4. \A i \in 1 .. n : <<v, i>> \in Units({v}) BY <1>1, NumbersAssumption DEF Units
<1>5. f \in Bijection(1 .. n, Units({v}))
 <2>1. f \in [1 .. n -> Units({v})] BY <1>4
 <2>2. \A i, j \in 1 .. n : f[i] = f[j] => i = j OBVIOUS
 <2>3. \A u \in Units({v}) : \E i \in 1 .. n : f[i] = u BY <1>3
 <2> HIDE DEF f, n
 <2>4. QED BY <2>1, <2>2, <2>3 DEF Bijection, Injection, Surjection, IsInjective
<1>6. ExistsBijection(1 .. n, Units({v})) BY <1>5 DEF ExistsBijection
<1>7. QED BY <1>2, <1>6, FS_Bijection DEF WeightOf

\* A record more adds its weight.
LEMMA WeightOfMore ==
  ASSUME NEW S, IsFiniteSet(S), NEW v, v \notin S, v.weight \in U64
  PROVE  WeightOf(S \cup {v}) = WeightOf(S) + v.weight
<1>1. Units(S \cup {v}) = Units(S) \cup Units({v}) BY DEF Units
<1>2. Units(S) \cap Units({v}) = {} BY DEF Units
<1>3. IsFiniteSet({v}) BY FS_Singleton
<1>4. IsFiniteSet(Units(S)) /\ IsFiniteSet(Units({v})) BY <1>3, UnitsFinite
<1>5. /\ Cardinality(Units(S)) \in Nat /\ Cardinality(Units({v})) \in Nat
      /\ Cardinality(Units(S) \cap Units({v})) = 0
  BY <1>2, <1>4, FS_CardinalityType, FS_EmptySet
<1>6. Cardinality(Units(S) \cup Units({v}))
        = Cardinality(Units(S)) + Cardinality(Units({v}))
            - Cardinality(Units(S) \cap Units({v}))
  BY <1>4, FS_Union
<1>7. WeightOf(S \cup {v}) = WeightOf(S) + WeightOf({v})
 <2>1. WeightOf(S \cup {v}) = Cardinality(Units(S) \cup Units({v})) BY <1>1 DEF WeightOf
 <2>2. WeightOf(S) = Cardinality(Units(S)) /\ WeightOf({v}) = Cardinality(Units({v})) BY DEF WeightOf
 <2>3. QED BY <1>5, <1>6, <2>1, <2>2
<1>8. QED BY <1>7, UnitsOfOne

----
\* The accounts.

\* A voting power is a u64, whatever the stake and the reputation.
LEMMA VotingPowerType ==
  ASSUME NEW s \in U64, NEW r \in U64
  PROVE  VotingPower(s, r) \in U64
<1>1. s + Lesser(r * 10, U64Max) \in Nat BY NumbersAssumption DEF U64, Lesser
<1>2. QED BY <1>1, NumbersAssumption DEF VotingPower, SaturatingAdd, SaturatingMul, U64, Lesser

\* One more vote whose sums fit keeps a proposal account well typed.
LEMMA TalliedType ==
  ASSUME NEW pr \in DaoProposal, NEW c \in VoteChoice, NEW weight \in U64,
         TallyFits(Tallied(pr, c, weight))
  PROVE  Tallied(pr, c, weight) \in DaoProposal
<1> DEFINE t == Tallied(pr, c, weight)
<1>1. /\ t.yes_votes = IF c = "Yes" THEN pr.yes_votes + weight ELSE pr.yes_votes
      /\ t.no_votes = IF c = "No" THEN pr.no_votes + weight ELSE pr.no_votes
      /\ t.abstain_votes = IF c = "Abstain" THEN pr.abstain_votes + weight
                           ELSE pr.abstain_votes
      /\ t.total_votes = pr.total_votes + weight
      /\ t.voter_count = pr.voter_count + 1
  BY DEF Tallied, DaoProposal
<1>2. /\ t.yes_votes \in U64 /\ t.no_votes \in U64 /\ t.abstain_votes \in U64
      /\ t.total_votes \in U64 /\ t.voter_count \in U64
  BY <1>1, NumbersAssumption DEF TallyFits, Fits, DaoProposal, U64
<1>3. t = [pr EXCEPT !.yes_votes = t.yes_votes, !.no_votes = t.no_votes,
                     !.abstain_votes = t.abstain_votes,
                     !.total_votes = t.total_votes, !.voter_count = t.voter_count]
  BY DEF Tallied, DaoProposal
<1>4. QED BY <1>2, <1>3 DEF DaoProposal

\* Marking a proposal executed keeps its account well typed.
LEMMA ExecutedType ==
  ASSUME NEW pr \in DaoProposal
  PROVE  [pr EXCEPT !.status = "Executed", !.executed = TRUE] \in DaoProposal
BY DEF DaoProposal

LEMMA InitType == Init => TypeOK
BY NumbersAssumption, DaoAssumption
   DEF Init, TypeOK, DaoConfig, DaoTreasury, DaoMember, DaoProposal, DaoVoteRecord,
       NoMember, NoProposal, ProposalKind, U64

\* Every instruction keeps the types, the vault's with the help of the
\* books: it never holds more than was deposited, which is a checked sum.
LEMMA StepType == TypeOK /\ BooksBalance /\ [Next]_vars => TypeOK'
<1> USE NumbersAssumption, DaoAssumption
<1> SUFFICES ASSUME TypeOK, BooksBalance, [Next]_vars PROVE TypeOK' OBVIOUS
<1>1. CASE Tick BY <1>1 DEF Tick, TypeOK, U64
<1>2. ASSUME NEW q \in QuorumBps, NEW t \in ThresholdBps, NEW d \in Durations,
             NEW m \in MinStakes, NEW l \in SpendLimits, InitializeDao(q, t, d, m, l)
      PROVE  TypeOK'
  BY <1>2 DEF InitializeDao, TypeOK, DaoConfig, DaoTreasury, U64
<1>3. ASSUME NEW q \in QuorumBps, NEW t \in ThresholdBps, NEW d \in Durations,
             NEW m \in MinStakes, NEW paused \in BOOLEAN, UpdateDao(paused, q, t, d, m)
      PROVE  TypeOK'
  BY <1>3 DEF UpdateDao, TypeOK, DaoConfig, U64
<1>4. ASSUME NEW w \in Wallets, NEW s \in Stakes, NEW r \in Reputations,
             RegisterMember(w, s, r)
      PROVE  TypeOK'
 <2>1. VotingPower(s, r) \in U64 BY VotingPowerType
 <2> NoMember \in DaoMember BY DEF NoMember, DaoMember, U64
 <2>2. [NoMember EXCEPT !.joined = TRUE, !.active = TRUE, !.stake = s, !.reputation = r,
                        !.voting_power = VotingPower(s, r)] \in DaoMember
   BY <2>1 DEF DaoMember
 <2>3. member' \in [Wallets -> DaoMember] BY <1>4, <2>2 DEF RegisterMember, TypeOK
 <2>4. dao' \in DaoConfig BY <1>4 DEF RegisterMember, TypeOK, DaoConfig, Fits, U64
 <2>5. QED BY <1>4, <2>3, <2>4 DEF RegisterMember, TypeOK
<1>5. ASSUME NEW w \in Wallets, NEW s \in Stakes, NEW r \in Reputations,
             NEW a \in BOOLEAN, UpdateMember(w, s, r, a)
      PROVE  TypeOK'
 <2>1. VotingPower(s, r) \in U64 BY VotingPowerType
 <2>2. [member[w] EXCEPT !.stake = s, !.reputation = r, !.active = a,
                         !.voting_power = VotingPower(s, r)] \in DaoMember
   BY <2>1 DEF TypeOK, DaoMember
 <2>3. QED BY <1>5, <2>2 DEF UpdateMember, TypeOK
<1>6. ASSUME NEW w \in Wallets, NEW p \in ProposalIds, NEW k \in Kinds,
             NEW a \in Amounts, NEW d \in Durations, CreateProposal(w, p, k, a, d)
      PROVE  TypeOK'
 <2> DEFINE end == SaturatingAdd(slot, Greater(d, dao.vote_duration))
 <2>1. end \in U64 BY DEF TypeOK, DaoConfig, SaturatingAdd, Lesser, Greater, U64
 <2> NoProposal \in DaoProposal BY DEF NoProposal, DaoProposal, ProposalKind, U64
 <2>2. [NoProposal EXCEPT !.status = "Active", !.kind = k, !.amount = a, !.end_slot = end,
          !.quorum_bps = dao.quorum_bps,
          !.approval_threshold_bps = dao.proposal_threshold_bps] \in DaoProposal
   BY <2>1 DEF DaoProposal, TypeOK, DaoConfig
 <2>3. proposal' \in [ProposalIds -> DaoProposal] BY <1>6, <2>2 DEF CreateProposal, TypeOK
 <2>4. member' \in [Wallets -> DaoMember] BY <1>6 DEF CreateProposal, TypeOK, DaoMember, Fits, U64
 <2>5. dao' \in DaoConfig BY <1>6 DEF CreateProposal, TypeOK, DaoConfig, Fits, U64
 <2>6. QED BY <1>6, <2>3, <2>4, <2>5 DEF CreateProposal, TypeOK
<1>7. ASSUME NEW p \in ProposalIds, NEW w \in Wallets, NEW c \in VoteChoice,
             CastVote(w, p, c)
      PROVE  TypeOK'
  BY <1>7, TalliedType, SMTT(20)
     DEF CastVote, TypeOK, DaoConfig, DaoMember, DaoVoteRecord, Fits, U64
<1>8. ASSUME NEW p \in ProposalIds, FinalizeProposal(p)
      PROVE  TypeOK'
  BY <1>8 DEF FinalizeProposal, TypeOK, DaoProposal
<1>9. ASSUME NEW p \in ProposalIds, ExecuteProposal(p)
      PROVE  TypeOK'
 <2>1. proposal' \in [ProposalIds -> DaoProposal] BY <1>9, ExecutedType DEF ExecuteProposal, MarkExecuted, TypeOK
 <2>2. dao' \in DaoConfig BY <1>9 DEF ExecuteProposal, Executable, TypeOK, DaoConfig, Fits, U64
 <2>3. QED BY <1>9, <2>1, <2>2 DEF ExecuteProposal, MarkExecuted, TypeOK
<1>10. ASSUME NEW p \in ProposalIds, WithdrawTreasury(p)
       PROVE  TypeOK'
 <2>1. proposal' \in [ProposalIds -> DaoProposal] BY <1>10, ExecutedType DEF WithdrawTreasury, MarkExecuted, TypeOK
 <2>2. proposal[p].amount \in U64 BY DEF TypeOK, DaoProposal
 <2>3. dao' \in DaoConfig
  <3>1. /\ dao.total_executed + 1 \in U64
        /\ dao.total_treasury_spend + proposal[p].amount \in U64
    BY <1>10, <2>2 DEF WithdrawTreasury, Executable, TypeOK, DaoConfig, Fits, U64
  <3>2. dao' = [dao EXCEPT !.total_executed = dao.total_executed + 1,
                  !.total_treasury_spend = dao.total_treasury_spend + proposal[p].amount]
    BY <1>10 DEF WithdrawTreasury
  <3>3. QED BY <3>1, <3>2 DEF TypeOK, DaoConfig
 <2>4. vault' \in U64 /\ treasury' \in DaoTreasury BY <1>10, <2>2 DEF WithdrawTreasury, TypeOK, DaoTreasury, Fits, U64
 <2>5. QED BY <1>10, <2>1, <2>3, <2>4 DEF WithdrawTreasury, MarkExecuted, TypeOK
<1>11. ASSUME NEW a \in Amounts, DepositTreasury(a)
       PROVE  TypeOK'
 <2>1. treasury' \in DaoTreasury BY <1>11 DEF DepositTreasury, TypeOK, DaoTreasury, Fits, U64
 <2>2. vault + a <= treasury.total_deposits + a BY DEF BooksBalance, TypeOK, DaoTreasury, U64
 <2>3. vault' \in U64 BY <1>11, <2>2 DEF DepositTreasury, TypeOK, DaoTreasury, Fits, U64
 <2>4. QED BY <1>11, <2>1, <2>3 DEF DepositTreasury, TypeOK
<1>12. CASE UNCHANGED vars BY <1>12 DEF vars, TypeOK
<1>13. QED
  BY <1>1, <1>2, <1>3, <1>4, <1>5, <1>6, <1>7, <1>8, <1>9, <1>10, <1>11, <1>12
     DEF Next, Configure, Join, Propose, Decide, Deposit

LEMMA StepBooks == TypeOK /\ BooksBalance /\ [Next]_vars => BooksBalance'
<1> SUFFICES ASSUME TypeOK, BooksBalance, [Next]_vars PROVE BooksBalance' OBVIOUS
<1>1. ASSUME NEW q, NEW t, NEW d, NEW m, NEW l, InitializeDao(q, t, d, m, l)
      PROVE  BooksBalance'
  BY <1>1 DEF InitializeDao, BooksBalance, TypeOK, DaoConfig, DaoTreasury
<1>2. ASSUME NEW q, NEW t, NEW d, NEW m, NEW paused, UpdateDao(paused, q, t, d, m)
      PROVE  BooksBalance'
  BY <1>2 DEF UpdateDao, BooksBalance, TypeOK, DaoConfig
<1>3. ASSUME dao'.total_treasury_spend = dao.total_treasury_spend, UNCHANGED <<treasury, vault>>
      PROVE  BooksBalance'
  BY <1>3 DEF BooksBalance
<1>4. ASSUME NEW p \in ProposalIds, WithdrawTreasury(p)
      PROVE  BooksBalance'
 <2>1. proposal[p].amount \in Int /\ vault \in Int BY DEF TypeOK, DaoProposal, U64
 <2>2. /\ treasury'.total_spent = treasury.total_spent + proposal[p].amount
       /\ treasury'.total_deposits = treasury.total_deposits
       /\ dao'.total_treasury_spend = dao.total_treasury_spend + proposal[p].amount
       /\ vault' = vault - proposal[p].amount
   BY <1>4 DEF WithdrawTreasury, TypeOK, DaoTreasury, DaoConfig
 <2>3. QED BY <2>1, <2>2 DEF BooksBalance, TypeOK, DaoTreasury, U64
<1>5. ASSUME NEW a \in Amounts, DepositTreasury(a)
      PROVE  BooksBalance'
  BY <1>5, DaoAssumption DEF DepositTreasury, BooksBalance, TypeOK, DaoTreasury, U64
<1>6. CASE UNCHANGED vars BY <1>6 DEF vars, BooksBalance
<1>7. CASE Tick \/ Join \/ Propose
  BY <1>3, <1>7
     DEF Tick, Join, Propose, RegisterMember, UpdateMember, CreateProposal, TypeOK, DaoConfig
<1>8. ASSUME NEW p \in ProposalIds, NEW w \in Wallets, NEW c \in VoteChoice, CastVote(w, p, c)
      PROVE  BooksBalance'
  BY <1>3, <1>8 DEF CastVote, TypeOK, DaoConfig
<1>9. ASSUME NEW p \in ProposalIds, FinalizeProposal(p) \/ ExecuteProposal(p)
      PROVE  BooksBalance'
  BY <1>3, <1>9 DEF FinalizeProposal, ExecuteProposal, MarkExecuted, TypeOK, DaoConfig
<1>10. QED BY <1>1, <1>2, <1>4, <1>5, <1>6, <1>7, <1>8, <1>9 DEF Next, Configure, Decide, Deposit

\* The accounts and the vault keep their types: every counter the program
\* writes, by a checked, saturating or plain addition, is a u64.
THEOREM TypeCorrect == Spec => []TypeOK
<1>1. Init => TypeOK /\ BooksBalance BY InitType DEF Init, BooksBalance
<1>2. TypeOK /\ BooksBalance /\ [Next]_vars => (TypeOK /\ BooksBalance)' BY StepType, StepBooks
<1>3. QED BY <1>1, <1>2, PTL DEF Spec

\* What was deposited is in the vault or was spent, and the treasury and
\* the config agree on what was spent.
THEOREM BooksAlwaysBalance == Spec => []BooksBalance
<1>1. Init => TypeOK /\ BooksBalance BY InitType DEF Init, BooksBalance
<1>2. TypeOK /\ BooksBalance /\ [Next]_vars => (TypeOK /\ BooksBalance)' BY StepType, StepBooks
<1>3. QED BY <1>1, <1>2, PTL DEF Spec
----

LEMMA InitSound == Init => ProposalsSound
BY DEF Init, ProposalsSound, ProposalSound, NoProposal

\* A proposal whose accounts a step leaves alone stays sound, since the
\* clock only goes forward.
LEMMA UntouchedSound ==
  ASSUME TypeOK, NEW p \in ProposalIds, ProposalSound(p), slot' \in Int, slot <= slot',
         proposal'[p] = proposal[p], votes'[p] = votes[p], execution'[p] = execution[p]
  PROVE  ProposalSound(p)'
<1>1. slot \in Int /\ proposal[p].end_slot \in Int BY DEF TypeOK, DaoProposal, U64
<1>2. QED BY <1>1 DEF ProposalSound

\* Which steps change a proposal's accounts.
LEMMA StepTouches ==
  ASSUME TypeOK, [Next]_vars, NEW p \in ProposalIds
  PROVE  \/ /\ slot' \in Int /\ slot <= slot'
            /\ UNCHANGED <<proposal[p], votes[p], execution[p]>>
         \/ \E w \in Wallets, k \in Kinds, a \in Amounts, d \in Durations :
              CreateProposal(w, p, k, a, d)
         \/ \E w \in Wallets, c \in VoteChoice : CastVote(w, p, c)
         \/ FinalizeProposal(p) \/ ExecuteProposal(p) \/ WithdrawTreasury(p)
<1> DEFINE Untouched == /\ slot' \in Int /\ slot <= slot'
                        /\ UNCHANGED <<proposal[p], votes[p], execution[p]>>
<1> USE DEF U64
<1>1. CASE Tick BY <1>1 DEF Tick, TypeOK
<1>2. CASE Configure \/ Join \/ Deposit
 <2>1. UNCHANGED <<slot, proposal, votes, execution>>
   BY <1>2 DEF Configure, Join, Deposit, InitializeDao, UpdateDao, RegisterMember,
               UpdateMember, DepositTreasury
 <2>2. QED BY <2>1 DEF TypeOK
<1>3. CASE Propose
 <2>1. PICK w \in Wallets, q \in ProposalIds, k \in Kinds, a \in Amounts, d \in Durations :
         CreateProposal(w, q, k, a, d)
   BY <1>3 DEF Propose
 <2>2. CASE q = p
  <3>1. CreateProposal(w, p, k, a, d) BY <2>1, <2>2
  <3>2. QED BY <3>1
 <2>3. CASE q # p
  <3>1. UNCHANGED <<slot, proposal[p], votes[p], execution[p]>> BY <2>1, <2>3 DEF CreateProposal, TypeOK
  <3>2. QED BY <3>1 DEF TypeOK
 <2>4. QED BY <2>2, <2>3
<1>4. CASE Decide
 <2>1. PICK q \in ProposalIds :
         \/ \E w \in Wallets, c \in VoteChoice : CastVote(w, q, c)
         \/ FinalizeProposal(q) \/ ExecuteProposal(q) \/ WithdrawTreasury(q)
   BY <1>4 DEF Decide
 <2>2. CASE q = p BY <2>1, <2>2
 <2>3. CASE q # p
  <3>1. UNCHANGED <<slot, proposal[p], votes[p], execution[p]>>
    BY <2>1, <2>3
       DEF CastVote, FinalizeProposal, ExecuteProposal, WithdrawTreasury, MarkExecuted, TypeOK
  <3>2. QED BY <3>1 DEF TypeOK
 <2>4. QED BY <2>2, <2>3
<1>5. CASE UNCHANGED vars BY <1>5 DEF vars, TypeOK
<1>6. QED BY <1>1, <1>2, <1>3, <1>4, <1>5 DEF Next

\* The verdict of finalize_proposal is sound: its ratio never overstates,
\* and its unchecked sum does not wrap because the checked total bounds it.
LEMMA ApprovedIsSound ==
  ASSUME NEW pr \in DaoProposal, Approved(pr),
         pr.yes_votes + pr.no_votes + pr.abstain_votes = pr.total_votes
  PROVE  pr.yes_votes * BpsScale >= pr.approval_threshold_bps * (pr.yes_votes + pr.no_votes)
<1> DEFINE y == pr.yes_votes
           n == pr.no_votes
           t == pr.approval_threshold_bps
<1>1. y \in Nat /\ n \in Nat /\ t \in Nat /\ y + n <= U64Max BY NumbersAssumption DEF DaoProposal, U64
<1>2. WrappingAdd(y, n) = y + n BY <1>1, WrappingAddFits
<1>3. Greater(y + n, 1) \in Nat \ {0} /\ y + n <= Greater(y + n, 1) BY <1>1 DEF Greater
<1>4. BpsFromRatio(y, Greater(y + n, 1)) >= t BY <1>2 DEF Approved
<1>5. y * BpsScale >= t * Greater(y + n, 1) BY <1>1, <1>3, <1>4, BpsNeverOverstates
<1>6. (y + n) * t <= Greater(y + n, 1) * t BY <1>1, <1>3, ProductMonotone
<1>7. /\ y * BpsScale \in Nat /\ t * Greater(y + n, 1) \in Nat
      /\ t * Greater(y + n, 1) = Greater(y + n, 1) * t
      /\ t * (y + n) = (y + n) * t /\ t * (y + n) \in Nat
  BY <1>1, <1>3, NumbersAssumption
<1> HIDE DEF y, n, t
<1>8. y * BpsScale >= t * (y + n) BY <1>5, <1>6, <1>7
<1>9. QED BY <1>8 DEF y, n, t

LEMMA StepSound == TypeOK /\ ProposalsSound /\ [Next]_vars => ProposalsSound'
<1> SUFFICES ASSUME TypeOK, ProposalsSound, [Next]_vars, NEW p \in ProposalIds
             PROVE  ProposalSound(p)'
  BY DEF ProposalsSound
<1> ProposalSound(p) BY DEF ProposalsSound
<1> proposal[p] \in DaoProposal BY DEF TypeOK
<1>1. CASE slot' \in Int /\ slot <= slot' /\ UNCHANGED <<proposal[p], votes[p], execution[p]>> BY <1>1, UntouchedSound
<1>2. ASSUME NEW w \in Wallets, NEW k \in Kinds, NEW a \in Amounts, NEW d \in Durations,
             CreateProposal(w, p, k, a, d)
      PROVE  ProposalSound(p)'
 <2>1. /\ proposal'[p].status = "Active" /\ execution'[p] = execution[p]
       /\ proposal'[p].yes_votes = 0 /\ proposal'[p].no_votes = 0
       /\ proposal'[p].abstain_votes = 0 /\ proposal'[p].total_votes = 0
   BY <1>2 DEF CreateProposal, NoProposal, TypeOK
 <2>2. execution[p] = "None" BY <1>2 DEF CreateProposal, ProposalSound
 <2>3. QED BY <2>1, <2>2 DEF ProposalSound
<1>3. ASSUME NEW w \in Wallets, NEW c \in VoteChoice, CastVote(w, p, c)
      PROVE  ProposalSound(p)'
 <2> DEFINE weight == member[w].voting_power
            pr == proposal[p]
            t == Tallied(pr, c, weight)
 <2>1. weight \in Int /\ pr.yes_votes \in Int /\ pr.no_votes \in Int
       /\ pr.abstain_votes \in Int /\ pr.total_votes \in Int
   BY DEF TypeOK, DaoMember, DaoProposal, U64
 <2>2. /\ t.yes_votes = IF c = "Yes" THEN pr.yes_votes + weight ELSE pr.yes_votes
       /\ t.no_votes = IF c = "No" THEN pr.no_votes + weight ELSE pr.no_votes
       /\ t.abstain_votes = IF c = "Abstain" THEN pr.abstain_votes + weight
                            ELSE pr.abstain_votes
       /\ t.total_votes = pr.total_votes + weight
       /\ t.status = pr.status
   BY DEF Tallied, DaoProposal
 <2>3. /\ proposal'[p] = t /\ execution'[p] = execution[p] /\ pr.status = "Active"
   BY <1>3 DEF CastVote, VotingOpen, TypeOK
 <2>4. t.yes_votes + t.no_votes + t.abstain_votes = t.total_votes
  <3>1. pr.yes_votes + pr.no_votes + pr.abstain_votes = pr.total_votes BY DEF ProposalSound
  <3> HIDE DEF pr, t, weight
  <3>2. QED BY <2>1, <2>2, <3>1 DEF VoteChoice
 <2> HIDE DEF t
 <2>5. QED BY <2>2, <2>3, <2>4 DEF ProposalSound
<1>4. CASE FinalizeProposal(p)
 <2> DEFINE pr == proposal[p]
            verdict == IF QuorumReached(pr) /\ Approved(pr) THEN "Succeeded" ELSE "Defeated"
 <2>1. /\ proposal'[p] = [pr EXCEPT !.status = verdict]
       /\ UNCHANGED <<slot, votes, execution>>
       /\ pr.status = "Active" /\ slot > pr.end_slot
   BY <1>4 DEF FinalizeProposal, TypeOK
 <2>2. verdict = "Succeeded" =>
         pr.yes_votes * BpsScale >= pr.approval_threshold_bps * (pr.yes_votes + pr.no_votes)
   BY ApprovedIsSound DEF ProposalSound
 <2>3. verdict \in {"Succeeded", "Defeated"} OBVIOUS
 <2> HIDE DEF verdict
 <2>4. QED BY <2>1, <2>2, <2>3 DEF ProposalSound, DaoProposal
<1>5. CASE ExecuteProposal(p) \/ WithdrawTreasury(p)
 <2>1. /\ proposal'[p] = [proposal[p] EXCEPT !.status = "Executed", !.executed = TRUE]
       /\ slot' = slot /\ proposal[p].status = "Succeeded"
   BY <1>5 DEF ExecuteProposal, WithdrawTreasury, Executable, MarkExecuted, TypeOK
 <2>2. QED BY <2>1 DEF ProposalSound, DaoProposal
<1>6. QED BY <1>1, <1>2, <1>3, <1>4, <1>5, StepTouches

\* In every reachable state a proposal's counters add up, its verdict is
\* what its yes weight and its threshold give after its end, and an
\* execution record exists only of an executed proposal.
THEOREM SoundAlways == Spec => []ProposalsSound
<1>1. Init => ProposalsSound BY InitSound
<1>2. TypeOK /\ ProposalsSound /\ [Next]_vars => ProposalsSound' BY StepSound
<1>3. QED BY <1>1, <1>2, TypeCorrect, PTL DEF Spec

\* finalize_proposal's plain addition of yes and no weight never wraps.
THEOREM NeverWraps == Spec => []FinalizeNeverWraps
<1>1. TypeOK /\ ProposalsSound => FinalizeNeverWraps
 <2> SUFFICES ASSUME TypeOK, NEW p \in ProposalIds, ProposalSound(p)
              PROVE  WrappingAdd(proposal[p].yes_votes, proposal[p].no_votes)
                       = proposal[p].yes_votes + proposal[p].no_votes
   BY DEF ProposalsSound, FinalizeNeverWraps
 <2>1. /\ proposal[p].yes_votes + proposal[p].no_votes <= U64Max
       /\ proposal[p].yes_votes \in Nat /\ proposal[p].no_votes \in Nat
   BY NumbersAssumption DEF TypeOK, DaoProposal, ProposalSound, U64
 <2>2. QED BY <2>1, WrappingAddFits
<1>2. QED BY <1>1, TypeCorrect, SoundAlways, PTL

\* Once a proposal has an execution record, neither instruction executes
\* it again, and the record and the proposal never change.
THEOREM ExecutionAlwaysFinal == Spec => ExecutionIsFinal
<1> DEFINE Final == \A p \in ProposalIds : execution[p] # "None" =>
                      /\ execution'[p] = execution[p]
                      /\ proposal'[p] = proposal[p]
<1>1. TypeOK /\ ProposalsSound /\ [Next]_vars => [Final]_vars
 <2> SUFFICES ASSUME TypeOK, ProposalsSound, [Next]_vars,
                     NEW p \in ProposalIds, execution[p] # "None"
              PROVE  execution'[p] = execution[p] /\ proposal'[p] = proposal[p]
   OBVIOUS
 <2>1. proposal[p].status = "Executed" BY DEF ProposalsSound, ProposalSound
 <2>2. QED
   BY <2>1, StepTouches
      DEF CreateProposal, CastVote, VotingOpen, FinalizeProposal, ExecuteProposal,
          WithdrawTreasury, Executable
<1>2. QED BY <1>1, TypeCorrect, SoundAlways, PTL DEF Spec, ExecutionIsFinal

----
\* How the steps of the program are steps of the ballot on proposal p.
LEMMA StepBallot ==
  ASSUME TypeOK, ProposalsSound, [Next]_vars, TypeOK', NEW p \in ProposalIds
  PROVE  [BallotOf(p)!Next]_(BallotOf(p)!vars)
<1> ProposalSound(p) BY DEF ProposalsSound
<1> proposal[p] \in DaoProposal /\ slot \in Int BY DEF TypeOK, U64
<1>1. CASE slot' \in Int /\ slot <= slot' /\ UNCHANGED <<proposal[p], votes[p], execution[p]>>
 <2>1. CASE Phase(p)' = Phase(p) BY <1>1, <2>1 DEF BallotOf!vars
 <2>2. CASE Phase(p)' # Phase(p)
  <3>1. Phase(p) = "open" /\ Phase(p)' = "counting" BY <1>1, <2>2 DEF Phase, DaoProposal, U64
  <3>2. BallotOf(p)!Deadline BY <1>1, <3>1 DEF BallotOf!Deadline
  <3>3. QED BY <3>2 DEF BallotOf!Next
 <2>3. QED BY <2>1, <2>2
<1>2. ASSUME NEW w \in Wallets, NEW k \in Kinds, NEW a \in Amounts, NEW d \in Durations,
             CreateProposal(w, p, k, a, d)
      PROVE  BallotOf(p)!Next
 <2> DEFINE end == SaturatingAdd(slot, Greater(d, dao.vote_duration))
 <2>1. /\ proposal[p] = NoProposal
       /\ proposal'[p] = [NoProposal EXCEPT !.status = "Active", !.kind = k, !.amount = a,
            !.end_slot = end, !.quorum_bps = dao.quorum_bps,
            !.approval_threshold_bps = dao.proposal_threshold_bps]
       /\ slot' = slot /\ votes' = votes
   BY <1>2 DEF CreateProposal, TypeOK, ProposalSound
 <2>2. slot <= end /\ dao.proposal_threshold_bps \in Nat
  <3>1. slot \in Nat /\ slot <= U64Max /\ dao.vote_duration \in Nat /\ d \in Nat
    BY DaoAssumption, NumbersAssumption DEF TypeOK, DaoConfig, U64
  <3>2. Greater(d, dao.vote_duration) \in Nat BY <3>1 DEF Greater
  <3>3. slot <= end BY <3>1, <3>2, NumbersAssumption DEF SaturatingAdd, Lesser
  <3>4. QED BY <3>3 DEF TypeOK, DaoConfig
 <2>3. /\ proposal'[p].status = "Active" /\ proposal'[p].end_slot = end
       /\ proposal'[p].approval_threshold_bps = dao.proposal_threshold_bps
       /\ proposal'[p].yes_votes = proposal[p].yes_votes
       /\ proposal'[p].no_votes = proposal[p].no_votes
       /\ proposal[p].status = "None"
   BY <2>1 DEF NoProposal
 <2> HIDE DEF end
 <2>4. Phase(p) = "unopened" /\ Phase(p)' = "open" BY <2>1, <2>2, <2>3 DEF Phase
 <2>5. BallotOf(p)!Open BY <2>1, <2>2, <2>3, <2>4 DEF BallotOf!Open
 <2>6. QED BY <2>5 DEF BallotOf!Next
<1>3. ASSUME NEW w \in Wallets, NEW c \in VoteChoice, CastVote(w, p, c)
      PROVE  BallotOf(p)!Next
 <2> DEFINE weight == member[w].voting_power
 <2>1. /\ proposal'[p] = Tallied(proposal[p], c, weight)
       /\ votes'[p] = votes[p] \cup {[voter |-> w, choice |-> c, weight |-> weight]}
       /\ slot' = slot /\ proposal[p].status = "Active" /\ slot <= proposal[p].end_slot
       /\ \A v \in votes[p] : v.voter # w
   BY <1>3 DEF CastVote, VotingOpen, Voted, TypeOK
 <2>2. LET t == Tallied(proposal[p], c, weight) IN
       /\ t.yes_votes = IF c = "Yes" THEN proposal[p].yes_votes + weight
                        ELSE proposal[p].yes_votes
       /\ t.no_votes = IF c = "No" THEN proposal[p].no_votes + weight
                       ELSE proposal[p].no_votes
       /\ t.status = proposal[p].status /\ t.end_slot = proposal[p].end_slot
       /\ t.approval_threshold_bps = proposal[p].approval_threshold_bps
   BY DEF Tallied, DaoProposal
 <2>3. Phase(p) = "open" /\ Phase(p)' = Phase(p) BY <2>1, <2>2 DEF Phase
 <2>4. weight \in U64 BY DEF TypeOK, DaoMember
 <2> HIDE DEF weight
 <2>5. BallotOf(p)!Cast(w, c, weight) BY <2>1, <2>2, <2>3 DEF BallotOf!Cast
 <2>6. QED BY <2>4, <2>5 DEF BallotOf!Next, VoteChoice
<1>4. CASE FinalizeProposal(p)
 <2> DEFINE pr == proposal[p]
            verdict == IF QuorumReached(pr) /\ Approved(pr) THEN "Succeeded" ELSE "Defeated"
 <2>1. /\ proposal'[p] = [pr EXCEPT !.status = verdict]
       /\ slot' = slot /\ votes' = votes
       /\ pr.status = "Active" /\ slot > pr.end_slot
   BY <1>4 DEF FinalizeProposal, TypeOK
 <2>2. /\ proposal'[p].status = verdict
       /\ proposal'[p].yes_votes = pr.yes_votes /\ proposal'[p].no_votes = pr.no_votes
       /\ proposal'[p].approval_threshold_bps = pr.approval_threshold_bps
   BY <2>1 DEF DaoProposal
 <2>3. Phase(p) = "counting" BY <2>1 DEF Phase, DaoProposal, U64
 <2>4. CASE QuorumReached(pr) /\ Approved(pr)
  <3>1. Phase(p)' = "passed" BY <2>2, <2>4 DEF Phase
  <3>2. pr.yes_votes * BpsScale >= pr.approval_threshold_bps * (pr.yes_votes + pr.no_votes)
    BY <2>4, ApprovedIsSound DEF ProposalSound
  <3>3. BallotOf(p)!Pass BY <2>1, <2>2, <2>3, <3>1, <3>2 DEF BallotOf!Pass
  <3>4. QED BY <3>3 DEF BallotOf!Next
 <2>5. CASE ~(QuorumReached(pr) /\ Approved(pr))
  <3>1. Phase(p)' = "rejected" BY <2>2, <2>5 DEF Phase
  <3>2. BallotOf(p)!Reject BY <2>1, <2>2, <2>3, <3>1 DEF BallotOf!Reject
  <3>3. QED BY <3>2 DEF BallotOf!Next
 <2>6. QED BY <2>4, <2>5
<1>5. CASE ExecuteProposal(p) \/ WithdrawTreasury(p)
 <2>1. /\ proposal'[p] = [proposal[p] EXCEPT !.status = "Executed", !.executed = TRUE]
       /\ votes' = votes /\ proposal[p].status = "Succeeded"
   BY <1>5 DEF ExecuteProposal, WithdrawTreasury, Executable, MarkExecuted, TypeOK
 <2>2. /\ proposal'[p].status = "Executed"
       /\ proposal'[p].yes_votes = proposal[p].yes_votes
       /\ proposal'[p].no_votes = proposal[p].no_votes
       /\ proposal'[p].approval_threshold_bps = proposal[p].approval_threshold_bps
   BY <2>1 DEF DaoProposal
 <2>3. Phase(p) = "passed" /\ Phase(p)' = "carried" BY <2>1, <2>2 DEF Phase
 <2>4. BallotOf(p)!Carry BY <2>1, <2>2, <2>3 DEF BallotOf!Carry
 <2>5. QED BY <2>4 DEF BallotOf!Next
<1>6. QED BY <1>1, <1>2, <1>3, <1>4, <1>5, StepTouches

\* Each proposal of the program implements the abstract ballot.
THEOREM RefinesBallot == Spec => ImplementsBallot
<1>1. Init => \A p \in ProposalIds : BallotOf(p)!Init BY DEF Init, BallotOf!Init, Phase, NoProposal
<1>2. TypeOK /\ ProposalsSound /\ [Next]_vars /\ TypeOK' =>
        [\A p \in ProposalIds : [BallotOf(p)!Next]_(BallotOf(p)!vars)]_vars
  BY StepBallot
<1>3. QED BY <1>1, <1>2, TypeCorrect, SoundAlways, PTL DEF Spec, ImplementsBallot

----
\* The counters.

\* What VotesAreCounted and TreasuryBalances rest on besides the types and
\* ProposalsSound: finitely many records, each of a wallet that joined,
\* and no execution before the DAO exists.
Founded == /\ \A p \in ProposalIds : IsFiniteSet(votes[p])
           /\ \A p \in ProposalIds : \A v \in votes[p] : member[v.voter].joined
           /\ ~dao.live => \A p \in ProposalIds : execution[p] = "None"

\* The part of TreasuryBalances that is not about the books.
PaidFor ==
  /\ treasury.total_spent =
       WeightOf({[id |-> p, weight |-> proposal[p].amount] : p \in Paid})
  /\ \A p \in Paid : /\ proposal[p].kind = "TreasurySpend"
                      /\ proposal[p].amount <= treasury.spend_limit

Chosen(S, c) == {v \in S : v.choice = c}

\* One more vote record, of a voter who has none, adds its weight to its
\* choice and to the total, and one to the number of voters.
LEMMA OneMoreRecord ==
  ASSUME NEW S, IsFiniteSet(S), NEW v, v \notin S, v.weight \in U64, NEW c
  PROVE  /\ WeightOf(Chosen(S \cup {v}, c)) =
              WeightOf(Chosen(S, c)) + (IF v.choice = c THEN v.weight ELSE 0)
         /\ WeightOf(Chosen(S, c)) \in Nat
         /\ WeightOf(S \cup {v}) = WeightOf(S) + v.weight
         /\ WeightOf(S) \in Nat
         /\ Cardinality(S \cup {v}) = Cardinality(S) + 1
         /\ Cardinality(S) \in Nat
<1>1. Chosen(S, c) \in SUBSET S /\ v \notin Chosen(S, c) BY DEF Chosen
<1>2. IsFiniteSet(Chosen(S, c)) BY <1>1, FS_Subset
<1>3. WeightOf(Chosen(S, c)) \in Nat /\ WeightOf(S) \in Nat BY <1>2, WeightOfType
<1>4. CASE v.choice = c
 <2>1. Chosen(S \cup {v}, c) = Chosen(S, c) \cup {v} BY <1>4 DEF Chosen
 <2>2. WeightOf(Chosen(S, c) \cup {v}) = WeightOf(Chosen(S, c)) + v.weight BY <1>1, <1>2, WeightOfMore
 <2>3. QED BY <1>3, <1>4, <2>1, <2>2, WeightOfMore, FS_AddElement, FS_CardinalityType
<1>5. CASE v.choice # c
 <2>1. Chosen(S \cup {v}, c) = Chosen(S, c) BY <1>5 DEF Chosen
 <2>2. QED BY <1>3, <1>5, <2>1, WeightOfMore, FS_AddElement, FS_CardinalityType
<1>6. QED BY <1>4, <1>5

LEMMA ChoosingIsChosen ==
  \A p, c : Choosing(p, c) = Chosen(votes[p], c)
BY DEF Choosing, Chosen

LEMMA StepFounded ==
  TypeOK /\ ProposalsSound /\ Founded /\ [Next]_vars => Founded'
<1> SUFFICES ASSUME TypeOK, ProposalsSound, Founded, [Next]_vars PROVE Founded' OBVIOUS
<1>1. ASSUME NEW p \in ProposalIds PROVE IsFiniteSet(votes'[p])
 <2>1. CASE votes'[p] = votes[p] BY <2>1 DEF Founded
 <2>2. ASSUME NEW w \in Wallets, NEW c \in VoteChoice, CastVote(w, p, c)
       PROVE  IsFiniteSet(votes'[p])
   BY <2>2, FS_AddElement DEF CastVote, TypeOK, Founded
 <2>3. QED
   BY <2>1, <2>2, StepTouches
      DEF CreateProposal, FinalizeProposal, ExecuteProposal, WithdrawTreasury, MarkExecuted
<1>2. ASSUME NEW w \in Wallets, member[w].joined PROVE member'[w].joined
 <2> member \in [Wallets -> DaoMember] BY DEF TypeOK
 <2>1. CASE UNCHANGED member BY <1>2, <2>1
 <2>2. CASE Join BY <1>2, <2>2 DEF Join, RegisterMember, UpdateMember, DaoMember
 <2>3. CASE Propose BY <1>2, <2>3 DEF Propose, CreateProposal, DaoMember
 <2>4. CASE Decide
   BY <1>2, <2>4 DEF Decide, CastVote, FinalizeProposal, ExecuteProposal,
                     WithdrawTreasury, MarkExecuted, DaoMember
 <2>5. QED
   BY <2>1, <2>2, <2>3, <2>4
      DEF Next, Tick, Configure, InitializeDao, UpdateDao, Deposit, DepositTreasury, vars
<1>3. ASSUME NEW p \in ProposalIds, NEW v \in votes'[p]
      PROVE  v.voter \in Wallets /\ member[v.voter].joined
 <2>1. CASE v \in votes[p] BY <2>1 DEF Founded, TypeOK, DaoVoteRecord
 <2>2. ASSUME NEW w \in Wallets, NEW c \in VoteChoice, CastVote(w, p, c), v \notin votes[p]
       PROVE  v.voter \in Wallets /\ member[v.voter].joined
  <3>1. v = [voter |-> w, choice |-> c, weight |-> member[w].voting_power] BY <2>2 DEF CastVote, TypeOK
  <3>2. QED BY <2>2, <3>1 DEF CastVote
 <2>3. QED
   BY <2>1, <2>2, StepTouches
      DEF CreateProposal, FinalizeProposal, ExecuteProposal, WithdrawTreasury, MarkExecuted
<1>4. \A p \in ProposalIds : \A v \in votes'[p] : member'[v.voter].joined BY <1>2, <1>3
<1>5. dao.live => dao'.live
  BY ZenonT(20) DEF Next, Tick, Configure, Join, Propose, Decide, Deposit, InitializeDao, UpdateDao,
         RegisterMember, UpdateMember, CreateProposal, CastVote, FinalizeProposal,
         ExecuteProposal, WithdrawTreasury, DepositTreasury, vars, TypeOK, DaoConfig
<1>6. ASSUME ~dao.live PROVE execution' = execution
  BY <1>6 DEF Next, Tick, Configure, Join, Propose, Decide, Deposit, InitializeDao, UpdateDao,
         RegisterMember, UpdateMember, CreateProposal, CastVote, FinalizeProposal,
         ExecuteProposal, WithdrawTreasury, Executable, DepositTreasury, vars
<1>7. QED BY <1>1, <1>4, <1>5, <1>6 DEF Founded

TallyMatches(p) == LET pr == proposal[p] IN
    /\ pr.yes_votes = WeightOf(Choosing(p, "Yes"))
    /\ pr.no_votes = WeightOf(Choosing(p, "No"))
    /\ pr.abstain_votes = WeightOf(Choosing(p, "Abstain"))
    /\ pr.total_votes = WeightOf(votes[p])
    /\ pr.voter_count = Cardinality(votes[p])

LEMMA StepTallies ==
  TypeOK /\ ProposalsSound /\ Founded /\ TalliesMatchRecords /\ [Next]_vars
    => TalliesMatchRecords'
<1> SUFFICES ASSUME TypeOK, ProposalsSound, Founded, TalliesMatchRecords, [Next]_vars,
                    NEW p \in ProposalIds
             PROVE  TallyMatches(p)'
  BY DEF TalliesMatchRecords, TallyMatches
<1> TallyMatches(p) /\ ProposalSound(p) /\ proposal[p] \in DaoProposal
  BY DEF TalliesMatchRecords, TallyMatches, ProposalsSound, TypeOK
<1>1. ASSUME votes'[p] = votes[p],
             proposal'[p].yes_votes = proposal[p].yes_votes,
             proposal'[p].no_votes = proposal[p].no_votes,
             proposal'[p].abstain_votes = proposal[p].abstain_votes,
             proposal'[p].total_votes = proposal[p].total_votes,
             proposal'[p].voter_count = proposal[p].voter_count
      PROVE  TallyMatches(p)'
  BY <1>1 DEF TallyMatches, Choosing
<1>2. ASSUME NEW w \in Wallets, NEW k \in Kinds, NEW a \in Amounts, NEW d \in Durations,
             CreateProposal(w, p, k, a, d)
      PROVE  TallyMatches(p)'
 <2>1. proposal[p] = NoProposal /\ votes'[p] = votes[p] BY <1>2 DEF CreateProposal, ProposalSound
 <2>2. proposal'[p] = [NoProposal EXCEPT !.status = "Active", !.kind = k, !.amount = a,
         !.end_slot = SaturatingAdd(slot, Greater(d, dao.vote_duration)),
         !.quorum_bps = dao.quorum_bps,
         !.approval_threshold_bps = dao.proposal_threshold_bps]
   BY <1>2 DEF CreateProposal, TypeOK
 <2>3. QED BY <1>1, <2>1, <2>2 DEF NoProposal
<1>3. ASSUME NEW w \in Wallets, NEW c \in VoteChoice, CastVote(w, p, c)
      PROVE  TallyMatches(p)'
 <2> DEFINE weight == member[w].voting_power
            v == [voter |-> w, choice |-> c, weight |-> weight]
            t == Tallied(proposal[p], c, weight)
 <2>1. /\ weight \in U64 /\ weight \in Nat
       /\ v.weight = weight /\ v.choice = c /\ v \notin votes[p]
       /\ votes'[p] = votes[p] \cup {v} /\ proposal'[p] = t
       /\ IsFiniteSet(votes[p])
   BY <1>3, NumbersAssumption DEF CastVote, Voted, TypeOK, DaoMember, Founded, U64
 <2>2. /\ t.yes_votes = proposal[p].yes_votes + (IF c = "Yes" THEN weight ELSE 0)
       /\ t.no_votes = proposal[p].no_votes + (IF c = "No" THEN weight ELSE 0)
       /\ t.abstain_votes = proposal[p].abstain_votes
                              + (IF c = "Abstain" THEN weight ELSE 0)
       /\ t.total_votes = proposal[p].total_votes + weight
       /\ t.voter_count = proposal[p].voter_count + 1
   BY <2>1, NumbersAssumption DEF Tallied, DaoProposal, U64
 <2> HIDE DEF v, t, weight
 <2>3. \A x : /\ WeightOf(Chosen(votes[p] \cup {v}, x)) =
                   WeightOf(Chosen(votes[p], x)) + (IF c = x THEN weight ELSE 0)
              /\ WeightOf(votes[p] \cup {v}) = WeightOf(votes[p]) + weight
              /\ Cardinality(votes[p] \cup {v}) = Cardinality(votes[p]) + 1
   BY <2>1, OneMoreRecord
 <2>4. /\ Choosing(p, "Yes")' = Chosen(votes[p] \cup {v}, "Yes")
       /\ Choosing(p, "No")' = Chosen(votes[p] \cup {v}, "No")
       /\ Choosing(p, "Abstain")' = Chosen(votes[p] \cup {v}, "Abstain")
   BY <2>1 DEF Choosing, Chosen
 <2>5. /\ proposal[p].yes_votes = WeightOf(Chosen(votes[p], "Yes"))
       /\ proposal[p].no_votes = WeightOf(Chosen(votes[p], "No"))
       /\ proposal[p].abstain_votes = WeightOf(Chosen(votes[p], "Abstain"))
       /\ proposal[p].total_votes = WeightOf(votes[p])
       /\ proposal[p].voter_count = Cardinality(votes[p])
   BY ChoosingIsChosen DEF TallyMatches
 <2>6. /\ t.yes_votes = WeightOf(Chosen(votes[p] \cup {v}, "Yes"))
       /\ t.no_votes = WeightOf(Chosen(votes[p] \cup {v}, "No"))
       /\ t.abstain_votes = WeightOf(Chosen(votes[p] \cup {v}, "Abstain"))
   BY <2>2, <2>3, <2>5
 <2>7. /\ proposal'[p].total_votes = WeightOf(votes'[p])
       /\ proposal'[p].voter_count = Cardinality(votes'[p])
   BY <2>1, <2>2, <2>3, <2>5
 <2>8. QED
  <3>1. /\ t.yes_votes = WeightOf(Choosing(p, "Yes"))'
        /\ t.no_votes = WeightOf(Choosing(p, "No"))'
        /\ t.abstain_votes = WeightOf(Choosing(p, "Abstain"))'
    BY <2>4, <2>6 DEF WeightOf, Units
  <3>2. QED BY <2>1, <2>7, <3>1 DEF TallyMatches
<1>4. CASE FinalizeProposal(p) \/ ExecuteProposal(p) \/ WithdrawTreasury(p)
 <2>1. /\ votes' = votes
       /\ \/ \E s \in {"Succeeded", "Defeated"} :
              proposal'[p] = [proposal[p] EXCEPT !.status = s]
          \/ proposal'[p] = [proposal[p] EXCEPT !.status = "Executed", !.executed = TRUE]
   BY <1>4 DEF FinalizeProposal, ExecuteProposal, WithdrawTreasury, MarkExecuted, TypeOK
 <2>2. QED BY <1>1, <2>1 DEF DaoProposal
<1>5. QED BY <1>1, <1>2, <1>3, <1>4, StepTouches

----
\* The totals of the config account, one by one.

Members == {w \in Wallets : member[w].joined}
Proposed == {p \in ProposalIds : proposal[p].status # "None"}
Recorded == {p \in ProposalIds : execution[p] # "None"}
Pairs == {x \in ProposalIds \X Wallets : Voted(x[2], x[1])}
VotedBy(w) == {p \in ProposalIds : Voted(w, p)}

LEMMA CountersFinite ==
  /\ IsFiniteSet(Members) /\ IsFiniteSet(Proposed) /\ IsFiniteSet(Recorded)
  /\ IsFiniteSet(Pairs) /\ \A w \in Wallets : IsFiniteSet(VotedBy(w))
<1>1. IsFiniteSet(ProposalIds \X Wallets) BY DaoAssumption, FS_Product
<1>2. /\ Members \in SUBSET Wallets /\ Proposed \in SUBSET ProposalIds
      /\ Recorded \in SUBSET ProposalIds /\ Pairs \in SUBSET (ProposalIds \X Wallets)
      /\ \A w \in Wallets : VotedBy(w) \in SUBSET ProposalIds
  BY DEF Members, Proposed, Recorded, Pairs, VotedBy
<1>3. QED BY <1>1, <1>2, DaoAssumption, FS_Subset

Counted == /\ dao.total_members = Cardinality(Members)
           /\ dao.total_proposals = Cardinality(Proposed)
           /\ dao.total_executed = Cardinality(Recorded)
           /\ dao.total_votes = Cardinality(Pairs)
           /\ \A w \in Wallets : member[w].votes_cast = Cardinality(VotedBy(w))

LEMMA CountedIsCounters == Counted <=> CountersMatchAccounts
BY DEF Counted, CountersMatchAccounts, Members, Proposed, Recorded, Pairs, VotedBy

LEMMA OneRecordMore ==
  ASSUME NEW S, IsFiniteSet(S), NEW x, x \notin S
  PROVE  Cardinality(S \cup {x}) = Cardinality(S) + 1
BY FS_AddElement

LEMMA SameCounters ==
  ASSUME TypeOK, Counted,
         dao'.total_members = dao.total_members, Members' = Members,
         dao'.total_proposals = dao.total_proposals, Proposed' = Proposed,
         dao'.total_executed = dao.total_executed, Recorded' = Recorded,
         dao'.total_votes = dao.total_votes, votes' = votes,
         \A w \in Wallets : member'[w].votes_cast = member[w].votes_cast
  PROVE  Counted'
<1>1. Pairs' = Pairs /\ \A w \in Wallets : VotedBy(w)' = VotedBy(w) BY DEF Pairs, VotedBy, Voted
<1>2. QED BY <1>1 DEF Counted

LEMMA StepCounters ==
  TypeOK /\ ProposalsSound /\ Founded /\ Counted /\ [Next]_vars => Counted'
<1> SUFFICES ASSUME TypeOK, ProposalsSound, Founded, Counted, [Next]_vars PROVE Counted' OBVIOUS
<1> /\ dao \in DaoConfig /\ member \in [Wallets -> DaoMember]
    /\ proposal \in [ProposalIds -> DaoProposal]
    /\ DOMAIN votes = ProposalIds /\ DOMAIN execution = ProposalIds
  BY DEF TypeOK
<1> /\ dao.total_members \in Int /\ dao.total_proposals \in Int
    /\ dao.total_executed \in Int /\ dao.total_votes \in Int
    /\ \A w \in Wallets : member[w].votes_cast \in Int
  BY DEF DaoConfig, DaoMember, U64
<1>1. CASE UNCHANGED vars \/ Tick \/ Deposit
 <2>1. UNCHANGED <<dao, member, proposal, votes, execution>> BY <1>1 DEF vars, Tick, Deposit, DepositTreasury
 <2>2. QED BY <2>1, SameCounters DEF Members, Proposed, Recorded
<1>2. CASE Configure
 <2>1. /\ dao'.total_members = dao.total_members
       /\ dao'.total_proposals = dao.total_proposals
       /\ dao'.total_executed = dao.total_executed
       /\ dao'.total_votes = dao.total_votes
       /\ UNCHANGED <<member, proposal, votes, execution>>
   BY <1>2, ZenonT(20) DEF Configure, InitializeDao, UpdateDao, DaoConfig
 <2>2. QED BY <2>1, SameCounters DEF Members, Proposed, Recorded
<1>3. ASSUME NEW w \in Wallets, NEW s \in Stakes, NEW r \in Reputations,
             RegisterMember(w, s, r)
      PROVE  Counted'
 <2>1. /\ dao'.total_members = dao.total_members + 1
       /\ dao'.total_proposals = dao.total_proposals
       /\ dao'.total_executed = dao.total_executed
       /\ dao'.total_votes = dao.total_votes
       /\ UNCHANGED <<proposal, votes, execution>>
   BY <1>3 DEF RegisterMember, DaoConfig
 <2>2. ~member[w].joined /\ member'[w].joined /\ member'[w].votes_cast = 0 BY <1>3 DEF RegisterMember, NoMember
 <2>3. \A u \in Wallets \ {w} : member'[u] = member[u] BY <1>3 DEF RegisterMember
 <2>4. Members' = Members \cup {w} /\ w \notin Members BY <2>2, <2>3 DEF Members
 <2>5. Cardinality(Members \cup {w}) = Cardinality(Members) + 1 BY <2>4, OneRecordMore, CountersFinite
 <2>6. VotedBy(w) = {} /\ Cardinality(VotedBy(w)) = 0 BY <2>2, FS_EmptySet DEF VotedBy, Voted, Founded
 <2>7. /\ Proposed' = Proposed /\ Recorded' = Recorded /\ Pairs' = Pairs
       /\ \A u \in Wallets : VotedBy(u)' = VotedBy(u)
   BY <2>1 DEF Proposed, Recorded, Pairs, VotedBy, Voted
 <2>8. \A u \in Wallets : member'[u].votes_cast = member[u].votes_cast BY <2>2, <2>3, <2>6 DEF Counted
 <2>9. QED BY <2>1, <2>4, <2>5, <2>7, <2>8 DEF Counted
<1>4. ASSUME NEW w \in Wallets, NEW s \in Stakes, NEW r \in Reputations,
             NEW a \in BOOLEAN, UpdateMember(w, s, r, a)
      PROVE  Counted'
 <2>1. /\ UNCHANGED <<dao, proposal, votes, execution>>
       /\ \A u \in Wallets : /\ member'[u].joined = member[u].joined
                              /\ member'[u].votes_cast = member[u].votes_cast
   BY <1>4 DEF UpdateMember, DaoMember
 <2>2. QED BY <2>1, SameCounters DEF Members, Proposed, Recorded
<1>5. ASSUME NEW w \in Wallets, NEW p \in ProposalIds, NEW k \in Kinds,
             NEW a \in Amounts, NEW d \in Durations, CreateProposal(w, p, k, a, d)
      PROVE  Counted'
 <2>1. /\ dao'.total_members = dao.total_members
       /\ dao'.total_proposals = dao.total_proposals + 1
       /\ dao'.total_executed = dao.total_executed
       /\ dao'.total_votes = dao.total_votes
       /\ UNCHANGED <<votes, execution>>
   BY <1>5 DEF CreateProposal, DaoConfig
 <2>2. \A u \in Wallets : /\ member'[u].joined = member[u].joined
                           /\ member'[u].votes_cast = member[u].votes_cast
   BY <1>5 DEF CreateProposal, DaoMember
 <2>3. /\ proposal[p].status = "None" /\ proposal'[p].status = "Active"
       /\ \A q \in ProposalIds \ {p} : proposal'[q] = proposal[q]
   BY <1>5 DEF CreateProposal, NoProposal
 <2>4. Proposed' = Proposed \cup {p} /\ p \notin Proposed BY <2>3 DEF Proposed
 <2>5. Cardinality(Proposed \cup {p}) = Cardinality(Proposed) + 1 BY <2>4, OneRecordMore, CountersFinite
 <2>6. /\ Members' = Members /\ Recorded' = Recorded /\ Pairs' = Pairs
       /\ \A u \in Wallets : VotedBy(u)' = VotedBy(u)
   BY <2>1, <2>2 DEF Members, Recorded, Pairs, VotedBy, Voted
 <2>7. QED BY <2>1, <2>2, <2>4, <2>5, <2>6 DEF Counted
<1>6. ASSUME NEW p \in ProposalIds, NEW w \in Wallets, NEW c \in VoteChoice,
             CastVote(w, p, c)
      PROVE  Counted'
 <2>1. /\ dao'.total_members = dao.total_members
       /\ dao'.total_proposals = dao.total_proposals
       /\ dao'.total_executed = dao.total_executed
       /\ dao'.total_votes = dao.total_votes + 1
       /\ UNCHANGED execution
   BY <1>6 DEF CastVote, DaoConfig
 <2>2. /\ member'[w].votes_cast = member[w].votes_cast + 1
       /\ \A u \in Wallets : member'[u].joined = member[u].joined
       /\ \A u \in Wallets \ {w} : member'[u] = member[u]
   BY <1>6 DEF CastVote, DaoMember
 <2>3. \A q \in ProposalIds : proposal'[q].status = proposal[q].status BY <1>6 DEF CastVote, Tallied, DaoProposal
 <2>4. /\ ~Voted(w, p)
       /\ \A q \in ProposalIds \ {p} : votes'[q] = votes[q]
       /\ votes'[p] = votes[p] \cup
            {[voter |-> w, choice |-> c, weight |-> member[w].voting_power]}
   BY <1>6 DEF CastVote
 <2>5. \A q \in ProposalIds, u \in Wallets :
         Voted(u, q)' <=> Voted(u, q) \/ (u = w /\ q = p)
  <3>1. \A q \in ProposalIds \ {p}, u \in Wallets : Voted(u, q)' <=> Voted(u, q) BY <2>4 DEF Voted
  <3>2. \A u \in Wallets : Voted(u, p)' <=> Voted(u, p) \/ u = w
   <4> DEFINE v == [voter |-> w, choice |-> c, weight |-> member[w].voting_power]
   <4>1. v.voter = w /\ votes'[p] = votes[p] \cup {v} BY <2>4
   <4> HIDE DEF v
   <4>2. QED BY <4>1 DEF Voted
  <3>3. QED BY <3>1, <3>2
 <2>6. /\ Pairs' = Pairs \cup {<<p, w>>} /\ <<p, w>> \notin Pairs
       /\ VotedBy(w)' = VotedBy(w) \cup {p} /\ p \notin VotedBy(w)
       /\ \A u \in Wallets \ {w} : VotedBy(u)' = VotedBy(u)
   BY <2>4, <2>5 DEF Pairs, VotedBy
 <2>7. /\ Cardinality(Pairs \cup {<<p, w>>}) = Cardinality(Pairs) + 1
       /\ Cardinality(VotedBy(w) \cup {p}) = Cardinality(VotedBy(w)) + 1
   BY <2>6, OneRecordMore, CountersFinite
 <2>8. Proposed' = Proposed /\ Members' = Members /\ Recorded' = Recorded
   BY <2>1, <2>2, <2>3 DEF Proposed, Members, Recorded
 <2>9. QED BY <2>1, <2>2, <2>6, <2>7, <2>8 DEF Counted
<1>7. ASSUME NEW p \in ProposalIds, FinalizeProposal(p)
      PROVE  Counted'
 <2>1. /\ UNCHANGED <<dao, member, votes, execution>>
       /\ \A q \in ProposalIds : (proposal'[q].status = "None") = (proposal[q].status = "None")
   BY <1>7 DEF FinalizeProposal, DaoProposal
 <2>2. QED BY <2>1, SameCounters DEF Members, Proposed, Recorded
<1>8. ASSUME NEW p \in ProposalIds, ExecuteProposal(p) \/ WithdrawTreasury(p)
      PROVE  Counted'
 <2>1. /\ dao'.total_members = dao.total_members
       /\ dao'.total_proposals = dao.total_proposals
       /\ dao'.total_executed = dao.total_executed + 1
       /\ dao'.total_votes = dao.total_votes
       /\ UNCHANGED <<member, votes>>
       /\ proposal[p].status = "Succeeded"
   BY <1>8 DEF ExecuteProposal, WithdrawTreasury, Executable, MarkExecuted, DaoConfig
 <2>2. \A q \in ProposalIds : (proposal'[q].status = "None") = (proposal[q].status = "None")
  <3>1. /\ \A q \in ProposalIds \ {p} : proposal'[q] = proposal[q]
        /\ proposal'[p] = [proposal[p] EXCEPT !.status = "Executed", !.executed = TRUE]
    BY <1>8 DEF ExecuteProposal, WithdrawTreasury, MarkExecuted
  <3>2. proposal'[p].status = "Executed" BY <3>1 DEF DaoProposal
  <3>3. QED BY <2>1, <3>1, <3>2
 <2>3. /\ execution[p] = "None" /\ execution'[p] # "None"
       /\ \A q \in ProposalIds \ {p} : execution'[q] = execution[q]
   BY <1>8, <2>1
      DEF ExecuteProposal, WithdrawTreasury, MarkExecuted, ProposalsSound, ProposalSound
 <2>4. Recorded' = Recorded \cup {p} /\ p \notin Recorded BY <2>3 DEF Recorded
 <2>5. Cardinality(Recorded \cup {p}) = Cardinality(Recorded) + 1 BY <2>4, OneRecordMore, CountersFinite
 <2>6. Members' = Members /\ Proposed' = Proposed BY <2>1, <2>2 DEF Members, Proposed
 <2>7. Pairs' = Pairs /\ \A w \in Wallets : VotedBy(w)' = VotedBy(w) BY <2>1 DEF Pairs, VotedBy, Voted
 <2>8. QED BY <2>1, <2>4, <2>5, <2>6, <2>7 DEF Counted
<1>9. QED BY <1>1, <1>2, <1>3, <1>4, <1>5, <1>6, <1>7, <1>8 DEF Next, Join, Propose, Decide

----
\* The treasury.

Bills(P) == {[id |-> p, weight |-> proposal[p].amount] : p \in P}

LEMMA BillsFinite ==
  ASSUME NEW P, IsFiniteSet(P)
  PROVE  IsFiniteSet(Bills(P))
<1> DEFINE f == [p \in P |-> [id |-> p, weight |-> proposal[p].amount]]
<1>1. f \in Surjection(P, Bills(P))
 <2>1. f \in [P -> Bills(P)] BY DEF Bills
 <2>2. \A b \in Bills(P) : \E p \in P : f[p] = b BY DEF Bills
 <2>3. QED BY <2>1, <2>2 DEF Surjection
<1>2. QED BY <1>1, FS_Surjection

LEMMA PaidForIsPaid ==
  PaidFor <=> /\ treasury.total_spent = WeightOf(Bills(Paid))
              /\ \A p \in Paid : /\ proposal[p].kind = "TreasurySpend"
                                  /\ proposal[p].amount <= treasury.spend_limit
BY DEF PaidFor, Bills

\* A step that pays nobody leaves the paid proposals and their bills.
LEMMA NobodyPaid ==
  ASSUME TypeOK, ProposalsSound, PaidFor, [Next]_vars, Paid' = Paid,
         treasury'.total_spent = treasury.total_spent,
         Paid # {} => treasury'.spend_limit = treasury.spend_limit
  PROVE  PaidFor'
<1>1. ASSUME NEW p \in Paid
      PROVE  proposal'[p] = proposal[p]
 <2>1. p \in ProposalIds /\ execution[p] # "None" /\ proposal[p].status = "Executed"
   BY DEF Paid, ProposalsSound, ProposalSound
 <2>2. QED
   BY <2>1, StepTouches
      DEF CreateProposal, CastVote, VotingOpen, FinalizeProposal, ExecuteProposal,
          WithdrawTreasury, Executable
<1>2. Bills(Paid)' = Bills(Paid) BY <1>1 DEF Bills
<1>3. /\ treasury'.total_spent = WeightOf(Bills(Paid))
      /\ \A p \in Paid : /\ proposal'[p].kind = "TreasurySpend"
                          /\ proposal'[p].amount <= treasury'.spend_limit
  BY <1>1, PaidForIsPaid
<1>4. PaidFor' <=> /\ treasury'.total_spent = WeightOf(Bills(Paid)')
                   /\ \A p \in Paid' : /\ proposal'[p].kind = "TreasurySpend"
                                        /\ proposal'[p].amount <= treasury'.spend_limit
  BY DEF PaidFor, Bills, WeightOf, Units
<1>5. QED BY <1>2, <1>3, <1>4

LEMMA StepPaid ==
  TypeOK /\ ProposalsSound /\ Founded /\ PaidFor /\ [Next]_vars => PaidFor'
<1> SUFFICES ASSUME TypeOK, ProposalsSound, Founded, PaidFor, [Next]_vars PROVE PaidFor' OBVIOUS
<1>1. CASE UNCHANGED <<treasury, execution>>
 <2>1. Paid' = Paid BY <1>1 DEF Paid
 <2>2. QED BY <1>1, <2>1, NobodyPaid
<1>2. CASE Configure
 <2>1. /\ execution' = execution
       /\ treasury'.total_spent = treasury.total_spent
       /\ dao.live => treasury' = treasury
   BY <1>2 DEF Configure, InitializeDao, UpdateDao, TypeOK, DaoTreasury
 <2>2. Paid # {} => dao.live BY <2>1 DEF Paid, Founded
 <2>3. Paid' = Paid BY <2>1 DEF Paid
 <2>4. QED BY <2>1, <2>2, <2>3, NobodyPaid
<1>3. CASE Deposit
 <2>1. /\ execution' = execution
       /\ treasury'.total_spent = treasury.total_spent
       /\ treasury'.spend_limit = treasury.spend_limit
   BY <1>3 DEF Deposit, DepositTreasury, TypeOK, DaoTreasury
 <2>2. Paid' = Paid BY <2>1 DEF Paid
 <2>3. QED BY <2>1, <2>2, NobodyPaid
<1>4. ASSUME NEW p \in ProposalIds, ExecuteProposal(p)
      PROVE  PaidFor'
 <2>1. proposal[p].status = "Succeeded" /\ treasury' = treasury
       /\ execution' = [execution EXCEPT ![p] = "recorded"]
   BY <1>4 DEF ExecuteProposal, Executable, MarkExecuted
 <2>2. execution[p] = "None" BY <2>1 DEF ProposalsSound, ProposalSound
 <2>3. Paid' = Paid BY <2>1, <2>2 DEF Paid, TypeOK
 <2>4. QED BY <2>1, <2>3, NobodyPaid
<1>5. ASSUME NEW p \in ProposalIds, WithdrawTreasury(p)
      PROVE  PaidFor'
 <2> DEFINE amount == proposal[p].amount
            bill == [id |-> p, weight |-> amount]
 <2>1. /\ proposal[p].status = "Succeeded" /\ proposal[p].kind = "TreasurySpend"
       /\ amount <= treasury.spend_limit
       /\ treasury'.total_spent = treasury.total_spent + amount
       /\ treasury'.spend_limit = treasury.spend_limit
       /\ execution' = [execution EXCEPT ![p] = "treasury-spend"]
       /\ proposal' = [proposal EXCEPT ![p] =
                         [@ EXCEPT !.status = "Executed", !.executed = TRUE]]
   BY <1>5 DEF WithdrawTreasury, Executable, MarkExecuted, TypeOK, DaoTreasury
 <2>2. execution[p] = "None" BY <2>1 DEF ProposalsSound, ProposalSound
 <2>3. Paid' = Paid \cup {p} /\ p \notin Paid BY <2>1, <2>2 DEF Paid, TypeOK
 <2>4. \A q \in ProposalIds : /\ proposal'[q].amount = proposal[q].amount
                               /\ proposal'[q].kind = proposal[q].kind
   BY <2>1 DEF TypeOK, DaoProposal
 <2>5. Bills(Paid)' = Bills(Paid) \cup {bill} /\ bill \notin Bills(Paid)
  <3>1. \A q \in Paid' : q \in ProposalIds BY DEF Paid
  <3>2. Bills(Paid)' = {[id |-> q, weight |-> proposal[q].amount] : q \in Paid \cup {p}} BY <2>3, <2>4, <3>1 DEF Bills
  <3>3. QED BY <2>3, <3>2 DEF Bills
 <2>6. IsFiniteSet(Bills(Paid))
  <3>1. Paid \in SUBSET ProposalIds BY DEF Paid
  <3>2. IsFiniteSet(Paid) BY <3>1, DaoAssumption, FS_Subset
  <3>3. QED BY <3>2, BillsFinite
 <2>7. bill.weight = amount /\ amount \in U64 BY DEF TypeOK, DaoProposal
 <2>8. WeightOf(Bills(Paid) \cup {bill}) = WeightOf(Bills(Paid)) + amount
  <3> HIDE DEF bill, amount
  <3>1. QED BY <2>5, <2>6, <2>7, WeightOfMore
 <2>9. /\ treasury'.total_spent = WeightOf(Bills(Paid) \cup {bill})
       /\ \A q \in Paid \cup {p} : /\ proposal'[q].kind = "TreasurySpend"
                                    /\ proposal'[q].amount <= treasury'.spend_limit
  <3>1. Paid \subseteq ProposalIds BY DEF Paid
  <3> HIDE DEF bill
  <3>2. QED BY <2>1, <2>4, <2>8, <3>1, PaidForIsPaid
 <2>10. PaidFor' <=>
          /\ treasury'.total_spent = WeightOf(Bills(Paid)')
          /\ \A q \in Paid' : /\ proposal'[q].kind = "TreasurySpend"
                               /\ proposal'[q].amount <= treasury'.spend_limit
   BY DEF PaidFor, Bills, WeightOf, Units
 <2> HIDE DEF bill
 <2>11. QED BY <2>3, <2>5, <2>9, <2>10
<1>6. QED
  BY <1>1, <1>2, <1>3, <1>4, <1>5
     DEF Next, Tick, Join, Propose, Decide, RegisterMember, UpdateMember, CreateProposal,
         CastVote, FinalizeProposal, vars

----
\* What the accounts say besides their types and ProposalsSound.
Accounted == Founded /\ TalliesMatchRecords /\ Counted /\ PaidFor

LEMMA InitAccounted == Init => Accounted
<1> SUFFICES ASSUME Init PROVE Accounted OBVIOUS
<1>1. /\ \A p \in ProposalIds : votes[p] = {} /\ execution[p] = "None"
      /\ \A p \in ProposalIds : proposal[p] = NoProposal
      /\ \A w \in Wallets : member[w] = NoMember
  BY DEF Init
<1>2. Founded BY <1>1, FS_EmptySet DEF Founded
<1>3. TalliesMatchRecords
 <2>1. \A p \in ProposalIds, c \in VoteChoice : Choosing(p, c) = {} BY <1>1 DEF Choosing
 <2>2. QED
   BY <1>1, <2>1, WeightOfNone, FS_EmptySet, SMTT(20)
      DEF TalliesMatchRecords, NoProposal, VoteChoice
<1>4. Counted
 <2>1. /\ Members = {} /\ Proposed = {} /\ Recorded = {} /\ Pairs = {}
       /\ \A w \in Wallets : VotedBy(w) = {}
   BY <1>1 DEF Members, Proposed, Recorded, Pairs, VotedBy, Voted, NoMember, NoProposal
 <2>2. QED BY <1>1, <2>1, FS_EmptySet DEF Counted, Init, NoMember
<1>5. PaidFor
 <2>1. Paid = {} /\ Bills({}) = {} BY <1>1 DEF Paid, Bills
 <2>2. QED BY <2>1, WeightOfNone, PaidForIsPaid DEF Init
<1>6. QED BY <1>2, <1>3, <1>4, <1>5 DEF Accounted

\* In every reachable state the accounts agree with the records.
THEOREM AlwaysAccounted == Spec => []Accounted
<1>1. TypeOK /\ ProposalsSound /\ Accounted /\ [Next]_vars => Accounted'
  BY StepFounded, StepTallies, StepCounters, StepPaid DEF Accounted
<1>2. QED BY <1>1, InitAccounted, TypeCorrect, SoundAlways, PTL DEF Spec

\* claw_dao's counters are what its accounts hold: the five tallies of a
\* proposal are the weights and the number of its vote records, the config
\* account's totals count the accounts that exist, and a proposal that
\* passed did so after its end, on the recorded weight.
THEOREM VotesAlwaysCounted == Spec => []VotesAreCounted
<1>1. TypeOK /\ ProposalsSound /\ Accounted => VotesAreCounted
 <2> SUFFICES ASSUME TypeOK, ProposalsSound, Accounted PROVE VotesAreCounted OBVIOUS
 <2>1. TalliesMatchRecords /\ CountersMatchAccounts BY CountedIsCounters DEF Accounted
 <2>2. VerdictRestsOnVotes BY <2>1 DEF VerdictRestsOnVotes, ProposalsSound, ProposalSound, TalliesMatchRecords
 <2>3. QED BY <2>1, <2>2 DEF VotesAreCounted
<1>2. QED BY <1>1, AlwaysAccounted, TypeCorrect, SoundAlways, PTL

\* The vault holds what was deposited and not spent; what was spent is the
\* sum of the amounts of the proposals paid, each a treasury spend within
\* the limit.
THEOREM TreasuryAlwaysBalances == Spec => []TreasuryBalances
<1>1. BooksBalance /\ Accounted => TreasuryBalances BY DEF Accounted, PaidFor, TreasuryBalances
<1>2. QED BY <1>1, AlwaysAccounted, BooksAlwaysBalance, PTL

----
\* The discovery rows.  A row that exists was made of a proposal, and a row
\* that shows a verdict was made after the verdict.

DaoRow == [exists : BOOLEAN, status : {"None", "Active", "Succeeded", "Defeated", "Executed"},
           yes_votes : Nat, no_votes : Nat, abstain_votes : Nat, total_votes : Nat, rank : Nat]

RowSound(p) ==
  row[p].exists =>
    LET r == row[p]
        pr == proposal[p]
    IN /\ r.yes_votes + r.no_votes + r.abstain_votes = r.total_votes
       /\ r.yes_votes <= pr.yes_votes /\ r.no_votes <= pr.no_votes
       /\ r.abstain_votes <= pr.abstain_votes
       /\ r.status # "Active" =>
            /\ r.total_votes = pr.total_votes /\ r.yes_votes = pr.yes_votes
            /\ r.rank = RankOf(p)
            /\ pr.status # "Active"
       /\ pr.status # "None"

RowInv == row \in [ProposalIds -> DaoRow] /\ \A p \in ProposalIds : RowSound(p)

\* A rank is a natural number.
LEMMA RankIsNat ==
  ASSUME NEW pr \in DaoProposal
  PROVE  RankScore(pr.yes_votes, pr.no_votes, pr.abstain_votes, pr.total_votes,
                   pr.quorum_bps, pr.approval_threshold_bps) \in Nat
<1> DEFINE y == pr.yes_votes
           n == pr.no_votes
           a == pr.abstain_votes
           t == pr.total_votes
           x1 == pr.quorum_bps \div 2
           x2 == pr.approval_threshold_bps \div 2
           s == WrappingAdd(y, n)
           d == WrappingAdd(WrappingAdd(s, a), 1)
           e == WrappingAdd(s, 1)
           x3 == BpsFromRatio(t, d)
           x4 == BpsFromRatio(y, e)
<1>1. y \in Nat /\ n \in Nat /\ a \in Nat /\ t \in Nat /\ x1 \in Nat /\ x2 \in Nat BY DEF DaoProposal, U64
<1>2. ASSUME NEW i \in Nat, NEW j \in Nat PROVE WrappingAdd(i, j) \in Nat
 <2>1. i + j \in Nat /\ U64Max + 1 \in Nat \ {0} BY NumbersAssumption
 <2> QED BY <2>1 DEF WrappingAdd
<1>3. s \in Nat BY <1>1, <1>2
<1> HIDE DEF y, n, a, t, s, x1, x2
<1>4. d \in Nat /\ e \in Nat BY <1>1, <1>2, <1>3
<1> HIDE DEF d, e
<1>5. x3 \in 0 .. BpsScale /\ x4 \in 0 .. BpsScale BY <1>1, <1>4, BpsAtMostWhole
<1>6. x3 \in Nat /\ x4 \in Nat BY <1>5, NumbersAssumption
<1> HIDE DEF x3, x4
<1>7. Lesser(x1 + x2 + x3 \div 2 + x4 \div 2, BpsScale) \in Nat BY <1>1, <1>6, NumbersAssumption DEF Lesser
<1> QED BY <1>7 DEF RankScore, y, n, a, t, s, d, e, x1, x2, x3, x4

LEMMA InitRows == DiscoveryInit => RowInv
BY DEF DiscoveryInit, RowInv, RowSound, NoRow, DaoRow

\* A row stays sound while votes are only added to an active proposal.
LEMMA RowKept ==
  ASSUME TypeOK, TypeOK', RowInv, row' = row, NEW p \in ProposalIds,
         proposal[p].status # "None" =>
           /\ proposal'[p].status # "None"
           /\ proposal[p].yes_votes <= proposal'[p].yes_votes
           /\ proposal[p].no_votes <= proposal'[p].no_votes
           /\ proposal[p].abstain_votes <= proposal'[p].abstain_votes
           /\ proposal[p].status # "Active" =>
                /\ proposal'[p].status # "Active"
                /\ proposal'[p].yes_votes = proposal[p].yes_votes
                /\ proposal'[p].no_votes = proposal[p].no_votes
                /\ proposal'[p].abstain_votes = proposal[p].abstain_votes
                /\ proposal'[p].total_votes = proposal[p].total_votes
                /\ proposal'[p].quorum_bps = proposal[p].quorum_bps
                /\ proposal'[p].approval_threshold_bps = proposal[p].approval_threshold_bps
  PROVE  RowSound(p)'
<1> SUFFICES ASSUME row[p].exists PROVE RowSound(p)' BY DEF RowSound
<1> DEFINE r == row[p]
           pr == proposal[p]
           new == proposal'[p]
<1>1. pr \in DaoProposal /\ new \in DaoProposal /\ r \in DaoRow /\ RowSound(p) BY DEF TypeOK, RowInv
<1>2. /\ r.yes_votes \in Nat /\ r.no_votes \in Nat /\ r.abstain_votes \in Nat
      /\ pr.yes_votes \in Nat /\ pr.no_votes \in Nat /\ pr.abstain_votes \in Nat
      /\ new.yes_votes \in Nat /\ new.no_votes \in Nat /\ new.abstain_votes \in Nat
  BY <1>1 DEF DaoProposal, DaoRow, U64
<1>3. /\ r.yes_votes + r.no_votes + r.abstain_votes = r.total_votes
      /\ r.yes_votes <= pr.yes_votes /\ r.no_votes <= pr.no_votes
      /\ r.abstain_votes <= pr.abstain_votes /\ pr.status # "None"
  BY <1>1 DEF RowSound
<1>4. /\ r.yes_votes <= new.yes_votes /\ r.no_votes <= new.no_votes
      /\ r.abstain_votes <= new.abstain_votes /\ new.status # "None"
 <2> HIDE DEF r
 <2> QED BY <1>2, <1>3
<1>5. ASSUME r.status # "Active"
      PROVE  /\ r.total_votes = new.total_votes /\ r.yes_votes = new.yes_votes
             /\ r.rank = RankOf(p)' /\ new.status # "Active"
 <2>1. /\ r.total_votes = pr.total_votes /\ r.yes_votes = pr.yes_votes
       /\ r.rank = RankOf(p) /\ pr.status # "Active"
   BY <1>1, <1>5 DEF RowSound
 <2>2. RankOf(p)' = RankOf(p) BY <1>3, <2>1 DEF RankOf
 <2> QED BY <1>3, <2>1, <2>2
<1>6. r.yes_votes + r.no_votes + r.abstain_votes = r.total_votes BY <1>3
<1> QED BY <1>4, <1>5, <1>6 DEF RowSound

\* What an instruction of the program may do to the votes of a proposal.
LEMMA StepVotes ==
  ASSUME TypeOK, TypeOK', [Next]_vars, NEW p \in ProposalIds, proposal[p].status # "None"
  PROVE  /\ proposal'[p].status # "None"
         /\ proposal[p].yes_votes <= proposal'[p].yes_votes
         /\ proposal[p].no_votes <= proposal'[p].no_votes
         /\ proposal[p].abstain_votes <= proposal'[p].abstain_votes
         /\ proposal[p].status # "Active" =>
              /\ proposal'[p].status # "Active"
              /\ proposal'[p].yes_votes = proposal[p].yes_votes
              /\ proposal'[p].no_votes = proposal[p].no_votes
              /\ proposal'[p].abstain_votes = proposal[p].abstain_votes
              /\ proposal'[p].total_votes = proposal[p].total_votes
              /\ proposal'[p].quorum_bps = proposal[p].quorum_bps
              /\ proposal'[p].approval_threshold_bps = proposal[p].approval_threshold_bps
<1> DEFINE pr == proposal[p]
           new == proposal'[p]
<1>1. /\ pr \in DaoProposal /\ pr.yes_votes \in Nat /\ pr.no_votes \in Nat
      /\ pr.abstain_votes \in Nat /\ pr.total_votes \in Nat
  BY DEF TypeOK, DaoProposal, U64
<1>2. ASSUME NEW w \in Wallets, NEW c \in VoteChoice, CastVote(w, p, c)
      PROVE  /\ new.status = "Active" /\ pr.status = "Active"
             /\ pr.yes_votes <= new.yes_votes /\ pr.no_votes <= new.no_votes
             /\ pr.abstain_votes <= new.abstain_votes
 <2> DEFINE weight == member[w].voting_power
            t == Tallied(pr, c, weight)
 <2>1. weight \in Nat BY DEF TypeOK, DaoMember, U64
 <2>2. /\ t.yes_votes = IF c = "Yes" THEN pr.yes_votes + weight ELSE pr.yes_votes
       /\ t.no_votes = IF c = "No" THEN pr.no_votes + weight ELSE pr.no_votes
       /\ t.abstain_votes = IF c = "Abstain" THEN pr.abstain_votes + weight
                            ELSE pr.abstain_votes
       /\ t.status = pr.status
   BY <1>1 DEF Tallied, DaoProposal
 <2>3. new = t /\ pr.status = "Active" BY <1>2 DEF CastVote, VotingOpen, TypeOK
 <2> HIDE DEF t, weight, pr, new
 <2> QED BY <1>1, <2>1, <2>2, <2>3
<1>3. ASSUME FinalizeProposal(p)
      PROVE  \E s \in {"Succeeded", "Defeated"} : new = [pr EXCEPT !.status = s]
  BY <1>3 DEF FinalizeProposal, TypeOK
<1>4. ASSUME ExecuteProposal(p) \/ WithdrawTreasury(p)
      PROVE  new = [pr EXCEPT !.status = "Executed", !.executed = TRUE]
  BY <1>4 DEF ExecuteProposal, WithdrawTreasury, MarkExecuted, TypeOK
<1>5. ASSUME NEW w, NEW k, NEW a, NEW d, CreateProposal(w, p, k, a, d) PROVE FALSE BY <1>5 DEF CreateProposal
<1>6. CASE UNCHANGED <<proposal[p], votes[p], execution[p]>> BY <1>1, <1>6
<1>7. CASE \E s \in {"Succeeded", "Defeated"} : new = [pr EXCEPT !.status = s] BY <1>1, <1>7 DEF DaoProposal
<1>8. CASE new = [pr EXCEPT !.status = "Executed", !.executed = TRUE] BY <1>1, <1>8 DEF DaoProposal
<1> QED BY <1>2, <1>3, <1>4, <1>5, <1>6, <1>7, <1>8, StepTouches

LEMMA StepRows ==
  TypeOK /\ TypeOK' /\ ProposalsSound /\ RowInv /\ [DiscoveryNext]_<<vars, row>> => RowInv'
<1> SUFFICES ASSUME TypeOK, TypeOK', ProposalsSound, RowInv, [DiscoveryNext]_<<vars, row>>
             PROVE  RowInv'
  OBVIOUS
<1>1. CASE [Next]_vars /\ row' = row
 <2>1. ASSUME NEW p \in ProposalIds PROVE RowSound(p)' BY <1>1, StepVotes, RowKept
 <2> QED BY <1>1, <2>1 DEF RowInv
<1>2. ASSUME NEW q \in ProposalIds, RefreshDiscovery(q) PROVE RowInv'
 <2> DEFINE pr == proposal[q]
            r == Snapshot(q)
 <2>1. row' = [row EXCEPT ![q] = r] /\ pr.status # "None" /\ UNCHANGED vars BY <1>2 DEF RefreshDiscovery, Refreshed
 <2>2. UNCHANGED proposal BY <2>1 DEF vars
 <2>3. pr \in DaoProposal /\ row \in [ProposalIds -> DaoRow] BY DEF TypeOK, RowInv
 <2>4. RankOf(q) \in Nat BY <2>3, RankIsNat DEF RankOf
 <2>5. r \in DaoRow BY <2>3, <2>4 DEF Snapshot, DaoRow, DaoProposal, U64
 <2>6. RankOf(q)' = RankOf(q) BY <2>2 DEF RankOf
 <2>7. pr.yes_votes + pr.no_votes + pr.abstain_votes = pr.total_votes BY DEF ProposalsSound, ProposalSound
 <2>8. /\ r.yes_votes = pr.yes_votes /\ r.no_votes = pr.no_votes /\ r.status = pr.status
       /\ r.abstain_votes = pr.abstain_votes /\ r.total_votes = pr.total_votes
       /\ r.rank = RankOf(q)
   BY DEF Snapshot
 <2>9. pr.yes_votes \in Nat /\ pr.no_votes \in Nat /\ pr.abstain_votes \in Nat BY <2>3 DEF DaoProposal, U64
 <2> HIDE DEF r
 <2>10. row' \in [ProposalIds -> DaoRow] /\ row'[q] = r
        /\ \A p \in ProposalIds : p # q => row'[p] = row[p]
   BY <2>1, <2>3, <2>5
 <2>11. RowSound(q)' BY <2>1, <2>2, <2>6, <2>7, <2>8, <2>9, <2>10 DEF RowSound
 <2>12. ASSUME NEW p \in ProposalIds, p # q PROVE RowSound(p)'
  <3>1. row'[p] = row[p] /\ RowSound(p) /\ RankOf(p)' = RankOf(p) BY <2>2, <2>10, <2>12 DEF RowInv, RankOf
  <3> QED BY <2>2, <3>1 DEF RowSound
 <2> QED BY <2>10, <2>11, <2>12 DEF RowInv
<1> QED BY <1>1, <1>2 DEF DiscoveryNext

LEMMA DiscoveryIsDao == DiscoverySpec => Spec
<1>1. DiscoveryInit => Init BY DEF DiscoveryInit
<1>2. [DiscoveryNext]_<<vars, row>> => [Next]_vars BY DEF DiscoveryNext, RefreshDiscovery
<1> QED BY <1>1, <1>2, PTL DEF DiscoverySpec, Spec

\* Whoever refreshes it and whenever, a discovery row is a whole picture
\* of its proposal at an earlier moment, and final once it shows a verdict.
THEOREM RowsAlwaysSnapshots == DiscoverySpec => []RowsAreSnapshots
<1>1. RowInv => RowsAreSnapshots BY DEF RowInv, RowSound, RowsAreSnapshots
<1>2. DiscoverySpec => []RowInv BY InitRows, StepRows, DiscoveryIsDao, TypeCorrect, SoundAlways, PTL DEF DiscoverySpec
<1> QED BY <1>1, <1>2, PTL

\* More votes on the side of the numerator do not lower a ratio whose
\* denominator is one more than the votes.
LEMMA RatioOfMore ==
  ASSUME NEW y \in Nat, NEW k \in Nat, NEW m \in Nat, (y + k) * BpsScale <= U64Max
  PROVE  BpsFromRatio(y, y + m + 1) <= BpsFromRatio(y + k, y + k + m + 1)
<1> DEFINE S == BpsScale
           b == y + m + 1
           d == y + k + m + 1
           t == BpsFromRatio(y, b)
           u == BpsFromRatio(y + k, d)
<1>1. S \in Nat /\ b \in Nat \ {0} /\ d \in Nat \ {0} /\ y + k \in Nat /\ U64Max \in Nat BY NumbersAssumption
<1>2. t \in 0 .. S /\ u \in 0 .. S BY <1>1, BpsAtMostWhole
<1>3. /\ y * S \in Nat /\ k * S \in Nat /\ (y + k) * S = y * S + k * S
      /\ y * S <= U64Max
 <2>1. y * S \in Nat /\ k * S \in Nat /\ (y + k) * S = y * S + k * S BY <1>1
 <2> QED BY <1>1, <2>1
<1> HIDE DEF t, u
<1>4. y * S >= t * b
 <2>1. t >= t BY <1>2
 <2> QED BY <1>1, <1>2, <1>3, <2>1, BpsExactUnsaturated DEF t
<1>5. t * b \in Nat /\ k * t \in Nat /\ t * d = t * b + k * t
 <2>1. t \in Nat BY <1>1, <1>2
 <2>2. d = b + k OBVIOUS
 <2> HIDE DEF b, d
 <2>3. t * (b + k) = t * b + t * k /\ t * k = k * t BY <1>1, <2>1
 <2> QED BY <1>1, <2>1, <2>2, <2>3
<1>6. k * t <= k * S
 <2>1. t \in Nat /\ t <= S BY <1>1, <1>2
 <2>2. t * k <= S * k BY <1>1, <2>1, ProductMonotone
 <2> QED BY <1>1, <2>1, <2>2
<1>7. (y + k) * S >= t * d
 <2> HIDE DEF b, d, S
 <2> QED BY <1>3, <1>4, <1>5, <1>6
<1>8. u >= t BY <1>1, <1>2, <1>7, BpsExactUnsaturated DEF u
<1> QED BY <1>8 DEF t, u

\* A step that adds to the yes votes of a proposal adds as much to its
\* total and nothing else to its votes.
LEMMA YesStep ==
  ASSUME TypeOK, TypeOK', [Next]_vars, NEW p \in ProposalIds,
         proposal'[p].yes_votes > proposal[p].yes_votes
  PROVE  \E k \in Nat :
           /\ proposal'[p].yes_votes = proposal[p].yes_votes + k
           /\ proposal'[p].no_votes = proposal[p].no_votes
           /\ proposal'[p].abstain_votes = proposal[p].abstain_votes
           /\ proposal'[p].quorum_bps = proposal[p].quorum_bps
           /\ proposal'[p].approval_threshold_bps = proposal[p].approval_threshold_bps
<1> DEFINE pr == proposal[p]
           new == proposal'[p]
<1>1. pr \in DaoProposal /\ pr.yes_votes \in Nat /\ new.yes_votes > pr.yes_votes BY DEF TypeOK, DaoProposal, U64
<1>2. ASSUME NEW w \in Wallets, NEW c \in VoteChoice, CastVote(w, p, c)
      PROVE  \E k \in Nat :
               /\ new.yes_votes = pr.yes_votes + k /\ new.no_votes = pr.no_votes
               /\ new.abstain_votes = pr.abstain_votes /\ new.quorum_bps = pr.quorum_bps
               /\ new.approval_threshold_bps = pr.approval_threshold_bps
 <2> DEFINE weight == member[w].voting_power
            t == Tallied(pr, c, weight)
 <2>1. weight \in Nat BY DEF TypeOK, DaoMember, U64
 <2>2. /\ t.yes_votes = IF c = "Yes" THEN pr.yes_votes + weight ELSE pr.yes_votes
       /\ t.no_votes = IF c = "No" THEN pr.no_votes + weight ELSE pr.no_votes
       /\ t.abstain_votes = IF c = "Abstain" THEN pr.abstain_votes + weight
                            ELSE pr.abstain_votes
       /\ t.quorum_bps = pr.quorum_bps
       /\ t.approval_threshold_bps = pr.approval_threshold_bps
   BY <1>1 DEF Tallied, DaoProposal
 <2>3. new = t BY <1>2 DEF CastVote, TypeOK
 <2> HIDE DEF t, weight, pr, new
 <2>4. c = "Yes" BY <1>1, <2>2, <2>3
 <2> QED BY <2>1, <2>2, <2>3, <2>4
<1>3. ASSUME NEW w, NEW k, NEW a, NEW d, CreateProposal(w, p, k, a, d) PROVE FALSE
 <2>1. new.yes_votes = 0 BY <1>3 DEF CreateProposal, NoProposal, TypeOK
 <2> HIDE DEF pr, new
 <2> QED BY <1>1, <2>1
<1>4. ASSUME new.yes_votes = pr.yes_votes PROVE FALSE
 <2> HIDE DEF pr, new
 <2> QED BY <1>1, <1>4
<1>5. ASSUME FinalizeProposal(p) PROVE new.yes_votes = pr.yes_votes
  BY <1>1, <1>5 DEF FinalizeProposal, TypeOK, DaoProposal
<1>6. ASSUME ExecuteProposal(p) \/ WithdrawTreasury(p) PROVE new.yes_votes = pr.yes_votes
 <2>1. new = [pr EXCEPT !.status = "Executed", !.executed = TRUE]
   BY <1>6 DEF ExecuteProposal, WithdrawTreasury, MarkExecuted, TypeOK
 <2> HIDE DEF pr, new
 <2> QED BY <1>1, <2>1 DEF DaoProposal
<1> QED BY <1>2, <1>3, <1>4, <1>5, <1>6, StepTouches

\* The rank before and after such a step, while the product of the total
\* fits and a whole is more than one basis point: no sum of the two
\* denominators wraps then.
LEMMA RankGrows ==
  ASSUME BpsScale > 1, NEW y \in Nat, NEW n \in Nat, NEW a \in Nat, NEW k \in Nat,
         NEW q \in Nat, NEW h \in Nat, (y + k + n + a) * BpsScale <= U64Max
  PROVE  RankScore(y, n, a, y + n + a, q, h) <= RankScore(y + k, n, a, y + k + n + a, q, h)
<1> DEFINE t == y + n + a
           z == y + k + n + a
<1>1. U64Max \in Nat /\ BpsScale \in Nat /\ t \in Nat /\ z \in Nat /\ y + k \in Nat BY NumbersAssumption
<1>2. z * BpsScale <= U64Max /\ z * BpsScale \in Nat BY <1>1
<1>3. z = 0 \/ z + 1 <= U64Max
 <2>1. z * 2 <= z * BpsScale
  <3>1. 2 * z <= BpsScale * z BY <1>1, ProductMonotone
  <3> HIDE DEF z
  <3> QED BY <1>1, <3>1
 <2> HIDE DEF z
 <2> QED BY <1>1, <1>2, <2>1
<1>4. z + 1 <= U64Max BY <1>1, <1>3, NumbersAssumption
<1>5. /\ WrappingAdd(y, n) = y + n /\ WrappingAdd(y + n, a) = t
      /\ WrappingAdd(t, 1) = t + 1 /\ WrappingAdd(y + n, 1) = y + n + 1
  BY <1>1, <1>4, WrappingAddFits
<1>6. /\ WrappingAdd(y + k, n) = y + k + n /\ WrappingAdd(y + k + n, a) = z
      /\ WrappingAdd(z, 1) = z + 1 /\ WrappingAdd(y + k + n, 1) = y + k + n + 1
  BY <1>1, <1>4, WrappingAddFits
<1> DEFINE p1 == BpsFromRatio(t, t + 1)
           p2 == BpsFromRatio(z, z + 1)
           a1 == BpsFromRatio(y, y + n + 1)
           a2 == BpsFromRatio(y + k, y + k + n + 1)
<1>7. p1 <= p2
 <2>1. z = t + k /\ t + 0 + 1 = t + 1 /\ t + k + 0 + 1 = z + 1 BY <1>1
 <2>2. (t + k) * BpsScale <= U64Max BY <1>2, <2>1
 <2> HIDE DEF t, z
 <2>3. BpsFromRatio(t, t + 0 + 1) <= BpsFromRatio(t + k, t + k + 0 + 1) BY <1>1, <2>2, RatioOfMore
 <2> QED BY <2>1, <2>3
<1>8. a1 <= a2
 <2>1. (y + k) * BpsScale <= z * BpsScale BY <1>1, ProductMonotone
 <2>2. (y + k) * BpsScale \in Nat BY <1>1
 <2>3. (y + k) * BpsScale <= U64Max BY <1>1, <1>2, <2>1, <2>2
 <2> QED BY <2>3, RatioOfMore
<1>9. p1 \in 0 .. BpsScale /\ p2 \in 0 .. BpsScale /\ a1 \in 0 .. BpsScale /\ a2 \in 0 .. BpsScale
 <2>1. t + 1 \in Nat /\ z + 1 \in Nat /\ y + n + 1 \in Nat /\ y + k + n + 1 \in Nat BY <1>1
 <2>2. p1 \in 0 .. BpsScale BY <1>1, <2>1, BpsAtMostWhole
 <2>3. p2 \in 0 .. BpsScale BY <1>1, <2>1, BpsAtMostWhole
 <2>4. a1 \in 0 .. BpsScale BY <1>1, <2>1, BpsAtMostWhole
 <2>5. a2 \in 0 .. BpsScale BY <1>1, <2>1, BpsAtMostWhole
 <2> QED BY <2>2, <2>3, <2>4, <2>5
<1>10. RankScore(y, n, a, t, q, h) = Lesser(q \div 2 + h \div 2 + p1 \div 2 + a1 \div 2, BpsScale)
  BY <1>5 DEF RankScore
<1>11. RankScore(y + k, n, a, z, q, h)
         = Lesser(q \div 2 + h \div 2 + p2 \div 2 + a2 \div 2, BpsScale)
  BY <1>6 DEF RankScore
<1> HIDE DEF p1, p2, a1, a2
<1>12. p1 \in Nat /\ p2 \in Nat /\ a1 \in Nat /\ a2 \in Nat BY <1>1, <1>9
<1>13. p1 \div 2 <= p2 \div 2 /\ a1 \div 2 <= a2 \div 2 BY <1>7, <1>8, <1>12
<1> DEFINE s1 == q \div 2 + h \div 2 + p1 \div 2 + a1 \div 2
           s2 == q \div 2 + h \div 2 + p2 \div 2 + a2 \div 2
<1>14. s1 \in Nat /\ s2 \in Nat /\ s1 <= s2 BY <1>12, <1>13
<1> HIDE DEF s1, s2
<1>15. Lesser(s1, BpsScale) <= Lesser(s2, BpsScale) BY <1>1, <1>14 DEF Lesser
<1> QED BY <1>10, <1>11, <1>15 DEF s1, s2

LEMMA YesRaises ==
  ASSUME BpsScale > 1, TypeOK, TypeOK', ProposalsSound, ProposalsSound', [Next]_vars,
         NEW p \in ProposalIds, proposal'[p].yes_votes > proposal[p].yes_votes,
         proposal'[p].total_votes * BpsScale <= U64Max
  PROVE  RankOf(p)' >= RankOf(p)
<1> DEFINE y == proposal[p].yes_votes
           n == proposal[p].no_votes
           a == proposal[p].abstain_votes
           q == proposal[p].quorum_bps
           h == proposal[p].approval_threshold_bps
<1>1. PICK k \in Nat :
           /\ proposal'[p].yes_votes = y + k
           /\ proposal'[p].no_votes = n
           /\ proposal'[p].abstain_votes = a
           /\ proposal'[p].quorum_bps = q
           /\ proposal'[p].approval_threshold_bps = h
  BY YesStep
<1>2. y \in Nat /\ n \in Nat /\ a \in Nat /\ q \in Nat /\ h \in Nat BY DEF TypeOK, DaoProposal, U64
<1>3. proposal[p].total_votes = y + n + a BY DEF ProposalsSound, ProposalSound
<1>4. proposal'[p].total_votes = y + k + n + a BY <1>1 DEF ProposalsSound, ProposalSound
<1>5. RankOf(p) = RankScore(y, n, a, y + n + a, q, h) BY <1>3 DEF RankOf
<1>6. RankOf(p)' = RankScore(y + k, n, a, y + k + n + a, q, h) BY <1>1, <1>4 DEF RankOf
<1>7. (y + k + n + a) * BpsScale <= U64Max BY <1>4
<1> HIDE DEF y, n, a, q, h
<1>8. RankScore(y, n, a, y + n + a, q, h) <= RankScore(y + k, n, a, y + k + n + a, q, h) BY <1>2, <1>7, RankGrows
<1>9. RankScore(y, n, a, y + n + a, q, h) \in Nat
      /\ RankScore(y + k, n, a, y + k + n + a, q, h) \in Nat
 <2>1. RankOf(p) \in Nat BY RankIsNat DEF RankOf, TypeOK
 <2>2. RankOf(p)' \in Nat BY RankIsNat DEF RankOf, TypeOK
 <2> QED BY <1>5, <1>6, <2>1, <2>2
<1> QED BY <1>5, <1>6, <1>8, <1>9

\* A yes vote never lowers the rank of its proposal while the product of
\* its total does not saturate.
THEOREM YesRaisesRank == ASSUME BpsScale > 1 PROVE Spec => YesNeverLowersRank
<1>1. TypeOK /\ TypeOK' /\ ProposalsSound /\ ProposalsSound' /\ [Next]_vars
        => [\A p \in ProposalIds :
              (proposal'[p].yes_votes > proposal[p].yes_votes
                 /\ proposal'[p].total_votes * BpsScale <= U64Max)
                => RankOf(p)' >= RankOf(p)]_vars
  BY YesRaises
<1> QED BY <1>1, TypeCorrect, SoundAlways, PTL DEF Spec, YesNeverLowersRank
=============================================================================
