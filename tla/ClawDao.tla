------------------------------- MODULE ClawDao -------------------------------
(***************************************************************************)
(* The claw_dao program: a DAO configured once, members with a stake-      *)
(* derived voting power, proposals voted on until a slot, finalized by     *)
(* anyone after it, and executed once, possibly paying from the treasury.  *)
(*                                                                         *)
(* One action is one instruction. An instruction that fails a require! or  *)
(* a checked_add changes nothing (the runtime rolls the transaction back), *)
(* so it is not a step. Accounts created by `init` exist at most once per  *)
(* seed: votes[p] holds the dao-vote accounts of proposal p, one per voter. *)
(***************************************************************************)
EXTENDS ClawNumbers

CONSTANTS
  Wallets,       \* wallets that may become members
  ProposalIds,   \* proposal_id values
  Kinds,         \* the proposal kinds that are proposed
  Stakes,        \* stake_lamports arguments
  Reputations,   \* reputation_points arguments
  MinStakes,     \* min_stake_lamports arguments
  QuorumBps,     \* quorum_bps arguments
  ThresholdBps,  \* proposal_threshold_bps arguments
  Durations,     \* vote_duration_slots arguments
  Amounts,       \* amount_lamports arguments
  SpendLimits,   \* spend_limit_lamports arguments
  MaxSlot        \* bound: the last slot of the clock

ProposalKind == {"TreasurySpend", "ParameterChange", "SkillApprove",
                 "SkillVersionApprove", "DAOGrant", "Text"}
VoteChoice == {"Yes", "No", "Abstain"}

ASSUME DaoAssumption ==
  /\ IsFiniteSet(Wallets) /\ IsFiniteSet(ProposalIds)
  /\ Kinds \subseteq ProposalKind
  /\ Stakes \subseteq U64 /\ Reputations \subseteq U64 /\ MinStakes \subseteq U64
  /\ Durations \subseteq U64 /\ Amounts \subseteq U64 /\ SpendLimits \subseteq U64
  /\ QuorumBps \subseteq Nat /\ ThresholdBps \subseteq Nat
  /\ MaxSlot \in U64

VARIABLES
  slot,       \* Clock::get()?.slot
  dao,        \* the DaoConfig account (its existence is dao.live)
  treasury,   \* the DaoTreasury account
  vault,      \* lamports of the treasury above its rent reserve
  member,     \* the DaoMember accounts (m.joined: the account exists)
  proposal,   \* the DaoProposal accounts (status "None": no account)
  votes,      \* the DaoVoteRecord accounts of each proposal
  execution   \* the result of the DaoExecutionRecord accounts

vars == <<slot, dao, treasury, vault, member, proposal, votes, execution>>

(* Fault: plain arithmetic instead of saturating_add / saturating_mul *)
PowerUnchecked(stake, reputation) == stake + reputation * 10

VotingPower(stake, reputation) ==
  SaturatingAdd(stake, SaturatingMul(reputation, 10))

NoMember == [joined |-> FALSE, active |-> FALSE, stake |-> 0, reputation |-> 0,
             voting_power |-> 0, proposals_created |-> 0, votes_cast |-> 0]

NoProposal == [status |-> "None", kind |-> "Text", amount |-> 0, end_slot |-> 0,
               quorum_bps |-> 0, approval_threshold_bps |-> 0,
               yes_votes |-> 0, no_votes |-> 0, abstain_votes |-> 0,
               total_votes |-> 0, voter_count |-> 0, executed |-> FALSE]

Init ==
  /\ slot = 0
  /\ dao = [live |-> FALSE, paused |-> FALSE, quorum_bps |-> 0,
            proposal_threshold_bps |-> 0, vote_duration |-> 0, min_stake |-> 0,
            total_members |-> 0, total_proposals |-> 0, total_votes |-> 0,
            total_executed |-> 0, total_treasury_spend |-> 0]
  /\ treasury = [spend_limit |-> 0, total_deposits |-> 0, total_spent |-> 0]
  /\ vault = 0
  /\ member = [w \in Wallets |-> NoMember]
  /\ proposal = [p \in ProposalIds |-> NoProposal]
  /\ votes = [p \in ProposalIds |-> {}]
  /\ execution = [p \in ProposalIds |-> "None"]

(* Slots pass whether or not anyone calls the program.                     *)
Tick ==
  /\ slot < MaxSlot
  /\ slot' = slot + 1
  /\ UNCHANGED <<dao, treasury, vault, member, proposal, votes, execution>>

InitializeDao(quorum, threshold, duration, minStake, limit) ==
  /\ ~dao.live
  /\ dao' = [dao EXCEPT !.live = TRUE, !.quorum_bps = quorum,
               !.proposal_threshold_bps = threshold,
               !.vote_duration = duration, !.min_stake = minStake]
  /\ treasury' = [treasury EXCEPT !.spend_limit = limit]
  /\ UNCHANGED <<slot, vault, member, proposal, votes, execution>>

(* Only dao.authority; an argument that is None keeps the current value.   *)
UpdateDao(paused, quorum, threshold, duration, minStake) ==
  /\ dao.live
  /\ dao' = [dao EXCEPT !.paused = paused, !.quorum_bps = quorum,
               !.proposal_threshold_bps = threshold,
               !.vote_duration = duration, !.min_stake = minStake]
  /\ UNCHANGED <<slot, treasury, vault, member, proposal, votes, execution>>

RegisterMember(w, stake, reputation) ==
  /\ dao.live /\ ~dao.paused
  /\ ~member[w].joined
  /\ stake >= dao.min_stake
  /\ Fits(dao.total_members + 1)
  /\ member' = [member EXCEPT ![w] =
                  [NoMember EXCEPT !.joined = TRUE, !.active = TRUE,
                     !.stake = stake, !.reputation = reputation,
                     !.voting_power = VotingPower(stake, reputation)]]
  /\ dao' = [dao EXCEPT !.total_members = @ + 1]
  /\ UNCHANGED <<slot, treasury, vault, proposal, votes, execution>>

(* Signed by the member itself; the pause and the minimum stake are not    *)
(* looked at, and deactivating does not leave total_members.               *)
UpdateMember(w, stake, reputation, active) ==
  /\ dao.live /\ member[w].joined
  /\ member' = [member EXCEPT ![w] =
                  [@ EXCEPT !.stake = stake, !.reputation = reputation, !.active = active,
                     !.voting_power = VotingPower(stake, reputation)]]
  /\ UNCHANGED <<slot, dao, treasury, vault, proposal, votes, execution>>

CreateProposal(w, p, kind, amount, duration) ==
  /\ dao.live /\ ~dao.paused
  /\ member[w].joined /\ member[w].active
  /\ proposal[p].status = "None"
  /\ Fits(member[w].proposals_created + 1) /\ Fits(dao.total_proposals + 1)
  /\ proposal' = [proposal EXCEPT ![p] =
       [NoProposal EXCEPT !.status = "Active", !.kind = kind, !.amount = amount,
          !.end_slot = SaturatingAdd(slot, Greater(duration, dao.vote_duration)),
          !.quorum_bps = dao.quorum_bps,
          !.approval_threshold_bps = dao.proposal_threshold_bps]]
  /\ member' = [member EXCEPT ![w].proposals_created = @ + 1]
  /\ dao' = [dao EXCEPT !.total_proposals = @ + 1]
  /\ UNCHANGED <<slot, treasury, vault, votes, execution>>

Voted(w, p) == \E v \in votes[p] : v.voter = w

(* The proposal account after one more vote of the given weight.           *)
Tallied(pr, choice, weight) ==
  [pr EXCEPT !.yes_votes = IF choice = "Yes" THEN @ + weight ELSE @,
             !.no_votes = IF choice = "No" THEN @ + weight ELSE @,
             !.abstain_votes = IF choice = "Abstain" THEN @ + weight ELSE @,
             !.total_votes = @ + weight,
             !.voter_count = @ + 1]

(* Fault: the end slot is not checked, only the status *)
VotingOpenUntilFinalized(p) == proposal[p].status = "Active"
VotingOpen(p) == proposal[p].status = "Active" /\ slot <= proposal[p].end_slot

(* Fault: the total is not checked *)
ChoicesFit(t) == Fits(t.yes_votes) /\ Fits(t.no_votes) /\ Fits(t.abstain_votes)
(* The checked additions; the total bounds the three choices and their sum. *)
TallyFits(t) ==
  /\ Fits(t.yes_votes) /\ Fits(t.no_votes) /\ Fits(t.abstain_votes)
  /\ Fits(t.total_votes) /\ Fits(t.voter_count)

CastVote(w, p, choice) ==
  LET weight == member[w].voting_power
      tallied == Tallied(proposal[p], choice, weight)
  IN
  /\ dao.live /\ ~dao.paused
  /\ member[w].joined /\ member[w].active
  /\ VotingOpen(p)
  /\ ~Voted(w, p)
  /\ TallyFits(tallied)
  /\ Fits(member[w].votes_cast + 1) /\ Fits(dao.total_votes + 1)
  /\ votes' = [votes EXCEPT ![p] =
                 @ \cup {[voter |-> w, choice |-> choice, weight |-> weight]}]
  /\ proposal' = [proposal EXCEPT ![p] = tallied]
  /\ member' = [member EXCEPT ![w].votes_cast = @ + 1]
  /\ dao' = [dao EXCEPT !.total_votes = @ + 1]
  /\ UNCHANGED <<slot, treasury, vault, execution>>

(* The quorum is the one configured now, not the proposal's own copy; the  *)
(* threshold is the proposal's copy.                                       *)
QuorumReached(pr) ==
  BpsFromRatio(pr.voter_count, Greater(dao.total_members, 1)) >= dao.quorum_bps

Approved(pr) ==
  BpsFromRatio(pr.yes_votes, Greater(WrappingAdd(pr.yes_votes, pr.no_votes), 1))
    >= pr.approval_threshold_bps

FinalizeProposal(p) ==
  /\ dao.live
  /\ proposal[p].status = "Active"
  /\ slot > proposal[p].end_slot
  /\ proposal' = [proposal EXCEPT ![p].status =
       IF QuorumReached(proposal[p]) /\ Approved(proposal[p])
       THEN "Succeeded" ELSE "Defeated"]
  /\ UNCHANGED <<slot, dao, treasury, vault, member, votes, execution>>

(* Fault: an executed proposal may be executed again *)
ExecutableAgain(p) ==
  /\ dao.live
  /\ proposal[p].status \in {"Succeeded", "Executed"}
  /\ Fits(dao.total_executed + 1)

Executable(p) ==
  /\ dao.live
  /\ proposal[p].status = "Succeeded"
  /\ Fits(dao.total_executed + 1)

(* Both ways of executing write the one dao-exec account of the proposal.  *)
MarkExecuted(p, result) ==
  /\ proposal' = [proposal EXCEPT ![p] = [@ EXCEPT !.status = "Executed", !.executed = TRUE]]
  /\ execution' = [execution EXCEPT ![p] = result]
  /\ UNCHANGED <<slot, member, votes>>

(* Any kind: a TreasurySpend only gets the result "treasury-spend-ready".  *)
ExecuteProposal(p) ==
  /\ Executable(p)
  /\ ~proposal[p].executed
  /\ MarkExecuted(p, "recorded")
  /\ dao' = [dao EXCEPT !.total_executed = @ + 1]
  /\ UNCHANGED <<treasury, vault>>

(* The transfer is the system program's: it fails, and with it the         *)
(* instruction, when the treasury holds less than the amount.              *)
WithdrawTreasury(p) ==
  LET amount == proposal[p].amount IN
  /\ Executable(p)
  /\ proposal[p].kind = "TreasurySpend"
  /\ amount <= treasury.spend_limit
  /\ amount <= vault
  /\ Fits(treasury.total_spent + amount) /\ Fits(dao.total_treasury_spend + amount)
  /\ vault' = vault - amount
  /\ treasury' = [treasury EXCEPT !.total_spent = @ + amount]
  /\ MarkExecuted(p, "treasury-spend")
  /\ dao' = [dao EXCEPT !.total_executed = @ + 1, !.total_treasury_spend = @ + amount]

DepositTreasury(amount) ==
  /\ dao.live
  /\ Fits(treasury.total_deposits + amount)
  /\ vault' = vault + amount
  /\ treasury' = [treasury EXCEPT !.total_deposits = @ + amount]
  /\ UNCHANGED <<slot, dao, member, proposal, votes, execution>>

Configure ==
  \E q \in QuorumBps, t \in ThresholdBps, d \in Durations, m \in MinStakes :
    \/ \E limit \in SpendLimits : InitializeDao(q, t, d, m, limit)
    \/ \E paused \in BOOLEAN : UpdateDao(paused, q, t, d, m)

Join ==
  \E w \in Wallets, s \in Stakes, r \in Reputations :
    \/ RegisterMember(w, s, r)
    \/ \E active \in BOOLEAN : UpdateMember(w, s, r, active)

Propose ==
  \E w \in Wallets, p \in ProposalIds, k \in Kinds, a \in Amounts, d \in Durations :
    CreateProposal(w, p, k, a, d)

Decide ==
  \E p \in ProposalIds :
    \/ \E w \in Wallets, c \in VoteChoice : CastVote(w, p, c)
    \/ FinalizeProposal(p)
    \/ ExecuteProposal(p)
    \/ WithdrawTreasury(p)

Deposit == \E a \in Amounts : DepositTreasury(a)

Next == Tick \/ Configure \/ Join \/ Propose \/ Decide \/ Deposit

Spec == Init /\ [][Next]_vars

----------------------------------------
DaoConfig == [live : BOOLEAN, paused : BOOLEAN, quorum_bps : Nat,
              proposal_threshold_bps : Nat, vote_duration : U64, min_stake : U64,
              total_members : U64, total_proposals : U64, total_votes : U64,
              total_executed : U64, total_treasury_spend : U64]
DaoTreasury == [spend_limit : U64, total_deposits : U64, total_spent : U64]
DaoMember == [joined : BOOLEAN, active : BOOLEAN, stake : U64, reputation : U64,
              voting_power : U64, proposals_created : U64, votes_cast : U64]
DaoProposal == [status : {"None", "Active", "Succeeded", "Defeated", "Executed"},
                kind : ProposalKind, amount : U64, end_slot : U64,
                quorum_bps : Nat, approval_threshold_bps : Nat,
                yes_votes : U64, no_votes : U64, abstain_votes : U64,
                total_votes : U64, voter_count : U64, executed : BOOLEAN]
DaoVoteRecord == [voter : Wallets, choice : VoteChoice, weight : U64]

(* Every account keeps the types of state.rs; counters stay u64.           *)
TypeOK ==
  /\ slot \in 0 .. MaxSlot
  /\ dao \in DaoConfig
  /\ treasury \in DaoTreasury
  /\ vault \in U64
  /\ member \in [Wallets -> DaoMember]
  /\ proposal \in [ProposalIds -> DaoProposal]
  /\ votes \in [ProposalIds -> SUBSET DaoVoteRecord]
  /\ execution \in [ProposalIds -> {"None", "recorded", "treasury-spend"}]

----------------------------------------
Choosing(p, c) == {v \in votes[p] : v.choice = c}
Paid == {p \in ProposalIds : execution[p] = "treasury-spend"}

(* cast_vote.rs keeps five running counters per proposal: at every moment  *)
(* they are exactly the weights of the vote records, choice by choice, and *)
(* the number of voters, whatever members do to their stake afterwards.    *)
TalliesMatchRecords ==
  \A p \in ProposalIds : LET pr == proposal[p] IN
    /\ pr.yes_votes = WeightOf(Choosing(p, "Yes"))
    /\ pr.no_votes = WeightOf(Choosing(p, "No"))
    /\ pr.abstain_votes = WeightOf(Choosing(p, "Abstain"))
    /\ pr.total_votes = WeightOf(votes[p])
    /\ pr.voter_count = Cardinality(votes[p])

(* The totals of the config account, updated by five instructions one at a *)
(* time, count the accounts that exist: members joined, proposals created, *)
(* votes recorded, proposals executed by either way of executing.          *)
CountersMatchAccounts ==
  /\ dao.total_members = Cardinality({w \in Wallets : member[w].joined})
  /\ dao.total_proposals = Cardinality({p \in ProposalIds : proposal[p].status # "None"})
  /\ dao.total_executed = Cardinality({p \in ProposalIds : execution[p] # "None"})
  /\ dao.total_votes = Cardinality({x \in ProposalIds \X Wallets : Voted(x[2], x[1])})
  /\ \A w \in Wallets :
       member[w].votes_cast = Cardinality({p \in ProposalIds : Voted(w, p)})

BooksBalance ==
  /\ vault + treasury.total_spent = treasury.total_deposits
  /\ treasury.total_spent = dao.total_treasury_spend

(* deposit_treasury.rs and withdraw_treasury.rs: the vault holds what was  *)
(* deposited and not spent, treasury and config agree on what was spent,   *)
(* and it is the sum of the amounts of the proposals paid, each paid once  *)
(* and within the spend limit.                                             *)
TreasuryBalances ==
  /\ BooksBalance
  /\ treasury.total_spent =
       WeightOf({[id |-> p, weight |-> proposal[p].amount] : p \in Paid})
  /\ \A p \in Paid : /\ proposal[p].kind = "TreasurySpend"
                      /\ proposal[p].amount <= treasury.spend_limit

(* finalize_proposal.rs decides from counters, a possibly saturated        *)
(* product and a rounded quotient; whatever it computed, a proposal that   *)
(* passed (or was executed) is past its end and the recorded yes weight    *)
(* really is the required share of the recorded yes and no weight.         *)
VerdictRestsOnVotes ==
  \A p \in ProposalIds : proposal[p].status \in {"Succeeded", "Executed"} =>
    LET yes == WeightOf(Choosing(p, "Yes"))
        no == WeightOf(Choosing(p, "No"))
    IN /\ slot > proposal[p].end_slot
       /\ yes * BpsScale >= proposal[p].approval_threshold_bps * (yes + no)

(* finalize_proposal.rs:40 adds yes and no without a check; the checked    *)
(* total of cast_vote.rs:93 is what keeps that sum a u64.                  *)
FinalizeNeverWraps ==
  \A p \in ProposalIds :
    WrappingAdd(proposal[p].yes_votes, proposal[p].no_votes)
      = proposal[p].yes_votes + proposal[p].no_votes

(* What every instruction relies on about a proposal account: nothing is   *)
(* recorded before it exists, a verdict only after its end, an execution   *)
(* record only once executed, and a total that is the sum of the choices   *)
(* (the strengthening from which the safety properties are proved).        *)
ProposalSound(p) == LET pr == proposal[p] IN
  /\ pr.status = "None" => pr = NoProposal /\ votes[p] = {}
  /\ pr.status \in {"Succeeded", "Defeated", "Executed"} => slot > pr.end_slot
  /\ execution[p] # "None" => pr.status = "Executed"
  /\ pr.yes_votes + pr.no_votes + pr.abstain_votes = pr.total_votes
  /\ pr.status \in {"Succeeded", "Executed"} =>
       pr.yes_votes * BpsScale >= pr.approval_threshold_bps * (pr.yes_votes + pr.no_votes)
ProposalsSound == \A p \in ProposalIds : ProposalSound(p)

(* The two instructions that execute a proposal share one execution record *)
(* (init_if_needed would let either overwrite it): once written, it and    *)
(* the proposal's status never change again, and nothing more is paid.     *)
ExecutionIsFinal ==
  [][\A p \in ProposalIds : execution[p] # "None" =>
        /\ execution'[p] = execution[p]
        /\ proposal'[p] = proposal[p]]_vars

----------------------------------------
(* The phase of a proposal seen as a ballot: voting stops by the clock.    *)
Phase(p) ==
  CASE proposal[p].status = "None" -> "unopened"
    [] proposal[p].status = "Active" ->
         IF slot <= proposal[p].end_slot THEN "open" ELSE "counting"
    [] proposal[p].status = "Succeeded" -> "passed"
    [] proposal[p].status = "Defeated" -> "rejected"
    [] proposal[p].status = "Executed" -> "carried"

BallotOf(p) == INSTANCE Ballot WITH
  Voters <- Wallets, Weights <- U64, Thresholds <- Nat, Scale <- BpsScale,
  phase <- Phase(p), threshold <- proposal[p].approval_threshold_bps,
  ballots <- votes[p], yes <- proposal[p].yes_votes, no <- proposal[p].no_votes

(* Each proposal of the program is a ballot as its voters expect it: one   *)
(* unalterable vote per wallet, none after the end slot, a threshold that  *)
(* update_dao cannot move during the vote, one verdict, one execution.     *)
ImplementsBallot ==
  /\ \A p \in ProposalIds : BallotOf(p)!Init
  /\ [][\A p \in ProposalIds : [BallotOf(p)!Next]_(BallotOf(p)!vars)]_vars

(* What claw_dao counts is what its accounts hold: tallies, totals,        *)
(* verdicts.                                                               *)
VotesAreCounted ==
    /\ TalliesMatchRecords
    /\ CountersMatchAccounts
    /\ VerdictRestsOnVotes
=============================================================================
