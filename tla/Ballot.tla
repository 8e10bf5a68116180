-------------------------------- MODULE Ballot --------------------------------
(***************************************************************************)
(* What a ballot on one proposal promises its voters, whatever program     *)
(* keeps it: the threshold is fixed when it opens; while it is open each    *)
(* voter may cast one weighted ballot, which is never altered; after the    *)
(* deadline nothing is cast; it passes only with the required share of the  *)
(* weight cast for or against; a passed ballot is carried out at most once. *)
(***************************************************************************)
EXTENDS Integers

CONSTANTS
  Voters,      \* who may vote
  Weights,     \* the weights a vote may have
  Thresholds,  \* the thresholds a ballot may open with
  Scale        \* the whole of which a threshold is a part (10_000 basis points)

VARIABLES
  phase,      \* unopened, open, counting, passed, rejected, carried
  threshold,  \* required share of yes / (yes + no), in parts of Scale
  ballots,    \* the ballots cast: [voter, choice, weight]
  yes, no     \* weight cast for and against

vars == <<phase, threshold, ballots, yes, no>>

Init ==
  /\ phase = "unopened"
  /\ threshold = 0
  /\ ballots = {}
  /\ yes = 0 /\ no = 0

Open ==
  /\ phase = "unopened"
  /\ phase' = "open"
  /\ threshold' \in Thresholds
  /\ UNCHANGED <<ballots, yes, no>>

Cast(v, choice, weight) ==
  /\ phase = "open"
  /\ \A b \in ballots : b.voter # v
  /\ ballots' = ballots \cup {[voter |-> v, choice |-> choice, weight |-> weight]}
  /\ yes' = IF choice = "Yes" THEN yes + weight ELSE yes
  /\ no' = IF choice = "No" THEN no + weight ELSE no
  /\ UNCHANGED <<phase, threshold>>

Deadline ==
  /\ phase = "open"
  /\ phase' = "counting"
  /\ UNCHANGED <<threshold, ballots, yes, no>>

Pass ==
  /\ phase = "counting"
  /\ yes * Scale >= threshold * (yes + no)
  /\ phase' = "passed"
  /\ UNCHANGED <<threshold, ballots, yes, no>>

(* A missed quorum rejects too, so that no tally forces a ballot to pass.  *)
Reject ==
  /\ phase = "counting"
  /\ phase' = "rejected"
  /\ UNCHANGED <<threshold, ballots, yes, no>>

Carry ==
  /\ phase = "passed"
  /\ phase' = "carried"
  /\ UNCHANGED <<threshold, ballots, yes, no>>

Next ==
  \/ Open
  \/ \E v \in Voters, choice \in {"Yes", "No", "Abstain"}, weight \in Weights :
       Cast(v, choice, weight)
  \/ Deadline
  \/ Pass \/ Reject \/ Carry

Spec == Init /\ [][Next]_vars
=============================================================================
