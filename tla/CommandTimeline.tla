--------------------------- MODULE CommandTimeline ---------------------------
(***************************************************************************)
(* The timeline under the command center and under the demo's story:       *)
(* buildCommandTimeline, the status of each lane from what the page knows. *)
(* The input is typed, so its normalisation changes nothing; labels,       *)
(* details and the strip shown when the builder throws are left out.       *)
(***************************************************************************)
EXTENDS Integers

ExecutionSucceeded(status) == status \in {"succeeded", "verified", "anchored", "reflected", "stored"}

\* The status of a step of the loop, of which `active` is the one it is at.
StepToStatuses(index, active, busy) ==
    CASE index < active -> "complete"
      [] index > active -> "pending"
      [] OTHER -> IF busy THEN "active" ELSE "complete"

\* A lane that is complete once done, and active once the one before it is.
LaneAfter(done, begun) ==
    CASE done -> "complete"
      [] ~done /\ begun -> "active"
      [] OTHER -> "pending"

SkillLane(in) ==
    LET authorized == in.walletConnected /\ in.sessionVerified IN
    CASE authorized /\ in.hasSkill ->
            StepToStatuses(1, IF in.loopStep > 1 THEN in.loopStep ELSE 1, in.loopBusy /\ in.loopStep = 1)
      [] authorized /\ ~in.hasSkill /\ in.loopStep >= 1 -> "active"
      [] OTHER -> "pending"

NextLane(in, reputation) ==
    CASE in.degraded -> "failed"
      [] ~in.degraded /\ reputation = "complete" /\ in.loopStep >= 8 -> "active"
      [] OTHER -> "pending"

\* in.status is "none" when there was no execution.
BuildCommandTimeline(in) ==
    LET ran == in.status # "none"
        reputation == IF in.receiptAnchored \/ in.status = "verified" THEN "complete" ELSE "pending"
    IN  [wallet |-> LaneAfter(in.walletConnected /\ in.sessionVerified, in.walletConnected),
         skill |-> SkillLane(in),
         plan |-> LaneAfter(~in.loopBusy /\ in.loopStep >= 2, in.loopStep >= 2),
         execute |-> LET busy == in.loopBusy /\ in.loopStep >= 3 IN
                       LaneAfter(~busy /\ ran /\ in.status # "planning", busy),
         outcome |-> IF in.status = "failed" THEN "failed" ELSE LaneAfter(ran, FALSE),
         reflection |-> IF in.hasReflection \/ ExecutionSucceeded(in.status) THEN "complete" ELSE "pending",
         memory |-> LaneAfter(in.hasMemory, in.hasReflection),
         zerog_storage |-> LaneAfter(in.zerogStored, in.hasMemory),
         zerog_da |-> LaneAfter(in.zerogDaCommitted, in.zerogStored),
         receipt |-> LaneAfter(in.receiptAnchored \/ in.status \in {"verified", "anchored"}, ran /\ in.loopStep >= 8),
         reputation |-> reputation,
         next |-> NextLane(in, reputation)]

\* The lanes that carry a reference to a proof.
ProofRefs(in) ==
    {lane \in {"skill", "reflection", "memory", "zerog_storage", "zerog_da", "receipt"} :
        CASE lane = "skill" -> in.hasSkill
          [] lane = "reflection" -> in.hasReflection
          [] lane = "memory" -> in.hasMemory
          [] lane = "zerog_storage" -> in.zerogStored
          [] lane = "zerog_da" -> in.zerogDaCommitted
          [] lane = "receipt" -> in.receiptAnchored}
=============================================================================
