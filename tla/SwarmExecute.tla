---------------------------- MODULE SwarmExecute ----------------------------
(***************************************************************************)
(* A run of the swarm: ExecutionOrchestratorService.runSwarmExecute goes   *)
(* through a plan, a reflection and a proof, each in a try of its own, and *)
(* keeps its record in SwarmMirrorStore, which writes it to a file after   *)
(* every change.                                                           *)
(*                                                                         *)
(* A step of a run ends where it awaits a write.  The calls of the other   *)
(* services are their outcomes: what those do is in PlanReceipts,          *)
(* MemoryReceipts and SolanaBridge.  The mirror holds the record of a run  *)
(* itself, not a copy of it.  A write begins with the file cut to nothing: *)
(* a crash before it has resolved may leave a torn file, which init takes  *)
(* for an empty mirror.  Texts, hashes, ids and the cap of 2000 receipts   *)
(* are left out.                                                           *)
(***************************************************************************)
EXTENDS Naturals, Sequences, FiniteSets, SequencesExt

CONSTANTS
    Runs,           \* the requests: POST /api/execute and POST /api/demo/story, which run
                    \* the swarm, and those of the desk
    Chosen,         \* the skills a wallet may select
    PlanServices,   \* whether there is a planReceiptService: a subset of BOOLEAN
    MirrorLimits,   \* the cap of executions (500 in the code)
    SwarmCrashes    \* bound: restarts of the server

ASSUME SwarmAssumption ==
    /\ PlanServices \subseteq BOOLEAN /\ MirrorLimits \subseteq Nat \ {0}
    /\ Chosen \cap {"none", "draft"} = {}

VARIABLES
    planService, limit,     \* chosen for a behaviour
    executions,     \* the mirror's executions: runs, newest first
    rows,           \* the record of each run
    receipts,       \* the receipts of each run, by type
    disk,           \* what the mirror's file says, or will once it is written
    file,           \* whole, being written, or cut by a write that has rejected
    lost,           \* the requests whose answers went with a torn file
    writes,         \* the runs whose write is chained, in order
    rejects,        \* whether a write has rejected, and with it all that are chained
    at,             \* the step a run takes next, and the try it is in
    degraded,       \* the local degraded of each run
    credits,        \* the usage recorded for the skill: a run and its success
    answers,        \* what each request was answered
    restarts,
    selected,       \* the skill the wallet has selected
    drafts,         \* the draft receipts, newest first: the id and the request of each
    wish            \* what a request of the desk asks for

swarmVars == <<planService, limit, executions, rows, receipts, disk, file, lost, writes, rejects, at,
               degraded, credits, answers, restarts, selected, drafts, wish>>

ReceiptTypes == {"plan", "reflection", "proof"}
NoReceipt == [status |-> "none", signed |-> FALSE]
NoRow == [status |-> "none", framework |-> "none", planFailed |-> FALSE, memory |-> FALSE, tx |-> "none"]
Empty == [executions |-> <<>>, rows |-> [r \in Runs |-> NoRow],
          receipts |-> [r \in Runs |-> [t \in ReceiptTypes |-> NoReceipt]],
          selected |-> "none", drafts |-> <<>>]

SwarmInit ==
    /\ planService \in PlanServices
    /\ limit \in MirrorLimits
    /\ executions = <<>>
    /\ rows = Empty.rows
    /\ receipts = Empty.receipts
    /\ disk = Empty
    /\ file = "whole"
    /\ lost = {}
    /\ writes = <<>>
    /\ rejects = FALSE
    /\ at = [r \in Runs |-> [next |-> "begin", in |-> "none"]]
    /\ degraded = [r \in Runs |-> FALSE]
    /\ credits = {}
    /\ answers = [r \in Runs |-> "none"]
    /\ restarts = 0
    /\ selected = Empty.selected
    /\ drafts = Empty.drafts
    /\ wish = [r \in Runs |-> "none"]

----------------------------------------
(* SwarmMirrorStore.                                                       *)

Truncated(s) == SubSeq(s, 1, IF Len(s) < limit THEN Len(s) ELSE limit)

\* Fault: the record is put in front whether it is there or not.
AlwaysUnshifted(r) == Truncated(<<r>> \o executions)

\* A record that is not there, or no longer, is put in front.
Upserted(r) == IF Contains(executions, r) THEN executions ELSE Truncated(<<r>> \o executions)

Writes(r, next, in) ==
    /\ writes' = Append(writes, r)
    /\ at' = [at EXCEPT ![r] = [next |-> next, in |-> in]]

\* upsertExecution of the changed record, from the try named in.
UpsertExecution(r, row, next, in) ==
    /\ rows' = [rows EXCEPT ![r] = row]
    /\ executions' = Upserted(r)
    /\ Writes(r, next, in)
    /\ UNCHANGED <<planService, limit, receipts, disk, file, lost, rejects, answers, restarts>>

\* pushReceipt: to the answer and to the mirror.
PushReceipt(r, type, receipt, next, in) ==
    /\ receipts' = [receipts EXCEPT ![r][type] = receipt]
    /\ Writes(r, next, in)
    /\ UNCHANGED <<planService, limit, executions, rows, disk, file, lost, rejects, credits, answers, restarts>>

\* The first write of the chain takes up the state as it is by then, and cuts the file.
WriteBegins ==
    /\ writes # <<>> /\ ~rejects /\ file # "writing"
    /\ disk' = [executions |-> executions, rows |-> [r \in Runs |-> IF Contains(executions, r) THEN rows[r] ELSE NoRow],
                receipts |-> receipts, selected |-> selected, drafts |-> drafts]
    /\ file' = "writing"
    /\ UNCHANGED <<planService, limit, executions, rows, receipts, lost, writes, rejects, at, degraded, credits,
                   answers, restarts, selected, drafts, wish>>

WriteResolves ==
    /\ file = "writing"
    /\ file' = "whole"
    /\ writes' = Tail(writes)
    /\ UNCHANGED <<planService, limit, executions, rows, receipts, disk, lost, rejects, at, degraded, credits,
                   answers, restarts, selected, drafts, wish>>

----------------------------------------
(* The catch of each phase.                                                *)

Becomes(r, status, framework) == [rows[r] EXCEPT !.status = status, !.framework = framework]

PlanFails(r, chained) ==
    /\ degraded' = [degraded EXCEPT ![r] = TRUE]
    /\ rows' = [rows EXCEPT ![r] = [Becomes(r, "failed", "failed") EXCEPT !.planFailed = TRUE]]
    /\ executions' = Upserted(r)
    /\ writes' = Append(chained, r)
    /\ at' = [at EXCEPT ![r] = [next |-> "outcome", in |-> "none"]]

\* The reflection's and the proof's.
PhaseFails(r, next, chained) ==
    /\ degraded' = [degraded EXCEPT ![r] = TRUE]
    /\ rows' = [rows EXCEPT ![r] = Becomes(r, "degraded", "degraded")]
    /\ executions' = Upserted(r)
    /\ writes' = Append(chained, r)
    /\ at' = [at EXCEPT ![r] = [next |-> next, in |-> "none"]]

Catch(r, try, chained) ==
    \/ try = "plan" /\ PlanFails(r, chained)
    \/ try = "reflection" /\ PhaseFails(r, "proof", chained)
    \/ try = "proof" /\ PhaseFails(r, "credit", chained)

\* A call of another service throws.
Throws(r, try) ==
    /\ Catch(r, try, writes)
    /\ UNCHANGED <<planService, limit, receipts, disk, file, lost, rejects, credits, answers, restarts>>

\* The first write of the chain rejects, before it begins or on its way: the run it is
\* for catches that, or ends with an error.
WriteRejects ==
    /\ writes # <<>>
    /\ rejects' = TRUE
    /\ file' = IF file = "writing" THEN "cut" ELSE file
    /\ LET r == Head(writes) IN
       IF at[r].in = "none"
       THEN /\ writes' = Tail(writes)
            /\ at' = [at EXCEPT ![r] = [next |-> "over", in |-> "none"]]
            /\ answers' = [answers EXCEPT ![r] = "error"]
            /\ UNCHANGED <<executions, rows, degraded>>
       ELSE Catch(r, at[r].in, Tail(writes)) /\ UNCHANGED answers
    /\ UNCHANGED <<planService, limit, receipts, disk, lost, credits, restarts, selected, drafts, wish>>

----------------------------------------
(* The run.                                                                *)

Takes(r, step) == at[r].next = step /\ ~Contains(writes, r)

Outcome(r, bad) == degraded' = [degraded EXCEPT ![r] = @ \/ bad]

\* The session is read, with the reflections of the wallet; an inactive one degrades the run.
Begin(r, active) ==
    /\ Takes(r, "begin")
    /\ Outcome(r, ~active)
    /\ UpsertExecution(r, [NoRow EXCEPT !.status = "planning", !.framework = "running"], "plan", "none")
    /\ UNCHANGED credits

\* getSession or listReflections throws: no record is made.
BeginFails(r) ==
    /\ Takes(r, "begin")
    /\ at' = [at EXCEPT ![r].next = "over"]
    /\ answers' = [answers EXCEPT ![r] = "error"]
    /\ UNCHANGED <<planService, limit, executions, rows, receipts, disk, file, lost, writes, rejects, degraded, credits, restarts>>

\* What sendInstruction may return.
Transactions == [accepted : {TRUE}, signed : {TRUE}] \cup [accepted : {FALSE}, signed : BOOLEAN]
Receipt(tx) == [status |-> IF tx.accepted THEN "submitted" ELSE "failed", signed |-> tx.signed]

Running(r) == UpsertExecution(r, [rows[r] EXCEPT !.status = "running"], "outcome", "plan")

\* create and execute of the plan service.
PlanRecorded(r) ==
    /\ Takes(r, "plan") /\ planService
    /\ Running(r)
    /\ UNCHANGED <<degraded, credits>>

\* Without it the plan is anchored by the bridge.
PlanSent(r, tx) ==
    /\ Takes(r, "plan") /\ ~planService
    /\ Outcome(r, ~tx.accepted)
    /\ PushReceipt(r, "plan", Receipt(tx), "planned", "plan")

Planned(r) ==
    /\ Takes(r, "planned")
    /\ Running(r)
    /\ UNCHANGED <<degraded, credits>>

\* A plan that failed fails the run so far; the run goes on in any case.
RunOutcome(r) ==
    /\ Takes(r, "outcome")
    /\ UpsertExecution(r, [rows[r] EXCEPT !.status = IF @ = "failed" THEN @ ELSE "succeeded"], "reflect", "none")
    /\ UNCHANGED <<degraded, credits>>

\* createReflection.
Reflected(r) ==
    /\ Takes(r, "reflect")
    /\ UpsertExecution(r, [rows[r] EXCEPT !.status = "reflected"], "anchor", "reflection")
    /\ UNCHANGED <<degraded, credits>>

\* anchorReflection returns a receipt, signed or not, or throws; only that degrades the run.
Stored(r, anchor) ==
    /\ Takes(r, "anchor")
    /\ Outcome(r, anchor = "throws")
    /\ UpsertExecution(r, [rows[r] EXCEPT !.status = "stored", !.memory = TRUE,
                                          !.tx = IF anchor = "signed" THEN "anchor" ELSE "none"],
                       "reflectionReceipt", "reflection")
    /\ UNCHANGED credits

\* The record shows by now whether there is a signature.
ReflectionReceipt(r) ==
    /\ Takes(r, "reflectionReceipt")
    /\ PushReceipt(r, "reflection",
                   [status |-> IF rows[r].tx = "anchor" THEN "submitted" ELSE "degraded", signed |-> rows[r].tx = "anchor"],
                   "remembered", "reflection")
    /\ UNCHANGED degraded

Remembered(r) ==
    /\ Takes(r, "remembered")
    /\ UpsertExecution(r, rows[r], "proof", "reflection")
    /\ UNCHANGED <<degraded, credits>>

ProofStatus(tx) == IF tx.accepted THEN "verified" ELSE "degraded"

\* sendInstruction of the proof, whatever became of the plan and the reflection.
ProofSent(r, tx) ==
    /\ Takes(r, "proof")
    /\ Outcome(r, ~tx.accepted)
    /\ UpsertExecution(r, [rows[r] EXCEPT !.status = ProofStatus(tx), !.tx = IF tx.signed THEN "proof" ELSE @],
                       IF tx.accepted THEN "proofReceipt" ELSE IF tx.signed THEN "lostReceipt" ELSE "failedReceipt", "proof")
    /\ UNCHANGED credits

\* The steps after a proof that was accepted, one that has failed once it was signed, and
\* one that has failed before.
ProofReceipt(r) ==
    /\ \/ Takes(r, "proofReceipt") /\ PushReceipt(r, "proof", [status |-> "submitted", signed |-> TRUE], "proven", "proof")
       \/ Takes(r, "lostReceipt") /\ PushReceipt(r, "proof", [status |-> "failed", signed |-> TRUE], "proven", "proof")
       \/ Takes(r, "failedReceipt") /\ PushReceipt(r, "proof", [status |-> "failed", signed |-> FALSE], "proven", "proof")
    /\ UNCHANGED degraded

FrameworkStatus(r) ==
    CASE rows[r].status = "verified" /\ ~degraded[r] -> "completed"
      [] rows[r].planFailed /\ (rows[r].status # "verified" \/ degraded[r]) -> "failed"
      [] OTHER -> "degraded"

Proven(r) ==
    /\ Takes(r, "proven")
    /\ UpsertExecution(r, [rows[r] EXCEPT !.framework = FrameworkStatus(r)], "credit", "proof")
    /\ UNCHANGED <<degraded, credits>>

Success(r) == rows[r].status = "verified"

\* recordSkillUse and recordUsage, of which nothing is said when they throw.
CreditSkill(r, counted) ==
    /\ Takes(r, "credit")
    /\ credits' = IF counted THEN credits \cup {<<r, Success(r)>>} ELSE credits
    /\ UpsertExecution(r, rows[r], "answer", "none")
    /\ UNCHANGED degraded

Answer(r) ==
    /\ Takes(r, "answer")
    /\ answers' = [answers EXCEPT ![r] = IF degraded[r] THEN "degraded" ELSE "ok"]
    /\ at' = [at EXCEPT ![r].next = "over"]
    /\ UNCHANGED <<planService, limit, executions, rows, receipts, disk, file, lost, writes, rejects, degraded, credits, restarts>>

\* The server is started anew: runs in flight end where they are, and the mirror holds
\* what its file does, or nothing when the file is torn, which is then its content.
Restart ==
    /\ restarts < SwarmCrashes
    /\ restarts' = restarts + 1
    /\ \E torn \in BOOLEAN :
          /\ torn => file # "whole"
          /\ disk' = IF torn THEN Empty ELSE disk
          /\ lost' = IF torn THEN lost \cup {r \in Runs : at[r].next # "begin"} ELSE lost
    /\ executions' = disk'.executions /\ rows' = disk'.rows /\ receipts' = disk'.receipts
    /\ selected' = disk'.selected /\ drafts' = disk'.drafts
    /\ file' = "whole" /\ writes' = <<>> /\ rejects' = FALSE
    /\ at' = [r \in Runs |-> IF at[r].next = "begin" THEN at[r] ELSE [next |-> "over", in |-> "none"]]
    /\ UNCHANGED <<planService, limit, degraded, credits, answers, wish>>

----------------------------------------
(* The desk: what a wallet keeps in the mirror between its runs.           *)

runVars == <<planService, limit, executions, rows, receipts, disk, file, lost, rejects, degraded, credits, restarts>>

\* GET /api/skills/session/current.
CurrentSkill == selected

\* POST /api/skills/:id/select.
SelectSkill(r, skill) ==
    /\ Takes(r, "begin")
    /\ selected' = skill
    /\ wish' = [wish EXCEPT ![r] = skill]
    /\ Writes(r, "desk", "none")
    /\ UNCHANGED <<runVars, answers, drafts>>

Drafted == {r \in Runs : wish[r] = "draft"}

\* POST /api/receipts: the id of a draft is the millisecond it is made in.
Draft(r, sameMoment) ==
    /\ Takes(r, "begin")
    /\ sameMoment => drafts # <<>>
    /\ drafts' = <<[id |-> IF sameMoment THEN Head(drafts).id ELSE Cardinality(Drafted) + 1,
                    of |-> r]>> \o drafts
    /\ wish' = [wish EXCEPT ![r] = "draft"]
    /\ Writes(r, "desk", "none")
    /\ UNCHANGED <<runVars, answers, selected>>

DeskAnswer(r) ==
    /\ Takes(r, "desk")
    /\ answers' = [answers EXCEPT ![r] = "ok"]
    /\ at' = [at EXCEPT ![r].next = "over"]
    /\ UNCHANGED <<runVars, writes, selected, drafts, wish>>

\* GET /api/receipts/:id, of a receipt the bridge does not have: the first with that id.
ReceiptById(id) ==
    {drafts[i] : i \in {k \in DOMAIN drafts :
                         drafts[k].id = id /\ \A j \in 1..(k - 1) : drafts[j].id # id}}

DeskNext ==
    \E r \in Runs :
        \/ \E skill \in Chosen : SelectSkill(r, skill)
        \/ \E sameMoment \in BOOLEAN : Draft(r, sameMoment)
        \/ DeskAnswer(r)

MirrorNext ==
    \/ WriteBegins
    \/ WriteResolves
    \/ WriteRejects
    \/ Restart

SwarmRunNext ==
    /\ UNCHANGED <<selected, drafts, wish>>
    /\ \E r \in Runs :
          \/ \E active \in BOOLEAN : Begin(r, active)
          \/ BeginFails(r)
          \/ PlanRecorded(r)
          \/ \E tx \in Transactions : PlanSent(r, tx) \/ ProofSent(r, tx)
          \/ Planned(r)
          \/ RunOutcome(r)
          \/ Reflected(r)
          \/ \E anchor \in {"signed", "unsigned", "throws"} : Stored(r, anchor)
          \/ ReflectionReceipt(r)
          \/ Remembered(r)
          \/ ProofReceipt(r)
          \/ Proven(r)
          \/ \E counted \in BOOLEAN : CreditSkill(r, counted)
          \/ Answer(r)
          \/ Takes(r, "plan") /\ Throws(r, "plan")
          \/ Takes(r, "reflect") /\ Throws(r, "reflection")
          \/ Takes(r, "proof") /\ Throws(r, "proof")

SwarmNext == MirrorNext \/ SwarmRunNext \/ DeskNext

SwarmSpec == SwarmInit /\ [][SwarmNext]_swarmVars

----------------------------------------
(* The labels of shared/proofTruth.ts.                                     *)

\* deriveProofStatusDomain; a signature comes with its explorer's address here.
DeriveProofStatusDomain(receipt) ==
    CASE receipt.status \in {"failed", "degraded"} -> "degraded"
      [] receipt.status \notin {"failed", "degraded"} /\ ~receipt.signed ->
            IF receipt.status = "verified" THEN "pending" ELSE "unverified"
      [] receipt.status = "verified" /\ receipt.signed -> "verified"
      [] OTHER -> "pending"

----------------------------------------
(* Properties.                                                             *)

\* A run that is answered as not degraded has gone through all its phases without an
\* exception or a refused transaction: its record is verified and complete and names a
\* memory, and no receipt of it has failed.  (A reflection that was anchored without a
\* signature does not degrade the run.)
CleanRunsAreProven ==
    \A r \in Runs : (answers[r] = "ok" /\ wish[r] = "none" /\ Contains(executions, r)) =>
        /\ rows[r] = [status |-> "verified", framework |-> "completed", planFailed |-> FALSE,
                      memory |-> TRUE, tx |-> "proof"]
        /\ receipts[r]["proof"].status = "submitted"
        /\ \A t \in ReceiptTypes : receipts[r][t].status # "failed"

\* Verified is said only of a run whose proof the bridge has sent, in the mirror and in
\* its file, at every moment of the run and after a restart.
VerifiedRestsOnProof ==
    \A r \in Runs : /\ rows[r].status = "verified" => rows[r].tx = "proof" /\ receipts[r]["proof"].status # "failed"
                    /\ disk.rows[r].status = "verified" =>
                          disk.rows[r].tx = "proof" /\ disk.receipts[r]["proof"].status # "failed"

\* What was answered is on disk while the file is whole: unless runs that came later
\* have filled the mirror, or a file was torn since, it holds the record and the
\* receipts as they were answered.
AnsweredRunsAreOnDisk ==
    \A r \in Runs \ lost : file = "whole" /\ answers[r] \in {"ok", "degraded"} /\ wish[r] = "none" =>
        /\ Contains(disk.executions, r) =>
              disk.rows[r].framework \in (IF answers[r] = "ok" THEN {"completed"} ELSE {"degraded", "failed"})
        /\ Len(disk.executions) < limit => Contains(disk.executions, r)
        /\ disk.receipts[r] = receipts[r]

\* A success that counts for the skill is not taken back: the run stays verified, in the
\* mirror and in its file, although it may still be answered with an error.
CreditedRunsStayVerified ==
    \A r \in Runs : <<r, TRUE>> \in credits =>
        /\ Contains(executions, r) => rows[r].status = "verified"
        /\ Contains(disk.executions, r) => disk.rows[r].status = "verified"

\* Of what a run records, nothing is called verified by the labels of its structured
\* receipts: a transaction that was sent is pending, and a lost one degraded.
LabelsClaimNoMore ==
    \A r \in Runs, t \in ReceiptTypes :
        /\ DeriveProofStatusDomain(receipts[r][t]) # "verified"
        /\ DeriveProofStatusDomain(receipts[r][t]) = "pending" =>
              receipts[r][t].signed /\ receipts[r][t].status = "submitted"

\* The mirror never holds a run twice, even when it was dropped while it ran.
MirroredOnce ==
    /\ Len(executions) <= limit
    /\ \A i, j \in DOMAIN executions : executions[i] = executions[j] => i = j

\* A selection or a draft that was answered is kept, through writes that reject and a
\* restart that finds the file whole: the draft is found under its id, unless another
\* was made in that very millisecond, and the wallet's skill is the one selected, or one
\* selected since.  One whose write rejects is in effect all the same, until a restart.
DeskKeepsAnswers ==
    LET Selections == {r \in Runs : wish[r] \in Chosen}
        Kept(r) == r \notin lost /\ answers[r] = "ok" IN
    /\ \A r \in Drafted : Kept(r) =>
        /\ file = "whole" => \E i \in DOMAIN disk.drafts : disk.drafts[i].of = r
        /\ \E i \in DOMAIN drafts :
              /\ drafts[i].of = r
              /\ \A draft \in ReceiptById(drafts[i].id) :
                    draft.of = r \/ \E j \in 1..(i - 1) : drafts[j].id = drafts[i].id
    /\ \A r \in Selections : Kept(r) =>
        /\ CurrentSkill \in {wish[q] : q \in Selections}
        /\ Selections = {r} => CurrentSkill = wish[r] /\ (file = "whole" => disk.selected = wish[r])
    /\ writes = <<>> /\ ~rejects => disk.selected = selected /\ disk.drafts = drafts

\* The mirror and its file keep what runSwarmExecute has answered, through other runs,
\* writes that reject and a restart, unless that restart finds the file torn.
MirrorKeepsAnswers ==
    /\ AnsweredRunsAreOnDisk
    /\ CreditedRunsStayVerified
    /\ MirroredOnce
    /\ DeskKeepsAnswers

----------------------------------------
(* What the command center says of the last run: deriveCommandUX of        *)
(* shared/uxState.ts, a pure function of the answer of the run and of the  *)
(* page around it.  Headlines are left out; the state, the next action and *)
(* the proof channel are kept.                                             *)

\* lastResult: what a request was answered, while the mirror still has it.
HasResult(r) == answers[r] \in {"ok", "degraded"} /\ Contains(executions, r)
RunStatus(r) == rows[r].status
RunIsOver(r) == RunStatus(r) \in {"verified", "succeeded"}

\* The page: everything deriveCommandUX reads beside the result.
Pages == [demoMode : BOOLEAN, wrongCluster : BOOLEAN, loopError : BOOLEAN, loopBusy : BOOLEAN,
          noRegistry : {FALSE}, walletConnected : BOOLEAN, sessionVerified : {TRUE}, skillSelected : {TRUE}]

\* Fault: the status is looked at before the run's own degraded.
StatusFirst(r, demoMode) ==
    IF RunIsOver(r) THEN "verified"
    ELSE IF answers[r] = "degraded" THEN "cached_only"
    ELSE IF demoMode THEN "demo_only"
    ELSE "pending"

ProofChannelFromRun(r, demoMode) ==
    IF answers[r] = "degraded" THEN "cached_only"
    ELSE IF RunIsOver(r) THEN "verified"
    ELSE IF demoMode THEN "demo_only"
    ELSE "pending"

ExecutionToUxState(r, busy) ==
    IF busy THEN "executing"
    ELSE CASE RunStatus(r) = "planning" -> "planning"
           [] RunStatus(r) \in {"failed", "reflected"} -> "reflecting"
           [] RunStatus(r) = "stored" -> "memory_write"
           [] RunStatus(r) = "anchored" -> "receipt_anchor"
           [] RunIsOver(r) -> "proof_verification"
           [] RunStatus(r) = "degraded" -> "degraded"
           [] OTHER -> "executing"

Screen(state, action, channel) == [uxState |-> state, nextAction |-> action, proofChannel |-> channel]

\* The first of the page's obstacles decides; without one, the run itself does.
DeriveCommandUX(page, r) ==
    IF page.demoMode THEN Screen("demo", "run", ProofChannelFromRun(r, TRUE))
    ELSE IF page.wrongCluster /\ page.walletConnected THEN Screen("error", "fix_cluster", "unavailable")
    ELSE IF page.loopError THEN Screen("error", "run", ProofChannelFromRun(r, FALSE))
    ELSE IF page.noRegistry THEN Screen("degraded", "idle", "unavailable")
    ELSE IF ~page.walletConnected THEN Screen("wallet_connect", "connect", "unavailable")
    ELSE IF ~page.sessionVerified THEN Screen("session_verification", "verify", "pending")
    ELSE IF ~page.skillSelected THEN Screen("skill_selection", "select_skill", "pending")
    ELSE Screen(ExecutionToUxState(r, page.loopBusy),
                IF RunIsOver(r) THEN "view_explorer" ELSE "run",
                ProofChannelFromRun(r, FALSE))

----------------------------------------
\* The command center says no more than the run has to show: its proof channel is
\* verified, in demo mode too, only after a run without a failed phase or a refused
\* transaction, and the explorer is offered only for a run whose proof was signed and
\* sent, also when the run was degraded on its way there.
ScreenRestsOnProof ==
    \A r \in Runs : HasResult(r) => \A page \in Pages :
        LET screen == DeriveCommandUX(page, r) IN
        /\ screen.proofChannel = "verified" =>
              /\ rows[r].framework = "completed" /\ rows[r].memory /\ ~rows[r].planFailed
              /\ \A t \in ReceiptTypes : receipts[r][t].status # "failed"
        /\ screen.nextAction = "view_explorer" =>
              rows[r].tx = "proof" /\ receipts[r]["proof"] = [status |-> "submitted", signed |-> TRUE]

\* Nothing says of a run more than it has proven: not its answer, its record, the
\* labels of its receipts or the command center's screen.
ClaimsRestOnProof ==
    /\ CleanRunsAreProven
    /\ VerifiedRestsOnProof
    /\ LabelsClaimNoMore
    /\ ScreenRestsOnProof
=============================================================================
