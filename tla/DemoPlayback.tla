---------------------------- MODULE DemoPlayback ----------------------------
(***************************************************************************)
(* The demo's story: DemoProvider of the client plays the frames of a      *)
(* scenario, each of which names a beat of the story of the outcome that   *)
(* is chosen, and the shared engine builds the snapshot of that moment.    *)
(* The effects of a click or of the timer are part of the step: React runs *)
(* them before the next event.                                             *)
(*                                                                         *)
(* A beat is its stage, the steps done, the step it is at and what of the  *)
(* lineage it shows; frames differ in their beat only.  The skill, texts,  *)
(* delays, identifiers and the 0G and OpenClaw cards are left out.         *)
(***************************************************************************)
EXTENDS CommandTimeline, Sequences

VARIABLES
    scenario,       \* selectedScenarioId
    runOutcome, forceError,
    frameIndex,     \* storyPlaybackIndex
    playing,        \* storyPlaybackAutoplay
    drivesWallet,   \* playbackDrivesDemoWallet
    demoWallet,     \* walletConnectedDemo
    handled         \* history: the wallet was last set by its card's buttons

walletPanel == <<drivesWallet, demoWallet, handled>>
demoVars == <<scenario, runOutcome, forceError, frameIndex, playing, walletPanel>>

Scenarios == {"wallet-skill-discovery", "publish-skill", "execute-task", "failure-reflection-memory", "receipt-anchor",
              "reputation-update", "multi-agent", "full-e2e", "proof-degraded", "openclaw-bridge"}
RunOutcomes == {"success", "failure", "recovery"}

PreferredOutcome(s) ==
    CASE s \in {"failure-reflection-memory", "multi-agent", "full-e2e"} -> "recovery"
      [] s = "proof-degraded" -> "failure"
      [] OTHER -> "success"

----------------------------------------
\* Steps before `at` are done and those after it pending; the step at is itself done
\* in a finished story.
Beat(stage, at, status, active, shown) ==
    [stage |-> stage, at |-> at, status |-> status, active |-> active, shown |-> shown]

Lesson == {"reflection", "memory"}
Lineage == Lesson \cup {"receipt"}

\* From the disconnected wallet to the step that fails.
SetupBeats ==
    <<Beat("idle", 1, "pending", 0, {}), Beat("planning", 1, "pending", 0, {}),
      Beat("planning", 1, "pending", 0, {}), Beat("step_selecting", 1, "pending", 0, {})>>
RunningBeats ==
    <<Beat("running", 2, "running", 2, {}), Beat("running", 3, "running", 3, {}), Beat("running", 3, "running", 3, {})>>

\* From the failure to the memory of its lesson.
LessonBeats ==
    <<Beat("failed", 3, "failed", 3, {}), Beat("reflecting", 3, "failed", 3, {"reflection"}),
      Beat("writing_memory", 3, "failed", 3, Lesson)>>

\* The receipt and the retry that succeeds.
RetryBeats ==
    <<Beat("anchoring_receipt", 3, "failed", 4, Lineage), Beat("retrying", 3, "running", 3, Lineage),
      Beat("verified", 4, "succeeded", 4, Lineage), Beat("completed", 4, "succeeded", 4, Lineage)>>

RecoveryBeats == SetupBeats \o RunningBeats \o LessonBeats \o RetryBeats
FailureBeats == SubSeq(RecoveryBeats, 1, 10) \o <<Beat("degraded", 3, "failed", 3, Lineage)>>
SuccessBeats == SubSeq(RecoveryBeats, 1, 6) \o
    <<Beat("running", 4, "running", 4, {}), Beat("anchoring_receipt", 4, "succeeded", 4, {"receipt"}),
      Beat("completed", 4, "succeeded", 4, {"receipt"})>>

UnifiedStoryBeats(outcome) ==
    CASE outcome = "recovery" -> RecoveryBeats [] outcome = "failure" -> FailureBeats [] OTHER -> SuccessBeats

\* The beats of a scenario's frames are consecutive: the first and the last, from 0.
PlaybackFrames(s, force) ==
    IF force THEN <<0, 10>>
    ELSE CASE s = "wallet-skill-discovery" -> <<0, 4>>
           [] s = "publish-skill" -> <<2, 8>>
           [] s = "receipt-anchor" -> <<6, 8>>
           [] s = "reputation-update" -> <<7, 8>>
           [] s = "multi-agent" -> <<3, 14>>
           [] s \in {"failure-reflection-memory", "full-e2e"} -> <<0, 14>>
           [] s = "proof-degraded" -> <<0, 10>>
           [] OTHER -> <<0, 8>>

FrameCount(s, force) == PlaybackFrames(s, force)[2] - PlaybackFrames(s, force)[1] + 1
LastFrame == FrameCount(scenario, forceError) - 1

\* The beat a frame names, or the first one when the story has no such beat.
BeatOfFrame(s, outcome, force, index) ==
    LET beats == UnifiedStoryBeats(outcome)
        named == PlaybackFrames(s, force)[1] + index
    IN  IF named < Len(beats) THEN beats[named + 1] ELSE beats[1]

----------------------------------------
WalletConnected(beat) == beat.stage # "idle"
SessionVerifiedForBeat(beat) == WalletConnected(beat)

\* The wallet's status and what it permits.
DemoWalletState(beat) ==
    LET verified == SessionVerifiedForBeat(beat) IN
    [connectionStatus |-> CASE ~WalletConnected(beat) -> "disconnected" [] verified -> "ready" [] OTHER -> "session_verifying",
     permissions |-> IF verified THEN {"publishSkill", "executeTask", "anchorReceipt", "signSession", "viewChainData"}
                     ELSE IF WalletConnected(beat) THEN {"signSession"} ELSE {}]

\* buildDemoExecutionArtifacts: what the whole run of an outcome has, and why it failed.
RunHas(outcome) == IF outcome = "success" THEN {"receipt"} ELSE Lineage
RunFailed(outcome) == outcome = "failure"
RunActiveStep(outcome) == CASE outcome = "failure" -> 3 [] outcome = "success" -> 4 [] OTHER -> 0

\* Fault: a beat hides the reflection, but not the memory.
ShowsMemoryAlways(beat, outcome) == (beat.shown \cup {"memory"}) \cap RunHas(outcome)

\* applyStoryPlayback: the run as far as the beat has come.
StoryShown(beat, outcome) == beat.shown \cap RunHas(outcome)

ActiveStep(beat, outcome) == IF beat.active # 0 THEN beat.active ELSE RunActiveStep(outcome)

FailureReason(beat, outcome) ==
    \/ beat.stage \in {"failed", "reflecting", "writing_memory", "degraded"}
    \/ beat.stage = "anchoring_receipt" /\ beat.status = "failed"
    \/ beat.stage # "retrying" /\ RunFailed(outcome)

TimelineInput(beat, outcome) ==
    LET shown == StoryShown(beat, outcome)
        step == ActiveStep(beat, outcome)
    IN  [walletConnected |-> WalletConnected(beat), sessionVerified |-> SessionVerifiedForBeat(beat),
         hasSkill |-> TRUE, loopStep |-> IF step = 0 THEN 0 ELSE step - 1,
         loopBusy |-> beat.stage \in {"running", "retrying"}, status |-> beat.stage,
         hasReflection |-> "reflection" \in shown, hasMemory |-> "memory" \in shown,
         zerogStored |-> "memory" \in shown, zerogDaCommitted |-> beat.stage \in {"verified", "completed"},
         receiptAnchored |-> "receipt" \in shown, degraded |-> beat.stage \in {"degraded", "failed"}]

\* The beat of the engine, which works out the outcome again and moves a late index.
EngineBeat(s, playbackOutcome, force, index) ==
    LET last == FrameCount(s, force) - 1
    IN  BeatOfFrame(s, IF force THEN "failure" ELSE playbackOutcome, force, IF index > last THEN last ELSE index)

\* buildDemoSnapshotForUI.
DemoSnapshot(s, playbackOutcome, force, index) ==
    LET outcome == IF force THEN "failure" ELSE playbackOutcome
        beat == EngineBeat(s, playbackOutcome, force, index)
    IN  [beat |-> beat, connected |-> WalletConnected(beat), verified |-> SessionVerifiedForBeat(beat),
         shown |-> StoryShown(beat, outcome),
         hasFailure |-> beat.stage = "failed" \/ FailureReason(beat, outcome),
         hasRecovery |-> outcome = "recovery",
         timelineInput |-> TimelineInput(beat, outcome)]

EffectiveOutcome(outcome, force) == IF force THEN "failure" ELSE outcome

Snapshot == DemoSnapshot(scenario, EffectiveOutcome(runOutcome, forceError), forceError, frameIndex)

\* demoSnapshot.wallet.connected
SnapshotConnected ==
    WalletConnected(EngineBeat(scenario, EffectiveOutcome(runOutcome, forceError), forceError, frameIndex))

\* The page's own beat, of the frame the index is at.
ActiveUnifiedBeat ==
    BeatOfFrame(scenario, EffectiveOutcome(runOutcome, forceError), forceError,
                IF frameIndex > LastFrame THEN LastFrame ELSE frameIndex)

----------------------------------------
\* The records of a run: its receipts in their order, its plan and steps as it ends.
Receipt(kind, status) == [kind |-> kind, status |-> status]

BuildReceipts(outcome) ==
    LET lesson == <<Receipt("reflection_store", "verified"), Receipt("memory_store", "verified")>>
    IN  <<Receipt("skill_publish", "verified"), Receipt("plan_generate", "confirmed"),
          Receipt("execution_complete", IF outcome = "failure" THEN "pending" ELSE "verified")>>
        \o (IF outcome = "success" THEN <<>> ELSE lesson)
        \o <<Receipt("proof_anchor", "verified")>>
        \o (IF outcome = "failure" THEN <<>> ELSE <<Receipt("reputation_update", "confirmed")>>)

PlanExecutionStatus(outcome) ==
    CASE outcome = "success" -> "success" [] outcome = "failure" -> "failed" [] OTHER -> "recovered"

BuildExecutionSteps(outcome) ==
    IF outcome = "failure" THEN <<"succeeded", "succeeded", "failed", "pending">>
                           ELSE [i \in 1..4 |-> "succeeded"]

\* The receipts each step cites.
ReceiptsForSteps == <<{"plan_generate"}, {}, {"execution_complete"}, {"proof_anchor"}>>

\* The tools of the third step tell how the whole run ends, unless it is shown as pending.
ToolCalls(shownStatus, outcome) ==
    IF shownStatus = "pending" THEN "none" ELSE BuildExecutionSteps(outcome)[3]

StepsForPlayback(beat) ==
    [i \in 1..4 |-> IF i < beat.at THEN "succeeded" ELSE IF i = beat.at THEN beat.status ELSE "pending"]

BuildAgents(outcome) ==
    [operator |-> IF outcome = "failure" THEN "blocked" ELSE "done",
     critic |-> IF outcome = "success" THEN "idle" ELSE "done"]

\* The stages of the memory's timeline that wait: nothing is retrieved in a clean run.
MemoryStagesPending(hasFailure) == IF hasFailure THEN {} ELSE {"retrieved", "used"}

ReputationDelta(outcome) == CASE outcome = "recovery" -> 1 [] outcome = "failure" -> 0 - 2 [] OTHER -> 0

\* The reflection's proof status from the fixture through the story's and the domain's
\* record to the page; and a memory's, whose receipt is the reflection's.
StoryStatus(proof) == CASE proof = "verified" -> "verified" [] proof = "failed" -> "degraded" [] OTHER -> "stored"

DomainStatus(status) == IF status \in {"verified", "degraded"} THEN status ELSE "stored"

PageProof(status) == CASE status = "verified" -> "verified" [] status = "degraded" -> "failed" [] OTHER -> "pending"

BuildReflection(outcome) == [memory |-> "mem_CLAW_4412_ctx", receipt |-> "reflection_store", proof |-> "verified"]

BuildMemory(reflection) == [id |-> reflection.memory, receipt |-> reflection.receipt, verification |-> "verified"]

TraceableProof(memory) == IF memory.verification = "verified" THEN "demo_only" ELSE "pending"

PageMemory(memory) == [memory EXCEPT !.verification = IF memory.receipt # "" THEN "verified" ELSE "pending"]

\* A receipt as a structured one, and the proof state of its claim in the command center.
FixtureProofStatus(status) ==
    CASE status = "verified" -> "demo_only" [] status = "pending" -> "pending" [] OTHER -> "cached_only"

StructuredReceipt(receipt) ==
    [status |-> IF receipt.status = "pending" THEN "submitted" ELSE receipt.status,
     proofStatus |-> FixtureProofStatus(receipt.status)]

ClaimProofState(receipt) == IF receipt.status = "verified" THEN "demo_only" ELSE "pending"

\* What the page says of its data: by the stage, else by the anchored receipt.
DataPosture(beat, outcome) ==
    LET receipts == BuildReceipts(outcome)
        anchor == CHOOSE i \in DOMAIN receipts : receipts[i].kind = "proof_anchor"
        proof == StructuredReceipt(receipts[anchor]).proofStatus
    IN  IF beat.stage \in {"degraded", "failed"} THEN "degraded" ELSE proof

PreviewBadge(beat, outcome) ==
    LET receipts == BuildReceipts(outcome)
        posture == DataPosture(beat, outcome)
    IN  CASE posture \in {"degraded", "pending"} -> posture
          [] OTHER -> IF ClaimProofState(receipts[Len(receipts)]) = "demo_only" THEN "pending" ELSE "verified"

\* The story's page lists the anchor once the beat shows the receipt.
VisibleReceipts(beat, outcome) ==
    SelectSeq(BuildReceipts(outcome), LAMBDA r : "receipt" \in beat.shown \/ r.kind # "proof_anchor")

\* The rail of the frames, and the log of those up to the current one.
StoryStepViews(index) ==
    [i \in 0..LastFrame |->
        LET beat == EngineBeat(scenario, EffectiveOutcome(runOutcome, forceError), forceError, i)
        IN  CASE i < index -> "completed" [] i > index -> "pending"
              [] OTHER -> IF beat.stage = "failed" THEN "failed" ELSE "active"]

EventLog(index) ==
    [i \in 0..index |->
        LET beat == EngineBeat(scenario, EffectiveOutcome(runOutcome, forceError), forceError, i)
        IN  CASE beat.stage \in {"failed", "degraded"} -> "warning"
              [] beat.stage \in {"verified", "completed"} -> "success"
              [] OTHER -> IF i = index THEN "live" ELSE "info"]

\* The bundle the command center shows before anything has been run.
DemoBundle ==
    LET memory == BuildMemory(BuildReflection("recovery"))
    IN  [receipts |-> BuildReceipts("recovery"), steps |-> BuildExecutionSteps("recovery"),
         reflectionProof |-> "verified",
         memoryProof |-> IF TraceableProof(memory) = "verified" THEN "verified" ELSE "pending"]

----------------------------------------
DemoInit ==
    /\ scenario = "full-e2e" /\ runOutcome = "recovery" /\ forceError = FALSE
    /\ frameIndex = 0 /\ playing = FALSE
    /\ drivesWallet = TRUE /\ demoWallet = FALSE /\ handled = FALSE

\* What the effect depends on.
WalletEffectRuns(switched, changed) == switched \/ changed

\* The wallet of the render before the effects have set the outcome and the index.
RenderedBetween(outcome, index) ==
    WalletConnected(EngineBeat(scenario', EffectiveOutcome(outcome, forceError'), forceError', index))

\* The effect that sets the wallet as the snapshot's, after each render that changed it.
WalletFollows(between) ==
    LET changed == between # SnapshotConnected \/ between # SnapshotConnected'
        runs == drivesWallet' /\ WalletEffectRuns(drivesWallet' # drivesWallet, changed)
    IN  /\ demoWallet' = IF runs THEN SnapshotConnected' ELSE demoWallet
        /\ handled' = (handled /\ ~runs)

\* Another scenario brings its outcome; the button of the current one restarts it.  The
\* buttons of the playback move to the first frame at once, the cards of the hub do not.
SelectScenario(s, index) ==
    /\ scenario' = s
    /\ runOutcome' = IF s = scenario THEN runOutcome ELSE PreferredOutcome(s)
    /\ frameIndex' = IF s = scenario THEN index ELSE 0
    /\ UNCHANGED <<forceError, playing, drivesWallet>>
    /\ WalletFollows(RenderedBetween(runOutcome, index))

SetRunOutcome(o) ==
    /\ runOutcome' = o
    /\ frameIndex' = IF EffectiveOutcome(o, forceError) = EffectiveOutcome(runOutcome, forceError) THEN frameIndex ELSE 0
    /\ UNCHANGED <<scenario, forceError, playing, drivesWallet>>
    /\ WalletFollows(RenderedBetween(runOutcome', frameIndex))

ToggleForceError ==
    /\ forceError' = ~forceError
    /\ frameIndex' = 0
    /\ UNCHANGED <<scenario, runOutcome, playing, drivesWallet>>
    /\ WalletFollows(RenderedBetween(runOutcome', frameIndex))

\* Prev, Next, Restart, End, Loop and the segments of the rail.
MoveTo(index) ==
    /\ index \in 0..LastFrame
    /\ frameIndex' = index
    /\ UNCHANGED <<scenario, runOutcome, forceError, playing, drivesWallet>>
    /\ WalletFollows(SnapshotConnected')

NextFrame(index) == IF index >= LastFrame THEN 0 ELSE index + 1

PlayNext ==
    /\ playing
    /\ frameIndex' = NextFrame(frameIndex)
    /\ UNCHANGED <<scenario, runOutcome, forceError, playing, drivesWallet>>
    /\ WalletFollows(SnapshotConnected')

ToggleAutoplayStory ==
    /\ playing' = ~playing
    /\ UNCHANGED <<scenario, runOutcome, forceError, frameIndex, walletPanel>>

ToggleDrivesWallet ==
    /\ drivesWallet' = ~drivesWallet
    /\ UNCHANGED <<scenario, runOutcome, forceError, frameIndex, playing>>
    /\ WalletFollows(SnapshotConnected')

\* Connect and Disconnect of the wallet's card.
SetDemoWallet(connected) ==
    /\ demoWallet' = connected /\ handled' = TRUE
    /\ UNCHANGED <<scenario, runOutcome, forceError, frameIndex, playing, drivesWallet>>

DemoNext ==
    \/ \E s \in Scenarios, index \in {0, frameIndex} : SelectScenario(s, index)
    \/ \E o \in RunOutcomes : SetRunOutcome(o)
    \/ ToggleForceError
    \/ \E index \in 0..14 : MoveTo(index)
    \/ PlayNext
    \/ ToggleAutoplayStory \/ ToggleDrivesWallet
    \/ \E connected \in BOOLEAN : SetDemoWallet(connected)

DemoSpec == DemoInit /\ [][DemoNext]_demoVars

----------------------------------------
\* The page and the engine work out the moment of the story each on its own: they
\* always tell of the same beat.
PageAgreesWithEngine == ActiveUnifiedBeat = Snapshot.beat

\* Whatever scenario is played with whatever outcome, a lesson is shown only in a story
\* that fails, a memory with its reflection, a receipt with a verified session, and once
\* a retry runs or has succeeded the failure is over; the lanes of the timeline agree.
LessonFollowsFailure ==
    LET snap == Snapshot
        Lane(lane) == BuildCommandTimeline(snap.timelineInput)[lane]
    IN
    /\ snap.shown \cap Lesson # {} =>
          EffectiveOutcome(runOutcome, forceError) # "success" /\ snap.beat.at >= 3
    /\ "memory" \in snap.shown => "reflection" \in snap.shown /\ Lane("reflection") = "complete"
    /\ "receipt" \in snap.shown => snap.verified /\ Lane("wallet") = "complete"
    /\ snap.beat.stage \in {"retrying", "verified"} => ~snap.hasFailure /\ Lane("memory") = "complete"

\* The panels tell the run the beat tells: a step starts once the one before succeeded,
\* a step shown as failed is told as a failure, steps and lesson cite receipts the run has,
\* no receipt's proof is claimed above "demo_only", a lesson in view has its warning
\* in the log, a step runs only with a verified session, a lane with a proof is done, and
\* plan, agents, memory and reputation end as the run does.
ShownRecordsHold ==
    LET snap == Snapshot
        outcome == EffectiveOutcome(runOutcome, forceError)
        steps == StepsForPlayback(snap.beat)
        receipts == BuildReceipts(outcome)
        Kinds(list) == {list[i].kind : i \in DOMAIN list}
        reflection == BuildReflection(outcome)
        memory == PageMemory(BuildMemory(reflection))
        index == IF frameIndex > LastFrame THEN LastFrame ELSE frameIndex
        endsFailed == BuildExecutionSteps(outcome)[3] = "failed"
    IN
    /\ \A i \in 2..4 : steps[i] # "pending" => steps[i - 1] = "succeeded"
    /\ "failed" \in {steps[i] : i \in 1..4} => snap.hasFailure /\ snap.beat.stage \notin {"verified", "completed"}
    /\ UNION {ReceiptsForSteps[i] : i \in 1..4} \subseteq Kinds(receipts)
    /\ steps[3] = "succeeded" => ToolCalls(steps[3], outcome) = "succeeded"
    /\ "reflection" \in snap.shown => {reflection.receipt, memory.receipt} \subseteq Kinds(VisibleReceipts(snap.beat, outcome))
    /\ PageProof(DomainStatus(StoryStatus(reflection.proof))) = reflection.proof
    /\ "memory" \in snap.shown => \E i \in 0..index : EventLog(index)[i] = "warning"
    /\ \A r \in {StructuredReceipt(receipts[i]) : i \in DOMAIN receipts} :
          r.proofStatus # "verified" /\ (r.status = "verified" => r.proofStatus = "demo_only")
    /\ PreviewBadge(snap.beat, outcome) = "degraded" => snap.timelineInput.degraded /\ snap.hasFailure
    /\ \A i \in 1..4 : steps[i] = "running" => "executeTask" \in DemoWalletState(snap.beat).permissions
    /\ \A lane \in ProofRefs(snap.timelineInput) \ {"skill"} : BuildCommandTimeline(snap.timelineInput)[lane] = "complete"
    /\ StoryStepViews(index)[index] = "failed" => steps[3] = "failed"
    /\ endsFailed <=> PlanExecutionStatus(outcome) = "failed"
    /\ endsFailed <=> BuildAgents(outcome).operator = "blocked"
    /\ endsFailed <=> ReputationDelta(outcome) < 0
    /\ (BuildAgents(outcome).critic = "done") <=> (MemoryStagesPending(outcome # "success") = {})

\* A wallet panel that follows the story shows the wallet of the moment, unless its own
\* buttons have been used since it was last set: changes of the frame, the scenario, the
\* outcome or the switch never leave it behind.
FollowedWalletKeepsUp ==
    drivesWallet /\ ~handled => demoWallet = SnapshotConnected

\* Left to play, a story comes to its last frame again and again.
StoryPlaysToItsEnd == <>[][PlayNext]_demoVars /\ <>[]playing => []<>(frameIndex = LastFrame)

\* shared/demoScenarioPlayback.ts:32-33: the frames of a scenario are beats of the story
\* of its preferred outcome, or of the failure's when an error is forced.
FramesShowTheirBeat ==
    forceError \/ runOutcome = PreferredOutcome(scenario) =>
        PlaybackFrames(scenario, forceError)[1] + frameIndex
            < Len(UnifiedStoryBeats(EffectiveOutcome(runOutcome, forceError)))

\* The demo tells one story: page, engine, timeline and wallet agree, and nothing is
\* shown before what it rests on.
StoryHoldsTogether ==
    /\ PageAgreesWithEngine
    /\ LessonFollowsFailure
    /\ ShownRecordsHold
    /\ FollowedWalletKeepsUp
=============================================================================
