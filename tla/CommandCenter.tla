---------------------------- MODULE CommandCenter ----------------------------
(***************************************************************************)
(* The page of the command center: SwarmCommandCenter of the client.  It   *)
(* lists the skills of the registry, of which two requests start with the  *)
(* page and one after every result, and runs the loop that selects a skill *)
(* and executes a goal with it.  The button of the loop is disabled while  *)
(* one is in flight; the retry of a result with errors is not.             *)
(*                                                                         *)
(* A result is its status and whether it is degraded; the order of a list, *)
(* the goal, the panels and the 0G requests are left out.                  *)
(*                                                                         *)
(* Beside it runs the simulated runtime: executeAutonomousCycle of         *)
(* swarmRuntime.ts, from the button of the settings or, every 2.5 s, the   *)
(* autoplay.  It is a pure function of the state before it, and the first  *)
(* cycle, which finds no memory, fails.  A record is named by the cycle    *)
(* that made it; texts, hashes, agents and the graph are left out.         *)
(***************************************************************************)
EXTENDS CommandTimeline, Sequences, SequencesExt, FiniteSetsExt

CONSTANTS
    PageWallets,    \* the wallets the provider may give the page
    Registry,       \* the skills of the registry
    MaxLoops,       \* bound: loops begun in a behaviour
    MaxRetries      \* bound: lists in flight when one is asked for again

ASSUME CommandCenterAssumption == MaxLoops \in Nat /\ MaxRetries \in Nat

VARIABLES
    pageWallet,     \* walletAddress
    demoMode,
    chainSkills,    \* as a set
    selectedSkill,
    registryError,
    lastResult, loopStep, loopBusy, loopError,
    loops,          \* the loops begun: where each is, or how it has ended
    lists,          \* the requests for the skills in flight: how many of each kind
    advanced,       \* history: Advance demo was clicked after the last step a loop made
    overlapping     \* history: a loop has begun while another was in flight

commandCenterVars == <<pageWallet, demoMode, chainSkills, selectedSkill, registryError, lastResult,
                       loopStep, loopBusy, loopError, loops, lists, advanced, overlapping>>
skillVars == <<chainSkills, selectedSkill, registryError, lists>>
loopVars == <<lastResult, loopStep, loopBusy, loopError, loops, advanced, overlapping>>

Nobody == "none"
DemoWallet == "demo wallet"
DemoSkill == "demo skill"
NoResult == [status |-> "none", degraded |-> FALSE, loop |-> 0]

StoryFinal == 8
LoopsInFlight == {i \in DOMAIN loops : loops[i] \in {"select", "execute"}}

CommandCenterInit ==
    /\ pageWallet \in PageWallets \cup {Nobody}
    /\ demoMode \in BOOLEAN
    /\ chainSkills = {} /\ registryError = FALSE
    /\ selectedSkill = IF demoMode THEN DemoSkill ELSE Nobody
    /\ lastResult = NoResult /\ loopStep = 0 /\ loopBusy = FALSE /\ loopError = FALSE
    /\ loops = <<>>
    /\ lists = [bootstrap |-> 1, refresh |-> 1]
    /\ advanced = FALSE /\ overlapping = FALSE

----------------------------------------
EffectiveWallet ==
    IF pageWallet = Nobody /\ demoMode THEN DemoWallet ELSE pageWallet

SkillRows(skills, demo) ==
    IF skills = {} /\ demo THEN {DemoSkill} ELSE skills

\* The effect that selects the first row when nothing is selected.
SelectsFirst(skills, demo) ==
    IF selectedSkill # Nobody \/ SkillRows(skills, demo) = {}
    THEN UNCHANGED selectedSkill
    ELSE selectedSkill' \in SkillRows(skills, demo)

\* The bootstrap, an effect of a result, or a retry of the list: each shows what it is
\* answered, in whatever order the answers come.
ListAnswers(kind, skills) ==
    /\ lists[kind] > 0
    /\ lists' = [lists EXCEPT ![kind] = @ - 1]
    /\ chainSkills' = skills
    /\ registryError' = FALSE
    /\ SelectsFirst(skills, demoMode)
    /\ UNCHANGED <<pageWallet, demoMode, loopVars>>

ListFails(kind) ==
    /\ lists[kind] > 0
    /\ lists' = [lists EXCEPT ![kind] = @ - 1]
    /\ registryError' = TRUE
    /\ UNCHANGED <<pageWallet, demoMode, chainSkills, selectedSkill, loopVars>>

RetryList ==
    /\ registryError /\ chainSkills = {}
    /\ lists.refresh < MaxRetries
    /\ registryError' = FALSE
    /\ lists' = [lists EXCEPT !.refresh = @ + 1]
    /\ UNCHANGED <<pageWallet, demoMode, chainSkills, selectedSkill, loopVars>>

SelectSkill(s) ==
    /\ s \in SkillRows(chainSkills, demoMode)
    /\ selectedSkill' = s
    /\ UNCHANGED <<pageWallet, demoMode, chainSkills, registryError, lists, loopVars>>

ToggleDemo ==
    /\ demoMode' = ~demoMode
    /\ SelectsFirst(chainSkills, ~demoMode)
    /\ UNCHANGED <<pageWallet, chainSkills, registryError, lists, loopVars>>

WalletSwitches(w) ==
    /\ pageWallet' = w
    /\ UNCHANGED <<demoMode, skillVars, loopVars>>

----------------------------------------
\* runLinkedLoop, up to its first await.
RunLinkedLoop ==
    /\ EffectiveWallet # Nobody /\ selectedSkill # Nobody
    /\ Len(loops) < MaxLoops
    /\ loopError' = FALSE /\ loopBusy' = TRUE /\ loopStep' = 1
    /\ loops' = Append(loops, "select")
    /\ advanced' = FALSE
    /\ overlapping' = (overlapping \/ LoopsInFlight # {})
    /\ UNCHANGED <<pageWallet, demoMode, skillVars, lastResult>>

ClickRun == ~loopBusy /\ RunLinkedLoop

\* The panel of the errors of the last result.
ClickRetry == lastResult.degraded /\ RunLinkedLoop

SkillSelected(i) ==
    /\ loops[i] = "select"
    /\ loops' = [loops EXCEPT ![i] = "execute"]
    /\ loopStep' = 2
    /\ advanced' = FALSE
    /\ UNCHANGED <<pageWallet, demoMode, skillVars, lastResult, loopBusy, loopError, overlapping>>

\* Fault: an answer is the end of the story.
AlwaysFinal(status) == StoryFinal

StoryStepAfter(status) ==
    CASE status = "verified" -> StoryFinal
      [] status = "failed" -> 6
      [] OTHER -> 5

\* The result is shown as it comes, and the list of the skills is asked for again.
LoopAnswers(i, result) ==
    /\ loops[i] = "execute"
    /\ lastResult' = [result EXCEPT !.loop = i]
    /\ loopStep' = StoryStepAfter(result.status)
    /\ loopBusy' = FALSE
    /\ loops' = [loops EXCEPT ![i] = "done"]
    /\ lists' = [lists EXCEPT !.refresh = @ + 1]
    /\ advanced' = FALSE
    /\ UNCHANGED <<pageWallet, demoMode, chainSkills, selectedSkill, registryError, loopError, overlapping>>

Finally == FALSE

StepAfterError == 0

\* Either request is refused, or lost.
LoopFails(i) ==
    /\ i \in LoopsInFlight
    /\ loopError' = TRUE /\ loopStep' = StepAfterError /\ loopBusy' = Finally
    /\ loops' = [loops EXCEPT ![i] = "failed"]
    /\ advanced' = FALSE
    /\ UNCHANGED <<pageWallet, demoMode, skillVars, lastResult, overlapping>>

\* Advance demo: the story is shown as finished, without a loop.
AdvanceDemo ==
    /\ ~loopBusy
    /\ loopStep' = StoryFinal /\ loopError' = FALSE
    /\ advanced' = TRUE
    /\ UNCHANGED <<pageWallet, demoMode, skillVars, lastResult, loopBusy, loops, overlapping>>

\* What SwarmExecute may answer.
LoopResults ==
    [status : {"verified", "degraded"}, degraded : BOOLEAN, loop : {0}]
        \ {[NoResult EXCEPT !.status = "degraded"]}

CommandCenterNext ==
    \/ \E kind \in DOMAIN lists : ListFails(kind) \/ \E skills \in SUBSET Registry : ListAnswers(kind, skills)
    \/ RetryList
    \/ \E s \in Registry \cup {DemoSkill} : SelectSkill(s)
    \/ ToggleDemo
    \/ \E w \in PageWallets \cup {Nobody} : WalletSwitches(w)
    \/ ClickRun \/ ClickRetry
    \/ \E i \in DOMAIN loops : SkillSelected(i) \/ LoopFails(i) \/ \E r \in LoopResults : LoopAnswers(i, r)
    \/ AdvanceDemo

----------------------------------------
DegradedMessages(verified) ==
    \/ loopError \/ lastResult.degraded
    \/ ~demoMode /\ (EffectiveWallet = Nobody \/ ~verified)

\* The timeline of the page for a session that is verified or not; the demo fills every
\* gap, and a live result has its lesson and its stored and committed artifacts or not.
LiveTimeline(verified, lesson, stored, committed) ==
    BuildCommandTimeline(
        [walletConnected |-> EffectiveWallet # Nobody, sessionVerified |-> verified \/ demoMode,
         hasSkill |-> selectedSkill \in chainSkills \/ demoMode,
         loopStep |-> loopStep, loopBusy |-> loopBusy, status |-> lastResult.status,
         hasReflection |-> lesson \/ demoMode, hasMemory |-> lesson \/ demoMode,
         zerogStored |-> stored \/ demoMode,
         zerogDaCommitted |-> committed \/ demoMode \/ lastResult.status \in {"anchored", "verified"},
         receiptAnchored |-> lastResult.status \in {"anchored", "verified"} \/ demoMode,
         degraded |-> DegradedMessages(verified)])

----------------------------------------
\* The story is at its last step only for a verified result or after Advance demo,
\* whatever loops overlap and in whatever order they end: the first of two loops to
\* end cannot leave its step with the other's result.
FinalStepIsProven ==
    loopStep = StoryFinal => advanced \/ lastResult.status = "verified"

\* The page is not busy without a loop in flight, and looks idle during one only when
\* two have overlapped.
BusyIsInFlight ==
    /\ loopBusy => LoopsInFlight # {}
    /\ ~overlapping /\ LoopsInFlight # {} => loopBusy

\* Between loops the page tells of the last one: an error when it failed, its own
\* result and step when it was answered.
PageTellsLastLoop ==
    ~overlapping /\ ~advanced /\ LoopsInFlight = {} /\ loops # <<>> =>
        LET last == Len(loops) IN
        IF loops[last] = "failed" THEN loopError /\ loopStep = 0 /\ lastResult.loop # last
        ELSE /\ ~loopError
             /\ lastResult.loop = last
             /\ loopStep = StoryStepAfter(lastResult.status)

\* Outside the demo, the timeline invites to verify only what the last answered loop
\* has proven, for a connected wallet with a verified session and after no error, and
\* then no lane before it is still open but those of the lesson and its artifacts.
VerifyLaneIsEarned ==
    ~demoMode /\ loopStep = StoryFinal =>
        \A verified, lesson, stored, committed \in BOOLEAN :
            LET lanes == LiveTimeline(verified, lesson, stored, committed) IN
            lanes.next = "active" =>
                /\ verified /\ pageWallet # Nobody /\ ~loopError
                /\ lastResult.status = "verified" /\ ~lastResult.degraded
                /\ \A lane \in {"wallet", "outcome", "receipt", "reputation"} : lanes[lane] = "complete"

----------------------------------------
CONSTANTS
    MaxLinks,       \* the cap of zeroGLinks (100 in the code)
    MaxPolicies,    \* the cap of policyEvents (30 in the code)
    MaxCycles       \* bound: cycles of a behaviour

ASSUME SwarmRuntimeAssumption == MaxLinks \in Nat \ {0} /\ {MaxPolicies, MaxCycles} \subseteq Nat

VARIABLES runtime, autoplay

swarmRuntimeVars == <<runtime, autoplay>>

SwarmRuntimeInit ==
    /\ autoplay = FALSE
    /\ runtime = [autonomyScore |-> 62, autonomyLevel |-> "policy_gated", proofCompletionRate |-> 71,
                  plansCompleted |-> 3, successfulExecutions |-> 2, policyApprovals |-> 7,
                  memoryGrowth |-> 0, runs |-> <<>>, memories |-> <<>>, receipts |-> <<>>,
                  zeroGLinks |-> <<>>, policyEvents |-> <<>>, bridgeStatus |-> "idle"]

----------------------------------------
LesserOf(a, b) == IF a < b THEN a ELSE b

FirstN(s, n) == SubSeq(s, 1, LesserOf(n, Len(s)))

CycleFails == runtime.memories = <<>>

\* createPolicyPack: the scope, the confidence and the signature.
PolicyPack == <<"approved", IF CycleFails THEN "review_required" ELSE "approved", "signature_required">>

LevelOf(score) ==
    CASE score > 88 -> "fully_autonomous"
      [] score > 80 /\ score <= 88 -> "near_autonomous"
      [] score > 68 /\ score <= 80 -> "meaningful_agency"
      [] OTHER -> "policy_gated"

\* The three receipts of a cycle, newest first: each links to those before it.
ReceiptsOf(run) == <<<<"proof", run>>, <<"execution", run>>, <<"decision", run>>>>

\* The confirmed link of a cycle with the proof receipt, or the pending one of a failure.
LinkOf(run) == [run |-> run, receipt |-> <<"proof", run>>, status |-> IF CycleFails THEN "linked" ELSE "verified"]

\* The run with its memory: the confidence of the plan before and after the lesson.
MemoryOf(run) == [run |-> run, before |-> IF CycleFails THEN 61 ELSE 81, after |-> IF CycleFails THEN 77 ELSE 88,
                  receipt |-> <<"proof", run>>]

RunOf(run) == [id |-> run, status |-> IF CycleFails THEN "failed" ELSE "success",
               before |-> runtime.autonomyScore,
               after |-> runtime.autonomyScore + (IF CycleFails THEN 4 ELSE 8)]

Capped(s, n) == FirstN(s, n)

ExecuteAutonomousCycle ==
    LET n == Len(runtime.runs) + 1
        run == RunOf(n)
    IN  [autonomyScore |-> LesserOf(100, run.after),
         autonomyLevel |-> LevelOf(run.after),
         proofCompletionRate |-> LesserOf(100, runtime.proofCompletionRate + (IF CycleFails THEN 5 ELSE 9)),
         plansCompleted |-> runtime.plansCompleted + 1,
         successfulExecutions |-> runtime.successfulExecutions + (IF CycleFails THEN 0 ELSE 1),
         policyApprovals |-> runtime.policyApprovals + Len(SelectSeq(PolicyPack, LAMBDA p : p = "approved")),
         memoryGrowth |-> runtime.memoryGrowth + 1,
         runs |-> <<run>> \o runtime.runs,
         memories |-> <<MemoryOf(n)>> \o runtime.memories,
         receipts |-> ReceiptsOf(n) \o runtime.receipts,
         zeroGLinks |-> Capped(<<LinkOf(n)>> \o runtime.zeroGLinks, MaxLinks),
         policyEvents |-> Capped(PolicyPack \o runtime.policyEvents, MaxPolicies),
         bridgeStatus |-> IF CycleFails THEN "pending" ELSE "confirmed"]

RunOnce ==
    /\ Len(runtime.runs) < MaxCycles
    /\ runtime' = ExecuteAutonomousCycle
    /\ UNCHANGED autoplay

AutoplayTick == autoplay /\ RunOnce

ToggleAutoplay == autoplay' = ~autoplay /\ UNCHANGED runtime

SwarmRuntimeNext == RunOnce \/ AutoplayTick \/ ToggleAutoplay

----------------------------------------
\* The figures of the page are those of its runs: each run begins with the score the
\* one before it has left, cut at 100, the level is that of the last score before the
\* cut, and the bridge has the status of the newest link.
FiguresTellTheRuns ==
    LET runs == runtime.runs
        Successes == {i \in DOMAIN runs : runs[i].status = "success"}
    IN  /\ runtime.plansCompleted = 3 + Len(runs)
        /\ runtime.successfulExecutions = 2 + Cardinality(Successes)
        /\ \A i \in 1..(Len(runs) - 1) : runs[i].before = LesserOf(100, runs[i + 1].after)
        /\ runs # <<>> =>
              /\ runtime.autonomyScore = LesserOf(100, runs[1].after)
              /\ runtime.autonomyLevel = LevelOf(runs[1].after)
              /\ runtime.bridgeStatus = (IF runtime.zeroGLinks[1].status = "verified" THEN "confirmed" ELSE "pending")

\* Whatever the caps have cut off, what is listed refers to records that are listed.
ShownReferencesHold ==
    /\ \A i \in DOMAIN runtime.zeroGLinks : Contains(runtime.receipts, runtime.zeroGLinks[i].receipt)
    /\ \A i \in DOMAIN runtime.memories : Contains(runtime.receipts, runtime.memories[i].receipt)
    /\ runtime.runs # <<>> => \E i \in DOMAIN runtime.zeroGLinks : runtime.zeroGLinks[i].run = runtime.runs[1].id
=============================================================================
