---------------------------- MODULE AgentPipeline ----------------------------
(***************************************************************************)
(* The inspectable run of the agents that goes with an execution:          *)
(* buildAgentFrameworkRun of shared/agents, a pure function of the goal,   *)
(* of whether the session is active and of the lessons the wallet has, and *)
(* the records runSwarmExecute merges into it afterwards.  Over the turns  *)
(* of a wallet the lessons of one run are those the next one begins with.  *)
(*                                                                         *)
(* A goal is the set of the patterns its text matches; scores are in       *)
(* hundredths.  Texts, ids, hints and times are left out.                  *)
(***************************************************************************)
EXTENDS Integers, Sequences, SequencesExt

CONSTANT MaxTurns       \* bound: runs of a behaviour

ASSUME AgentPipelineAssumption == MaxTurns \in Nat

VARIABLES
    framework,      \* the AgentFrameworkRun of the last turn, or NoFramework
    lessonsKept,    \* the reflections the wallet has by now
    turnPhase,          \* what runSwarmExecute merges next
    turns,
    degradedTurn    \* degraded: something of this turn went wrong

agentVars == <<framework, lessonsKept, turnPhase, turns, degradedTurn>>

NoFramework == [status |-> "none"]
Patterns == {"governance", "reflection", "transaction", "research"}

----------------------------------------
(* The registry of tools.                                                  *)

Primary == "exec.simulate_operator"
Fallback == "exec.simulate_operator_degraded"

PreferredTools ==
    <<"context.search_memory", "chain.read_session", "skill.resolve_registry", "plan.structured_emit",
      Primary, Fallback, "proof.anchor_plan", "proof.anchor_execution", "memory.persist_reflection">>

RequiresWalletSession ==
    {"chain.read_session", Primary, "proof.anchor_plan", "proof.anchor_execution", "memory.persist_reflection"}

FallbackOf == {Primary}
NotRetryable == {"plan.structured_emit", Fallback}

\* Of the tools named, in the order of the registry.
ToolsInPreferredOrder(names) == SelectSeq(PreferredTools, LAMBDA t : t \in names)

MapToolFailureToRecovery(tool, inactive) ==
    IF tool \in FallbackOf THEN "fallback_tool"
    ELSE IF inactive THEN "degraded_continue"
    ELSE IF tool \notin NotRetryable THEN "retry"
    ELSE "abort"

----------------------------------------
(* The fleet: who may do what.                                             *)

\* The permissions of the profiles.  Nothing in the pipeline asks for them.
Permitted ==
    [canPlan |-> {"planner", "coordinator"}, canDelegate |-> {"coordinator"},
     canCallTools |-> {"operator", "researcher"}, canWriteMemory |-> {"memory_writer", "reflector"},
     canAnchorProof |-> {"proof_anchor", "coordinator"}, canRetry |-> {"recovery_manager", "operator"},
     canEscalate |-> {"coordinator", "critic"}]

----------------------------------------
(* The run.                                                                *)

\* The first pattern that matches, in this order.
GoalType(goal) ==
    CASE "governance" \in goal -> "governance"
      [] "governance" \notin goal /\ "reflection" \in goal -> "reflection"
      [] goal \cap {"governance", "reflection"} = {} /\ "transaction" \in goal -> "transaction"
      [] goal = {"research"} -> "research"
      [] OTHER -> "orchestration"

RiskSignals(goal, active) ==
    (IF GoalType(goal) = "transaction" THEN {"transaction_intent_detected"} ELSE {})
        \cup (IF active THEN {} ELSE {"wallet_session_inactive"})

RiskLevel(goal, active) ==
    IF RiskSignals(goal, active) # {} THEN "high"
    ELSE IF GoalType(goal) = "governance" THEN "medium"
    ELSE "low"

PlanPolicy(goal, active) ==
    IF ~active /\ RiskLevel(goal, active) # "low" THEN "needs_review" ELSE "approved"

\* From low, 0, to critical.
ConfidenceFromScore(score) ==
    CASE score >= 85 -> 3
      [] score >= 65 /\ score < 85 -> 2
      [] score >= 40 /\ score < 65 -> 1
      [] OTHER -> 0

PlanConfidence(goal, active, priors) ==
    ConfidenceFromScore(55 + (IF priors > 0 THEN 15 ELSE 0) + (IF active THEN 20 ELSE 0)
                           - (IF RiskLevel(goal, active) = "high" THEN 20 ELSE 0))

CriticScore(goal, active, priors) ==
    38 + (IF PlanPolicy(goal, active) = "needs_review" THEN 0 ELSE 25)
       + (IF active THEN 22 ELSE 5) + (IF priors > 0 THEN 15 ELSE 8)

CriticEvaluation(goal, active, priors) ==
    LET blocked == PlanPolicy(goal, active) = "needs_review"
    IN  [score |-> CriticScore(goal, active, priors),
         policyCompliance |-> IF blocked THEN "warn" ELSE "pass",
         proofCompleteness |-> IF active THEN "full" ELSE "partial",
         memoryUsefulness |-> IF priors > 0 THEN "high" ELSE "medium",
         shouldImprovePlanNextRun |-> blocked]

ChosenTool(active) == IF active THEN Primary ELSE Fallback

ToolCall(tool, ok) == [tool |-> tool, status |-> IF ok THEN "succeeded" ELSE "failed"]

StepOf(owner, calls, retries, memories) ==
    [owner |-> owner, calls |-> calls, retryCount |-> retries, maxRetries |-> 2, memoryRefs |-> memories]

\* The two steps of every plan, with the calls that are recorded in them.
Steps(active, priors) ==
    <<StepOf("researcher",
           <<ToolCall("context.search_memory", TRUE), ToolCall("chain.read_session", active),
             ToolCall("skill.resolve_registry", TRUE)>>, 0, priors),
      StepOf("operator", <<ToolCall(ChosenTool(active), TRUE)>>, IF active THEN 0 ELSE 1, 0)>>

\* A decision with the scores of the options it considered.
Decision(role, scores, selected) == [role |-> role, scores |-> scores, selected |-> selected]

\* In hundredths; the tools and the plans are named by what they are.
Decisions(active, priors) ==
    LET If(b, x, y) == IF b THEN x ELSE y
    IN  <<Decision("coordinator", [skill_primary |-> 90, skill_fallback |-> 35], "skill_primary"),
          Decision("researcher",
                   [inject_recent |-> If(priors > 0, 88, 20), inject_none |-> If(priors > 0, 25, 90)],
                   If(priors > 0, "inject_recent", "inject_none")),
          Decision("planner", [plan_full |-> 92, plan_min |-> 35], "plan_full"),
          Decision("operator", [t \in {Primary, Fallback} |-> If(t = ChosenTool(active), 90, 40)],
                   ChosenTool(active)),
          Decision("recovery_manager",
                   [retry |-> If(active, 20, 15), fallback |-> If(active, 10, 90), abort |-> 5],
                   If(active, "retry", "fallback"))>>

Recoveries(active) ==
    IF active THEN <<>>
    ELSE <<[from |-> Primary, to |-> Fallback, how |-> MapToolFailureToRecovery(Primary, TRUE)]>>

HandOff(from, to, confidence) == [from |-> from, to |-> to, confidence |-> confidence]

Delegations(goal, active, priors) ==
    <<HandOff("coordinator", "planner", PlanConfidence(goal, active, priors)),
      HandOff("planner", "researcher", IF priors > 0 THEN 3 ELSE 2),
      HandOff("researcher", "operator", IF active THEN 3 ELSE 1),
      HandOff("operator", "critic", 2), HandOff("critic", "reflector", 2)>>

Plan(goal, active, priors) ==
    [riskLevel |-> RiskLevel(goal, active),
     policyStatus |-> PlanPolicy(goal, active),
     confidence |-> PlanConfidence(goal, active, priors),
     steps |-> Steps(active, priors),
     toolPlan |-> ToolsInPreferredOrder({"context.search_memory", "chain.read_session", "skill.resolve_registry",
                                         ChosenTool(active), "proof.anchor_plan", "memory.persist_reflection"})]

BuildAgentFrameworkRun(goal, active, priors) ==
    [status |-> IF RiskSignals(goal, active) # {} THEN "degraded" ELSE "completed",
     goalType |-> GoalType(goal), active |-> active, priors |-> priors,
     plan |-> Plan(goal, active, priors),
     decisions |-> Decisions(active, priors),
     recoveries |-> Recoveries(active),
     delegations |-> Delegations(goal, active, priors),
     critic |-> CriticEvaluation(goal, active, priors),
     reflections |-> 0, memories |-> 0, proofs |-> <<>>, planFailed |-> FALSE]

----------------------------------------
(* The turns of a wallet.                                                  *)

AgentInit == framework = NoFramework /\ lessonsKept = 0 /\ turnPhase = "turn" /\ turns = 0 /\ degradedTurn = FALSE

\* listReflections with a limit of 5.
PriorReflections == IF lessonsKept > 5 THEN 5 ELSE lessonsKept

TurnBegins(goal, active) ==
    /\ turnPhase = "turn" /\ turns < MaxTurns
    /\ framework' = BuildAgentFrameworkRun(goal, active, PriorReflections)
    /\ degradedTurn' = ~active
    /\ turns' = turns + 1
    /\ turnPhase' = "plan"
    /\ UNCHANGED lessonsKept

WithRecords(refs, mems, proof) ==
    [framework EXCEPT !.reflections = @ + refs, !.memories = @ + mems, !.proofs = Append(@, proof)]

\* A phase goes well; or it fails, before its records were merged or, in the write that
\* follows, after.
Outcomes == {"ok", "failed", "failed late"}

PlanMerged(outcome) ==
    /\ turnPhase = "plan"
    /\ LET merged == IF outcome = "failed" THEN framework ELSE WithRecords(0, 0, <<"plan", "verified">>)
       IN  framework' = IF outcome = "ok" THEN merged ELSE [merged EXCEPT !.status = "failed", !.planFailed = TRUE]
    /\ degradedTurn' = (degradedTurn \/ outcome # "ok")
    /\ turnPhase' = "reflection"
    /\ UNCHANGED <<lessonsKept, turns>>

\* The reflection and its memory are the wallet's as soon as they are saved, whether
\* their anchor was signed and whether the phase fails later.
ReflectionMerged(outcome, saved, signed) ==
    /\ turnPhase = "reflection"
    /\ outcome # "failed" => saved
    /\ LET merged == IF outcome = "failed" THEN framework
                     ELSE WithRecords(1, 1, <<"reflection", IF signed THEN "pending" ELSE "degraded">>)
       IN  framework' = IF outcome = "ok" THEN merged ELSE [merged EXCEPT !.status = "degraded"]
    /\ degradedTurn' = (degradedTurn \/ outcome # "ok" \/ ~signed)
    /\ lessonsKept' = IF saved THEN lessonsKept + 1 ELSE lessonsKept
    /\ turnPhase' = "execution"
    /\ UNCHANGED turns

\* Fault: the run is completed by its last proof, whatever went wrong before.
ProofCompletesTurn(accepted) == IF accepted THEN "completed" ELSE "degraded"

StatusAfterProof(accepted) ==
    IF accepted /\ ~degradedTurn THEN "completed"
    ELSE IF framework.planFailed THEN "failed"
    ELSE "degraded"

ExecutionMerged(outcome, accepted) ==
    /\ turnPhase = "execution"
    /\ LET merged == IF outcome = "failed" THEN framework
                     ELSE WithRecords(0, 0, <<"execution", IF accepted THEN "verified" ELSE "degraded">>)
       IN  framework' = [merged EXCEPT !.status = IF outcome = "ok" THEN StatusAfterProof(accepted) ELSE "degraded"]
    /\ degradedTurn' = (degradedTurn \/ outcome # "ok" \/ ~accepted)
    /\ turnPhase' = "turn"
    /\ UNCHANGED <<lessonsKept, turns>>

AgentNext ==
    \/ \E goal \in SUBSET Patterns, active \in BOOLEAN : TurnBegins(goal, active)
    \/ \E outcome \in Outcomes, saved, ok \in BOOLEAN :
          PlanMerged(outcome) \/ ReflectionMerged(outcome, saved, ok) \/ ExecutionMerged(outcome, ok)

----------------------------------------
Called(run) == {c \in (DOMAIN run.plan.steps) \X (1..3) : c[2] \in DOMAIN run.plan.steps[c[1]].calls}

\* No tool that needs the wallet's session has succeeded in a run without one; the tool that
\* took the place of the operator's is recorded as a recovery, and as a retry of its step.
SessionToolsNeedSession ==
    framework # NoFramework =>
        /\ ~framework.active =>
              \A c \in Called(framework) :
                  LET call == framework.plan.steps[c[1]].calls[c[2]]
                  IN  call.tool \in RequiresWalletSession => call.status = "failed"
        /\ \A i \in DOMAIN framework.plan.steps :
              LET step == framework.plan.steps[i]
              IN  /\ step.retryCount > 0 <=> \E k \in DOMAIN step.calls : step.calls[k].tool = Fallback
                  /\ step.retryCount > 0 => framework.recoveries # <<>>
                  /\ step.retryCount <= step.maxRetries

\* Nobody asks for the permissions of the profiles, and yet: only roles that may call tools
\* own a step with calls, only one that may retry owns a retried step or decides on a retry,
\* the planner's plan is from one that may plan, and each took the option it scored best.
RolesKeepTheirPermissions ==
    framework # NoFramework =>
        /\ \A i \in DOMAIN framework.plan.steps :
              LET step == framework.plan.steps[i]
              IN  /\ step.calls # <<>> => step.owner \in Permitted.canCallTools
                  /\ step.retryCount > 0 => step.owner \in Permitted.canRetry
        /\ \A i \in DOMAIN framework.decisions :
              LET d == framework.decisions[i]
              IN  /\ "retry" \in DOMAIN d.scores => d.role \in Permitted.canRetry
                  /\ "plan_full" \in DOMAIN d.scores => d.role \in Permitted.canPlan
                  /\ Fallback \in DOMAIN d.scores => d.role \in Permitted.canCallTools
                  /\ \A o \in DOMAIN d.scores : d.scores[o] <= d.scores[d.selected]

\* A wallet that has learned, or whose session is active, is planned for with no less
\* confidence, handed on with no less and judged no worse than without: for the same goal, whatever it matches.
LearningNeverHurts ==
    framework # NoFramework =>
        \A goal \in SUBSET Patterns, active \in BOOLEAN :
            LET Better == framework.active \/ ~active
                run == BuildAgentFrameworkRun(goal, active, 0)
                learned == BuildAgentFrameworkRun(goal, framework.active, framework.priors)
            IN  Better => /\ learned.plan.confidence >= run.plan.confidence
                          /\ learned.critic.score >= run.critic.score
                          /\ \A i \in DOMAIN run.delegations :
                                learned.delegations[i].confidence >= run.delegations[i].confidence

\* A run that ends as completed has an active session and the proofs of its plan, its
\* reflection and its execution, none of them degraded; one that ends as failed has
\* lost its plan, and no run that lost its plan is completed.
CompletedRunsAreProven ==
    framework # NoFramework /\ turnPhase = "turn" =>
        /\ framework.status = "completed" =>
              /\ framework.active /\ ~framework.planFailed
              /\ framework.proofs = <<<<"plan", "verified">>, <<"reflection", "pending">>, <<"execution", "verified">>>>
              /\ framework.reflections = 1 /\ framework.memories = 1
        /\ framework.status = "failed" => framework.planFailed

\* A run of the agents has used, learned and completed no more than its session, its
\* lessons and its proofs allow.
RunsAreEarned ==
    /\ SessionToolsNeedSession
    /\ RolesKeepTheirPermissions
    /\ LearningNeverHurts
    /\ CompletedRunsAreProven
=============================================================================
