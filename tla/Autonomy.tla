------------------------------ MODULE Autonomy ------------------------------
(***************************************************************************)
(* The autonomy routes over the database: the configuration of one user, a *)
(* row that every write reads, merges and writes back whole, and the policy *)
(* gate that weighs an action, with the rows a decision leaves one after    *)
(* the other.  Each await is a step; an insert that fails ends the request  *)
(* and leaves the rows before it.                                          *)
(***************************************************************************)
EXTENDS Integers, Sequences, FiniteSets, Functions

CONSTANTS
    Unset,              \* a field that a request leaves out, or a preference never set
    AutonomyCalls,      \* the requests of a behaviour
    Configurations,     \* the inputs of configure: mode, level, forceManualReview, requireSignatureAboveValue
    AskedLevels,        \* the levels a request names
    Values,             \* the values at risk
    Confidences         \* in percent

Spectrum == <<"automation_only", "assisted", "guided", "policy_gated",
              "meaningful_agency", "near_autonomous", "fully_autonomous">>
Levels == {Spectrum[i] : i \in DOMAIN Spectrum}
Rank(level) == CHOOSE i \in DOMAIN Spectrum : Spectrum[i] = level
Risks == <<"low", "medium", "high", "critical">>
RiskRank(risk) == CHOOSE i \in DOMAIN Risks : Risks[i] = risk

\* The level a mode stands for, and what may be set of a configuration: a field left out
\* is Unset.
Presets == [automation |-> "automation_only", meaningful_agency |-> "meaningful_agency",
            full_autonomy |-> "fully_autonomous"]
Preferences == [manual : BOOLEAN \cup {Unset}, limit : Int \cup {Unset}]
ConfigurationInput ==
    [mode : DOMAIN Presets \cup {Unset}, level : Levels \cup {Unset}, preferences : Preferences]

ASSUME AutonomyAssumption ==
    /\ AskedLevels \subseteq Levels
    /\ Values \subseteq Nat
    /\ Confidences \subseteq 0..100
    /\ Configurations \subseteq ConfigurationInput

VARIABLES
    config,         \* the user's row of autonomyConfigs, or the default
    gates,          \* policyGateEvents, each with the input it was weighed on
    records,        \* by decision: the rows written and the status on its receipt
    autonomyCalls,  \* where each request is
    chosen,         \* history: the preferences last acknowledged
    clashed         \* history: two writes of the configuration have overlapped

autonomyVars == <<config, gates, records, autonomyCalls, chosen, clashed>>

NoPreferences == [manual |-> Unset, limit |-> Unset]
DefaultConfig == [mode |-> "meaningful_agency", level |-> "meaningful_agency",
                  preferences |-> NoPreferences]
NotCalled == [step |-> "not_called"]
CallAnswered == [step |-> "answered"]

AutonomyInit ==
    /\ config = DefaultConfig
    /\ gates = {} /\ records = {}
    /\ autonomyCalls = [c \in AutonomyCalls |-> NotCalled]
    /\ chosen = NoPreferences /\ clashed = FALSE

----------------------------------------
\* The profiles, and the gate: the first of its rules that fits.
NeedsSignature(level) == level \in {"automation_only", "assisted"}
NeedsHuman(level) == level \in {"automation_only", "assisted", "guided"}
NeedsPolicyCheck(level) == level # "fully_autonomous"

SignatureRequired(level, value, preferences) ==
    \/ NeedsSignature(level)
    \/ preferences.limit # Unset /\ value >= preferences.limit

LowConfidence(risk, confidence) == risk = "critical" /\ confidence < 80

\* Fault: the policy check passes before the critical gate is tried.
CheckPassesFirst(level, risk, confidence, value, preferences) ==
    IF preferences.manual = TRUE THEN "review_required"
    ELSE IF SignatureRequired(level, value, preferences) THEN "signature_required"
    ELSE IF NeedsHuman(level) /\ risk # "low" THEN "review_required"
    ELSE IF NeedsPolicyCheck(level) THEN "approved"
    ELSE IF LowConfidence(risk, confidence) THEN "blocked"
    ELSE "auto_allowed"

Gate(level, risk, confidence, value, preferences) ==
    IF preferences.manual = TRUE THEN "review_required"
    ELSE IF SignatureRequired(level, value, preferences) THEN "signature_required"
    ELSE IF LowConfidence(risk, confidence) THEN "blocked"
    ELSE IF NeedsHuman(level) /\ risk # "low" THEN "review_required"
    ELSE IF NeedsPolicyCheck(level) /\ risk # "low" THEN "approved"
    ELSE "auto_allowed"

Allowed(status) == status \in {"approved", "auto_allowed"}

\* Fault: the status of the gate is not translated.
AlwaysApproved(status) == "approved"

PolicyStatus(status) == IF Allowed(status) THEN "approved" ELSE "needs_review"

GateRow(c, level, risk, confidence, value, preferences) ==
    [call |-> c, level |-> level, risk |-> risk, confidence |-> confidence, value |-> value,
     preferences |-> preferences, status |-> Gate(level, risk, confidence, value, preferences)]

----------------------------------------
Calls(c, task) ==
    /\ autonomyCalls[c] = NotCalled
    /\ autonomyCalls' = [autonomyCalls EXCEPT ![c] = task]
Now(c, task) == autonomyCalls' = [autonomyCalls EXCEPT ![c] = task]
At(c, step) == autonomyCalls[c].step = step

WritingConfig == {c \in AutonomyCalls : At(c, "write_config")}
Given(new, old) == IF new = Unset THEN old ELSE new

Merged(input) ==
    [manual |-> Given(input.preferences.manual, config.preferences.manual),
     limit |-> Given(input.preferences.limit, config.preferences.limit)]

\* upsertAutonomyConfig reads the row and merges the request into it ...
ReadForUpsert(input) ==
    [step |-> "write_config", given |-> input.preferences,
     next |-> [mode |-> Given(input.mode, config.mode), level |-> Given(input.level, config.level),
               preferences |-> Merged(input)]]

LevelGiven(input) ==
    IF input.level = Unset /\ input.mode # Unset THEN Presets[input.mode] ELSE input.level

Configure(c, input) ==
    /\ Calls(c, ReadForUpsert([input EXCEPT !.level = LevelGiven(input)]))
    /\ UNCHANGED <<config, gates, records, chosen, clashed>>

\* ... and writes it back whole, over whatever has been written meanwhile.
WriteConfig(c) ==
    /\ At(c, "write_config")
    /\ config' = autonomyCalls[c].next
    /\ chosen' = [manual |-> Given(autonomyCalls[c].given.manual, chosen.manual),
                  limit |-> Given(autonomyCalls[c].given.limit, chosen.limit)]
    /\ clashed' = (clashed \/ WritingConfig # {c})
    /\ Now(c, CallAnswered)
    /\ UNCHANGED <<gates, records>>

----------------------------------------
\* evaluate weighs the action on the configuration it reads, then inserts the gate.
Evaluate(c, level, risk, confidence, value) ==
    /\ Calls(c, [step |-> "insert_gate", row |->
          GateRow(c, Given(level, config.level), risk, confidence, value, config.preferences)])
    /\ UNCHANGED <<config, gates, records, chosen, clashed>>

InsertGate(c) ==
    /\ At(c, "insert_gate")
    /\ gates' = gates \cup {autonomyCalls[c].row}
    /\ Now(c, CallAnswered)
    /\ UNCHANGED <<config, records, chosen, clashed>>

\* decision weighs with the client's level and no preferences.
Decide(c, level, risk, confidence, memory) ==
    /\ LET row == GateRow(c, level, risk, confidence, 0, NoPreferences) IN
       Calls(c, [step |-> "decision", memory |-> memory, row |-> row, confidence |-> confidence,
                 status |-> PolicyStatus(row.status)])
    /\ UNCHANGED <<config, gates, records, chosen, clashed>>

RowsOfADecision == <<"decision", "gate", "narrative", "receipt", "memory_usage">>
RowsOfAReflection == <<"reflection", "reflection_receipt", "memory", "anchor", "sidecar">>

Follows(step, rows) == \E i \in 1..Len(rows) - 1 : rows[i] = step
StepAfter(step) ==
    LET rows == IF Follows(step, RowsOfADecision) THEN RowsOfADecision ELSE RowsOfAReflection
        i == CHOOSE i \in DOMAIN rows : rows[i] = step
    IN rows[i + 1]
RowSteps == {RowsOfADecision[i] : i \in 1..5} \cup {RowsOfAReflection[i] : i \in 1..5}
              \cup {"given_receipt"}

WriteRow(c) ==
    LET task == autonomyCalls[c] IN
    /\ task.step \in RowSteps
    /\ records' = records \cup {[call |-> c, row |-> task.step, status |-> task.status,
                                      confidence |-> task.confidence]}
    /\ gates' = IF task.step = "gate" THEN gates \cup {task.row} ELSE gates
    /\ IF task.step \in {"memory_usage", "sidecar", "given_receipt"} \/ (task.step = "receipt" /\ ~task.memory)
       THEN Now(c, CallAnswered)
       ELSE Now(c, [task EXCEPT !.step = StepAfter(task.step)])
    /\ UNCHANGED <<config, chosen, clashed>>

\* receipts.create and autonomy.receipt insert a receipt of what the client says.
GiveReceipt(c, status) ==
    /\ Calls(c, [step |-> "given_receipt", memory |-> FALSE, confidence |-> 0, status |-> status])
    /\ UNCHANGED <<config, gates, records, chosen, clashed>>

\* A reflection is mirrored into the memory receipts and from there into the sidecar.
Reflect(c, blocked) ==
    /\ Calls(c, [step |-> "reflection", memory |-> TRUE, confidence |-> 0,
                 status |-> IF blocked THEN "blocked" ELSE "approved"])
    /\ UNCHANGED <<config, gates, records, chosen, clashed>>

\* The request goes on with what the mirror has: without a reflection there is nothing for
\* the sidecar, without an anchor there still is.
WithoutMirror(c) ==
    IF At(c, "anchor") THEN [autonomyCalls[c] EXCEPT !.step = "sidecar"] ELSE CallAnswered

MirrorFails(c) ==
    /\ \E step \in {"memory", "anchor", "sidecar"} : At(c, step)
    /\ Now(c, WithoutMirror(c))
    /\ UNCHANGED <<config, gates, records, chosen, clashed>>

NextAutonomyLevel(level) ==
    Spectrum[IF Rank(level) < Len(Spectrum) THEN Rank(level) + 1 ELSE Len(Spectrum)]

ModeOf(level) ==
    CASE level \in {"fully_autonomous", "near_autonomous"} -> "full_autonomy"
      [] level \in {"automation_only", "assisted"} -> "automation"
      [] OTHER -> "meaningful_agency"

\* demoRun reads the level, writes the summary of the run, and only then upserts.
DemoRun(c) ==
    /\ Calls(c, [step |-> "summary", level |-> NextAutonomyLevel(config.level)])
    /\ UNCHANGED <<config, gates, records, chosen, clashed>>

WriteSummary(c) ==
    /\ At(c, "summary")
    /\ LET level == autonomyCalls[c].level IN
       Now(c, ReadForUpsert([mode |-> ModeOf(level), level |-> level, preferences |-> NoPreferences]))
    /\ UNCHANGED <<config, gates, records, chosen, clashed>>

DatabaseFails(c) ==
    /\ autonomyCalls[c] \notin {NotCalled, CallAnswered}
    /\ \A step \in {"memory", "anchor", "sidecar"} : ~At(c, step)
    /\ Now(c, CallAnswered)
    /\ UNCHANGED <<config, gates, records, chosen, clashed>>

AutonomyNext ==
    \E c \in AutonomyCalls :
        \/ \E input \in Configurations : Configure(c, input)
        \/ WriteConfig(c)
        \/ \E risk \in {"low", "high", "critical"}, confidence \in Confidences :
              \/ \E level \in AskedLevels \cup {Unset}, value \in Values :
                    Evaluate(c, level, risk, confidence, value)
              \/ \E level \in AskedLevels, memory \in BOOLEAN : Decide(c, level, risk, confidence, memory)
        \/ InsertGate(c)
        \/ WriteRow(c)
        \/ \E blocked \in BOOLEAN : Reflect(c, blocked)
        \/ \E status \in {"approved", "needs_review"} : GiveReceipt(c, status)
        \/ MirrorFails(c)
        \/ DemoRun(c)
        \/ WriteSummary(c)
        \/ DatabaseFails(c)

----------------------------------------
\* The figures of metrics and health, over the rows.  Those of the runs are only shown.
RowsOf(step) == {r \in records : r.row = step}
ReceiptRows == RowsOf("receipt") \cup RowsOf("reflection_receipt") \cup RowsOf("given_receipt")

Rate(part, whole) ==
    IF whole = {} THEN 0
    ELSE (200 * Cardinality(part) + Cardinality(whole)) \div (2 * Cardinality(whole))

\* Improved are the reflections a client said have improved later runs.  createReceipt
\* makes up a transaction for each receipt, no decision is recorded as overridden, and no
\* usage of a memory as ignored.
AutonomyMetrics(improved) ==
    LET decisions == RowsOf("decision")
        usage == RowsOf("memory_usage")
        n == Cardinality(decisions)
    IN  [decisionCoverage |-> n,
         manualOverrideRate |-> 0,
         policyBlockRate |-> Rate({g \in gates : g.status = "blocked"}, gates),
         memoryReuseRate |-> Rate(usage, usage),
         reflectionReuseRate |-> Rate(improved, RowsOf("reflection")),
         retrySuccessRate |-> Rate(improved, RowsOf("reflection")),
         proofCompletionRate |-> Rate(ReceiptRows, ReceiptRows),
         executionAutonomyScore |->
            IF n = 0 THEN 0
            ELSE (2 * SumFunction([d \in decisions |-> d.confidence]) + n) \div (2 * n)]

\* calculateAutonomyScore as metrics calls it, in hundredths until it is rounded.
AutonomyScore(metrics) ==
    (20 * (IF metrics.decisionCoverage > 0 THEN 75 ELSE 20)
       + 16 * (100 - metrics.manualOverrideRate)
       + 12 * (metrics.memoryReuseRate + metrics.reflectionReuseRate)
       + 10 * (100 - metrics.policyBlockRate + metrics.proofCompletionRate
                 + metrics.retrySuccessRate + metrics.executionAutonomyScore)
       + 50) \div 100

AutonomyLabel(score) ==
    CASE score < 35 -> "automation"
      [] score >= 35 /\ score < 55 -> "assisted"
      [] score >= 55 /\ score < 80 -> "agency"
      [] OTHER -> "autonomous"

AutonomyHealth(metrics) ==
    [proofState |-> CASE metrics.proofCompletionRate > 85 -> "complete"
                      [] metrics.proofCompletionRate \in 46..85 -> "partial"
                      [] OTHER -> "degraded",
     memoryLinkage |-> CASE metrics.memoryReuseRate > 60 -> "adaptive"
                         [] metrics.memoryReuseRate \in 31..60 -> "limited"
                         [] OTHER -> "cold_start"]

----------------------------------------
\* The rules of the gate are tried in an order of their own, yet what it lets
\* pass it lets pass, on the same preferences, at any level at least as
\* autonomous, at no more risk or value and with no less confidence.
AutonomyIsMonotone ==
    \A g, h \in gates :
        (/\ Allowed(g.status)
         /\ g.preferences = h.preferences
         /\ Rank(g.level) <= Rank(h.level) /\ RiskRank(h.risk) <= RiskRank(g.risk)
         /\ h.value <= g.value /\ g.confidence <= h.confidence)
        => Allowed(h.status)

\* The preferences a user was told are set are those of the row, through demo
\* runs and changes of level or mode that name none, as long as no two writes
\* of the configuration overlap.
PreferencesSurvive == clashed \/ config.preferences = chosen

\* A receipt of a decision or a reflection, also where the request failed after it, has
\* the rows it refers to: its decision, its narrative and a gate event of the same verdict, or its
\* reflection; and a mirror in the sidecar has the memory reflection it is named for.
ReceiptsRestOnTheirRows ==
    \A r \in records :
        LET Has(row) == \E q \in records : q.call = r.call /\ q.row = row IN
        /\ r.row = "receipt" =>
              /\ Has("decision") /\ Has("narrative")
              /\ \E g \in gates : g.call = r.call /\ (Allowed(g.status) <=> r.status = "approved")
        /\ r.row = "reflection_receipt" => Has("reflection")
        /\ r.row = "sidecar" => Has("memory")

\* Whatever rows requests have left on their way or for good, nobody is told of agency who
\* has decided and improved nothing, of autonomy without a decision, a reflection that has
\* improved a run and a receipt, of complete proofs without a decision, a reflection or a
\* receipt the client gave, or of adaptive memory without a decision on a memory.
MetricsAreEarned ==
    \A improved \in SUBSET RowsOf("reflection") :
        LET metrics == AutonomyMetrics(improved)
            label == AutonomyLabel(AutonomyScore(metrics))
            health == AutonomyHealth(metrics)
        IN  /\ label \in {"agency", "autonomous"} => RowsOf("decision") \cup improved # {}
            /\ label = "autonomous" =>
                  /\ improved # {} /\ RowsOf("decision") # {}
                  /\ ReceiptRows # {}
            /\ health.proofState = "complete" =>
                  RowsOf("decision") \cup RowsOf("reflection") \cup RowsOf("given_receipt") # {}
            /\ health.memoryLinkage = "adaptive" =>
                  \E r \in RowsOf("memory_usage"), q \in RowsOf("receipt") : r.call = q.call

\* The gate of autonomy.ts is no stricter with those who may do more, and its routes
\* keep what they were told and what they did.
AutonomyKeepsItsWord ==
    /\ AutonomyIsMonotone
    /\ PreferencesSurvive
    /\ ReceiptsRestOnTheirRows
    /\ MetricsAreEarned
=============================================================================
