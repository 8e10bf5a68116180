----------------------------- MODULE ErrorSurface -----------------------------
(***************************************************************************)
(* The errors of the swarm's routes on their way to the command center: a  *)
(* thrown message gets a code, a catalog entry and a retry policy on the   *)
(* server (normalizeServerError), travels as the body of a refusal, is     *)
(* thrown again by swarmApi.ts and pushed to the surface that every page   *)
(* shows (ErrorSurfaceContext), or comes with the result of a run.         *)
(*                                                                         *)
(* A message is the set of the words that inferCodeFromLegacyMessage looks *)
(* for in it; an error is its code, scope, severity, whether it may be     *)
(* retried and its HTTP status.  Texts, ids' form, times and metadata are  *)
(* left out, and the delays of the policies, which nothing reads.          *)
(***************************************************************************)
EXTENDS Naturals, Sequences, FiniteSets, TLC

CONSTANTS
    MaxHistory,     \* MAX_HISTORY
    MaxErrors       \* bound: the calls of the page

ASSUME ErrorSurfaceAssumption == MaxHistory \in Nat \ {0} /\ MaxErrors \in Nat

VARIABLES
    surface,        \* the context's state: active, history, pendingRetryIds, isDegraded
    calls,          \* the page's calls to the server: what is asked, answered and how
    runErrors,      \* lastResult.appErrors
    loggedCode      \* history: the code the server logged for each call it refused

surfaceVars == <<surface, calls, runErrors, loggedCode>>

----------------------------------------
(* The catalog and the policies.                                           *)

Rows(scope, severity, label, codes) ==
    [code : codes, scope : {scope}, severity : {severity}, retryLabel : {label}]

SessionRows ==
    Rows("wallet", "warning", TRUE,
         {"WALLET_NOT_CONNECTED", "WALLET_CONNECTION_REJECTED", "WALLET_WRONG_CLUSTER"})
    \cup Rows("wallet", "error", FALSE, {"WALLET_UNSUPPORTED"})
    \cup Rows("session", "warning", TRUE,
               {"WALLET_SESSION_SIGN_FAILED", "WALLET_SESSION_EXPIRED", "SESSION_TOKEN_EXPIRED",
                "SESSION_REQUIRED"})
    \cup Rows("session", "error", TRUE, {"SESSION_VERIFICATION_FAILED"})

TransactionRows ==
    Rows("rpc", "critical", TRUE, {"RPC_UNAVAILABLE"})
    \cup Rows("rpc", "error", TRUE, {"RPC_TIMEOUT"})
    \cup Rows("rpc", "warning", TRUE, {"RPC_RATE_LIMITED"})
    \cup Rows("transaction", "error", TRUE,
               {"TX_BUILD_FAILED", "TX_SIMULATION_FAILED", "TX_SEND_FAILED", "TX_CONFIRMATION_FAILED"})
    \cup Rows("transaction", "warning", TRUE, {"TX_EXPIRED"})

AccountRows ==
    Rows("account", "error", FALSE,
         {"ACCOUNT_NOT_FOUND", "ACCOUNT_DECODE_FAILED", "PDA_DERIVATION_FAILED"})
    \cup Rows("anchor", "error", FALSE, {"PROGRAM_ERROR"})
    \cup Rows("anchor", "critical", FALSE, {"ANCHOR_IDL_MISMATCH"})
    \cup Rows("solana", "warning", FALSE, {"INSUFFICIENT_SOL"})
    \cup Rows("backend", "error", FALSE, {"INSUFFICIENT_PERMISSIONS"})

RecordRows ==
    Rows("receipt", "error", TRUE, {"RECEIPT_ANCHOR_FAILED"})
    \cup Rows("proof", "warning", TRUE, {"PROOF_VERIFICATION_FAILED"})
    \cup Rows("memory", "error", TRUE, {"MEMORY_WRITE_FAILED", "MEMORY_RETRIEVE_FAILED"})
    \cup Rows("reflection", "error", TRUE, {"REFLECTION_WRITE_FAILED"})
    \cup Rows("skill", "error", TRUE, {"SKILL_PUBLISH_FAILED", "SKILL_UPDATE_FAILED"})
    \cup Rows("plan", "error", TRUE, {"PLAN_BUILD_FAILED"})
    \cup Rows("execution", "error", TRUE, {"EXECUTION_FAILED"})

ServiceRows ==
    Rows("openclaw", "error", TRUE, {"OPENCLAW_IMPORT_FAILED", "OPENCLAW_EXPORT_FAILED"})
    \cup Rows("zerog", "error", TRUE, {"ZERO_G_STORAGE_FAILED", "ZERO_G_DA_FAILED"})
    \cup Rows("zerog", "warning", TRUE, {"ZERO_G_VERIFY_FAILED"})
    \cup Rows("database", "critical", TRUE, {"DB_WRITE_FAILED"})
    \cup Rows("database", "error", TRUE, {"DB_READ_FAILED"})
    \cup Rows("indexer", "warning", TRUE, {"INDEXER_SYNC_FAILED"})

OtherRows ==
    Rows("backend", "critical", TRUE, {"UNEXPECTED_ROUTE_ERROR"})
    \cup Rows("backend", "warning", FALSE, {"VALIDATION_FAILED"})
    \cup Rows("demo", "info", FALSE, {"DEMO_MODE_MISMATCH"})
    \cup Rows("backend", "warning", TRUE, {"DEGRADED_MODE"})
    \cup Rows("unknown", "error", TRUE, {"UNKNOWN"})

CatalogRows ==
    SessionRows \cup TransactionRows \cup AccountRows \cup RecordRows \cup ServiceRows \cup OtherRows

ErrorCodes == {row.code : row \in CatalogRows}

Catalog == [c \in ErrorCodes |-> CHOOSE row \in CatalogRows : row.code = c]

\* RETRY_POLICY_BY_CODE: the codes whose policy is the default one.
WalletPoliciesWithoutRetry ==
    {"WALLET_UNSUPPORTED", "ACCOUNT_NOT_FOUND", "ACCOUNT_DECODE_FAILED", "PDA_DERIVATION_FAILED",
     "ANCHOR_IDL_MISMATCH", "INSUFFICIENT_PERMISSIONS"}

ServicePoliciesWithoutRetry == {"VALIDATION_FAILED", "DEMO_MODE_MISMATCH"}

NotRetryable == WalletPoliciesWithoutRetry \cup ServicePoliciesWithoutRetry

PolicyRetries(code) == code \notin NotRetryable

----------------------------------------
(* From a message to a code.                                               *)

Rule(code, alternatives) == [code |-> code, alternatives |-> alternatives]

\* The rules in the order they are tried: an alternative is words that must all be there.
SessionRules == <<
    Rule("VALIDATION_FAILED",
         {{"walletaddress_required"}, {"wallet_address_required"}, {"wallet required"}}),
    Rule("SESSION_REQUIRED", {{"wallet_session_inactive"}, {"session_inactive"}}),
    Rule("WALLET_SESSION_EXPIRED", {{"session", "expired"}}),
    Rule("WALLET_WRONG_CLUSTER", {{"wrong cluster"}, {"cluster mismatch"}}),
    Rule("WALLET_CONNECTION_REJECTED", {{"rejected"}}),
    Rule("INSUFFICIENT_SOL", {{"not enough sol"}, {"insufficient funds"}}) >>

ChainRules == <<
    Rule("RPC_RATE_LIMITED", {{"429"}, {"rate limit"}}),
    Rule("RPC_TIMEOUT", {{"timed out"}, {"timeout"}}),
    Rule("RPC_UNAVAILABLE", {{"fetch failed"}, {"econnrefused"}, {"circuit_open"}}),
    Rule("TX_SIMULATION_FAILED", {{"simulation failed"}}),
    Rule("TX_EXPIRED", {{"blockhash not found"}, {"expired"}}),
    Rule("TX_SEND_FAILED", {{"sendtransaction"}, {"send failed"}}) >>

RecordRules == <<
    Rule("ANCHOR_IDL_MISMATCH", {{"anchor", "idl"}}),
    Rule("RECEIPT_ANCHOR_FAILED",
         {{"memory_anchor"}, {"anchor_failed"}, {"proof_receipt"}, {"proof_failed"}}),
    Rule("PLAN_BUILD_FAILED", {{"plan_anchor"}, {"plan_failed"}}),
    Rule("REFLECTION_WRITE_FAILED", {{"reflection_failed"}}),
    Rule("INDEXER_SYNC_FAILED", {{"identity_service_unavailable"}}),
    Rule("VALIDATION_FAILED", {{"skill_not_found"}}) >>

ServiceRules == <<
    Rule("ZERO_G_STORAGE_FAILED", {{"zerog", "storage"}}),
    Rule("ZERO_G_DA_FAILED", {{"zerog", "da"}}),
    Rule("OPENCLAW_IMPORT_FAILED", {{"openclaw", "import"}}),
    Rule("OPENCLAW_EXPORT_FAILED", {{"openclaw", "export"}}),
    Rule("DEMO_MODE_MISMATCH", {{"demo", "mismatch"}}),
    Rule("DEGRADED_MODE", {{"degraded"}}),
    Rule("PROOF_VERIFICATION_FAILED", {{"verification failed"}, {"proof"}}),
    Rule("DB_READ_FAILED", {{"database"}, {"db_"}}) >>

LegacyRules == SessionRules \o ChainRules \o RecordRules \o ServiceRules

\* inferCodeFromLegacyMessage: the first rule that matches, or nothing.
InferredCode(words) ==
    LET matches(i) == \E a \in LegacyRules[i].alternatives : a \subseteq words
        hits == {i \in DOMAIN LegacyRules : matches(i)}
    IN  IF hits = {} THEN "none"
        ELSE LegacyRules[CHOOSE i \in hits : \A j \in hits : i <= j].code

Or(code, other) == IF code = "none" THEN other ELSE code

\* An error with the entry and the policy of its code.
AppError(code, status) ==
    [code |-> code, scope |-> Catalog[code].scope, severity |-> Catalog[code].severity,
     retryable |-> PolicyRetries(code), status |-> status]

----------------------------------------
(* What is thrown, and where.                                              *)

\* The routes' own messages, with the status they are refused with when none is known.
Thrown(words, status) == [words |-> words, status |-> status, zod |-> FALSE]
RouteMessages ==
    {Thrown({"walletaddress_required", "wallet"}, 400), Thrown({"identity_service_unavailable"}, 400),
     Thrown({"circuit_open", "rpc"}, 500), Thrown({"fetch failed"}, 500), Thrown({}, 400),
     [words |-> {}, status |-> 400, zod |-> TRUE]}

\* The orchestrator's, which come with the result: its own, and those of the services.
RunMessages ==
    {{"wallet_session_inactive", "session_inactive", "session"},
     {"plan_anchor", "anchor_failed", "anchor", "da"}, {"proof_failed", "proof"},
     {"simulation failed", "blockhash not found"}, {}}

\* normalizeServerError of a message, or of what Zod found in the body.
NormalizeServerError(thrown) ==
    IF thrown.zod THEN AppError("VALIDATION_FAILED", 400)
    ELSE AppError(Or(InferredCode(thrown.words), "UNKNOWN"), 0)

\* fail: the status of the error, if it has one, or the route's.
Fail(thrown) ==
    LET appError == NormalizeServerError(thrown)
    IN  [appError EXCEPT !.status = IF @ >= 400 THEN @ ELSE thrown.status]

\* notFound
NotFound == AppError("VALIDATION_FAILED", 404)

\* orchestratorStringsToAppErrors
OrchestratorError(words) == AppError(Or(InferredCode(words), "EXECUTION_FAILED"), 0)

\* Fault: the refusal's message is read again.
ReadAgain(error) == AppError("UNKNOWN", error.status)

\* throwIfApiFailed: what the server has made of the error is thrown as it is.
ThrownByClient(error) == error

\* normalizeError of what the page's own code or the browser throws.
NormalizeError(words, fallback) ==
    AppError(Or(fallback, Or(InferredCode(words), "UNKNOWN")), 0)

----------------------------------------
(* The surface.                                                            *)

ErrorSurfaceInit ==
    /\ surface = [active |-> 0, history |-> <<>>, pending |-> <<>>, degraded |-> FALSE]
    /\ calls = <<>>
    /\ runErrors = {}
    /\ loggedCode = <<>>

Ids(s) == {s[i] : i \in DOMAIN s}
FirstOf(n, s) == IF Len(s) <= n THEN s ELSE SubSeq(s, 1, n)

Prepended(id) == FirstOf(MaxHistory, <<id>> \o surface.history)

\* pushError, with what the caller says of the mode.  An error's id is that of its call.
PushError(id, error, degrades) ==
    surface' = [surface EXCEPT
                    !.active = id,
                    !.history = Prepended(id),
                    !.degraded = @ \/ degrades \/ error.severity = "warning"
                                   \/ error.code = "DEGRADED_MODE"]

NoError == [code |-> "none"]

Asks(kind) ==
    /\ Len(calls) < MaxErrors
    /\ calls' = Append(calls, [kind |-> kind, at |-> "asked", error |-> NoError])
    /\ loggedCode' = Append(loggedCode, "none")

\* The loop's request, the first lists of the page, a refresh of them.
Ask(kind) ==
    /\ Asks(kind)
    /\ UNCHANGED <<surface, runErrors>>

\* What the caller makes of an error: the loop tells it, the lists have a code of their own.
Told(kind, error) == IF kind = "loop" THEN error ELSE AppError("INDEXER_SYNC_FAILED", 0)

Caught(i, error) ==
    LET told == Told(calls[i].kind, error)
    IN  /\ calls' = [calls EXCEPT ![i] = [@ EXCEPT !.at = "failed", !.error = told]]
        /\ PushError(i, told, calls[i].kind # "refresh")
        /\ UNCHANGED runErrors

Refused(i, error) ==
    /\ calls[i].at = "asked"
    /\ loggedCode' = [loggedCode EXCEPT ![i] = error.code]
    /\ Caught(i, ThrownByClient(error))

RouteThrows(i, thrown) == Refused(i, Fail(thrown))

RowIsMissing(i) == Refused(i, NotFound)

\* The browser's own error, or an answer that is no envelope: nothing reaches the server's log.
AnswerIsLost(i, words, fallback) ==
    /\ calls[i].at = "asked"
    /\ Caught(i, NormalizeError(words, fallback))
    /\ UNCHANGED loggedCode

\* A loop is answered with what its run could not do.
RunAnswers(i, messages) ==
    /\ calls[i].at = "asked" /\ calls[i].kind = "loop"
    /\ calls' = [calls EXCEPT ![i].at = "done"]
    /\ runErrors' = {OrchestratorError(m) : m \in messages}
    /\ UNCHANGED <<surface, loggedCode>>

ListsArrive(i) ==
    /\ calls[i].at = "asked" /\ calls[i].kind # "loop"
    /\ calls' = [calls EXCEPT ![i].at = "done"]
    /\ UNCHANGED <<surface, runErrors, loggedCode>>

Dismissed(s) == [s EXCEPT !.active = 0]

DismissActive ==
    /\ surface.active # 0
    /\ surface' = Dismissed(surface)
    /\ UNCHANGED <<calls, runErrors, loggedCode>>

\* RecoveryActionButton, beside a handler.
RetryShown(error) == error.retryable /\ PolicyRetries(error.code)

\* The banner's button queues the error, once, and dismisses it: nothing takes it from the queue.
RetryFromBanner ==
    /\ surface.active # 0
    /\ RetryShown(calls[surface.active].error)
    /\ surface' = Dismissed([surface EXCEPT
                      !.pending = IF surface.active \in Ids(@) THEN @ ELSE Append(@, surface.active)])
    /\ UNCHANGED <<calls, runErrors, loggedCode>>

\* The panel of the run's errors starts the loop again.
RetryFromPanel ==
    /\ \E e \in runErrors : RetryShown(e)
    /\ Asks("loop")
    /\ UNCHANGED <<surface, runErrors>>

ErrorSurfaceNext ==
    \/ \E kind \in {"loop", "boot", "refresh"} : Ask(kind)
    \/ \E i \in DOMAIN calls :
         \/ \E thrown \in RouteMessages : RouteThrows(i, thrown)
         \/ RowIsMissing(i) \/ ListsArrive(i)
         \/ AnswerIsLost(i, {}, "none") \/ AnswerIsLost(i, {}, "UNEXPECTED_ROUTE_ERROR")
         \/ \E m \in RunMessages : RunAnswers(i, {m, {"429"}})
         \/ RunAnswers(i, {})
    \/ DismissActive \/ RetryFromBanner \/ RetryFromPanel

----------------------------------------
(* What the errors promise.                                                *)

\* What a loop was refused for is told with the code, the status and the retry that the server
\* has logged and sent, and only a retry the code's policy allows waits in the queue.
RefusalsAreTold ==
    /\ \A i \in DOMAIN calls :
         calls[i].kind = "loop" /\ loggedCode[i] # "none" =>
             /\ calls[i].error.code = loggedCode[i]
             /\ calls[i].error.status >= 400
    /\ \A i \in Ids(surface.pending) : calls[i].error.code \notin NotRetryable

\* The history lists the latest errors, the newest first, the banner shows the newest or none,
\* and once a loop or the first lists have failed the page stays degraded.
SurfaceIsCurrent ==
    LET failed == {i \in DOMAIN calls : calls[i].at = "failed"}
    IN  /\ surface.active # 0 => surface.history # <<>> /\ surface.active = surface.history[1]
        /\ Ids(surface.history) \subseteq failed
        /\ Len(surface.history) = IF Cardinality(failed) < MaxHistory THEN Cardinality(failed)
                                   ELSE MaxHistory
        /\ failed # {} => surface.degraded

\* No error of the catalog has a label for a retry that its policy forbids.
LabelsAreRetries == \A c \in ErrorCodes : Catalog[c].retryLabel => PolicyRetries(c)

\* What went wrong is told as the server knows it, newest first, with the retries its code
\* allows: by the routes, the client and the command center's surface.
ErrorsAreTold ==
    /\ RefusalsAreTold
    /\ SurfaceIsCurrent
    /\ LabelsAreRetries
=============================================================================
