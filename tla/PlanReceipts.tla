---------------------------- MODULE PlanReceipts ----------------------------
(***************************************************************************)
(* The plan receipts of server/plans: every version of a plan is a receipt *)
(* that is never changed, results and executions are recorded against it,  *)
(* and a timeline tells the story.                                         *)
(*                                                                         *)
(* A request is a chain of steps between awaits: the upload of a document, *)
(* the call of the anchor client, and the write of the store's file after  *)
(* each change of its memory.  Between two awaits nothing else runs; at an *)
(* await any other request may.                                            *)
(*                                                                         *)
(* An id is a position in receipts, results or executions.  A hash is the  *)
(* value that is hashed (SHA-256 without collisions).  Texts, steps, skill *)
(* references, dates and the cap of 5000 timeline events are abstracted.   *)
(***************************************************************************)
EXTENDS Naturals, Sequences, FiniteSets, TLC

CONSTANTS
    Plans,          \* the plan ids
    Callers,        \* the requests that can be in flight at once
    Outcomes,       \* the outcomes a result may report
    Links,          \* what a result may link already: pairs of BOOLEAN
    HasClient,      \* whether an anchor client is configured
    Answers,        \* what the client may answer: signed, unsigned or error
    Uploads,        \* whether an upload may succeed or fail: a subset of BOOLEAN
    Patience,       \* whether callers wait: a subset of BOOLEAN
    MaxRequests,    \* bound: requests that save something
    None

ASSUME ClientAssumption == HasClient \in BOOLEAN
ASSUME PatienceAssumption == Patience \subseteq BOOLEAN /\ Patience # {}
ASSUME OutcomesAssumption ==
    Outcomes \subseteq {"pending", "success", "partial", "failed", "degraded"}
ASSUME LinksAssumption == Links \subseteq BOOLEAN \X BOOLEAN
ASSUME UploadsAssumption == Uploads \subseteq BOOLEAN /\ Uploads # {}
ASSUME BoundAssumption == MaxRequests \in Nat
ASSUME AnswersAssumption == Answers \subseteq {"signed", "unsigned", "error"}

VARIABLES
    receipts,       \* state.receipts, oldest first
    latestReceipt,  \* state.latestReceiptByPlanId; 0 is undefined
    results,        \* state.results
    latestResult,   \* state.latestResultByPlanId
    executions,     \* state.executions: the receipt each one is recorded against
    timeline,       \* state.timeline, without its order
    calls,          \* the requests in flight and the await each is at
    started,        \* the number of requests so far
    patient,        \* whether callers wait for one request before the next
    rejected        \* whether some write of the file has failed

vars == <<receipts, latestReceipt, results, latestResult, executions, timeline,
          calls, started, patient, rejected>>

Idle == [at |-> "idle"]

Init ==
    /\ receipts = <<>>
    /\ latestReceipt = [p \in Plans |-> 0]
    /\ results = <<>>
    /\ latestResult = [p \in Plans |-> 0]
    /\ executions = <<>>
    /\ timeline = {}
    /\ calls = [c \in Callers |-> Idle]
    /\ started = 0
    /\ patient \in Patience
    /\ rejected = FALSE

----------------------------------------
(* Hashes, versions and the records.                                       *)

\* What hashPlan hashes: everything but the hash itself.
HashPlan(r) == [r EXCEPT !.planHash = None]

\* What hashResult hashes: everything, resultHash included.
HashResult(r) == r

Sealed(r) == [r EXCEPT !.planHash = HashPlan(r)]

Versions(p) == {receipts[i].version : i \in {j \in DOMAIN receipts : receipts[j].plan = p}}

NextVersion(p) ==
    IF Versions(p) = {} THEN 1
    ELSE 1 + CHOOSE v \in Versions(p) : \A u \in Versions(p) : u <= v

\* Fault: create keeps the proof of the previous version.
CarriesProof(p, wallet) ==
    [plan |-> p, version |-> NextVersion(p), previous |-> 0, wallet |-> wallet,
     status |-> "generated", outcome |-> "pending", storage |-> None,
     solana |-> IF latestReceipt[p] = 0 THEN None ELSE receipts[latestReceipt[p]].solana,
     reflection |-> FALSE, memory |-> FALSE, planHash |-> None]

NewReceipt(p, wallet) ==
    [plan |-> p, version |-> NextVersion(p), previous |-> 0, wallet |-> wallet,
     status |-> "generated", outcome |-> "pending", storage |-> None,
     solana |-> None, reflection |-> FALSE, memory |-> FALSE, planHash |-> None]

\* The receipt that cloneWithChanges saves for the receipt i with changes r.
CloneWithChanges(i, r) ==
    Sealed([r EXCEPT !.version = receipts[i].version + 1, !.previous = i])

StatusOf(outcome) ==
    CASE outcome = "success" -> "completed"
      [] outcome = "partial" -> "partially_completed"
      [] outcome = "failed" -> "failed"
      [] OTHER -> "degraded"

\* Fault: applyResult keeps an outcome once there is one.
FirstOutcomeStays(i, result) ==
    CloneWithChanges(i,
        [receipts[i] EXCEPT !.outcome = IF @ = "pending" THEN result.status ELSE @,
                            !.status = StatusOf(result.status),
                            !.reflection = result.reflection \/ @,
                            !.memory = result.memory \/ @])

\* The receipt that applyResult saves.
WithResult(i, result) ==
    CloneWithChanges(i,
        [receipts[i] EXCEPT !.outcome = result.status,
                            !.status = StatusOf(result.status),
                            !.reflection = result.reflection \/ @,
                            !.memory = result.memory \/ @])

Stored(ok) == IF ok THEN "remote" ELSE "local"

WithStorage(i, ok) ==
    CloneWithChanges(i,
        [receipts[i] EXCEPT !.status = IF ok THEN "stored" ELSE "degraded",
                            !.storage = Stored(ok)])

\* The proof of anchoring the receipt i: `of' stands for the anchor hash, which
\* is a hash of the receipt's id and hashes.
Anchor(i, answer) ==
    [of |-> i, tx |-> answer = "signed", verified |-> answer = "signed"]

WithAnchor(i, wallet, answer) ==
    CloneWithChanges(i,
        [receipts[i] EXCEPT !.status = IF answer = "error" THEN "degraded" ELSE "anchored",
                            !.wallet = wallet,
                            !.solana = Anchor(i, answer)])

NewResult(p, i, outcome, links) ==
    [plan |-> p, receipt |-> i, status |-> outcome, reflection |-> links[1],
     memory |-> links[2], storage |-> None, solana |-> None, resultHash |-> None]

\* createResult hashes the result before it sets storage and solana.
Hashed(result) == [result EXCEPT !.resultHash = HashResult(result)]

----------------------------------------
(* The store and the awaits.                                               *)

\* saveReceipt; the caller awaits the write.
SaveReceipt(r) ==
    /\ receipts' = Append(receipts, r)
    /\ latestReceipt' = [latestReceipt EXCEPT ![r.plan] = Len(receipts) + 1]

NextReceipt == Len(receipts) + 1
NextResult == Len(results) + 1

\* Record the request c at the await s.
Goes(c, s) == calls' = [calls EXCEPT ![c] = s]

\* The await of a write, the event pushed after it, if any, and what comes next.
Saving(p, events, next) == [at |-> "saving", plan |-> p, events |-> events, next |-> next]
Finish == [do |-> "finish"]

\* A request that will save something.
Start(c) ==
    /\ calls[c] = Idle
    /\ patient => \A d \in Callers : calls[d] = Idle
    /\ started < MaxRequests
    /\ started' = started + 1

UnchangedReceipts == UNCHANGED <<receipts, latestReceipt>>
UnchangedResults == UNCHANGED <<results, latestResult>>

----------------------------------------
(* PlanReceiptService                                                      *)

\* create, up to its first await.  storeReceipt follows, then anchorReceipt
\* if anchorOnCreate.
Create(c, p, wallet, anchorOnCreate) ==
    /\ Start(c)
    /\ SaveReceipt(Sealed(NewReceipt(p, wallet)))
    /\ Goes(c, Saving(p, {<<"plan_created", NextReceipt>>},
                      [do |-> "store", receipt |-> NextReceipt, anchor |-> anchorOnCreate]))
    /\ UnchangedResults
    /\ UNCHANGED <<executions, timeline, patient, rejected>>

\* storeReceipt reads the receipt and waits for the upload.
Uploading(i, anchor) == [at |-> "uploading", receipt |-> i, anchor |-> anchor]

\* POST /receipt/store of any receipt; callers that wait know the latest.
StoreReceipt(c, i) ==
    /\ Start(c)
    /\ patient => i = latestReceipt[receipts[i].plan]
    /\ Goes(c, Uploading(i, FALSE))
    /\ UnchangedReceipts /\ UnchangedResults
    /\ UNCHANGED <<executions, timeline, patient, rejected>>

\* The rest of storeReceipt: the clone of the receipt read before the upload.
ReceiptUploaded(c, ok) ==
    /\ calls[c].at = "uploading"
    /\ LET i == calls[c].receipt IN
       /\ SaveReceipt(WithStorage(i, ok))
       /\ Goes(c, Saving(receipts[i].plan, {<<"plan_stored", NextReceipt>>},
                         IF calls[c].anchor THEN [do |-> "anchor"] ELSE Finish))
    /\ UnchangedResults
    /\ UNCHANGED <<executions, timeline, started, patient, rejected>>

\* Save what the anchoring of the receipt i gave.
SaveAnchored(c, i, wallet, answer) ==
    /\ SaveReceipt(WithAnchor(i, wallet, answer))
    /\ Goes(c, Saving(receipts[i].plan,
                      {<<IF answer = "error" THEN "plan_anchor_degraded" ELSE "plan_anchored",
                         NextReceipt>>}, Finish))

\* anchorReceipt reads the latest receipt.  Without a wallet or a client there
\* is nothing to wait for: the first is degraded, the second a simulation.
BeginAnchor(c, p, w) ==
    LET i == latestReceipt[p]
        wallet == w \/ receipts[i].wallet
    IN  IF wallet /\ HasClient
        THEN /\ Goes(c, [at |-> "anchoring", receipt |-> i, wallet |-> wallet])
             /\ UnchangedReceipts
        ELSE SaveAnchored(c, i, wallet, IF wallet THEN "signed" ELSE "error")

AnchorReceipt(c, p, w) ==
    /\ latestReceipt[p] # 0
    /\ Start(c)
    /\ BeginAnchor(c, p, w)
    /\ UnchangedResults
    /\ UNCHANGED <<executions, timeline, patient, rejected>>

\* The rest of anchorReceipt: the clone of the receipt read before the call.
ReceiptAnchored(c, answer) ==
    /\ calls[c].at = "anchoring"
    /\ SaveAnchored(c, calls[c].receipt, calls[c].wallet, answer)
    /\ UnchangedResults
    /\ UNCHANGED <<executions, timeline, started, patient, rejected>>

Execute(c, p) ==
    /\ latestReceipt[p] # 0
    /\ Start(c)
    /\ executions' = Append(executions, latestReceipt[p])
    /\ Goes(c, Saving(p, {<<"plan_execution_recorded", Len(executions) + 1>>}, Finish))
    /\ UnchangedReceipts /\ UnchangedResults
    /\ UNCHANGED <<timeline, patient, rejected>>

----------------------------------------
(* PlanResultService, each followed by applyResult                         *)

\* createResult reads the latest receipt, hashes the result and uploads it.
CreateResult(c, p, outcome, links) ==
    /\ latestReceipt[p] # 0
    /\ Start(c)
    /\ Goes(c, [at |-> "uploadingResult",
                result |-> Hashed(NewResult(p, latestReceipt[p], outcome, links))])
    /\ UnchangedReceipts /\ UnchangedResults
    /\ UNCHANGED <<executions, timeline, patient, rejected>>

\* Save the result with its proof; applyResult comes after the event.
SaveResult(c, result) ==
    /\ results' = Append(results, result)
    /\ latestResult' = [latestResult EXCEPT ![result.plan] = NextResult]
    /\ Goes(c, Saving(result.plan, {<<"plan_result_recorded", NextResult>>},
                      [do |-> "apply", result |-> result]))

\* anchorResult without a client: verified is whether there is a wallet.
UnanchoredResult(i) == [of |-> i, tx |-> FALSE, verified |-> receipts[i].wallet]

ResultUploaded(c, ok) ==
    /\ calls[c].at = "uploadingResult"
    /\ LET result == [calls[c].result EXCEPT !.storage = Stored(ok)]
           i == result.receipt
       IN  IF receipts[i].wallet /\ HasClient
           THEN /\ Goes(c, [at |-> "anchoringResult", result |-> result])
                /\ UnchangedResults
           ELSE SaveResult(c, [result EXCEPT !.solana = UnanchoredResult(i)])
    /\ UnchangedReceipts
    /\ UNCHANGED <<executions, timeline, started, patient, rejected>>

ResultAnchored(c, answer) ==
    /\ calls[c].at = "anchoringResult"
    /\ LET result == calls[c].result IN
       SaveResult(c, [result EXCEPT !.solana = Anchor(result.receipt, answer)])
    /\ UnchangedReceipts
    /\ UNCHANGED <<executions, timeline, started, patient, rejected>>

\* linkReflection and linkMemory change the plan's latest result in place.
Link(c, p, linked, event) ==
    /\ latestResult[p] # 0
    /\ Start(c)
    /\ results' = [results EXCEPT ![latestResult[p]] = linked]
    /\ Goes(c, Saving(p, {<<event, latestResult[p]>>}, [do |-> "apply", result |-> linked]))
    /\ UnchangedReceipts
    /\ UNCHANGED <<latestResult, executions, timeline, patient, rejected>>

WithReflection(result) == [result EXCEPT !.reflection = TRUE]
\* Fault: linkMemory starts from an empty result instead of a copy.
MemoryOnly(result) == [result EXCEPT !.memory = TRUE, !.reflection = FALSE]

WithMemory(result) == [result EXCEPT !.memory = TRUE]

LinkReflection(c, p) ==
    latestResult[p] # 0 /\ Link(c, p, WithReflection(results[latestResult[p]]), "plan_reflection_linked")

LinkMemory(c, p) ==
    latestResult[p] # 0 /\ Link(c, p, WithMemory(results[latestResult[p]]), "plan_memory_linked")

----------------------------------------
(* The write of the file                                                   *)
(*                                                                         *)
(* The event is pushed after the write of what was saved, and written in   *)
(* turn.  Pushing it touches the timeline only, so what runs during the    *)
(* second write could as well run during the first: one await stands for   *)
(* both, and the request goes on in the step that pushes the event.        *)

\* The writes succeed and the request goes on with `do'.
Persisted(c, do) ==
    /\ calls[c].at = "saving"
    /\ calls[c].next.do = do
    /\ timeline' = timeline \cup calls[c].events

ThenFinish(c) ==
    /\ Persisted(c, "finish")
    /\ Goes(c, Idle)
    /\ UnchangedReceipts /\ UnchangedResults
    /\ UNCHANGED <<executions, started, patient, rejected>>

\* create goes on with storeReceipt of the receipt it saved.
ThenStore(c) ==
    /\ Persisted(c, "store")
    /\ Goes(c, Uploading(calls[c].next.receipt, calls[c].next.anchor))
    /\ UnchangedReceipts /\ UnchangedResults
    /\ UNCHANGED <<executions, started, patient, rejected>>

\* create goes on with anchorReceipt of the plan's latest receipt.
ThenAnchor(c) ==
    /\ Persisted(c, "anchor")
    /\ BeginAnchor(c, calls[c].plan, FALSE)
    /\ UnchangedResults
    /\ UNCHANGED <<executions, started, patient, rejected>>

\* The route goes on with applyResult, which clones the latest receipt and
\* pushes no event.
ThenApply(c) ==
    /\ Persisted(c, "apply")
    /\ SaveReceipt(WithResult(latestReceipt[calls[c].plan], calls[c].next.result))
    /\ Goes(c, Saving(calls[c].plan, {}, Finish))
    /\ UnchangedResults
    /\ UNCHANGED <<executions, started, patient, rejected>>

\* The first write or the second fails and ends the request; the memory keeps
\* what was changed.
PersistRejected(c) ==
    /\ calls[c].at = "saving"
    /\ timeline' \in {timeline, timeline \cup calls[c].events}
    /\ Goes(c, Idle)
    /\ rejected' = TRUE
    /\ UnchangedReceipts /\ UnchangedResults
    /\ UNCHANGED <<executions, started, patient>>

Next ==
    \E c \in Callers :
        \/ \E p \in Plans, w \in BOOLEAN, a \in BOOLEAN : Create(c, p, w, a)
        \/ \E i \in DOMAIN receipts : StoreReceipt(c, i)
        \/ \E ok \in Uploads : ReceiptUploaded(c, ok)
        \/ \E p \in Plans, w \in BOOLEAN : AnchorReceipt(c, p, w)
        \/ \E answer \in Answers : ReceiptAnchored(c, answer)
        \/ \E p \in Plans : Execute(c, p)
        \/ \E p \in Plans, o \in Outcomes, l \in Links : CreateResult(c, p, o, l)
        \/ \E ok \in Uploads : ResultUploaded(c, ok)
        \/ \E answer \in Answers : ResultAnchored(c, answer)
        \/ \E p \in Plans : LinkReflection(c, p)
        \/ \E p \in Plans : LinkMemory(c, p)
        \/ ThenFinish(c)
        \/ ThenStore(c)
        \/ ThenAnchor(c)
        \/ ThenApply(c)
        \/ PersistRejected(c)

Spec == Init /\ [][Next]_vars

----------------------------------------
(* PlanVerificationService.verify                                          *)

Checks(p) ==
    LET r == receipts[latestReceipt[p]]
        n == latestResult[p]
    IN  [canonicalPlanHashMatch |-> HashPlan(r) = r.planHash,
         resultHashMatch |-> n # 0 => HashResult(results[n]) = results[n].resultHash,
         anchorPresent |-> r.solana # None,
         reflectionLinked |-> r.reflection \/ (n # 0 /\ results[n].reflection),
         memoryLinked |-> r.memory \/ (n # 0 /\ results[n].memory)]

Verified(p) == \A check \in DOMAIN Checks(p) : Checks(p)[check]

----------------------------------------
(* Properties                                                              *)

Options(S) == S \cup {None}
Proofs == [of : DOMAIN receipts, tx : BOOLEAN, verified : BOOLEAN]
Ids(s) == {0} \cup DOMAIN s

\* Every receipt, result, execution and index entry is of its type, and every
\* id in them is that of something saved before: the references of the JSON
\* store (types.ts) never dangle.
TypeOK ==
    /\ \A i \in DOMAIN receipts :
        /\ receipts[i].plan \in Plans
        /\ receipts[i].version \in 1..Len(receipts)
        /\ receipts[i].previous \in 0..(i - 1)
        /\ receipts[i].outcome \in {"pending", "success", "partial", "failed", "degraded"}
        /\ receipts[i].storage \in Options({"remote", "local"})
        /\ receipts[i].solana \in Options(Proofs)
    /\ \A n \in DOMAIN results :
        /\ results[n].receipt \in DOMAIN receipts
        /\ receipts[results[n].receipt].plan = results[n].plan
        /\ results[n].storage \in {"remote", "local"}
        /\ results[n].solana \in Proofs
    /\ latestReceipt \in [Plans -> Ids(receipts)]
    /\ latestResult \in [Plans -> Ids(results)]
    /\ \A n \in DOMAIN executions : executions[n] \in DOMAIN receipts
    /\ started \in 0..MaxRequests
    /\ patient \in BOOLEAN /\ rejected \in BOOLEAN

\* The receipts from which the receipt i was cloned, i included: what an
\* auditor finds by following metadata.previousReceiptId.
Lineage(i) ==
    LET back[n \in 0..Len(receipts)] ==
            IF n = 0 THEN {0} ELSE {n} \cup back[receipts[n].previous]
    IN  back[i] \ {0}

Quiet == \A c \in Callers : calls[c] = Idle

\* Every receipt carries the hash of its own content, with the version, the
\* status and the proofs that were set last: verify's canonicalPlanHashMatch.
ReceiptsMatchTheirHash ==
    \A i \in DOMAIN receipts : HashPlan(receipts[i]) = receipts[i].planHash

\* Whatever requests overlap or fail, no receipt claims an outcome or a link
\* that no recorded result of its plan backs: applyResult runs after the result
\* is saved, and copies of a receipt keep what it said.
OutcomeHasResult ==
    \A i \in DOMAIN receipts :
        LET backing == {n \in DOMAIN results : results[n].plan = receipts[i].plan}
        IN  /\ receipts[i].outcome # "pending" =>
                    \E n \in backing : results[n].status = receipts[i].outcome
            /\ receipts[i].reflection => \E n \in backing : results[n].reflection
            /\ receipts[i].memory => \E n \in backing : results[n].memory

\* The anchor hash of a receipt is that of one of the receipts it descends
\* from, never of itself and never of another plan's or another creation's, so
\* following previousReceiptId finds what was anchored.
AnchorsTheLineage ==
    \A i \in DOMAIN receipts :
        receipts[i].solana # None =>
            receipts[i].solana.of \in Lineage(i) \ {i}

\* The plan's latest result is the newest one, although links rewrite the
\* latest result while others are being recorded.
LatestResultIsNewest ==
    \A n \in DOMAIN results : n <= latestResult[results[n].plan]

\* Callers that wait for each request get one line of versions per plan: no
\* two receipts of a plan have the same version and the latest has the highest
\* (planReceipts.test.ts: "creates immutable plan receipt versions").
VersionsLinear ==
    patient =>
        \A i, j \in DOMAIN receipts :
            receipts[i].plan = receipts[j].plan /\ i < j =>
                receipts[i].version < receipts[j].version

\* With callers that wait and no failed write, a plan whose receipt descends
\* from the one its latest result was recorded against says what that result
\* says: no later store or anchor loses the outcome or a link.
PlanFollowsResult ==
    patient /\ Quiet /\ ~rejected =>
        \A p \in Plans :
            LET n == latestResult[p]
                i == latestReceipt[p]
            IN  n # 0 /\ results[n].receipt \in Lineage(i) =>
                    /\ receipts[i].outcome = results[n].status
                    /\ results[n].reflection => receipts[i].reflection
                    /\ results[n].memory => receipts[i].memory

\* When every request has ended and no write has failed, the timeline tells of
\* every creation, result, execution and link.
TimelineTellsAll ==
    Quiet /\ ~rejected =>
        /\ \A i \in DOMAIN receipts :
            receipts[i].previous = 0 => <<"plan_created", i>> \in timeline
        /\ \A n \in DOMAIN executions : <<"plan_execution_recorded", n>> \in timeline
        /\ \A n \in DOMAIN results :
            /\ <<"plan_result_recorded", n>> \in timeline
            /\ results[n].reflection /\ ~results[n].resultHash.reflection =>
                    <<"plan_reflection_linked", n>> \in timeline
            /\ results[n].memory /\ ~results[n].resultHash.memory =>
                    <<"plan_memory_linked", n>> \in timeline

\* Links and outcomes of a result are never taken back, whoever links what at
\* the same time.
LinksStay ==
    [][\A n \in DOMAIN results :
            /\ results[n].reflection => results'[n].reflection
            /\ results[n].memory => results'[n].memory
            /\ results[n].status = results'[n].status]_vars

\* The plan was anchored with a signature and its latest result links both.
Completed(p) ==
    LET i == latestReceipt[p]
        n == latestResult[p]
    IN  /\ i # 0 /\ n # 0
        /\ receipts[i].solana # None
        /\ receipts[i].solana.tx
        /\ results[n].reflection /\ results[n].memory

\* The claim of POST /demo/run, whose expected outcome is "A verifiable plan
\* lifecycle" (routes.ts:400): once every request has ended and no write has
\* failed, a plan that completed the lifecycle verifies.
LifecycleVerifies ==
    Quiet /\ ~rejected => \A p \in Plans : Completed(p) => Verified(p)

\* What server/plans keeps whatever requests overlap and whatever uploads, anchors
\* and writes fail.
PlansAreHonest ==
    /\ TypeOK
    /\ ReceiptsMatchTheirHash
    /\ OutcomeHasResult
    /\ AnchorsTheLineage
    /\ LatestResultIsNewest
    /\ TimelineTellsAll

\* What server/plans keeps for callers that wait for their answers.
PlansInTurn ==
    /\ VersionsLinear
    /\ PlanFollowsResult

----------------------------------------
(* For TLC. *)
\* Results that link nothing or their reflection: the link routes do the rest.
SomeLinks == {<<FALSE, FALSE>>, <<TRUE, FALSE>>}

\* Results that link both, as POST /demo/run records them.
BothLinks == {<<TRUE, TRUE>>}

\* The requests in flight differ only by name.
Symmetry == Permutations(Callers)
=============================================================================
