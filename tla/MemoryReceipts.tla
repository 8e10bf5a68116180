--------------------------- MODULE MemoryReceipts ---------------------------
(***************************************************************************)
(* The memory receipts of server/memory: a reflection is kept off chain, a *)
(* receipt of its hashes is anchored, verified and linked to later turns,  *)
(* and bundles of receipts are injected into the next turn of an agent.    *)
(*                                                                         *)
(* A request is a list of calls of the service.  A call runs up to its     *)
(* next await of an upload, of the chain or of a write of the store's      *)
(* file; there any other request may run.  Receipts are shared objects:    *)
(* link, verify and inject change them before they await the write.        *)
(*                                                                         *)
(* An id is a position.  There is one agent, conversation and wallet;      *)
(* texts, hashes of texts (which never differ: a reflection is immutable), *)
(* tags, dates and the caps of 500 bundles and 2000 events are abstracted. *)
(***************************************************************************)
EXTENDS Naturals, Sequences, FiniteSets, SequencesExt, FiniteSetsExt, TLC

CONSTANTS
    Callers,        \* the requests that can be in flight at once
    Turns,          \* the turns that receipts are linked to
    Advices,        \* the corrective advices, after lower-casing and trimming
    Priorities,     \* the scores of the priorities reflections may have
    HasClient,      \* whether an on-chain client is configured
    MaxItems,       \* the largest number of items of a bundle
    ListLimits,     \* how many reflections a bundle may look at: 200 in the code
    Patience,       \* whether callers wait: a subset of BOOLEAN
    MaxCreated,     \* bound: reflections
    MaxRequests,    \* bound: requests
    None

ASSUME ScoresAssumption == Priorities \subseteq 1..4 /\ MaxItems \in Nat \ {0} /\ ListLimits \subseteq Nat
ASSUME SettingsAssumption == HasClient \in BOOLEAN /\ Patience \subseteq BOOLEAN
ASSUME BoundsAssumption == MaxCreated \in Nat /\ None \notin Turns

VARIABLES
    reflections,    \* state.reflections
    receipts,       \* state.receipts
    index,          \* state.reflectionToReceipt; 0 is undefined
    links,          \* state.links
    injections,     \* state.injections, oldest first
    events,         \* state.events, without their order
    work,           \* what each thread of a request has left to do
    started,        \* the number of requests so far
    patient,        \* whether callers wait for one request before the next
    writeFailed     \* whether some write of the file has failed

vars == <<reflections, receipts, index, links, injections, events, work,
          started, patient, writeFailed>>

Reflections == 1..MaxCreated
ReflectionSet == [advice : Advices, priority : Priorities]
ReceiptSet ==
    [of : Reflections, tx : {"signed", "simulated", None}, verified : BOOLEAN,
     status : {"anchored", "degraded", "linked", "verified", "injected"},
     turn : Turns \cup {None}]

\* The thread <<c, 0>> is the request of c; a bundle links its reflections r
\* in threads <<c, r>> of their own (Promise.all).
Threads == Callers \X (0..MaxCreated)

Init ==
    /\ reflections = <<>>
    /\ receipts = <<>>
    /\ index = [r \in Reflections |-> 0]
    /\ links = {}
    /\ injections = <<>>
    /\ events = {}
    /\ work = [t \in Threads |-> <<>>]
    /\ started = 0
    /\ patient \in Patience
    /\ writeFailed = FALSE

----------------------------------------
(* The calls and the awaits of a thread.                                   *)

\* The reflection 0 of a call is the one its request creates just before it.
Call(name, r) == [do |-> name, r |-> r]
LinkCall(r, turn) == [do |-> "link", r |-> r, turn |-> turn]
BundleCall(turn) == [do |-> "bundle", r |-> 0, turn |-> turn]

\* Wait for a write, then push the events, whose own write no call waits for
\* in any other way than for the first one.
Push(what) == [do |-> "push", r |-> 0, events |-> what]

Does(t, name) == work[t] # <<>> /\ Head(work[t]).do = name
Rest(t) == Tail(work[t])
Goes(t, items) == work' = [work EXCEPT ![t] = items]
Waiting(c) == \E r \in Reflections : work[<<c, r>>] # <<>>

\* The file is written; the events of the change are pushed.
Pushed(t) ==
    /\ Does(t, "push")
    /\ events' = events \cup Head(work[t]).events
    /\ Goes(t, Rest(t))
    /\ UNCHANGED <<reflections, receipts, index, links, injections, started, patient, writeFailed>>

\* A write fails: the first one, or that of the events.  The whole request is
\* answered with an error; the other links of its bundle go on.
Rejects(t) ==
    /\ work[t] # <<>>
    /\ Head(work[t]).do \notin {"create", "chain"}
    /\ work' = [work EXCEPT ![t] = <<>>, ![<<t[1], 0>>] = <<>>]
    /\ \/ UNCHANGED events
       \/ Does(t, "push") /\ events' = events \cup Head(work[t]).events
    /\ writeFailed' = TRUE
    /\ UNCHANGED <<reflections, receipts, index, links, injections, started, patient>>

----------------------------------------
(* createReflection                                                        *)

\* The calls up to the next creation are about the reflection new.
Naming(calls, new) ==
    [i \in DOMAIN calls |->
        IF calls[i].r = 0 /\ \A j \in 1..i : calls[j].do # "create"
        THEN [calls[i] EXCEPT !.r = new] ELSE calls[i]]

\* The upload of the payload is answered, or has failed, which is caught and only
\* changes where the reflection says it is kept.
Created(t, advice, priority) ==
    /\ Does(t, "create")
    /\ Len(reflections) < MaxCreated
    /\ reflections' = Append(reflections, [advice |-> advice, priority |-> priority])
    /\ Goes(t, <<Push({<<"reflection_stored", Len(reflections) + 1>>})>>
               \o Naming(Rest(t), Len(reflections) + 1))
    /\ UNCHANGED <<receipts, index, links, injections, events, started, patient, writeFailed>>

----------------------------------------
(* anchorReflection                                                        *)

AnchorStatus(tx) == IF tx = None THEN "degraded" ELSE "anchored"

\* saveReceipt of the receipt of the reflection r; tx is None after an error.
SaveAnchor(t, r, tx) ==
    /\ receipts' = Append(receipts, [of |-> r, tx |-> tx, status |-> AnchorStatus(tx),
                                     verified |-> FALSE, turn |-> None])
    /\ index' = [index EXCEPT ![r] = Len(receipts) + 1]
    /\ Goes(t, <<Push({<<"receipt_" \o AnchorStatus(tx), Len(receipts) + 1>>})>> \o Rest(t))

HasReceipt(r) == index[r] # 0

\* Up to the call of the chain; without a client the signature is a simulation.
Anchored(t) ==
    /\ Does(t, "anchor")
    /\ LET r == Head(work[t]).r IN
       CASE HasReceipt(r) ->
                Goes(t, Rest(t)) /\ UNCHANGED <<receipts, index>>
         [] ~HasReceipt(r) /\ HasClient ->
                Goes(t, <<Call("chain", r)>> \o Rest(t)) /\ UNCHANGED <<receipts, index>>
         [] OTHER -> SaveAnchor(t, r, "simulated")
    /\ UNCHANGED <<reflections, links, injections, events, started, patient, writeFailed>>

AnchorAnswered(t, tx) ==
    /\ Does(t, "chain")
    /\ SaveAnchor(t, Head(work[t]).r, tx)
    /\ UNCHANGED <<reflections, links, injections, events, started, patient, writeFailed>>

----------------------------------------
(* linkReceiptToNextTurn and verifyReflection                              *)

\* The save of the receipt i of the reflection r and the events after it.
SaveCall(r, i, what) == [do |-> "save", r |-> r, receipt |-> i, events |-> what]

\* Fault: a link leaves the status of the receipt alone.
TurnOnly(rs, turn) ==
    /\ receipts' = [i \in DOMAIN receipts |->
                       IF \E r \in rs : index[r] = i THEN [receipts[i] EXCEPT !.turn = turn]
                       ELSE receipts[i]]
    /\ links' = links \cup {<<index[r], turn>> : r \in rs}

\* The receipts of the reflections rs and saveLink, up to its write.
LinkTo(rs, turn) ==
    /\ receipts' = [i \in DOMAIN receipts |->
                       IF \E r \in rs : index[r] = i
                       THEN [receipts[i] EXCEPT !.turn = turn, !.status = "linked"]
                       ELSE receipts[i]]
    /\ links' = links \cup {<<index[r], turn>> : r \in rs}

\* What is left of a link: saveReceipt and its event.
LinkSaves(r, turn) == <<SaveCall(r, index[r], {<<"receipt_linked", index[r], turn>>})>>

\* A reflection without a receipt is an error.
Link(t) ==
    /\ Does(t, "link")
    /\ LET r == Head(work[t]).r
           turn == Head(work[t]).turn
       IN  IF HasReceipt(r)
           THEN LinkTo({r}, turn) /\ Goes(t, LinkSaves(r, turn) \o Rest(t))
           ELSE Goes(t, <<>>) /\ UNCHANGED <<receipts, links>>
    /\ UNCHANGED <<reflections, index, injections, events, started, patient, writeFailed>>

\* The link is written; saveReceipt files the receipt (again) under r.
Saved(t) ==
    /\ Does(t, "save")
    /\ index' = [index EXCEPT ![Head(work[t]).r] = Head(work[t]).receipt]
    /\ Goes(t, <<Push(Head(work[t]).events)>> \o Rest(t))
    /\ UNCHANGED <<reflections, receipts, links, injections, events, started, patient, writeFailed>>

\* Fault: a verification starts the receipt anew.
VerifiedAnew(receipt) == [receipt EXCEPT !.verified = TRUE, !.status = "verified", !.turn = None]

\* All hashes match, whatever became of the anchoring.
VerifiedReceipt(receipt) == [receipt EXCEPT !.verified = TRUE, !.status = "verified"]

Verify(t) ==
    /\ Does(t, "verify")
    /\ LET i == index[Head(work[t]).r] IN
       IF i # 0
       THEN /\ receipts' = [receipts EXCEPT ![i] = VerifiedReceipt(@)]
            /\ Goes(t, <<Push({<<"receipt_verified", i>>})>> \o Rest(t))
       ELSE Goes(t, <<>>) /\ UNCHANGED receipts
    /\ UNCHANGED <<reflections, index, links, injections, events, started, patient, writeFailed>>

----------------------------------------
(* buildInjectionBundle                                                    *)

Eligible(r) ==
    receipts[index[r]].verified \/ receipts[index[r]].status \in {"anchored", "linked"}

\* What listReflections finds, with the wallet only what has a receipt; it answers with
\* the newest, up to a limit: seen is how it is asked.
Listed(wallet) == {r \in DOMAIN reflections : wallet => HasReceipt(r)}
Newer(r, S) == {s \in S : s > r}

Candidates(seen) ==
    {r \in Listed(seen.wallet) :
        /\ Cardinality(Newer(r, Listed(seen.wallet))) < seen.limit
        /\ HasReceipt(r) /\ Eligible(r)}

Score(r) ==
    reflections[r].priority + IF receipts[index[r]].verified THEN 1 ELSE 0

\* The order of the candidates: by score, then the newest first.
Before(r, s) == Score(r) > Score(s) \/ (Score(r) = Score(s) /\ r > s)

Rank(r, S) == Cardinality({s \in S : Before(s, r)})

\* The first candidate of each advice, and of those the first MaxItems, in order.
Firsts(seen) ==
    {r \in Candidates(seen) : \A s \in Candidates(seen) :
        reflections[s].advice = reflections[r].advice => ~Before(s, r)}
Best(seen) == {r \in Firsts(seen) : Rank(r, Firsts(seen)) < MaxItems}
Selected(seen) ==
    LET best == Best(seen)
    IN  [n \in 1..Cardinality(best) |-> CHOOSE r \in best : Rank(r, best) = n - 1]

ItemOf(r) == [r |-> r, receipt |-> index[r], verified |-> receipts[index[r]].verified,
              signed |-> receipts[index[r]].tx # None]

\* saveInjection; the links wait for its write.
Build(t, seen) ==
    /\ Does(t, "bundle")
    /\ LET turn == Head(work[t]).turn
           selected == Selected(seen)
           items == [n \in DOMAIN selected |-> ItemOf(selected[n])]
       IN  /\ injections' = Append(injections, [turn |-> turn, items |-> items])
           /\ Goes(t, <<[do |-> "fork", r |-> 0, bundle |-> Len(injections) + 1]>> \o Rest(t))
    /\ UNCHANGED <<reflections, receipts, index, links, events, started, patient, writeFailed>>

\* All receipts are linked; then each is saved in a thread of its own, and the
\* request goes on, when they have ended, to mark its items one after the other.
Fork(t) ==
    /\ Does(t, "fork")
    /\ LET b == Head(work[t]).bundle
           turn == injections[b].turn
           items == injections[b].items
           rs == {items[n].r : n \in DOMAIN items}
           injects == [n \in DOMAIN items |->
                         [do |-> "inject", r |-> items[n].r, receipt |-> items[n].receipt]]
       IN  /\ LinkTo(rs, turn)
           /\ work' = [u \in Threads |->
                 CASE u = t -> injects \o (<<Push({<<"injection_built", b>>})>> \o Rest(t))
                   [] u # t /\ u[1] = t[1] /\ u[2] \in rs -> LinkSaves(u[2], turn)
                   [] OTHER -> work[u]]
    /\ UNCHANGED <<reflections, index, injections, events, started, patient, writeFailed>>

\* The receipt of the item, and not the one its reflection may have by now.
Inject(t) ==
    /\ Does(t, "inject")
    /\ ~Waiting(t[1])
    /\ LET call == Head(work[t]) IN
       /\ receipts' = [receipts EXCEPT ![call.receipt].status = "injected"]
       /\ index' = [index EXCEPT ![call.r] = call.receipt]
    /\ Goes(t, Rest(t))
    /\ UNCHANGED <<reflections, links, injections, events, started, patient, writeFailed>>

----------------------------------------
(* The routes.                                                             *)

\* POST /reflections with its autoAnchor and autoVerify.
Create(anchor, verify) ==
    <<Call("create", 0)>> \o (IF anchor THEN <<Call("anchor", 0)>> ELSE <<>>)
                          \o (IF verify THEN <<Call("verify", 0)>> ELSE <<>>)

\* POST /demo/run
RunDemoFlow(turn) == Create(TRUE, TRUE) \o <<BundleCall(turn)>> \o Create(TRUE, TRUE)

Routes ==
    {Create(a, v) : a \in BOOLEAN, v \in BOOLEAN}
    \cup {<<Call(name, r)>> : name \in {"anchor", "verify"}, r \in DOMAIN reflections}
    \cup {<<LinkCall(r, turn)>> : r \in DOMAIN reflections, turn \in Turns}
    \cup {<<BundleCall(turn)>> : turn \in Turns}
    \cup {RunDemoFlow(turn) : turn \in Turns}

\* Bound: the reflections that exist or are still to be created.
Creations(calls) == Cardinality({n \in DOMAIN calls : calls[n].do = "create"})
Planned == Len(reflections) + MapThenSumSet(LAMBDA c : Creations(work[<<c, 0>>]), Callers)

Request(c, calls) ==
    /\ \A r \in 0..MaxCreated : work[<<c, r>>] = <<>>
    /\ patient => \A t \in Threads : work[t] = <<>>
    /\ started < MaxRequests
    /\ Planned + Creations(calls) <= MaxCreated
    /\ started' = started + 1
    /\ Goes(<<c, 0>>, calls)
    /\ UNCHANGED <<reflections, receipts, index, links, injections, events, patient, writeFailed>>

Next ==
    \/ \E c \in Callers : \E calls \in Routes : Request(c, calls)
    \/ \E t \in Threads :
          \/ \E a \in Advices, p \in Priorities : Created(t, a, p)
          \/ Anchored(t)
          \/ \E tx \in {"signed", None} : AnchorAnswered(t, tx)
          \/ Link(t)
          \/ Saved(t)
          \/ Verify(t)
          \/ \E wallet \in BOOLEAN, limit \in ListLimits :
                Build(t, [wallet |-> wallet, limit |-> limit])
          \/ Fork(t)
          \/ Inject(t)
          \/ Pushed(t)
          \/ Rejects(t)

Spec == Init /\ [][Next]_vars

\* Requests, turns and advices are compared for equality only.
Symmetric == Permutations(Callers) \cup Permutations(Turns) \cup Permutations(Advices)

----------------------------------------
(* Properties.                                                             *)

\* Every variable has the shape of the store's state.
TypeOK ==
    /\ \A r \in DOMAIN reflections : reflections[r] \in ReflectionSet
    /\ \A i \in DOMAIN receipts : receipts[i] \in ReceiptSet
    /\ index \in [Reflections -> 0..Len(receipts)]
    /\ links \subseteq ((1..Len(receipts)) \X Turns)
    /\ DOMAIN work = Threads

\* reflectionToReceipt only ever names receipts of the reflection, although four
\* calls write it, two of them with a receipt they read before an await.
IndexNamesOwnReceipt ==
    \A r \in Reflections : index[r] # 0 => receipts[index[r]].of = r

\* For callers that wait for their answers a reflection is anchored at most once
\* (anchorReflection returns the receipt it finds); callers that do not may
\* anchor it twice, and one of the receipts is then found by nobody.
OneReceiptEach ==
    patient => \A i, j \in DOMAIN receipts : receipts[i].of = receipts[j].of => i = j

\* For callers that wait, a receipt marked as injected was an item of a bundle for
\* the very turn the receipt names as its next one: a later link takes it back to
\* linked.
InjectedTurnIsBundles ==
    patient =>
        \A i \in DOMAIN receipts : receipts[i].status = "injected" =>
            \E b \in DOMAIN injections :
                /\ injections[b].turn = receipts[i].turn
                /\ \E n \in DOMAIN injections[b].items : injections[b].items[n].receipt = i

\* Once every request has ended and no write has failed the timeline tells of
\* every receipt, link, verification and bundle, whatever overlapped.
TimelineTellsAll ==
    (~writeFailed /\ \A t \in Threads : work[t] = <<>>) =>
        /\ \A i \in DOMAIN receipts :
              /\ \E st \in {"anchored", "degraded"} : <<"receipt_" \o st, i>> \in events
              /\ receipts[i].verified => <<"receipt_verified", i>> \in events
        /\ \A l \in links : <<"receipt_linked", l[1], l[2]>> \in events
        /\ \A b \in DOMAIN injections : <<"injection_built", b>> \in events

\* A new bundle repeats no advice, and leaves out an eligible reflection only for an item
\* with the same advice, because it is full, or for as many newer ones as are looked at.
BundlesTakeEachAdvice ==
    [][Len(injections') > Len(injections) =>
          LET items == injections'[Len(injections')].items
              advices == {reflections[items[n].r].advice : n \in DOMAIN items}
          IN  /\ Cardinality(advices) = Len(items)
              /\ \/ Len(items) = MaxItems
                 \/ \A r \in DOMAIN reflections :
                       HasReceipt(r) /\ Eligible(r) =>
                          \/ reflections[r].advice \in advices
                          \/ \E limit \in ListLimits :
                                Cardinality(Newer(r, DOMAIN reflections)) >= limit]_vars

\* What a receipt proves is never taken back: not its signature, not its
\* verification, and not that it was linked to a later turn.
ProofsOnlyGrow ==
    [][\A i \in DOMAIN receipts :
          /\ i \in DOMAIN receipts'
          /\ receipts'[i].tx = receipts[i].tx
          /\ receipts[i].verified => receipts'[i].verified
          /\ receipts[i].turn # None => receipts'[i].turn # None]_vars

\* The five collections of memory/service.ts agree, whatever overlaps between their
\* awaits.
MemoryRecordsAgree ==
    /\ TypeOK
    /\ IndexNamesOwnReceipt
    /\ OneReceiptEach
    /\ InjectedTurnIsBundles
    /\ TimelineTellsAll

\* What memory/service.ts hands to the next turn is chosen once and what it has
\* proven stays.
AdviceAndProofsStay ==
    /\ BundlesTakeEachAdvice
    /\ ProofsOnlyGrow
=============================================================================
