---------------------------- MODULE ReceiptsPage ----------------------------
(***************************************************************************)
(* The page of the reflections and their receipts in the web client.  Each *)
(* button starts a task of several requests and is disabled while busy;    *)
(* one flag serves them all, and the list that is loaded after each choice *)
(* of a reflection sets and clears it too.  A task goes on with the choice *)
(* it read when it began.                                                  *)
(*                                                                         *)
(* The reflections are numbered as they are stored, and listed newest      *)
(* first.  The filter, the form and the plans are left out.                *)
(***************************************************************************)
EXTENDS Naturals, Sequences

CONSTANTS
    MaxReflections, \* bound: reflections stored in a behaviour
    MaxPageCalls    \* bound: calls in flight when another one is started

ASSUME ReceiptsPageAssumption == MaxReflections \in Nat /\ MaxPageCalls \in Nat \ {0}

VARIABLES
    reflectionCount,    \* of the memory service
    listedCount,        \* items: how many of them the page lists
    chosenId,           \* selectedId, 0 for null
    chainOf,            \* chain and timeline: the reflection they were loaded for
    receiptsBusy,       \* busy
    pageCalls,          \* the tasks and loads in flight
    crossed             \* history: since the last choice a chain could not be loaded, or
                        \* the chain of another reflection was still to come

receiptsPageVars == <<reflectionCount, listedCount, chosenId, chainOf, receiptsBusy, pageCalls, crossed>>

\* What is left to do of a call, the choice its closures hold, and the number of
\* reflections when its request was sent.
PageCall(steps, id) ==
    [steps |-> steps, id |-> id, task |-> Head(steps) = "post", sent |-> reflectionCount]

\* The two effects on a choice.
LoadsOf(id) == <<PageCall(<<"list">>, id), PageCall(<<"chain">>, id)>>

LoadsChain(call) == \E k \in DOMAIN call.steps : call.steps[k] = "chain"
Crosses(id) == \E i \in DOMAIN pageCalls : LoadsChain(pageCalls[i]) /\ pageCalls[i].id # id

ReceiptsPageInit ==
    /\ reflectionCount \in 0..1
    /\ listedCount = 0 /\ chosenId = 0 /\ chainOf = 0 /\ crossed = FALSE
    /\ receiptsBusy = TRUE
    /\ pageCalls = <<PageCall(<<"list">>, 0)>>

----------------------------------------
Without(i) == SubSeq(pageCalls, 1, i - 1) \o SubSeq(pageCalls, i + 1, Len(pageCalls))

\* The calls once the first step of call i is done.
Advanced(i) ==
    IF Len(pageCalls[i].steps) = 1 THEN Without(i)
    ELSE [pageCalls EXCEPT ![i].steps = Tail(@), ![i].sent = reflectionCount]

\* Fault: the buttons work while the page is busy.
NeverDisabled == Len(pageCalls) < MaxPageCalls

Enabled == ~receiptsBusy /\ Len(pageCalls) < MaxPageCalls

StartsTask(steps) ==
    /\ Enabled
    /\ pageCalls' = Append(pageCalls, PageCall(steps, chosenId))
    /\ receiptsBusy' = TRUE
    /\ UNCHANGED <<reflectionCount, listedCount, chosenId, chainOf, crossed>>

RefreshList == StartsTask(<<"list">>)
\* runDemo and createReflection.
RunDemo == StartsTask(<<"post", "list">>)
RunPlanDemo == StartsTask(<<"post", "plans">>)
\* verifySelected and injectNextTurn.
VerifySelected ==
    /\ chosenId \in 1..listedCount
    /\ StartsTask(<<"post", "list", "chain">>)

SelectItem(id) ==
    /\ id \in 1..listedCount /\ id # chosenId
    /\ Len(pageCalls) < MaxPageCalls
    /\ chosenId' = id
    /\ crossed' = Crosses(id)
    /\ pageCalls' = pageCalls \o LoadsOf(id)
    /\ receiptsBusy' = TRUE
    /\ UNCHANGED <<reflectionCount, listedCount, chainOf>>

----------------------------------------
PostAnswers(i) ==
    /\ Head(pageCalls[i].steps) = "post"
    /\ pageCalls' = Advanced(i)
    /\ receiptsBusy' = (receiptsBusy \/ pageCalls[i].steps[2] = "list")
    /\ UNCHANGED <<reflectionCount, listedCount, chosenId, chainOf, crossed>>

\* loadPlans, which also ends when it fails.
PlansAnswer(i) ==
    /\ Head(pageCalls[i].steps) = "plans"
    /\ pageCalls' = Advanced(i)
    /\ receiptsBusy' = FALSE
    /\ UNCHANGED <<reflectionCount, listedCount, chosenId, chainOf, crossed>>

\* The answer holds the n reflections there were at some moment of the request; the
\* newest becomes the choice of a page that had none when the load began.
ReflectionsAnswer(i, n) ==
    /\ Head(pageCalls[i].steps) = "list" /\ n \in pageCalls[i].sent..reflectionCount
    /\ listedCount' = n
    /\ IF pageCalls[i].id = 0 /\ n \notin {0, chosenId}
       THEN /\ chosenId' = n /\ crossed' = Crosses(n)
            /\ pageCalls' = Advanced(i) \o LoadsOf(n)
            /\ receiptsBusy' = TRUE
       ELSE /\ pageCalls' = Advanced(i)
            /\ receiptsBusy' = FALSE
            /\ UNCHANGED <<chosenId, crossed>>
    /\ UNCHANGED <<reflectionCount, chainOf>>

ChainAnswers(i) ==
    /\ Head(pageCalls[i].steps) = "chain"
    /\ chainOf' = pageCalls[i].id
    /\ pageCalls' = Advanced(i)
    /\ receiptsBusy' = (receiptsBusy /\ ~pageCalls[i].task)
    /\ UNCHANGED <<reflectionCount, listedCount, chosenId, crossed>>

BusyAfterFailure(call) == receiptsBusy /\ ~call.task /\ Head(call.steps) # "list"

CallFails(i) ==
    /\ Head(pageCalls[i].steps) # "plans"
    /\ pageCalls' = Without(i)
    /\ receiptsBusy' = BusyAfterFailure(pageCalls[i])
    /\ crossed' = (crossed \/ pageCalls[i].steps = <<"chain">>)
    /\ UNCHANGED <<reflectionCount, listedCount, chosenId, chainOf>>

\* A reflection is stored, by a task of this page or elsewhere.
ReflectionStored ==
    /\ reflectionCount < MaxReflections
    /\ reflectionCount' = reflectionCount + 1
    /\ UNCHANGED <<listedCount, chosenId, chainOf, receiptsBusy, pageCalls, crossed>>

ReceiptsPageNext ==
    \/ RefreshList \/ RunDemo \/ RunPlanDemo \/ VerifySelected
    \/ \E id \in 1..MaxReflections : SelectItem(id)
    \/ \E i \in DOMAIN pageCalls :
         \/ PostAnswers(i) \/ PlansAnswer(i) \/ ChainAnswers(i) \/ CallFails(i)
         \/ \E n \in 0..MaxReflections : ReflectionsAnswer(i, n)
    \/ ReflectionStored

----------------------------------------
\* A choice once made is only replaced by the user's next one: a list that was asked
\* for before it, by the first load or a button, never takes it back.
ChoiceIsKept ==
    [][ chosenId # 0 => chosenId' = chosenId \/ \E id \in 1..MaxReflections : SelectItem(id)
      ]_receiptsPageVars

\* With no chain under way, the one shown with the chosen reflection is its own, whatever
\* was verified or injected meanwhile: unless a chain was lost, or one of another
\* reflection was still to come when it was chosen.
ChainIsOfTheChosen ==
    (chosenId # 0 /\ ~crossed /\ \A i \in DOMAIN pageCalls : ~LoadsChain(pageCalls[i]))
        => chainOf = chosenId

\* The page never stays busy with nothing under way that will end it, through overlapping
\* tasks and failures of any of their requests.
BusyEnds ==
    receiptsBusy => \E i \in DOMAIN pageCalls :
                       pageCalls[i].task \/ Head(pageCalls[i].steps) \in {"list", "plans"}
=============================================================================
