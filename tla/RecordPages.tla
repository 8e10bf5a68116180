----------------------------- MODULE RecordPages -----------------------------
(***************************************************************************)
(* The pages of the client that load a record and keep it in React state:  *)
(* the plan of a URL, the proposal of a mode and a wallet, the proof       *)
(* explorer, the 0G page, the panel of the NFT collection and the skills   *)
(* registry.  A behaviour is one mounted page.  A record is the key it was *)
(* asked for and a version: others change it at the server as the page     *)
(* does.  React Query is external; the requests of one load are one read.  *)
(***************************************************************************)
EXTENDS Naturals, FiniteSets

CONSTANTS Keys,         \* the plans of the URL, or a mode with a wallet
          MaxPageLoads, \* requests under way at once
          MaxChanges    \* changes at the server

ASSUME RecordPagesAssumption == MaxPageLoads \in Nat /\ MaxChanges \in Nat

VARIABLES
    recordPage,
    recordKey,      \* the plan of the URL; demo and walletAddress
    pageLoads,      \* loads and actions under way
    pageShown,      \* what the page holds
    pageLoading, pageError,
    form,           \* the registry's form for a new skill
    atServer,       \* the version at the server
    own,            \* history: the version the page's last answered change made
    overtaken       \* history: the loads since the page was last at rest have overlapped
recordPagesVars == <<recordPage, recordKey, pageLoads, pageShown, pageLoading, pageError,
                     form, atServer, own, overtaken>>

Pages == {"plan", "proposal", "proofs", "zerog", "nft", "registry"}
Nothing == [of |-> "nothing", version |-> 0]

FreeRequests == (1..MaxPageLoads) \ {l.id : l \in pageLoads}

PageRequest(id, kind, key) ==
    [id |-> id, kind |-> kind, of |-> key, version |-> 0, handled |-> FALSE, awaited |-> TRUE]

NextRequest(kind, key) == PageRequest(CHOOSE i \in FreeRequests : \A j \in FreeRequests : i <= j, kind, key)

AwaitedLoads == {l \in pageLoads : l.awaited /\ l.kind = "load"}
QuietPage == ~\E l \in pageLoads : l.awaited

\* The pages that load when they are mounted.
RecordPagesInit ==
    /\ recordPage \in Pages /\ recordKey \in Keys
    /\ pageLoads = IF recordPage = "nft" THEN {} ELSE {PageRequest(1, "load", recordKey)}
    /\ pageLoading = (recordPage \in {"plan", "proofs"})
    /\ pageShown = Nothing /\ pageError = FALSE /\ form = "empty"
    /\ atServer = 0 /\ own = 0 /\ overtaken = FALSE

----------------------------------------
\* The effect's cleanup: a load of the plan shown before answers nobody.
GivenUp == {[l EXCEPT !.awaited = FALSE] : l \in pageLoads}

\* Another plan in the URL.
ShowPlan(key) ==
    /\ recordPage = "plan" /\ key # recordKey /\ FreeRequests # {}
    /\ recordKey' = key /\ pageLoading' = TRUE
    /\ pageLoads' = GivenUp \cup {NextRequest("load", key)}
    /\ UNCHANGED <<recordPage, pageShown, pageError, form, atServer, own, overtaken>>

\* The switch of the demo, or another wallet: the load before goes on.
ShowProposal(key) ==
    /\ recordPage = "proposal" /\ key # recordKey /\ FreeRequests # {}
    /\ recordKey' = key
    /\ overtaken' = (AwaitedLoads # {})
    /\ pageLoads' = pageLoads \cup {NextRequest("load", key)}
    /\ UNCHANGED <<recordPage, pageShown, pageLoading, pageError, form, atServer, own>>

\* The panel's button, disabled while it is loading.
LoadCollection ==
    /\ recordPage = "nft" /\ ~pageLoading /\ FreeRequests # {}
    /\ pageLoading' = TRUE /\ pageError' = FALSE
    /\ pageLoads' = pageLoads \cup {NextRequest("load", recordKey)}
    /\ UNCHANGED <<recordPage, recordKey, pageShown, form, atServer, own, overtaken>>

\* Create and freeze answer the collection, a mint does not.
ChangeCollection(kind) ==
    /\ recordPage = "nft" /\ ~pageLoading /\ FreeRequests # {}
    /\ pageLoading' = TRUE /\ pageError' = FALSE
    /\ pageLoads' = pageLoads \cup {NextRequest(kind, recordKey)}
    /\ UNCHANGED <<recordPage, recordKey, pageShown, form, atServer, own, overtaken>>

RunZeroGDemo ==
    /\ recordPage = "zerog" /\ FreeRequests # {}
    /\ pageLoads' = pageLoads \cup {NextRequest("act", recordKey)}
    /\ UNCHANGED <<recordPage, recordKey, pageShown, pageLoading, pageError, form, atServer, own, overtaken>>

\* Activate, Pause, Deprecate and Verify, which no other waits for.
ChangeSkill ==
    /\ recordPage = "registry" /\ pageShown # Nothing /\ FreeRequests # {}
    /\ pageLoads' = pageLoads \cup {NextRequest("act", recordKey)}
    /\ UNCHANGED <<recordPage, recordKey, pageShown, pageLoading, pageError, form, atServer, own, overtaken>>

FillForm ==
    /\ recordPage = "registry" /\ form = "empty"
    /\ form' = "filled"
    /\ UNCHANGED <<recordPage, recordKey, pageLoads, pageShown, pageLoading, pageError, atServer, own, overtaken>>

\* The button is disabled while the mutation is pending, not while the list is reloaded
\* and the form is still full.
CreateSkill ==
    /\ recordPage = "registry" /\ form # "empty" /\ FreeRequests # {}
    /\ ~\E l \in pageLoads : l.kind = "publish"
    /\ pageLoads' = pageLoads \cup {NextRequest("publish", recordKey)}
    /\ UNCHANGED <<recordPage, recordKey, pageShown, pageLoading, pageError, form, atServer, own, overtaken>>

----------------------------------------
\* The server: a load reads the record, an action changes it; others change it too.
Handled(l) ==
    /\ ~l.handled
    /\ l.kind # "load" => atServer < MaxChanges
    /\ atServer' = IF l.kind = "load" THEN atServer ELSE atServer + 1
    /\ pageLoads' = (pageLoads \ {l}) \cup {[l EXCEPT !.handled = TRUE, !.version = atServer']}
    /\ UNCHANGED <<recordPage, recordKey, pageShown, pageLoading, pageError, form, own, overtaken>>

OthersChange ==
    /\ atServer < MaxChanges
    /\ atServer' = atServer + 1
    /\ UNCHANGED <<recordPage, recordKey, pageLoads, pageShown, pageLoading, pageError, form, own, overtaken>>

----------------------------------------
Got(l) == [of |-> l.of, version |-> l.version]

\* A load of a plan that was given up, or of a list that is loaded anew.
Unheard(l) ==
    /\ ~l.awaited
    /\ pageLoads' = pageLoads \ {l}
    /\ UNCHANGED <<recordPage, recordKey, pageShown, pageLoading, pageError, form, atServer, own, overtaken>>

Loaded(l) ==
    /\ l.kind = "load" /\ l.awaited /\ l.handled
    /\ pageShown' = Got(l)
    /\ pageError' = (recordPage = "plan" /\ pageError)
    /\ pageLoading' = FALSE
    /\ pageLoads' = pageLoads \ {l}
    /\ UNCHANGED <<recordPage, recordKey, form, atServer, own, overtaken>>

\* The proposal is forgotten, and each record of the 0G page whose answer is refused; the
\* others keep what they hold.
LoadFails(l, refused) ==
    /\ l.kind = "load" /\ l.awaited
    /\ pageShown' = IF recordPage = "proposal" \/ (recordPage = "zerog" /\ refused) THEN Nothing ELSE pageShown
    /\ pageError' = (pageError \/ recordPage \in {"plan", "proofs", "nft", "registry"})
    /\ pageLoading' = FALSE
    /\ overtaken' = (overtaken \/ recordPage = "zerog")
    /\ pageLoads' = pageLoads \ {l}
    /\ UNCHANGED <<recordPage, recordKey, form, atServer, own>>

CollectionChanged(l) ==
    /\ l.kind \in {"create", "freeze", "mint"} /\ l.handled
    /\ pageShown' = IF l.kind = "mint" THEN pageShown ELSE Got(l)
    /\ own' = IF l.kind = "mint" THEN own ELSE l.version
    /\ pageLoading' = FALSE
    /\ pageLoads' = pageLoads \ {l}
    /\ UNCHANGED <<recordPage, recordKey, pageError, form, atServer, overtaken>>

\* The demo's answer, good or bad, is followed by a refresh of all the records.
ZeroGDemoAnswered(l) ==
    /\ recordPage = "zerog" /\ l.kind = "act" /\ l.handled
    /\ own' = l.version
    /\ overtaken' = (AwaitedLoads # {})
    /\ pageLoads' = (pageLoads \ {l}) \cup {PageRequest(l.id, "load", recordKey)}
    /\ UNCHANGED <<recordPage, recordKey, pageShown, pageLoading, pageError, form, atServer>>

\* The list as it is asked anew: the load under way is dropped.
Invalidated(l) ==
    {IF x.kind = "load" THEN [x EXCEPT !.awaited = FALSE] ELSE x : x \in pageLoads \ {l}}
        \cup {PageRequest(l.id, "load", recordKey)}

\* A list without data yet is not asked again: invalidate waits for its first load.
SkillChanged(l) ==
    /\ recordPage = "registry" /\ l.kind \in {"act", "publish"} /\ l.handled
    /\ own' = IF l.version > own THEN l.version ELSE own
    /\ overtaken' = (pageShown = Nothing /\ AwaitedLoads # {})
    /\ pageLoads' = IF overtaken' THEN pageLoads \ {l} ELSE Invalidated(l)
    /\ form' = IF l.kind = "publish" /\ form # "empty" THEN "published" ELSE form
    /\ UNCHANGED <<recordPage, recordKey, pageShown, pageLoading, pageError, atServer>>

\* The reload that handleCreateSkill waited for has ended, well or badly.
FormCleared ==
    /\ form = "published" /\ AwaitedLoads = {}
    /\ form' = "empty"
    /\ UNCHANGED <<recordPage, recordKey, pageLoads, pageShown, pageLoading, pageError, atServer, own, overtaken>>

\* An action fails at the server or on its way: only the panel of the collection tells.
ActionFails(l) ==
    /\ l.kind # "load"
    /\ pageLoading' = FALSE
    /\ pageError' = (pageError \/ recordPage = "nft")
    /\ pageLoads' = pageLoads \ {l}
    /\ UNCHANGED <<recordPage, recordKey, pageShown, form, atServer, own, overtaken>>

RecordPagesNext ==
    \/ \E key \in Keys : ShowPlan(key) \/ ShowProposal(key)
    \/ LoadCollection \/ \E kind \in {"create", "freeze", "mint"} : ChangeCollection(kind)
    \/ RunZeroGDemo \/ ChangeSkill \/ FillForm \/ CreateSkill \/ FormCleared
    \/ OthersChange
    \/ \E l \in pageLoads :
          \/ Handled(l) \/ Unheard(l) \/ Loaded(l)
          \/ \E refused \in BOOLEAN : LoadFails(l, refused)
          \/ CollectionChanged(l) \/ ZeroGDemoAnswered(l) \/ SkillChanged(l) \/ ActionFails(l)

RecordPagesSpec == RecordPagesInit /\ [][RecordPagesNext]_recordPagesVars

----------------------------------------
\* A plan in view is that of the URL, whatever loads of other plans are under way, and a
\* proposal page at rest shows its mode and wallet, unless its loads overlapped.
ShownIsAskedFor ==
    /\ recordPage = "plan" /\ ~pageLoading /\ ~pageError => pageShown.of = recordKey
    /\ recordPage = "proposal" /\ QuietPage /\ ~overtaken => pageShown.of \in {recordKey, "nothing"}

\* A page that says it is loading is waiting for an answer, and the buttons of the
\* collection are back once there is none.
LoadingIsAwaited ==
    /\ pageLoading => ~QuietPage
    /\ recordPage = "nft" => (pageLoading <=> ~QuietPage)

\* At rest a page shows what it has changed itself, unless a load of it failed or was
\* overtaken.
OwnChangesShown ==
    QuietPage /\ ~overtaken /\ ~pageError => pageShown.version >= own
=============================================================================
