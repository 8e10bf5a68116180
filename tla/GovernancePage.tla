--------------------------- MODULE GovernancePage ---------------------------
(***************************************************************************)
(* The governance dashboard of the web client.  It loads one payload for   *)
(* the wallet and the mode it is rendered with, and loads again after each *)
(* of its requests, for the wallet and the mode the request began with.    *)
(* Nothing cancels a load or orders the answers.                           *)
(*                                                                         *)
(* There is one open proposal of the demo story and one of the store; the  *)
(* messages and the sections of the page are abstracted.                   *)
(***************************************************************************)
EXTENDS Naturals, FiniteSets

CONSTANTS
    Voters,         \* the wallets the provider may give the dashboard
    Fetches         \* bound: requests in flight at once

ASSUME GovernancePageAssumption == IsFiniteSet(Fetches) /\ Fetches # {}

Nil == "none"
NoCall == [step |-> "done"]

VARIABLES
    voter,          \* walletAddress
    story,          \* demo: whether the demo story is included
    payload,        \* data: whose it is, and the proposals it lists
    selectedId,
    voting,         \* busy: what disables the vote buttons
    fetches,        \* the requests and the loads in flight
    published,      \* the proposal of the store: absent, open or closed
    crossed         \* history: since the last change of wallet or mode a load failed, or
                    \* what was asked for another wallet or mode was still under way

governancePageVars == <<voter, story, payload, selectedId, voting, fetches, published, crossed>>

UnderWay == {i \in Fetches : fetches[i] # NoCall}

\* buildCommandCenterPayload: the proposals of the store are listed in both modes.
ListedIds(demo) == (IF demo THEN {"story"} ELSE {}) \cup (IF published = Nil THEN {} ELSE {"live"})
OpenIds(demo) == (IF demo THEN {"story"} ELSE {}) \cup (IF published = "open" THEN {"live"} ELSE {})

\* The story brings its own active proposal.
ActiveProposalId(demo) ==
    CASE demo -> "story"
      [] ~demo /\ published = "open" -> "live"
      [] OTHER -> Nil

NoPayload == [of |-> Nil, demo |-> TRUE, listed |-> {}, open |-> {}, weighs |-> FALSE]

Load(demo, w) == [step |-> "load", vote |-> FALSE, demo |-> demo, of |-> w]
Request(vote) == [step |-> "request", vote |-> vote, demo |-> story, of |-> voter]

GovernancePageInit ==
    /\ voter \in Voters \cup {Nil} /\ story = TRUE
    /\ payload = NoPayload /\ selectedId = Nil /\ voting = FALSE
    /\ LET first == CHOOSE i \in Fetches : TRUE IN
       fetches = [i \in Fetches |-> IF i = first THEN Load(story, voter) ELSE NoCall]
    /\ published = Nil
    /\ crossed = FALSE

Sends(call) ==
    UnderWay # Fetches
    /\ fetches' = [fetches EXCEPT ![CHOOSE i \in Fetches \ UnderWay : TRUE] = call]

----------------------------------------
\* Fault: load does not depend on the wallet.
ReloadsForMode(demo, w) ==
    IF demo = story THEN UNCHANGED fetches ELSE Sends(Load(demo, w))

\* The effect that runs whenever load has changed.
Reloads(demo, w) == Sends(Load(demo, w))

Rerender(demo, w) ==
    /\ <<demo, w>> # <<story, voter>>
    /\ story' = demo /\ voter' = w
    /\ Reloads(demo, w)
    /\ crossed' = (UnderWay # {})
    /\ UNCHANGED <<payload, selectedId, voting, published>>

RefreshPayload ==
    /\ payload # NoPayload
    /\ Sends(Load(story, voter))
    /\ UNCHANGED <<voter, story, payload, selectedId, voting, published, crossed>>

Select(id) ==
    /\ id \in payload.listed
    /\ selectedId' = id
    /\ UNCHANGED <<voter, story, payload, voting, fetches, published, crossed>>

LoadAnswers(i, weighs) ==
    /\ fetches[i].step = "load"
    /\ LET demo == fetches[i].demo IN
       /\ payload' = [of |-> fetches[i].of, demo |-> demo, listed |-> ListedIds(demo),
                      open |-> OpenIds(demo), weighs |-> weighs /\ fetches[i].of # Nil]
       /\ selectedId' = IF selectedId = Nil THEN ActiveProposalId(demo) ELSE selectedId
    /\ voting' = (voting /\ ~fetches[i].vote)
    /\ fetches' = [fetches EXCEPT ![i] = NoCall]
    /\ UNCHANGED <<voter, story, published, crossed>>

----------------------------------------
\* The panel is given the selected proposal as the payload has it, if it has it.
VoteOffered == payload.weighs /\ voter # Nil /\ selectedId \in payload.open /\ ~voting

Vote ==
    /\ VoteOffered
    /\ voting' = TRUE
    /\ Sends(Request(TRUE))
    /\ UNCHANGED <<voter, story, payload, selectedId, published, crossed>>

\* register, publish, finalize, execute, delegate and revoke disable nothing here.
Act ==
    /\ payload # NoPayload
    /\ voter # Nil \/ selectedId \in payload.listed
    /\ Sends(Request(FALSE))
    /\ UNCHANGED <<voter, story, payload, selectedId, voting, published, crossed>>

RequestAnswers(i) ==
    /\ fetches[i].step = "request"
    /\ fetches' = [fetches EXCEPT ![i].step = "load"]
    /\ UNCHANGED <<voter, story, payload, selectedId, voting, published, crossed>>

\* A request refused - one for the story's proposal always is, its id being no
\* number -, or a request or a load lost.
FetchFails(i) ==
    /\ fetches[i] # NoCall
    /\ crossed' = (crossed \/ fetches[i].step = "load")
    /\ voting' = (voting /\ ~fetches[i].vote)
    /\ fetches' = [fetches EXCEPT ![i] = NoCall]
    /\ UNCHANGED <<voter, story, payload, selectedId, published>>

\* The store's proposal is created and finalized, by this page or another.
StoreMoves ==
    /\ \/ published = Nil /\ published' = "open"
       \/ published = "open" /\ published' = "closed"
    /\ UNCHANGED <<voter, story, payload, selectedId, voting, fetches, crossed>>

GovernancePageNext ==
    \/ \E demo \in BOOLEAN, w \in Voters \cup {Nil} : Rerender(demo, w)
    \/ RefreshPayload \/ Vote \/ Act
    \/ \E id \in {"story", "live"} : Select(id)
    \/ \E i \in Fetches :
         \/ \E weighs \in BOOLEAN : LoadAnswers(i, weighs)
         \/ RequestAnswers(i) \/ FetchFails(i)
    \/ StoreMoves

----------------------------------------
\* Once everything has been answered the payload is the wallet's own and of the
\* mode shown, whatever votes and other requests loaded it in between: unless
\* the wallet or the mode changed while something was under way.
PayloadIsCurrent ==
    (UnderWay = {} /\ ~crossed) => payload.of = voter /\ payload.demo = story

\* The vote buttons are disabled exactly while a vote, or the load after it, is
\* under way, and there is never more than one, through changes of wallet, mode
\* and selection and failed requests.
OneVoteAtATime ==
    LET votes == {i \in UnderWay : fetches[i].vote} IN
    voting = (votes # {}) /\ Cardinality(votes) <= 1
=============================================================================
