------------------------------- MODULE SignIn -------------------------------
(***************************************************************************)
(* Signing in: the OAuth callback and the session cookie of server/_core,  *)
(* the context of each tRPC call, and useAuth in a tab of a browser whose  *)
(* other tabs share the cookie.  The portal, the database and React Query  *)
(* are external; what a person is called at the portal matters only by     *)
(* being empty or not, and does not change.  The tries of a query before   *)
(* its last, and the fields of a user other than the role, are left out.   *)
(***************************************************************************)
EXTENDS Naturals

CONSTANTS People, Owner, Nobody,
          MaxAuthCalls     \* calls under way at once

ASSUME SignInAssumption == Owner \in People /\ Nobody \notin People /\ MaxAuthCalls \in Nat

VARIABLES
    deployment,     \* has a database, has the portal's address, is served over https;
                    \* whom the portal knows without a name
    users,          \* the table of users: the role of each, or "none"
    cookie,         \* whose token it holds, or Nobody's: there is none
    place,          \* where the tab is: "closed", "page", "portal", "message"
    me,             \* the query auth.me of the page; of, hit: history
    authCalls,
    changedHere     \* history: this tab changed the cookie last

signInVars == <<deployment, users, cookie, place, me, authCalls, changedHere>>
tabVars == <<place, me>>

NotAsked == [data |-> Nobody, loading |-> FALSE, of |-> Nobody, hit |-> FALSE]

SignInInit ==
    /\ deployment \in [db : BOOLEAN, portal : BOOLEAN, https : BOOLEAN, nameless : SUBSET People]
    /\ users \in [People -> {"none", "user"}]
    /\ cookie = Nobody /\ changedHere = FALSE
    /\ place = "closed" /\ me = NotAsked
    /\ authCalls = {}

----------------------------------------
\* A token without a name is refused.
VerifyCookie(token) == token \notin deployment.nameless \cup {Nobody}

RoleAfter(who, role) ==
    CASE who = Owner -> "admin"
      [] who # Owner /\ role = "none" -> "user"
      [] OTHER -> role

\* Nothing is written without a database; the owner becomes admin.
UpsertUser(who) ==
    users' = IF deployment.db THEN [users EXCEPT ![who] = RoleAfter(who, @)] ELSE users

Free == (1..MaxAuthCalls) \ {c.id : c \in authCalls}
FreeId == CHOOSE i \in Free : \A j \in Free : i <= j

Call(id, kind, token) ==
    [id |-> id, kind |-> kind, token |-> token, phase |-> "arrived",
     user |-> Nobody, awaited |-> TRUE, hit |-> FALSE]

CallKinds == {"me", "publish", "logout"}
Awaited(kind) == {c \in authCalls : c.kind = kind /\ c.awaited}

\* The calls of a page that is left, or of a query that is asked anew, go on at the server.
Abandoned(kinds) ==
    {IF c.kind \in kinds THEN [c EXCEPT !.awaited = FALSE] ELSE c : c \in authCalls}

\* The tab shows the page: auth.me is asked, nothing is known yet.
Loads(token) ==
    /\ Free # {}
    /\ place' = "page"
    /\ me' = [NotAsked EXCEPT !.loading = TRUE]
    /\ authCalls' = Abandoned(CallKinds) \cup {Call(FreeId, "me", token)}

\* Opening the page, reloading it, coming back to it.
OpenPage ==
    /\ Loads(cookie)
    /\ UNCHANGED <<deployment, users, cookie, changedHere>>

\* A call of the page: a protected mutation, here the publication of a skill, whose button
\* everybody has, or the logout of useAuth.
Send(kind) ==
    /\ place = "page" /\ Free # {} /\ Awaited(kind) = {}
    /\ kind = "publish" => ~me.loading
    /\ authCalls' = authCalls \cup {Call(FreeId, kind, cookie)}
    /\ UNCHANGED <<deployment, users, cookie, tabVars, changedHere>>

----------------------------------------
(* The server: createContext runs authenticateRequest for every call.      *)
Becomes(c, new) == authCalls' = (authCalls \ {c}) \cup {new}

Answered(c, user, hit) == [c EXCEPT !.phase = "answered", !.user = user, !.hit = hit]

LookUp(c) ==
    /\ c.phase = "arrived"
    /\ Becomes(c, IF ~VerifyCookie(c.token) THEN Answered(c, Nobody, FALSE)
                  ELSE IF deployment.db /\ users[c.token] # "none"
                       THEN [c EXCEPT !.phase = "found", !.user = c.token]
                       ELSE [c EXCEPT !.phase = "unknown"])
    /\ UNCHANGED <<deployment, users, cookie, tabVars, changedHere>>

\* A user who is not in the table is taken over from the portal and read again.
SyncUser(c) ==
    /\ c.phase = "unknown"
    /\ UpsertUser(c.token)
    /\ Becomes(c, IF deployment.db THEN [c EXCEPT !.phase = "found", !.user = c.token]
                                   ELSE Answered(c, Nobody, FALSE))
    /\ UNCHANGED <<deployment, cookie, tabVars, changedHere>>

\* The time of the sign-in is written.
Touch(c) ==
    /\ c.phase = "found"
    /\ UpsertUser(c.user)
    /\ Becomes(c, Answered(c, c.user, FALSE))
    /\ UNCHANGED <<deployment, cookie, tabVars, changedHere>>

\* A read, the portal or a write fails: there is no user, known or not.
AuthenticationFails(c) ==
    /\ \/ c.phase = "arrived" /\ VerifyCookie(c.token) /\ deployment.db
       \/ c.phase \in {"unknown", "found"}
    /\ Becomes(c, Answered(c, Nobody, TRUE))
    /\ UNCHANGED <<deployment, users, cookie, tabVars, changedHere>>

----------------------------------------
(* The answers. *)
Ignored(c) ==
    /\ ~c.awaited /\ c.phase = "answered"
    /\ authCalls' = authCalls \ {c}
    /\ UNCHANGED <<deployment, users, cookie, tabVars, changedHere>>

MeAnswered(c) ==
    /\ c.kind = "me" /\ c.awaited /\ c.phase = "answered"
    /\ me' = [data |-> c.user, loading |-> FALSE, of |-> c.token, hit |-> c.hit]
    /\ authCalls' = authCalls \ {c}
    /\ UNCHANGED <<deployment, users, cookie, place, changedHere>>

\* requireUser; a refusal sends the page to the address of the login, which without a
\* portal is the callback itself and answers 400.
PublishAnswered(c) ==
    /\ c.kind = "publish" /\ c.awaited /\ c.phase = "answered"
    /\ IF c.user # Nobody
       THEN authCalls' = authCalls \ {c} /\ UNCHANGED tabVars
       ELSE /\ place' = IF deployment.portal THEN "portal" ELSE "message"
            /\ me' = NotAsked
            /\ authCalls' = Abandoned(CallKinds) \ {[c EXCEPT !.awaited = FALSE]}
    /\ UNCHANGED <<deployment, users, cookie, changedHere>>

\* Logging out needs no user: the cookie goes, auth.me is null and asked again, after a
\* failure too.
LogoutEnds(c, arrived) ==
    /\ c.kind = "logout" /\ c.awaited
    /\ IF arrived THEN c.phase = "answered" ELSE Free # {}
    /\ cookie' = IF arrived THEN Nobody ELSE cookie
    /\ changedHere' = (changedHere \/ arrived)
    /\ me' = [me EXCEPT !.data = Nobody]
    /\ authCalls' = (Abandoned({"me"}) \ {c})
                      \cup (IF arrived THEN {} ELSE {[c EXCEPT !.awaited = FALSE]})
                      \cup {Call(IF arrived THEN c.id ELSE FreeId, "me", cookie')}
    /\ UNCHANGED <<deployment, users, place>>

\* The browser gets no answer to auth.me or to the publication.
CallLost(c) ==
    /\ c.awaited /\ c.kind # "logout"
    /\ me' = IF c.kind = "me" THEN [me EXCEPT !.loading = FALSE, !.hit = TRUE] ELSE me
    /\ Becomes(c, [c EXCEPT !.awaited = FALSE])
    /\ UNCHANGED <<deployment, users, cookie, place, changedHere>>

----------------------------------------
(* The portal and its callback. *)
\* A browser keeps a cookie for all sites (sameSite none) only when it is secure.
SessionCookie(who) == IF deployment.https THEN who ELSE cookie

\* /api/oauth/callback: the code, the user's info, the row, the cookie, then the page.
OAuthCallback(who) ==
    /\ place = "portal"
    /\ UpsertUser(who)
    /\ cookie' = SessionCookie(who)
    /\ changedHere' = TRUE
    /\ Loads(cookie')
    /\ UNCHANGED deployment

\* The exchange, the user's info or the row fails.
OAuthCallbackFails ==
    /\ place = "portal"
    /\ place' = "message"
    /\ UNCHANGED <<deployment, users, cookie, me, authCalls, changedHere>>

\* Another tab signs in or out, or the year of the cookie and its token is over.
CookieChanges(who) ==
    /\ cookie' = SessionCookie(who)
    /\ IF who = Nobody THEN UNCHANGED users ELSE UpsertUser(who)
    /\ changedHere' = FALSE
    /\ UNCHANGED <<deployment, tabVars, authCalls>>

SignInNext ==
    \/ OpenPage \/ OAuthCallbackFails
    \/ \E kind \in {"publish", "logout"} : Send(kind)
    \/ \E who \in People : OAuthCallback(who)
    \/ \E c \in authCalls :
          \/ LookUp(c) \/ SyncUser(c) \/ Touch(c) \/ AuthenticationFails(c)
          \/ Ignored(c) \/ MeAnswered(c) \/ PublishAnswered(c) \/ CallLost(c)
          \/ \E arrived \in BOOLEAN : LogoutEnds(c, arrived)
    \/ \E who \in People \cup {Nobody} : CookieChanges(who)

SignInSpec == SignInInit /\ [][SignInNext]_signInVars

----------------------------------------
AtRest == place = "page" /\ ~me.loading /\ ~\E c \in authCalls : c.awaited

\* A page at rest shows the person of the cookie it asked with, whether or not the table
\* knew the person before; nobody when there is no database or the name is empty.
RecognisedAtRest ==
    AtRest /\ ~me.hit =>
        me.data = IF deployment.db /\ me.of \notin deployment.nameless THEN me.of ELSE Nobody

\* A sign-in or a logout is not lost on the tab that made it: at rest it has asked with
\* the cookie there is, unless that was changed elsewhere.
TabKnowsItsChange == AtRest /\ ~me.hit /\ changedHere => me.of = cookie

\* An answered call is that of the person whose token came with it, and whoever is shown
\* is in the table, the owner as admin and nobody else.
AnswersAreOwn ==
    /\ \A c \in authCalls : c.user # Nobody => c.user \notin deployment.nameless /\ c.user = c.token
    /\ me.data # Nobody =>
          users[me.data] # "none" /\ (users[me.data] = "admin" <=> me.data = Owner)
=============================================================================
