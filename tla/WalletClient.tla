---------------------------- MODULE WalletClient ----------------------------
(***************************************************************************)
(* The wallet context of the web client, in front of the server's sessions. *)
(* The user connects, signs in, refreshes, clears and disconnects; the      *)
(* wallet extension changes account when it likes, and each change starts   *)
(* the hydration of the token kept in localStorage.  A task goes on with    *)
(* the address and the token it read when it began, whatever the page shows *)
(* by then, and every request may be lost on its way out or back.           *)
(*                                                                         *)
(* Task number i uses nonce i and may be given token <<wallet, i>>.         *)
(***************************************************************************)
EXTENDS Naturals, Sequences, FiniteSets

CONSTANTS
    Accounts,       \* the accounts of the wallet extension
    MaxTasks        \* bound: tasks begun in a behaviour

NoWallet == "none"

ASSUME WalletClientAssumption == MaxTasks \in Nat /\ NoWallet \notin Accounts

NoToken == <<"none", 0>>
ClientTokens == Accounts \X (1..MaxTasks)

VARIABLES
    adapter,        \* the account the extension is connected with
    machine,        \* machineState
    shown,          \* sessionToken and the wallet of sessionProfile
    stored,         \* the token in localStorage
    tasks,          \* the operations begun, with where each is
    overtaken,      \* history: a wallet change, or a reading task, met another since the load
    dropped,        \* history: the tokens the user has signed out of
    nonces, nonceRows, tokens, sessions, sessionOf, signatures

clientVars == <<adapter, machine, shown, stored, tasks, overtaken, dropped>>
serverVars == <<nonces, nonceRows, tokens, sessions, sessionOf, signatures>>
walletClientVars == <<clientVars, serverVars>>

Server == INSTANCE SolanaSession WITH
    Wallets <- Accounts, NonceIds <- 1..MaxTasks, Tokens <- ClientTokens,
    NonceLife <- 0, SessionLife <- 0, MaxTime <- 0, now <- 0,
    issued <- nonces, nonce <- nonceRows, minted <- tokens,
    session <- sessions, index <- sessionOf, signed <- signatures

Ended == [phase |-> "ended"]
Nothing == [token |-> NoToken, profile |-> NoWallet]
InFlight == {i \in DOMAIN tasks : tasks[i] # Ended}
Reading == {i \in InFlight : tasks[i].kind \in {"hydrate", "refresh"}}

WalletClientInit ==
    /\ adapter = NoWallet /\ machine = "disconnected"
    /\ shown = Nothing /\ stored = NoToken
    /\ tasks = <<>> /\ overtaken = FALSE /\ dropped = {}
    /\ Server!Init

----------------------------------------
Moves(i, phase) == tasks' = [tasks EXCEPT ![i].phase = phase]
Ends(i) == [tasks EXCEPT ![i] = Ended]

Begins(kind, phase) ==
    /\ Len(tasks) < MaxTasks
    /\ tasks' = Append(tasks, [kind |-> kind, phase |-> phase, addr |-> adapter,
                               token |-> shown.token, got |-> NoWallet])
    /\ overtaken' = (overtaken \/ Reading # {} \/ (kind = "refresh" /\ InFlight # {}))

\* The two effects of the provider on a change of wallet, after ts has become of the tasks.
Adapts(w, state, ts) ==
    /\ adapter' = w
    /\ machine' = CASE w = NoWallet -> "disconnected"
                    [] w # NoWallet /\ state = "disconnected" -> "connected"
                    [] OTHER -> state
    /\ shown' = IF w = NoWallet THEN Nothing ELSE shown
    /\ IF w # NoWallet /\ stored # NoToken
       THEN /\ Len(ts) < MaxTasks
            /\ tasks' = Append(ts, [kind |-> "hydrate", phase |-> "asked", addr |-> w,
                                    token |-> stored, got |-> NoWallet])
       ELSE tasks' = ts
    /\ overtaken' = (overtaken \/ \E i \in DOMAIN ts : ts[i] # Ended)

WalletChanges(w) ==
    /\ w # adapter
    /\ Adapts(w, machine, tasks)
    /\ UNCHANGED <<stored, dropped, serverVars>>

\* The rest of refreshSessionInternal, connectAndVerify and refreshSession.
LoadsBalance(i) ==
    IF tasks[i].addr = NoWallet
    THEN machine' = "session_verified" /\ tasks' = Ends(i)
    ELSE machine' = "balance_loading" /\ Moves(i, "balance")

BalanceAnswers(i, ok) ==
    /\ tasks[i].phase = "balance"
    /\ machine' = CASE machine = "balance_loading" -> IF ok THEN "ready" ELSE "session_verified"
                    [] machine = "session_verified" /\ ok -> "ready"
                    [] OTHER -> machine
    /\ tasks' = Ends(i)
    /\ UNCHANGED <<adapter, shown, stored, overtaken, dropped, serverVars>>

----------------------------------------
\* connectAndVerify, also behind signSession and verifySession.
Connect ==
    /\ IF adapter = NoWallet
       THEN machine' = "connecting" /\ Begins("sign", "popup")
       ELSE machine' = "signing" /\ Begins("sign", "nonce")
    /\ UNCHANGED <<adapter, shown, stored, dropped, serverVars>>

\* The closure still holds the wallet of the last render: it throws even when connected.
PopupAnswers(i, w) ==
    /\ tasks[i].phase = "popup"
    /\ adapter = NoWallet
    /\ Adapts(w, "error", Ends(i))
    /\ UNCHANGED <<stored, dropped, serverVars>>

NonceAnswers(i) ==
    /\ tasks[i].phase = "nonce"
    /\ Server!IssueNonce(tasks[i].addr, i)
    /\ Moves(i, "signature")
    /\ UNCHANGED <<adapter, machine, shown, stored, overtaken, dropped>>

\* The extension signs with the account it is on by now.
WalletSigns(i) ==
    /\ tasks[i].phase = "signature"
    /\ adapter # NoWallet
    /\ Server!Sign(adapter, i)
    /\ machine' = "session_verifying"
    /\ Moves(i, "verify")
    /\ UNCHANGED <<adapter, shown, stored, overtaken, dropped>>

VerifyAnswers(i) ==
    /\ tasks[i].phase = "verify"
    /\ Server!VerifySession(tasks[i].addr, i, <<tasks[i].addr, i>>)
    /\ Moves(i, "verified")
    /\ UNCHANGED <<adapter, machine, shown, stored, overtaken, dropped>>

Verified(i) ==
    /\ tasks[i].phase = "verified"
    /\ shown' = [token |-> <<tasks[i].addr, i>>, profile |-> tasks[i].addr]
    /\ stored' = <<tasks[i].addr, i>>
    /\ LoadsBalance(i)
    /\ UNCHANGED <<adapter, overtaken, dropped, serverVars>>

\* Fault: the page is left in the state the attempt had reached.
Unnoticed == machine

AfterError == "error"

\* The wallet declines, or a request or its answer is lost or refused.
Fails(i) ==
    /\ tasks[i] # Ended
    /\ \/ tasks[i].kind = "sign" /\ tasks[i].phase \in {"popup", "nonce", "signature", "verify", "verified"}
       \/ tasks[i].kind = "refresh" /\ tasks[i].phase \in {"asked", "answered"}
    /\ machine' = AfterError
    /\ tasks' = Ends(i)
    /\ UNCHANGED <<adapter, shown, stored, overtaken, dropped, serverVars>>

----------------------------------------
\* The server's answer to a hydration or to a refresh.
SessionAnswers(i) ==
    /\ tasks[i].phase = "asked"
    /\ tasks[i].token \in DOMAIN sessions
    /\ IF tasks[i].kind = "refresh" THEN Server!RefreshSession(tasks[i].token) ELSE UNCHANGED serverVars
    /\ tasks' = [tasks EXCEPT ![i].phase = "answered", ![i].got = sessions[tasks[i].token].wallet]
    /\ UNCHANGED <<adapter, machine, shown, stored, overtaken, dropped>>

\* Fault: the session is taken whoever's it is.
Anyones(i) == TRUE

ProfileMatches(i) == tasks[i].got = tasks[i].addr

HydrationApplies(i) ==
    /\ tasks[i].phase = "answered" /\ tasks[i].kind = "hydrate"
    /\ ProfileMatches(i)
    /\ shown' = [token |-> tasks[i].token, profile |-> tasks[i].got]
    /\ LoadsBalance(i)
    /\ UNCHANGED <<adapter, stored, overtaken, dropped, serverVars>>

\* Whatever has been signed in since is forgotten with it; the machine is not told.
HydrationFails(i) ==
    /\ tasks[i] # Ended
    /\ tasks[i].kind = "hydrate" /\ tasks[i].phase \in {"asked", "answered"}
    /\ shown' = Nothing /\ stored' = NoToken
    /\ tasks' = Ends(i)
    /\ UNCHANGED <<adapter, machine, overtaken, dropped, serverVars>>

Refresh ==
    /\ IF shown.token = NoToken
       THEN machine' = AfterError /\ UNCHANGED <<tasks, overtaken>>
       ELSE Begins("refresh", "asked") /\ UNCHANGED machine
    /\ UNCHANGED <<adapter, shown, stored, dropped, serverVars>>

RefreshApplies(i) ==
    /\ tasks[i].phase = "answered" /\ tasks[i].kind = "refresh"
    /\ shown' = [shown EXCEPT !.profile = tasks[i].got]
    /\ LoadsBalance(i)
    /\ UNCHANGED <<adapter, stored, overtaken, dropped, serverVars>>

----------------------------------------
AfterSignOut == NoToken

\* clearVerifiedSession and disconnectWallet once the server has been told, if at all.
Forgets(kind, addr) ==
    /\ stored' = AfterSignOut
    /\ shown' = Nothing
    /\ machine' = IF kind = "clear" /\ addr # NoWallet THEN "connected" ELSE "disconnected"

SignOut(kind) ==
    /\ shown.token # NoToken
    /\ Begins(kind, "logout")
    /\ UNCHANGED <<adapter, machine, shown, stored, dropped, serverVars>>

ClearNothing ==
    /\ shown.token = NoToken
    /\ Forgets("clear", adapter)
    /\ overtaken' = (overtaken \/ Reading # {})
    /\ UNCHANGED <<adapter, tasks, dropped, serverVars>>

DisconnectNothing ==
    /\ shown.token = NoToken
    /\ Begins("disconnect", "leaving")
    /\ Forgets("disconnect", adapter)
    /\ UNCHANGED <<adapter, dropped, serverVars>>

LogoutAnswers(i) ==
    /\ tasks[i].phase = "logout"
    /\ Server!LogoutSession(tasks[i].token)
    /\ Moves(i, "left")
    /\ UNCHANGED <<adapter, machine, shown, stored, overtaken, dropped>>

\* A logout that fails is not looked at.
SignedOut(i) ==
    /\ tasks[i].phase \in {"logout", "left"}
    /\ Forgets(tasks[i].kind, tasks[i].addr)
    /\ dropped' = dropped \cup {tasks[i].token}
    /\ IF tasks[i].kind = "clear" THEN tasks' = Ends(i) ELSE Moves(i, "leaving")
    /\ UNCHANGED <<adapter, overtaken, serverVars>>

AdapterLeaves(i) ==
    /\ tasks[i].phase = "leaving"
    /\ Adapts(NoWallet, machine, Ends(i))
    /\ UNCHANGED <<stored, dropped, serverVars>>

----------------------------------------
\* The page is loaded anew: only localStorage is left.
Reload ==
    /\ adapter' = NoWallet /\ machine' = "disconnected" /\ shown' = Nothing
    /\ tasks' = [i \in DOMAIN tasks |-> Ended]
    /\ overtaken' = FALSE
    /\ UNCHANGED <<stored, dropped, serverVars>>

ServerRestarts == Server!Restart /\ UNCHANGED clientVars

----------------------------------------
\* When nothing is in flight, the session shown is the account's own, token
\* and profile both, through signatures of the wrong account, overlapping
\* sign-ins and sign-outs, failed logouts, lost answers, reloads and another
\* account's token in localStorage: unless, since the page was loaded, the
\* wallet changed under a task or a hydration or refresh overlapped another.
ShownSessionIsOwn ==
    InFlight = {} /\ ~overtaken =>
        shown = Nothing \/ (shown.token[1] = adapter /\ shown.profile = adapter)

\* A token the user has signed out of is not in localStorage, whatever
\* overlapped, so no reload brings it back.
SignedOutStaysOut == stored \notin dropped

\* The page does not stay verifying or loading once the requests are answered
\* or fail, whatever else the user begins meanwhile.
Busy == machine \in {"session_verifying", "balance_loading"}
PageSettles == Busy ~> ~Busy
=============================================================================
