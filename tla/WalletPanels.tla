----------------------------- MODULE WalletPanels -----------------------------
(***************************************************************************)
(* What the screens show of the wallet.  SolanaWalletContext.tsx keeps,    *)
(* beside its session, the signature it has last asked for, its last       *)
(* error, the rows of its sign-ins and a balance; useDappChainState makes  *)
(* of them one transaction and one proof status, and the panels, the       *)
(* landing page and the trail of OnchainPage.tsx show those.               *)
(*                                                                         *)
(* The address, the cluster and the figures of the RPC are left out but    *)
(* for whether it answers; the session's cluster is the page's.            *)
(***************************************************************************)
EXTENDS WalletClient

VARIABLES
    panel,          \* latestSignature, error, txHistory, whose balance, isBalanceLoading
    unproven        \* history: latestSignature may be of a sign-in that was refused or overtaken

panelVars == <<panel, unproven>>
walletPanelsVars == <<walletClientVars, panelVars>>

NoSignature == 0
NoPanel == [signature |-> NoSignature, error |-> FALSE, rows |-> <<>>, balance |-> NoWallet, loading |-> FALSE]

WalletPanelsInit == WalletClientInit /\ panel = NoPanel /\ unproven = FALSE

Shows(p) == panel' = p /\ UNCHANGED unproven
Errs(error) == Shows([panel EXCEPT !.error = error])

\* The first effect on a change of wallet.
AdaptsBalance(w, p) == IF w = NoWallet THEN [p EXCEPT !.balance = NoWallet] ELSE p

\* refreshBalance, up to its await: without a wallet there is nothing to load.
LoadsFor(addr, p) == IF addr = NoWallet THEN [p EXCEPT !.balance = NoWallet] ELSE [p EXCEPT !.loading = TRUE]

\* Its end: a balance that could not be read is none.
BalanceShown(addr, ok) == IF ok THEN addr ELSE NoWallet

\* The button of a panel.
RefreshBalance ==
    /\ adapter # NoWallet
    /\ Begins("balance", "balance")
    /\ machine' = IF machine \in {"session_verified", "ready"} THEN "balance_loading" ELSE machine
    /\ Shows(LoadsFor(adapter, panel))
    /\ UNCHANGED <<adapter, shown, stored, dropped, serverVars>>

Signing == {i \in InFlight : tasks[i].kind = "sign"}

SignInBegins == Connect /\ Errs(FALSE)

SignInSigns(i) ==
    /\ WalletSigns(i)
    /\ panel' = [panel EXCEPT !.signature = i]
    /\ unproven' = (Signing # {i} \/ Signing' # {i})

SignInIsVerified(i) ==
    /\ Verified(i)
    /\ Shows(LoadsFor(tasks[i].addr,
                      [panel EXCEPT !.rows = <<[wallet |-> tasks[i].addr, signature |-> i]>> \o @]))

\* An error is shown until an attempt begins, or a hydration succeeds.
TaskFails(i) ==
    /\ Fails(i)
    /\ panel' = [panel EXCEPT !.error = TRUE]
    /\ unproven' = (unproven \/ panel.signature = i)

PopupFails(i, w) == PopupAnswers(i, w) /\ Errs(TRUE)

SessionIsHydrated(i) == HydrationApplies(i) /\ Shows(LoadsFor(tasks[i].addr, [panel EXCEPT !.error = FALSE]))

RefreshBegins == Refresh /\ Errs(shown.token = NoToken)

SessionIsRefreshed(i) == RefreshApplies(i) /\ Shows(LoadsFor(tasks[i].addr, panel))

BalanceArrives(i, ok) ==
    /\ BalanceAnswers(i, ok)
    /\ Shows([panel EXCEPT !.balance = BalanceShown(tasks[i].addr, ok), !.loading = FALSE])

\* What clearVerifiedSession leaves, and what disconnectWallet leaves.
Left(kind, p) ==
    IF kind = "clear" THEN [p EXCEPT !.signature = NoSignature]
    ELSE [p EXCEPT !.signature = NoSignature, !.balance = NoWallet, !.rows = <<>>]

SignOutBegins(kind) == SignOut(kind) /\ Errs(panel.error /\ kind = "disconnect")
ClearsAtOnce == ClearNothing /\ Shows([Left("clear", panel) EXCEPT !.error = FALSE])
DisconnectsAtOnce == DisconnectNothing /\ Shows(Left("disconnect", panel))
SignOutEnds(i) == SignedOut(i) /\ Shows(Left(tasks[i].kind, panel))

Disconnected(i) == AdapterLeaves(i) /\ Shows(AdaptsBalance(NoWallet, panel))
AccountChanges(w) == WalletChanges(w) /\ Shows(AdaptsBalance(w, panel))

PageReloads == Reload /\ panel' = NoPanel /\ unproven' = FALSE

PanelGoesOn(i) ==
    \/ \E ok \in BOOLEAN : BalanceArrives(i, ok)
    \/ SignInIsVerified(i) \/ SessionIsHydrated(i) \/ SessionIsRefreshed(i) \/ SignOutEnds(i)
    \/ Disconnected(i)
    \/ tasks[i].phase \notin {"popup", "signature"} /\ TaskFails(i)
    \/ /\ NonceAnswers(i) \/ VerifyAnswers(i) \/ SessionAnswers(i) \/ HydrationFails(i) \/ LogoutAnswers(i)
       /\ UNCHANGED panelVars

WalletPanelsNext ==
    \/ SignInBegins \/ RefreshBegins \/ RefreshBalance \/ ClearsAtOnce \/ DisconnectsAtOnce
    \/ \E kind \in {"clear", "disconnect"} : SignOutBegins(kind)
    \/ \E w \in Accounts \cup {NoWallet} : AccountChanges(w)
    \/ \E i \in DOMAIN tasks :
         \/ PanelGoesOn(i)
         \/ \E w \in Accounts : PopupFails(i, w)
         \/ SignInSigns(i)
         \/ tasks[i].phase \in {"popup", "signature"} /\ TaskFails(i)
    \/ PageReloads
    \/ ServerRestarts /\ UNCHANGED panelVars

----------------------------------------
(* What is shown.                                                          *)

SessionStatus ==
    CASE machine = "error" -> "error"
      [] machine # "error" /\ shown # Nothing -> "verified"
      [] OTHER -> IF adapter # NoWallet THEN "pending" ELSE "none"

IsBusy == machine \in {"session_verifying", "signing", "connecting"} \/ panel.loading

\* deriveTxStatus
TxStatus ==
    LET signed == panel.signature # NoSignature IN
    CASE panel.error \/ machine = "error" -> "failed"
      [] ~panel.error /\ machine = "connecting" -> "preparing"
      [] ~panel.error /\ machine = "signing" -> "signing"
      [] ~panel.error /\ machine = "session_verifying" -> "submitted"
      [] ~panel.error /\ machine = "balance_loading" -> IF signed THEN "confirming" ELSE "preparing"
      [] ~panel.error /\ machine = "session_verified" -> IF signed THEN "confirmed" ELSE "submitted"
      [] OTHER -> IF signed THEN "confirmed" ELSE "idle"

\* deriveProofStatus: the first that applies.
ProofStatus(rpc) ==
    LET verified == SessionStatus = "verified" IN
    IF panel.error THEN "degraded"
    ELSE IF IsBusy THEN "pending"
    ELSE IF rpc = "down" /\ verified THEN "degraded"
    ELSE IF panel.signature # NoSignature /\ verified THEN "verified"
    ELSE IF verified THEN "cached_only"
    ELSE "unverified"

\* OnchainPage shows the fixture's receipt, which is confirmed, while it has no row of its own.
Fixture == [status |-> "confirmed", onchain |-> TRUE, demo |-> TRUE]
Receipts ==
    IF panel.rows = <<>> THEN {Fixture}
    ELSE {[status |-> "verified", onchain |-> FALSE, demo |-> FALSE]}

\* The label of a row, by solanaTxRecordToStructured.
ReceiptLabel(receipt) ==
    IF receipt.demo THEN "cached_only"
    ELSE IF ~receipt.onchain THEN IF receipt.status = "verified" THEN "pending" ELSE "unverified"
    ELSE IF receipt.status = "verified" THEN "verified"
    ELSE "pending"

Step(done, begun) == IF done THEN "complete" ELSE IF begun THEN "active" ELSE "pending"

\* buildDappActivityFromState, of what OnchainPage passes to it.
Trail(rpc) ==
    LET signed == panel.signature # NoSignature
        confirmed == TxStatus = "confirmed" \/ \E r \in Receipts : r.status = "confirmed"
    IN  [wallet_connect |-> Step(adapter # NoWallet, FALSE),
         session_verify |-> Step(SessionStatus = "verified", adapter # NoWallet),
         skill_selected |-> Step(FALSE, FALSE),
         action_prepared |-> Step(signed, FALSE),
         tx_signed |-> Step(signed, FALSE),
         tx_submitted |-> Step(signed, FALSE),
         tx_confirmed |-> Step(confirmed, signed),
         receipt_anchored |-> Step(\E r \in Receipts : r.status \in {"confirmed", "verified"}, FALSE),
         proof_verified |-> Step(ProofStatus(rpc) = "verified", FALSE),
         memory_updated |-> Step(FALSE, FALSE),
         demo |-> \E r \in Receipts : r.demo]

----------------------------------------
(* What the screens promise.                                               *)

AtRest == InFlight = {} /\ ~overtaken

\* Beside a verified session, and without a wallet, the balance is the account's own or
\* none: through accounts that change under a balance, refreshes of it that overlap a
\* sign-in, and answers that fail.
BalanceIsOwn ==
    AtRest /\ (SessionStatus = "verified" \/ adapter = NoWallet) =>
        panel.balance \in {adapter, NoWallet}

\* A proof is shown as verified only beside the session of the account, and its
\* signature is the one that session was given for: unless that sign-in was refused
\* after it was signed, or another was under way.
ProofIsTheSessions ==
    AtRest /\ ProofStatus("up") = "verified" =>
        /\ shown.token[1] = adapter
        /\ unproven \/ panel.signature = shown.token[2]

\* The rows are sign-ins of accounts that signed them, the newest first, and none of
\* them is labelled as proven on chain.
RowsAreSignIns ==
    /\ \A n \in DOMAIN panel.rows : panel.rows[n].signature \in signatures[panel.rows[n].wallet]
    /\ \A r \in Receipts : ReceiptLabel(r) # "verified"

\* The trail is complete only in order: a proof is verified of what was signed and
\* confirmed in a verified session, and a step that no wallet took is marked as demo.
TrailInOrder ==
    \A rpc \in {"up", "down", "unknown"} :
        LET t == Trail(rpc) IN
        /\ t.proof_verified = "complete" =>
              t.session_verify = "complete" /\ t.tx_confirmed = "complete" /\ t.tx_signed = "complete"
        /\ t.tx_confirmed = "complete" /\ t.tx_signed # "complete" => t.demo
        /\ AtRest /\ t.session_verify = "complete" => t.wallet_connect = "complete"

\* The session of SolanaWalletContext.tsx is that of the user in front of it, and what
\* the screens show of the wallet belongs to it.
WalletIsTheUsers ==
    /\ ShownSessionIsOwn
    /\ SignedOutStaysOut
    /\ BalanceIsOwn
    /\ ProofIsTheSessions
    /\ RowsAreSignIns
    /\ TrailInOrder
=============================================================================
