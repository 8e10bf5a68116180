------------------------------ MODULE MCWallets ------------------------------
(***************************************************************************)
(* Small instances of what the server keeps of wallets and their users,    *)
(* one of them in each behaviour: sessions, the identity, a skill of the   *)
(* registry, the autonomy configuration, the sign-in; and of the pages a   *)
(* user is shown: governance and the pages of one record.                  *)
(***************************************************************************)
EXTENDS SolanaSession, SolanaIdentity, SkillRegistry, Autonomy, GovernancePage, SignIn,
        RecordPages, TLC

CONSTANTS w1, w2, r1, r2, r3, FirstKey

VARIABLE part

(* Nonces, tokens and requests are compared for equality only.  They share  *)
(* their model values: one small group of permutations serves all parts.     *)
Symmetry == Permutations(Requests)

SomeRecords == {<<"memory", "good">>, <<"planner_run", "bad">>, <<"deployment", "open">>}
SomeEvents == {<<"verified_authorship", "none">>}
SmallCaps == [k \in Kinds |-> IF k = "memory" THEN 3 ELSE 1]

\* A mode without a level, preferences only, and a level with both.
SomeConfigurations ==
  {[mode |-> "automation", level |-> Unset, preferences |-> NoPreferences],
   [mode |-> Unset, level |-> Unset, preferences |-> [manual |-> TRUE, limit |-> Unset]],
   [mode |-> Unset, level |-> "near_autonomous", preferences |-> [manual |-> FALSE, limit |-> 1]]}

\* One thing is missing at most, a person's name among them; the table knows the owner.
SmallSignIn ==
  /\ Cardinality({k \in {"db", "portal", "https"} : ~deployment[k]})
        + Cardinality(deployment.nameless) <= 1
  /\ users = [who \in People |-> IF who = Owner THEN "user" ELSE "none"]

rowVars == <<vars, identityVars, registryVars>>
userVars == <<autonomyVars, governancePageVars, signInVars, recordPagesVars>>
walletsVars == <<rowVars, userVars, part>>

WalletsInit ==
  /\ part \in {"session", "identity", "registry", "autonomy", "governance", "signin", "pages"}
  /\ Init /\ IdentityInit /\ RegistryInit /\ AutonomyInit /\ GovernancePageInit
  /\ SignInInit /\ RecordPagesInit
  /\ part # "identity" => anchors
  /\ part # "registry" => row = Absent
  /\ part # "governance" => voter = Nil
  /\ SmallSignIn
  /\ part # "signin" => deployment.db /\ deployment.portal /\ deployment.https /\ deployment.nameless = {}
  /\ part # "pages" => recordPage = "nft" /\ recordKey = FirstKey

WalletNext ==
  \/ part = "session" /\ Next /\ UNCHANGED <<identityVars, registryVars>>
  \/ part = "identity" /\ IdentityNext /\ UNCHANGED <<vars, registryVars>>
  \/ part = "registry" /\ RegistryNext /\ UNCHANGED <<vars, identityVars>>

SolanaUserNext ==
  \/ part = "autonomy" /\ AutonomyNext /\ UNCHANGED governancePageVars
  \/ part = "governance" /\ GovernancePageNext /\ UNCHANGED autonomyVars

UserNext ==
  \/ SolanaUserNext /\ UNCHANGED <<signInVars, recordPagesVars>>
  \/ part = "signin" /\ SignInNext
     /\ UNCHANGED <<autonomyVars, governancePageVars, recordPagesVars>>
  \/ part = "pages" /\ RecordPagesNext
     /\ UNCHANGED <<autonomyVars, governancePageVars, signInVars>>

WalletsNext ==
  /\ UNCHANGED part
  /\ \/ WalletNext /\ UNCHANGED userVars
     \/ UserNext /\ UNCHANGED rowVars

WalletsSpec == WalletsInit /\ [][WalletsNext]_walletsVars

----------------------------------------
\* What a page shows and does belongs to the user, the wallet, the mode and the record it
\* is shown for, however its answers arrive: DaoDashboard.tsx, the sign-in of useAuth.ts
\* and its server, and the pages that load a record.
PagesAreCurrent ==
  /\ PayloadIsCurrent
  /\ OneVoteAtATime
  /\ RecognisedAtRest
  /\ TabKnowsItsChange
  /\ AnswersAreOwn
  /\ ShownIsAskedFor
  /\ LoadingIsAwaited
  /\ OwnChangesShown
=============================================================================
