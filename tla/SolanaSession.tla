---------------------------- MODULE SolanaSession ----------------------------
(***************************************************************************)
(* Wallet sessions of the server: a nonce is issued to a wallet, the wallet *)
(* signs the nonce's message, and the signature is exchanged once for a     *)
(* bearer token. Three maps are kept: nonces, sessions by token, and the    *)
(* token of each wallet. Handlers never await, so each is one action; a     *)
(* handler that throws before its first write is not a step. Nonces and     *)
(* tokens are random, that is, never drawn twice.                           *)
(***************************************************************************)
EXTENDS Naturals, FiniteSets

CONSTANTS
  Wallets, NonceIds, Tokens,
  NonceLife,     \* 5 minutes, in clock units
  SessionLife,   \* one hour, in clock units
  MaxTime        \* bound: the last instant of the clock

ASSUME SessionAssumption ==
  /\ NonceLife \in Nat /\ SessionLife \in Nat /\ MaxTime \in Nat
  /\ IsFiniteSet(Tokens)

VARIABLES
  now,        \* Date.now()
  issued,     \* nonces drawn so far, by any run of the server
  minted,     \* tokens drawn so far, by any run of the server
  signed,     \* the messages (one per nonce) each wallet has signed
  nonce,      \* nonceStore, over the nonces it holds
  session,    \* sessionStore, over the tokens it holds
  index       \* walletSessionIndex, over the wallets it holds

vars == <<now, issued, minted, signed, nonce, session, index>>

Holding(f, x, value) == [y \in DOMAIN f \cup {x} |-> IF y = x THEN value ELSE f[y]]
Without(f, x) == [y \in DOMAIN f \ {x} |-> f[y]]
Empty == [x \in {} |-> 0]

Init ==
  /\ now = 0
  /\ issued = {} /\ minted = {}
  /\ signed = [w \in Wallets |-> {}]
  /\ nonce = Empty /\ session = Empty /\ index = Empty

Tick ==
  /\ now < MaxTime
  /\ now' = now + 1
  /\ UNCHANGED <<issued, minted, signed, nonce, session, index>>

IssueNonce(w, n) ==
  /\ n \notin issued
  /\ issued' = issued \cup {n}
  /\ nonce' = Holding(nonce, n, [wallet |-> w, expiresAt |-> now + NonceLife, used |-> FALSE])
  /\ UNCHANGED <<now, minted, signed, session, index>>

(* A wallet signs the message of a nonce, its own or another's.            *)
Sign(w, n) ==
  /\ n \in issued
  /\ signed' = [signed EXCEPT ![w] = @ \cup {n}]
  /\ UNCHANGED <<now, issued, minted, nonce, session, index>>

Accepts(w, n) ==
  /\ ~nonce[n].used
  /\ nonce[n].wallet = w
  /\ now <= nonce[n].expiresAt
  /\ n \in signed[w]

(* Fault: the wallet's previous session is left in place *)
AllSessions(w) == session

(* What is left of the sessions when a wallet verifies again.              *)
OtherSessions(w) ==
  IF w \in DOMAIN index THEN Without(session, index[w]) ELSE session

(* Fault: the nonce is not marked as used *)
Kept(n) == nonce

Spent(n) == [nonce EXCEPT ![n].used = TRUE]

VerifySession(w, n, t) ==
  /\ n \in DOMAIN nonce
  /\ t \notin minted
  /\ Accepts(w, n)
  /\ minted' = minted \cup {t}
  /\ nonce' = Spent(n)
  /\ session' = Holding(OtherSessions(w), t,
                  [wallet |-> w, nonceId |-> n, expiresAt |-> now + SessionLife])
  /\ index' = Holding(index, w, t)
  /\ UNCHANGED <<now, issued, signed>>

Expired(t) == session[t].expiresAt < now

(* Reading a live session changes nothing; an expired one is dropped.      *)
GetSessionFromToken(t) ==
  /\ t \in DOMAIN session
  /\ Expired(t)
  /\ session' = Without(session, t)
  /\ index' = Without(index, session[t].wallet)
  /\ UNCHANGED <<now, issued, minted, signed, nonce>>

(* Fault: an expired session may be refreshed *)
AnySession(t) == TRUE

Refreshable(t) == ~Expired(t)

RefreshSession(t) ==
  /\ t \in DOMAIN session
  /\ Refreshable(t)
  /\ session' = [session EXCEPT ![t].expiresAt = now + SessionLife]
  /\ UNCHANGED <<now, issued, minted, signed, nonce, index>>

LogoutSession(t) ==
  /\ t \in DOMAIN session
  /\ index' = Without(index, session[t].wallet)
  /\ session' = Without(session, t)
  /\ UNCHANGED <<now, issued, minted, signed, nonce>>

(* The maps live in memory only.                                           *)
Restart ==
  /\ nonce' = Empty /\ session' = Empty /\ index' = Empty
  /\ UNCHANGED <<now, issued, minted, signed>>

Next ==
  \/ Tick
  \/ \E w \in Wallets, n \in NonceIds :
       \/ IssueNonce(w, n)
       \/ Sign(w, n)
       \/ \E t \in Tokens : VerifySession(w, n, t)
  \/ \E t \in Tokens :
       GetSessionFromToken(t) \/ RefreshSession(t) \/ LogoutSession(t)
  \/ Restart

Spec == Init /\ [][Next]_vars

----------------------------------------
(* The maps hold what the handlers put there.                              *)
TypeOK ==
  /\ now \in 0..MaxTime
  /\ issued \subseteq NonceIds /\ minted \subseteq Tokens
  /\ signed \in [Wallets -> SUBSET NonceIds]
  /\ DOMAIN nonce \subseteq issued
  /\ nonce \in [DOMAIN nonce -> [wallet : Wallets, expiresAt : Nat, used : BOOLEAN]]
  /\ DOMAIN session \subseteq minted
  /\ session \in [DOMAIN session ->
                    [wallet : Wallets, nonceId : issued, expiresAt : Nat]]
  /\ DOMAIN index \subseteq Wallets
  /\ index \in [DOMAIN index -> minted]

(* walletSessionIndex and sessionStore are written by four handlers apart, *)
(* and three of them delete by what the other map says; the two still name *)
(* the same sessions, so a wallet has one session and dropping it by token *)
(* or by wallet drops the same one.                                        *)
IndexNamesTheSession ==
  /\ \A w \in DOMAIN index :
       index[w] \in DOMAIN session /\ session[index[w]].wallet = w
  /\ \A t \in DOMAIN session :
       session[t].wallet \in DOMAIN index /\ index[session[t].wallet] = t

(* A session rests on a nonce issued to its wallet and signed by it, and   *)
(* no two sessions rest on the same nonce.                                 *)
SessionRestsOnNonce ==
  \A t \in DOMAIN session :
    LET n == session[t].nonceId IN
    /\ n \in signed[session[t].wallet]
    /\ n \in DOMAIN nonce /\ nonce[n].used
    /\ nonce[n].wallet = session[t].wallet
    /\ \A u \in DOMAIN session : session[u].nonceId = n => u = t

(* A token that has left the store, or has expired in it, never opens a    *)
(* session again.                                                          *)
Opens(t) == t \in DOMAIN session /\ ~Expired(t)

TokensDie == [][\A t \in minted : ~Opens(t) => ~Opens(t)']_vars
=============================================================================
