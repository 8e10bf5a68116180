---------------------------- MODULE WalletsProofs ----------------------------
\* Theorems about what the server keeps of wallets and their users, and
\* about the pages a user is shown, for every value of the constants: the
\* session maps, the identity, the autonomy routes, the governance page,
\* the sign-in, the pages of one record and the registry of skills; then
\* of all of them side by side, as the run checks them.
EXTENDS MCWallets, SumTheorems, TLAPS

\* The wallet sessions.  The inductive invariant is the type correctness
\* with the two invariants of the maps.
Inv == TypeOK /\ IndexNamesTheSession /\ SessionRestsOnNonce

\* Every map starts empty, so nothing is claimed of anything.
LEMMA InitInv == Init => Inv
<1> SUFFICES ASSUME Init PROVE Inv OBVIOUS
<1>1. DOMAIN Empty = {} /\ \A S : Empty \in [{} -> S] BY DEF Empty
<1>2. /\ now = 0 /\ issued = {} /\ minted = {} /\ signed = [w \in Wallets |-> {}]
      /\ nonce = Empty /\ session = Empty /\ index = Empty
  BY DEF Init
<1>3. signed \in [Wallets -> SUBSET NonceIds] BY <1>2
<1>4. 0 \in 0..MaxTime BY SessionAssumption DEF SessionAssumption
<1>5. TypeOK BY <1>1, <1>2, <1>3, <1>4 DEF TypeOK
<1>6. IndexNamesTheSession /\ SessionRestsOnNonce BY <1>1, <1>2 DEF IndexNamesTheSession, SessionRestsOnNonce
<1> QED BY <1>5, <1>6 DEF Inv

\* Every handler keeps the maps well typed.
LEMMA StepType == TypeOK /\ [Next]_vars => TypeOK'
<1> SUFFICES ASSUME TypeOK, [Next]_vars PROVE TypeOK' OBVIOUS
<1> USE SessionAssumption DEF SessionAssumption
<1>1. CASE Tick BY <1>1 DEF Tick, TypeOK
<1>2. ASSUME NEW w \in Wallets, NEW n \in NonceIds, IssueNonce(w, n) PROVE TypeOK'
  BY <1>2 DEF IssueNonce, TypeOK, Holding
<1>3. ASSUME NEW w \in Wallets, NEW n \in NonceIds, Sign(w, n) PROVE TypeOK' BY <1>3 DEF Sign, TypeOK
<1>4. ASSUME NEW w \in Wallets, NEW n \in NonceIds, NEW t \in Tokens, VerifySession(w, n, t)
      PROVE  TypeOK'
 <2>1. /\ DOMAIN session' \subseteq minted'
       /\ session' \in [DOMAIN session' -> [wallet : Wallets, nonceId : issued', expiresAt : Nat]]
  <3> DEFINE others == OtherSessions(w)
  <3>1. /\ DOMAIN others \subseteq minted
        /\ others \in [DOMAIN others -> [wallet : Wallets, nonceId : issued, expiresAt : Nat]]
    BY DEF OtherSessions, Without, TypeOK
  <3>2. [wallet |-> w, nonceId |-> n, expiresAt |-> now + SessionLife]
          \in [wallet : Wallets, nonceId : issued, expiresAt : Nat]
    BY <1>4 DEF VerifySession, TypeOK
  <3> HIDE DEF others
  <3>3. /\ session' = Holding(others, t, [wallet |-> w, nonceId |-> n, expiresAt |-> now + SessionLife])
        /\ issued' = issued /\ minted' = minted \cup {t}
    BY <1>4 DEF VerifySession, others
  <3> QED BY <3>1, <3>2, <3>3 DEF Holding
 <2>2. /\ DOMAIN nonce' \subseteq issued'
       /\ nonce' \in [DOMAIN nonce' -> [wallet : Wallets, expiresAt : Nat, used : BOOLEAN]]
   BY <1>4 DEF VerifySession, Spent, TypeOK
 <2>3. /\ DOMAIN index' \subseteq Wallets
       /\ index' \in [DOMAIN index' -> minted']
   BY <1>4 DEF VerifySession, Holding, TypeOK
 <2> QED BY <1>4, <2>1, <2>2, <2>3 DEF VerifySession, TypeOK
<1>5. ASSUME NEW t \in Tokens, GetSessionFromToken(t) PROVE TypeOK' BY <1>5 DEF GetSessionFromToken, Without, TypeOK
<1>6. ASSUME NEW t \in Tokens, RefreshSession(t) PROVE TypeOK' BY <1>6 DEF RefreshSession, TypeOK
<1>7. ASSUME NEW t \in Tokens, LogoutSession(t) PROVE TypeOK' BY <1>7 DEF LogoutSession, Without, TypeOK
<1>8. CASE Restart BY <1>8 DEF Restart, Empty, TypeOK
<1>9. CASE UNCHANGED vars BY <1>9 DEF vars, TypeOK
<1> QED BY <1>1, <1>2, <1>3, <1>4, <1>5, <1>6, <1>7, <1>8, <1>9 DEF Next

\* The handlers that delete a session delete its wallet's entry with it,
\* and verification replaces both.
LEMMA StepIndex ==
  TypeOK /\ IndexNamesTheSession /\ [Next]_vars => IndexNamesTheSession'
<1> SUFFICES ASSUME TypeOK, IndexNamesTheSession, [Next]_vars PROVE IndexNamesTheSession' OBVIOUS
<1>1. CASE UNCHANGED <<session, index>> BY <1>1 DEF IndexNamesTheSession
<1>2. ASSUME NEW w \in Wallets, NEW n \in NonceIds, NEW t \in Tokens, VerifySession(w, n, t)
      PROVE  IndexNamesTheSession'
 <2> DEFINE others == OtherSessions(w)
            new == [wallet |-> w, nonceId |-> n, expiresAt |-> now + SessionLife]
 <2>1. /\ t \notin DOMAIN session
       /\ session' = Holding(others, t, new)
       /\ index' = Holding(index, w, t)
   BY <1>2 DEF VerifySession, TypeOK
 <2>2. /\ DOMAIN others = {u \in DOMAIN session : session[u].wallet # w}
       /\ \A u \in DOMAIN others : others[u] = session[u]
   BY DEF OtherSessions, Without, IndexNamesTheSession
 <2> HIDE DEF others
 <2>3. new.wallet = w OBVIOUS
 <2> HIDE DEF new
 <2>4. /\ DOMAIN session' = DOMAIN others \cup {t}
       /\ session'[t] = new
       /\ \A u \in DOMAIN others : session'[u] = session[u]
   BY <2>1, <2>2 DEF Holding
 <2>5. /\ DOMAIN index' = DOMAIN index \cup {w}
       /\ index'[w] = t
       /\ \A v \in DOMAIN index : v # w => index'[v] = index[v]
   BY <2>1 DEF Holding
 <2> QED BY <2>2, <2>3, <2>4, <2>5 DEF IndexNamesTheSession
<1>3. ASSUME NEW t \in Tokens, t \in DOMAIN session,
             session' = Without(session, t), index' = Without(index, session[t].wallet)
      PROVE  IndexNamesTheSession'
  BY <1>3 DEF Without, IndexNamesTheSession
<1>4. ASSUME NEW t \in Tokens, RefreshSession(t) PROVE IndexNamesTheSession'
  BY <1>4 DEF RefreshSession, TypeOK, IndexNamesTheSession
<1>5. CASE Restart BY <1>5 DEF Restart, Empty, IndexNamesTheSession
<1> QED
  BY <1>1, <1>2, <1>3, <1>4, <1>5
  DEF Next, Tick, IssueNonce, Sign, GetSessionFromToken, LogoutSession, vars

\* A nonce is marked as used in the step that opens a session on it, so no
\* other session can rest on it.
LEMMA StepRests ==
  TypeOK /\ SessionRestsOnNonce /\ [Next]_vars => SessionRestsOnNonce'
<1> SUFFICES ASSUME TypeOK, SessionRestsOnNonce, [Next]_vars PROVE SessionRestsOnNonce' OBVIOUS
<1> USE DEF SessionRestsOnNonce
<1>1. CASE Tick \/ UNCHANGED vars BY <1>1 DEF Tick, vars
<1>2. ASSUME NEW w \in Wallets, NEW n \in NonceIds, IssueNonce(w, n)
      PROVE  SessionRestsOnNonce'
  BY <1>2 DEF IssueNonce, Holding, TypeOK
<1>3. ASSUME NEW w \in Wallets, NEW n \in NonceIds, Sign(w, n)
      PROVE  SessionRestsOnNonce'
  BY <1>3 DEF Sign, TypeOK
<1>4. ASSUME NEW w \in Wallets, NEW n \in NonceIds, NEW t \in Tokens, VerifySession(w, n, t)
      PROVE  SessionRestsOnNonce'
 <2> DEFINE others == OtherSessions(w)
            new == [wallet |-> w, nonceId |-> n, expiresAt |-> now + SessionLife]
 <2>1. /\ n \in DOMAIN nonce /\ Accepts(w, n) /\ nonce' = Spent(n)
       /\ t \notin DOMAIN session /\ signed' = signed
       /\ session' = Holding(others, t, new)
   BY <1>4 DEF VerifySession, TypeOK
 <2>2. /\ DOMAIN others \subseteq DOMAIN session
       /\ \A u \in DOMAIN others : others[u] = session[u]
   BY DEF OtherSessions, Without
 <2> HIDE DEF others
 <2>3. /\ DOMAIN session' = DOMAIN others \cup {t}
       /\ session'[t].wallet = w /\ session'[t].nonceId = n
       /\ \A u \in DOMAIN others : session'[u] = session[u]
   BY <2>1, <2>2 DEF Holding
 <2>4. \A u \in DOMAIN session : session[u].nonceId # n BY <2>1 DEF Accepts
 <2>5. /\ DOMAIN nonce' = DOMAIN nonce
       /\ nonce'[n].used /\ nonce'[n].wallet = w
       /\ \A m \in DOMAIN nonce : m # n => nonce'[m] = nonce[m]
   BY <2>1 DEF Spent, Accepts, TypeOK
 <2>6. n \in signed[w] BY <2>1 DEF Accepts
 <2> QED BY <2>1, <2>2, <2>3, <2>4, <2>5, <2>6
<1>5. ASSUME NEW t \in Tokens, session' = Without(session, t), UNCHANGED <<nonce, signed>>
      PROVE  SessionRestsOnNonce'
  BY <1>5 DEF Without
<1>6. ASSUME NEW t \in Tokens, RefreshSession(t) PROVE SessionRestsOnNonce' BY <1>6 DEF RefreshSession, TypeOK
<1>7. CASE Restart BY <1>7 DEF Restart, Empty
<1> QED BY <1>1, <1>2, <1>3, <1>4, <1>5, <1>6, <1>7 DEF Next, GetSessionFromToken, LogoutSession

\* The session and wallet maps always name the same sessions.
THEOREM IndexAlwaysNames == Spec => []IndexNamesTheSession
<1>1. Inv /\ [Next]_vars => Inv' BY StepType, StepIndex, StepRests DEF Inv
<1>2. Inv => IndexNamesTheSession BY DEF Inv
<1> QED BY <1>1, <1>2, InitInv, PTL DEF Spec

\* Every session rests on one nonce its wallet was given and signed.
THEOREM SessionsRestOnNonces == Spec => []SessionRestsOnNonce
<1>1. Inv /\ [Next]_vars => Inv' BY StepType, StepIndex, StepRests DEF Inv
<1>2. Inv => SessionRestsOnNonce BY DEF Inv
<1> QED BY <1>1, <1>2, InitInv, PTL DEF Spec

\* A token that opens no session never opens one again.
THEOREM TokensStayDead == Spec => TokensDie
<1>1. TypeOK /\ [Next]_vars => [\A t \in minted : ~Opens(t) => ~Opens(t)']_vars
 <2> SUFFICES ASSUME TypeOK, Next, NEW t \in minted, ~Opens(t) PROVE ~Opens(t)' BY DEF vars
 <2> USE DEF Opens, Expired, TypeOK
 <2>1. CASE Tick BY <2>1 DEF Tick
 <2>2. ASSUME NEW w \in Wallets, NEW n \in NonceIds, IssueNonce(w, n) \/ Sign(w, n)
       PROVE  ~Opens(t)'
   BY <2>2 DEF IssueNonce, Sign
 <2>3. ASSUME NEW w \in Wallets, NEW n \in NonceIds, NEW u \in Tokens, VerifySession(w, n, u)
       PROVE  ~Opens(t)'
  <3>1. t # u BY <2>3 DEF VerifySession
  <3>2. /\ DOMAIN OtherSessions(w) \subseteq DOMAIN session
        /\ \A v \in DOMAIN OtherSessions(w) : OtherSessions(w)[v] = session[v]
    BY DEF OtherSessions, Without
  <3>3. t \in DOMAIN session' => t \in DOMAIN session /\ session'[t] = session[t]
    BY <2>3, <3>1, <3>2 DEF VerifySession, Holding
  <3>4. now' = now BY <2>3 DEF VerifySession
  <3> QED BY <3>3, <3>4
 <2>4. ASSUME NEW u \in Tokens, GetSessionFromToken(u) \/ LogoutSession(u)
       PROVE  ~Opens(t)'
   BY <2>4 DEF GetSessionFromToken, LogoutSession, Without
 <2>5. ASSUME NEW u \in Tokens, RefreshSession(u) PROVE ~Opens(t)' BY <2>5 DEF RefreshSession, Refreshable
 <2>6. CASE Restart BY <2>6 DEF Restart, Empty
 <2> QED BY <2>1, <2>2, <2>3, <2>4, <2>5, <2>6 DEF Next
<1>2. Init => TypeOK BY InitInv DEF Inv
<1> QED BY <1>1, <1>2, StepType, PTL DEF Spec, TokensDie

\* The autonomy routes.
RiskLevels == {"low", "medium", "high", "critical"}

\* A gate event was weighed as the gate weighs.
GateFits(g) ==
  /\ g.level \in Levels /\ g.risk \in RiskLevels
  /\ g.confidence \in 0..100 /\ g.value \in Nat /\ g.preferences \in Preferences
  /\ g.status = Gate(g.level, g.risk, g.confidence, g.value, g.preferences)

Written(c, kind) == \E q \in records : q.call = c /\ q.row = kind

GateTells(c, status) ==
  \E g \in gates : g.call = c /\ (Allowed(g.status) <=> status = "approved")

\* What a request under way has read is sound, and the rows before the one
\* it writes next are there.
TaskFits(t) ==
  /\ t.step = "write_config" =>
       t.next.level \in Levels /\ t.next.preferences \in Preferences /\ t.given \in Preferences
  /\ t.step = "summary" => t.level \in Levels
  /\ t.step = "insert_gate" => GateFits(t.row)
  /\ t.step \in {"decision", "gate"} =>
       GateFits(t.row) /\ t.status = PolicyStatus(t.row.status)
  /\ t.step = "decision" => t.confidence \in 0..100

RowsFit(c, t) ==
  /\ t.step \in {"decision", "gate"} => t.row.call = c
  /\ t.step \in {"gate", "narrative", "receipt", "memory_usage"} => Written(c, "decision")
  /\ t.step \in {"narrative", "receipt", "memory_usage"} => GateTells(c, t.status)
  /\ t.step \in {"receipt", "memory_usage"} => Written(c, "narrative")
  /\ t.step = "memory_usage" => Written(c, "receipt")
  /\ t.step \in {"reflection_receipt", "memory", "anchor", "sidecar"} => Written(c, "reflection")
  /\ t.step \in {"anchor", "sidecar"} => Written(c, "memory")

RecordFits(r) ==
  /\ r.row = "decision" => r.confidence \in 0..100
  /\ r.row = "receipt" =>
       Written(r.call, "decision") /\ Written(r.call, "narrative") /\ GateTells(r.call, r.status)
  /\ r.row = "memory_usage" => Written(r.call, "receipt")
  /\ r.row = "reflection_receipt" => Written(r.call, "reflection")
  /\ r.row = "sidecar" => Written(r.call, "memory")

\* What is merged into the configuration, while no two writes overlap, is
\* merged into the one there still is.
MergesFit(c) ==
  LET t == autonomyCalls[c] IN
  t.step = "write_config" =>
    t.next.preferences = [manual |-> Given(t.given.manual, config.preferences.manual),
                          limit |-> Given(t.given.limit, config.preferences.limit)]

AutonomyTables ==
  /\ DOMAIN autonomyCalls = AutonomyCalls
  /\ config.level \in Levels /\ config.preferences \in Preferences
  /\ IsFiniteSet(records) /\ IsFiniteSet(gates)

PreferencesHold ==
  ~clashed => config.preferences = chosen /\ \A c \in AutonomyCalls : MergesFit(c)

AutonomyInv ==
  /\ AutonomyTables
  /\ \A g \in gates : GateFits(g)
  /\ \A r \in records : RecordFits(r)
  /\ \A c \in AutonomyCalls : TaskFits(autonomyCalls[c]) /\ RowsFit(c, autonomyCalls[c])
  /\ PreferencesHold

\* The places of the levels and the risks.
LEMMA LevelPlaces ==
  /\ DOMAIN Spectrum = 1..7
  /\ \A level \in Levels : Rank(level) \in 1..7 /\ Spectrum[Rank(level)] = level
<1>1. DOMAIN Spectrum = 1..7 BY DEF Spectrum
<1>2. ASSUME NEW level \in Levels
      PROVE  Rank(level) \in 1..7 /\ Spectrum[Rank(level)] = level BY <1>1 DEF Levels, Rank
<1> QED BY <1>1, <1>2

LEMMA LevelOrder ==
  ASSUME NEW a \in Levels, NEW b \in Levels, Rank(a) <= Rank(b)
  PROVE  /\ NeedsSignature(b) => NeedsSignature(a)
         /\ NeedsHuman(b) => NeedsHuman(a)
<1>1. /\ Rank(a) \in 1..7 /\ Spectrum[Rank(a)] = a
      /\ Rank(b) \in 1..7 /\ Spectrum[Rank(b)] = b
  BY LevelPlaces
<1> DEFINE i == Rank(a)
           j == Rank(b)
<1>2. i \in 1..7 /\ j \in 1..7 /\ i <= j /\ Spectrum[i] = a /\ Spectrum[j] = b BY <1>1
<1> HIDE DEF i, j
<1>3. /\ b = "automation_only" => j = 1
      /\ b = "assisted" => j = 2
      /\ b = "guided" => j = 3
  BY <1>2 DEF Spectrum
<1>4. /\ i = 1 => a = "automation_only"
      /\ i = 2 => a = "assisted"
      /\ i = 3 => a = "guided"
  BY <1>2 DEF Spectrum
<1>5. /\ j = 1 => i = 1
      /\ j = 2 => i \in {1, 2}
      /\ j = 3 => i \in {1, 2, 3}
  BY <1>2
<1> QED BY <1>3, <1>4, <1>5 DEF NeedsSignature, NeedsHuman

LEMMA RiskOrder ==
  ASSUME NEW a \in RiskLevels, NEW b \in RiskLevels, RiskRank(b) <= RiskRank(a)
  PROVE  (b = "critical" => a = "critical") /\ (a = "low" => b = "low")
<1>1. DOMAIN Risks = 1..4 /\ \A x \in RiskLevels : \E i \in 1..4 : Risks[i] = x BY DEF Risks, RiskLevels
<1> DEFINE i == RiskRank(a)
           j == RiskRank(b)
<1>2. i \in 1..4 /\ j \in 1..4 /\ Risks[i] = a /\ Risks[j] = b BY <1>1 DEF RiskRank
<1>3. j <= i OBVIOUS
<1> HIDE DEF i, j
<1>4. (b = "critical" => j = 4) /\ (a = "low" => i = 1) BY <1>2 DEF Risks
<1>5. (j = 4 => i = 4) /\ (i = 1 => j = 1) BY <1>2, <1>3
<1>6. (i = 4 => a = "critical") /\ (j = 1 => b = "low") BY <1>2 DEF Risks
<1> QED BY <1>4, <1>5, <1>6

\* What the gate lets pass it lets pass to those who may do more.
LEMMA GateIsMonotone ==
  ASSUME NEW g, NEW h, GateFits(g), GateFits(h), Allowed(g.status),
         g.preferences = h.preferences,
         Rank(g.level) <= Rank(h.level), RiskRank(h.risk) <= RiskRank(g.risk),
         h.value <= g.value, g.confidence <= h.confidence
  PROVE  Allowed(h.status)
<1> DEFINE p == g.preferences
<1>1. /\ g.level \in Levels /\ h.level \in Levels /\ g.risk \in RiskLevels /\ h.risk \in RiskLevels
      /\ g.confidence \in 0..100 /\ h.confidence \in 0..100 /\ g.value \in Nat /\ h.value \in Nat
      /\ p \in Preferences
      /\ g.status = Gate(g.level, g.risk, g.confidence, g.value, p)
      /\ h.status = Gate(h.level, h.risk, h.confidence, h.value, p)
  BY DEF GateFits
<1>2. /\ NeedsSignature(h.level) => NeedsSignature(g.level)
      /\ NeedsHuman(h.level) => NeedsHuman(g.level)
  BY <1>1, LevelOrder
<1>3. (h.risk = "critical" => g.risk = "critical") /\ (g.risk = "low" => h.risk = "low") BY <1>1, RiskOrder
<1>4. /\ p.manual # TRUE
      /\ ~SignatureRequired(g.level, g.value, p)
      /\ ~LowConfidence(g.risk, g.confidence)
      /\ ~(NeedsHuman(g.level) /\ g.risk # "low")
  BY <1>1 DEF Gate, Allowed
<1>5. ~SignatureRequired(h.level, h.value, p) BY <1>1, <1>2, <1>4 DEF Preferences, SignatureRequired
<1>6. ~LowConfidence(h.risk, h.confidence) BY <1>1, <1>3, <1>4 DEF LowConfidence
<1>7. ~(NeedsHuman(h.level) /\ h.risk # "low") BY <1>2, <1>3, <1>4
<1> QED BY <1>1, <1>4, <1>5, <1>6, <1>7 DEF Gate, Allowed

LEMMA InitAutonomy == AutonomyInit => AutonomyInv
<1> SUFFICES ASSUME AutonomyInit PROVE AutonomyInv OBVIOUS
<1>1. "meaningful_agency" \in Levels BY DEF Levels, Spectrum
<1>2. NoPreferences \in Preferences BY DEF NoPreferences, Preferences
<1>3. AutonomyTables BY <1>1, <1>2, FS_EmptySet DEF AutonomyInit, AutonomyTables, DefaultConfig
<1>4. \A c \in AutonomyCalls : autonomyCalls[c].step = "not_called" BY DEF AutonomyInit, NotCalled
<1>5. \A c \in AutonomyCalls : TaskFits(autonomyCalls[c]) /\ RowsFit(c, autonomyCalls[c])
  BY <1>4 DEF TaskFits, RowsFit
<1>6. PreferencesHold BY <1>4 DEF PreferencesHold, MergesFit, AutonomyInit, DefaultConfig
<1> QED BY <1>3, <1>5, <1>6 DEF AutonomyInv, AutonomyInit

\* A request moves on: what is written is only more, and the others keep
\* what they rest on.
LEMMA TaskMoves ==
  ASSUME AutonomyInv, NEW c \in AutonomyCalls, NEW t,
         autonomyCalls' = [autonomyCalls EXCEPT ![c] = t],
         TaskFits(t), RowsFit(c, t)',
         records \subseteq records', gates \subseteq gates',
         IsFiniteSet(records'), IsFiniteSet(gates'),
         \A g \in gates' \ gates : GateFits(g),
         \A r \in records' \ records : RecordFits(r)',
         config'.level \in Levels, config'.preferences \in Preferences,
         PreferencesHold'
  PROVE  AutonomyInv'
<1>1. DOMAIN autonomyCalls = AutonomyCalls BY DEF AutonomyInv, AutonomyTables
<1>2. AutonomyTables' BY <1>1 DEF AutonomyTables
<1>3. /\ \A d, kind : Written(d, kind) => Written(d, kind)'
      /\ \A d, status : GateTells(d, status) => GateTells(d, status)'
  BY DEF Written, GateTells
<1>4. \A g \in gates' : GateFits(g) BY DEF AutonomyInv
<1>5. \A r \in records' : RecordFits(r)'
 <2>1. ASSUME NEW r \in records PROVE RecordFits(r)' BY <1>3 DEF AutonomyInv, RecordFits
 <2> QED BY <2>1
<1>6. ASSUME NEW d \in AutonomyCalls
      PROVE  TaskFits(autonomyCalls'[d]) /\ RowsFit(d, autonomyCalls[d])'
 <2>1. CASE d = c BY <1>1, <2>1
 <2>2. CASE d # c
  <3>1. autonomyCalls'[d] = autonomyCalls[d] BY <1>1, <2>2
  <3>2. PICK u : u = autonomyCalls[d] OBVIOUS
  <3>3. TaskFits(u) /\ RowsFit(d, u) BY <3>2 DEF AutonomyInv
  <3>4. RowsFit(d, u)' BY <1>3, <3>3 DEF RowsFit
  <3>5. autonomyCalls'[d] = u BY <3>1, <3>2
  <3> QED BY <3>3, <3>4, <3>5
 <2> QED BY <2>1, <2>2
<1>7. \A d \in AutonomyCalls : TaskFits(autonomyCalls[d])' /\ RowsFit(d, autonomyCalls[d])' BY <1>6 DEF TaskFits
<1>8. \A g \in gates' : GateFits(g)' BY <1>4 DEF GateFits
<1> QED BY <1>2, <1>5, <1>7, <1>8 DEF AutonomyInv

\* A step that writes no configuration, and none to be written.
LEMMA PreferencesKept ==
  ASSUME AutonomyInv, NEW c \in AutonomyCalls, NEW t, t.step # "write_config",
         autonomyCalls' = [autonomyCalls EXCEPT ![c] = t],
         config' = config, chosen' = chosen, clashed' = clashed
  PROVE  PreferencesHold' /\ config'.level \in Levels /\ config'.preferences \in Preferences
<1>1. DOMAIN autonomyCalls = AutonomyCalls BY DEF AutonomyInv, AutonomyTables
<1>2. config'.level \in Levels /\ config'.preferences \in Preferences BY DEF AutonomyInv, AutonomyTables
<1>3. ASSUME ~clashed PROVE config' = config /\ config'.preferences = chosen' BY <1>3 DEF AutonomyInv, PreferencesHold
<1>4. ASSUME ~clashed, NEW d \in AutonomyCalls PROVE MergesFit(d)'
 <2>1. MergesFit(d) BY <1>4 DEF AutonomyInv, PreferencesHold
 <2>2. CASE d = c BY <1>1, <2>2 DEF MergesFit
 <2>3. CASE d # c BY <1>1, <2>3, <2>1 DEF MergesFit
 <2> QED BY <2>2, <2>3
<1> QED BY <1>2, <1>3, <1>4 DEF PreferencesHold

\* A step that only moves its request on.
LEMMA OnlyMoves ==
  ASSUME AutonomyInv, NEW c \in AutonomyCalls, NEW t, t.step # "write_config",
         autonomyCalls' = [autonomyCalls EXCEPT ![c] = t], TaskFits(t), RowsFit(c, t),
         UNCHANGED <<config, gates, records, chosen, clashed>>
  PROVE  AutonomyInv'
<1>1. PreferencesHold' /\ config'.level \in Levels /\ config'.preferences \in Preferences BY PreferencesKept
<1>2. RowsFit(c, t)' BY DEF RowsFit, Written, GateTells
<1>3. IsFiniteSet(records') /\ IsFiniteSet(gates') BY DEF AutonomyInv, AutonomyTables
<1> QED BY <1>1, <1>2, <1>3, TaskMoves

LEMMA PreferenceTypes ==
  ASSUME NEW a \in Preferences, NEW b \in Preferences
  PROVE  [manual |-> Given(a.manual, b.manual), limit |-> Given(a.limit, b.limit)] \in Preferences
BY DEF Preferences, Given

\* The configuration that is read and merged.
LEMMA ConfigurationRead ==
  ASSUME AutonomyInv, NEW c \in AutonomyCalls, NEW input,
         input.level \in Levels \cup {Unset}, input.preferences \in Preferences,
         autonomyCalls' = [autonomyCalls EXCEPT ![c] = ReadForUpsert(input)],
         UNCHANGED <<config, gates, records, chosen, clashed>>
  PROVE  AutonomyInv'
<1>1. PICK t : t = ReadForUpsert(input) OBVIOUS
<1>2. config.level \in Levels /\ config.preferences \in Preferences /\ DOMAIN autonomyCalls = AutonomyCalls
  BY DEF AutonomyInv, AutonomyTables
<1>3. /\ t.step = "write_config" /\ t.given = input.preferences
      /\ t.next.level = Given(input.level, config.level)
      /\ t.next.preferences = Merged(input)
  BY <1>1 DEF ReadForUpsert
<1>4. TaskFits(t) BY <1>2, <1>3, PreferenceTypes DEF Given, Merged, TaskFits
<1>5. RowsFit(c, t)' BY <1>3 DEF RowsFit
<1>6. autonomyCalls' = [autonomyCalls EXCEPT ![c] = t] BY <1>1
<1>7. PreferencesHold'
 <2>1. ASSUME ~clashed PROVE config'.preferences = chosen' BY <2>1 DEF AutonomyInv, PreferencesHold
 <2>2. ASSUME ~clashed, NEW d \in AutonomyCalls PROVE MergesFit(d)'
  <3>1. MergesFit(d) BY <2>2 DEF AutonomyInv, PreferencesHold
  <3>2. CASE d = c BY <1>2, <1>6, <3>2, <1>3 DEF MergesFit, Merged
  <3>3. CASE d # c BY <1>2, <1>6, <3>3, <3>1 DEF MergesFit
  <3> QED BY <3>2, <3>3
 <2> QED BY <2>1, <2>2 DEF PreferencesHold
<1>8. IsFiniteSet(records') /\ IsFiniteSet(gates') BY DEF AutonomyInv, AutonomyTables
<1> QED BY <1>2, <1>4, <1>5, <1>6, <1>7, <1>8, TaskMoves

LEMMA ConfigureKeeps ==
  ASSUME AutonomyInv, NEW c \in AutonomyCalls, NEW input \in Configurations, Configure(c, input)
  PROVE  AutonomyInv'
<1>1. input \in ConfigurationInput BY AutonomyAssumption DEF AutonomyAssumption
<1> DEFINE whole == [input EXCEPT !.level = LevelGiven(input)]
<1>2. /\ whole.preferences \in Preferences
      /\ whole.level = LevelGiven(input)
  BY <1>1 DEF ConfigurationInput
<1>3. LevelGiven(input) \in Levels \cup {Unset} BY <1>1 DEF Presets, Levels, Spectrum, LevelGiven, ConfigurationInput
<1>4. /\ autonomyCalls' = [autonomyCalls EXCEPT ![c] = ReadForUpsert(whole)]
      /\ UNCHANGED <<config, gates, records, chosen, clashed>>
  BY DEF Configure, Calls
<1> HIDE DEF whole
<1> QED BY <1>2, <1>3, <1>4, ConfigurationRead

LEMMA AnsweredFits ==
  ASSUME NEW c
  PROVE  /\ TaskFits(CallAnswered) /\ RowsFit(c, CallAnswered) /\ RowsFit(c, CallAnswered)'
         /\ CallAnswered.step = "answered"
BY DEF TaskFits, RowsFit, CallAnswered

\* A write over what was read before another write is one that clashed.
LEMMA ConfigWritten ==
  ASSUME AutonomyInv, NEW c \in AutonomyCalls, WriteConfig(c)
  PROVE  AutonomyInv'
<1> DEFINE t == autonomyCalls[c]
<1>1. /\ t.step = "write_config" /\ config' = t.next
      /\ chosen' = [manual |-> Given(t.given.manual, chosen.manual),
                    limit |-> Given(t.given.limit, chosen.limit)]
      /\ clashed' = (clashed \/ WritingConfig # {c})
      /\ autonomyCalls' = [autonomyCalls EXCEPT ![c] = CallAnswered]
      /\ UNCHANGED <<gates, records>>
  BY DEF WriteConfig, At, Now
<1>2. DOMAIN autonomyCalls = AutonomyCalls /\ IsFiniteSet(records) /\ IsFiniteSet(gates)
  BY DEF AutonomyInv, AutonomyTables
<1>3. config'.level \in Levels /\ config'.preferences \in Preferences BY <1>1 DEF AutonomyInv, TaskFits
<1>4. PreferencesHold'
 <2> SUFFICES ASSUME ~clashed' PROVE PreferencesHold' BY DEF PreferencesHold
 <2>1. ~clashed /\ WritingConfig = {c} BY <1>1
 <2>2. config.preferences = chosen /\ MergesFit(c) BY <2>1 DEF AutonomyInv, PreferencesHold
 <2>3. config'.preferences = chosen' BY <1>1, <2>2 DEF MergesFit
 <2>4. ASSUME NEW d \in AutonomyCalls PROVE MergesFit(d)'
  <3>1. autonomyCalls'[d].step # "write_config" BY <1>1, <1>2, <2>1 DEF CallAnswered, WritingConfig, At
  <3> QED BY <3>1 DEF MergesFit
 <2> QED BY <2>3, <2>4 DEF PreferencesHold
<1>5. TaskFits(CallAnswered) /\ RowsFit(c, CallAnswered)' BY AnsweredFits
<1>6. /\ records \subseteq records' /\ gates \subseteq gates'
      /\ IsFiniteSet(records') /\ IsFiniteSet(gates') /\ records' \ records = {} /\ gates' \ gates = {}
  BY <1>1, <1>2
<1>7. PICK a : a = CallAnswered OBVIOUS
<1>8. autonomyCalls' = [autonomyCalls EXCEPT ![c] = a] /\ TaskFits(a) /\ RowsFit(c, a)' BY <1>1, <1>5, <1>7
<1> QED BY <1>3, <1>4, <1>6, <1>8, TaskMoves

LEMMA GateWeighs ==
  ASSUME NEW c, NEW level \in Levels, NEW risk \in RiskLevels, NEW confidence \in 0..100,
         NEW value \in Nat, NEW preferences \in Preferences
  PROVE  LET g == GateRow(c, level, risk, confidence, value, preferences)
         IN  GateFits(g) /\ g.call = c
BY DEF GateRow, GateFits

LEMMA EvaluateKeeps ==
  ASSUME AutonomyInv, NEW c \in AutonomyCalls, NEW level \in AskedLevels \cup {Unset},
         NEW risk \in RiskLevels, NEW confidence \in Confidences, NEW value \in Values,
         Evaluate(c, level, risk, confidence, value)
  PROVE  AutonomyInv'
<1>1. PICK g : g = GateRow(c, Given(level, config.level), risk, confidence, value, config.preferences) OBVIOUS
<1>2. confidence \in 0..100 /\ value \in Nat /\ AskedLevels \subseteq Levels
  BY AutonomyAssumption DEF AutonomyAssumption
<1>3. config.level \in Levels /\ config.preferences \in Preferences BY DEF AutonomyInv, AutonomyTables
<1>4. Given(level, config.level) \in Levels BY <1>2, <1>3 DEF Given
<1>5. GateFits(g) BY <1>1, <1>2, <1>3, <1>4, GateWeighs
<1> DEFINE t == [step |-> "insert_gate", row |-> g]
<1>6. /\ autonomyCalls' = [autonomyCalls EXCEPT ![c] = t]
      /\ UNCHANGED <<config, gates, records, chosen, clashed>>
  BY <1>1 DEF Evaluate, Calls
<1>7. t.step # "write_config" /\ TaskFits(t) /\ RowsFit(c, t) BY <1>5 DEF TaskFits, RowsFit
<1> HIDE DEF t
<1> QED BY <1>6, <1>7, OnlyMoves

LEMMA GateInserted ==
  ASSUME AutonomyInv, NEW c \in AutonomyCalls, InsertGate(c)
  PROVE  AutonomyInv'
<1>1. /\ autonomyCalls[c].step = "insert_gate"
      /\ gates' = gates \cup {autonomyCalls[c].row}
      /\ autonomyCalls' = [autonomyCalls EXCEPT ![c] = CallAnswered]
      /\ UNCHANGED <<config, records, chosen, clashed>>
  BY DEF InsertGate, At, Now
<1>2. GateFits(autonomyCalls[c].row) BY <1>1 DEF AutonomyInv, TaskFits
<1>3. IsFiniteSet(records') /\ IsFiniteSet(gates') BY <1>1, FS_AddElement DEF AutonomyInv, AutonomyTables
<1>4. PICK a : a = CallAnswered OBVIOUS
<1>5. a.step # "write_config" /\ TaskFits(a) /\ RowsFit(c, a)' BY <1>4, AnsweredFits
<1>6. autonomyCalls' = [autonomyCalls EXCEPT ![c] = a] BY <1>1, <1>4
<1>7. PreferencesHold' /\ config'.level \in Levels /\ config'.preferences \in Preferences
  BY <1>1, <1>5, <1>6, PreferencesKept
<1>8. /\ records \subseteq records' /\ gates \subseteq gates' /\ records' \ records = {}
      /\ \A g \in gates' \ gates : GateFits(g)
  BY <1>1, <1>2
<1> QED BY <1>3, <1>5, <1>6, <1>7, <1>8, TaskMoves

LEMMA DecideKeeps ==
  ASSUME AutonomyInv, NEW c \in AutonomyCalls, NEW level \in AskedLevels, NEW risk \in RiskLevels,
         NEW confidence \in Confidences, NEW memory \in BOOLEAN,
         Decide(c, level, risk, confidence, memory)
  PROVE  AutonomyInv'
<1>0. PICK g : g = GateRow(c, level, risk, confidence, 0, NoPreferences) OBVIOUS
<1> DEFINE t == [step |-> "decision", memory |-> memory, row |-> g, confidence |-> confidence,
                 status |-> PolicyStatus(g.status)]
<1>1. confidence \in 0..100 /\ level \in Levels /\ NoPreferences \in Preferences
  BY AutonomyAssumption DEF AutonomyAssumption, NoPreferences, Preferences
<1>2. GateFits(g) /\ g.call = c BY <1>0, <1>1, 0 \in Nat, GateWeighs, ZenonT(30)
<1>3. /\ autonomyCalls' = [autonomyCalls EXCEPT ![c] = t]
      /\ UNCHANGED <<config, gates, records, chosen, clashed>>
  BY <1>0 DEF Decide, Calls
<1>4. t.step # "write_config" /\ TaskFits(t) /\ RowsFit(c, t) BY <1>1, <1>2 DEF TaskFits, RowsFit
<1> HIDE DEF t
<1> QED BY <1>3, <1>4, OnlyMoves

\* The rows that follow each other.
LEMMA RowOrder ==
  /\ StepAfter("decision") = "gate" /\ StepAfter("gate") = "narrative"
  /\ StepAfter("narrative") = "receipt" /\ StepAfter("receipt") = "memory_usage"
  /\ StepAfter("reflection") = "reflection_receipt" /\ StepAfter("reflection_receipt") = "memory"
  /\ StepAfter("memory") = "anchor" /\ StepAfter("anchor") = "sidecar"
<1> DEFINE D == RowsOfADecision
           R == RowsOfAReflection
<1>1. /\ Len(D) = 5 /\ DOMAIN D = 1..5
      /\ D[1] = "decision" /\ D[2] = "gate" /\ D[3] = "narrative" /\ D[4] = "receipt"
      /\ D[5] = "memory_usage"
  BY DEF RowsOfADecision
<1>2. /\ Len(R) = 5 /\ DOMAIN R = 1..5
      /\ R[1] = "reflection" /\ R[2] = "reflection_receipt" /\ R[3] = "memory" /\ R[4] = "anchor"
      /\ R[5] = "sidecar"
  BY DEF RowsOfAReflection
<1> HIDE DEF D, R
<1>3. ASSUME NEW k \in 1..4 PROVE StepAfter(D[k]) = D[k + 1] BY <1>1, <1>3 DEF Follows, StepAfter, D
<1>4. ASSUME NEW k \in 1..4 PROVE StepAfter(R[k]) = R[k + 1] BY <1>1, <1>2, <1>4 DEF Follows, StepAfter, D, R
<1>5. 1 + 1 = 2 /\ 2 + 1 = 3 /\ 3 + 1 = 4 /\ 4 + 1 = 5 /\ 1 \in 1..4 /\ 2 \in 1..4 /\ 3 \in 1..4 /\ 4 \in 1..4 OBVIOUS
<1>6. /\ StepAfter(D[1]) = D[2] /\ StepAfter(D[2]) = D[3] /\ StepAfter(D[3]) = D[4]
      /\ StepAfter(D[4]) = D[5]
  BY <1>3, <1>5
<1>7. /\ StepAfter(R[1]) = R[2] /\ StepAfter(R[2]) = R[3] /\ StepAfter(R[3]) = R[4]
      /\ StepAfter(R[4]) = R[5]
  BY <1>4, <1>5
<1> QED BY <1>1, <1>2, <1>6, <1>7

LEMMA RowNames ==
  RowSteps = {"decision", "gate", "narrative", "receipt", "memory_usage",
              "reflection", "reflection_receipt", "memory", "anchor", "sidecar", "given_receipt"}
<1> DEFINE D == RowsOfADecision
           R == RowsOfAReflection
<1>1. /\ D[1] = "decision" /\ D[2] = "gate" /\ D[3] = "narrative" /\ D[4] = "receipt"
      /\ D[5] = "memory_usage"
  BY DEF RowsOfADecision
<1>2. /\ R[1] = "reflection" /\ R[2] = "reflection_receipt" /\ R[3] = "memory" /\ R[4] = "anchor"
      /\ R[5] = "sidecar"
  BY DEF RowsOfAReflection
<1>3. 1..5 = {1, 2, 3, 4, 5} OBVIOUS
<1>4. RowSteps = {D[1], D[2], D[3], D[4], D[5]} \cup {R[1], R[2], R[3], R[4], R[5]} \cup {"given_receipt"}
  BY <1>3 DEF RowSteps, D, R
<1> QED BY <1>1, <1>2, <1>4

\* The next row of a request: it is one that has what it refers to, and
\* so will have the one after it.
LEMMA RowWritten ==
  ASSUME AutonomyInv, NEW c \in AutonomyCalls, WriteRow(c)
  PROVE  AutonomyInv'
<1>1. PICK t : t = autonomyCalls[c] OBVIOUS
<1>2. PICK r : r = [call |-> c, row |-> t.step, status |-> t.status, confidence |-> t.confidence] OBVIOUS
<1>3. /\ t.step \in RowSteps
      /\ records' = records \cup {r}
      /\ gates' = IF t.step = "gate" THEN gates \cup {t.row} ELSE gates
      /\ config' = config /\ chosen' = chosen /\ clashed' = clashed
  BY <1>1, <1>2 DEF WriteRow
<1>4. TaskFits(t) /\ RowsFit(c, t) BY <1>1 DEF AutonomyInv
<1>5. IsFiniteSet(records') /\ IsFiniteSet(gates') BY <1>3, FS_AddElement DEF AutonomyInv, AutonomyTables
<1>6. /\ \A d, kind : Written(d, kind) => Written(d, kind)'
      /\ \A d, status : GateTells(d, status) => GateTells(d, status)'
      /\ Written(c, t.step)' BY <1>2, <1>3 DEF Written, GateTells
<1>7. /\ r.call = c /\ r.row = t.step /\ r.status = t.status /\ r.confidence = t.confidence
      /\ t.status' = t.status /\ c' = c
  BY <1>2
<1>8. RecordFits(r)' BY <1>4, <1>7, <1>6 DEF TaskFits, RowsFit, RecordFits
<1>9. \A g \in gates' \ gates : GateFits(g) BY <1>3, <1>4 DEF TaskFits
<1>10. t.step = "gate" => GateTells(c, t.status)'
 <2> SUFFICES ASSUME t.step = "gate" PROVE GateTells(c, t.status)' OBVIOUS
 <2>1. t.row \in gates' /\ t.row.call = c /\ t.status = PolicyStatus(t.row.status) BY <1>3, <1>4 DEF TaskFits, RowsFit
 <2>2. Allowed(t.row.status) <=> t.status = "approved" BY <2>1 DEF PolicyStatus
 <2> QED BY <2>1, <2>2 DEF GateTells
<1> DEFINE over == t.step \in {"memory_usage", "sidecar", "given_receipt"} \/ (t.step = "receipt" /\ ~t.memory)
<1>11. PICK u : u = IF over THEN CallAnswered ELSE [t EXCEPT !.step = StepAfter(t.step)] OBVIOUS
<1>12. autonomyCalls' = [autonomyCalls EXCEPT ![c] = u] BY <1>1, <1>11 DEF WriteRow, Now
<1>13. u.step # "write_config" /\ TaskFits(u) /\ RowsFit(c, u)'
 <2>1. CASE over BY <1>11, <2>1, AnsweredFits
 <2>2. CASE ~over
  <3>1. u = [t EXCEPT !.step = StepAfter(t.step)] BY <1>11, <2>2
  <3>2. /\ t.step \in {"decision", "gate", "narrative", "receipt", "reflection", "reflection_receipt",
                       "memory", "anchor"}
    BY <1>3, <2>2, RowNames
  <3>3. t.step = "decision" \/ t.step # "decision" OBVIOUS
  <3>4. /\ u.step = StepAfter(t.step)
        /\ t.step \in {"decision", "gate", "narrative", "receipt"} => u.status = t.status
        /\ t.step = "decision" => u.row = t.row
    BY <1>4, <3>1, <3>2
  <3>5. TaskFits(u) /\ u.step # "write_config" BY <1>4, <3>2, <3>4, RowOrder DEF TaskFits
  <3>6. RowsFit(c, u)' BY <1>4, <1>6, <1>10, <3>2, <3>4, RowOrder DEF RowsFit
  <3> QED BY <3>5, <3>6
 <2> QED BY <2>1, <2>2
<1>14. PreferencesHold' /\ config'.level \in Levels /\ config'.preferences \in Preferences
  BY <1>3, <1>12, <1>13, PreferencesKept
<1>15. /\ records \subseteq records' /\ gates \subseteq gates'
       /\ \A q \in records' \ records : RecordFits(q)'
  BY <1>3, <1>8
<1> QED BY <1>5, <1>9, <1>12, <1>13, <1>14, <1>15, TaskMoves

LEMMA ReflectKeeps ==
  ASSUME AutonomyInv, NEW c \in AutonomyCalls, NEW blocked \in BOOLEAN, Reflect(c, blocked)
  PROVE  AutonomyInv'
<1> DEFINE t == [step |-> "reflection", memory |-> TRUE, confidence |-> 0,
                 status |-> IF blocked THEN "blocked" ELSE "approved"]
<1>1. /\ autonomyCalls' = [autonomyCalls EXCEPT ![c] = t]
      /\ UNCHANGED <<config, gates, records, chosen, clashed>>
  BY DEF Reflect, Calls
<1>2. t.step # "write_config" /\ TaskFits(t) /\ RowsFit(c, t) BY DEF TaskFits, RowsFit
<1> HIDE DEF t
<1> QED BY <1>1, <1>2, OnlyMoves

LEMMA GiveReceiptKeeps ==
  ASSUME AutonomyInv, NEW c \in AutonomyCalls, NEW status, GiveReceipt(c, status)
  PROVE  AutonomyInv'
<1> DEFINE t == [step |-> "given_receipt", memory |-> FALSE, confidence |-> 0, status |-> status]
<1>1. /\ autonomyCalls' = [autonomyCalls EXCEPT ![c] = t]
      /\ UNCHANGED <<config, gates, records, chosen, clashed>>
  BY DEF GiveReceipt, Calls
<1>2. t.step # "write_config" /\ TaskFits(t) /\ RowsFit(c, t) BY DEF TaskFits, RowsFit
<1> HIDE DEF t
<1> QED BY <1>1, <1>2, OnlyMoves

LEMMA MirrorFailsKeeps ==
  ASSUME AutonomyInv, NEW c \in AutonomyCalls, MirrorFails(c)
  PROVE  AutonomyInv'
<1>1. PICK t : t = autonomyCalls[c] OBVIOUS
<1>2. PICK u : u = WithoutMirror(c) OBVIOUS
<1>3. /\ autonomyCalls' = [autonomyCalls EXCEPT ![c] = u]
      /\ UNCHANGED <<config, gates, records, chosen, clashed>>
  BY <1>2 DEF MirrorFails, Now
<1>4. TaskFits(t) /\ RowsFit(c, t) BY <1>1 DEF AutonomyInv
<1>5. u.step # "write_config" /\ TaskFits(u) /\ RowsFit(c, u)
 <2>1. CASE t.step = "anchor"
  <3>1. u = [t EXCEPT !.step = "sidecar"] BY <1>1, <1>2, <2>1 DEF WithoutMirror, At
  <3>2. u.step = "sidecar" BY <3>1, <2>1
  <3> QED BY <1>4, <2>1, <3>2 DEF TaskFits, RowsFit
 <2>2. CASE t.step # "anchor" BY <1>1, <1>2, <2>2, AnsweredFits DEF WithoutMirror, At
 <2> QED BY <2>1, <2>2
<1> QED BY <1>3, <1>5, OnlyMoves

LEMMA DemoRunKeeps ==
  ASSUME AutonomyInv, NEW c \in AutonomyCalls, DemoRun(c)
  PROVE  AutonomyInv'
<1>1. PICK level : level = NextAutonomyLevel(config.level) OBVIOUS
<1> DEFINE t == [step |-> "summary", level |-> level]
<1>2. /\ autonomyCalls' = [autonomyCalls EXCEPT ![c] = t]
      /\ UNCHANGED <<config, gates, records, chosen, clashed>>
  BY <1>1 DEF DemoRun, Calls
<1>3. level \in Levels
 <2>1. config.level \in Levels BY DEF AutonomyInv, AutonomyTables
 <2>2. Rank(config.level) \in 1..7 /\ DOMAIN Spectrum = 1..7 BY <2>1, LevelPlaces
 <2>3. Len(Spectrum) = 7 BY DEF Spectrum
 <2>4. (IF Rank(config.level) < 7 THEN Rank(config.level) + 1 ELSE 7) \in 1..7 BY <2>2
 <2> QED BY <1>1, <2>2, <2>3, <2>4 DEF NextAutonomyLevel, Levels
<1>4. t.step # "write_config" /\ TaskFits(t) /\ RowsFit(c, t) BY <1>3 DEF TaskFits, RowsFit
<1> HIDE DEF t
<1> QED BY <1>2, <1>4, OnlyMoves

LEMMA SummaryWritten ==
  ASSUME AutonomyInv, NEW c \in AutonomyCalls, WriteSummary(c)
  PROVE  AutonomyInv'
<1>1. PICK level : level = autonomyCalls[c].level OBVIOUS
<1>2. PICK input : input = [mode |-> ModeOf(level), level |-> level, preferences |-> NoPreferences] OBVIOUS
<1>3. /\ autonomyCalls' = [autonomyCalls EXCEPT ![c] = ReadForUpsert(input)]
      /\ UNCHANGED <<config, gates, records, chosen, clashed>>
      /\ autonomyCalls[c].step = "summary"
  BY <1>1, <1>2 DEF WriteSummary, Now, At
<1>4. level \in Levels BY <1>1, <1>3 DEF AutonomyInv, TaskFits
<1>5. input.level \in Levels \cup {Unset} /\ input.preferences \in Preferences
  BY <1>2, <1>4 DEF NoPreferences, Preferences
<1> QED BY <1>3, <1>5, ConfigurationRead

LEMMA DatabaseFailsKeeps ==
  ASSUME AutonomyInv, NEW c \in AutonomyCalls, DatabaseFails(c)
  PROVE  AutonomyInv'
<1>1. PICK a : a = CallAnswered OBVIOUS
<1>2. /\ autonomyCalls' = [autonomyCalls EXCEPT ![c] = a]
      /\ UNCHANGED <<config, gates, records, chosen, clashed>>
  BY <1>1 DEF DatabaseFails, Now
<1>3. a.step # "write_config" /\ TaskFits(a) /\ RowsFit(c, a) BY <1>1, AnsweredFits
<1> QED BY <1>2, <1>3, OnlyMoves

LEMMA StepAutonomy == AutonomyInv /\ [AutonomyNext]_autonomyVars => AutonomyInv'
<1>1. ASSUME AutonomyInv, UNCHANGED autonomyVars PROVE AutonomyInv'
  BY <1>1 DEF AutonomyInv, autonomyVars, AutonomyTables, GateFits, RecordFits, TaskFits, RowsFit,
              PreferencesHold, MergesFit, Written, GateTells
<1>2. ASSUME AutonomyInv, AutonomyNext PROVE AutonomyInv'
 <2>1. PICK c \in AutonomyCalls :
         \/ \E input \in Configurations : Configure(c, input)
         \/ WriteConfig(c)
         \/ \E risk \in {"low", "high", "critical"}, confidence \in Confidences :
               \/ \E level \in AskedLevels \cup {Unset}, value \in Values :
                     Evaluate(c, level, risk, confidence, value)
               \/ \E level \in AskedLevels, memory \in BOOLEAN :
                     Decide(c, level, risk, confidence, memory)
         \/ InsertGate(c)
         \/ WriteRow(c)
         \/ \E blocked \in BOOLEAN : Reflect(c, blocked)
         \/ \E status \in {"approved", "needs_review"} : GiveReceipt(c, status)
         \/ MirrorFails(c)
         \/ DemoRun(c)
         \/ WriteSummary(c)
         \/ DatabaseFails(c)
   BY <1>2, Zenon DEF AutonomyNext
 <2>2. CASE \E input \in Configurations : Configure(c, input) BY <1>2, <2>2, ConfigureKeeps
 <2>3. CASE \E risk \in {"low", "high", "critical"}, confidence \in Confidences :
               \/ \E level \in AskedLevels \cup {Unset}, value \in Values :
                     Evaluate(c, level, risk, confidence, value)
               \/ \E level \in AskedLevels, memory \in BOOLEAN :
                     Decide(c, level, risk, confidence, memory)
  <3>1. PICK risk \in {"low", "high", "critical"}, confidence \in Confidences :
              \/ \E level \in AskedLevels \cup {Unset}, value \in Values :
                    Evaluate(c, level, risk, confidence, value)
              \/ \E level \in AskedLevels, memory \in BOOLEAN :
                    Decide(c, level, risk, confidence, memory)
    BY <2>3, Zenon
  <3>2. risk \in RiskLevels BY DEF RiskLevels
  <3>3. CASE \E level \in AskedLevels \cup {Unset}, value \in Values :
                    Evaluate(c, level, risk, confidence, value)
    BY <1>2, <3>2, <3>3, EvaluateKeeps, Zenon
  <3>4. CASE \E level \in AskedLevels, memory \in BOOLEAN :
                    Decide(c, level, risk, confidence, memory)
    BY <1>2, <3>2, <3>4, DecideKeeps, Zenon
  <3> QED BY <3>1, <3>3, <3>4
 <2>4. CASE \E blocked \in BOOLEAN : Reflect(c, blocked) BY <1>2, <2>4, ReflectKeeps, Zenon
 <2>5. CASE \E status \in {"approved", "needs_review"} : GiveReceipt(c, status) BY <1>2, <2>5, GiveReceiptKeeps, Zenon
 <2> QED
   BY <1>2, <2>1, <2>2, <2>3, <2>4, <2>5, ConfigWritten, GateInserted, RowWritten, MirrorFailsKeeps,
      DemoRunKeeps, SummaryWritten, DatabaseFailsKeeps, Zenon
<1> QED BY <1>1, <1>2

\* A rate is a percentage, and none of an empty whole.
LEMMA RateIsPercent ==
  ASSUME NEW whole, IsFiniteSet(whole), NEW some \in SUBSET whole
  PROVE  /\ Rate(some, whole) \in 0..100
         /\ Cardinality(some) = 0 => Rate(some, whole) = 0
<1> DEFINE p == Cardinality(some)
           w == Cardinality(whole)
<1>1. p \in Nat /\ w \in Nat /\ p <= w BY FS_Subset, FS_CardinalityType
<1>2. CASE whole = {} BY <1>2 DEF Rate
<1>3. CASE whole # {}
 <2>1. w # 0 BY <1>3, FS_EmptySet
 <2> HIDE DEF p, w
 <2>2. 2 * w \in Nat \ {0} /\ 200 * p + w \in Nat BY <1>1, <2>1
 <2>3. PICK q : q = (200 * p + w) \div (2 * w) OBVIOUS
 <2>4. q \in Nat /\ (2 * w) * q <= 200 * p + w BY <2>2, <2>3, SMTT(30)
 <2>5. q <= 100
  <3> SUFFICES ASSUME q >= 101 PROVE FALSE BY <2>4
  <3>1. (2 * w) * 101 <= (2 * w) * q BY <2>2, <2>4, SMTT(30)
  <3> QED BY <1>1, <2>1, <2>4, <3>1
 <2>6. p = 0 => q = 0
  <3> SUFFICES ASSUME p = 0, q >= 1 PROVE FALSE BY <2>4
  <3>1. (2 * w) * 1 <= (2 * w) * q BY <2>2, <2>4, SMTT(30)
  <3> QED BY <1>1, <2>1, <2>4, <3>1
 <2> QED BY <1>3, <2>3, <2>4, <2>5, <2>6 DEF Rate, p, w
<1> QED BY <1>2, <1>3

\* A sum of percentages.
LEMMA SumOfPercents ==
  ASSUME NEW S, IsFiniteSet(S), NEW f, DOMAIN f = S, \A x \in S : f[x] \in 0..100
  PROVE  SumFunction(f) \in Nat /\ SumFunction(f) <= 100 * Cardinality(S)
<1>1. SumFunction(f) = SumFunctionOnSet(f, S) BY DEF SumFunction
<1>2. \A x \in S : f[x] \in Nat OBVIOUS
<1> DEFINE Bounded(T) == SumFunctionOnSet(f, T) <= 100 * Cardinality(T)
           F == {T \in SUBSET S : Bounded(T)}
<1>3. {} \in F BY SumOfNone, FS_EmptySet
<1>4. ASSUME NEW T \in SUBSET S, NEW x \in S \ T, T \in F PROVE T \cup {x} \in F
 <2>1. IsFiniteSet(T) /\ Cardinality(T) \in Nat BY FS_Subset, FS_CardinalityType
 <2>2. Cardinality(T \cup {x}) = Cardinality(T) + 1 BY <2>1, FS_AddElement
 <2>3. SumFunctionOnSet(f, T) \in Nat BY <1>2, <2>1, SumIsNat
 <2>4. SumFunctionOnSet(f, T \cup {x}) = f[x] + SumFunctionOnSet(f, T) BY <1>2, <2>1, SumWith
 <2>5. Bounded(T) /\ f[x] \in 0..100 BY <1>4
 <2>6. Bounded(T \cup {x}) BY <2>1, <2>2, <2>3, <2>4, <2>5
 <2> QED BY <2>6
<1> HIDE DEF F
<1>5. S \in F BY <1>3, <1>4, FiniteSetInduction
<1>6. SumFunctionOnSet(f, S) \in Nat BY <1>2, SumIsNat
<1> QED BY <1>1, <1>5, <1>6 DEF F

LEMMA MeanIsPercent ==
  ASSUME NEW n \in Nat, n # 0, NEW total \in Nat, total <= 100 * n
  PROVE  (2 * total + n) \div (2 * n) \in 0..100
<1>1. 2 * n \in Nat \ {0} /\ 2 * total + n \in Nat OBVIOUS
<1>2. PICK q : q = (2 * total + n) \div (2 * n) OBVIOUS
<1>3. q \in Nat /\ (2 * n) * q <= 2 * total + n BY <1>1, <1>2, SMTT(30)
<1>4. q <= 100
 <2> SUFFICES ASSUME q >= 101 PROVE FALSE BY <1>3
 <2>1. (2 * n) * 101 <= (2 * n) * q BY <1>1, <1>3, SMTT(30)
 <2> QED BY <1>3, <2>1
<1> QED BY <1>2, <1>3, <1>4

\* What the figures are at most, and without what they are nothing.
LEMMA FiguresRest ==
  ASSUME AutonomyInv, NEW improved \in SUBSET RowsOf("reflection"),
         NEW m, m = AutonomyMetrics(improved)
  PROVE  /\ m.decisionCoverage \in Nat /\ m.manualOverrideRate = 0
         /\ m.policyBlockRate \in 0..100 /\ m.memoryReuseRate \in 0..100
         /\ m.reflectionReuseRate \in 0..100 /\ m.retrySuccessRate = m.reflectionReuseRate
         /\ m.proofCompletionRate \in 0..100 /\ m.executionAutonomyScore \in 0..100
         /\ RowsOf("decision") = {} => m.decisionCoverage = 0 /\ m.executionAutonomyScore = 0
         /\ improved = {} => m.reflectionReuseRate = 0
         /\ ReceiptRows = {} => m.proofCompletionRate = 0
         /\ RowsOf("memory_usage") = {} => m.memoryReuseRate = 0
<1> DEFINE decisions == RowsOf("decision")
           proofs == ReceiptRows
           usage == RowsOf("memory_usage")
           reflections == RowsOf("reflection")
           blocked == {g \in gates : g.status = "blocked"}
           n == Cardinality(decisions)
           f == [d \in decisions |-> d.confidence]
<1>1. IsFiniteSet(records) /\ IsFiniteSet(gates) BY DEF AutonomyInv, AutonomyTables
<1>2. \A kind : IsFiniteSet(RowsOf(kind)) BY <1>1, FS_Subset DEF RowsOf
<1>3. IsFiniteSet(proofs) BY <1>2, FS_Union DEF ReceiptRows
<1>4. /\ m.decisionCoverage = n /\ m.manualOverrideRate = 0
      /\ m.policyBlockRate = Rate(blocked, gates)
      /\ m.memoryReuseRate = Rate(usage, usage)
      /\ m.reflectionReuseRate = Rate(improved, reflections)
      /\ m.retrySuccessRate = Rate(improved, reflections)
      /\ m.proofCompletionRate = Rate(proofs, proofs)
      /\ m.executionAutonomyScore = IF n = 0 THEN 0 ELSE (2 * SumFunction(f) + n) \div (2 * n)
  BY DEF AutonomyMetrics
<1>5. n \in Nat /\ (decisions = {} => n = 0) BY <1>2, FS_CardinalityType, FS_EmptySet
<1>6. DOMAIN f = decisions /\ \A d \in decisions : f[d] \in 0..100 BY DEF RowsOf, AutonomyInv, RecordFits
<1>7. blocked \subseteq gates /\ improved \subseteq reflections OBVIOUS
<1>8. IsFiniteSet(decisions) /\ IsFiniteSet(usage) /\ IsFiniteSet(reflections) BY <1>2
<1> HIDE DEF decisions, usage, reflections, proofs, blocked, f
<1>9. SumFunction(f) \in Nat /\ SumFunction(f) <= 100 * n BY <1>6, <1>8, SumOfPercents
<1>10. m.executionAutonomyScore \in 0..100 /\ (n = 0 => m.executionAutonomyScore = 0)
 <2>1. CASE n = 0 BY <1>4, <2>1
 <2>2. CASE n # 0
  <3> HIDE DEF n
  <3>1. (2 * SumFunction(f) + n) \div (2 * n) \in 0..100 BY <1>5, <1>9, <2>2, MeanIsPercent
  <3> QED BY <1>4, <2>2, <3>1
 <2> QED BY <2>1, <2>2
<1>11. m.policyBlockRate \in 0..100 BY <1>1, <1>4, <1>7, RateIsPercent
<1>12. m.memoryReuseRate \in 0..100 /\ (usage = {} => m.memoryReuseRate = 0) BY <1>4, <1>8, RateIsPercent, FS_EmptySet
<1>13. m.reflectionReuseRate \in 0..100 /\ (improved = {} => m.reflectionReuseRate = 0)
  BY <1>7, <1>4, <1>8, RateIsPercent, FS_EmptySet
<1>14. m.proofCompletionRate \in 0..100 /\ (proofs = {} => m.proofCompletionRate = 0)
  BY <1>3, <1>4, RateIsPercent, FS_EmptySet
<1> HIDE DEF n
<1> QED BY <1>4, <1>5, <1>10, <1>11, <1>12, <1>13, <1>14 DEF decisions, usage, proofs

Figures(m, n, block, reuse, improvedRate, proof, execution) ==
  /\ m.decisionCoverage = n /\ m.manualOverrideRate = 0 /\ m.policyBlockRate = block
  /\ m.memoryReuseRate = reuse /\ m.reflectionReuseRate = improvedRate
  /\ m.retrySuccessRate = improvedRate /\ m.proofCompletionRate = proof
  /\ m.executionAutonomyScore = execution

ScoreFits(m, n, reuse, improvedRate, proof, execution) ==
  /\ AutonomyScore(m) \in Nat
  /\ (n = 0 /\ execution = 0) => AutonomyScore(m) < 80
  /\ (n = 0 /\ execution = 0 /\ improvedRate = 0) => AutonomyScore(m) < 55
  /\ improvedRate = 0 => AutonomyScore(m) < 80
  /\ (proof = 0 /\ reuse = 0) => AutonomyScore(m) < 80

\* The score of figures that are percentages.
LEMMA ScoreBounds ==
  ASSUME NEW n \in Nat, NEW block \in 0..100, NEW reuse \in 0..100, NEW improvedRate \in 0..100,
         NEW proof \in 0..100, NEW execution \in 0..100,
         NEW m, Figures(m, n, block, reuse, improvedRate, proof, execution)
  PROVE  ScoreFits(m, n, reuse, improvedRate, proof, execution)
<1>1. PICK c : c = IF n > 0 THEN 75 ELSE 20 OBVIOUS
<1>2. c \in {20, 75} /\ (n = 0 => c = 20) BY <1>1
<1>3. PICK x : x = 20 * c + 16 * (100 - 0) + 12 * (reuse + improvedRate)
                 + 10 * (100 - block + proof + improvedRate + execution) + 50
  OBVIOUS
<1>4. AutonomyScore(m) = x \div 100 BY <1>1, <1>3 DEF AutonomyScore, Figures
<1>5. x \in Nat BY <1>2, <1>3
<1>6. /\ n = 0 /\ execution = 0 => x < 8000
      /\ n = 0 /\ execution = 0 /\ improvedRate = 0 => x < 5500
      /\ improvedRate = 0 => x < 8000
      /\ proof = 0 /\ reuse = 0 => x < 8000
  BY <1>2, <1>3
<1>7. x \div 100 \in Nat /\ (x < 8000 => x \div 100 < 80) /\ (x < 5500 => x \div 100 < 55) BY <1>5
<1> QED BY <1>4, <1>6, <1>7 DEF ScoreFits

LEMMA MetricsEarned == AutonomyInv => MetricsAreEarned
<1> SUFFICES ASSUME AutonomyInv, NEW improved \in SUBSET RowsOf("reflection")
             PROVE  LET metrics == AutonomyMetrics(improved)
                        label == AutonomyLabel(AutonomyScore(metrics))
                        health == AutonomyHealth(metrics)
                    IN  /\ label \in {"agency", "autonomous"} => RowsOf("decision") \cup improved # {}
                        /\ label = "autonomous" =>
                              /\ improved # {} /\ RowsOf("decision") # {}
                              /\ ReceiptRows # {}
                        /\ health.proofState = "complete" =>
                              RowsOf("decision") \cup RowsOf("reflection") \cup RowsOf("given_receipt") # {}
                        /\ health.memoryLinkage = "adaptive" =>
                              \E r \in RowsOf("memory_usage"), q \in RowsOf("receipt") : r.call = q.call
  BY Zenon DEF MetricsAreEarned
<1>1. PICK m : m = AutonomyMetrics(improved) OBVIOUS
<1> DEFINE score == AutonomyScore(m)
           label == AutonomyLabel(score)
           health == AutonomyHealth(m)
<1>2. /\ m.decisionCoverage \in Nat /\ m.manualOverrideRate = 0
      /\ m.policyBlockRate \in 0..100 /\ m.memoryReuseRate \in 0..100
      /\ m.reflectionReuseRate \in 0..100 /\ m.retrySuccessRate = m.reflectionReuseRate
      /\ m.proofCompletionRate \in 0..100 /\ m.executionAutonomyScore \in 0..100
      /\ RowsOf("decision") = {} => m.decisionCoverage = 0 /\ m.executionAutonomyScore = 0
      /\ improved = {} => m.reflectionReuseRate = 0
      /\ ReceiptRows = {} => m.proofCompletionRate = 0
      /\ RowsOf("memory_usage") = {} => m.memoryReuseRate = 0
  BY <1>1, FiguresRest
<1>3. /\ score \in Nat
      /\ m.decisionCoverage = 0 /\ m.executionAutonomyScore = 0 => score < 80
      /\ m.decisionCoverage = 0 /\ m.executionAutonomyScore = 0 /\ m.reflectionReuseRate = 0 => score < 55
      /\ m.reflectionReuseRate = 0 => score < 80
      /\ m.proofCompletionRate = 0 /\ m.memoryReuseRate = 0 => score < 80
 <2>1. PICK n \in Nat : n = m.decisionCoverage BY <1>2
 <2>2. PICK block \in 0..100 : block = m.policyBlockRate BY <1>2
 <2>3. PICK reuse \in 0..100 : reuse = m.memoryReuseRate BY <1>2
 <2>4. PICK improvedRate \in 0..100 : improvedRate = m.reflectionReuseRate BY <1>2
 <2>5. PICK proof \in 0..100 : proof = m.proofCompletionRate BY <1>2
 <2>6. PICK execution \in 0..100 : execution = m.executionAutonomyScore BY <1>2
 <2>7. Figures(m, n, block, reuse, improvedRate, proof, execution)
   BY <1>2, <2>1, <2>2, <2>3, <2>4, <2>5, <2>6 DEF Figures
 <2>8. ScoreFits(m, n, reuse, improvedRate, proof, execution) BY <2>7, ScoreBounds
 <2> QED BY <2>1, <2>3, <2>4, <2>5, <2>6, <2>8 DEF ScoreFits
<1>4. \A r \in records : RecordFits(r) BY DEF AutonomyInv
<1>5. \A r \in RowsOf("memory_usage") : \E q \in RowsOf("receipt") : r.call = q.call
  BY <1>4 DEF RowsOf, RecordFits, Written
<1>6. \A r \in ReceiptRows :
        RowsOf("decision") \cup RowsOf("reflection") \cup RowsOf("given_receipt") # {}
  BY <1>4 DEF ReceiptRows, RowsOf, RecordFits, Written
<1> HIDE DEF score
<1>7. /\ label \in {"agency", "autonomous"} => score >= 55
      /\ label = "autonomous" => score >= 80
  BY <1>3 DEF AutonomyLabel
<1>8. /\ health.proofState = "complete" => m.proofCompletionRate > 85
      /\ health.memoryLinkage = "adaptive" => m.memoryReuseRate > 60
  BY <1>2 DEF AutonomyHealth
<1> HIDE DEF label, health
<1>9. label \in {"agency", "autonomous"} => RowsOf("decision") \cup improved # {}
 <2> SUFFICES ASSUME label \in {"agency", "autonomous"}, RowsOf("decision") = {}, improved = {}
              PROVE  FALSE
   OBVIOUS
 <2> QED BY <1>2, <1>3, <1>7
<1>10. label = "autonomous" => improved # {} /\ RowsOf("decision") # {} BY <1>2, <1>3, <1>7
<1>11. label = "autonomous" => ReceiptRows # {}
 <2> SUFFICES ASSUME label = "autonomous", ReceiptRows = {}
              PROVE  FALSE
   OBVIOUS
 <2>1. RowsOf("memory_usage") = {} BY <1>5 DEF ReceiptRows
 <2> QED BY <1>2, <1>3, <1>7, <2>1
<1>12. health.proofState = "complete" => RowsOf("decision") \cup RowsOf("reflection") \cup RowsOf("given_receipt") # {}
 <2> SUFFICES ASSUME health.proofState = "complete"
              PROVE  RowsOf("decision") \cup RowsOf("reflection") \cup RowsOf("given_receipt") # {}
   OBVIOUS
 <2>1. ReceiptRows # {} BY <1>2, <1>8
 <2> QED BY <1>6, <2>1
<1>13. health.memoryLinkage = "adaptive" =>
         \E r \in RowsOf("memory_usage"), q \in RowsOf("receipt") : r.call = q.call
 <2> SUFFICES ASSUME health.memoryLinkage = "adaptive"
              PROVE  \E r \in RowsOf("memory_usage"), q \in RowsOf("receipt") : r.call = q.call
   OBVIOUS
 <2>1. RowsOf("memory_usage") # {} BY <1>2, <1>8
 <2> QED BY <1>5, <2>1
<1> QED BY <1>1, <1>9, <1>10, <1>11, <1>12, <1>13, Zenon DEF label, health, score

LEMMA WordKept == AutonomyInv => AutonomyKeepsItsWord
<1> SUFFICES ASSUME AutonomyInv PROVE AutonomyKeepsItsWord OBVIOUS
<1>1. AutonomyIsMonotone
 <2> SUFFICES ASSUME NEW g \in gates, NEW h \in gates, Allowed(g.status),
                     g.preferences = h.preferences,
                     Rank(g.level) <= Rank(h.level), RiskRank(h.risk) <= RiskRank(g.risk),
                     h.value <= g.value, g.confidence <= h.confidence
              PROVE  Allowed(h.status)
   BY Zenon DEF AutonomyIsMonotone
 <2>1. GateFits(g) /\ GateFits(h) BY DEF AutonomyInv
 <2> QED BY <2>1, GateIsMonotone
<1>2. PreferencesSurvive BY DEF AutonomyInv, PreferencesHold, PreferencesSurvive
<1>3. ReceiptsRestOnTheirRows BY DEF AutonomyInv, RecordFits, Written, GateTells, ReceiptsRestOnTheirRows
<1> QED BY <1>1, <1>2, <1>3, MetricsEarned DEF AutonomyKeepsItsWord

\* The governance dashboard.
FetchCalls == [step : {"load", "request"}, vote : BOOLEAN, demo : BOOLEAN, of : Voters \cup {Nil}]

FetchTypes ==
  /\ fetches \in [Fetches -> FetchCalls \cup {NoCall}]
  /\ voter \in Voters \cup {Nil} /\ story \in BOOLEAN /\ voting \in BOOLEAN

\* One vote at most is under way, and voting says whether one is.
VotesApart ==
  /\ \A i, j \in UnderWay : fetches[i].vote /\ fetches[j].vote => i = j
  /\ voting = (\E i \in UnderWay : fetches[i].vote)

\* Unless something crossed, all that is under way is asked for what the
\* page shows, and the payload is of that or a load of it is under way.
LoadsCurrent ==
  ~crossed =>
    /\ \A i \in UnderWay : fetches[i].of = voter /\ fetches[i].demo = story
    /\ \/ payload.of = voter /\ payload.demo = story
       \/ \E i \in UnderWay : fetches[i].step = "load"

GovernanceInv == FetchTypes /\ VotesApart /\ LoadsCurrent

LEMMA CallsUnderWay ==
  ASSUME FetchTypes, NEW i \in Fetches
  PROVE  /\ i \in UnderWay <=> fetches[i] # NoCall
         /\ i \in UnderWay => fetches[i] \in FetchCalls
         /\ fetches[i].step \in {"load", "request"} => i \in UnderWay
BY DEF FetchTypes, UnderWay, NoCall

\* A call is sent: it takes a place where nothing is under way.
LEMMA CallSent ==
  ASSUME FetchTypes, NEW call \in FetchCalls, Sends(call)
  PROVE  \E i \in Fetches :
           /\ i \notin UnderWay
           /\ fetches' = [fetches EXCEPT ![i] = call]
           /\ fetches' \in [Fetches -> FetchCalls \cup {NoCall}]
           /\ UnderWay' = UnderWay \cup {i} /\ fetches'[i] = call
           /\ \A j \in UnderWay : fetches'[j] = fetches[j]
<1> DEFINE free == CHOOSE i \in Fetches \ UnderWay : TRUE
<1>1. UnderWay \subseteq Fetches /\ UnderWay # Fetches /\ fetches' = [fetches EXCEPT ![free] = call]
  BY DEF Sends, UnderWay
<1>2. free \in Fetches \ UnderWay BY <1>1
<1> HIDE DEF free
<1>3. call # NoCall BY DEF FetchCalls, NoCall
<1>4. /\ fetches' \in [Fetches -> FetchCalls \cup {NoCall}] /\ fetches'[free] = call
      /\ \A j \in Fetches : j # free => fetches'[j] = fetches[j]
  BY <1>1, <1>2 DEF FetchTypes
<1>5. UnderWay' = UnderWay \cup {free} BY <1>2, <1>3, <1>4 DEF UnderWay
<1>6. \A j \in UnderWay : fetches'[j] = fetches[j] BY <1>1, <1>2, <1>4
<1> QED BY <1>1, <1>2, <1>4, <1>5, <1>6

\* A call that is answered or lost leaves its place.
LEMMA CallEnds ==
  ASSUME FetchTypes, NEW i \in Fetches, fetches' = [fetches EXCEPT ![i] = NoCall]
  PROVE  /\ fetches' \in [Fetches -> FetchCalls \cup {NoCall}]
         /\ UnderWay' = UnderWay \ {i}
         /\ \A j \in UnderWay : j # i => fetches'[j] = fetches[j]
BY DEF FetchTypes, UnderWay

LEMMA InitGovernance == GovernancePageInit => GovernanceInv
<1> SUFFICES ASSUME GovernancePageInit PROVE GovernanceInv OBVIOUS
<1>1. PICK first \in Fetches :
        fetches = [i \in Fetches |-> IF i = first THEN Load(story, voter) ELSE NoCall]
  BY GovernancePageAssumption DEF GovernancePageAssumption, GovernancePageInit
<1>2. voter \in Voters \cup {Nil} /\ story = TRUE /\ voting = FALSE BY DEF GovernancePageInit
<1>3. Load(story, voter) \in FetchCalls BY <1>2 DEF Load, FetchCalls
<1>4. FetchTypes BY <1>1, <1>2, <1>3 DEF FetchTypes
<1>5. UnderWay = {first} /\ fetches[first] = Load(story, voter) BY <1>1 DEF UnderWay, Load, NoCall
<1>6. /\ fetches[first].of = voter /\ fetches[first].demo = story
      /\ fetches[first].step = "load" /\ fetches[first].vote = FALSE
  BY <1>5 DEF Load
<1>7. VotesApart BY <1>2, <1>5, <1>6 DEF VotesApart
<1>8. LoadsCurrent BY <1>5, <1>6 DEF LoadsCurrent
<1> QED BY <1>4, <1>7, <1>8 DEF GovernanceInv

\* A load is asked for another wallet or mode.
LEMMA RerenderKeeps ==
  ASSUME GovernanceInv, NEW demo \in BOOLEAN, NEW w \in Voters \cup {Nil}, Rerender(demo, w)
  PROVE  GovernanceInv'
<1>1. PICK call : call = Load(demo, w) OBVIOUS
<1>2. call \in FetchCalls /\ call.of = w /\ call.demo = demo /\ call.step = "load" /\ call.vote = FALSE
  BY <1>1 DEF Load, FetchCalls
<1>3. /\ Sends(call) /\ story' = demo /\ voter' = w /\ crossed' = (UnderWay # {})
      /\ payload' = payload /\ voting' = voting
  BY <1>1 DEF Rerender, Reloads
<1>4. FetchTypes /\ VotesApart BY DEF GovernanceInv
<1>5. PICK i \in Fetches :
           /\ i \notin UnderWay
           /\ fetches' \in [Fetches -> FetchCalls \cup {NoCall}]
           /\ UnderWay' = UnderWay \cup {i} /\ fetches'[i] = call
           /\ \A j \in UnderWay : fetches'[j] = fetches[j]
  BY <1>2, <1>3, <1>4, CallSent
<1>6. FetchTypes' BY <1>3, <1>4, <1>5 DEF FetchTypes
<1>7. VotesApart' BY <1>2, <1>3, <1>4, <1>5 DEF VotesApart
<1>8. LoadsCurrent' BY <1>2, <1>3, <1>5 DEF LoadsCurrent
<1> QED BY <1>6, <1>7, <1>8 DEF GovernanceInv

\* A call of the page for what it shows: it votes only when none does.
LEMMA PageAsks ==
  ASSUME GovernanceInv, NEW call \in FetchCalls, Sends(call), call.of = voter, call.demo = story,
         call.vote => ~voting, voting' = (voting \/ call.vote),
         UNCHANGED <<voter, story, payload, crossed>>
  PROVE  GovernanceInv'
<1>4. FetchTypes /\ VotesApart /\ LoadsCurrent BY DEF GovernanceInv
<1>5. PICK i \in Fetches :
           /\ i \notin UnderWay
           /\ fetches' \in [Fetches -> FetchCalls \cup {NoCall}]
           /\ UnderWay' = UnderWay \cup {i} /\ fetches'[i] = call
           /\ \A j \in UnderWay : fetches'[j] = fetches[j]
  BY <1>4, CallSent
<1>6. FetchTypes' BY <1>4, <1>5 DEF FetchTypes
<1>7. VotesApart' BY <1>4, <1>5 DEF VotesApart, FetchTypes
<1>8. LoadsCurrent' BY <1>4, <1>5 DEF LoadsCurrent
<1> QED BY <1>6, <1>7, <1>8 DEF GovernanceInv

LEMMA RefreshKeeps == ASSUME GovernanceInv, RefreshPayload PROVE GovernanceInv'
<1>1. PICK call : call = Load(story, voter) OBVIOUS
<1>2. call \in FetchCalls /\ call.of = voter /\ call.demo = story /\ call.vote = FALSE
  BY <1>1 DEF Load, FetchCalls, GovernanceInv, FetchTypes
<1>3. /\ Sends(call) /\ voting' = voting /\ UNCHANGED <<voter, story, payload, crossed>>
      /\ voting \in BOOLEAN
  BY <1>1 DEF RefreshPayload, GovernanceInv, FetchTypes
<1>4. voting' = (voting \/ call.vote) BY <1>2, <1>3
<1> QED BY <1>2, <1>3, <1>4, PageAsks

LEMMA VoteKeeps == ASSUME GovernanceInv, Vote PROVE GovernanceInv'
<1>1. PICK call : call = Request(TRUE) OBVIOUS
<1>2. call \in FetchCalls /\ call.of = voter /\ call.demo = story /\ call.vote = TRUE
  BY <1>1 DEF Request, FetchCalls, GovernanceInv, FetchTypes
<1>3. /\ Sends(call) /\ voting' = TRUE /\ UNCHANGED <<voter, story, payload, crossed>> /\ ~voting
  BY <1>1 DEF Vote, VoteOffered
<1> QED BY <1>2, <1>3, PageAsks

LEMMA ActKeeps == ASSUME GovernanceInv, Act PROVE GovernanceInv'
<1>1. PICK call : call = Request(FALSE) OBVIOUS
<1>2. call \in FetchCalls /\ call.of = voter /\ call.demo = story /\ call.vote = FALSE
  BY <1>1 DEF Request, FetchCalls, GovernanceInv, FetchTypes
<1>3. /\ Sends(call) /\ voting' = voting /\ UNCHANGED <<voter, story, payload, crossed>>
      /\ voting \in BOOLEAN
  BY <1>1 DEF Act, GovernanceInv, FetchTypes
<1>4. voting' = (voting \/ call.vote) BY <1>2, <1>3
<1> QED BY <1>2, <1>3, <1>4, PageAsks

LEMMA VotesWithout ==
  ASSUME FetchTypes, VotesApart, NEW i \in Fetches, i \in UnderWay,
         fetches' = [fetches EXCEPT ![i] = NoCall], voting' = (voting /\ ~fetches[i].vote)
  PROVE  VotesApart'
<1>1. /\ UnderWay' = UnderWay \ {i}
      /\ \A j \in UnderWay : j # i => fetches'[j] = fetches[j]
  BY CallEnds
<1>2. \A j, k \in UnderWay : fetches[j].vote /\ fetches[k].vote => j = k BY DEF VotesApart
<1>3. \A j, k \in UnderWay' : fetches'[j].vote /\ fetches'[k].vote => j = k BY <1>1, <1>2
<1>4. \A j \in UnderWay : fetches[j].vote \in BOOLEAN BY CallsUnderWay DEF FetchCalls, UnderWay
<1>5. voting' = (\E j \in UnderWay' : fetches'[j].vote)
 <2>1. CASE fetches[i].vote BY <2>1, <1>1, <1>2
 <2>2. CASE ~fetches[i].vote BY <2>2, <1>1 DEF VotesApart, FetchTypes
 <2> QED BY <2>1, <2>2
<1> QED BY <1>3, <1>5 DEF VotesApart

LEMMA LoadAnswersKeeps ==
  ASSUME GovernanceInv, NEW i \in Fetches, NEW weighs \in BOOLEAN, LoadAnswers(i, weighs)
  PROVE  GovernanceInv'
<1>1. /\ fetches[i].step = "load" /\ fetches' = [fetches EXCEPT ![i] = NoCall]
      /\ payload'.of = fetches[i].of /\ payload'.demo = fetches[i].demo
      /\ voting' = (voting /\ ~fetches[i].vote)
      /\ UNCHANGED <<voter, story, crossed>>
  BY DEF LoadAnswers
<1>2. FetchTypes /\ VotesApart /\ LoadsCurrent BY DEF GovernanceInv
<1>3. i \in UnderWay /\ fetches[i].vote \in BOOLEAN BY <1>1, <1>2, CallsUnderWay DEF FetchCalls
<1>4. /\ fetches' \in [Fetches -> FetchCalls \cup {NoCall}]
      /\ UnderWay' = UnderWay \ {i}
      /\ \A j \in UnderWay : j # i => fetches'[j] = fetches[j]
  BY <1>1, <1>2, CallEnds
<1>5. FetchTypes' BY <1>1, <1>2, <1>3, <1>4 DEF FetchTypes
<1>6. VotesApart' BY <1>1, <1>2, <1>3, VotesWithout
<1>7. LoadsCurrent' BY <1>1, <1>2, <1>3, <1>4 DEF LoadsCurrent
<1> QED BY <1>5, <1>6, <1>7 DEF GovernanceInv

LEMMA RequestAnswersKeeps ==
  ASSUME GovernanceInv, NEW i \in Fetches, RequestAnswers(i)
  PROVE  GovernanceInv'
<1>1. /\ fetches[i].step = "request" /\ fetches' = [fetches EXCEPT ![i].step = "load"]
      /\ UNCHANGED <<voter, story, payload, voting, crossed>>
  BY DEF RequestAnswers
<1>2. FetchTypes /\ VotesApart /\ LoadsCurrent BY DEF GovernanceInv
<1>3. i \in UnderWay /\ fetches[i] \in FetchCalls BY <1>1, <1>2, CallsUnderWay
<1>4. /\ fetches'[i] = [fetches[i] EXCEPT !.step = "load"]
      /\ \A j \in Fetches : j # i => fetches'[j] = fetches[j]
      /\ DOMAIN fetches' = Fetches /\ fetches' = [j \in Fetches |-> fetches'[j]]
  BY <1>1, <1>2 DEF FetchTypes
<1>5. /\ fetches'[i] \in FetchCalls /\ fetches'[i].step = "load"
      /\ fetches'[i].vote = fetches[i].vote /\ fetches'[i].of = fetches[i].of
      /\ fetches'[i].demo = fetches[i].demo
  BY <1>3, <1>4 DEF FetchCalls
<1>6. fetches' \in [Fetches -> FetchCalls \cup {NoCall}] BY <1>2, <1>4, <1>5 DEF FetchTypes
<1>7. UnderWay' = UnderWay BY <1>5, <1>3, <1>4 DEF FetchCalls, NoCall, UnderWay
<1>8. UnderWay \subseteq Fetches BY DEF UnderWay
<1>9. \A j \in UnderWay : fetches'[j].vote = fetches[j].vote /\ fetches'[j].of = fetches[j].of
                          /\ fetches'[j].demo = fetches[j].demo
  BY <1>4, <1>5, <1>8
<1>10. FetchTypes' BY <1>1, <1>2, <1>6 DEF FetchTypes
<1>11. VotesApart' BY <1>1, <1>2, <1>7, <1>9 DEF VotesApart
<1>12. LoadsCurrent' BY <1>1, <1>2, <1>3, <1>5, <1>7, <1>9 DEF LoadsCurrent
<1> QED BY <1>10, <1>11, <1>12 DEF GovernanceInv

\* A request that fails leaves what is shown; a load that fails crosses.
LEMMA FetchFailsKeeps ==
  ASSUME GovernanceInv, NEW i \in Fetches, FetchFails(i)
  PROVE  GovernanceInv'
<1>1. /\ fetches[i] # NoCall /\ fetches' = [fetches EXCEPT ![i] = NoCall]
      /\ crossed' = (crossed \/ fetches[i].step = "load")
      /\ voting' = (voting /\ ~fetches[i].vote)
      /\ UNCHANGED <<voter, story, payload>>
  BY DEF FetchFails
<1>2. FetchTypes /\ VotesApart /\ LoadsCurrent BY DEF GovernanceInv
<1>3. i \in UnderWay /\ fetches[i].vote \in BOOLEAN BY <1>1, <1>2, CallsUnderWay DEF FetchCalls
<1>4. /\ fetches' \in [Fetches -> FetchCalls \cup {NoCall}]
      /\ UnderWay' = UnderWay \ {i}
      /\ \A j \in UnderWay : j # i => fetches'[j] = fetches[j]
  BY <1>1, <1>2, CallEnds
<1>5. FetchTypes' BY <1>1, <1>2, <1>3, <1>4 DEF FetchTypes
<1>6. VotesApart' BY <1>1, <1>2, <1>3, VotesWithout
<1>7. LoadsCurrent' BY <1>1, <1>2, <1>3, <1>4 DEF LoadsCurrent
<1> QED BY <1>5, <1>6, <1>7 DEF GovernanceInv

LEMMA StepGovernance == GovernanceInv /\ [GovernancePageNext]_governancePageVars => GovernanceInv'
<1>1. ASSUME GovernanceInv, UNCHANGED <<voter, story, payload, voting, fetches, crossed>>
      PROVE  GovernanceInv'
  BY <1>1 DEF GovernanceInv, FetchTypes, VotesApart, LoadsCurrent, UnderWay
<1>2. ASSUME GovernanceInv, NEW id, Select(id) PROVE GovernanceInv' BY <1>1, <1>2 DEF Select
<1>3. ASSUME GovernanceInv, StoreMoves PROVE GovernanceInv' BY <1>1, <1>3 DEF StoreMoves
<1>4. ASSUME GovernanceInv, UNCHANGED governancePageVars PROVE GovernanceInv' BY <1>1, <1>4 DEF governancePageVars
<1> QED
  BY <1>2, <1>3, <1>4, RerenderKeeps, RefreshKeeps, VoteKeeps, ActKeeps, LoadAnswersKeeps,
     RequestAnswersKeeps, FetchFailsKeeps, Zenon DEF GovernancePageNext

LEMMA GovernanceShown == GovernanceInv => PayloadIsCurrent /\ OneVoteAtATime
<1> SUFFICES ASSUME GovernanceInv PROVE PayloadIsCurrent /\ OneVoteAtATime OBVIOUS
<1>1. PayloadIsCurrent BY DEF GovernanceInv, LoadsCurrent, PayloadIsCurrent
<1> DEFINE ballots == {i \in UnderWay : fetches[i].vote}
<1>2. voting = (ballots # {}) BY DEF GovernanceInv, VotesApart
<1>3. Cardinality(ballots) <= 1
 <2>1. CASE ballots = {} BY <2>1, FS_EmptySet
 <2>2. CASE ballots # {}
  <3>1. PICK i : i \in ballots BY <2>2
  <3>2. ballots = {i} BY <3>1 DEF GovernanceInv, VotesApart
  <3> QED BY <3>2, FS_Singleton
 <2> QED BY <2>1, <2>2
<1> QED BY <1>1, <1>2, <1>3 DEF OneVoteAtATime

\* The sign-in.
Recorded(p) == users[p] # "none" /\ (users[p] = "admin" <=> p = Owner)
Recognised(token) == IF deployment.db /\ token \notin deployment.nameless THEN token ELSE Nobody

UsersKnown ==
  /\ deployment.nameless \subseteq People
  /\ cookie \in People \cup {Nobody}
  /\ users \in [People -> {"none", "user", "admin"}]
  /\ \A p \in People : users[p] = "admin" => p = Owner

\* A call under way knows the person of its token or nobody.
CallKnown(c) ==
  /\ c.phase \in {"arrived", "unknown", "found", "answered"}
  /\ c.token \in People \cup {Nobody}
  /\ c.phase \in {"unknown", "found"} => VerifyCookie(c.token)
  /\ c.phase \in {"arrived", "unknown"} => c.user = Nobody
  /\ c.phase = "found" => c.user = c.token /\ deployment.db
  /\ c.user # Nobody => c.user = c.token /\ VerifyCookie(c.token)
  /\ c.phase = "answered" =>
       (c.user # Nobody => Recorded(c.user)) /\ (~c.hit => c.user = Recognised(c.token))

\* The query of the page: nothing is asked for it any more.
MeKnown == me.data # Nobody => me.data \in People /\ Recorded(me.data)
MeRests == place = "page" /\ ~me.loading /\ ~me.hit /\ Awaited("me") = {}
ShownKnown == MeRests => me.data = Recognised(me.of) /\ (changedHere => me.of = cookie)
AskedKnown == changedHere => \A c \in Awaited("me") : c.token = cookie

SignInInv ==
  /\ UsersKnown
  /\ \A c \in authCalls : CallKnown(c)
  /\ MeKnown /\ ShownKnown /\ AskedKnown

LEMMA InitSignIn == SignInInit => SignInInv
<1> SUFFICES ASSUME SignInInit PROVE SignInInv OBVIOUS
<1>1. UsersKnown BY DEF SignInInit, UsersKnown
<1>2. MeKnown /\ ShownKnown /\ AskedKnown BY DEF SignInInit, MeKnown, ShownKnown, AskedKnown, MeRests, NotAsked
<1> QED BY <1>1, <1>2 DEF SignInInv, SignInInit

\* A person once in the table stays there, the owner as admin.
LEMMA UpsertKeeps ==
  ASSUME UsersKnown, NEW who \in People, UpsertUser(who), UNCHANGED deployment,
         cookie' \in People \cup {Nobody}
  PROVE  /\ UsersKnown'
         /\ \A p \in People : Recorded(p) => Recorded(p)'
         /\ deployment.db => Recorded(who)'
<1>1. users \in [People -> {"none", "user", "admin"}] BY DEF UsersKnown
<1>2. CASE ~deployment.db BY <1>2 DEF UpsertUser, UsersKnown, Recorded
<1>3. CASE deployment.db
 <2>1. PICK r : r = RoleAfter(who, users[who]) OBVIOUS
 <2>2. r \in {"user", "admin"} /\ (r = "admin" <=> who = Owner) BY <1>1, <2>1 DEF RoleAfter, UsersKnown
 <2>3. users' = [users EXCEPT ![who] = r] BY <1>3, <2>1 DEF UpsertUser
 <2>4. users' \in [People -> {"none", "user", "admin"}] /\ users'[who] = r BY <1>1, <2>2, <2>3
 <2>5. \A p \in People : p # who => users'[p] = users[p] BY <1>1, <2>3
 <2>6. \A p \in People : users'[p] = "admin" => p = Owner BY <2>2, <2>4, <2>5 DEF UsersKnown
 <2>7. UsersKnown' BY <2>4, <2>6 DEF UsersKnown
 <2>8. Recorded(who)' BY <2>2, <2>4 DEF Recorded
 <2>9. \A p \in People : Recorded(p) => Recorded(p)' BY <2>5, <2>8 DEF Recorded
 <2> QED BY <2>7, <2>8, <2>9
<1> QED BY <1>2, <1>3

RowsStay == UNCHANGED deployment /\ \A p \in People : Recorded(p) => Recorded(p)'

LEMMA CallStays ==
  ASSUME UsersKnown, NEW c, CallKnown(c), RowsStay
  PROVE  CallKnown(c)' /\ CallKnown([c EXCEPT !.awaited = FALSE])'
<1>1. PICK d : d = [c EXCEPT !.awaited = FALSE] OBVIOUS
<1>2. d.phase = c.phase /\ d.token = c.token /\ d.user = c.user /\ d.hit = c.hit BY <1>1
<1>3. c.user # Nobody => c.user \in People BY DEF CallKnown, VerifyCookie
<1>4. CallKnown(c)' BY <1>3 DEF CallKnown, RowsStay, VerifyCookie, Recognised
<1>5. CallKnown(d)' BY <1>2, <1>4 DEF CallKnown
<1> QED BY <1>1, <1>4, <1>5

LEMMA CallsAbandoned ==
  ASSUME UsersKnown, \A c \in authCalls : CallKnown(c), RowsStay, NEW kinds
  PROVE  /\ \A x \in Abandoned(kinds) : CallKnown(x)'
         /\ \A x \in Abandoned(kinds) : x.kind \in kinds => ~x.awaited
<1> SUFFICES ASSUME NEW x \in Abandoned(kinds)
             PROVE  CallKnown(x)' /\ (x.kind \in kinds => ~x.awaited)
  OBVIOUS
<1>1. PICK c \in authCalls : x = IF c.kind \in kinds THEN [c EXCEPT !.awaited = FALSE] ELSE c BY DEF Abandoned
<1>2. CallKnown(c)' /\ CallKnown([c EXCEPT !.awaited = FALSE])' BY CallStays
<1>3. CASE c.kind \in kinds BY <1>1, <1>2, <1>3
<1>4. CASE c.kind \notin kinds BY <1>1, <1>2, <1>4
<1> QED BY <1>3, <1>4

\* A call that leaves the browser.
LEMMA QuerySent ==
  ASSUME UsersKnown, UNCHANGED deployment, NEW id, NEW kind, NEW token \in People \cup {Nobody}
  PROVE  /\ CallKnown(Call(id, kind, token))'
         /\ Call(id, kind, token).kind = kind /\ Call(id, kind, token).token = token
         /\ Call(id, kind, token).awaited
BY DEF Call, CallKnown

\* The page is shown anew: what is awaited asks with the cookie there is.
LEMMA LoadsKeeps ==
  ASSUME SignInInv, RowsStay, UsersKnown', Loads(cookie')
  PROVE  SignInInv'
<1>1. PICK q : q = Call(FreeId, "me", cookie') OBVIOUS
<1>2. /\ me'.loading /\ me'.data = Nobody
      /\ authCalls' = Abandoned(CallKinds) \cup {q}
  BY <1>1 DEF Loads, NotAsked
<1>3. UsersKnown /\ \A c \in authCalls : CallKnown(c) BY DEF SignInInv
<1>4. CallKnown(q)' /\ q.kind = "me" /\ q.token = cookie' BY <1>1, <1>3, QuerySent DEF RowsStay, UsersKnown
<1>5. /\ \A x \in Abandoned(CallKinds) : CallKnown(x)'
      /\ \A x \in Abandoned(CallKinds) : x.kind \in CallKinds => ~x.awaited
  BY <1>3, CallsAbandoned
<1>6. \A c \in authCalls' : CallKnown(c)' BY <1>2, <1>4, <1>5
<1>7. \A c \in Awaited("me")' : c.token = cookie' BY <1>2, <1>4, <1>5 DEF Awaited, CallKinds
<1>8. MeKnown' /\ ShownKnown' /\ AskedKnown' BY <1>2, <1>7 DEF MeKnown, ShownKnown, MeRests, AskedKnown
<1> QED BY <1>6, <1>8 DEF SignInInv

\* The server goes on with a call; the browser sees nothing of it.
LEMMA ServedKeeps ==
  ASSUME SignInInv, RowsStay, UsersKnown', NEW c \in authCalls, NEW new, Becomes(c, new),
         CallKnown(new)', new.kind = c.kind, new.awaited = c.awaited, new.token = c.token,
         UNCHANGED <<cookie, tabVars, changedHere>>
  PROVE  SignInInv'
<1>1. /\ UsersKnown /\ \A x \in authCalls : CallKnown(x)
      /\ MeKnown /\ ShownKnown /\ AskedKnown
  BY DEF SignInInv
<1>2. /\ authCalls' = (authCalls \ {c}) \cup {new}
      /\ UNCHANGED <<deployment, cookie, place, me, changedHere>>
  BY DEF Becomes, tabVars, RowsStay
<1>3. \A x \in authCalls' : CallKnown(x)' BY <1>1, <1>2, CallStays
<1>4. MeKnown' BY <1>1, <1>2 DEF MeKnown, RowsStay
<1>5. MeRests' => MeRests BY <1>2 DEF MeRests, Awaited
<1>6. ShownKnown' BY <1>1, <1>2, <1>5 DEF ShownKnown, Recognised
<1>7. AskedKnown' BY <1>1, <1>2 DEF AskedKnown, Awaited
<1> QED BY <1>3, <1>4, <1>6, <1>7 DEF SignInInv

LEMMA RowsUnchanged ==
  ASSUME SignInInv, UNCHANGED <<deployment, users, cookie>> PROVE RowsStay /\ UsersKnown'
BY DEF SignInInv, RowsStay, UsersKnown, Recorded

LEMMA LookUpKeeps ==
  ASSUME SignInInv, NEW c \in authCalls, LookUp(c)
  PROVE  SignInInv'
<1>1. PICK new : new = IF ~VerifyCookie(c.token) THEN Answered(c, Nobody, FALSE)
                       ELSE IF deployment.db /\ users[c.token] # "none"
                            THEN [c EXCEPT !.phase = "found", !.user = c.token]
                            ELSE [c EXCEPT !.phase = "unknown"]
  OBVIOUS
<1>2. Becomes(c, new) /\ UNCHANGED <<deployment, users, cookie, tabVars, changedHere>> BY <1>1 DEF LookUp
<1>3. UsersKnown /\ CallKnown(c) /\ c.phase = "arrived" BY DEF SignInInv, LookUp
<1>4. RowsStay /\ UsersKnown' BY <1>2, RowsUnchanged
<1>5. /\ new.kind = c.kind /\ new.awaited = c.awaited /\ new.token = c.token
      /\ CallKnown(new)
 <2>1. CASE ~VerifyCookie(c.token) BY <1>1, <2>1, <1>3 DEF Recognised, VerifyCookie, CallKnown, Answered
 <2>2. CASE VerifyCookie(c.token) /\ deployment.db /\ users[c.token] # "none" BY <1>1, <2>2, <1>3 DEF CallKnown
 <2>3. CASE VerifyCookie(c.token) /\ ~(deployment.db /\ users[c.token] # "none") BY <1>1, <2>3, <1>3 DEF CallKnown
 <2> QED BY <2>1, <2>2, <2>3
<1>6. CallKnown(new)' BY <1>3, <1>4, <1>5, CallStays
<1> QED BY <1>2, <1>4, <1>5, <1>6, ServedKeeps

LEMMA SyncUserKeeps ==
  ASSUME SignInInv, NEW c \in authCalls, SyncUser(c)
  PROVE  SignInInv'
<1>1. PICK new : new = IF deployment.db THEN [c EXCEPT !.phase = "found", !.user = c.token]
                                        ELSE Answered(c, Nobody, FALSE)
  OBVIOUS
<1>2. /\ Becomes(c, new) /\ c.phase = "unknown" /\ UpsertUser(c.token)
      /\ UNCHANGED <<deployment, cookie, tabVars, changedHere>>
  BY <1>1 DEF SyncUser
<1>3. UsersKnown /\ CallKnown(c) BY DEF SignInInv
<1>4. c.token \in People /\ VerifyCookie(c.token) BY <1>2, <1>3 DEF CallKnown, VerifyCookie
<1>5. cookie' \in People \cup {Nobody} BY <1>2, <1>3 DEF UsersKnown
<1>6. UsersKnown' /\ RowsStay BY <1>2, <1>3, <1>4, <1>5, UpsertKeeps DEF RowsStay
<1>7. new.kind = c.kind /\ new.awaited = c.awaited /\ new.token = c.token /\ CallKnown(new)
  BY <1>1, <1>2, <1>3, <1>4 DEF CallKnown, Answered, Recognised
<1>8. CallKnown(new)' BY <1>3, <1>6, <1>7, CallStays
<1> QED BY <1>2, <1>6, <1>7, <1>8, ServedKeeps

LEMMA TouchKeeps ==
  ASSUME SignInInv, NEW c \in authCalls, Touch(c)
  PROVE  SignInInv'
<1>1. PICK new : new = Answered(c, c.user, FALSE) OBVIOUS
<1>2. /\ Becomes(c, new) /\ c.phase = "found" /\ UpsertUser(c.user)
      /\ UNCHANGED <<deployment, cookie, tabVars, changedHere>>
  BY <1>1 DEF Touch
<1>3. UsersKnown /\ CallKnown(c) BY DEF SignInInv
<1>4. c.user = c.token /\ c.user \in People /\ VerifyCookie(c.token) /\ deployment.db
  BY <1>2, <1>3 DEF CallKnown, VerifyCookie
<1>5. cookie' \in People \cup {Nobody} BY <1>2, <1>3 DEF UsersKnown
<1>6. UsersKnown' /\ RowsStay /\ Recorded(c.user)' BY <1>2, <1>3, <1>4, <1>5, UpsertKeeps DEF RowsStay
<1>7. /\ new.kind = c.kind /\ new.awaited = c.awaited /\ new.token = c.token
      /\ new.phase = "answered" /\ new.user = c.user
  BY <1>1 DEF Answered
<1>8. Recognised(c.token)' = c.user BY <1>2, <1>4 DEF Recognised, VerifyCookie
<1>9. CallKnown(new)' BY <1>2, <1>3, <1>4, <1>6, <1>7, <1>8 DEF CallKnown, VerifyCookie
<1> QED BY <1>2, <1>6, <1>7, <1>9, ServedKeeps

LEMMA AuthenticationFailsKeeps ==
  ASSUME SignInInv, NEW c \in authCalls, AuthenticationFails(c)
  PROVE  SignInInv'
<1>1. PICK new : new = Answered(c, Nobody, TRUE) OBVIOUS
<1>2. Becomes(c, new) /\ UNCHANGED <<deployment, users, cookie, tabVars, changedHere>> BY <1>1 DEF AuthenticationFails
<1>3. UsersKnown /\ CallKnown(c) BY DEF SignInInv
<1>4. RowsStay /\ UsersKnown' BY <1>2, RowsUnchanged
<1>5. new.kind = c.kind /\ new.awaited = c.awaited /\ new.token = c.token /\ CallKnown(new)
  BY <1>1, <1>3 DEF CallKnown, Answered
<1>6. CallKnown(new)' BY <1>3, <1>4, <1>5, CallStays
<1> QED BY <1>2, <1>4, <1>5, <1>6, ServedKeeps

\* A call leaves that is not the query of the page, or that nobody awaits.
LEMMA CallGone ==
  ASSUME SignInInv, NEW c \in authCalls, c.kind # "me" \/ ~c.awaited,
         authCalls' = authCalls \ {c},
         UNCHANGED <<deployment, users, cookie, tabVars, changedHere>>
  PROVE  SignInInv'
<1>1. RowsStay /\ UsersKnown' BY RowsUnchanged
<1>2. /\ UsersKnown /\ \A x \in authCalls : CallKnown(x)
      /\ MeKnown /\ ShownKnown /\ AskedKnown
  BY DEF SignInInv
<1>3. \A x \in authCalls' : CallKnown(x)' BY <1>1, <1>2, CallStays
<1>4. Awaited("me")' = Awaited("me") BY DEF Awaited
<1>5. MeKnown' /\ ShownKnown' /\ AskedKnown'
  BY <1>1, <1>2, <1>4 DEF MeKnown, ShownKnown, AskedKnown, MeRests, Recognised, Recorded, tabVars
<1> QED BY <1>1, <1>3, <1>5 DEF SignInInv

LEMMA SendKeeps ==
  ASSUME SignInInv, NEW kind \in {"publish", "logout"}, Send(kind)
  PROVE  SignInInv'
<1>1. PICK q : q = Call(FreeId, kind, cookie) OBVIOUS
<1>2. authCalls' = authCalls \cup {q} /\ UNCHANGED <<deployment, users, cookie, tabVars, changedHere>>
  BY <1>1 DEF Send
<1>3. /\ UsersKnown /\ \A x \in authCalls : CallKnown(x)
      /\ MeKnown /\ ShownKnown /\ AskedKnown
  BY DEF SignInInv
<1>4. RowsStay /\ UsersKnown' BY <1>2, RowsUnchanged
<1>5. CallKnown(q)' /\ q.kind = kind BY <1>1, <1>2, <1>3, QuerySent DEF UsersKnown
<1>6. \A x \in authCalls' : CallKnown(x)' BY <1>2, <1>3, <1>4, <1>5, CallStays
<1>7. Awaited("me")' = Awaited("me") BY <1>2, <1>5 DEF Awaited
<1>8. MeKnown' /\ ShownKnown' /\ AskedKnown'
  BY <1>2, <1>3, <1>7 DEF MeKnown, ShownKnown, AskedKnown, MeRests, Recognised, Recorded, tabVars
<1> QED BY <1>4, <1>6, <1>8 DEF SignInInv

LEMMA MeAnsweredKeeps ==
  ASSUME SignInInv, NEW c \in authCalls, MeAnswered(c)
  PROVE  SignInInv'
<1>1. /\ c.kind = "me" /\ c.awaited /\ c.phase = "answered"
      /\ me'.data = c.user /\ me'.of = c.token /\ me'.hit = c.hit
      /\ authCalls' = authCalls \ {c}
      /\ UNCHANGED <<deployment, users, cookie, place, changedHere>>
  BY DEF MeAnswered
<1>2. RowsStay /\ UsersKnown' BY <1>1, RowsUnchanged
<1>3. UsersKnown /\ (\A x \in authCalls : CallKnown(x)) /\ AskedKnown BY DEF SignInInv
<1>4. \A x \in authCalls' : CallKnown(x)' BY <1>1, <1>2, <1>3, CallStays
<1>5. /\ c.user # Nobody => c.user \in People /\ Recorded(c.user)
      /\ ~c.hit => c.user = Recognised(c.token)
  BY <1>1, <1>3 DEF CallKnown, VerifyCookie
<1>6. MeKnown' BY <1>1, <1>5 DEF MeKnown, Recorded
<1>7. changedHere => c.token = cookie BY <1>1, <1>3 DEF AskedKnown, Awaited
<1>8. ShownKnown'
 <2>1. Recognised(c.token)' = Recognised(c.token) BY <1>1 DEF Recognised
 <2> SUFFICES ASSUME MeRests' PROVE (me.data = Recognised(me.of) /\ (changedHere => me.of = cookie))'
   BY DEF ShownKnown
 <2>2. ~c.hit BY <1>1 DEF MeRests
 <2> QED BY <1>1, <1>5, <1>7, <2>1, <2>2
<1>9. AskedKnown' BY <1>1, <1>3 DEF AskedKnown, Awaited
<1> QED BY <1>2, <1>4, <1>6, <1>8, <1>9 DEF SignInInv

LEMMA PublishAnsweredKeeps ==
  ASSUME SignInInv, NEW c \in authCalls, PublishAnswered(c)
  PROVE  SignInInv'
<1>1. CASE c.user # Nobody BY <1>1, CallGone DEF PublishAnswered
<1>2. CASE c.user = Nobody
 <2>1. /\ place' # "page" /\ me'.data = Nobody
       /\ authCalls' \subseteq Abandoned(CallKinds)
       /\ UNCHANGED <<deployment, users, cookie, changedHere>>
   BY <1>2 DEF PublishAnswered, NotAsked
 <2>2. RowsStay /\ UsersKnown' BY <2>1, RowsUnchanged
 <2>3. /\ \A x \in Abandoned(CallKinds) : CallKnown(x)'
       /\ \A x \in Abandoned(CallKinds) : x.kind \in CallKinds => ~x.awaited
   BY <2>2, CallsAbandoned DEF SignInInv
 <2>4. Awaited("me")' = {} BY <2>1, <2>3 DEF Awaited, CallKinds
 <2>5. MeKnown' /\ ShownKnown' /\ AskedKnown' BY <2>1, <2>4 DEF MeKnown, ShownKnown, AskedKnown, MeRests
 <2> QED BY <2>1, <2>2, <2>3, <2>5 DEF SignInInv
<1> QED BY <1>1, <1>2

\* The session ends, or the browser hears nothing: auth.me is asked again.
LEMMA LogoutEndsKeeps ==
  ASSUME SignInInv, NEW c \in authCalls, NEW arrived \in BOOLEAN, LogoutEnds(c, arrived)
  PROVE  SignInInv'
<1>1. PICK q : q = Call(IF arrived THEN c.id ELSE FreeId, "me", cookie') OBVIOUS
<1>2. PICK d : d = [c EXCEPT !.awaited = FALSE] OBVIOUS
<1>3. /\ cookie' = IF arrived THEN Nobody ELSE cookie
      /\ me'.data = Nobody
      /\ authCalls' = (Abandoned({"me"}) \ {c}) \cup (IF arrived THEN {} ELSE {d}) \cup {q}
      /\ UNCHANGED <<deployment, users, place>>
  BY <1>1, <1>2 DEF LogoutEnds
<1>4. UsersKnown /\ \A x \in authCalls : CallKnown(x) BY DEF SignInInv
<1>5. cookie' \in People \cup {Nobody} BY <1>3, <1>4 DEF UsersKnown
<1>6. UsersKnown' /\ RowsStay BY <1>3, <1>4, <1>5 DEF UsersKnown, RowsStay, Recorded
<1>7. CallKnown(q)' /\ q.kind = "me" /\ q.token = cookie' /\ q.awaited BY <1>1, <1>3, <1>4, <1>5, QuerySent
<1>8. CallKnown(d)' /\ ~d.awaited BY <1>2, <1>4, <1>6, CallStays
<1>9. /\ \A x \in Abandoned({"me"}) : CallKnown(x)'
      /\ \A x \in Abandoned({"me"}) : x.kind \in {"me"} => ~x.awaited
  BY <1>4, <1>6, CallsAbandoned
<1>10. \A x \in authCalls' : CallKnown(x)' BY <1>3, <1>7, <1>8, <1>9
<1>11. Awaited("me")' = {q} BY <1>3, <1>7, <1>8, <1>9 DEF Awaited
<1>12. MeKnown' /\ ShownKnown' /\ AskedKnown' BY <1>3, <1>7, <1>11 DEF MeKnown, ShownKnown, AskedKnown, MeRests
<1> QED BY <1>6, <1>10, <1>12 DEF SignInInv

LEMMA CallLostKeeps ==
  ASSUME SignInInv, NEW c \in authCalls, CallLost(c)
  PROVE  SignInInv'
<1>1. PICK d : d = [c EXCEPT !.awaited = FALSE] OBVIOUS
<1>2. /\ me' = IF c.kind = "me" THEN [me EXCEPT !.loading = FALSE, !.hit = TRUE] ELSE me
      /\ authCalls' = (authCalls \ {c}) \cup {d}
      /\ UNCHANGED <<deployment, users, cookie, place, changedHere>>
  BY <1>1 DEF CallLost, Becomes
<1>3. /\ UsersKnown /\ \A x \in authCalls : CallKnown(x)
      /\ MeKnown /\ ShownKnown /\ AskedKnown
  BY DEF SignInInv
<1>4. RowsStay /\ UsersKnown' BY <1>2, RowsUnchanged
<1>5. ~d.awaited /\ d.kind = c.kind /\ \A x \in authCalls' : CallKnown(x)'
 <2>1. ~d.awaited /\ d.kind = c.kind BY <1>1
 <2>2. \A x \in authCalls : CallKnown(x)' /\ CallKnown([x EXCEPT !.awaited = FALSE])' BY <1>3, <1>4, CallStays
 <2> QED BY <1>1, <1>2, <2>1, <2>2
<1>6. MeKnown' BY <1>2, <1>3 DEF MeKnown, Recorded
<1>7. AskedKnown' BY <1>2, <1>3, <1>5 DEF AskedKnown, Awaited
<1>8. ShownKnown'
 <2>1. CASE c.kind = "me" BY <1>2, <2>1 DEF ShownKnown, MeRests
 <2>2. CASE c.kind # "me"
  <3>1. Awaited("me")' = Awaited("me") /\ me' = me BY <1>2, <1>5, <2>2 DEF Awaited
  <3> QED BY <1>2, <1>3, <3>1 DEF ShownKnown, MeRests, Recognised
 <2> QED BY <2>1, <2>2
<1> QED BY <1>4, <1>5, <1>6, <1>7, <1>8 DEF SignInInv

\* The cookie of the browser: the sign-in here or in another tab.
LEMMA SessionKnown ==
  ASSUME UsersKnown, NEW who \in People \cup {Nobody}
  PROVE  SessionCookie(who) \in People \cup {Nobody}
BY DEF UsersKnown, SessionCookie

LEMMA OAuthCallbackKeeps ==
  ASSUME SignInInv, NEW who \in People, OAuthCallback(who)
  PROVE  SignInInv'
<1>1. UpsertUser(who) /\ cookie' = SessionCookie(who) /\ Loads(cookie') /\ UNCHANGED deployment BY DEF OAuthCallback
<1>2. UsersKnown /\ cookie' \in People \cup {Nobody} BY <1>1, SessionKnown DEF SignInInv
<1>3. UsersKnown' /\ RowsStay BY <1>1, <1>2, UpsertKeeps DEF RowsStay
<1> QED BY <1>1, <1>3, LoadsKeeps

LEMMA CookieChangesKeeps ==
  ASSUME SignInInv, NEW who \in People \cup {Nobody}, CookieChanges(who)
  PROVE  SignInInv'
<1>1. /\ cookie' = SessionCookie(who) /\ ~changedHere'
      /\ IF who = Nobody THEN UNCHANGED users ELSE UpsertUser(who)
      /\ UNCHANGED <<deployment, place, me, authCalls>>
  BY DEF CookieChanges, tabVars
<1>2. /\ UsersKnown /\ \A x \in authCalls : CallKnown(x)
      /\ MeKnown /\ ShownKnown
  BY DEF SignInInv
<1>3. cookie' \in People \cup {Nobody} BY <1>1, <1>2, SessionKnown
<1>4. UsersKnown' /\ RowsStay BY <1>1, <1>2, <1>3, UpsertKeeps DEF UsersKnown, RowsStay, Recorded
<1>5. \A x \in authCalls' : CallKnown(x)' BY <1>1, <1>2, <1>4, CallStays
<1>6. MeKnown' BY <1>1, <1>2, <1>4 DEF MeKnown, RowsStay
<1>7. ShownKnown' /\ AskedKnown' BY <1>1, <1>2 DEF ShownKnown, MeRests, Awaited, Recognised, AskedKnown
<1> QED BY <1>4, <1>5, <1>6, <1>7 DEF SignInInv

LEMMA StepSignIn == SignInInv /\ [SignInNext]_signInVars => SignInInv'
<1>1. ASSUME SignInInv, UNCHANGED signInVars PROVE SignInInv'
  BY <1>1 DEF SignInInv, signInVars, UsersKnown, CallKnown, VerifyCookie, Recognised, Recorded,
              MeKnown, ShownKnown, AskedKnown, MeRests, Awaited
<1>2. ASSUME SignInInv, OpenPage PROVE SignInInv' BY <1>2, RowsUnchanged, LoadsKeeps DEF OpenPage, Loads
<1>3. ASSUME SignInInv, OAuthCallbackFails PROVE SignInInv'
  BY <1>3 DEF OAuthCallbackFails, SignInInv, UsersKnown, CallKnown, VerifyCookie, Recognised,
              Recorded, MeKnown, ShownKnown, AskedKnown, MeRests, Awaited
<1>4. ASSUME SignInInv, NEW c \in authCalls, Ignored(c) PROVE SignInInv' BY <1>4, CallGone DEF Ignored
<1> QED
  BY <1>1, <1>2, <1>3, <1>4, SendKeeps, LookUpKeeps, SyncUserKeeps, TouchKeeps,
     AuthenticationFailsKeeps, MeAnsweredKeeps, PublishAnsweredKeeps, LogoutEndsKeeps,
     CallLostKeeps, OAuthCallbackKeeps, CookieChangesKeeps, Zenon DEF SignInNext

LEMMA UsersShown == SignInInv => RecognisedAtRest /\ TabKnowsItsChange /\ AnswersAreOwn
<1> SUFFICES ASSUME SignInInv PROVE RecognisedAtRest /\ TabKnowsItsChange /\ AnswersAreOwn OBVIOUS
<1>1. /\ \A x \in authCalls : CallKnown(x)
      /\ MeKnown /\ ShownKnown
  BY DEF SignInInv
<1>2. AtRest /\ ~me.hit => MeRests BY DEF AtRest, MeRests, Awaited
<1>3. RecognisedAtRest /\ TabKnowsItsChange
  BY <1>1, <1>2 DEF RecognisedAtRest, TabKnowsItsChange, ShownKnown, Recognised
<1>4. AnswersAreOwn BY <1>1 DEF AnswersAreOwn, CallKnown, VerifyCookie, MeKnown, Recorded
<1> QED BY <1>3, <1>4

\* The pages of one record.
AnyKind == {"load", "create", "freeze", "mint", "act", "publish"}
KindsOf(page) ==
  CASE page \in {"plan", "proposal", "proofs"} -> {"load"}
    [] page = "nft" -> {"load", "create", "freeze", "mint"}
    [] page = "zerog" -> {"load", "act"}
    [] OTHER -> {"load", "act", "publish"}

PageTypes ==
  /\ recordPage \in Pages /\ atServer \in Nat /\ own \in 0..atServer /\ pageShown.version \in Nat
  /\ pageLoading \in BOOLEAN
  /\ \A l \in pageLoads : l.kind \in KindsOf(recordPage) /\ l.version \in 0..atServer

\* Which pages wait for all they have asked, and for what.
WaitingFor ==
  /\ recordPage \notin {"plan", "registry"} => \A l \in pageLoads : l.awaited
  /\ recordPage = "plan" => \A l \in pageLoads : l.awaited => l.of = recordKey
  /\ recordPage = "nft" => /\ \A l, m \in pageLoads : l = m
                           /\ pageLoading <=> pageLoads # {}
  /\ pageLoading => recordPage \in {"plan", "proofs", "nft"} /\ ~QuietPage

PlanShown ==
  recordPage = "plan" /\ ~pageLoading /\ ~pageError => pageShown.of = recordKey

ProposalShown ==
  recordPage = "proposal" /\ ~overtaken =>
    /\ \A l \in pageLoads : l.of = recordKey
    /\ QuietPage => pageShown.of \in {recordKey, "nothing"}

\* What has been changed is known to the record that is shown or to the
\* loads that are awaited.
ChangesShown ==
  /\ recordPage \in {"plan", "proposal", "proofs"} => own = 0
  /\ recordPage = "nft" =>
       pageShown.version >= own /\ \A l \in pageLoads : l.handled => l.version >= own
  /\ recordPage \in {"zerog", "registry"} /\ ~overtaken =>
       \A l \in AwaitedLoads : l.handled => l.version >= own
  /\ (/\ recordPage = "zerog" \/ (recordPage = "registry" /\ ~pageError)
      /\ ~overtaken)
       => pageShown.version >= own \/ AwaitedLoads # {}

PagesInv == PageTypes /\ WaitingFor /\ PlanShown /\ ProposalShown /\ ChangesShown

LEMMA InitPages == RecordPagesInit => PagesInv
<1> SUFFICES ASSUME RecordPagesInit PROVE PagesInv OBVIOUS
<1>1. PICK q : q = PageRequest(1, "load", recordKey) OBVIOUS
<1>2. q.kind = "load" /\ q.of = recordKey /\ q.version = 0 /\ ~q.handled /\ q.awaited BY <1>1 DEF PageRequest
<1>3. /\ recordPage \in Pages
      /\ pageLoads = IF recordPage = "nft" THEN {} ELSE {q}
      /\ pageLoading = (recordPage \in {"plan", "proofs"})
      /\ pageShown.of = "nothing" /\ pageShown.version = 0
      /\ pageError = FALSE /\ atServer = 0 /\ own = 0 /\ overtaken = FALSE
  BY <1>1 DEF RecordPagesInit, Nothing
<1>4. "load" \in KindsOf(recordPage) BY DEF KindsOf
<1>5. PageTypes BY <1>2, <1>3, <1>4 DEF PageTypes
<1>6. WaitingFor BY <1>2, <1>3 DEF WaitingFor, QuietPage, Pages
<1>7. PlanShown /\ ProposalShown BY <1>2, <1>3 DEF PlanShown, ProposalShown
<1>8. ChangesShown BY <1>2, <1>3 DEF ChangesShown, AwaitedLoads
<1> QED BY <1>5, <1>6, <1>7, <1>8 DEF PagesInv

\* Another record is asked for.
LEMMA ShowPlanKeeps ==
  ASSUME PagesInv, NEW key, ShowPlan(key)
  PROVE  PagesInv'
<1>1. PICK q : q = NextRequest("load", key) OBVIOUS
<1>2. q.kind = "load" /\ q.of = key /\ q.version = 0 /\ ~q.handled /\ q.awaited BY <1>1 DEF NextRequest, PageRequest
<1>3. /\ recordPage = "plan" /\ recordKey' = key /\ pageLoading' = TRUE
      /\ pageLoads' = GivenUp \cup {q}
      /\ UNCHANGED <<recordPage, pageShown, pageError, atServer, own, overtaken>>
  BY <1>1 DEF ShowPlan
<1>4. PageTypes /\ ChangesShown BY DEF PagesInv
<1>5. ASSUME NEW l \in GivenUp
      PROVE  /\ ~l.awaited /\ l.kind \in KindsOf(recordPage) /\ l.version \in 0..atServer
 <2>1. PICK x \in pageLoads : l = [x EXCEPT !.awaited = FALSE] BY DEF GivenUp
 <2> QED BY <1>4, <2>1 DEF PageTypes
<1>6. "load" \in KindsOf(recordPage) BY DEF KindsOf
<1>7. PageTypes' BY <1>2, <1>3, <1>4, <1>5, <1>6 DEF PageTypes, KindsOf
<1>8. WaitingFor' BY <1>2, <1>3, <1>5 DEF WaitingFor, QuietPage
<1>9. PlanShown' /\ ProposalShown' BY <1>3 DEF PlanShown, ProposalShown
<1>10. ChangesShown' BY <1>3, <1>4 DEF ChangesShown
<1> QED BY <1>7, <1>8, <1>9, <1>10 DEF PagesInv

LEMMA ShowProposalKeeps ==
  ASSUME PagesInv, NEW key, ShowProposal(key)
  PROVE  PagesInv'
<1>1. PICK q : q = NextRequest("load", key) OBVIOUS
<1>2. q.kind = "load" /\ q.of = key /\ q.version = 0 /\ ~q.handled /\ q.awaited BY <1>1 DEF NextRequest, PageRequest
<1>3. /\ recordPage = "proposal" /\ recordKey' = key
      /\ overtaken' = (AwaitedLoads # {})
      /\ pageLoads' = pageLoads \cup {q}
      /\ UNCHANGED <<recordPage, pageShown, pageLoading, pageError, atServer, own>>
  BY <1>1 DEF ShowProposal
<1>4. PageTypes /\ WaitingFor /\ ChangesShown BY DEF PagesInv
<1>5. KindsOf(recordPage) = {"load"} BY <1>3 DEF KindsOf
<1>6. PageTypes' BY <1>2, <1>3, <1>4, <1>5 DEF PageTypes, KindsOf
<1>7. WaitingFor' BY <1>2, <1>3, <1>4 DEF WaitingFor
<1>8. ~overtaken' => pageLoads = {} BY <1>3, <1>4, <1>5 DEF AwaitedLoads, PageTypes, WaitingFor
<1>9. PlanShown' /\ ProposalShown' BY <1>2, <1>3, <1>8 DEF PlanShown, ProposalShown, QuietPage
<1>10. ChangesShown' BY <1>3, <1>4 DEF ChangesShown
<1> QED BY <1>6, <1>7, <1>9, <1>10 DEF PagesInv

\* The buttons of the collection.
LEMMA CollectionAsked ==
  ASSUME PagesInv, NEW kind \in {"load", "create", "freeze", "mint"},
         recordPage = "nft", ~pageLoading, pageLoading' = TRUE,
         pageLoads' = pageLoads \cup {NextRequest(kind, recordKey)},
         UNCHANGED <<recordPage, recordKey, pageShown, form, atServer, own, overtaken>>
  PROVE  PagesInv'
<1>1. PICK q : q = NextRequest(kind, recordKey) OBVIOUS
<1>2. q.kind = kind /\ q.version = 0 /\ ~q.handled /\ q.awaited BY <1>1 DEF NextRequest, PageRequest
<1>3. PageTypes /\ WaitingFor /\ ChangesShown BY DEF PagesInv
<1>4. pageLoads' = {q} BY <1>1, <1>3 DEF WaitingFor
<1>5. kind \in KindsOf(recordPage) BY DEF KindsOf
<1>6. PageTypes' BY <1>2, <1>3, <1>4, <1>5 DEF PageTypes, KindsOf
<1>7. WaitingFor' BY <1>2, <1>4 DEF WaitingFor, QuietPage
<1>8. PlanShown' /\ ProposalShown' BY DEF PlanShown, ProposalShown
<1>9. ChangesShown' BY <1>2, <1>3, <1>4 DEF ChangesShown
<1> QED BY <1>6, <1>7, <1>8, <1>9 DEF PagesInv

\* An action of a page that waits for none.
LEMMA ActionAsked ==
  ASSUME PagesInv, NEW kind, kind # "load", kind \in KindsOf(recordPage),
         recordPage \in {"zerog", "registry"},
         pageLoads' = pageLoads \cup {NextRequest(kind, recordKey)},
         UNCHANGED <<recordPage, recordKey, pageShown, pageLoading, pageError, atServer, own, overtaken>>
  PROVE  PagesInv'
<1>1. PICK q : q = NextRequest(kind, recordKey) OBVIOUS
<1>2. q.kind = kind /\ q.version = 0 /\ ~q.handled /\ q.awaited BY <1>1 DEF NextRequest, PageRequest
<1>3. PageTypes /\ WaitingFor /\ ChangesShown BY DEF PagesInv
<1>4. pageLoads' = pageLoads \cup {q} BY <1>1
<1>5. PageTypes' BY <1>2, <1>3, <1>4 DEF PageTypes, KindsOf
<1>6. WaitingFor' BY <1>2, <1>3, <1>4 DEF WaitingFor
<1>7. PlanShown' /\ ProposalShown' BY DEF PlanShown, ProposalShown
<1>8. AwaitedLoads' = AwaitedLoads BY <1>2, <1>4 DEF AwaitedLoads
<1>9. ChangesShown' BY <1>3, <1>8 DEF ChangesShown
<1> QED BY <1>5, <1>6, <1>7, <1>9 DEF PagesInv

\* The server handles a request: what it reads is not older than any
\* change the page knows of.
LEMMA HandledKeeps ==
  ASSUME PagesInv, NEW l \in pageLoads, Handled(l)
  PROVE  PagesInv'
<1>1. PICK v : v = atServer' OBVIOUS
<1>2. PICK h : h = [l EXCEPT !.handled = TRUE, !.version = v] OBVIOUS
<1>3. /\ atServer' = IF l.kind = "load" THEN atServer ELSE atServer + 1
      /\ pageLoads' = (pageLoads \ {l}) \cup {h}
      /\ UNCHANGED <<recordPage, recordKey, pageShown, pageLoading, pageError, own, overtaken>>
  BY <1>1, <1>2 DEF Handled
<1>4. PageTypes /\ WaitingFor /\ PlanShown /\ ProposalShown /\ ChangesShown BY DEF PagesInv
<1>5. h.kind = l.kind /\ h.awaited = l.awaited /\ h.of = l.of /\ h.handled /\ h.version = v BY <1>2
<1>6. atServer' \in Nat /\ v = atServer' /\ atServer <= v /\ own <= v /\ v \in Nat /\ own \in Nat
  BY <1>1, <1>3, <1>4 DEF PageTypes
<1>7. PageTypes' BY <1>3, <1>4, <1>5, <1>6 DEF PageTypes, KindsOf
<1>8. QuietPage' <=> QuietPage BY <1>3, <1>5 DEF QuietPage
<1>9. WaitingFor' BY <1>3, <1>4, <1>5, <1>8 DEF WaitingFor
<1>10. PlanShown' /\ ProposalShown' BY <1>3, <1>4, <1>5, <1>8 DEF PlanShown, ProposalShown
<1>11. /\ AwaitedLoads' # {} <=> AwaitedLoads # {}
       /\ \A m \in AwaitedLoads' : m = h \/ m \in AwaitedLoads
  BY <1>3, <1>5 DEF AwaitedLoads
<1>12. ChangesShown' BY <1>3, <1>4, <1>5, <1>6, <1>11 DEF ChangesShown
<1> QED BY <1>7, <1>9, <1>10, <1>12 DEF PagesInv

LEMMA OthersChangeKeeps == ASSUME PagesInv, OthersChange PROVE PagesInv'
<1>1. PageTypes /\ WaitingFor /\ PlanShown /\ ProposalShown /\ ChangesShown BY DEF PagesInv
<1>2. PageTypes' BY <1>1 DEF PageTypes, OthersChange, KindsOf
<1>3. WaitingFor' /\ PlanShown' /\ ProposalShown' /\ ChangesShown'
  BY <1>1 DEF WaitingFor, PlanShown, ProposalShown, ChangesShown, OthersChange, QuietPage, AwaitedLoads
<1> QED BY <1>2, <1>3 DEF PagesInv

\* A request leaves that nobody waits for.
LEMMA UnheardKeeps ==
  ASSUME PagesInv, NEW l \in pageLoads, Unheard(l)
  PROVE  PagesInv'
<1>1. /\ ~l.awaited /\ pageLoads' = pageLoads \ {l}
      /\ UNCHANGED <<recordPage, recordKey, pageShown, pageLoading, pageError, atServer, own, overtaken>>
  BY DEF Unheard
<1>2. PageTypes /\ WaitingFor /\ PlanShown /\ ProposalShown /\ ChangesShown BY DEF PagesInv
<1>3. (QuietPage' <=> QuietPage) /\ AwaitedLoads' = AwaitedLoads BY <1>1 DEF QuietPage, AwaitedLoads
<1>4. PageTypes' BY <1>1, <1>2 DEF PageTypes, KindsOf
<1>5. WaitingFor' BY <1>1, <1>2, <1>3 DEF WaitingFor
<1>6. PlanShown' /\ ProposalShown' BY <1>1, <1>2, <1>3 DEF PlanShown, ProposalShown
<1>7. ChangesShown' BY <1>1, <1>2, <1>3 DEF ChangesShown
<1> QED BY <1>4, <1>5, <1>6, <1>7 DEF PagesInv

\* What is known of the page once one of its loads or actions has ended
\* and nothing says that it is loading.
LEMMA RequestLeaves ==
  ASSUME PagesInv, NEW l \in pageLoads, pageLoads' = pageLoads \ {l}, pageLoading' = FALSE,
         UNCHANGED <<recordPage, recordKey, atServer>>
  PROVE  /\ WaitingFor'
         /\ \A x \in pageLoads' : x.kind \in KindsOf(recordPage') /\ x.version \in 0..atServer'
         /\ AwaitedLoads' = AwaitedLoads \ {l}
         /\ recordPage = "nft" => pageLoads' = {}
<1>1. PageTypes /\ WaitingFor BY DEF PagesInv
<1>2. recordPage = "nft" => pageLoads' = {} BY <1>1 DEF WaitingFor
<1>3. WaitingFor' BY <1>1, <1>2 DEF WaitingFor
<1>4. AwaitedLoads' = AwaitedLoads \ {l} BY DEF AwaitedLoads
<1> QED BY <1>1, <1>2, <1>3, <1>4 DEF PageTypes

LEMMA LoadedKeeps ==
  ASSUME PagesInv, NEW l \in pageLoads, Loaded(l)
  PROVE  PagesInv'
<1>1. /\ l.kind = "load" /\ l.awaited /\ l.handled
      /\ pageShown'.of = l.of /\ pageShown'.version = l.version
      /\ pageError' = (recordPage = "plan" /\ pageError)
      /\ pageLoading' = FALSE /\ pageLoads' = pageLoads \ {l}
      /\ UNCHANGED <<recordPage, recordKey, atServer, own, overtaken>>
  BY DEF Loaded, Got
<1>2. PageTypes /\ WaitingFor /\ PlanShown /\ ProposalShown /\ ChangesShown BY DEF PagesInv
<1>3. /\ WaitingFor'
      /\ \A x \in pageLoads' : x.kind \in KindsOf(recordPage') /\ x.version \in 0..atServer'
      /\ AwaitedLoads' = AwaitedLoads \ {l}
      /\ recordPage = "nft" => pageLoads' = {}
  BY <1>1, RequestLeaves
<1>4. l.version \in 0..atServer /\ l \in AwaitedLoads BY <1>1, <1>2 DEF PageTypes, AwaitedLoads
<1>5. PageTypes'
 <2>0. atServer \in Nat /\ pageShown.version \in Nat BY <1>2 DEF PageTypes
 <2>1. pageShown'.version \in Nat BY <1>1, <1>4, <2>0
 <2>3. pageLoading' \in BOOLEAN BY <1>1, Zenon
 <2>2. recordPage' \in Pages /\ atServer' \in Nat /\ own' \in 0..atServer' BY <1>1, <1>2 DEF PageTypes
 <2> QED BY <1>3, <2>1, <2>2, <2>3 DEF PageTypes
<1>6. PlanShown' /\ ProposalShown' BY <1>1, <1>2 DEF PlanShown, ProposalShown, WaitingFor
<1>7. ChangesShown' BY <1>1, <1>2, <1>3, <1>4 DEF ChangesShown
<1> QED BY <1>3, <1>5, <1>6, <1>7 DEF PagesInv

LEMMA LoadFailsKeeps ==
  ASSUME PagesInv, NEW l \in pageLoads, NEW refused \in BOOLEAN, LoadFails(l, refused)
  PROVE  PagesInv'
<1>1. /\ l.kind = "load" /\ l.awaited
      /\ pageShown' = IF recordPage = "proposal" \/ (recordPage = "zerog" /\ refused)
                      THEN Nothing ELSE pageShown
      /\ pageError' = (pageError \/ recordPage \in {"plan", "proofs", "nft", "registry"})
      /\ pageLoading' = FALSE
      /\ overtaken' = (overtaken \/ recordPage = "zerog")
      /\ pageLoads' = pageLoads \ {l}
      /\ UNCHANGED <<recordPage, recordKey, atServer, own>>
  BY DEF LoadFails
<1>2. PageTypes /\ WaitingFor /\ PlanShown /\ ProposalShown /\ ChangesShown BY DEF PagesInv
<1>3. /\ WaitingFor'
      /\ \A x \in pageLoads' : x.kind \in KindsOf(recordPage') /\ x.version \in 0..atServer'
      /\ AwaitedLoads' = AwaitedLoads \ {l}
      /\ recordPage = "nft" => pageLoads' = {}
  BY <1>1, RequestLeaves
<1>4. Nothing.of = "nothing" /\ Nothing.version = 0 BY DEF Nothing
<1>5. PageTypes'
 <2>0. atServer \in Nat /\ pageShown.version \in Nat BY <1>2 DEF PageTypes
 <2>1. pageShown'.version \in Nat BY <1>1, <1>4, <2>0
 <2>3. pageLoading' \in BOOLEAN BY <1>1, Zenon
 <2>2. recordPage' \in Pages /\ atServer' \in Nat /\ own' \in 0..atServer' BY <1>1, <1>2 DEF PageTypes
 <2> QED BY <1>3, <2>1, <2>2, <2>3 DEF PageTypes
<1>6. PlanShown' /\ ProposalShown' BY <1>1, <1>2, <1>4 DEF PlanShown, ProposalShown
<1>7. ChangesShown'
 <2>1. recordPage \in {"plan", "proposal", "proofs"} => own' = 0 BY <1>1, <1>2 DEF ChangesShown
 <2>2. recordPage = "nft" => pageShown'.version >= own' /\ pageLoads' = {} BY <1>1, <1>2, <1>3 DEF ChangesShown
 <2>3. recordPage = "zerog" => overtaken' BY <1>1
 <2>4. (recordPage = "registry" /\ ~overtaken) =>
          pageError' /\ \A m \in AwaitedLoads' : m.handled => m.version >= own'
   BY <1>1, <1>2, <1>3 DEF ChangesShown
 <2> QED BY <1>1, <2>1, <2>2, <2>3, <2>4 DEF ChangesShown
<1> QED BY <1>3, <1>5, <1>6, <1>7 DEF PagesInv

LEMMA CollectionChangedKeeps ==
  ASSUME PagesInv, NEW l \in pageLoads, CollectionChanged(l)
  PROVE  PagesInv'
<1>1. /\ l.kind \in {"create", "freeze", "mint"} /\ l.handled
      /\ pageShown'.version = IF l.kind = "mint" THEN pageShown.version ELSE l.version
      /\ own' = IF l.kind = "mint" THEN own ELSE l.version
      /\ pageLoading' = FALSE
      /\ pageLoads' = pageLoads \ {l}
      /\ UNCHANGED <<recordPage, recordKey, pageError, atServer, overtaken>>
  BY DEF CollectionChanged, Got
<1>2. PageTypes /\ WaitingFor /\ ChangesShown BY DEF PagesInv
<1>3. /\ WaitingFor'
      /\ \A x \in pageLoads' : x.kind \in KindsOf(recordPage') /\ x.version \in 0..atServer'
      /\ recordPage = "nft" => pageLoads' = {}
  BY <1>1, RequestLeaves
<1>4. recordPage = "nft" /\ l.version \in 0..atServer BY <1>1, <1>2 DEF PageTypes, KindsOf
<1>5. PageTypes'
 <2>0. atServer \in Nat /\ pageShown.version \in Nat BY <1>2 DEF PageTypes
 <2>1. pageShown'.version \in Nat BY <1>1, <1>4, <2>0
 <2>3. pageLoading' \in BOOLEAN BY <1>1, Zenon
 <2>2. recordPage' \in Pages /\ atServer' \in Nat /\ own' \in 0..atServer' BY <1>1, <1>2, <1>4 DEF PageTypes
 <2> QED BY <1>3, <2>1, <2>2, <2>3 DEF PageTypes
<1>6. PlanShown' /\ ProposalShown' BY <1>1, <1>4 DEF PlanShown, ProposalShown
<1>7. pageShown'.version >= own' BY <1>1, <1>2, <1>4 DEF ChangesShown, PageTypes
<1>8. ChangesShown' BY <1>1, <1>3, <1>4, <1>7 DEF ChangesShown
<1> QED BY <1>3, <1>5, <1>6, <1>8 DEF PagesInv

LEMMA ZeroGAnsweredKeeps ==
  ASSUME PagesInv, NEW l \in pageLoads, ZeroGDemoAnswered(l)
  PROVE  PagesInv'
<1>1. PICK q : q = PageRequest(l.id, "load", recordKey) OBVIOUS
<1>2. q.kind = "load" /\ q.version = 0 /\ ~q.handled /\ q.awaited BY <1>1 DEF PageRequest
<1>3. /\ recordPage = "zerog" /\ l.kind = "act"
      /\ own' = l.version
      /\ overtaken' = (AwaitedLoads # {})
      /\ pageLoads' = (pageLoads \ {l}) \cup {q}
      /\ UNCHANGED <<recordPage, recordKey, pageShown, pageLoading, pageError, atServer>>
  BY <1>1 DEF ZeroGDemoAnswered
<1>4. PageTypes /\ WaitingFor BY DEF PagesInv
<1>5. KindsOf(recordPage) = {"load", "act"} /\ l.version \in 0..atServer BY <1>3, <1>4 DEF KindsOf, PageTypes
<1>6. PageTypes' BY <1>2, <1>3, <1>4, <1>5 DEF PageTypes, KindsOf
<1>7. WaitingFor' BY <1>2, <1>3, <1>4 DEF WaitingFor
<1>8. PlanShown' /\ ProposalShown' BY <1>3 DEF PlanShown, ProposalShown
<1>9. q \in AwaitedLoads' /\ (~overtaken' => AwaitedLoads' = {q}) BY <1>2, <1>3 DEF AwaitedLoads
<1>10. ChangesShown' BY <1>2, <1>3, <1>9 DEF ChangesShown
<1> QED BY <1>6, <1>7, <1>8, <1>10 DEF PagesInv

\* The list is asked anew, or its first load goes on.
LEMMA SkillChangedKeeps ==
  ASSUME PagesInv, NEW l \in pageLoads, SkillChanged(l)
  PROVE  PagesInv'
<1>1. PICK q : q = PageRequest(l.id, "load", recordKey) OBVIOUS
<1>2. q.kind = "load" /\ q.version = 0 /\ ~q.handled /\ q.awaited BY <1>1 DEF PageRequest
<1>3. /\ recordPage = "registry"
      /\ own' = IF l.version > own THEN l.version ELSE own
      /\ pageLoads' = IF overtaken' THEN pageLoads \ {l} ELSE Invalidated(l)
      /\ overtaken' \in BOOLEAN
      /\ UNCHANGED <<recordPage, recordKey, pageShown, pageLoading, pageError, atServer>>
  BY DEF SkillChanged
<1>4. PageTypes /\ WaitingFor BY DEF PagesInv
<1>5. KindsOf(recordPage) = {"load", "act", "publish"} /\ l.version \in 0..atServer
  BY <1>3, <1>4 DEF KindsOf, PageTypes
<1>6. ASSUME NEW x \in Invalidated(l)
      PROVE  \/ x = q
             \/ /\ x.kind \in KindsOf(recordPage) /\ x.version \in 0..atServer
                /\ x.kind = "load" => ~x.awaited
 <2>1. Invalidated(l) = {IF y.kind = "load" THEN [y EXCEPT !.awaited = FALSE] ELSE y :
                            y \in pageLoads \ {l}} \cup {q}
   BY <1>1 DEF Invalidated
 <2>2. CASE x = q BY <2>2
 <2>3. CASE x # q
  <3>1. PICK y \in pageLoads : x = IF y.kind = "load" THEN [y EXCEPT !.awaited = FALSE] ELSE y BY <2>1, <2>3
  <3>2. y.kind \in KindsOf(recordPage) /\ y.version \in 0..atServer BY <1>4 DEF PageTypes
  <3> QED BY <3>1, <3>2
 <2> QED BY <2>2, <2>3
<1>7. q \in Invalidated(l) BY <1>1 DEF Invalidated
<1>8. \A x \in pageLoads' : x.kind \in KindsOf(recordPage) /\ x.version \in 0..atServer
  BY <1>2, <1>4, <1>5, <1>3, <1>6 DEF PageTypes
<1>9. PageTypes' BY <1>3, <1>4, <1>5, <1>8 DEF PageTypes, KindsOf
<1>10. WaitingFor' BY <1>3, <1>4 DEF WaitingFor
<1>11. PlanShown' /\ ProposalShown' BY <1>3 DEF PlanShown, ProposalShown
<1>12. ~overtaken' => AwaitedLoads' = {q} BY <1>2, <1>3, <1>6, <1>7 DEF AwaitedLoads
<1>13. ChangesShown' BY <1>2, <1>3, <1>12 DEF ChangesShown
<1> QED BY <1>9, <1>10, <1>11, <1>13 DEF PagesInv

LEMMA ActionFailsKeeps ==
  ASSUME PagesInv, NEW l \in pageLoads, ActionFails(l)
  PROVE  PagesInv'
<1>1. /\ l.kind # "load" /\ pageLoading' = FALSE
      /\ pageError' = (pageError \/ recordPage = "nft")
      /\ pageLoads' = pageLoads \ {l}
      /\ UNCHANGED <<recordPage, recordKey, pageShown, atServer, own, overtaken>>
  BY DEF ActionFails
<1>2. PageTypes /\ WaitingFor /\ PlanShown /\ ProposalShown /\ ChangesShown BY DEF PagesInv
<1>3. /\ WaitingFor'
      /\ \A x \in pageLoads' : x.kind \in KindsOf(recordPage') /\ x.version \in 0..atServer'
      /\ recordPage = "nft" => pageLoads' = {}
  BY <1>1, RequestLeaves
<1>4. recordPage \notin {"plan", "proposal", "proofs"} BY <1>1, <1>2 DEF PageTypes, KindsOf
<1>5. PageTypes' BY <1>1, <1>2, <1>3 DEF PageTypes
<1>6. PlanShown' /\ ProposalShown' BY <1>1, <1>4 DEF PlanShown, ProposalShown
<1>7. AwaitedLoads' = AwaitedLoads BY <1>1 DEF AwaitedLoads
<1>8. ChangesShown' BY <1>1, <1>2, <1>3, <1>7 DEF ChangesShown
<1> QED BY <1>3, <1>5, <1>6, <1>8 DEF PagesInv

LEMMA StepPages == PagesInv /\ [RecordPagesNext]_recordPagesVars => PagesInv'
<1>1. ASSUME PagesInv,
             UNCHANGED <<recordPage, recordKey, pageLoads, pageShown, pageLoading, pageError,
                         atServer, own, overtaken>>
      PROVE  PagesInv'
  BY <1>1 DEF PagesInv, PageTypes, WaitingFor, PlanShown, ProposalShown, ChangesShown, KindsOf,
              QuietPage, AwaitedLoads
<1>2. ASSUME PagesInv, FillForm \/ FormCleared \/ UNCHANGED recordPagesVars PROVE PagesInv'
  BY <1>1, <1>2, Zenon DEF FillForm, FormCleared, recordPagesVars
<1>3. ASSUME PagesInv, LoadCollection \/ \E kind \in {"create", "freeze", "mint"} : ChangeCollection(kind)
      PROVE  PagesInv'
  BY <1>3, CollectionAsked DEF LoadCollection, ChangeCollection
<1>4. ASSUME PagesInv, RunZeroGDemo \/ ChangeSkill \/ CreateSkill PROVE PagesInv'
  BY <1>4, ActionAsked DEF KindsOf, RunZeroGDemo, ChangeSkill, CreateSkill
<1> QED
  BY <1>2, <1>3, <1>4, ShowPlanKeeps, ShowProposalKeeps, OthersChangeKeeps, HandledKeeps,
     UnheardKeeps, LoadedKeeps, LoadFailsKeeps, CollectionChangedKeeps, ZeroGAnsweredKeeps,
     SkillChangedKeeps, ActionFailsKeeps, Zenon DEF RecordPagesNext

LEMMA RecordsShown == PagesInv => ShownIsAskedFor /\ LoadingIsAwaited /\ OwnChangesShown
<1> SUFFICES ASSUME PagesInv PROVE ShownIsAskedFor /\ LoadingIsAwaited /\ OwnChangesShown OBVIOUS
<1>1. PageTypes /\ WaitingFor /\ PlanShown /\ ProposalShown /\ ChangesShown BY DEF PagesInv
<1>2. ShownIsAskedFor BY <1>1 DEF ShownIsAskedFor, PlanShown, ProposalShown
<1>3. LoadingIsAwaited BY <1>1 DEF LoadingIsAwaited, WaitingFor, QuietPage
<1>4. QuietPage => AwaitedLoads = {} BY DEF QuietPage, AwaitedLoads
<1>5. OwnChangesShown
 <2> SUFFICES ASSUME QuietPage, ~overtaken, ~pageError PROVE pageShown.version >= own BY DEF OwnChangesShown
 <2>1. CASE recordPage \in {"plan", "proposal", "proofs"} BY <1>1, <2>1 DEF ChangesShown, PageTypes
 <2>2. CASE recordPage \notin {"plan", "proposal", "proofs"} BY <1>1, <1>4, <2>2 DEF ChangesShown, PageTypes, Pages
 <2> QED BY <2>1, <2>2
<1> QED BY <1>2, <1>3, <1>5

\* The registry of skills.
SkillUids == Callers \cup {"earlier"}
SkillStatuses == {"draft", "published", "active", "paused", "deprecated", "archived"}
WriteKinds == {"version", "standing", "score", "status", "usage", "migration"}
Ended == {"idle", "done", "failed"}
PastRead == {"find duplicate", "insert version", "set version", "set status", "set standing",
             "set usage"}
Reading == PastRead \cup {"read"}
Asking == {"list", "update", "status", "usage"}

\* What a request is at follows from what it asks.
TurnFits(c) ==
  /\ turn[c] \in Ended \cup Reading \cup {"insert legacy", "set legacy", "insert row", "insert first"}
  /\ turn[c] = "idle" <=> ask[c].op = "none"
  /\ turn[c] \in {"insert row", "insert first"} => ask[c].op = "publish"
  /\ turn[c] \in {"insert legacy", "set legacy", "read"} => ask[c].op \in Asking
  /\ turn[c] \in {"find duplicate", "insert version", "set version"} => ask[c].op = "update"
  /\ turn[c] \in {"set status", "set standing"} => ask[c].op = "status"
  /\ turn[c] = "set usage" => ask[c].op = "usage"
  /\ ask[c].op \in {"update", "status", "usage"} => ask[c].id \in SkillUids /\ shown # {}
  /\ ask[c].op = "update" => ask[c].version \in Nat
  /\ ask[c].op = "publish" => ask[c].status \in SkillStatuses
  /\ ask[c].op = "status" => ask[c].status \in SkillStatuses

SkillTypes ==
  /\ turn = [c \in Callers |-> turn[c]] /\ ask = [c \in Callers |-> ask[c]]
  /\ seen = [c \in Callers |-> seen[c]]
  /\ Len(versions) \in Nat /\ \E S : versions \in Seq(S)
  /\ row.uid \in SkillUids \cup {NoUid} /\ row.version \in Nat
  /\ row.status \in SkillStatuses \cup {"absent"}
  /\ shown \subseteq SkillUids

\* A skill that is not there yet has nothing; who reads meets it with its
\* uid or not at all.
SkillOrder ==
  /\ row.status = "absent" => /\ row.uid = NoUid /\ shown = {} /\ uses = 0
                              /\ \A c \in Callers : turn[c] \in Ended \cup {"insert row", "read"}
  /\ \A c \in Callers : turn[c] = "insert row" => row.status = "absent"
  /\ \A b, c \in Callers : ask[b].op = "publish" /\ ask[c].op = "publish" => b = c
  /\ \A c \in Callers : turn[c] \in Reading => row.status = "absent" \/ row.uid # NoUid
  /\ \A c \in Callers : turn[c] \in PastRead => seen[c].version \in Nat /\ seen[c].status \in SkillStatuses

SkillControl == SkillTypes /\ SkillOrder /\ \A c \in Callers : TurnFits(c)

\* Of two that write the same at once the overlap is in the books.
OneWriter ==
  /\ conflicts \subseteq WriteKinds
  /\ "version" \in conflicts => "standing" \in conflicts
  /\ "migration" \in conflicts => "version" \in conflicts
  /\ \A kind \in WriteKinds : \A b, c \in Busy :
       kind \notin conflicts /\ kind \in Writing(b) /\ kind \in Writing(c) => b = c

\* The uid stays, once there is one.
UidStays ==
  "migration" \notin conflicts =>
    /\ row.uid # NoUid => \A c \in Callers : ~Migrating(c)
    /\ \A c \in Callers : turn[c] \in PastRead => ask[c].id = row.uid
    /\ \A c \in Callers : turn[c] = "insert first" => row.uid = c
    /\ shown \subseteq {row.uid}

IsNewest(i) == i \in Current /\ \A j \in Current : j <= i
LastRow == versions[Len(versions)]
Unfinished(c) ==
  \/ turn[c] = "insert first"
  \/ turn[c] = "set version" /\ NextVersion(c) = row.version

\* The newest row of the current version has the hash of the skill, but
\* while its writer is between its two statements.
VersionsMatch ==
  /\ row.uid = NoUid => row.version = 1 /\ row.hash = ContentHash(NoContent, 1)
  /\ "version" \notin conflicts =>
       /\ row.uid # NoUid => row.account = <<row.uid, row.version>>
       /\ \A c \in Callers : turn[c] = "insert first" =>
            row.version = 1 /\ row.hash = ContentHash(ask[c].content, 1)
       /\ \A c \in Callers : turn[c] = "set version" =>
            /\ Len(versions) > 0 /\ LastRow.uid = ask[c].id
            /\ LastRow.version = NextVersion(c) /\ LastRow.hash = NewHash(c)
       /\ \A c \in Callers : turn[c] = "set legacy" =>
            /\ Len(versions) > 0 /\ LastRow.uid = c
            /\ LastRow.version = 1 /\ LastRow.hash = ContentHash(NoContent, 1)
       /\ row.uid # NoUid /\ (\A c \in Callers : ~Unfinished(c)) =>
            \E i \in Current : IsNewest(i) /\ versions[i].hash = row.hash

\* The same of its status.
StandingMatches ==
  "standing" \notin conflicts =>
    /\ \A c \in Callers : turn[c] = "insert first" => row.status = ask[c].status
    /\ \A c \in Callers : turn[c] \in PastRead /\ ask[c].op = "update" => seen[c].status = row.status
    /\ \A c \in Callers : turn[c] \in PastRead /\ ask[c].op = "status" => seen[c].account = row.account
    /\ \A c \in Callers : turn[c] = "set version" => LastRow.status = seen[c].status
    /\ \A c \in Callers : turn[c] = "set standing" => row.status = ask[c].status
    /\ row.uid \in DidPublish /\ (\A c \in Callers : turn[c] \notin {"insert first", "set standing"}) =>
         \A i \in Current : IsNewest(i) => versions[i].status = row.status

CountsFit(r) ==
  /\ r.usage \in Nat /\ r.success \in Nat /\ r.failure \in Nat
  /\ r.usage = r.success + r.failure /\ r.usage <= uses

\* Counts and scores, as they were read and as they are.
CountsMatch ==
  /\ uses \in Nat /\ CountsFit(row)
  /\ \A c \in Callers : turn[c] \in PastRead => CountsFit(seen[c])
  /\ "usage" \notin conflicts =>
       /\ row.usage = uses
       /\ \A c \in Callers : turn[c] = "set usage" => seen[c].usage = row.usage

ScoreOf(r, age) ==
  ScoreColumn(CalcReputation(r.usage, SuccessRate(r.success, r.failure),
                             RecencyWeight(r.usage > 0, age)))
ScoreOfSomeAge == \E age \in Ages : row.score = ScoreOf(row, age)
SameCounts(r, s) == r.usage = s.usage /\ r.success = s.success /\ r.failure = s.failure

ScoreMatches ==
  "score" \notin conflicts =>
    /\ row.usage > 0 => ScoreOfSomeAge
    /\ \A c \in Callers : turn[c] \in PastRead /\ ask[c].op = "update" => SameCounts(seen[c], row)

RegistryInv ==
  /\ SkillControl /\ OneWriter /\ UidStays /\ VersionsMatch /\ StandingMatches
  /\ CountsMatch /\ ScoreMatches

\* A rate is a number, and what is rounded to hundredths and then to units is half a unit
\* and half a hundredth away at most.
LEMMA RateIsNat ==
  ASSUME NEW successes \in Nat, NEW failures \in Nat
  PROVE  SuccessRate(successes, failures) \in Nat
<1>1. CASE successes + failures = 0 BY <1>1 DEF SuccessRate
<1>2. CASE successes + failures # 0
 <2>1. PICK n, d : n = 20000 * successes + successes + failures /\ d = 2 * (successes + failures) OBVIOUS
 <2>2. n \in Nat /\ d \in Nat \ {0} BY <1>2, <2>1
 <2>3. n \div d \in Nat BY <2>2
 <2>4. SuccessRate(successes, failures) = n \div d
  <3>1. 2 * (10000 * successes) + (successes + failures) = n BY <2>1
  <3> QED BY <1>2, <2>1, <3>1 DEF SuccessRate, InUnits
 <2> QED BY <2>3, <2>4
<1> QED BY <1>1, <1>2

Near(score, sum) == 10000 * score \in sum - 5050 .. sum + 5050

LEMMA RoundedTwice ==
  ASSUME NEW sum \in Nat, NEW score, score = InUnits(InUnits(sum, 100), 100)
  PROVE  score \in Nat /\ Near(score, sum)
<1>1. PICK q : q = (2 * sum + 100) \div 200 OBVIOUS
<1>2. q \in Nat /\ 200 * q <= 2 * sum + 100 /\ 2 * sum + 100 < 200 * q + 200 BY <1>1, SMT
<1>3. PICK w : w = (2 * q + 100) \div 200 OBVIOUS
<1>4. w \in Nat /\ 200 * w <= 2 * q + 100 /\ 2 * q + 100 < 200 * w + 200 BY <1>2, <1>3, SMT
<1>5. 10000 * w \in sum - 5050 .. sum + 5050 BY <1>2, <1>4, SMT
<1>6. score = w BY <1>1, <1>3, SMT DEF InUnits
<1> QED BY <1>4, <1>5, <1>6, SMT DEF Near

LEMMA Appended ==
  ASSUME NEW v, NEW x, Len(v) \in Nat, \E S : v \in Seq(S)
  PROVE  /\ Len(Append(v, x)) = Len(v) + 1 /\ Append(v, x)[Len(v) + 1] = x
         /\ \A i \in 1..Len(v) : Append(v, x)[i] = v[i]
         /\ \E S : Append(v, x) \in Seq(S)
<1>1. PICK S : v \in Seq(S) OBVIOUS
<1>2. v \in Seq(S \cup {x}) BY <1>1
<1>3. Append(v, x) \in Seq(S \cup {x}) BY <1>2
<1> QED BY <1>2, <1>3

\* One request goes on; the others stay where they are.
LEMMA TurnsMove ==
  ASSUME SkillTypes, NEW c \in Callers, NEW next, TurnsTo(c, next)
  PROVE  /\ turn'[c] = next /\ \A d \in Callers : d # c => turn'[d] = turn[d]
         /\ turn' = [d \in Callers |-> turn'[d]]
BY DEF SkillTypes, TurnsTo

\* What each kind of request writes.
LEMMA WritesWhat ==
  ASSUME NEW op, NEW m \in BOOLEAN
  PROVE  /\ Writes(op, m) \subseteq WriteKinds
         /\ "version" \in Writes(op, m) => "standing" \in Writes(op, m)
         /\ "migration" \in Writes(op, m) <=> m
         /\ m => "version" \in Writes(op, m)
         /\ op \in {"publish", "update"} => "version" \in Writes(op, m)
         /\ op = "status" => "standing" \in Writes(op, m)
         /\ op = "usage" => {"usage", "score"} \subseteq Writes(op, m)
         /\ op = "update" => "score" \in Writes(op, m)
<1>1. CASE m BY <1>1 DEF Writes, WriteKinds
<1>2. CASE ~m BY <1>2 DEF Writes, WriteKinds
<1> QED BY <1>1, <1>2

LEMMA WritingWhat ==
  ASSUME NEW c \in Callers
  PROVE  /\ Writing(c) \subseteq WriteKinds
         /\ "version" \in Writing(c) => "standing" \in Writing(c)
         /\ "migration" \in Writing(c) <=> Migrating(c)
         /\ Migrating(c) => "version" \in Writing(c)
         /\ ask[c].op \in {"publish", "update"} => "version" \in Writing(c)
         /\ ask[c].op = "status" => "standing" \in Writing(c)
         /\ ask[c].op = "usage" => {"usage", "score"} \subseteq Writing(c)
         /\ ask[c].op = "update" => "score" \in Writing(c)
<1> DEFINE m == Migrating(c)
<1>1. m \in BOOLEAN BY DEF Migrating
<1>2. Writing(c) = Writes(ask[c].op, m) BY DEF Writing
<1> HIDE DEF m
<1>3. /\ Writes(ask[c].op, m) \subseteq WriteKinds
      /\ "version" \in Writes(ask[c].op, m) => "standing" \in Writes(ask[c].op, m)
      /\ "migration" \in Writes(ask[c].op, m) <=> m
      /\ m => "version" \in Writes(ask[c].op, m)
      /\ ask[c].op \in {"publish", "update"} => "version" \in Writes(ask[c].op, m)
      /\ ask[c].op = "status" => "standing" \in Writes(ask[c].op, m)
      /\ ask[c].op = "usage" => {"usage", "score"} \subseteq Writes(ask[c].op, m)
      /\ ask[c].op = "update" => "score" \in Writes(ask[c].op, m)
  BY <1>1, WritesWhat
<1> QED BY <1>2, <1>3, Zenon DEF m

WritesVersion(c) ==
  turn[c] \in {"insert legacy", "set legacy", "insert row", "insert first",
               "find duplicate", "insert version", "set version"}
WritesStanding(c) == WritesVersion(c) \/ turn[c] \in {"set status", "set standing"}
WritesScore(c) == turn[c] \in {"find duplicate", "insert version", "set version", "set usage"}

\* As long as the books say nothing, the writer is alone.
LEMMA Alone ==
  ASSUME SkillControl, OneWriter, NEW b \in Callers, NEW c \in Callers
  PROVE  /\ "migration" \notin conflicts /\ Migrating(b) /\ Migrating(c) => b = c
         /\ "version" \notin conflicts /\ WritesVersion(b) /\ WritesVersion(c) => b = c
         /\ "standing" \notin conflicts /\ WritesStanding(b) /\ WritesStanding(c) => b = c
         /\ "usage" \notin conflicts /\ turn[b] = "set usage" /\ turn[c] = "set usage" => b = c
         /\ "score" \notin conflicts /\ WritesScore(b) /\ WritesScore(c) => b = c
<1>1. ASSUME NEW d \in Callers
      PROVE  /\ Migrating(d) => d \in Busy /\ "migration" \in Writing(d)
             /\ WritesVersion(d) => d \in Busy /\ "version" \in Writing(d)
             /\ WritesStanding(d) => d \in Busy /\ "standing" \in Writing(d)
             /\ turn[d] = "set usage" => d \in Busy /\ "usage" \in Writing(d)
             /\ WritesScore(d) => d \in Busy /\ "score" \in Writing(d)
 <2>1. TurnFits(d) BY DEF SkillControl
 <2>2. turn[d] \notin Ended => d \in Busy BY DEF Busy, Ended
 <2>3. Migrating(d) => d \in Busy /\ "migration" \in Writing(d) BY <2>2, WritingWhat DEF Migrating, Ended
 <2>4. WritesVersion(d) => d \in Busy /\ "version" \in Writing(d)
   BY <2>1, <2>2, WritingWhat DEF WritesVersion, TurnFits, Migrating, Ended
 <2>5. WritesStanding(d) => d \in Busy /\ "standing" \in Writing(d)
   BY <2>1, <2>2, <2>4, WritingWhat DEF WritesStanding, TurnFits, Ended
 <2>6. turn[d] = "set usage" => d \in Busy /\ "usage" \in Writing(d) BY <2>1, <2>2, WritingWhat DEF TurnFits, Ended
 <2>7. WritesScore(d) => d \in Busy /\ "score" \in Writing(d)
   BY <2>1, <2>2, WritingWhat DEF WritesScore, TurnFits, Ended
 <2> QED BY <2>3, <2>4, <2>5, <2>6, <2>7
<1>2. ASSUME NEW kind \in WriteKinds, kind \notin conflicts, b \in Busy, c \in Busy,
             kind \in Writing(b), kind \in Writing(c)
      PROVE  b = c
  BY <1>2 DEF OneWriter
<1> QED BY <1>1, <1>2 DEF WriteKinds

\* A request begins.
RequestOf(c, asked, next, migrates) ==
  /\ Starts(c, asked, next, migrates)
  /\ next = (IF migrates THEN "insert legacy" ELSE IF asked.op = "publish" THEN "insert row" ELSE "read")
  /\ IF asked.op = "publish"
     THEN row.status = "absent" /\ ~migrates /\ \A b \in Callers : ask[b].op # "publish"
     ELSE asked.op \in Asking /\ migrates = Legacy
  /\ asked.op \in {"update", "status", "usage"} => asked.id \in SkillUids /\ shown # {}
  /\ asked.op = "update" => asked.version \in Nat
  /\ asked.op \in {"publish", "status"} => asked.status \in SkillStatuses
  /\ UNCHANGED <<row, versions, seen, shown, uses>>

Begun(c) ==
  \E asked, next : \E migrates \in BOOLEAN : RequestOf(c, asked, next, migrates)

LEMMA AsksBegins ==
  ASSUME SkillTypes, NEW c \in Callers, NEW asked, Asks(c, asked), asked.op \in Asking,
         asked.op # "list" => asked.id \in SkillUids /\ shown # {},
         asked.op = "update" => asked.version \in Nat,
         asked.op = "status" => asked.status \in SkillStatuses
  PROVE  Begun(c)
<1> DEFINE next == IF Legacy THEN "insert legacy" ELSE "read"
<1>1. Legacy \in BOOLEAN BY DEF Legacy
<1>2. asked.op # "publish" /\ (asked.op \in {"update", "status", "usage"} => asked.op # "list") BY DEF Asking
<1>3. Starts(c, asked, next, Legacy) /\ UNCHANGED <<row, versions, seen, shown, uses>> BY Zenon DEF Asks
<1>4. next = (IF Legacy THEN "insert legacy" ELSE IF asked.op = "publish" THEN "insert row" ELSE "read") BY <1>2
<1> HIDE DEF next
<1>5. asked.op \in {"publish", "status"} => asked.status \in SkillStatuses BY <1>2
<1>6. RequestOf(c, asked, next, Legacy) BY <1>2, <1>3, <1>4, <1>5, Zenon DEF RequestOf
<1> QED BY <1>1, <1>6, Zenon DEF Begun

LEMMA RequestBegins ==
  ASSUME SkillTypes, NEW c \in Callers,
         \/ \E content \in Contents, status \in {"published", "draft"} : Publish(c, content, status)
         \/ List(c)
         \/ \E id \in shown :
              \/ \E content \in Contents, version_ \in 0..MaxVersion : Update(c, id, content, version_)
              \/ \E status \in Asked : SetStatus(c, id, status)
              \/ \E success \in BOOLEAN : RecordUsage(c, id, success)
  PROVE  Begun(c)
<1>1. ASSUME NEW content \in Contents, NEW status \in {"published", "draft"}, Publish(c, content, status)
      PROVE  Begun(c)
 <2>1. PICK asked : asked = [NoAsk EXCEPT !.op = "publish", !.content = content, !.status = status] OBVIOUS
 <2>2. asked.op = "publish" /\ asked.status \in SkillStatuses BY <2>1 DEF NoAsk, SkillStatuses
 <2>3. /\ Starts(c, asked, "insert row", FALSE) /\ row.status = "absent"
       /\ \A b \in Callers : ask[b].op # "publish"
       /\ UNCHANGED <<row, versions, seen, shown, uses>>
   BY <1>1, <2>1 DEF Publish
 <2>4. RequestOf(c, asked, "insert row", FALSE) BY <2>2, <2>3 DEF RequestOf
 <2> QED BY <2>4, Zenon DEF Begun
<1>2. ASSUME List(c) PROVE Begun(c)
 <2>1. PICK asked : asked = [NoAsk EXCEPT !.op = "list"] OBVIOUS
 <2>2. asked.op = "list" BY <2>1 DEF NoAsk
 <2> QED BY <1>2, <2>1, <2>2, AsksBegins DEF List, Asking
<1>3. ASSUME NEW id \in shown, NEW content \in Contents, NEW v \in 0..MaxVersion, Update(c, id, content, v)
      PROVE  Begun(c)
 <2>1. PICK asked : asked = [NoAsk EXCEPT !.op = "update", !.id = id, !.content = content, !.version = v] OBVIOUS
 <2>2. asked.op = "update" /\ asked.id \in SkillUids /\ asked.version \in Nat BY <2>1 DEF NoAsk, SkillTypes
 <2> QED BY <1>3, <2>1, <2>2, AsksBegins DEF Update, Asking
<1>4. ASSUME NEW id \in shown, NEW status \in Asked, SetStatus(c, id, status)
      PROVE  Begun(c)
 <2>1. PICK asked : asked = [NoAsk EXCEPT !.op = "status", !.id = id, !.status = status] OBVIOUS
 <2>2. asked.op = "status" /\ asked.id \in SkillUids /\ asked.status \in SkillStatuses
   BY <2>1 DEF NoAsk, SkillTypes, Asked, SkillStatuses
 <2> QED BY <1>4, <2>1, <2>2, AsksBegins DEF SetStatus, Asking
<1>5. ASSUME NEW id \in shown, NEW success \in BOOLEAN, RecordUsage(c, id, success)
      PROVE  Begun(c)
 <2>1. PICK asked : asked = [NoAsk EXCEPT !.op = "usage", !.id = id, !.success = success] OBVIOUS
 <2>2. asked.op = "usage" /\ asked.id \in SkillUids BY <2>1 DEF NoAsk, SkillTypes
 <2>3. Asks(c, asked) BY <1>5, <2>1 DEF RecordUsage
 <2> QED BY <2>2, <2>3, AsksBegins DEF Asking
<1> QED BY <1>1, <1>2, <1>3, <1>4, <1>5, Zenon

\* What holds of a request that has begun.
LEMMA BegunHolds ==
  ASSUME SkillControl, NEW c \in Callers, Begun(c)
  PROVE  /\ turn[c] = "idle" /\ turn'[c] \in {"insert legacy", "insert row", "read"}
         /\ \A d \in Callers : d # c => turn'[d] = turn[d] /\ ask'[d] = ask[d]
         /\ UNCHANGED <<row, versions, seen, shown, uses>>
         /\ conflicts' = conflicts \cup UNION {Writing(b) \cap Writing(c)' : b \in Busy}
         /\ SkillControl'
         /\ turn'[c] = "insert legacy" => row.uid = NoUid
<1>1. PICK asked, next : \E migrates \in BOOLEAN : RequestOf(c, asked, next, migrates) BY DEF Begun
<1>2. PICK migrates \in BOOLEAN : RequestOf(c, asked, next, migrates) BY <1>1
<1>3. SkillTypes /\ SkillOrder /\ \A d \in Callers : TurnFits(d) BY DEF SkillControl
<1>4. /\ turn[c] = "idle"
      /\ ask' = [ask EXCEPT ![c] = asked] /\ turn' = [turn EXCEPT ![c] = next]
      /\ conflicts' = conflicts \cup UNION {Writing(b) \cap Writes(asked.op, migrates) : b \in Busy}
      /\ UNCHANGED <<row, versions, seen, shown, uses>>
  BY <1>2 DEF RequestOf, Starts
<1>5. /\ ask'[c] = asked /\ turn'[c] = next
      /\ \A d \in Callers : d # c => turn'[d] = turn[d] /\ ask'[d] = ask[d]
      /\ turn' = [d \in Callers |-> turn'[d]] /\ ask' = [d \in Callers |-> ask'[d]]
  BY <1>3, <1>4 DEF SkillTypes
<1>6. /\ next = (IF migrates THEN "insert legacy" ELSE IF asked.op = "publish" THEN "insert row" ELSE "read")
      /\ IF asked.op = "publish"
         THEN row.status = "absent" /\ ~migrates /\ \A b \in Callers : ask[b].op # "publish"
         ELSE asked.op \in Asking /\ migrates = Legacy
      /\ asked.op \in {"update", "status", "usage"} => asked.id \in SkillUids /\ shown # {}
      /\ asked.op = "update" => asked.version \in Nat
      /\ asked.op \in {"publish", "status"} => asked.status \in SkillStatuses
  BY <1>2 DEF RequestOf
<1>7. CASE asked.op = "publish"
 <2>1. next = "insert row" /\ row.status = "absent" /\ ~migrates /\ \A b \in Callers : ask[b].op # "publish"
   BY <1>6, <1>7
 <2>2. TurnFits(c)' BY <1>5, <1>6, <1>7, <2>1 DEF TurnFits, Ended, Reading, PastRead, Asking
 <2>3. \A d \in Callers : d # c => TurnFits(d)' BY <1>3, <1>4, <1>5 DEF TurnFits
 <2>4. SkillTypes' BY <1>3, <1>4, <1>5 DEF SkillTypes
 <2>5. SkillOrder' BY <1>3, <1>4, <1>5, <1>7, <2>1, ZenonT(30) DEF SkillOrder, Reading, PastRead
 <2>6. Writing(c)' = Writes(asked.op, migrates) BY <1>6, <2>1, <1>5 DEF Writing, Migrating, Writes
 <2>7. conflicts' = conflicts \cup UNION {Writing(b) \cap Writing(c)' : b \in Busy} BY <1>4, <2>6, Zenon
 <2>8. SkillControl' BY <2>2, <2>3, <2>4, <2>5 DEF SkillControl
 <2> QED BY <1>4, <1>5, <2>1, <2>7, <2>8, Zenon
<1>8. CASE asked.op # "publish" /\ migrates
 <2>1. next = "insert legacy" /\ row.uid = NoUid /\ row.status # "absent" /\ asked.op \in Asking
   BY <1>6, <1>8 DEF Legacy
 <2>2. TurnFits(c)' BY <1>4, <1>5, <1>6, <2>1 DEF TurnFits, Ended, Reading, PastRead, Asking
 <2>3. \A d \in Callers : d # c => TurnFits(d)' BY <1>3, <1>4, <1>5 DEF TurnFits
 <2>4. SkillTypes' BY <1>3, <1>4, <1>5 DEF SkillTypes
 <2>5. SkillOrder' BY <1>3, <1>4, <1>5, <2>1, ZenonT(30) DEF SkillOrder, Reading, PastRead, Asking
 <2>6. Writing(c)' = Writes(asked.op, migrates) BY <1>5, <1>8, <2>1, Zenon DEF Writing, Migrating
 <2>7. conflicts' = conflicts \cup UNION {Writing(b) \cap Writing(c)' : b \in Busy} BY <1>4, <2>6, Zenon
 <2>8. SkillControl' BY <2>2, <2>3, <2>4, <2>5 DEF SkillControl
 <2> QED BY <1>4, <1>5, <2>1, <2>7, <2>8, Zenon
<1>9. CASE asked.op # "publish" /\ ~migrates
 <2>1. next = "read" /\ ~migrates /\ (row.uid # NoUid \/ row.status = "absent") /\ asked.op \in Asking
   BY <1>6, <1>9 DEF Legacy
 <2>2. TurnFits(c)' BY <1>4, <1>5, <1>6, <2>1 DEF TurnFits, Ended, Reading, PastRead, Asking
 <2>3. \A d \in Callers : d # c => TurnFits(d)' BY <1>3, <1>4, <1>5 DEF TurnFits
 <2>4. SkillTypes' BY <1>3, <1>4, <1>5 DEF SkillTypes
 <2>5. SkillOrder'
  <3>1. UNCHANGED <<row, seen, shown, uses>> /\ ask'[c].op # "publish" BY <1>4, <1>5, <2>1 DEF Asking
  <3>2. \A d \in Callers : turn'[d] = turn[d] \/ turn'[d] = "read" BY <1>5, <2>1
  <3>3. \A d \in Callers : ask'[d].op = "publish" => ask[d].op = "publish" BY <1>5, <3>1
  <3> QED BY <1>3, <2>1, <3>1, <3>2, <3>3 DEF SkillOrder, Reading, PastRead, Ended
 <2>6. Writing(c)' = Writes(asked.op, migrates) BY <1>6, <2>1, <1>5 DEF Writing, Migrating, Writes
 <2>7. conflicts' = conflicts \cup UNION {Writing(b) \cap Writing(c)' : b \in Busy} BY <1>4, <2>6, Zenon
 <2>8. SkillControl' BY <2>2, <2>3, <2>4, <2>5 DEF SkillControl
 <2> QED BY <1>4, <1>5, <2>1, <2>7, <2>8, Zenon
<1> QED BY <1>7, <1>8, <1>9

Proceeding(c, next) ==
  /\ TurnsTo(c, next) /\ turn[c] \notin Ended
  /\ UNCHANGED ask
  /\ \A d \in Callers : d # c => seen'[d] = seen[d]

\* A request goes on: its skill is neither made nor lost.
LEMMA ControlMoves ==
  ASSUME SkillControl, NEW c \in Callers, NEW next, Proceeding(c, next),
         row'.uid = row.uid \/ row'.uid \in Callers,
         row'.version \in Nat, row'.status \in SkillStatuses \cup {"absent"},
         row'.status = "absent" <=> row.status = "absent",
         row.status = "absent" => /\ row'.uid = row.uid /\ uses' = uses /\ shown' = shown
                                  /\ next \in Ended \cup {"read"},
         shown \subseteq shown', shown' \subseteq SkillUids,
         seen' = [d \in Callers |-> seen'[d]],
         TurnFits(c)', next # "insert row",
         next \in Reading => row.status = "absent" \/ row'.uid # NoUid,
         next \in PastRead => seen'[c].version \in Nat /\ seen'[c].status \in SkillStatuses,
         Len(versions') \in Nat, \E S : versions' \in Seq(S)
  PROVE  SkillControl'
<1>1. SkillTypes /\ SkillOrder /\ \A d \in Callers : TurnFits(d) BY DEF SkillControl
<1>2. /\ turn'[c] = next /\ \A d \in Callers : d # c => turn'[d] = turn[d]
      /\ turn' = [d \in Callers |-> turn'[d]]
  BY <1>1, TurnsMove DEF Proceeding
<1>3. ask' = ask /\ \A d \in Callers : d # c => seen'[d] = seen[d] BY DEF Proceeding
<1>4. ask' = [d \in Callers |-> ask'[d]] BY <1>1, <1>3 DEF SkillTypes
<1>5. row'.uid \in SkillUids \cup {NoUid} BY <1>1 DEF SkillTypes, SkillUids
<1>6. SkillTypes' BY <1>2, <1>4, <1>5 DEF SkillTypes
<1>7. \A d \in Callers : TurnFits(d)'
 <2> SUFFICES ASSUME NEW d \in Callers, d # c PROVE TurnFits(d)' OBVIOUS
 <2>1. TurnFits(d) /\ turn'[d] = turn[d] /\ ask'[d] = ask[d] BY <1>1, <1>2, <1>3
 <2>2. shown # {} => shown' # {} OBVIOUS
 <2> QED BY <2>1, <2>2 DEF TurnFits
<1>8. row.uid # NoUid => row'.uid # NoUid BY RegistryAssumption DEF RegistryAssumption, NoUid
<1>9. SkillOrder'
 <2>1. (row.status = "absent" => /\ row.uid = NoUid /\ shown = {} /\ uses = 0
                                 /\ \A d \in Callers : turn[d] \in Ended \cup {"insert row", "read"})'
   BY <1>1, <1>2 DEF SkillOrder
 <2>2. (\A d \in Callers : turn[d] = "insert row" => row.status = "absent")' BY <1>1, <1>2 DEF SkillOrder
 <2>3. (\A a, b \in Callers : ask[a].op = "publish" /\ ask[b].op = "publish" => a = b)' BY <1>1, <1>3 DEF SkillOrder
 <2>4. (\A d \in Callers : turn[d] \in Reading => row.status = "absent" \/ row.uid # NoUid)'
   BY <1>1, <1>2, <1>8 DEF SkillOrder
 <2>5. (\A d \in Callers : turn[d] \in PastRead => seen[d].version \in Nat /\ seen[d].status \in SkillStatuses)'
   BY <1>1, <1>2, <1>3 DEF SkillOrder
 <2> QED BY <2>1, <2>2, <2>3, <2>4, <2>5, Zenon DEF SkillOrder
<1> QED BY <1>6, <1>7, <1>9 DEF SkillControl

\* What every step of one request is in its turn.
Turnings(c) ==
  \/ InsertLegacyVersion(c) \/ SetLegacyRow(c) \/ InsertRow(c) \/ InsertFirstVersion(c)
  \/ ReadList(c) \/ ReadRow(c) \/ FindDuplicate(c) \/ InsertVersion(c) \/ SetVersion(c)
  \/ SetRowStatus(c) \/ SetVersionStatus(c) \/ SetUsage(c) \/ StatementFails(c)

\* Of the turns that read or end.
LEMMA QuietTurnControl ==
  ASSUME SkillControl, NEW c \in Callers, NEW next, TurnsTo(c, next), turn[c] \notin Ended,
         next \in Ended \/ (next = "insert version" /\ turn[c] = "find duplicate"),
         next # "idle", UNCHANGED <<row, versions, ask, seen, shown, uses>>
  PROVE  SkillControl'
<1>1. SkillTypes /\ SkillOrder /\ TurnFits(c) BY DEF SkillControl
<1>2. Proceeding(c, next) /\ turn'[c] = next BY <1>1, TurnsMove DEF Proceeding
<1>3. TurnFits(c)' BY <1>1, <1>2 DEF TurnFits, Ended, Reading, PastRead, Asking
<1>4. /\ row.status = "absent" => next \in Ended
      /\ next \in Reading => row.uid # NoUid
      /\ next \in PastRead => seen[c].version \in Nat /\ seen[c].status \in SkillStatuses
  BY <1>1 DEF SkillOrder, Ended, Reading, PastRead
<1>5. /\ row.uid \in SkillUids \cup {NoUid} /\ row.version \in Nat /\ row.status \in SkillStatuses \cup {"absent"}
      /\ shown \subseteq SkillUids /\ seen = [d \in Callers |-> seen[d]]
      /\ Len(versions) \in Nat /\ \E S : versions \in Seq(S)
  BY <1>1 DEF SkillTypes
<1>6. next # "insert row" BY DEF Ended
<1> QED BY <1>2, <1>3, <1>4, <1>5, <1>6, ControlMoves

\* Of those that write versions.
LEMMA VersionsTurnControl ==
  ASSUME SkillControl, NEW c \in Callers, NEW next, TurnsTo(c, next),
         \/ turn[c] = "insert legacy" /\ next = "set legacy" /\ shown' = shown
         \/ turn[c] = "insert first" /\ next = "done" /\ shown' = shown \cup {c}
         \/ turn[c] = "insert version" /\ next = "set version" /\ shown' = shown
         \/ turn[c] = "set standing" /\ next = "done" /\ shown' = shown,
         UNCHANGED <<row, ask, seen, uses>>,
         Len(versions') \in Nat, \E S : versions' \in Seq(S)
  PROVE  SkillControl'
<1>1. SkillTypes /\ SkillOrder /\ TurnFits(c) BY DEF SkillControl
<1>2. Proceeding(c, next) /\ turn'[c] = next BY <1>1, TurnsMove DEF Proceeding, Ended
<1>3. shown' \subseteq SkillUids /\ shown \subseteq shown' BY <1>1 DEF SkillTypes, SkillUids
<1>4. TurnFits(c)' BY <1>1, <1>2, <1>3 DEF TurnFits, Ended, Reading, PastRead, Asking
<1>5. row.status # "absent" BY <1>1 DEF SkillOrder, Ended
<1>6. /\ next \in Reading => row.uid # NoUid
      /\ next \in PastRead => seen[c].version \in Nat /\ seen[c].status \in SkillStatuses
  BY <1>1, <1>5 DEF SkillOrder, Reading, PastRead
<1>7. /\ row.uid \in SkillUids \cup {NoUid} /\ row.version \in Nat /\ row.status \in SkillStatuses \cup {"absent"}
      /\ seen = [d \in Callers |-> seen[d]]
  BY <1>1 DEF SkillTypes
<1>8. next # "insert row" OBVIOUS
<1> QED BY <1>2, <1>3, <1>4, <1>5, <1>6, <1>7, <1>8, ControlMoves

\* And of those that write the row.
LEMMA RowTurnControl ==
  ASSUME SkillControl, NEW c \in Callers, NEW next, TurnsTo(c, next),
         \/ turn[c] = "set legacy" /\ next = "read" /\ row'.uid = c /\ row'.status = row.status
         \/ turn[c] = "set version" /\ next = "done" /\ row'.uid = row.uid /\ row'.status = row.status
         \/ /\ turn[c] = "set status" /\ next = "set standing" /\ row'.uid = row.uid
            /\ row'.status = ask[c].status
         \/ turn[c] = "set usage" /\ next = "done" /\ row'.uid = row.uid /\ row'.status = row.status,
         row'.version \in Nat, UNCHANGED <<versions, ask, seen, shown>>
  PROVE  SkillControl'
<1>1. SkillTypes /\ SkillOrder /\ TurnFits(c) BY DEF SkillControl
<1>2. Proceeding(c, next) /\ turn'[c] = next BY <1>1, TurnsMove DEF Proceeding, Ended
<1>3. row.status # "absent" BY <1>1 DEF SkillOrder, Ended
<1>4. row'.status \in SkillStatuses \cup {"absent"} /\ row'.status # "absent"
  BY <1>1, <1>3 DEF SkillTypes, TurnFits, SkillStatuses
<1>5. TurnFits(c)' BY <1>1, <1>2 DEF TurnFits, Ended, Reading, PastRead, Asking
<1>6. c # NoUid BY RegistryAssumption DEF RegistryAssumption, NoUid
<1>7. /\ next \in Reading => row'.uid # NoUid
      /\ next \in PastRead => seen[c].version \in Nat /\ seen[c].status \in SkillStatuses
  BY <1>1, <1>3, <1>6 DEF SkillOrder, Reading, PastRead
<1>8. /\ shown \subseteq SkillUids /\ seen = [d \in Callers |-> seen[d]]
      /\ Len(versions) \in Nat /\ \E S : versions \in Seq(S)
  BY <1>1 DEF SkillTypes
<1>9. next # "insert row" /\ (row'.uid = row.uid \/ row'.uid \in Callers) OBVIOUS
<1> QED BY <1>2, <1>3, <1>4, <1>5, <1>7, <1>8, <1>9, ControlMoves

\* The same rows, some with another status.
LEMMA StandingSeq ==
  ASSUME Len(versions) \in Nat, NEW c
  PROVE  /\ Len(WithStanding(c)) = Len(versions)
         /\ \E S : WithStanding(c) \in Seq(S)
         /\ \A i \in 1..Len(versions) :
              /\ WithStanding(c)[i].uid = versions[i].uid
              /\ WithStanding(c)[i].version = versions[i].version
              /\ WithStanding(c)[i].hash = versions[i].hash
              /\ WithStanding(c)[i].status =
                   IF versions[i].uid = ask[c].id /\ <<versions[i].uid, versions[i].version>> = seen[c].account
                   THEN ask[c].status ELSE versions[i].status
<1> DEFINE v(i) == IF versions[i].uid = ask[c].id /\ <<versions[i].uid, versions[i].version>> = seen[c].account
                   THEN [versions[i] EXCEPT !.status = ask[c].status] ELSE versions[i]
           n == Len(versions)
           S == {v(i) : i \in 1..n}
<1>1. WithStanding(c) = [i \in 1..n |-> v(i)] BY DEF WithStanding
<1>2. \A i \in 1..n : /\ v(i).uid = versions[i].uid /\ v(i).version = versions[i].version
                      /\ v(i).hash = versions[i].hash
                      /\ v(i).status = IF versions[i].uid = ask[c].id
                                             /\ <<versions[i].uid, versions[i].version>> = seen[c].account
                                        THEN ask[c].status ELSE versions[i].status
  OBVIOUS
<1> HIDE DEF v
<1>3. WithStanding(c) \in Seq(S) /\ Len(WithStanding(c)) = n BY <1>1
<1>4. \A i \in 1..n : WithStanding(c)[i] = v(i) BY <1>1
<1> QED BY <1>2, <1>3, <1>4

LEMMA NatNext ==
  \A n \in Nat : n + 1 \in Nat
OBVIOUS

LEMMA NextVersionIsNat ==
  ASSUME SkillControl, NEW c \in Callers, turn[c] \in {"insert version", "set version", "find duplicate"}
  PROVE  NextVersion(c) \in Nat
<1>1. SkillOrder /\ TurnFits(c) BY DEF SkillControl
<1>2. seen[c].version \in Nat /\ ask[c].version \in Nat BY <1>1 DEF SkillOrder, TurnFits, PastRead
<1>3. PICK a, b : a = ask[c].version /\ b = seen[c].version /\ a \in Nat /\ b \in Nat BY <1>2
<1>4. NextVersion(c) = IF a # 0 THEN a ELSE b + 1 BY <1>3 DEF NextVersion
<1>5. CASE a # 0 BY <1>3, <1>4, <1>5
<1>6. CASE a = 0 BY <1>4, <1>6, <1>3, NatNext
<1> QED BY <1>5, <1>6

\* What an update and a usage set of the row, and what they leave.
LEMMA UpdatedRowIs ==
  ASSUME NEW c, NEW age
  PROVE  /\ UpdatedRow(c, age).uid = row.uid /\ UpdatedRow(c, age).status = row.status
         /\ UpdatedRow(c, age).version = NextVersion(c) /\ UpdatedRow(c, age).hash = NewHash(c)
         /\ UpdatedRow(c, age).account = <<ask[c].id, NextVersion(c)>>
         /\ SameCounts(UpdatedRow(c, age), row)
         /\ UpdatedRow(c, age).score = ScoreOf(seen[c], age)
BY DEF UpdatedRow, SameCounts, ScoreOf

LEMMA SetUsageIs ==
  ASSUME NEW c, SetUsage(c)
  PROVE  /\ row'.uid = row.uid /\ row'.status = row.status /\ row'.version = row.version
         /\ row'.account = row.account /\ row'.hash = row.hash
         /\ row'.usage = seen[c].usage + 1
         /\ row'.success = seen[c].success + (IF ask[c].success THEN 1 ELSE 0)
         /\ row'.failure = seen[c].failure + (IF ask[c].success THEN 0 ELSE 1)
         /\ row'.score = ScoreColumn(CalcReputation(row'.usage, SuccessRate(row'.success, row'.failure),
                                                  RecencyWeight(TRUE, 0)))
<1> DEFINE s == seen[c].success + (IF ask[c].success THEN 1 ELSE 0)
           f == seen[c].failure + (IF ask[c].success THEN 0 ELSE 1)
           u == seen[c].usage + 1
           k == ScoreColumn(CalcReputation(u, SuccessRate(s, f), RecencyWeight(TRUE, 0)))
<1>1. row' = [row EXCEPT !.usage = u, !.success = s, !.failure = f, !.score = k] BY Zenon DEF SetUsage
<1> HIDE DEF s, f, u, k
<1>2. PICK r : r = [row EXCEPT !.usage = u, !.success = s, !.failure = f, !.score = k] OBVIOUS
<1>3. /\ r.uid = row.uid /\ r.status = row.status /\ r.version = row.version
      /\ r.account = row.account /\ r.hash = row.hash
      /\ r.usage = u /\ r.success = s /\ r.failure = f /\ r.score = k
  BY <1>2
<1>4. row' = r BY <1>1, <1>2
<1> QED BY <1>3, <1>4, Zenon DEF s, f, u, k

LEMMA TurningsControl ==
  ASSUME SkillControl, NEW c \in Callers, Turnings(c)
  PROVE  SkillControl'
<1>1. SkillTypes /\ SkillOrder /\ TurnFits(c) BY DEF SkillControl
<1>2. ASSUME NEW x, versions' = Append(versions, x)
      PROVE  Len(versions') \in Nat /\ \E S : versions' \in Seq(S)
 <2>1. Len(versions) \in Nat /\ \E S : versions \in Seq(S) BY <1>1 DEF SkillTypes
 <2>2. /\ Len(Append(versions, x)) = Len(versions) + 1
       /\ \E S : Append(versions, x) \in Seq(S)
   BY <2>1, Appended
 <2> QED BY <1>2, <2>1, <2>2
<1>3. CASE InsertLegacyVersion(c) BY <1>2, <1>3, VersionsTurnControl DEF InsertLegacyVersion
<1>4. CASE SetLegacyRow(c)
 <2>1. /\ turn[c] = "set legacy" /\ TurnsTo(c, "read")
       /\ UNCHANGED <<versions, ask, seen, shown>>
       /\ row' = [row EXCEPT !.uid = c, !.account = <<c, 1>>, !.hash = ContentHash(NoContent, 1)]
   BY <1>4 DEF SetLegacyRow
 <2>2. row.version \in Nat BY <1>1 DEF SkillTypes
 <2>3. PICK r : r = [row EXCEPT !.uid = c, !.account = <<c, 1>>, !.hash = ContentHash(NoContent, 1)] OBVIOUS
 <2>4. r.uid = c /\ r.status = row.status /\ r.version = row.version BY <2>3
 <2> QED BY <2>1, <2>2, <2>3, <2>4, RowTurnControl
<1>5. CASE InsertRow(c)
 <2>1. /\ turn[c] = "insert row" /\ TurnsTo(c, "insert first")
       /\ row' = Row(c, 1, ask[c].content, ask[c].status)
       /\ UNCHANGED <<versions, ask, seen, shown, uses>>
   BY <1>5 DEF InsertRow
 <2>2. row'.uid = c /\ row'.version = 1 /\ row'.status = ask[c].status BY <2>1 DEF Row
 <2>3. ask[c].status \in SkillStatuses /\ ask[c].status # "absent" BY <1>1, <2>1 DEF TurnFits, SkillStatuses
 <2>4. /\ turn'[c] = "insert first" /\ \A d \in Callers : d # c => turn'[d] = turn[d]
       /\ turn' = [d \in Callers |-> turn'[d]]
   BY <1>1, <2>1, TurnsMove
 <2>5. SkillTypes'
  <3>1. /\ ask' = [d \in Callers |-> ask'[d]] /\ seen' = [d \in Callers |-> seen'[d]]
        /\ Len(versions') \in Nat /\ (\E S : versions' \in Seq(S)) /\ shown' \subseteq SkillUids
    BY <1>1, <2>1 DEF SkillTypes
  <3>2. row'.uid \in SkillUids \cup {NoUid} /\ row'.version \in Nat /\ row'.status \in SkillStatuses \cup {"absent"}
    BY <2>2, <2>3 DEF SkillUids
  <3> QED BY <2>4, <3>1, <3>2 DEF SkillTypes
 <2>6. c # NoUid /\ row.status = "absent" BY <1>1, <2>1, RegistryAssumption DEF RegistryAssumption, NoUid, SkillOrder
 <2>7. \A d \in Callers : turn[d] = "insert row" => d = c BY <1>1, <2>1 DEF SkillOrder, SkillControl, TurnFits
 <2>8. SkillOrder' BY <1>1, <2>1, <2>2, <2>3, <2>4, <2>6, <2>7 DEF SkillOrder, Reading, PastRead
 <2>9. \A d \in Callers : TurnFits(d)'
  <3>1. TurnFits(c)' BY <1>1, <2>1, <2>4 DEF TurnFits, Ended, Reading, PastRead, Asking
  <3>2. \A d \in Callers : d # c => TurnFits(d)' BY <2>1, <2>4 DEF TurnFits, SkillControl
  <3> QED BY <3>1, <3>2
 <2> QED BY <2>5, <2>8, <2>9 DEF SkillControl
<1>6. CASE InsertFirstVersion(c) BY <1>2, <1>6, VersionsTurnControl DEF InsertFirstVersion
<1>7. CASE ReadList(c)
 <2>1. /\ turn[c] = "read" /\ TurnsTo(c, "done")
       /\ shown' = IF row.status = "absent" THEN shown ELSE shown \cup {Asset(row).id}
       /\ UNCHANGED <<row, versions, ask, seen, uses>>
   BY <1>7 DEF ReadList
 <2>2. row.status # "absent" => row.uid \in SkillUids /\ Asset(row).id = row.uid
   BY <1>1, <2>1 DEF SkillOrder, SkillTypes, Reading, Asset
 <2>3. shown' \subseteq SkillUids /\ shown \subseteq shown' /\ (row.status = "absent" => shown' = shown)
   BY <1>1, <2>1, <2>2 DEF SkillTypes
 <2>4. Proceeding(c, "done") /\ turn'[c] = "done" BY <1>1, <2>1, TurnsMove DEF Proceeding, Ended
 <2>5. TurnFits(c)' BY <1>1, <2>1, <2>3, <2>4 DEF TurnFits, Ended, Reading, PastRead, Asking
 <2>6. /\ row.uid \in SkillUids \cup {NoUid} /\ row.version \in Nat /\ row.status \in SkillStatuses \cup {"absent"}
       /\ seen = [d \in Callers |-> seen[d]]
       /\ Len(versions) \in Nat /\ \E S : versions \in Seq(S)
   BY <1>1 DEF SkillTypes
 <2>7. "done" \in Ended /\ "done" \notin Reading /\ "done" \notin PastRead BY DEF Ended, Reading, PastRead
 <2> QED BY <2>1, <2>3, <2>4, <2>5, <2>6, <2>7, ControlMoves
<1>8. CASE ReadRow(c)
 <2>1. turn[c] = "read" /\ ask[c].op # "list" /\ UNCHANGED <<row, versions, ask, shown, uses>> BY <1>8 DEF ReadRow
 <2>2. CASE row.uid = ask[c].id
  <3>1. PICK next : next = AfterRead(ask[c].op, row, ask[c].status) OBVIOUS
  <3>2. seen' = [seen EXCEPT ![c] = row] /\ TurnsTo(c, next) BY <1>8, <2>2, <3>1 DEF ReadRow
  <3>3. ask[c].op \in {"update", "status", "usage"} /\ ask[c].id \in SkillUids BY <1>1, <2>1 DEF TurnFits, Asking
  <3>4. /\ row.uid # NoUid /\ row.status # "absent"
        /\ row.version \in Nat /\ row.status \in SkillStatuses
    BY <1>1, <2>2, <3>3, RegistryAssumption
    DEF SkillTypes, SkillOrder, SkillUids, RegistryAssumption, NoUid
  <3>5. /\ next \in {"find duplicate", "set usage", "set status", "failed"}
        /\ next = "find duplicate" => ask[c].op = "update"
        /\ next = "set usage" => ask[c].op = "usage"
        /\ next = "set status" => ask[c].op = "status"
    BY <3>1, <3>3 DEF AfterRead
  <3>6. Proceeding(c, next) /\ turn'[c] = next BY <1>1, <2>1, <3>2, TurnsMove DEF Proceeding, Ended, SkillTypes
  <3>7. TurnFits(c)' BY <1>1, <2>1, <3>5, <3>6 DEF TurnFits, Ended, Reading, PastRead, Asking
  <3>8. seen'[c] = row /\ seen' = [d \in Callers |-> seen'[d]] BY <1>1, <3>2 DEF SkillTypes
  <3>9. shown \subseteq SkillUids /\ Len(versions) \in Nat /\ \E S : versions \in Seq(S) BY <1>1 DEF SkillTypes
  <3>10. next # "insert row" BY <3>5
  <3> QED BY <2>1, <3>4, <3>6, <3>7, <3>8, <3>9, <3>10, ControlMoves
 <2>3. CASE row.uid # ask[c].id BY <1>8, <2>3, <2>1, QuietTurnControl DEF ReadRow, Ended
 <2> QED BY <2>2, <2>3
<1>9. CASE FindDuplicate(c)
 <2>1. PICK next : next = IF \E i \in 1..Len(versions) :
                              versions[i].uid = ask[c].id /\ versions[i].hash = NewHash(c)
                          THEN "done" ELSE "insert version"
   OBVIOUS
 <2>2. /\ turn[c] = "find duplicate" /\ TurnsTo(c, next) /\ next \in {"done", "insert version"}
       /\ UNCHANGED <<row, versions, ask, seen, shown, uses>>
   BY <1>9, <2>1 DEF FindDuplicate
 <2> QED BY <2>2, QuietTurnControl DEF Ended
<1>10. CASE InsertVersion(c) BY <1>2, <1>10, VersionsTurnControl DEF InsertVersion
<1>11. CASE SetVersion(c) BY <1>11, UpdatedRowIs, NextVersionIsNat, RowTurnControl DEF SetVersion
<1>12. CASE SetRowStatus(c)
 <2>1. /\ turn[c] = "set status" /\ TurnsTo(c, "set standing")
       /\ row' = [row EXCEPT !.status = ask[c].status]
       /\ UNCHANGED <<versions, ask, seen, shown>>
   BY <1>12 DEF SetRowStatus
 <2>2. PICK r : r = [row EXCEPT !.status = ask[c].status] OBVIOUS
 <2>4. r.uid = row.uid /\ r.status = ask[c].status /\ r.version = row.version BY <2>2
 <2>3. row.version \in Nat BY <1>1 DEF SkillTypes
 <2> QED BY <2>1, <2>2, <2>3, <2>4, RowTurnControl
<1>13. CASE SetVersionStatus(c) BY <1>13, <1>1, StandingSeq, VersionsTurnControl DEF SetVersionStatus, SkillTypes
<1>14. CASE SetUsage(c) BY <1>14, SetUsageIs, <1>1, RowTurnControl DEF SetUsage, SkillTypes
<1>15. CASE StatementFails(c) BY <1>15, QuietTurnControl DEF StatementFails, Ended
<1> QED BY <1>3, <1>4, <1>5, <1>6, <1>7, <1>8, <1>9, <1>10, <1>11, <1>12, <1>13, <1>14, <1>15, Zenon DEF Turnings

LEMMA InitRegistry ==
  ASSUME RegistryInit
  PROVE  RegistryInv
<1>1. /\ ask = [c \in Callers |-> NoAsk] /\ turn = [c \in Callers |-> "idle"]
      /\ seen = [c \in Callers |-> Absent] /\ uses = 0 /\ conflicts = {}
  BY DEF RegistryInit
<1>2. /\ NoAsk.op = "none" /\ NoRow.uid = NoUid /\ NoRow.version = 1 /\ NoRow.hash = ContentHash(NoContent, 1)
      /\ NoRow.usage = 0 /\ NoRow.success = 0 /\ NoRow.failure = 0 /\ NoRow.status = "draft"
  BY DEF NoAsk, NoRow, Row
<1>3. \A c \in Callers : turn[c] = "idle" /\ ask[c].op = "none" BY <1>1, <1>2
<1>4. (\A c \in Callers : TurnFits(c)) /\ (\A c \in Callers : turn[c] \notin Reading /\ turn[c] \notin PastRead)
  BY <1>3 DEF TurnFits, Ended, Reading, PastRead, Asking
<1>5. OneWriter BY <1>1, <1>3 DEF OneWriter, Busy, WriteKinds
<1>6. CASE /\ row \in {Absent} \cup {[NoRow EXCEPT !.status = s] : s \in {"draft", "active"}}
           /\ versions = <<>> /\ shown = {}
 <2>1. PICK s \in {"absent", "draft", "active"} : row = [NoRow EXCEPT !.status = s] BY <1>6 DEF Absent
 <2>2. /\ row.uid = NoUid /\ row.version = 1 /\ row.hash = ContentHash(NoContent, 1)
       /\ row.usage = 0 /\ row.success = 0 /\ row.failure = 0 /\ row.status = s
   BY <1>2, <2>1 DEF NoRow, Row
 <2>3. SkillControl
  <3>1. Len(versions) \in Nat /\ \E S : versions \in Seq(S) BY <1>6
  <3>2. SkillTypes BY <1>1, <1>6, <2>2, <3>1 DEF SkillTypes, SkillStatuses
  <3>3. SkillOrder BY <1>1, <1>3, <1>4, <1>6, <2>2 DEF SkillOrder, Ended
  <3> QED BY <1>4, <3>2, <3>3 DEF SkillControl
 <2>4. NoUid \notin DidPublish /\ UidStays
   BY <1>3, <1>4, <1>6, <2>2, RegistryAssumption
   DEF UidStays, Migrating, DidPublish, NoUid, RegistryAssumption
 <2>5. VersionsMatch BY <1>3, <2>2 DEF VersionsMatch
 <2>6. StandingMatches BY <1>3, <1>4, <2>2, <2>4 DEF StandingMatches
 <2>7. CountsMatch /\ ScoreMatches BY <1>1, <1>3, <1>4, <2>2 DEF CountsMatch, ScoreMatches, CountsFit
 <2> QED BY <1>5, <2>3, <2>4, <2>5, <2>6, <2>7 DEF RegistryInv
<1>7. CASE /\ row = Row("earlier", 1, NoContent, "published")
           /\ versions = <<Version("earlier", 1, NoContent, "published", <<>>)>>
           /\ shown = {"earlier"}
 <2>1. /\ row.uid = "earlier" /\ row.version = 1 /\ row.hash = ContentHash(NoContent, 1)
       /\ row.account = <<"earlier", 1>>
       /\ row.usage = 0 /\ row.success = 0 /\ row.failure = 0 /\ row.status = "published"
   BY <1>7 DEF Row
 <2>2. /\ Len(versions) = 1 /\ (\E S : versions \in Seq(S))
       /\ versions[1] = Version("earlier", 1, NoContent, "published", <<>>)
  <3>1. PICK v : v = Version("earlier", 1, NoContent, "published", <<>>) OBVIOUS
  <3>2. versions = <<v>> BY <1>7, <3>1
  <3>3. versions \in Seq({v}) /\ Len(versions) = 1 /\ versions[1] = v BY <3>2
  <3> QED BY <3>1, <3>3
 <2>3. /\ versions[1].uid = "earlier" /\ versions[1].version = 1 /\ versions[1].status = "published"
       /\ versions[1].hash = ContentHash(NoContent, 1)
   BY <2>2 DEF Version
 <2>4. SkillControl
  <3>1. SkillTypes BY <1>1, <1>7, <2>1, <2>2 DEF SkillTypes, SkillStatuses, SkillUids
  <3>2. row.uid # NoUid BY <2>1 DEF NoUid
  <3>3. SkillOrder BY <1>1, <1>3, <1>4, <1>7, <2>1, <3>2 DEF SkillOrder, Ended
  <3> QED BY <1>4, <3>1, <3>3 DEF SkillControl
 <2>5. UidStays BY <1>3, <1>4, <1>7, <2>1 DEF UidStays, Migrating
 <2>6. Current = {1} /\ IsNewest(1) BY <2>1, <2>2, <2>3 DEF Current, Rows, IsNewest
 <2>7. VersionsMatch BY <1>3, <2>1, <2>3, <2>6 DEF VersionsMatch, NoUid
 <2>8. StandingMatches BY <1>3, <1>4, <2>1, <2>3, <2>6 DEF StandingMatches
 <2>9. CountsMatch /\ ScoreMatches BY <1>1, <1>3, <1>4, <2>1 DEF CountsMatch, ScoreMatches, CountsFit
 <2> QED BY <1>5, <2>4, <2>5, <2>7, <2>8, <2>9 DEF RegistryInv
<1> QED BY <1>6, <1>7 DEF RegistryInit

LEMMA WritingNext ==
  ASSUME NEW c \in Callers
  PROVE  /\ Writing(c)' \subseteq WriteKinds
         /\ "version" \in Writing(c)' => "standing" \in Writing(c)'
         /\ "migration" \in Writing(c)' => Migrating(c)'
         /\ "migration" \in Writing(c)' => "version" \in Writing(c)'
<1> DEFINE m == Migrating(c)'
           op == ask'[c].op
<1>1. m \in BOOLEAN BY DEF Migrating
<1>2. Writing(c)' = Writes(op, m) BY DEF Writing
<1> HIDE DEF m, op
<1>3. /\ Writes(op, m) \subseteq WriteKinds
      /\ "version" \in Writes(op, m) => "standing" \in Writes(op, m)
      /\ "migration" \in Writes(op, m) <=> m
      /\ m => "version" \in Writes(op, m)
  BY <1>1, WritesWhat
<1> QED BY <1>2, <1>3, Zenon DEF m

\* What a turn of a request is to the others.
LEMMA TurningHolds ==
  ASSUME SkillControl, NEW c \in Callers, Turnings(c)
  PROVE  /\ turn[c] \notin Ended /\ ask' = ask
         /\ \A d \in Callers : d # c => turn'[d] = turn[d] /\ seen'[d] = seen[d]
         /\ turn'[c] \notin {"idle", "insert legacy", "insert row"}
         /\ Migrating(c)' => Migrating(c)
         /\ conflicts' = conflicts \/ (StatementFails(c) /\ conflicts' = conflicts \cup HalfDone(c))
<1>1. SkillTypes /\ TurnFits(c) BY DEF SkillControl
<1>2. ask' = ask /\ turn[c] \notin Ended
  BY DEF Turnings, InsertLegacyVersion, SetLegacyRow, InsertRow, InsertFirstVersion, ReadList, ReadRow,
         FindDuplicate, InsertVersion, SetVersion, SetRowStatus, SetVersionStatus, SetUsage, StatementFails, Ended
<1>3. conflicts' = conflicts \/ (StatementFails(c) /\ conflicts' = conflicts \cup HalfDone(c))
  BY DEF Turnings, InsertLegacyVersion, SetLegacyRow, InsertRow, InsertFirstVersion, ReadList, ReadRow,
         FindDuplicate, InsertVersion, SetVersion, SetRowStatus, SetVersionStatus, SetUsage, StatementFails
<1>4. turn = [d \in Callers |-> turn[d]] BY <1>1 DEF SkillTypes
<1>5. /\ turn'[c] \notin {"idle", "insert legacy", "insert row"}
      /\ turn'[c] = "set legacy" => turn[c] = "insert legacy"
      /\ \A d \in Callers : d # c => turn'[d] = turn[d]
 <2>1. CASE ReadRow(c)
  <3>1. ask[c].op \in Asking /\ ask[c].op # "list" BY <1>1, <2>1 DEF ReadRow, TurnFits
  <3>2. AfterRead(ask[c].op, row, ask[c].status) \in {"find duplicate", "set usage", "set status", "failed"}
    BY <3>1 DEF AfterRead, Asking
  <3> QED BY <1>4, <2>1, <3>2 DEF ReadRow, TurnsTo
 <2>2. CASE FindDuplicate(c) BY <2>2, <1>4 DEF FindDuplicate, TurnsTo
 <2>3. CASE InsertLegacyVersion(c) BY <1>4, <2>3 DEF InsertLegacyVersion, TurnsTo
 <2>4. CASE SetLegacyRow(c) \/ InsertRow(c) \/ InsertFirstVersion(c) \/ ReadList(c)
   BY <1>4, <2>4 DEF SetLegacyRow, InsertRow, InsertFirstVersion, ReadList, TurnsTo
 <2>5. CASE InsertVersion(c) \/ SetVersion(c) \/ SetRowStatus(c) \/ SetVersionStatus(c) \/ SetUsage(c)
   BY <1>4, <2>5 DEF InsertVersion, SetVersion, SetRowStatus, SetVersionStatus, SetUsage, TurnsTo
 <2>6. CASE StatementFails(c) BY <1>4, <2>6 DEF StatementFails, TurnsTo
 <2> QED BY <2>1, <2>2, <2>3, <2>4, <2>5, <2>6 DEF Turnings
<1>6. \A d \in Callers : d # c => seen'[d] = seen[d]
  BY <1>1 DEF SkillTypes, Turnings, InsertLegacyVersion, SetLegacyRow, InsertRow, InsertFirstVersion, ReadList, ReadRow,
         FindDuplicate, InsertVersion, SetVersion, SetRowStatus, SetVersionStatus, SetUsage, StatementFails
<1> QED BY <1>2, <1>3, <1>5, <1>6 DEF Migrating

LEMMA BegunOneWriter ==
  ASSUME SkillControl, OneWriter, NEW c \in Callers, Begun(c)
  PROVE  OneWriter'
<1>1. /\ turn[c] = "idle"
      /\ \A d \in Callers : d # c => turn'[d] = turn[d] /\ ask'[d] = ask[d]
      /\ conflicts' = conflicts \cup UNION {Writing(b) \cap Writing(c)' : b \in Busy}
  BY BegunHolds
<1>2. \A d \in Callers : d # c => Writing(d)' = Writing(d) /\ (d \in Busy' <=> d \in Busy)
  BY <1>1 DEF Writing, Migrating, Busy
<1>3. \A b \in Busy : b \in Callers BY DEF Busy
<1>4. ASSUME NEW kind, kind \in conflicts', kind \notin conflicts
      PROVE  \E b \in Busy : kind \in Writing(b) /\ kind \in Writing(c)'
  BY <1>1, <1>4
<1>5. conflicts' \subseteq WriteKinds BY <1>4, WritingNext DEF OneWriter
<1>6. "version" \in conflicts' => "standing" \in conflicts'
 <2> SUFFICES ASSUME "version" \in conflicts', "version" \notin conflicts PROVE "standing" \in conflicts'
   BY <1>1 DEF OneWriter
 <2>1. PICK b \in Busy : "version" \in Writing(b) /\ "version" \in Writing(c)' BY <1>4
 <2>2. "standing" \in Writing(b) /\ "standing" \in Writing(c)' BY <1>3, <2>1, WritingWhat, WritingNext
 <2> QED BY <1>1, <2>2
<1>7. "migration" \in conflicts' => "version" \in conflicts'
 <2> SUFFICES ASSUME "migration" \in conflicts', "migration" \notin conflicts PROVE "version" \in conflicts'
   BY <1>1 DEF OneWriter
 <2>1. PICK b \in Busy : "migration" \in Writing(b) /\ "migration" \in Writing(c)' BY <1>4
 <2>2. "version" \in Writing(b) /\ "version" \in Writing(c)' BY <1>3, <2>1, WritingWhat, WritingNext
 <2> QED BY <1>1, <2>2
<1>8. ASSUME NEW kind \in WriteKinds, NEW b \in Busy', NEW d \in Busy',
             kind \notin conflicts', kind \in Writing(b)', kind \in Writing(d)'
      PROVE  b = d
 <2>1. b \in Callers /\ d \in Callers /\ kind \notin conflicts BY <1>1, <1>8 DEF Busy
 <2>2. CASE b # c /\ d # c BY <1>2, <1>8, <2>1, <2>2 DEF OneWriter
 <2>3. CASE b = c /\ d # c BY <1>1, <1>2, <1>8, <2>1, <2>3
 <2>4. CASE b # c /\ d = c BY <1>1, <1>2, <1>8, <2>1, <2>4
 <2> QED BY <2>2, <2>3, <2>4
<1> QED BY <1>5, <1>6, <1>7, <1>8 DEF OneWriter

LEMMA HalfDoneWhat ==
  ASSUME NEW c
  PROVE  /\ HalfDone(c) \subseteq {"version", "standing"}
         /\ "version" \in HalfDone(c) => "standing" \in HalfDone(c)
         /\ turn[c] = "insert first" => HalfDone(c) = {"version", "standing"}
         /\ turn[c] = "set version" /\ NextVersion(c) = row.version => HalfDone(c) = {"version", "standing"}
         /\ turn[c] = "set standing" => HalfDone(c) = {"standing"}
BY DEF HalfDone

LEMMA TurningOneWriter ==
  ASSUME SkillControl, OneWriter, NEW c \in Callers, Turnings(c)
  PROVE  OneWriter'
<1>1. /\ turn[c] \notin Ended /\ ask' = ask
      /\ \A d \in Callers : d # c => turn'[d] = turn[d]
      /\ Migrating(c)' => Migrating(c)
      /\ conflicts' = conflicts \/ conflicts' = conflicts \cup HalfDone(c)
  BY TurningHolds
<1>2. Busy' \subseteq Busy BY <1>1 DEF Busy, Ended
<1>3. ASSUME NEW d \in Callers PROVE Writing(d)' \subseteq Writing(d) BY <1>1 DEF Migrating, Writing, Writes
<1>4. /\ conflicts' \subseteq WriteKinds
      /\ "version" \in conflicts' => "standing" \in conflicts'
      /\ "migration" \in conflicts' => "version" \in conflicts'
  BY <1>1, HalfDoneWhat DEF OneWriter, WriteKinds
<1>5. ASSUME NEW kind \in WriteKinds, NEW b \in Busy', NEW d \in Busy',
             kind \notin conflicts', kind \in Writing(b)', kind \in Writing(d)'
      PROVE  b = d BY <1>1, <1>2, <1>5, <1>3 DEF Busy, OneWriter
<1> QED BY <1>4, <1>5 DEF OneWriter

LEMMA BegunUidStays ==
  ASSUME SkillControl, UidStays, NEW c \in Callers, Begun(c)
  PROVE  UidStays'
<1>1. /\ turn'[c] \in {"insert legacy", "insert row", "read"}
      /\ \A d \in Callers : d # c => turn'[d] = turn[d] /\ ask'[d] = ask[d]
      /\ UNCHANGED <<row, versions, seen, shown, uses>>
      /\ turn'[c] = "insert legacy" => row.uid = NoUid
      /\ "migration" \notin conflicts' => "migration" \notin conflicts
  BY BegunHolds
<1>2. turn'[c] \notin PastRead /\ turn'[c] # "insert first" /\ turn'[c] # "set legacy" BY <1>1 DEF PastRead
<1> QED BY <1>1, <1>2 DEF UidStays, Migrating

LEMMA QuietUidStays ==
  ASSUME SkillControl, UidStays, NEW c \in Callers, Turnings(c),
         UNCHANGED <<row.uid, shown>>, turn'[c] # "insert first",
         turn'[c] \in PastRead => turn[c] \in PastRead
  PROVE  UidStays'
<1>1. /\ ask' = ask
      /\ \A d \in Callers : d # c => turn'[d] = turn[d]
      /\ Migrating(c)' => Migrating(c)
      /\ "migration" \notin conflicts' => "migration" \notin conflicts
  BY TurningHolds
<1> QED BY <1>1 DEF UidStays, Migrating

LEMMA TurningUidStays ==
  ASSUME SkillControl, OneWriter, UidStays, NEW c \in Callers, Turnings(c)
  PROVE  UidStays'
<1>1. SkillTypes /\ SkillOrder /\ \A d \in Callers : TurnFits(d) BY DEF SkillControl
<1>2. /\ turn[c] \notin Ended /\ ask' = ask
      /\ \A d \in Callers : d # c => turn'[d] = turn[d]
      /\ Migrating(c)' => Migrating(c)
      /\ "migration" \notin conflicts' => "migration" \notin conflicts
  BY TurningHolds
<1>3. SUFFICES ASSUME "migration" \notin conflicts' PROVE UidStays' BY DEF UidStays
<1>4. "migration" \notin conflicts BY <1>2, <1>3
<1>5. \A d \in Callers : d # NoUid BY RegistryAssumption DEF RegistryAssumption, NoUid
<1>6. \A d \in Callers : turn[d] \in PastRead => ask[d].id \in SkillUids BY <1>1 DEF TurnFits, PastRead
<1>7. turn = [d \in Callers |-> turn[d]] BY <1>1 DEF SkillTypes
<1>8. CASE SetLegacyRow(c)
 <2>1. /\ turn[c] = "set legacy" /\ turn'[c] = "read" /\ shown' = shown
       /\ row' = [row EXCEPT !.uid = c, !.account = <<c, 1>>, !.hash = ContentHash(NoContent, 1)]
   BY <1>7, <1>8 DEF SetLegacyRow, TurnsTo
 <2>2. PICK r : r = [row EXCEPT !.uid = c, !.account = <<c, 1>>, !.hash = ContentHash(NoContent, 1)] OBVIOUS
 <2>3. r.uid = c BY <2>2
 <2>4. row'.uid = c BY <2>1, <2>2, <2>3
 <2>5. row.uid = NoUid /\ shown \subseteq {NoUid} /\ Migrating(c) BY <1>4, <2>1 DEF UidStays, Migrating
 <2>6. NoUid \notin SkillUids BY <1>5 DEF SkillUids, NoUid
 <2>7. shown = {} /\ \A d \in Callers : turn[d] \notin PastRead /\ turn[d] # "insert first"
   BY <1>1, <1>4, <1>5, <1>6, <2>5, <2>6 DEF UidStays, SkillTypes
 <2>8. \A d \in Callers : d # c => ~Migrating(d) BY <1>4, <2>5, Alone
 <2> QED BY <1>2, <2>1, <2>4, <2>7, <2>8 DEF UidStays, Migrating, PastRead
<1>9. CASE InsertRow(c)
 <2>1. turn[c] = "insert row" /\ turn'[c] = "insert first" /\ shown' = shown /\ row' = Row(c, 1, ask[c].content, ask[c].status)
   BY <1>7, <1>9 DEF InsertRow, TurnsTo
 <2>2. row'.uid = c BY <2>1 DEF Row
 <2>3. /\ row.status = "absent" /\ shown = {}
       /\ \A d \in Callers : turn[d] \in Ended \cup {"insert row", "read"}
   BY <1>1, <2>1 DEF SkillOrder
 <2>4. \A d \in Callers : d # c => ~Migrating(d) /\ turn[d] \notin PastRead /\ turn[d] # "insert first"
   BY <2>3 DEF Migrating, PastRead, Ended
 <2> QED BY <1>2, <2>1, <2>2, <2>3, <2>4 DEF UidStays, Migrating, PastRead
<1>10. CASE InsertFirstVersion(c)
 <2>1. turn[c] = "insert first" /\ turn'[c] = "done" /\ shown' = shown \cup {c} /\ row' = row
   BY <1>7, <1>10 DEF InsertFirstVersion, TurnsTo
 <2>2. row.uid = c BY <1>4, <2>1 DEF UidStays
 <2> QED BY <1>2, <1>4, <2>1, <2>2 DEF UidStays, Migrating, PastRead
<1>11. CASE ReadList(c)
 <2>1. /\ turn[c] = "read" /\ turn'[c] = "done" /\ row' = row
       /\ shown' = IF row.status = "absent" THEN shown ELSE shown \cup {Asset(row).id}
   BY <1>7, <1>11 DEF ReadList, TurnsTo
 <2>2. row.status # "absent" => Asset(row).id = row.uid BY <1>1, <2>1 DEF SkillOrder, Reading, Asset
 <2>3. shown \subseteq {row.uid} => shown' \subseteq {row'.uid} BY <2>1, <2>2
 <2> QED BY <1>2, <1>4, <2>1, <2>3 DEF UidStays, Migrating, PastRead
<1>12. CASE ReadRow(c)
 <2>1. turn[c] = "read" /\ row' = row /\ shown' = shown BY <1>12 DEF ReadRow
 <2>2. row.uid = ask[c].id \/ turn'[c] = "failed" BY <1>7, <1>12 DEF ReadRow, TurnsTo
 <2>3. turn'[c] \in PastRead => row.uid = ask[c].id BY <2>2 DEF PastRead
 <2>4. ask[c].op \in {"update", "status", "usage"} BY <1>1, <1>12, <2>1 DEF TurnFits, Asking, ReadRow
 <2>5. AfterRead(ask[c].op, row, ask[c].status) # "insert first" BY <2>4 DEF AfterRead
 <2>6. turn'[c] # "insert first" BY <1>7, <1>12, <2>5 DEF ReadRow, TurnsTo
 <2>7. ~(Migrating(c)') BY <2>1, <1>2 DEF Migrating
 <2>8. \A d \in Callers : turn'[d] \in PastRead => ask'[d].id = row'.uid BY <1>2, <1>4, <2>1, <2>3 DEF UidStays
 <2> QED BY <1>2, <1>4, <2>1, <2>6, <2>7, <2>8 DEF UidStays, Migrating
<1>13. CASE InsertLegacyVersion(c) BY <1>7, <1>13, QuietUidStays DEF InsertLegacyVersion, TurnsTo, PastRead
<1>14. CASE FindDuplicate(c) BY <1>7, <1>14, QuietUidStays DEF FindDuplicate, TurnsTo, PastRead
<1>15. CASE InsertVersion(c) BY <1>7, <1>15, QuietUidStays DEF InsertVersion, TurnsTo, PastRead
<1>16. CASE SetVersion(c) BY <1>7, <1>16, UpdatedRowIs, QuietUidStays DEF SetVersion, TurnsTo, PastRead
<1>17. CASE SetRowStatus(c)
 <2>1. turn[c] = "set status" /\ turn'[c] = "set standing" /\ row' = [row EXCEPT !.status = ask[c].status] /\ shown' = shown
   BY <1>7, <1>17 DEF SetRowStatus, TurnsTo
 <2>2. PICK r : r = [row EXCEPT !.status = ask[c].status] OBVIOUS
 <2>3. r.uid = row.uid BY <2>2
 <2>4. row'.uid = row.uid BY <2>1, <2>2, <2>3
 <2> QED BY <2>1, <2>4, QuietUidStays DEF PastRead
<1>18. CASE SetVersionStatus(c) BY <1>7, <1>18, QuietUidStays DEF SetVersionStatus, TurnsTo, PastRead
<1>19. CASE SetUsage(c) BY <1>7, <1>19, SetUsageIs, QuietUidStays DEF SetUsage, TurnsTo, PastRead
<1>20. CASE StatementFails(c) BY <1>7, <1>20, QuietUidStays DEF StatementFails, TurnsTo, PastRead
<1> QED BY <1>8, <1>9, <1>10, <1>11, <1>12, <1>13, <1>14, <1>15, <1>16, <1>17, <1>18, <1>19, <1>20, Zenon DEF Turnings

LEMMA LastIndex ==
  \A n \in Nat : n > 0 => n \in 1..n
OBVIOUS

\* The same rows, their status aside.
SameRows ==
  /\ Len(versions') = Len(versions)
  /\ \A i \in 1..Len(versions) : /\ versions'[i].uid = versions[i].uid
                                 /\ versions'[i].version = versions[i].version
                                 /\ versions'[i].hash = versions[i].hash

LEMMA SameCurrent ==
  ASSUME SameRows, UNCHANGED <<row.uid, row.version>>
  PROVE  /\ Current' = Current /\ \A i : IsNewest(i)' <=> IsNewest(i)
         /\ \A i \in Current : versions'[i].hash = versions[i].hash
<1>1. Current' = Current /\ Current \subseteq 1..Len(versions) BY DEF SameRows, Current, Rows
<1> QED BY <1>1 DEF IsNewest, SameRows

\* A row that comes last, of the current version, is the newest.
LEMMA LastIsNewest ==
  ASSUME NEW n \in Nat, n = Len(versions'), n > 0,
         versions'[n].uid = row'.uid, versions'[n].version = row'.version
  PROVE  n \in Current' /\ IsNewest(n)' /\ \A i : IsNewest(i)' => i = n
<1>1. Current' = {i \in {j \in 1..n : versions'[j].uid = row'.uid} : versions'[i].version = row'.version}
  BY DEF Current, Rows
<1>2. n \in 1..n OBVIOUS
<1>3. n \in Current' BY <1>1, <1>2
<1>4. \A j \in Current' : j \in 1..n BY <1>1
<1>5. \A i : IsNewest(i)' <=> i \in Current' /\ \A j \in Current' : j <= i BY DEF IsNewest
<1>6. \A j \in Current' : j <= n /\ j \in Nat BY <1>4
<1>7. IsNewest(n)' BY <1>3, <1>5, <1>6, Zenon
<1>8. ASSUME NEW i, IsNewest(i)' PROVE i = n
 <2>1. i \in Current' /\ n <= i BY <1>3, <1>5, <1>8, Zenon
 <2>2. i <= n /\ i \in Nat BY <1>6, <2>1
 <2> QED BY <2>1, <2>2
<1> QED BY <1>3, <1>7, <1>8

\* And one of another version changes nothing.
LEMMA OtherNotCurrent ==
  ASSUME NEW x, Len(versions) \in Nat, \E S : versions \in Seq(S), versions' = Append(versions, x),
         UNCHANGED <<row.uid, row.version>>
  PROVE  /\ x.uid # row.uid \/ x.version # row.version => Current' = Current /\ \A i : IsNewest(i)' <=> IsNewest(i)
         /\ Current \subseteq Current' /\ Current \subseteq 1..Len(versions)
         /\ \A i \in Current' : i \in Current \/ i = Len(versions) + 1
         /\ \A i \in 1..Len(versions) : versions'[i] = versions[i]
<1>1. /\ Len(versions') = Len(versions) + 1 /\ versions'[Len(versions) + 1] = x
      /\ \A i \in 1..Len(versions) : versions'[i] = versions[i]
  BY Appended
<1> DEFINE n == Len(versions)
<1>2. n \in Nat OBVIOUS
<1>3. Current = {i \in {j \in 1..n : versions[j].uid = row.uid} : versions[i].version = row.version}
  BY DEF Current, Rows
<1>4. Current' = {i \in {j \in 1..(n + 1) : versions'[j].uid = row.uid} : versions'[i].version = row.version}
  BY <1>1 DEF Current, Rows
<1> HIDE DEF n
<1>5. \A i \in 1..(n + 1) : i \in 1..n \/ i = n + 1 BY <1>2
<1>6. \A i \in 1..n : i \in 1..(n + 1) /\ versions'[i] = versions[i] BY <1>1, <1>2 DEF n
<1>7. Current \subseteq Current' /\ Current \subseteq 1..n BY <1>3, <1>4, <1>6
<1>8. \A i \in Current' : i \in Current \/ i = n + 1 BY <1>3, <1>4, <1>5, <1>6
<1>9. versions'[n + 1] = x BY <1>1 DEF n
<1>10. x.uid # row.uid \/ x.version # row.version => n + 1 \notin Current' BY <1>4, <1>9
<1>11. x.uid # row.uid \/ x.version # row.version => Current' = Current BY <1>7, <1>8, <1>10
<1>12. \A i : IsNewest(i)' <=> i \in Current' /\ \A j \in Current' : j <= i BY DEF IsNewest
<1>13. \A i : IsNewest(i) <=> i \in Current /\ \A j \in Current : j <= i BY DEF IsNewest
<1> QED BY <1>6, <1>7, <1>8, <1>11, <1>12, <1>13 DEF n

LEMMA BegunVersionsMatch ==
  ASSUME SkillControl, VersionsMatch, NEW c \in Callers, Begun(c)
  PROVE  VersionsMatch'
<1>1. /\ turn[c] = "idle" /\ turn'[c] \in {"insert legacy", "insert row", "read"}
      /\ \A d \in Callers : d # c => turn'[d] = turn[d] /\ ask'[d] = ask[d]
      /\ UNCHANGED <<row, versions, seen, shown, uses>>
      /\ "version" \notin conflicts' => "version" \notin conflicts
  BY BegunHolds
<1>2. \A d \in Callers : d # c => NextVersion(d)' = NextVersion(d) /\ NewHash(d)' = NewHash(d)
  BY <1>1 DEF NextVersion, NewHash
<1>3. ~Unfinished(c) BY <1>1 DEF Unfinished
<1>4. \A d \in Callers : d # c => (Unfinished(d)' <=> Unfinished(d)) BY <1>1, <1>2 DEF Unfinished
<1>5. (row.uid = NoUid => row.version = 1 /\ row.hash = ContentHash(NoContent, 1))' BY <1>1 DEF VersionsMatch
<1>6. SUFFICES ASSUME "version" \notin conflicts' PROVE VersionsMatch' BY <1>5 DEF VersionsMatch
<1>7. Current' = Current /\ LastRow' = LastRow /\ \A i : IsNewest(i)' <=> IsNewest(i)
  BY <1>1 DEF Current, Rows, LastRow, IsNewest
<1>8. /\ (row.uid # NoUid => row.account = <<row.uid, row.version>>)'
      /\ (\A d \in Callers : turn[d] = "insert first" =>
            row.version = 1 /\ row.hash = ContentHash(ask[d].content, 1))'
      /\ (\A d \in Callers : turn[d] = "set legacy" =>
            /\ Len(versions) > 0 /\ LastRow.uid = d
            /\ LastRow.version = 1 /\ LastRow.hash = ContentHash(NoContent, 1))'
  BY <1>1, <1>6, <1>7 DEF VersionsMatch
<1>9. (\A d \in Callers : turn[d] = "set version" =>
         /\ Len(versions) > 0 /\ LastRow.uid = ask[d].id
         /\ LastRow.version = NextVersion(d) /\ LastRow.hash = NewHash(d))'
  BY <1>1, <1>2, <1>6, <1>7 DEF VersionsMatch
<1>10. (row.uid # NoUid /\ (\A d \in Callers : ~Unfinished(d)) =>
          \E i \in Current : IsNewest(i) /\ versions[i].hash = row.hash)'
  BY <1>1, <1>3, <1>4, <1>6, <1>7 DEF VersionsMatch
<1> QED BY <1>5, <1>8, <1>9, <1>10, Zenon DEF VersionsMatch

LEMMA QuietVersionsMatch ==
  ASSUME SkillControl, VersionsMatch, NEW c \in Callers, Turnings(c),
         UNCHANGED <<row.uid, row.version, row.hash, row.account>>, SameRows, Len(versions) \in Nat,
         turn'[c] \notin {"insert first", "set version", "set legacy"},
         "version" \notin conflicts' => ~Unfinished(c)
  PROVE  VersionsMatch'
<1>1. /\ ask' = ask
      /\ \A d \in Callers : d # c => turn'[d] = turn[d] /\ seen'[d] = seen[d]
      /\ "version" \notin conflicts' => "version" \notin conflicts
  BY TurningHolds
<1>2. \A d \in Callers : d # c => NextVersion(d)' = NextVersion(d) /\ NewHash(d)' = NewHash(d)
  BY <1>1 DEF NextVersion, NewHash
<1>4. \A d \in Callers : d # c => (Unfinished(d)' <=> Unfinished(d)) BY <1>1, <1>2 DEF Unfinished
<1>5. (row.uid = NoUid => row.version = 1 /\ row.hash = ContentHash(NoContent, 1))' BY DEF VersionsMatch
<1>6. SUFFICES ASSUME "version" \notin conflicts' PROVE VersionsMatch' BY <1>5 DEF VersionsMatch
<1>7. /\ Current' = Current /\ \A i : IsNewest(i)' <=> IsNewest(i)
      /\ \A i \in Current : versions'[i].hash = versions[i].hash
  BY SameCurrent
<1>8. Len(versions) > 0 => /\ Len(versions') > 0 /\ LastRow'.uid = LastRow.uid
                           /\ LastRow'.version = LastRow.version /\ LastRow'.hash = LastRow.hash
 <2> SUFFICES ASSUME Len(versions) > 0
              PROVE  /\ Len(versions') > 0 /\ LastRow'.uid = LastRow.uid
                     /\ LastRow'.version = LastRow.version /\ LastRow'.hash = LastRow.hash
   OBVIOUS
 <2>1. PICK n \in Nat : n = Len(versions) OBVIOUS
 <2>4. n > 0 BY <2>1
 <2>5. n \in 1..n BY <2>4, LastIndex
 <2>6. Len(versions') = Len(versions) BY Zenon DEF SameRows
 <2>3. n = Len(versions') /\ n \in 1..n BY <2>1, <2>5, <2>6
 <2>2. LastRow = versions[n] /\ LastRow' = versions'[n] BY <2>1, <2>3 DEF LastRow
 <2> QED BY <2>1, <2>2, <2>3 DEF SameRows
<1>9. /\ (row.uid # NoUid => row.account = <<row.uid, row.version>>)'
      /\ (\A d \in Callers : turn[d] = "insert first" =>
            row.version = 1 /\ row.hash = ContentHash(ask[d].content, 1))'
  BY <1>1, <1>6 DEF VersionsMatch
<1>10. (\A d \in Callers : turn[d] = "set legacy" =>
            /\ Len(versions) > 0 /\ LastRow.uid = d
            /\ LastRow.version = 1 /\ LastRow.hash = ContentHash(NoContent, 1))'
  BY <1>1, <1>6, <1>8 DEF VersionsMatch
<1>11. (\A d \in Callers : turn[d] = "set version" =>
         /\ Len(versions) > 0 /\ LastRow.uid = ask[d].id
         /\ LastRow.version = NextVersion(d) /\ LastRow.hash = NewHash(d))'
  BY <1>1, <1>2, <1>6, <1>8 DEF VersionsMatch
<1>12. (row.uid # NoUid /\ (\A d \in Callers : ~Unfinished(d)) =>
          \E i \in Current : IsNewest(i) /\ versions[i].hash = row.hash)'
  BY <1>1, <1>4, <1>6, <1>7 DEF VersionsMatch
<1> QED BY <1>5, <1>9, <1>10, <1>11, <1>12, Zenon DEF VersionsMatch

LEMMA TurningVersionsMatch ==
  ASSUME SkillControl, OneWriter, UidStays, VersionsMatch, NEW c \in Callers, Turnings(c)
  PROVE  VersionsMatch'
<1>1. SkillTypes /\ SkillOrder /\ \A d \in Callers : TurnFits(d) BY DEF SkillControl
<1>2. /\ ask' = ask
      /\ \A d \in Callers : d # c => turn'[d] = turn[d] /\ seen'[d] = seen[d]
      /\ "version" \notin conflicts' => "version" \notin conflicts
  BY TurningHolds
<1>3. turn = [d \in Callers |-> turn[d]] /\ Len(versions) \in Nat /\ \E S : versions \in Seq(S) BY <1>1 DEF SkillTypes
<1>4. \A d \in Callers : d # NoUid BY RegistryAssumption DEF RegistryAssumption, NoUid
<1>5. "version" \notin conflicts => "migration" \notin conflicts BY DEF OneWriter
<1>6. turn[c] \in Reading => row.uid # NoUid \/ turn[c] = "read" BY <1>1 DEF SkillOrder, Reading, PastRead, Ended
\* While one request writes versions, no other does.
<1>7. ASSUME "version" \notin conflicts, WritesVersion(c)
      PROVE  \A d \in Callers : d # c => /\ turn'[d] \notin {"insert first", "set version", "set legacy"}
                                         /\ ~(Unfinished(d)') /\ ~Unfinished(d)
  BY <1>7, Alone, <1>2 DEF WritesVersion, Unfinished
<1>8. CASE InsertLegacyVersion(c)
 <2>1. /\ turn[c] = "insert legacy" /\ turn'[c] = "set legacy" /\ row' = row
       /\ versions' = Append(versions, Version(c, 1, NoContent, "published", <<>>))
   BY <1>3, <1>8 DEF InsertLegacyVersion, TurnsTo
 <2>2. SUFFICES ASSUME "version" \notin conflicts' PROVE VersionsMatch' BY <2>1 DEF VersionsMatch
 <2>3. row.uid = NoUid /\ WritesVersion(c) BY <1>2, <1>5, <2>1, <2>2 DEF UidStays, Migrating, WritesVersion
 <2>4. PICK x : x = Version(c, 1, NoContent, "published", <<>>) OBVIOUS
 <2>5. x.uid = c /\ x.version = 1 /\ x.hash = ContentHash(NoContent, 1) BY <2>4 DEF Version
 <2>6. Len(versions') = Len(versions) + 1 /\ versions'[Len(versions) + 1] = x BY <1>3, <2>1, <2>4, Appended
 <2>7. Len(versions') > 0 /\ LastRow' = x BY <1>3, <2>6 DEF LastRow
 <2>8. (row.uid = NoUid => row.version = 1 /\ row.hash = ContentHash(NoContent, 1))' BY <2>1 DEF VersionsMatch
 <2>9. \A d \in Callers : turn'[d] \notin {"insert first", "set version"} /\ (turn'[d] = "set legacy" => d = c)
   BY <1>2, <1>7, <2>1, <2>2, <2>3
 <2> QED BY <2>1, <2>3, <2>5, <2>7, <2>8, <2>9 DEF VersionsMatch
<1>9. CASE SetLegacyRow(c)
 <2>1. /\ turn[c] = "set legacy" /\ turn'[c] = "read" /\ versions' = versions
       /\ row' = [row EXCEPT !.uid = c, !.account = <<c, 1>>, !.hash = ContentHash(NoContent, 1)]
   BY <1>3, <1>9 DEF SetLegacyRow, TurnsTo
 <2>2. PICK r : r = [row EXCEPT !.uid = c, !.account = <<c, 1>>, !.hash = ContentHash(NoContent, 1)] OBVIOUS
 <2>3. r.uid = c /\ r.version = row.version /\ r.hash = ContentHash(NoContent, 1) /\ r.account = <<c, 1>> BY <2>2
 <2>4. row' = r BY <2>1, <2>2
 <2>5. row'.uid # NoUid BY <1>4, <2>3, <2>4
 <2>6. SUFFICES ASSUME "version" \notin conflicts' PROVE VersionsMatch' BY <2>5 DEF VersionsMatch
 <2>7. row.uid = NoUid /\ WritesVersion(c) /\ row.version = 1
   BY <1>2, <1>5, <2>1, <2>6 DEF UidStays, Migrating, WritesVersion, VersionsMatch
 <2>8. Len(versions) > 0 /\ LastRow.uid = c /\ LastRow.version = 1 /\ LastRow.hash = ContentHash(NoContent, 1)
   BY <1>2, <2>1, <2>6 DEF VersionsMatch
 <2>9. PICK n \in Nat : n = Len(versions') BY <1>3, <2>1
 <2>10. n > 0 /\ versions'[n].uid = row'.uid /\ versions'[n].version = row'.version /\ versions'[n].hash = row'.hash
   BY <2>1, <2>3, <2>4, <2>7, <2>8, <2>9 DEF LastRow
 <2>11. n \in Current' /\ IsNewest(n)' BY <2>9, <2>10, LastIsNewest
 <2>12. \A d \in Callers : turn'[d] \notin {"insert first", "set version", "set legacy"}
   BY <1>2, <1>7, <2>1, <2>6, <2>7
 <2>13. row'.account = <<row'.uid, row'.version>> BY <2>3, <2>4, <2>7
 <2> QED BY <2>5, <2>10, <2>11, <2>12, <2>13 DEF VersionsMatch
<1>10. CASE InsertRow(c)
 <2>1. turn[c] = "insert row" /\ turn'[c] = "insert first" /\ row' = Row(c, 1, ask[c].content, ask[c].status)
   BY <1>3, <1>10 DEF InsertRow, TurnsTo
 <2>2. /\ row'.uid = c /\ row'.version = 1 /\ row'.hash = ContentHash(ask[c].content, 1)
       /\ row'.account = <<c, 1>>
   BY <2>1 DEF Row
 <2>3. \A d \in Callers : turn[d] \in Ended \cup {"insert row", "read"} BY <1>1, <2>1 DEF SkillOrder
 <2>4. \A d \in Callers : d # c => turn'[d] \notin {"insert first", "set version", "set legacy"}
   BY <1>2, <2>3 DEF Ended
 <2>5. Unfinished(c)' /\ row'.uid # NoUid BY <1>4, <2>1, <2>2 DEF Unfinished
 <2> QED BY <1>2, <2>1, <2>2, <2>4, <2>5 DEF VersionsMatch
<1>11. CASE InsertFirstVersion(c)
 <2>1. /\ turn[c] = "insert first" /\ turn'[c] = "done" /\ row' = row
       /\ versions' = Append(versions, Version(c, 1, ask[c].content, ask[c].status, <<>>))
   BY <1>3, <1>11 DEF InsertFirstVersion, TurnsTo
 <2>2. (row.uid = NoUid => row.version = 1 /\ row.hash = ContentHash(NoContent, 1))' BY <2>1 DEF VersionsMatch
 <2>3. SUFFICES ASSUME "version" \notin conflicts' PROVE VersionsMatch' BY <2>2 DEF VersionsMatch
 <2>4. /\ row.uid = c /\ row.version = 1 /\ row.hash = ContentHash(ask[c].content, 1)
       /\ row.account = <<row.uid, row.version>>
   BY <1>2, <1>4, <1>5, <2>1, <2>3 DEF UidStays, VersionsMatch
 <2>5. PICK x : x = Version(c, 1, ask[c].content, ask[c].status, <<>>) OBVIOUS
 <2>6. x.uid = c /\ x.version = 1 /\ x.hash = ContentHash(ask[c].content, 1) BY <2>5 DEF Version
 <2>7. Len(versions') = Len(versions) + 1 /\ versions'[Len(versions) + 1] = x BY <1>3, <2>1, <2>5, Appended
 <2>8. PICK n \in Nat : n = Len(versions') BY <1>3, <2>7
 <2>9. n > 0 /\ versions'[n] = x BY <1>3, <2>7, <2>8
 <2>10. n \in Current' /\ IsNewest(n)' BY <2>1, <2>4, <2>6, <2>8, <2>9, LastIsNewest
 <2>11. \A d \in Callers : turn'[d] \notin {"insert first", "set version", "set legacy"}
   BY <1>2, <1>7, <2>1, <2>3 DEF WritesVersion
 <2> QED BY <2>1, <2>2, <2>4, <2>6, <2>9, <2>10, <2>11 DEF VersionsMatch
<1>12. CASE InsertVersion(c)
 <2>1. /\ turn[c] = "insert version" /\ turn'[c] = "set version" /\ row' = row /\ seen' = seen
       /\ versions' = Append(versions, Version(ask[c].id, NextVersion(c), ask[c].content,
                                               seen[c].status, seen[c].account))
   BY <1>3, <1>12 DEF InsertVersion, TurnsTo
 <2>2. row.uid # NoUid BY <1>6, <2>1 DEF Reading, PastRead
 <2>3. SUFFICES ASSUME "version" \notin conflicts' PROVE VersionsMatch' BY <2>1, <2>2 DEF VersionsMatch
 <2>4. PICK x : x = Version(ask[c].id, NextVersion(c), ask[c].content, seen[c].status, seen[c].account) OBVIOUS
 <2>5. x.uid = ask[c].id /\ x.version = NextVersion(c) /\ x.hash = NewHash(c) BY <2>4 DEF Version, NewHash
 <2>6. Len(versions') = Len(versions) + 1 /\ versions'[Len(versions) + 1] = x BY <1>3, <2>1, <2>4, Appended
 <2>7. Len(versions') > 0 /\ LastRow' = x BY <1>3, <2>6 DEF LastRow
 <2>8. NextVersion(c)' = NextVersion(c) /\ NewHash(c)' = NewHash(c) BY <1>2, <2>1 DEF NextVersion, NewHash
 <2>9. WritesVersion(c) /\ "version" \notin conflicts BY <1>2, <2>1, <2>3 DEF WritesVersion
 <2>10. \A d \in Callers : d # c => turn'[d] \notin {"insert first", "set version", "set legacy"} BY <1>7, <2>9
 <2>11. (row.uid # NoUid /\ (\A d \in Callers : ~Unfinished(d)) =>
         \E i \in Current : IsNewest(i) /\ versions[i].hash = row.hash)'
  <3>1. SUFFICES ASSUME ~(Unfinished(c)')
                 PROVE  \E i \in Current' : IsNewest(i)' /\ versions'[i].hash = row'.hash
    OBVIOUS
  <3>2. NextVersion(c) # row.version BY <2>1, <2>8, <3>1 DEF Unfinished
  <3>3. Current' = Current /\ (\A i : IsNewest(i)' <=> IsNewest(i)) /\ \A i \in Current : versions'[i] = versions[i]
    BY <1>3, <2>1, <2>4, <2>5, <3>2, OtherNotCurrent
  <3>4. \A d \in Callers : ~Unfinished(d) BY <1>7, <2>1, <2>9 DEF Unfinished
  <3>5. PICK i \in Current : IsNewest(i) /\ versions[i].hash = row.hash BY <2>2, <2>9, <3>4 DEF VersionsMatch
  <3> QED BY <2>1, <3>3, <3>5
 <2>12. row.account = <<row.uid, row.version>> BY <2>2, <2>9 DEF VersionsMatch
 <2>13. (\A d \in Callers : turn[d] = "set version" =>
            /\ Len(versions) > 0 /\ LastRow.uid = ask[d].id
            /\ LastRow.version = NextVersion(d) /\ LastRow.hash = NewHash(d))'
   BY <1>2, <2>5, <2>7, <2>8, <2>10
 <2> QED BY <2>1, <2>2, <2>10, <2>11, <2>12, <2>13 DEF VersionsMatch
<1>13. CASE SetVersion(c)
 <2>1. PICK age \in Ages : turn[c] = "set version" /\ turn'[c] = "done" /\ row' = UpdatedRow(c, age) /\ versions' = versions
   BY <1>3, <1>13 DEF SetVersion, TurnsTo
 <2>2. /\ row'.uid = row.uid /\ row'.version = NextVersion(c) /\ row'.hash = NewHash(c)
       /\ row'.account = <<ask[c].id, NextVersion(c)>>
   BY <2>1, UpdatedRowIs
 <2>3. row.uid # NoUid BY <1>6, <2>1 DEF Reading, PastRead
 <2>4. SUFFICES ASSUME "version" \notin conflicts' PROVE VersionsMatch' BY <2>2, <2>3 DEF VersionsMatch
 <2>5. /\ Len(versions) > 0 /\ LastRow.uid = ask[c].id
       /\ LastRow.version = NextVersion(c) /\ LastRow.hash = NewHash(c)
   BY <1>2, <2>1, <2>4 DEF VersionsMatch
 <2>6. ask[c].id = row.uid BY <1>2, <1>5, <2>1, <2>4 DEF UidStays, PastRead
 <2>7. PICK n \in Nat : n = Len(versions') BY <1>3, <2>1
 <2>8. n > 0 /\ versions'[n].uid = row'.uid /\ versions'[n].version = row'.version /\ versions'[n].hash = row'.hash
   BY <2>1, <2>2, <2>5, <2>6, <2>7 DEF LastRow
 <2>9. n \in Current' /\ IsNewest(n)' BY <2>7, <2>8, LastIsNewest
 <2>10. \A d \in Callers : turn'[d] \notin {"insert first", "set version", "set legacy"}
   BY <1>2, <1>7, <2>1, <2>4 DEF WritesVersion
 <2> QED BY <2>2, <2>3, <2>6, <2>8, <2>9, <2>10 DEF VersionsMatch
<1>14. versions' = versions => SameRows BY DEF SameRows
<1>15. CASE ReadList(c) BY <1>3, <1>15, <1>14, QuietVersionsMatch DEF ReadList, TurnsTo, Unfinished
<1>16. CASE ReadRow(c)
 <2>1. turn[c] = "read" /\ row' = row /\ versions' = versions BY <1>16 DEF ReadRow
 <2>2. ask[c].op \in {"update", "status", "usage"} BY <1>1, <1>16, <2>1 DEF TurnFits, Asking, ReadRow
 <2>3. AfterRead(ask[c].op, row, ask[c].status) \notin {"insert first", "set version", "set legacy"}
   BY <2>2 DEF AfterRead
 <2>4. turn'[c] \notin {"insert first", "set version", "set legacy"} BY <1>3, <1>16, <2>3 DEF ReadRow, TurnsTo
 <2>5. ~Unfinished(c) BY <2>1 DEF Unfinished
 <2> QED BY <1>3, <1>14, <2>1, <2>4, <2>5, QuietVersionsMatch
<1>17. CASE FindDuplicate(c) BY <1>3, <1>17, <1>14, QuietVersionsMatch DEF FindDuplicate, TurnsTo, Unfinished
<1>18. CASE SetRowStatus(c)
 <2>1. /\ turn[c] = "set status" /\ turn'[c] = "set standing"
       /\ row' = [row EXCEPT !.status = ask[c].status] /\ versions' = versions
   BY <1>3, <1>18 DEF SetRowStatus, TurnsTo
 <2>2. PICK r : r = [row EXCEPT !.status = ask[c].status] OBVIOUS
 <2>3. r.uid = row.uid /\ r.version = row.version /\ r.hash = row.hash /\ r.account = row.account BY <2>2
 <2>4. UNCHANGED <<row.uid, row.version, row.hash, row.account>> BY <2>1, <2>2, <2>3
 <2>5. ~Unfinished(c) BY <2>1 DEF Unfinished
 <2> QED BY <1>3, <1>14, <2>1, <2>4, <2>5, QuietVersionsMatch
<1>19. CASE SetVersionStatus(c)
 <2>1. turn[c] = "set standing" /\ turn'[c] = "done" /\ row' = row /\ versions' = WithStanding(c)
   BY <1>3, <1>19 DEF SetVersionStatus, TurnsTo
 <2>2. SameRows BY <1>3, <2>1, StandingSeq DEF SameRows
 <2>3. ~Unfinished(c) BY <2>1 DEF Unfinished
 <2> QED BY <1>3, <2>1, <2>2, <2>3, QuietVersionsMatch
<1>20. CASE SetUsage(c)
 <2>1. turn[c] = "set usage" /\ turn'[c] = "done" /\ versions' = versions BY <1>3, <1>20 DEF SetUsage, TurnsTo
 <2>2. UNCHANGED <<row.uid, row.version, row.hash, row.account>> BY <1>20, SetUsageIs
 <2>3. ~Unfinished(c) BY <2>1 DEF Unfinished
 <2> QED BY <1>3, <1>14, <2>1, <2>2, <2>3, QuietVersionsMatch
<1>21. CASE StatementFails(c)
 <2>1. /\ turn'[c] = "failed" /\ row' = row /\ versions' = versions
       /\ conflicts' = conflicts \cup HalfDone(c)
   BY <1>3, <1>21 DEF StatementFails, TurnsTo
 <2>2. "version" \notin conflicts' => ~Unfinished(c) BY <2>1, HalfDoneWhat DEF Unfinished
 <2> QED BY <1>3, <1>14, <2>1, <2>2, QuietVersionsMatch
<1> QED BY <1>8, <1>9, <1>10, <1>11, <1>12, <1>13, <1>15, <1>16, <1>17, <1>18, <1>19, <1>20, <1>21, Zenon DEF Turnings

LEMMA BegunStandingMatches ==
  ASSUME SkillControl, StandingMatches, NEW c \in Callers, Begun(c)
  PROVE  StandingMatches'
<1>1. /\ turn[c] = "idle" /\ turn'[c] \in {"insert legacy", "insert row", "read"}
      /\ \A d \in Callers : d # c => turn'[d] = turn[d] /\ ask'[d] = ask[d]
      /\ UNCHANGED <<row, versions, seen, shown, uses>> /\ SkillControl'
      /\ "standing" \notin conflicts' => "standing" \notin conflicts
  BY BegunHolds
<1>2. /\ Current' = Current /\ LastRow' = LastRow /\ \A i : IsNewest(i)' <=> IsNewest(i)
      /\ turn'[c] \notin PastRead
  BY <1>1 DEF Current, Rows, LastRow, IsNewest, PastRead
<1>3. row.uid \in DidPublish' => row.uid \in DidPublish
 <2>1. CASE turn'[c] = "insert row"
  <3>1. row.status = "absent" BY <1>1, <2>1 DEF SkillControl, SkillOrder
  <3>2. row.uid = NoUid BY <3>1 DEF SkillControl, SkillOrder
  <3> QED BY <3>2, RegistryAssumption DEF DidPublish, NoUid, RegistryAssumption
 <2>2. CASE turn'[c] # "insert row" BY <1>1, <2>2 DEF SkillControl, TurnFits, Asking, DidPublish
 <2> QED BY <2>1, <2>2
<1>4. SUFFICES ASSUME "standing" \notin conflicts' PROVE StandingMatches' BY DEF StandingMatches
<1>5. /\ (\A d \in Callers : turn[d] = "insert first" => row.status = ask[d].status)'
      /\ (\A d \in Callers : turn[d] \in PastRead /\ ask[d].op = "update" => seen[d].status = row.status)'
      /\ (\A d \in Callers : turn[d] \in PastRead /\ ask[d].op = "status" => seen[d].account = row.account)'
  BY <1>1, <1>2, <1>4 DEF StandingMatches
<1>6. /\ (\A d \in Callers : turn[d] = "set version" => LastRow.status = seen[d].status)'
      /\ (\A d \in Callers : turn[d] = "set standing" => row.status = ask[d].status)'
  BY <1>1, <1>2, <1>4 DEF StandingMatches
<1>7. (row.uid \in DidPublish /\ (\A d \in Callers : turn[d] \notin {"insert first", "set standing"}) =>
         \A i \in Current : IsNewest(i) => versions[i].status = row.status)'
  BY <1>1, <1>2, <1>3, <1>4 DEF StandingMatches
<1> QED BY <1>5, <1>6, <1>7, Zenon DEF StandingMatches

LEMMA QuietStandingMatches ==
  ASSUME SkillControl, StandingMatches, NEW c \in Callers, Turnings(c),
         UNCHANGED <<row.uid, row.version, row.status, row.account, versions, seen>>,
         turn'[c] \notin {"insert first", "set version", "set standing"},
         turn'[c] \in PastRead => turn[c] \in PastRead,
         "standing" \notin conflicts' => turn[c] \notin {"insert first", "set standing"}
  PROVE  StandingMatches'
<1>1. /\ ask' = ask
      /\ \A d \in Callers : d # c => turn'[d] = turn[d]
      /\ "standing" \notin conflicts' => "standing" \notin conflicts
  BY TurningHolds
<1>2. Current' = Current /\ LastRow' = LastRow /\ (\A i : IsNewest(i)' <=> IsNewest(i)) /\ DidPublish' = DidPublish
  BY <1>1 DEF Current, Rows, LastRow, IsNewest, DidPublish
<1>3. SUFFICES ASSUME "standing" \notin conflicts' PROVE StandingMatches' BY DEF StandingMatches
<1>4. /\ (\A d \in Callers : turn[d] = "insert first" => row.status = ask[d].status)'
      /\ (\A d \in Callers : turn[d] \in PastRead /\ ask[d].op = "update" => seen[d].status = row.status)'
      /\ (\A d \in Callers : turn[d] \in PastRead /\ ask[d].op = "status" => seen[d].account = row.account)'
  BY <1>1, <1>3 DEF StandingMatches
<1>5. /\ (\A d \in Callers : turn[d] = "set version" => LastRow.status = seen[d].status)'
      /\ (\A d \in Callers : turn[d] = "set standing" => row.status = ask[d].status)'
  BY <1>1, <1>2, <1>3 DEF StandingMatches
<1>6. (row.uid \in DidPublish /\ (\A d \in Callers : turn[d] \notin {"insert first", "set standing"}) =>
         \A i \in Current : IsNewest(i) => versions[i].status = row.status)'
  BY <1>1, <1>2, <1>3 DEF StandingMatches
<1> QED BY <1>4, <1>5, <1>6, Zenon DEF StandingMatches

LEMMA TurningStandingMatches ==
  ASSUME SkillControl, OneWriter, UidStays, VersionsMatch, StandingMatches, NEW c \in Callers, Turnings(c)
  PROVE  StandingMatches'
<1>1. SkillTypes /\ SkillOrder /\ \A d \in Callers : TurnFits(d) BY DEF SkillControl
<1>2. /\ ask' = ask /\ DidPublish' = DidPublish
      /\ \A d \in Callers : d # c => turn'[d] = turn[d] /\ seen'[d] = seen[d]
      /\ "standing" \notin conflicts' => "standing" \notin conflicts
  BY TurningHolds DEF DidPublish
<1>3. turn = [d \in Callers |-> turn[d]] /\ Len(versions) \in Nat /\ \E S : versions \in Seq(S) BY <1>1 DEF SkillTypes
<1>4. \A d \in Callers : d # NoUid /\ d # "earlier" BY RegistryAssumption DEF RegistryAssumption, NoUid
<1>5. NoUid \notin DidPublish BY <1>4 DEF DidPublish, NoUid
<1>6. turn[c] \in Reading => row.uid # NoUid \/ turn[c] = "read" BY <1>1 DEF SkillOrder, Reading, PastRead, Ended
<1>7. SUFFICES ASSUME "standing" \notin conflicts' PROVE StandingMatches' BY DEF StandingMatches
<1>8. "standing" \notin conflicts /\ "version" \notin conflicts /\ "migration" \notin conflicts
  BY <1>2, <1>7 DEF OneWriter
\* While one request writes the status of a version, no other does.
<1>9. ASSUME WritesStanding(c)
      PROVE  \A d \in Callers : d # c =>
               /\ turn'[d] \notin {"insert first", "set version", "set standing"}
               /\ turn[d] \notin {"insert first", "set version", "set standing"}
               /\ turn'[d] \in PastRead => ask'[d].op \notin {"update", "status"}
 <2> SUFFICES ASSUME NEW d \in Callers, d # c
              PROVE  /\ turn[d] \notin {"insert first", "set version", "set standing"}
                     /\ turn[d] \in PastRead => ask[d].op \notin {"update", "status"}
   BY <1>2
 <2>1. ~WritesStanding(d) BY <1>8, <1>9, Alone
 <2> QED BY <1>1, <2>1 DEF WritesStanding, WritesVersion, PastRead, TurnFits
<1>10. CASE InsertLegacyVersion(c)
 <2>1. turn[c] = "insert legacy" /\ turn'[c] = "set legacy" /\ row' = row /\ seen' = seen
   BY <1>3, <1>10 DEF InsertLegacyVersion, TurnsTo
 <2>2. row.uid = NoUid /\ WritesStanding(c) BY <1>8, <2>1 DEF UidStays, Migrating, WritesVersion, WritesStanding
 <2>3. turn'[c] \notin PastRead BY <2>1 DEF PastRead
 <2> QED BY <1>2, <1>5, <1>9, <2>1, <2>2, <2>3 DEF StandingMatches
<1>11. CASE SetLegacyRow(c)
 <2>1. /\ turn[c] = "set legacy" /\ turn'[c] = "read"
       /\ row' = [row EXCEPT !.uid = c, !.account = <<c, 1>>, !.hash = ContentHash(NoContent, 1)]
   BY <1>3, <1>11 DEF SetLegacyRow, TurnsTo
 <2>2. PICK r : r = [row EXCEPT !.uid = c, !.account = <<c, 1>>, !.hash = ContentHash(NoContent, 1)] OBVIOUS
 <2>3. r.uid = c BY <2>2
 <2>4. row'.uid = c BY <2>1, <2>2, <2>3
 <2>5. WritesStanding(c) /\ turn'[c] \notin PastRead BY <2>1 DEF WritesVersion, WritesStanding, PastRead
 <2>6. ask[c].op # "publish" BY <1>1, <2>1 DEF TurnFits, Asking
 <2>7. row'.uid \notin DidPublish' BY <1>2, <1>4, <2>4, <2>6 DEF DidPublish
 <2> QED BY <1>2, <1>9, <2>1, <2>5, <2>7 DEF StandingMatches
<1>12. CASE InsertRow(c)
 <2>1. turn[c] = "insert row" /\ turn'[c] = "insert first" /\ row' = Row(c, 1, ask[c].content, ask[c].status)
   BY <1>3, <1>12 DEF InsertRow, TurnsTo
 <2>2. row'.status = ask[c].status BY <2>1 DEF Row
 <2>3. \A d \in Callers : turn[d] \in Ended \cup {"insert row", "read"} BY <1>1, <2>1 DEF SkillOrder
 <2>4. \A d \in Callers : d # c => turn'[d] \notin PastRead
                                   /\ turn'[d] \notin {"insert first", "set version", "set standing"}
   BY <1>2, <2>3 DEF Ended, PastRead
 <2>5. turn'[c] \notin PastRead BY <2>1 DEF PastRead
 <2> QED BY <1>2, <2>1, <2>2, <2>4, <2>5 DEF StandingMatches
<1>13. CASE InsertFirstVersion(c)
 <2>1. /\ turn[c] = "insert first" /\ turn'[c] = "done" /\ row' = row
       /\ versions' = Append(versions, Version(c, 1, ask[c].content, ask[c].status, <<>>))
   BY <1>3, <1>13 DEF InsertFirstVersion, TurnsTo
 <2>2. row.uid = c /\ row.version = 1 /\ row.status = ask[c].status
   BY <1>8, <2>1 DEF UidStays, VersionsMatch, StandingMatches
 <2>3. PICK x : x = Version(c, 1, ask[c].content, ask[c].status, <<>>) OBVIOUS
 <2>4. x.uid = c /\ x.version = 1 /\ x.status = ask[c].status BY <2>3 DEF Version
 <2>5. Len(versions') = Len(versions) + 1 /\ versions'[Len(versions) + 1] = x BY <1>3, <2>1, <2>3, Appended
 <2>6. PICK n \in Nat : n = Len(versions') BY <1>3, <2>5
 <2>7. n > 0 /\ versions'[n] = x BY <1>3, <2>5, <2>6
 <2>8. \A i : IsNewest(i)' => i = n BY <2>1, <2>2, <2>4, <2>6, <2>7, LastIsNewest
 <2>9. \A i \in Current' : IsNewest(i)' => versions'[i].status = row'.status BY <2>1, <2>2, <2>4, <2>7, <2>8
 <2>10. WritesStanding(c) /\ turn'[c] \notin PastRead BY <2>1 DEF WritesVersion, WritesStanding, PastRead
 <2> QED BY <1>2, <1>9, <2>1, <2>9, <2>10 DEF StandingMatches
<1>14. CASE InsertVersion(c)
 <2>1. /\ turn[c] = "insert version" /\ turn'[c] = "set version" /\ row' = row /\ seen' = seen
       /\ versions' = Append(versions, Version(ask[c].id, NextVersion(c), ask[c].content,
                                               seen[c].status, seen[c].account))
   BY <1>3, <1>14 DEF InsertVersion, TurnsTo
 <2>2. PICK x : x = Version(ask[c].id, NextVersion(c), ask[c].content, seen[c].status, seen[c].account) OBVIOUS
 <2>3. x.status = seen[c].status BY <2>2 DEF Version
 <2>4. Len(versions') = Len(versions) + 1 /\ versions'[Len(versions) + 1] = x BY <1>3, <2>1, <2>2, Appended
 <2>5. LastRow' = x BY <2>4 DEF LastRow
 <2>6. ask[c].op = "update" /\ turn[c] \in PastRead /\ WritesStanding(c)
   BY <1>1, <2>1 DEF TurnFits, PastRead, WritesStanding, WritesVersion
 <2>7. seen[c].status = row.status BY <1>8, <2>6 DEF StandingMatches
 <2>8. /\ Current \subseteq Current' /\ Current \subseteq 1..Len(versions)
       /\ \A i \in Current' : i \in Current \/ i = Len(versions) + 1
       /\ \A i \in 1..Len(versions) : versions'[i] = versions[i]
   BY <1>3, <2>1, <2>2, OtherNotCurrent
 <2>9. ASSUME NEW i \in Current', IsNewest(i)', row.uid \in DidPublish
       PROVE  versions'[i].status = row.status
  <3>1. CASE i = Len(versions) + 1 BY <2>3, <2>4, <2>7, <3>1
  <3>2. CASE i \in Current
   <4>1. IsNewest(i) BY <2>8, <2>9, <3>2 DEF IsNewest
   <4>2. versions[i].status = row.status BY <1>8, <1>9, <2>1, <2>6, <2>9, <3>2, <4>1 DEF StandingMatches
   <4> QED BY <2>8, <3>2, <4>2
  <3> QED BY <2>8, <3>1, <3>2
 <2>10. /\ (\A d \in Callers : turn[d] = "insert first" => row.status = ask[d].status)'
        /\ (\A d \in Callers : turn[d] \in PastRead /\ ask[d].op = "update" => seen[d].status = row.status)'
        /\ (\A d \in Callers : turn[d] \in PastRead /\ ask[d].op = "status" => seen[d].account = row.account)'
        /\ (\A d \in Callers : turn[d] = "set version" => LastRow.status = seen[d].status)'
        /\ (\A d \in Callers : turn[d] = "set standing" => row.status = ask[d].status)'
   BY <1>2, <1>9, <2>1, <2>3, <2>5, <2>6, <2>7
 <2> QED BY <1>2, <2>1, <2>9, <2>10 DEF StandingMatches
<1>15. CASE SetVersion(c)
 <2>1. PICK age \in Ages : turn[c] = "set version" /\ turn'[c] = "done" /\ row' = UpdatedRow(c, age) /\ versions' = versions
   BY <1>3, <1>15 DEF SetVersion, TurnsTo
 <2>2. row'.uid = row.uid /\ row'.version = NextVersion(c) /\ row'.status = row.status BY <2>1, UpdatedRowIs
 <2>3. /\ Len(versions) > 0 /\ LastRow.uid = ask[c].id
       /\ LastRow.version = NextVersion(c)
   BY <1>8, <2>1 DEF VersionsMatch
 <2>4. ask[c].id = row.uid /\ ask[c].op = "update" /\ turn[c] \in PastRead
   BY <1>1, <1>8, <2>1 DEF UidStays, PastRead, TurnFits
 <2>5. LastRow.status = row.status BY <1>8, <2>1, <2>4 DEF StandingMatches
 <2>6. PICK n \in Nat : n = Len(versions') BY <1>3, <2>1
 <2>7. n > 0 /\ versions'[n].uid = row'.uid /\ versions'[n].version = row'.version /\ versions'[n].status = row'.status
   BY <2>1, <2>2, <2>3, <2>4, <2>5, <2>6 DEF LastRow
 <2>8. \A i : IsNewest(i)' => i = n BY <2>6, <2>7, LastIsNewest
 <2>9. WritesStanding(c) /\ turn'[c] \notin PastRead BY <2>1 DEF WritesVersion, WritesStanding, PastRead
 <2> QED BY <1>2, <1>9, <2>1, <2>7, <2>8, <2>9 DEF StandingMatches
<1>16. CASE SetRowStatus(c)
 <2>1. /\ turn[c] = "set status" /\ turn'[c] = "set standing" /\ seen' = seen
       /\ row' = [row EXCEPT !.status = ask[c].status]
   BY <1>3, <1>16 DEF SetRowStatus, TurnsTo
 <2>2. PICK r : r = [row EXCEPT !.status = ask[c].status] OBVIOUS
 <2>3. r.account = row.account /\ r.status = ask[c].status BY <2>2
 <2>4. ask[c].op = "status" /\ turn[c] \in PastRead /\ WritesStanding(c)
   BY <1>1, <2>1 DEF TurnFits, PastRead, WritesStanding
 <2>5. row'.account = row.account BY <2>1, <2>2, <2>3
 <2>6. seen[c].account = row.account BY <1>8, <2>4 DEF StandingMatches
 <2>7. row'.status = ask[c].status BY <2>1, <2>2, <2>3
 <2> QED BY <1>2, <1>9, <2>1, <2>4, <2>5, <2>6, <2>7 DEF StandingMatches
<1>17. CASE SetVersionStatus(c)
 <2>1. turn[c] = "set standing" /\ turn'[c] = "done" /\ row' = row /\ versions' = WithStanding(c)
   BY <1>3, <1>17 DEF SetVersionStatus, TurnsTo
 <2>2. ask[c].op = "status" /\ turn[c] \in PastRead /\ WritesStanding(c)
   BY <1>1, <2>1 DEF TurnFits, PastRead, WritesStanding
 <2>3. ask[c].id = row.uid /\ row.status = ask[c].status /\ seen[c].account = row.account
   BY <1>8, <2>1, <2>2 DEF UidStays, StandingMatches
 <2>4. row.account = <<row.uid, row.version>> BY <1>6, <1>8, <2>1 DEF VersionsMatch, Reading, PastRead
 <2>5. /\ Len(versions') = Len(versions)
       /\ \A i \in 1..Len(versions) :
            /\ versions'[i].uid = versions[i].uid /\ versions'[i].version = versions[i].version
            /\ versions'[i].status =
                 IF versions[i].uid = ask[c].id /\ <<versions[i].uid, versions[i].version>> = seen[c].account
                 THEN ask[c].status ELSE versions[i].status
   BY <1>3, <2>1, StandingSeq
 <2>6. \A i \in Current' : i \in 1..Len(versions) /\ versions[i].uid = row.uid /\ versions[i].version = row.version
   BY <2>1, <2>5 DEF Current, Rows
 <2>7. \A i \in Current' : versions'[i].status = row.status BY <2>3, <2>4, <2>5, <2>6
 <2>8. turn'[c] \notin PastRead BY <2>1 DEF PastRead
 <2> QED BY <1>2, <1>9, <2>1, <2>2, <2>7, <2>8 DEF StandingMatches
<1>18. CASE ReadRow(c)
 <2>1. turn[c] = "read" /\ row' = row /\ versions' = versions /\ ask[c].op \in {"update", "status", "usage"}
   BY <1>1, <1>18 DEF TurnFits, Asking, ReadRow
 <2>2. AfterRead(ask[c].op, row, ask[c].status) \notin {"insert first", "set version", "set standing"}
   BY <2>1 DEF AfterRead
 <2>3. turn'[c] \notin {"insert first", "set version", "set standing"} BY <1>3, <1>18, <2>2 DEF ReadRow, TurnsTo
 <2>4. turn'[c] \in PastRead => seen'[c] = row BY <1>1, <1>3, <1>18 DEF ReadRow, TurnsTo, PastRead, SkillTypes
 <2>5. Current' = Current /\ LastRow' = LastRow /\ \A i : IsNewest(i)' <=> IsNewest(i)
   BY <2>1 DEF Current, Rows, LastRow, IsNewest
 <2>6. /\ (\A d \in Callers : turn[d] = "insert first" => row.status = ask[d].status)'
       /\ (\A d \in Callers : turn[d] \in PastRead /\ ask[d].op = "update" => seen[d].status = row.status)'
       /\ (\A d \in Callers : turn[d] \in PastRead /\ ask[d].op = "status" => seen[d].account = row.account)'
   BY <1>2, <1>8, <2>1, <2>3, <2>4 DEF StandingMatches
 <2>7. /\ (\A d \in Callers : turn[d] = "set version" => LastRow.status = seen[d].status)'
       /\ (\A d \in Callers : turn[d] = "set standing" => row.status = ask[d].status)'
   BY <1>2, <1>8, <2>1, <2>3, <2>5 DEF StandingMatches
 <2>8. (row.uid \in DidPublish /\ (\A d \in Callers : turn[d] \notin {"insert first", "set standing"}) =>
        \A i \in Current : IsNewest(i) => versions[i].status = row.status)'
   BY <1>2, <1>8, <2>1, <2>3, <2>5 DEF StandingMatches
 <2> QED BY <2>6, <2>7, <2>8, Zenon DEF StandingMatches
<1>19. CASE ReadList(c) BY <1>3, <1>19, QuietStandingMatches DEF ReadList, TurnsTo, PastRead
<1>20. CASE FindDuplicate(c) BY <1>3, <1>20, QuietStandingMatches DEF FindDuplicate, TurnsTo, PastRead
<1>21. CASE SetUsage(c) BY <1>3, <1>21, SetUsageIs, QuietStandingMatches DEF SetUsage, TurnsTo, PastRead
<1>22. CASE StatementFails(c)
 <2>1. /\ turn'[c] = "failed" /\ row' = row /\ versions' = versions /\ seen' = seen
       /\ conflicts' = conflicts \cup HalfDone(c)
   BY <1>3, <1>22 DEF StatementFails, TurnsTo
 <2>2. turn[c] \notin {"insert first", "set standing"} BY <1>7, <2>1, HalfDoneWhat
 <2> QED BY <2>1, <2>2, QuietStandingMatches DEF PastRead
<1> QED
  BY <1>10, <1>11, <1>12, <1>13, <1>14, <1>15, <1>16, <1>17, <1>18, <1>19, <1>20, <1>21, <1>22, Zenon DEF Turnings

LEMMA CountsFitMore ==
  ASSUME NEW r, CountsFit(r), uses' \in Nat, uses' >= uses, uses \in Nat
  PROVE  CountsFit(r)'
BY DEF CountsFit

LEMMA BegunCountsMatch ==
  ASSUME SkillControl, CountsMatch, ScoreMatches, NEW c \in Callers, Begun(c)
  PROVE  CountsMatch' /\ ScoreMatches'
<1>1. /\ turn'[c] \in {"insert legacy", "insert row", "read"}
      /\ \A d \in Callers : d # c => turn'[d] = turn[d] /\ ask'[d] = ask[d]
      /\ row' = row /\ seen' = seen /\ uses' = uses
      /\ "usage" \notin conflicts' => "usage" \notin conflicts
      /\ "score" \notin conflicts' => "score" \notin conflicts
  BY BegunHolds
<1>2. turn'[c] \notin PastRead /\ turn'[c] # "set usage" BY <1>1 DEF PastRead
<1>3. CountsMatch' BY <1>1, <1>2 DEF CountsMatch, CountsFit
<1>4. ScoreMatches' BY <1>1, <1>2 DEF ScoreMatches, ScoreOfSomeAge, ScoreOf
<1> QED BY <1>3, <1>4

\* Turns that leave the counts.
LEMMA QuietCountsMatch ==
  ASSUME SkillControl, CountsMatch, NEW c \in Callers, Turnings(c),
         SameCounts(row', row), uses' = uses,
         turn'[c] \in PastRead => (turn[c] \in PastRead /\ seen'[c] = seen[c]) \/ seen'[c] = row,
         turn'[c] = "set usage" => seen'[c] = row
  PROVE  CountsMatch'
<1>1. /\ \A d \in Callers : d # c => turn'[d] = turn[d] /\ seen'[d] = seen[d]
      /\ "usage" \notin conflicts' => "usage" \notin conflicts
  BY TurningHolds
<1>2. uses' \in Nat /\ CountsFit(row) /\ \A d \in Callers : turn[d] \in PastRead => CountsFit(seen[d])
  BY DEF CountsMatch
<1>3. \A r : CountsFit(r) => CountsFit(r)' BY DEF CountsFit
<1>4. (CountsFit(row))' BY <1>2 DEF CountsFit, SameCounts
<1>5. (\A d \in Callers : turn[d] \in PastRead => CountsFit(seen[d]))'
 <2> SUFFICES ASSUME NEW d \in Callers, turn'[d] \in PastRead PROVE CountsFit(seen[d])' OBVIOUS
 <2>1. CountsFit(seen'[d]) BY <1>1, <1>2
 <2> QED BY <2>1 DEF CountsFit
<1>6. ("usage" \notin conflicts =>
         row.usage = uses /\ \A d \in Callers : turn[d] = "set usage" => seen[d].usage = row.usage)'
  BY <1>1 DEF CountsMatch, SameCounts
<1> QED BY <1>2, <1>4, <1>5, <1>6, Zenon DEF CountsMatch

LEMMA QuietScoreMatches ==
  ASSUME SkillControl, ScoreMatches, NEW c \in Callers, Turnings(c),
         SameCounts(row', row), row'.score = row.score,
         turn'[c] \in PastRead => (turn[c] \in PastRead /\ seen'[c] = seen[c]) \/ seen'[c] = row
  PROVE  ScoreMatches'
<1>1. /\ ask' = ask /\ \A d \in Callers : d # c => turn'[d] = turn[d] /\ seen'[d] = seen[d]
      /\ "score" \notin conflicts' => "score" \notin conflicts
  BY TurningHolds
<1>2. SUFFICES ASSUME "score" \notin conflicts' PROVE ScoreMatches' BY DEF ScoreMatches
<1>3. \A age : ScoreOf(row, age)' = ScoreOf(row, age) BY DEF ScoreOf, SameCounts
<1>4. (row.usage > 0 => ScoreOfSomeAge)' BY <1>1, <1>2, <1>3 DEF ScoreMatches, ScoreOfSomeAge, SameCounts
<1>5. (\A d \in Callers : turn[d] \in PastRead /\ ask[d].op = "update" => SameCounts(seen[d], row))'
 <2> SUFFICES ASSUME NEW d \in Callers, turn'[d] \in PastRead, ask[d].op = "update"
              PROVE  SameCounts(seen'[d], row')
   BY <1>1 DEF SameCounts
 <2>1. SameCounts(seen'[d], row) BY <1>1, <1>2 DEF ScoreMatches, SameCounts
 <2> QED BY <2>1 DEF SameCounts
<1> QED BY <1>4, <1>5, Zenon DEF ScoreMatches

LEMMA SetUsageCounts ==
  ASSUME SkillControl, OneWriter, CountsMatch, ScoreMatches, NEW c \in Callers, SetUsage(c)
  PROVE  CountsMatch' /\ ScoreMatches'
<1>0. Turnings(c) BY DEF Turnings
<1>1. /\ turn[c] = "set usage" /\ ask' = ask /\ seen' = seen /\ uses' = uses + 1 /\ conflicts' = conflicts
      /\ \A d \in Callers : d # c => turn'[d] = turn[d]
  BY <1>0, TurningHolds DEF SetUsage
<1>2. turn'[c] = "done" BY DEF SetUsage, TurnsTo, SkillControl, SkillTypes
<1>3. /\ row'.usage = seen[c].usage + 1
      /\ row'.success = seen[c].success + (IF ask[c].success THEN 1 ELSE 0)
      /\ row'.failure = seen[c].failure + (IF ask[c].success THEN 0 ELSE 1)
      /\ row'.score = ScoreColumn(CalcReputation(row'.usage, SuccessRate(row'.success, row'.failure),
                                               RecencyWeight(TRUE, 0)))
  BY SetUsageIs
<1>4. CountsFit(seen[c]) /\ uses \in Nat /\ \A d \in Callers : turn[d] \in PastRead => CountsFit(seen[d])
  BY <1>1 DEF CountsMatch, PastRead
<1>5. PICK u, s, f, n : u = seen[c].usage /\ s = seen[c].success /\ f = seen[c].failure /\ n = uses OBVIOUS
<1>6. u \in Nat /\ s \in Nat /\ f \in Nat /\ n \in Nat /\ u = s + f /\ u <= n BY <1>4, <1>5 DEF CountsFit
<1>7. PICK i, j : i = (IF ask[c].success THEN 1 ELSE 0) /\ j = (IF ask[c].success THEN 0 ELSE 1) OBVIOUS
<1>8. (i = 1 /\ j = 0) \/ (i = 0 /\ j = 1) BY <1>7
<1>9. row'.usage = u + 1 /\ row'.success = s + i /\ row'.failure = f + j /\ uses' = n + 1 BY <1>1, <1>3, <1>5, <1>7
<1>10. (CountsFit(row))' BY <1>6, <1>8, <1>9 DEF CountsFit
<1>11. row'.usage > 0 BY <1>6, <1>9
<1>12. turn'[c] \notin PastRead /\ turn'[c] # "set usage" BY <1>2 DEF PastRead
<1>13. (\A d \in Callers : turn[d] \in PastRead => CountsFit(seen[d]))'
 <2> SUFFICES ASSUME NEW d \in Callers, turn'[d] \in PastRead PROVE CountsFit(seen[d])' OBVIOUS
 <2>1. CountsFit(seen[d]) /\ seen'[d] = seen[d] BY <1>1, <1>4, <1>12
 <2>2. uses' >= uses /\ uses' \in Nat BY <1>5, <1>6, <1>9
 <2>3. PICK a : a = seen[d] OBVIOUS
 <2>4. CountsFit(a)' BY <1>4, <2>1, <2>2, <2>3, CountsFitMore
 <2> QED BY <2>1, <2>3, <2>4 DEF CountsFit
<1>14. ("usage" \notin conflicts =>
          row.usage = uses /\ \A d \in Callers : turn[d] = "set usage" => seen[d].usage = row.usage)'
 <2> SUFFICES ASSUME "usage" \notin conflicts
              PROVE  row'.usage = uses' /\ \A d \in Callers : turn'[d] # "set usage"
   BY <1>1
 <2>1. u = n BY <1>1, <1>5 DEF CountsMatch
 <2>2. \A d \in Callers : d # c => turn[d] # "set usage" BY <1>1, Alone
 <2> QED BY <1>1, <1>9, <1>12, <2>1, <2>2
<1>15. CountsMatch'
 <2>1. uses' \in Nat BY <1>6, <1>9
 <2> QED BY <1>10, <1>13, <1>14, <2>1, Zenon DEF CountsMatch
<1>16. ScoreOfSomeAge'
 <2>1. row'.score = ScoreOf(row', 0) BY <1>3, <1>11 DEF ScoreOf
 <2> QED BY <2>1, RegistryAssumption DEF RegistryAssumption, ScoreOfSomeAge, ScoreOf
<1>17. ASSUME "score" \notin conflicts
       PROVE  \A d \in Callers : turn'[d] \in PastRead => ask'[d].op # "update"
 <2> SUFFICES ASSUME NEW d \in Callers, d # c, turn[d] \in PastRead PROVE ask[d].op # "update" BY <1>1, <1>12
 <2>1. ~WritesScore(d) BY <1>1, <1>17, Alone DEF WritesScore
 <2>2. TurnFits(d) BY DEF SkillControl
 <2> QED BY <2>1, <2>2 DEF TurnFits, WritesScore, PastRead
<1>18. ScoreMatches' BY <1>1, <1>16, <1>17 DEF ScoreMatches
<1> QED BY <1>15, <1>18

LEMMA TurningCountsMatch ==
  ASSUME SkillControl, OneWriter, CountsMatch, ScoreMatches, NEW c \in Callers, Turnings(c)
  PROVE  CountsMatch' /\ ScoreMatches'
<1>1. SkillTypes /\ SkillOrder /\ \A d \in Callers : TurnFits(d) BY DEF SkillControl
<1>2. turn = [d \in Callers |-> turn[d]] BY <1>1 DEF SkillTypes
<1>3. SameCounts(row, row) BY DEF SameCounts
<1>4. CASE SetUsage(c) BY <1>4, SetUsageCounts
<1>5. CASE SetLegacyRow(c)
 <2>1. /\ turn'[c] = "read" /\ uses' = uses
       /\ row' = [row EXCEPT !.uid = c, !.account = <<c, 1>>, !.hash = ContentHash(NoContent, 1)]
   BY <1>2, <1>5 DEF SetLegacyRow, TurnsTo
 <2>2. PICK r : r = [row EXCEPT !.uid = c, !.account = <<c, 1>>, !.hash = ContentHash(NoContent, 1)] OBVIOUS
 <2>3. SameCounts(r, row) /\ r.score = row.score BY <2>2 DEF SameCounts
 <2>4. SameCounts(row', row) /\ row'.score = row.score BY <2>1, <2>2, <2>3
 <2> QED BY <2>1, <2>4, QuietCountsMatch, QuietScoreMatches DEF PastRead
<1>6. CASE InsertRow(c)
 <2>1. /\ turn[c] = "insert row" /\ turn'[c] = "insert first" /\ uses' = uses /\ seen' = seen /\ ask' = ask
       /\ row' = Row(c, 1, ask[c].content, ask[c].status) /\ conflicts' = conflicts
   BY <1>2, <1>6 DEF InsertRow, TurnsTo
 <2>2. row'.usage = 0 /\ row'.success = 0 /\ row'.failure = 0 BY <2>1 DEF Row
 <2>3. uses = 0 /\ \A d \in Callers : turn[d] \in Ended \cup {"insert row", "read"} BY <1>1, <2>1 DEF SkillOrder
 <2>4. \A d \in Callers : d # c => turn'[d] = turn[d] BY TurningHolds
 <2>5. \A d \in Callers : turn'[d] \notin PastRead /\ turn'[d] # "set usage" BY <2>1, <2>3, <2>4 DEF PastRead, Ended
 <2>6. CountsMatch'
  <3>2. uses' = 0 BY <2>1, <2>3
  <3>3. (CountsFit(row))' BY <2>2, <3>2 DEF CountsFit
  <3>1. uses' \in Nat /\ CountsFit(row)' /\ row'.usage = uses' BY <2>2, <3>2, <3>3
  <3> QED BY <2>5, <3>1, Zenon DEF CountsMatch
 <2>7. ScoreMatches'
  <3>1. ~(row'.usage > 0) BY <2>2
  <3>2. (row.usage > 0 => ScoreOfSomeAge)' BY <3>1
  <3> QED BY <2>5, <3>2, Zenon DEF ScoreMatches
 <2> QED BY <2>6, <2>7
<1>7. CASE SetVersion(c)
 <2>1. PICK age \in Ages : turn[c] = "set version" /\ turn'[c] = "done" /\ row' = UpdatedRow(c, age) /\ uses' = uses /\ ask' = ask /\ seen' = seen
   BY <1>2, <1>7, TurningHolds DEF SetVersion, TurnsTo
 <2>2. SameCounts(row', row) /\ row'.score = ScoreOf(seen[c], age) BY <2>1, UpdatedRowIs
 <2>3. CountsMatch' BY <2>1, <2>2, QuietCountsMatch DEF PastRead
 <2>4. ASSUME "score" \notin conflicts' PROVE ScoreMatches'
  <3>1. /\ "score" \notin conflicts /\ \A d \in Callers : d # c => turn'[d] = turn[d] BY <2>4, TurningHolds
  <3>2. turn[c] \in PastRead /\ ask[c].op = "update" /\ WritesScore(c)
    BY <1>1, <2>1 DEF TurnFits, PastRead, WritesScore
  <3>3. SameCounts(seen[c], row) BY <3>1, <3>2 DEF ScoreMatches
  <3>4. ScoreOf(seen[c], age) = ScoreOf(row, age) BY <3>3 DEF ScoreOf, SameCounts
  <3>5. ScoreOf(row', age) = ScoreOf(row, age) BY <2>2 DEF ScoreOf, SameCounts
  <3>8. ScoreOfSomeAge' BY <2>2, <3>4, <3>5 DEF ScoreOfSomeAge, ScoreOf
  <3>6. \A d \in Callers : d # c /\ turn[d] \in PastRead => ask[d].op # "update"
   <4> SUFFICES ASSUME NEW d \in Callers, d # c, turn[d] \in PastRead PROVE ask[d].op # "update" OBVIOUS
   <4>1. ~WritesScore(d) BY <3>1, <3>2, Alone
   <4> QED BY <1>1, <4>1 DEF TurnFits, WritesScore, PastRead
  <3>7. \A d \in Callers : turn'[d] \in PastRead => ask'[d].op # "update" BY <2>1, <3>1, <3>6 DEF PastRead
  <3> QED BY <3>7, <3>8 DEF ScoreMatches
 <2>5. ScoreMatches' BY <2>4 DEF ScoreMatches
 <2> QED BY <2>3, <2>5
<1>8. CASE SetRowStatus(c)
 <2>1. /\ turn[c] = "set status" /\ turn'[c] = "set standing" /\ uses' = uses /\ seen' = seen
       /\ row' = [row EXCEPT !.status = ask[c].status]
   BY <1>2, <1>8 DEF SetRowStatus, TurnsTo
 <2>2. PICK r : r = [row EXCEPT !.status = ask[c].status] OBVIOUS
 <2>3. SameCounts(r, row) /\ r.score = row.score BY <2>2 DEF SameCounts
 <2>4. SameCounts(row', row) /\ row'.score = row.score BY <2>1, <2>2, <2>3
 <2> QED BY <2>1, <2>4, QuietCountsMatch, QuietScoreMatches DEF PastRead
<1>9. CASE ReadRow(c)
 <2>1. turn[c] = "read" /\ row' = row /\ uses' = uses BY <1>9 DEF ReadRow
 <2>2. turn'[c] \in PastRead => seen'[c] = row BY <1>1, <1>2, <1>9 DEF ReadRow, TurnsTo, PastRead, SkillTypes
 <2>3. "set usage" \in PastRead BY DEF PastRead
 <2> QED BY <1>3, <2>1, <2>2, <2>3, QuietCountsMatch, QuietScoreMatches
<1>10. CASE InsertLegacyVersion(c) \/ InsertFirstVersion(c) \/ ReadList(c) \/ SetVersionStatus(c) \/ StatementFails(c)
 <2>1. turn'[c] \in {"set legacy", "done", "failed"} /\ row' = row /\ uses' = uses
   BY <1>2, <1>10 DEF InsertLegacyVersion, InsertFirstVersion, ReadList, SetVersionStatus, StatementFails, TurnsTo
 <2>2. turn'[c] \notin PastRead /\ turn'[c] # "set usage" BY <2>1 DEF PastRead
 <2> QED BY <1>3, <2>1, <2>2, QuietCountsMatch, QuietScoreMatches
<1>11. CASE FindDuplicate(c)
 <2>1. turn[c] = "find duplicate" /\ turn'[c] \in {"done", "insert version"} /\ row' = row /\ uses' = uses /\ seen' = seen
   BY <1>2, <1>11 DEF FindDuplicate, TurnsTo
 <2>2. turn[c] \in PastRead /\ turn'[c] # "set usage" BY <2>1 DEF PastRead
 <2> QED BY <1>3, <2>1, <2>2, QuietCountsMatch, QuietScoreMatches
<1>12. CASE InsertVersion(c)
 <2>1. turn[c] = "insert version" /\ turn'[c] = "set version" /\ row' = row /\ uses' = uses /\ seen' = seen
   BY <1>2, <1>12 DEF InsertVersion, TurnsTo
 <2>2. turn[c] \in PastRead /\ turn'[c] # "set usage" BY <2>1 DEF PastRead
 <2> QED BY <1>3, <2>1, <2>2, QuietCountsMatch, QuietScoreMatches
<1> QED BY <1>4, <1>5, <1>6, <1>7, <1>8, <1>9, <1>10, <1>11, <1>12, Zenon DEF Turnings

LEMMA StepRegistry ==
  ASSUME RegistryInv, [RegistryNext]_registryVars
  PROVE  RegistryInv'
<1>1. CASE UNCHANGED registryVars
 <2>1. SkillControl' /\ OneWriter'
   BY <1>1 DEF registryVars, RegistryInv, SkillControl, SkillTypes, SkillOrder, TurnFits,
               OneWriter, Writing, Migrating, Busy
 <2>2. UidStays' /\ VersionsMatch'
   BY <1>1 DEF registryVars, RegistryInv, UidStays, Migrating, VersionsMatch, Unfinished, LastRow,
               IsNewest, Current, Rows, NextVersion, NewHash
 <2>3. StandingMatches'
   BY <1>1 DEF registryVars, RegistryInv, StandingMatches, DidPublish, LastRow, IsNewest, Current, Rows
 <2>4. CountsMatch' /\ ScoreMatches'
   BY <1>1 DEF registryVars, RegistryInv, CountsMatch, CountsFit, ScoreMatches, ScoreOfSomeAge, ScoreOf
 <2> QED BY <2>1, <2>2, <2>3, <2>4 DEF RegistryInv
<1>2. CASE RegistryNext
 <2>1. PICK c \in Callers :
         \/ \E content \in Contents, status \in {"published", "draft"} : Publish(c, content, status)
         \/ List(c)
         \/ \E id \in shown :
              \/ \E content \in Contents, version_ \in 0..MaxVersion : Update(c, id, content, version_)
              \/ \E status \in Asked : SetStatus(c, id, status)
              \/ \E success \in BOOLEAN : RecordUsage(c, id, success)
         \/ Turnings(c)
   BY <1>2, Zenon DEF RegistryNext, Turnings
 <2>2. CASE Turnings(c)
   BY <2>2, TurningsControl, TurningOneWriter, TurningUidStays, TurningVersionsMatch,
      TurningStandingMatches, TurningCountsMatch DEF RegistryInv
 <2>3. CASE ~Turnings(c)
  <3>1. SkillTypes BY DEF RegistryInv, SkillControl
  <3>2. Begun(c) BY <2>1, <2>3, <3>1, RequestBegins, Zenon
  <3> QED
    BY <3>2, BegunHolds, BegunOneWriter, BegunUidStays, BegunVersionsMatch,
       BegunStandingMatches, BegunCountsMatch DEF RegistryInv
 <2> QED BY <2>2, <2>3
<1> QED BY <1>1, <1>2

LEMMA NewestIs ==
  ASSUME NEW i, IsNewest(i), Len(versions) \in Nat
  PROVE  Newest(Current) = i
<1>1. Current \subseteq 1..Len(versions) /\ i \in Current /\ \A j \in Current : j <= i BY DEF Current, Rows, IsNewest
<1>2. \E k \in Current : \A j \in Current : j <= k BY <1>1
<1>3. Newest(Current) \in Current /\ \A j \in Current : j <= Newest(Current) BY <1>2, Zenon DEF Newest
<1>4. PICK k : k = Newest(Current) OBVIOUS
<1>5. k \in Current /\ i <= k /\ k <= i BY <1>1, <1>3, <1>4
<1>6. k \in Nat /\ i \in Nat BY <1>1, <1>5
<1> QED BY <1>4, <1>5, <1>6

\* The inductive invariant is what the tables promise.
LEMMA TablesAgree ==
  ASSUME RegistryInv
  PROVE  SkillTablesAgree
<1>1. SkillTypes /\ \A c \in Callers : TurnFits(c) BY DEF RegistryInv, SkillControl
<1>2. Len(versions) \in Nat BY <1>1 DEF SkillTypes
<1>3. ASSUME NEW c \in Callers, WritesVersion(c) \/ WritesStanding(c)
      PROVE  c \in Busy /\ "standing" \in Writing(c) /\ (WritesVersion(c) => "version" \in Writing(c))
 <2>1. TurnFits(c) BY <1>1
 <2>2. c \in Busy BY <1>3 DEF Busy, WritesVersion, WritesStanding
 <2>3. WritesVersion(c) => "version" \in Writing(c) BY <2>1, WritingWhat DEF WritesVersion, TurnFits, Migrating
 <2>4. ~WritesVersion(c) => "standing" \in Writing(c) BY <1>3, <2>1, WritingWhat DEF WritesStanding, TurnFits
 <2> QED BY <2>2, <2>3, <2>4, WritingWhat
<1>4. ASSUME row.uid # NoUid, "version" \notin conflicts, \A c \in Callers : ~Unfinished(c)
      PROVE  \E i \in Current : IsNewest(i) /\ versions[i].hash = row.hash /\ Newest(Current) = i
 <2>1. PICK i \in Current : IsNewest(i) /\ versions[i].hash = row.hash BY <1>4 DEF RegistryInv, VersionsMatch
 <2> QED BY <1>2, <2>1, NewestIs
<1>5. SettledSkillVerifies
 <2> SUFFICES ASSUME Settled("version") PROVE Verified BY DEF SettledSkillVerifies
 <2>1. row.uid # NoUid /\ "version" \notin conflicts /\ \A b \in Busy : "version" \notin Writing(b) BY DEF Settled
 <2>2. \A c \in Callers : ~Unfinished(c) BY <1>3, <2>1 DEF Unfinished, WritesVersion
 <2>3. PICK i \in Current : versions[i].hash = row.hash /\ Newest(Current) = i BY <1>4, <2>1, <2>2
 <2>4. Rows # {} /\ Current # {} BY <2>3 DEF Current
 <2>5. row.account = <<row.uid, row.version>> BY <2>1 DEF RegistryInv, VersionsMatch
 <2>6. Asset(row).latestVersionHash = row.hash /\ Asset(row).account = row.account BY DEF Asset
 <2>7. row.account # <<>> BY <2>5
 <2> QED BY <2>3, <2>4, <2>6, <2>7 DEF Verified
<1>6. VersionsFollowStatus
 <2> SUFFICES ASSUME Settled("standing"), row.uid \in DidPublish
              PROVE  versions[Newest(Current)].status = row.status
   BY DEF VersionsFollowStatus
 <2>1. row.uid # NoUid /\ "standing" \notin conflicts /\ \A b \in Busy : "standing" \notin Writing(b) BY DEF Settled
 <2>2. "version" \notin conflicts BY <2>1 DEF RegistryInv, OneWriter
 <2>3. \A c \in Callers : ~WritesStanding(c) BY <1>3, <2>1
 <2>4. \A c \in Callers : ~Unfinished(c) /\ turn[c] \notin {"insert first", "set standing"}
   BY <2>3 DEF WritesStanding, WritesVersion, Unfinished
 <2>5. PICK i \in Current : IsNewest(i) /\ Newest(Current) = i BY <1>4, <2>1, <2>2, <2>4
 <2> QED BY <2>1, <2>4, <2>5 DEF RegistryInv, StandingMatches
<1>7. UsageAddsUp BY DEF UsageAddsUp, RegistryInv, CountsMatch, CountsFit, Settled
<1>8. FactorsExplainScore
 <2> SUFFICES ASSUME "score" \notin conflicts, row.usage > 0
              PROVE  LET told == Reputation(Asset(row))
                     IN  \E age \in Ages : Explains(told.factors, told.score, age)
   BY DEF FactorsExplainScore, Settled
 <2>1. PICK age \in Ages : row.score = ScoreOf(row, age) BY DEF RegistryInv, ScoreMatches, ScoreOfSomeAge
 <2> DEFINE rate == SuccessRate(row.success, row.failure)
            weights == UsageWeight(row.usage) + SuccessWeight(rate)
 <2>2. /\ Asset(row).usageCount = row.usage /\ Asset(row).successRate = rate
       /\ Asset(row).reputationScore = row.score /\ Asset(row).used
   BY DEF Asset
 <2>3. /\ Reputation(Asset(row)).score = row.score
       /\ Reputation(Asset(row)).factors = weights + 200000
   BY <2>2 DEF Reputation
 <2>4. row.score = ScoreColumn(InUnits(LesserOf(1000000, weights + (200000 - LesserOf(200000, age))), 100))
   BY <2>1 DEF ScoreOf, CalcReputation, RecencyWeight
 <2>5. weights \in Nat
  <3>1. CountsFit(row) BY DEF RegistryInv, CountsMatch
  <3>2. rate \in Nat BY <3>1, RateIsNat DEF CountsFit
  <3> HIDE DEF rate
  <3> QED BY <3>1, <3>2 DEF CountsFit, UsageWeight, SuccessWeight, LesserOf
 <2> HIDE DEF weights
 <2>6. Explains(weights + 200000, row.score, age)
  <3>1. age \in Nat BY RegistryAssumption DEF RegistryAssumption
  <3>2. PICK sum : sum = LesserOf(1000000, weights + (200000 - LesserOf(200000, age))) OBVIOUS
  <3>3. PICK score, factors : score = row.score /\ factors = weights + 200000 OBVIOUS
  <3>4. sum \in Nat /\ sum = LesserOf(1000000, factors - LesserOf(200000, age))
    BY <2>5, <3>1, <3>2, <3>3, SMT DEF LesserOf
  <3>5. score = InUnits(InUnits(sum, 100), 100) BY <2>4, <3>2, <3>3, SMT DEF ScoreColumn
  <3>6. score \in Nat /\ Near(score, sum)
   <4>1. sum \in Nat BY <3>4
   <4> QED BY <3>5, <4>1, RoundedTwice
  <3>7. Explains(factors, score, age)
   <4>1. Near(score, LesserOf(1000000, factors - LesserOf(200000, age))) BY <3>4, <3>6, SMT
   <4> QED BY <4>1, SMT DEF Explains, Near
  <3> QED BY <3>3, <3>7
 <2> QED BY <2>3, <2>6
<1>9. ShownIdStays BY DEF ShownIdStays, RegistryInv, UidStays
<1> QED BY <1>5, <1>6, <1>7, <1>8, <1>9 DEF SkillTablesAgree

\* The identity of a wallet.  The inductive invariant is its types, the
\* bounds of the lists and of the usage, by which a rebuilt reputation
\* never exceeds what was recorded, and what a request that runs alone
\* has found and leaves.
IdentityTypes ==
  /\ skills \in [published : BOOLEAN, usage : Nat]
  /\ IF skills.published THEN skills.usage >= SeedUsage ELSE skills.usage = 0
  /\ arrays \in [Kinds -> Seq(Seq({"good", "bad", "open", "seed"}))]
  /\ receipts \in [Requests -> [status : {"none", "confirmed", "pending"}, tx : BOOLEAN]]
  /\ \A field \in {"usage", "success", "failure", "skills"} : reputation[field] \in Nat
  /\ at = [r \in Requests |-> at[r]] /\ events \in Nat /\ recorded \in Nat

\* Lists hold records and the seeds; the seeds go into the memories of a wallet that has skills.
ListsBounded ==
  /\ \A r \in Requests : at[r] = "memories" => skills.published
  /\ Len(Listed("planner_run")) + Len(Listed("deployment")) <= recorded
  /\ Len(Listed("memory")) + Len(Listed("planner_run")) + Len(Listed("deployment"))
       <= recorded + (IF skills.published THEN 2 ELSE 0)

UsageBounded == events <= reputation.usage /\ reputation.usage <= skills.usage + events + recorded

\* Only while it is anchored, or once that has failed, is a receipt confirmed that the chain
\* does not have.
ReceiptsHonest ==
  \A r \in Receipts :
    anchors /\ receipts[r].status = "confirmed" /\ at[r] \notin {"anchor", "anchoring", "failed"}
      => receipts[r].tx /\ r \in onchain

\* What upsertProfile has read is what there is.
ReadsWhatIs(r) ==
  /\ held[r].arrays = [k \in Kinds |-> Len(arrays[k])]
  /\ held[r].receipts = (Receipts # {})
  /\ held[r].trust = reputation.trust
  /\ reputation = WalletReputation

ProfileAgrees ==
  /\ \A k \in Kinds : profile.listed[k] = Len(Listed(k))
  /\ profile.receipts = Cardinality(Receipts)
  /\ profile.trust = reputation.trust
  /\ reputation = WalletReputation

QuietHolds ==
  ~disturbed =>
    /\ \A q, r \in Active : q = r
    /\ \A r \in Active : at[r] = "profile" => ReadsWhatIs(r)
    /\ profile.saved /\ (\A r \in Active : at[r] = "answer") => ProfileAgrees

IdentityInv == IdentityTypes /\ ListsBounded /\ UsageBounded /\ ReceiptsHonest /\ QuietHolds

\* What a list holds, and what is counted in it.
LEMMA ListIs ==
  ASSUME IdentityTypes, NEW k \in Kinds
  PROVE  /\ Listed(k) \in Seq({"good", "bad", "open", "seed"}) /\ Len(Listed(k)) \in Nat
         /\ Length(k, Len(arrays[k])) = Len(Listed(k))
         /\ \A o : Counted(k, o) \in Nat
<1>1. Listed(k) \in Seq({"good", "bad", "open", "seed"}) BY DEF Listed, IdentityTypes
<1>2. arrays[k] = <<>> <=> Len(arrays[k]) = 0 BY DEF IdentityTypes
<1>3. ASSUME NEW o PROVE Counted(k, o) \in Nat
 <2>1. IsFiniteSet(DOMAIN Listed(k)) BY <1>1, FS_Interval
 <2> QED BY <2>1, FS_Subset, FS_CardinalityType DEF Counted
<1> QED BY <1>1, <1>2, <1>3 DEF Length, Listed

\* A rebuilt reputation: nothing falls and no list is left out.
LEMMA RebuiltIs ==
  ASSUME IdentityTypes
  PROVE  /\ \A field \in {"usage", "success", "failure", "skills"} :
              WalletReputation[field] \in Nat /\ WalletReputation[field] >= reputation[field]
         /\ WalletReputation.usage = UsageCount(Len(Listed("memory")) + Len(Listed("planner_run"))
                                                + Len(Listed("deployment")))
         /\ WalletReputation.listed = [k \in Kinds |-> Len(Listed(k))]
         /\ skills.published => WalletReputation.success >= SeedSuccess
                                /\ WalletReputation.failure >= SeedFailure
<1> DEFINE jobs(o) == Counted("planner_run", o) + Counted("deployment", o)
           total == Len(Listed("memory")) + Len(Listed("planner_run")) + Len(Listed("deployment"))
<1>1. /\ {"memory", "planner_run", "deployment"} = Kinds
      /\ jobs("good") \in Nat /\ jobs("bad") \in Nat /\ total \in Nat
  BY ListIs DEF Kinds
<1>2. /\ WalletReputation.usage = UsageCount(total)
      /\ WalletReputation.success = Larger(reputation.success,
              (IF skills.published THEN SeedSuccess ELSE 0) + jobs("good"))
      /\ WalletReputation.failure = Larger(reputation.failure,
              (IF skills.published THEN SeedFailure ELSE 0) + jobs("bad"))
      /\ WalletReputation.skills = Larger(reputation.skills, IF skills.published THEN 2 ELSE 0)
      /\ WalletReputation.listed = [k \in Kinds |-> Len(Listed(k))]
  BY <1>1 DEF WalletReputation, Scored, CountedOrListed
<1> HIDE DEF jobs, total
<1>3. /\ reputation.usage \in Nat /\ reputation.success \in Nat /\ reputation.failure \in Nat
      /\ reputation.skills \in Nat /\ skills.usage \in Nat
  BY DEF IdentityTypes
<1>4. WalletReputation.usage \in Nat /\ WalletReputation.usage >= reputation.usage
  BY <1>1, <1>2, <1>3 DEF UsageCount, Larger
<1>5. /\ WalletReputation.success \in Nat /\ WalletReputation.success >= reputation.success
      /\ skills.published => WalletReputation.success >= SeedSuccess
  BY <1>1, <1>2, <1>3 DEF Larger, SeedSuccess
<1>6. /\ WalletReputation.failure \in Nat /\ WalletReputation.failure >= reputation.failure
      /\ skills.published => WalletReputation.failure >= SeedFailure
  BY <1>1, <1>2, <1>3 DEF Larger, SeedFailure
<1>7. WalletReputation.skills \in Nat /\ WalletReputation.skills >= reputation.skills BY <1>2, <1>3 DEF Larger
<1> QED BY <1>2, <1>4, <1>5, <1>6, <1>7 DEF total

\* To rebuild a reputation that was just rebuilt changes nothing.
LEMMA RebuiltTwice ==
  ASSUME IdentityTypes, reputation' = WalletReputation, UNCHANGED <<skills, arrays>>
  PROVE  WalletReputation' = reputation'
<1> DEFINE jobs(o) == Counted("planner_run", o) + Counted("deployment", o)
           good == (IF skills.published THEN SeedSuccess ELSE 0) + jobs("good")
           bad == (IF skills.published THEN SeedFailure ELSE 0) + jobs("bad")
           kept == IF skills.published THEN 2 ELSE 0
           total == Len(Listed("memory")) + Len(Listed("planner_run")) + Len(Listed("deployment"))
<1>1. /\ {"memory", "planner_run", "deployment"} = Kinds
      /\ good \in Nat /\ bad \in Nat /\ total \in Nat /\ kept \in Nat
  BY ListIs DEF Kinds, SeedSuccess, SeedFailure
<1>2. /\ \A k : Listed(k)' = Listed(k)
      /\ \A k, o : Counted(k, o)' = Counted(k, o)
  BY DEF Listed, Counted
<1>3. /\ reputation'.usage = UsageCount(total)
      /\ reputation'.success = CountedOrListed(reputation.success, good)
      /\ reputation'.failure = CountedOrListed(reputation.failure, bad)
      /\ reputation'.skills = Larger(reputation.skills, kept)
  BY <1>1 DEF WalletReputation, Scored
<1>4. /\ total' = total /\ skills' = skills
      /\ [k \in Kinds |-> Len(Listed(k))]' = [k \in Kinds |-> Len(Listed(k))]
      /\ reputation.usage \in Nat /\ reputation.success \in Nat /\ reputation.failure \in Nat
      /\ reputation.skills \in Nat /\ skills.usage \in Nat
  BY <1>2 DEF IdentityTypes
<1> HIDE DEF good, bad, total, kept
<1>5. UsageCount(total)' = UsageCount(total) BY <1>1, <1>3, <1>4 DEF UsageCount, Larger
<1>6. /\ CountedOrListed(reputation'.success, good) = CountedOrListed(reputation.success, good)
      /\ CountedOrListed(reputation'.failure, bad) = CountedOrListed(reputation.failure, bad)
      /\ Larger(reputation'.skills, kept) = Larger(reputation.skills, kept)
  BY <1>1, <1>3, <1>4 DEF CountedOrListed, Larger
<1>7. WalletReputation' = WalletReputation
  BY <1>1, <1>2, <1>4, <1>5, <1>6, SMTT(60) DEF WalletReputation, good, bad, total, kept
<1> QED BY <1>7

\* What the books are changed by.
Rebuilding == reputation' = WalletReputation /\ UNCHANGED <<skills, arrays, events, recorded>>
Seeding ==
  \/ /\ ~skills.published /\ skills' = [published |-> TRUE, usage |-> SeedUsage]
     /\ UNCHANGED <<arrays, reputation, events, recorded>>
  \/ /\ skills.published /\ arrays' = [arrays EXCEPT !["memory"] = Append(@, Seeds)]
     /\ UNCHANGED <<skills, reputation, events, recorded>>
Recording(k, outcome) ==
  /\ arrays' = [arrays EXCEPT ![k] = WithRecord(k, outcome)] /\ recorded' = recorded + 1
  /\ UNCHANGED <<skills, reputation, events>>
Using ==
  /\ skills.published /\ skills' = [skills EXCEPT !.usage = @ + 1]
  /\ UNCHANGED <<arrays, reputation, events, recorded>>
Counting(kind, outcome) ==
  /\ reputation' = WithEvent(kind, outcome) /\ events' = events + 1 /\ UNCHANGED <<skills, arrays, recorded>>

\* Every step changes the books in one of these ways, or not at all.
LEMMA BooksChange ==
  ASSUME ListsBounded, [IdentityNext]_identityVars
  PROVE  \/ UNCHANGED <<skills, arrays, reputation, events, recorded>>
         \/ Rebuilding \/ Seeding \/ Using
         \/ \E k \in Kinds, outcome \in {"good", "bad", "open"} : Recording(k, outcome)
         \/ \E kind, outcome : Counting(kind, outcome)
<1> DEFINE Same == UNCHANGED <<skills, arrays, reputation, events, recorded>>
<1>1. CASE CreateChallenge \/ ChallengeExpires BY <1>1 DEF CreateChallenge, ChallengeExpires
<1>2. CASE UNCHANGED identityVars BY <1>2 DEF identityVars, walletVars
<1>3. ASSUME NEW r \in Requests,
             \/ VerifySignature(r) \/ SaveProfile(r) \/ SaveReceipt(r) \/ Anchored(r) \/ NotAnchored(r)
             \/ \E taken \in BOOLEAN : AnchorReceipt(r, taken)
             \/ AnchoredIsNotWritten(r) \/ Answer(r) \/ WriteFails(r)
      PROVE  Same
  BY <1>3 DEF VerifySignature, SaveProfile, SaveReceipt, Anchored, NotAnchored, AnchorReceipt,
              AnchoredIsNotWritten, Answer, WriteFails, walletVars
<1>4. ASSUME NEW r \in Requests, PublishSeedData(r) \/ SaveSeedMemories(r) PROVE Seeding \/ Rebuilding
  BY <1>4 DEF PublishSeedData, SaveSeedMemories, NeedsSeeds, BeginsUpsert, Seeding, Rebuilding, ListsBounded
<1>5. ASSUME NEW r \in Requests, Upsert(r) \/ AnchoredIsWritten(r) \/ Discover(r) PROVE Rebuilding
  BY <1>5 DEF Upsert, AnchoredIsWritten, Discover, BeginsUpsert, Rebuilds, Rebuilding
<1>6. ASSUME NEW r \in Requests, NEW record \in Records, Record(r, record[1], record[2])
      PROVE  \E k \in Kinds, outcome \in {"good", "bad", "open"} : Recording(k, outcome)
  BY <1>6, IdentityAssumption DEF Record, Recording, IdentityAssumption
<1>7. ASSUME NEW r \in Requests, SkillUse(r) PROVE Using BY <1>7 DEF SkillUse, Using
<1>8. ASSUME NEW r \in Requests, Event(r) \/ \E event \in Reported : ReportedEvent(r, event[1], event[2])
      PROVE  \E kind, outcome : Counting(kind, outcome)
  BY <1>8 DEF Event, ReportedEvent, Counts, Counting
<1> QED BY <1>1, <1>2, <1>3, <1>4, <1>5, <1>6, <1>7, <1>8 DEF IdentityNext

\* Where a list stands after a record, and after the seeds.
LEMMA ListsChange ==
  ASSUME IdentityTypes
  PROVE  /\ (\A k \in Kinds : Len(Listed(k)) \in Nat)
         /\ arrays' = [arrays EXCEPT !["memory"] = Append(@, Seeds)] =>
              /\ arrays' \in [Kinds -> Seq(Seq({"good", "bad", "open", "seed"}))]
              /\ Len(Listed("memory")') \in Nat /\ Len(Listed("memory")') <= 2
              /\ \A k \in Kinds \ {"memory"} : Listed(k)' = Listed(k)
         /\ \A j \in Kinds, outcome \in {"good", "bad", "open"} :
              arrays' = [arrays EXCEPT ![j] = WithRecord(j, outcome)] =>
                /\ arrays' \in [Kinds -> Seq(Seq({"good", "bad", "open", "seed"}))]
                /\ Len(Listed(j)') \in Nat /\ Len(Listed(j)') <= Len(Listed(j)) + 1
                /\ \A k \in Kinds \ {j} : Listed(k)' = Listed(k)
<1> DEFINE Outcomes == {"good", "bad", "open", "seed"}
<1>1. /\ arrays \in [Kinds -> Seq(Seq(Outcomes))] /\ "memory" \in Kinds
      /\ Seeds \in Seq(Outcomes) /\ Len(Seeds) <= 2
  BY DEF IdentityTypes, Kinds, Seeds
<1> HIDE DEF Outcomes
<1>2. ASSUME arrays' = [arrays EXCEPT !["memory"] = Append(@, Seeds)]
      PROVE  /\ arrays' \in [Kinds -> Seq(Seq(Outcomes))]
             /\ Len(Listed("memory")') \in Nat /\ Len(Listed("memory")') <= 2
             /\ \A k \in Kinds \ {"memory"} : Listed(k)' = Listed(k)
 <2>1. arrays'["memory"] = Append(arrays["memory"], Seeds) BY <1>1, <1>2
 <2>2. ASSUME NEW S, NEW v \in Seq(S), NEW x \in S
       PROVE  Append(v, x) \in Seq(S) /\ Append(v, x) # <<>> /\ Append(v, x)[Len(Append(v, x))] = x
   OBVIOUS
 <2>3. Listed("memory")' = Seeds /\ arrays'["memory"] \in Seq(Seq(Outcomes)) BY <1>1, <2>1, <2>2 DEF Listed
 <2>4. Len(Listed("memory")') \in Nat /\ Len(Listed("memory")') <= 2 BY <1>1, <2>3
 <2> QED BY <1>1, <1>2, <2>3, <2>4 DEF Listed
<1>3. ASSUME NEW j \in Kinds, NEW o \in {"good", "bad", "open"},
             arrays' = [arrays EXCEPT ![j] = WithRecord(j, o)]
      PROVE  /\ arrays' \in [Kinds -> Seq(Seq(Outcomes))]
             /\ Len(Listed(j)') \in Nat /\ Len(Listed(j)') <= Len(Listed(j)) + 1
             /\ \A k \in Kinds \ {j} : Listed(k)' = Listed(k)
 <2> DEFINE grown == <<o>> \o Listed(j)
            kept == FirstOf(grown, ListCap[j])
 <2>1. grown \in Seq(Outcomes) /\ Len(grown) = Len(Listed(j)) + 1 /\ Len(Listed(j)) \in Nat BY ListIs DEF Outcomes
 <2>2. ListCap[j] \in Nat BY IdentityAssumption DEF IdentityAssumption
 <2> HIDE DEF grown
 <2>3. kept \in Seq(Outcomes) /\ Len(kept) \in Nat /\ Len(kept) <= Len(grown) BY <2>1, <2>2 DEF FirstOf, Smaller
 <2> HIDE DEF kept
 <2>4. arrays'[j] = IF arrays[j] = <<>> THEN <<kept>>
                ELSE Append([arrays[j] EXCEPT ![Len(arrays[j])] = grown], kept)
   BY <1>1, <1>3 DEF WithRecord, grown, kept
 <2>5. arrays'[j] \in Seq(Seq(Outcomes)) /\ arrays'[j] # <<>> /\ arrays'[j][Len(arrays'[j])] = kept
  <3>1. ASSUME NEW S, NEW v \in Seq(S), v # <<>>, NEW x \in S, NEW y \in S
        PROVE  LET w == Append([v EXCEPT ![Len(v)] = x], y)
               IN  w \in Seq(S) /\ w # <<>> /\ w[Len(w)] = y
   <4> DEFINE u == [v EXCEPT ![Len(v)] = x]
   <4>1. u \in Seq(S) BY <3>1
   <4> HIDE DEF u
   <4> QED BY <4>1 DEF u
  <3>2. CASE arrays[j] = <<>> BY <2>3, <2>4, <3>2
  <3>3. CASE arrays[j] # <<>> BY <1>1, <2>1, <2>3, <2>4, <3>1, <3>3
  <3> QED BY <3>2, <3>3
 <2>6. Listed(j)' = kept BY <2>5 DEF Listed
 <2> QED BY <1>1, <1>3, <2>1, <2>3, <2>5, <2>6 DEF Listed
<1> QED BY <1>2, <1>3, ListIs DEF Outcomes

\* A request that moves: what it leaves of a receipt, and what it has to say of the profile.
ReceiptSet == [status : {"none", "confirmed", "pending"}, tx : BOOLEAN]
Anchoring == {"anchor", "anchoring", "failed"}
Midway == {"seed", "memories", "upsert", "receipt", "anchor", "anchoring", "upsert or pending", "event"}
Moves(r) ==
  /\ at' = [at EXCEPT ![r] = at'[r]] /\ at'[r] # "idle" /\ at[r] \notin {"answered", "failed"}
  /\ receipts' = [receipts EXCEPT ![r] = receipts'[r]] /\ receipts'[r] \in ReceiptSet
  /\ onchain \subseteq onchain' /\ anchors' = anchors
  /\ at'[r] = "memories" => skills'.published
  /\ \/ receipts'[r].status # "confirmed" \/ at'[r] \in Anchoring \/ ~anchors
     \/ receipts'[r].tx /\ r \in onchain'
     \/ receipts'[r] = receipts[r] /\ at[r] \notin Anchoring
  /\ \/ disturbed'
     \/ IF at[r] = "idle" THEN Active = {} ELSE ~disturbed
  /\ \/ disturbed' \/ at'[r] \in Midway
     \/ at'[r] = "profile" /\ at[r] # "idle" /\ ReadsWhatIs(r)'
     \/ SaveProfile(r) \/ Answer(r) \/ Discover(r)

\* Every step moves one request, or nothing that the profile rests on.
LEMMA RequestMoves ==
  ASSUME IdentityTypes, IdentityNext
  PROVE  \/ UNCHANGED <<anchors, skills, arrays, receipts, onchain, reputation, profile, at, held, disturbed>>
         \/ \E r \in Requests : Moves(r)
<1>1. CASE CreateChallenge \/ ChallengeExpires BY <1>1 DEF CreateChallenge, ChallengeExpires
<1>2. ASSUME NEW r \in Requests
      PROVE  receipts' = receipts =>
               receipts' = [receipts EXCEPT ![r] = receipts'[r]] /\ receipts'[r] \in ReceiptSet
  BY DEF IdentityTypes, ReceiptSet
<1>3. ASSUME NEW r \in Requests, NEW step, Goes(r, step) PROVE at'[r] = step /\ at' = [at EXCEPT ![r] = at'[r]]
  BY <1>3 DEF Goes, IdentityTypes
<1>4. ASSUME NEW r \in Requests, BeginsUpsert(r), UNCHANGED <<skills, arrays, receipts>>
      PROVE  ReadsWhatIs(r)' /\ Goes(r, "profile")
 <2>1. WalletReputation' = reputation' /\ reputation' = WalletReputation BY <1>4, RebuiltTwice DEF BeginsUpsert
 <2>2. Receipts' = Receipts BY <1>4 DEF Receipts
 <2> QED BY <1>4, <2>1, <2>2 DEF BeginsUpsert, ReadsWhatIs
<1>5. ASSUME NEW r \in Requests,
             \/ VerifySignature(r) \/ SkillUse(r) \/ \E record \in Records : Record(r, record[1], record[2])
             \/ \E event \in Reported : ReportedEvent(r, event[1], event[2])
      PROVE  Moves(r)
  BY <1>2, <1>5 DEF IdentityTypes, Goes, VerifySignature, Record, SkillUse, ReportedEvent, Counts, Begins,
                       Moves, Anchoring, Midway
<1>6. ASSUME NEW r \in Requests, SaveProfile(r) PROVE Moves(r)
  BY <1>2, <1>6 DEF IdentityTypes, Goes, Moves, Anchoring, Midway, SaveProfile, AfterProfile
<1>7. ASSUME NEW r \in Requests, Answer(r) PROVE Moves(r)
  BY <1>2, <1>7 DEF IdentityTypes, Goes, Moves, Anchoring, Midway, Answer, walletVars
<1>8. ASSUME NEW r \in Requests, Event(r) PROVE Moves(r)
  BY <1>2, <1>8 DEF IdentityTypes, Goes, Moves, Anchoring, Midway, Event, Counts
<1>9. ASSUME NEW r \in Requests, WriteFails(r) PROVE Moves(r)
  BY <1>2, <1>9 DEF IdentityTypes, Goes, Moves, Anchoring, Midway, WriteFails, walletVars
<1>10. ASSUME NEW r \in Requests, Upsert(r) PROVE Moves(r)
  BY <1>2, <1>4, <1>10 DEF IdentityTypes, Goes, Moves, Anchoring, Midway, Upsert, BeginsUpsert
<1>11. ASSUME NEW r \in Requests, AnchoredIsWritten(r) PROVE Moves(r)
  BY <1>2, <1>4, <1>11 DEF IdentityTypes, Goes, Moves, Anchoring, Midway, AnchoredIsWritten, BeginsUpsert
<1>12. ASSUME NEW r \in Requests, SaveSeedMemories(r) PROVE Moves(r)
  BY <1>2, <1>12 DEF IdentityTypes, Goes, Moves, Anchoring, Midway, SaveSeedMemories
<1>13. ASSUME NEW r \in Requests, SaveReceipt(r) PROVE Moves(r)
  BY <1>2, <1>13 DEF IdentityTypes, Goes, Moves, Anchoring, Midway, SaveReceipt, AfterReceipt, ReceiptSet
<1>14. ASSUME NEW r \in Requests, Anchored(r) PROVE Moves(r)
  BY <1>2, <1>14 DEF IdentityTypes, Goes, Moves, Anchoring, Midway, Anchored, ReceiptSet
<1>15. ASSUME NEW r \in Requests, NotAnchored(r) PROVE Moves(r)
  BY <1>2, <1>15 DEF IdentityTypes, Goes, Moves, Anchoring, Midway, NotAnchored, Pending,
                   AfterReceipt, ReceiptSet
<1>16. ASSUME NEW r \in Requests, AnchoredIsNotWritten(r) PROVE Moves(r)
  BY <1>2, <1>16 DEF IdentityTypes, Goes, Moves, Anchoring, Midway, AnchoredIsNotWritten, Pending, ReceiptSet
<1>17. ASSUME NEW r \in Requests, Discover(r) PROVE Moves(r)
  BY <1>2, <1>17 DEF IdentityTypes, Goes, Moves, Anchoring, Midway, Discover, Begins
<1>18. ASSUME NEW r \in Requests, PublishSeedData(r), NeedsSeeds PROVE Moves(r)
  BY <1>2, <1>18 DEF IdentityTypes, Goes, Moves, Anchoring, Midway, PublishSeedData
<1>19. ASSUME NEW r \in Requests, PublishSeedData(r), ~NeedsSeeds PROVE Moves(r)
  BY <1>2, <1>4, <1>19 DEF IdentityTypes, Goes, Moves, Anchoring, Midway, PublishSeedData, NeedsSeeds
<1>20. ASSUME NEW r \in Requests, NEW taken \in BOOLEAN, AnchorReceipt(r, taken) PROVE Moves(r)
  BY <1>2, <1>20 DEF IdentityTypes, Goes, Moves, Anchoring, Midway, AnchorReceipt
<1> QED BY <1>1, <1>5, <1>6, <1>7, <1>8, <1>9, <1>10, <1>11, <1>12, <1>13,
           <1>14, <1>15, <1>16, <1>17, <1>18, <1>19, <1>20 DEF IdentityNext

\* What an event adds to a reputation.
LEMMA EventIs ==
  ASSUME IdentityTypes, NEW kind, NEW outcome
  PROVE  /\ WithEvent(kind, outcome).usage = reputation.usage + 1
         /\ \A field \in {"usage", "success", "failure", "skills"} :
              /\ WithEvent(kind, outcome)[field] \in Nat
              /\ WithEvent(kind, outcome)[field] >= reputation[field]
<1>1. /\ reputation.usage \in Nat /\ reputation.success \in Nat /\ reputation.failure \in Nat
      /\ reputation.skills \in Nat
  BY DEF IdentityTypes
<1> QED BY <1>1 DEF WithEvent, Scored

\* The types and the bounds of the books are kept, and nothing that is counted falls.
LEMMA BooksStep ==
  ASSUME IdentityTypes, ListsBounded, UsageBounded, [IdentityNext]_identityVars
  PROVE  /\ IdentityTypes' /\ ListsBounded' /\ UsageBounded'
         /\ \A field \in {"usage", "success", "failure", "skills"} : reputation'[field] >= reputation[field]
<1> DEFINE Lists == /\ Len(Listed("planner_run"))' + Len(Listed("deployment"))' <= recorded'
                    /\ Len(Listed("memory"))' + Len(Listed("planner_run"))' + Len(Listed("deployment"))'
                         <= recorded' + (IF skills'.published THEN 2 ELSE 0)
           Skills1 == /\ skills' \in [published : BOOLEAN, usage : Nat]
                      /\ IF skills'.published THEN skills'.usage >= SeedUsage ELSE skills'.usage = 0
           Counts1 == /\ events' \in Nat /\ recorded' \in Nat
                      /\ arrays' \in [Kinds -> Seq(Seq({"good", "bad", "open", "seed"}))]
           Grows == \A field \in {"usage", "success", "failure", "skills"} :
                      reputation'[field] \in Nat /\ reputation'[field] >= reputation[field]
           Books == Skills1 /\ Counts1 /\ Grows /\ Lists /\ UsageBounded'
<1>1. at' = [r \in Requests |-> at'[r]] /\ receipts' \in [Requests -> ReceiptSet]
  BY RequestMoves DEF Moves, IdentityTypes, identityVars, walletVars, ReceiptSet
<1>2. \A r \in Requests : at'[r] = "memories" => skills'.published
 <2>1. skills.published => skills'.published
   BY BooksChange DEF Rebuilding, Seeding, Using, Recording, Counting, IdentityTypes
 <2>2. CASE UNCHANGED <<at, skills>> BY <2>2 DEF ListsBounded
 <2>3. ASSUME NEW r \in Requests, Moves(r), NEW q \in Requests PROVE at'[q] = "memories" => skills'.published
   BY <2>1, <2>3 DEF Moves, ListsBounded, IdentityTypes
 <2> QED BY <2>2, <2>3, RequestMoves DEF identityVars, walletVars
<1>3. /\ Len(Listed("memory")) \in Nat /\ Len(Listed("planner_run")) \in Nat
      /\ Len(Listed("deployment")) \in Nat
      /\ "memory" \in Kinds /\ "planner_run" \in Kinds /\ "deployment" \in Kinds
      /\ reputation.usage \in Nat /\ reputation.success \in Nat /\ reputation.failure \in Nat
      /\ reputation.skills \in Nat /\ events \in Nat /\ recorded \in Nat
      /\ skills \in [published : BOOLEAN, usage : Nat] /\ skills.usage \in Nat /\ skills.published \in BOOLEAN
      /\ IF skills.published THEN skills.usage >= SeedUsage ELSE skills.usage = 0
  BY ListIs DEF Kinds, IdentityTypes
<1>4. arrays' = arrays => \A k : Listed(k)' = Listed(k) BY DEF Listed
<1>5. ASSUME UNCHANGED <<skills, arrays, recorded>> PROVE Lists /\ Skills1
 <2>1. Lists BY <1>3, <1>4, <1>5 DEF ListsBounded
 <2>2. Skills1 BY <1>5 DEF IdentityTypes
 <2> QED BY <2>1, <2>2
<1>6. ASSUME UNCHANGED reputation PROVE Grows BY <1>3, <1>6
<1>7. ASSUME UNCHANGED <<arrays, recorded, events>> PROVE Counts1 BY <1>7 DEF IdentityTypes
<1>8. ASSUME UNCHANGED <<skills, arrays, reputation, events, recorded>> PROVE Books
  BY <1>5, <1>6, <1>7, <1>8 DEF UsageBounded
<1>9. ASSUME Rebuilding PROVE Books
 <2>1. Grows BY <1>9, RebuiltIs DEF Rebuilding
 <2>2. UsageBounded'
  <3>1. reputation'.usage \in Nat /\ reputation'.usage >= reputation.usage BY <2>1
  <3>2. \/ reputation'.usage = skills.usage \/ reputation'.usage = reputation.usage
        \/ reputation'.usage = Len(Listed("memory")) + Len(Listed("planner_run")) + Len(Listed("deployment"))
    BY <1>9, RebuiltIs DEF Rebuilding, UsageCount, Larger
  <3> QED BY <1>3, <1>9, <3>1, <3>2, SMTT(30) DEF Rebuilding, UsageBounded, ListsBounded, SeedUsage
 <2> QED BY <1>5, <1>7, <1>9, <2>1, <2>2 DEF Rebuilding
<1>10. ASSUME Seeding PROVE Books
 <2>1. \/ skills' = skills
       \/ skills' = [published |-> TRUE, usage |-> 73] /\ ~skills.published
   BY <1>10 DEF Seeding, SeedUsage
 <2>2. Skills1
  <3>1. CASE skills' = skills BY <1>3, <3>1
  <3>2. CASE skills' = [published |-> TRUE, usage |-> 73] BY <3>2 DEF SeedUsage
  <3> QED BY <2>1, <3>1, <3>2
 <2>3. /\ skills'.usage \in Nat /\ skills'.usage >= skills.usage
       /\ IF skills.published THEN skills'.published ELSE TRUE
   BY <1>3, <2>1
 <2>4. reputation' = reputation /\ events' = events /\ recorded' = recorded BY <1>10 DEF Seeding
 <2>5. UsageBounded' BY <1>3, <2>3, <2>4, SMTT(30) DEF UsageBounded
 <2>6. CASE arrays' = arrays
  <3>1. Lists BY <1>3, <1>4, <2>3, <2>4, <2>6 DEF ListsBounded
  <3> QED BY <1>6, <1>7, <2>4, <2>5, <2>6, <2>2, <3>1
 <2>7. CASE arrays' # arrays
  <3>1. skills.published /\ skills' = skills /\ arrays' = [arrays EXCEPT !["memory"] = Append(@, Seeds)]
    BY <1>10, <2>7 DEF Seeding
  <3>2. /\ arrays' \in [Kinds -> Seq(Seq({"good", "bad", "open", "seed"}))] 
        /\ Len(Listed("memory")') \in Nat /\ Len(Listed("memory")') <= 2
        /\ \A k \in Kinds \ {"memory"} : Listed(k)' = Listed(k)
    BY <3>1, ListsChange, Zenon
  <3>3. Listed("planner_run")' = Listed("planner_run") /\ Listed("deployment")' = Listed("deployment") BY <1>3, <3>2
  <3>4. skills'.published /\ Len(Listed("memory")') \in Nat /\ Len(Listed("memory")') <= 2 BY <3>1, <3>2
  <3>5. Lists BY <1>3, <2>4, <3>3, <3>4 DEF ListsBounded
  <3> QED BY <1>3, <1>6, <2>4, <2>5, <2>2, <3>2, <3>5
 <2> QED BY <2>6, <2>7
<1>11. ASSUME Using PROVE Books
 <2>1. skills' = [published |-> TRUE, usage |-> skills.usage + 1] /\ skills.published
   BY <1>11 DEF Using, IdentityTypes
 <2>2. Skills1 BY <1>3, <2>1 DEF SeedUsage
 <2>3. UsageBounded' BY <1>3, <1>11, <2>1 DEF Using, UsageBounded
 <2>4. Lists BY <1>3, <1>4, <1>11, <2>1 DEF Using, ListsBounded
 <2> QED BY <1>6, <1>7, <1>11, <2>4, <2>2, <2>3 DEF Using
<1>12. ASSUME NEW k \in Kinds, NEW outcome \in {"good", "bad", "open"}, Recording(k, outcome) PROVE Books
 <2>1. /\ Len(Listed(k)') \in Nat /\ Len(Listed(k)') <= Len(Listed(k)) + 1
       /\ \A j \in Kinds \ {k} : Listed(j)' = Listed(j)
       /\ arrays' \in [Kinds -> Seq(Seq({"good", "bad", "open", "seed"}))]
   BY <1>12, ListsChange, Zenon DEF Recording
 <2>2. recorded' = recorded + 1 /\ skills' = skills /\ reputation' = reputation /\ events' = events
   BY <1>12 DEF Recording
 <2>3. Lists
  <3>1. CASE k = "memory" BY <1>3, <2>1, <2>2, <3>1, SMTT(30) DEF ListsBounded
  <3>2. CASE k = "planner_run" BY <1>3, <2>1, <2>2, <3>2, SMTT(30) DEF ListsBounded
  <3>3. CASE k = "deployment" BY <1>3, <2>1, <2>2, <3>3, SMTT(30) DEF ListsBounded
  <3> QED BY <3>1, <3>2, <3>3 DEF Kinds
 <2>4. Skills1 /\ UsageBounded' BY <1>3, <2>2 DEF UsageBounded, IdentityTypes
 <2> QED BY <1>3, <1>6, <2>1, <2>2, <2>3, <2>4
<1>13. ASSUME NEW kind, NEW outcome, Counting(kind, outcome) PROVE Books
 <2>1. Counts1 BY <1>13 DEF Counting, IdentityTypes
 <2>2. Grows BY <1>13, EventIs DEF Counting
 <2>3. UsageBounded' BY <1>3, <1>13, EventIs, SMTT(30) DEF Counting, UsageBounded
 <2> QED BY <1>5, <1>13, <2>1, <2>2, <2>3 DEF Counting
<1>14. Books BY <1>8, <1>9, <1>10, <1>11, <1>12, <1>13, BooksChange
<1> QED BY <1>1, <1>2, <1>14 DEF IdentityTypes, ListsBounded, ReceiptSet

\* A receipt of a request that is past its anchoring stays honest.
LEMMA ReceiptsStep ==
  ASSUME IdentityTypes, ReceiptsHonest, [IdentityNext]_identityVars PROVE ReceiptsHonest'
<1>1. CASE UNCHANGED <<anchors, receipts, onchain, at>> BY <1>1 DEF ReceiptsHonest, Receipts
<1>2. ASSUME NEW r \in Requests, Moves(r), NEW q \in Receipts', anchors', receipts'[q].status = "confirmed",
             at'[q] \notin Anchoring
      PROVE  receipts'[q].tx /\ q \in onchain'
 <2>1. q \in Requests BY <1>2 DEF Receipts
 <2>2. CASE q = r
  <3>1. \/ receipts'[r].tx /\ r \in onchain'
        \/ receipts'[r] = receipts[r] /\ at[r] \notin Anchoring
    BY <1>2, <2>2 DEF Moves
  <3> QED BY <1>2, <2>1, <2>2, <3>1 DEF Moves, ReceiptsHonest, Receipts, Anchoring
 <2>3. CASE q # r
  <3>1. at'[q] = at[q] /\ receipts'[q] = receipts[q] BY <1>2, <2>1, <2>3 DEF Moves, IdentityTypes
  <3> QED BY <1>2, <2>1, <3>1 DEF Moves, ReceiptsHonest, Receipts, Anchoring
 <2> QED BY <2>2, <2>3
<1> QED BY <1>1, <1>2, RequestMoves DEF identityVars, walletVars, ReceiptsHonest, Anchoring

\* A rebuilt reputation rests on three variables.
LEMMA RebuiltSame ==
  ASSUME UNCHANGED <<skills, arrays, reputation>>
  PROVE  /\ WalletReputation' = WalletReputation
         /\ \A k : Listed(k)' = Listed(k) /\ \A i : Length(k, i)' = Length(k, i)
<1>1. /\ \A k : Listed(k)' = Listed(k) /\ \A i : Length(k, i)' = Length(k, i)
      /\ \A k, o : Counted(k, o)' = Counted(k, o) /\ \A n : UsageCount(n)' = UsageCount(n)
  BY DEF Listed, Length, Counted, UsageCount
<1> QED BY <1>1 DEF WalletReputation

\* Alone and without a failure, a request leaves a profile that agrees.
LEMMA QuietStep ==
  ASSUME IdentityTypes, QuietHolds, [IdentityNext]_identityVars PROVE QuietHolds'
<1>1. CASE UNCHANGED <<skills, arrays, receipts, reputation, profile, at, held, disturbed>>
 <2>1. /\ WalletReputation' = WalletReputation /\ Receipts' = Receipts /\ Active' = Active
       /\ \A k : Listed(k)' = Listed(k)
   BY <1>1, RebuiltSame DEF Receipts, Active
 <2>2. ProfileAgrees' = ProfileAgrees /\ \A r : ReadsWhatIs(r)' = ReadsWhatIs(r)
   BY <1>1, <2>1 DEF ProfileAgrees, ReadsWhatIs
 <2> QED BY <1>1, <2>1, <2>2 DEF QuietHolds
<1>2. ASSUME NEW r \in Requests, Moves(r), ~disturbed' PROVE QuietHolds'
 <2>1. \A q \in Requests : q # r => at'[q] = at[q] BY <1>2 DEF Moves, IdentityTypes
 <2>2. \A q \in Active' : q = r
  <3>1. CASE at[r] = "idle"
   <4>1. Active = {} BY <1>2, <3>1 DEF Moves
   <4> QED BY <2>1, <4>1 DEF Active
  <3>2. CASE at[r] # "idle"
   <4>1. ~disturbed /\ r \in Active BY <1>2, <3>2 DEF Moves, Active
   <4> QED BY <2>1, <4>1 DEF Active, QuietHolds
  <3> QED BY <3>1, <3>2
 <2>3. CASE at'[r] \in Midway BY <1>2, <2>2, <2>3 DEF QuietHolds, Active, Midway
 <2>4. CASE at'[r] = "profile" /\ ReadsWhatIs(r)' BY <2>2, <2>4 DEF QuietHolds, Active
 <2>5. CASE SaveProfile(r)
  <3>1. /\ ReadsWhatIs(r) /\ UNCHANGED <<skills, arrays, reputation, receipts>>
        /\ profile' = [saved |-> TRUE, listed |-> [k \in Kinds |-> Length(k, held[r].arrays[k])],
                       receipts |-> IF held[r].receipts THEN Cardinality(Receipts) ELSE 0,
                       trust |-> held[r].trust]
    BY <1>2, <2>5 DEF SaveProfile, QuietHolds, Active
  <3>2. /\ WalletReputation' = WalletReputation /\ Receipts' = Receipts
        /\ \A k : Listed(k)' = Listed(k)
    BY <3>1, RebuiltSame DEF Receipts
  <3>3. \A k \in Kinds : profile'.listed[k] = Len(Listed(k)) BY <3>1, ListIs DEF ReadsWhatIs
  <3>4. profile'.receipts = Cardinality(Receipts) BY <3>1, FS_EmptySet DEF ReadsWhatIs
  <3>5. ProfileAgrees' BY <3>1, <3>2, <3>3, <3>4 DEF ProfileAgrees, ReadsWhatIs
  <3>6. at'[r] # "profile" BY <2>5 DEF SaveProfile, Goes, AfterProfile, IdentityTypes
  <3> QED BY <2>2, <3>5, <3>6 DEF QuietHolds
 <2>6. ASSUME Answer(r) \/ Discover(r) PROVE QuietHolds'
  <3>1. /\ ~disturbed /\ (profile.saved => ProfileAgrees) /\ at'[r] # "profile"
        /\ UNCHANGED <<skills, arrays, receipts, profile>>
        /\ reputation' = reputation \/ reputation' = WalletReputation
    BY <1>2, <2>6 DEF Answer, Discover, Begins, Rebuilds, QuietHolds, Active, walletVars, Goes, IdentityTypes
  <3>2. CASE profile.saved
   <4>1. ProfileAgrees /\ UNCHANGED <<skills, arrays, reputation, receipts, profile>> BY <3>1, <3>2 DEF ProfileAgrees
   <4>2. /\ WalletReputation' = WalletReputation /\ Receipts' = Receipts
         /\ \A k : Listed(k)' = Listed(k)
     BY <4>1, RebuiltSame DEF Receipts
   <4>3. ProfileAgrees' BY <4>1, <4>2 DEF ProfileAgrees
   <4> QED BY <2>2, <3>1, <4>3 DEF QuietHolds
  <3>3. CASE ~profile.saved BY <2>2, <3>1, <3>3 DEF QuietHolds
  <3> QED BY <3>2, <3>3
 <2> QED BY <1>2, <2>3, <2>4, <2>5, <2>6 DEF Moves
<1> QED BY <1>1, <1>2, RequestMoves DEF identityVars, walletVars, QuietHolds

\* Two elements, one of which is ahead of the other, have one order.
LEMMA PairInOrder ==
  ASSUME NEW a, NEW b, a # b, NEW ahead, <<a, a>> \notin ahead, <<b, b>> \notin ahead,
         <<a, b>> \in ahead \/ <<b, a>> \in ahead
  PROVE  /\ DOMAIN InOrder({a, b}, ahead) = 1..2
         /\ \/ InOrder({a, b}, ahead)[1] = a /\ InOrder({a, b}, ahead)[2] = b
            \/ InOrder({a, b}, ahead)[1] = b /\ InOrder({a, b}, ahead)[2] = a
<1> DEFINE Ordered(s) == \A i, j \in DOMAIN s : i < j => <<s[i], s[j]>> \in ahead
<1>1. Cardinality({a, b}) = 2
 <2>1. IsFiniteSet({a}) /\ Cardinality({a}) = 1 BY FS_Singleton
 <2>2. {a, b} = {a} \cup {b} /\ b \notin {a} OBVIOUS
 <2> QED BY <2>1, <2>2, FS_AddElement
<1>2. \E s \in [1..2 -> {a, b}] : Ordered(s)
 <2>1. CASE <<a, b>> \in ahead
  <3>1. WITNESS [i \in 1..2 |-> IF i = 1 THEN a ELSE b] \in [1..2 -> {a, b}]
  <3> QED BY <2>1
 <2>2. CASE <<b, a>> \in ahead
  <3>1. WITNESS [i \in 1..2 |-> IF i = 1 THEN b ELSE a] \in [1..2 -> {a, b}]
  <3> QED BY <2>2
 <2> QED BY <2>1, <2>2
<1>3. InOrder({a, b}, ahead) = CHOOSE s \in [1..2 -> {a, b}] : Ordered(s) BY <1>1 DEF InOrder
<1>4. InOrder({a, b}, ahead) \in [1..2 -> {a, b}] /\ Ordered(InOrder({a, b}, ahead))
 <2> HIDE DEF Ordered
 <2> QED BY <1>2, <1>3
<1> QED BY <1>4

LEMMA DivIsNat == ASSUME NEW a \in Nat, NEW w \in Nat, w >= 1 PROVE a \div w \in Nat
OBVIOUS

\* The scores keep their range.
LEMMA CappedIs == \A n \in Nat : Smaller(10000, n) \in Nat /\ Smaller(10000, n) <= 10000
BY DEF Smaller

LEMMA ScoresAre ==
  ASSUME NEW success, NEW failure, NEW authorship, NEW deployments,
         success \in Nat, failure \in Nat, authorship \in Nat, deployments \in Nat
  PROVE  /\ TrustScore(success, failure, authorship, deployments) \in Nat
         /\ TrustScore(success, failure, authorship, deployments) <= 10000
<1> DEFINE x == BpsFromRatio(success, Larger(success + failure, 1)) \div 2
           y == Smaller(25, authorship)
           z == Smaller(25, deployments)
<1>1. Larger(success + failure, 1) \in Nat /\ Larger(success + failure, 1) >= 1 BY DEF Larger
<1>2. BpsFromRatio(success, Larger(success + failure, 1)) \in Nat BY <1>1, DivIsNat DEF BpsFromRatio, Smaller
<1>3. x \in Nat BY <1>2
<1>4. y \in Nat /\ z \in Nat BY DEF Smaller
<1>5. TrustScore(success, failure, authorship, deployments) = Smaller(10000, x + y * 120 + z * 80) BY DEF TrustScore
<1> HIDE DEF x, y, z
<1>6. x + y * 120 + z * 80 \in Nat BY <1>3, <1>4
<1> QED BY <1>5, <1>6, CappedIs

LEMMA DiscoveryIs ==
  ASSUME NEW rep, rep.trust \in Nat, rep.success \in Nat, rep.usage \in Nat, rep.versions \in Nat,
         rep.skills \in Nat, rep.authorship \in Nat, rep.quality \in Nat, NEW signals, signals \in Nat
  PROVE  DiscoveryScore(rep, signals) \in Nat /\ DiscoveryScore(rep, signals) <= 10000
<1> DEFINE x == (rep.trust + BpsFromRatio(rep.success, Larger(rep.usage, 1))) \div 2
           y == Smaller(1000, rep.usage)
           z == Smaller(20, rep.versions)
           u == Smaller(50, rep.skills)
           v == Smaller(50, rep.authorship)
           w == rep.quality \div 2
           n == Smaller(400, signals)
<1>1. Larger(rep.usage, 1) \in Nat /\ Larger(rep.usage, 1) >= 1 BY DEF Larger
<1>2. BpsFromRatio(rep.success, Larger(rep.usage, 1)) \in Nat BY <1>1, DivIsNat DEF BpsFromRatio, Smaller
<1>3. x \in Nat /\ w \in Nat BY <1>2
<1>4. y \in Nat /\ z \in Nat /\ u \in Nat /\ v \in Nat /\ n \in Nat BY DEF Smaller
<1>5. DiscoveryScore(rep, signals) = Smaller(10000, x + y * 3 + z * 40 + u * 50 + v * 30 + w + n * 2)
  BY DEF DiscoveryScore
<1> HIDE DEF x, y, z, u, v, w, n
<1>6. x + y * 3 + z * 40 + u * 50 + v * 30 + w + n * 2 \in Nat BY <1>3, <1>4
<1> QED BY <1>5, <1>6, CappedIs

\* A row of the discovery has the counts of its skill.
LEMMA RowIs ==
  ASSUME NEW skill, NEW rep, skill.usage \in Nat, skill.success \in Nat, skill.failure \in Nat,
         skill.versions \in Nat, skill.authorship \in Nat, skill.quality \in Nat, rep.skills \in Nat, rep.listed["deployment"] \in Nat
  PROVE  LET told == DiscoveryRow(skill, rep)
         IN  /\ told.skill = skill.skill /\ told.usage = skill.usage /\ told.success = skill.success
             /\ told.failure = skill.failure
             /\ told.trust = TrustScore(skill.success, skill.failure, skill.authorship, rep.listed["deployment"])
             /\ told.trust \in Nat /\ told.trust <= 10000 /\ told.discovery \in Nat /\ told.discovery <= 10000
<1> DEFINE trust == TrustScore(skill.success, skill.failure, skill.authorship, rep.listed["deployment"])
           counts == [usage |-> skill.usage, success |-> skill.success, trust |-> trust,
                     versions |-> skill.versions, skills |-> rep.skills, authorship |-> skill.authorship, quality |-> skill.quality]
           signals == skill.usage + skill.versions + skill.authorship
<1>1. trust \in Nat /\ trust <= 10000 BY ScoresAre
<1>2. DiscoveryRow(skill, rep) = [skill |-> skill.skill, usage |-> skill.usage, success |-> skill.success,
         failure |-> skill.failure, trust |-> trust, discovery |-> DiscoveryScore(counts, signals)]
  BY DEF DiscoveryRow
<1> HIDE DEF trust
<1>3. /\ counts.trust \in Nat /\ counts.success \in Nat /\ counts.usage \in Nat /\ counts.versions \in Nat
      /\ counts.skills \in Nat /\ counts.authorship \in Nat /\ counts.quality \in Nat /\ signals \in Nat
  BY <1>1
<1> HIDE DEF counts, signals
<1>4. DiscoveryScore(counts, signals) \in Nat /\ DiscoveryScore(counts, signals) <= 10000 BY <1>3, DiscoveryIs
<1> QED BY <1>1, <1>2, <1>4 DEF trust

\* The rows of the two seed skills: their trust differs, so they have an order, and the uses
\* of both are those of the wallet.
LEMMA RowsAre ==
  ASSUME IdentityTypes, skills.published, NEW used \in 0..(skills.usage - SeedUsage)
  PROVE  LET rows == ListDiscoverySkills(used, [trust |-> 0, usage |-> 0])
         IN  /\ DOMAIN rows = 1..2
             /\ rows[1].usage + rows[2].usage = skills.usage
             /\ rows[1].success + rows[2].success = 65 /\ rows[1].failure + rows[2].failure = 8
             /\ \A i \in 1..2 : /\ rows[i].trust \in Nat /\ rows[i].trust <= 10000
                                 /\ rows[i].discovery \in Nat /\ rows[i].discovery <= 10000
                                 /\ SkillIdentity(rows[i]).successRate \in Nat
                                 /\ SkillIdentity(rows[i]).successRate < 10000
<1> DEFINE deployments == WalletReputation.listed["deployment"]
           first == [skill |-> "planner", usage |-> 42 + used, success |-> 36, failure |-> 6,
                     quality |-> 8300, versions |-> 3, authorship |-> 1]
           second == [skill |-> "memory-recall", usage |-> 31 + (skills.usage - SeedUsage - used),
                      success |-> 29, failure |-> 2, quality |-> 9100, versions |-> 2, authorship |-> 1]
           a == DiscoveryRow(first, WalletReputation)
           b == DiscoveryRow(second, WalletReputation)
           rows == ListDiscoverySkills(used, [trust |-> 0, usage |-> 0])
<1>1. deployments \in Nat /\ WalletReputation.skills \in Nat BY ListIs, RebuiltIs DEF Kinds
<1>2. first.usage \in Nat /\ second.usage \in Nat /\ first.usage + second.usage = skills.usage
 <2>1. skills.usage \in Nat /\ used \in Nat /\ used + SeedUsage <= skills.usage BY DEF IdentityTypes, SeedUsage
 <2> QED BY <2>1 DEF SeedUsage
<1>3. /\ a.skill = "planner" /\ a.usage = first.usage /\ a.success = 36 /\ a.failure = 6
      /\ a.trust = TrustScore(36, 6, 1, deployments)
      /\ a.trust \in Nat /\ a.trust <= 10000 /\ a.discovery \in Nat /\ a.discovery <= 10000
  BY <1>1, <1>2, RowIs
<1>4. /\ b.skill = "memory-recall" /\ b.usage = second.usage /\ b.success = 29 /\ b.failure = 2
      /\ b.trust = TrustScore(29, 2, 1, deployments)
      /\ b.trust \in Nat /\ b.trust <= 10000 /\ b.discovery \in Nat /\ b.discovery <= 10000
  BY <1>1, <1>2, RowIs
<1>5. TrustScore(36, 6, 1, deployments) # TrustScore(29, 2, 1, deployments)
 <2> DEFINE extra == Smaller(25, deployments)
 <2> HIDE DEF deployments
 <2>1. extra \in 0..25 BY <1>1 DEF Smaller
 <2>2. Larger(36 + 6, 1) = 42 /\ Larger(29 + 2, 1) = 31 /\ Smaller(25, 1) = 1 BY DEF Larger, Smaller
 <2>3. BpsFromRatio(36, 42) = 8571 /\ BpsFromRatio(29, 31) = 9354 BY DEF BpsFromRatio, Smaller
 <2>4. 8571 \div 2 = 4285 /\ 9354 \div 2 = 4677 OBVIOUS
 <2>5. /\ TrustScore(36, 6, 1, deployments) = Smaller(10000, 4285 + 1 * 120 + extra * 80)
       /\ TrustScore(29, 2, 1, deployments) = Smaller(10000, 4677 + 1 * 120 + extra * 80)
   BY <2>2, <2>3, <2>4 DEF TrustScore
 <2> HIDE DEF extra
 <2> QED BY <2>1, <2>5 DEF Smaller
<1> HIDE DEF a, b, first, second
<1>6. /\ DOMAIN rows = 1..2
      /\ \/ rows[1] = a /\ rows[2] = b
         \/ rows[1] = b /\ rows[2] = a
 <2> DEFINE both == {told \in {DiscoveryRow(skill, WalletReputation) : skill \in SeedSkills(used)} :
                       told.trust >= 0 /\ told.usage >= 0}
            ahead(S) == {pair \in S \X S :
                       \/ pair[1].discovery > pair[2].discovery
                       \/ pair[1].discovery = pair[2].discovery /\ pair[1].trust > pair[2].trust
                       \/ /\ pair[1].discovery = pair[2].discovery /\ pair[1].trust = pair[2].trust
                          /\ pair[1].usage > pair[2].usage}
 <2>1. rows = InOrder(both, ahead(both)) BY DEF ListDiscoverySkills
 <2>2. SeedSkills(used) = {first, second} BY DEF SeedSkills, first, second
 <2>3. both = {a, b} BY <1>2, <1>3, <1>4, <2>2 DEF a, b
 <2>4. a # b /\ <<a, a>> \notin ahead({a, b}) /\ <<b, b>> \notin ahead({a, b}) BY <1>2, <1>3, <1>4
 <2>5. <<a, b>> \in ahead({a, b}) \/ <<b, a>> \in ahead({a, b}) BY <1>3, <1>4, <1>5
 <2> HIDE DEF both, ahead, rows
 <2>6. rows = InOrder({a, b}, ahead({a, b})) BY <2>1, <2>3
 <2> QED BY <2>4, <2>5, <2>6, PairInOrder
<1>7. ASSUME NEW i \in 1..2
      PROVE  SkillIdentity(rows[i]).successRate \in Nat /\ SkillIdentity(rows[i]).successRate < 10000
  BY <1>3, <1>4, <1>6 DEF SkillIdentity
<1> QED BY <1>2, <1>3, <1>4, <1>6, <1>7

\* No failure is left out of a rate that is listed.
LEMMA RatesAre ==
  ASSUME IdentityTypes, skills.published, NEW used \in 0..(skills.usage - SeedUsage)
  PROVE  LET listed == Skills(used, [trust |-> 0, usage |-> 0], 0, "success_rate")
         IN  \A i \in DOMAIN listed : listed[i][2].successRate < 10000
<1> DEFINE rows == ListDiscoverySkills(used, [trust |-> 0, usage |-> 0])
           listed == Skills(used, [trust |-> 0, usage |-> 0], 0, "success_rate")
           counts == {<<i, SkillIdentity(rows[i])>> : i \in
                       {i \in DOMAIN rows : SkillIdentity(rows[i]).reputationScore >= 0}}
           ahead(S) == {pair \in S \X S :
                          \/ pair[1][2].successRate > pair[2][2].successRate
                          \/ pair[1][2].successRate = pair[2][2].successRate /\ pair[1][1] < pair[2][1]}
           x == <<1, SkillIdentity(rows[1])>>
           y == <<2, SkillIdentity(rows[2])>>
<1>1. /\ DOMAIN rows = 1..2
      /\ \A i \in 1..2 : /\ rows[i].trust \in Nat
                          /\ SkillIdentity(rows[i]).successRate \in Nat
                          /\ SkillIdentity(rows[i]).successRate < 10000
  BY RowsAre
<1>2. listed = InOrder(counts, ahead(counts)) BY DEF Skills
<1> HIDE DEF rows, listed
<1>3. \A i : SkillIdentity(rows[i]).reputationScore = rows[i].trust BY DEF SkillIdentity
<1>4. counts = {x, y} BY <1>1, <1>3
<1>5. x # y /\ <<x, x>> \notin ahead({x, y}) /\ <<y, y>> \notin ahead({x, y}) BY <1>1
<1>6. <<x, y>> \in ahead({x, y}) \/ <<y, x>> \in ahead({x, y}) BY <1>1
<1>7. x[2].successRate < 10000 /\ y[2].successRate < 10000 BY <1>1
<1> HIDE DEF counts, ahead, x, y
<1>8. listed = InOrder({x, y}, ahead({x, y})) BY <1>2, <1>4
<1>9. \A i \in DOMAIN listed : listed[i] = x \/ listed[i] = y BY <1>5, <1>6, <1>8, PairInOrder
<1> QED BY <1>7, <1>9 DEF listed

LEMMA InitIdentity == IdentityInit => IdentityInv
<1> SUFFICES ASSUME IdentityInit PROVE IdentityInv OBVIOUS
<1>1. IdentityTypes BY DEF IdentityInit, IdentityTypes, NoReceipt
<1>2. \A k \in Kinds : Listed(k) = <<>> BY DEF IdentityInit, Listed
<1>3. ListsBounded BY <1>2 DEF IdentityInit, ListsBounded, Kinds
<1>4. UsageBounded /\ ReceiptsHonest BY DEF IdentityInit, UsageBounded, ReceiptsHonest, Receipts, NoReceipt
<1>5. QuietHolds BY DEF IdentityInit, QuietHolds, Active
<1> QED BY <1>1, <1>3, <1>4, <1>5 DEF IdentityInv

\* The invariant is inductive.
LEMMA StepIdentity == IdentityInv /\ [IdentityNext]_identityVars => IdentityInv'
BY BooksStep, ReceiptsStep, QuietStep DEF IdentityInv

\* The inductive invariant is what the identity promises.
LEMMA RecordsAgree ==
  ASSUME IdentityInv
  PROVE  QuietRecordsAgree /\ UsageAccounted /\ AnsweredReceiptIsHonest /\ DiscoveryTellsTheReputation
<1>1. Active = {} /\ ~disturbed /\ profile.saved => ProfileAgrees BY DEF IdentityInv, QuietHolds
<1>2. IdentityTypes BY DEF IdentityInv
<1>3. QuietRecordsAgree BY <1>1, <1>2, RebuiltIs DEF QuietRecordsAgree, ProfileAgrees
<1>4. UsageAccounted
 <2>1. WalletReputation.usage >= skills.usage
   BY <1>2, RebuiltIs, ListIs, SMTT(30) DEF UsageCount, Larger, IdentityTypes, Kinds
 <2> QED BY <1>1, <2>1 DEF UsageAccounted, IdentityInv, UsageBounded, ProfileAgrees
<1>5. AnsweredReceiptIsHonest BY DEF AnsweredReceiptIsHonest, IdentityInv, ReceiptsHonest
<1>6. ASSUME ProfileAgrees, skills.published, NEW used \in 0..(skills.usage - SeedUsage)
      PROVE  LET rows == ListDiscoverySkills(used, [trust |-> 0, usage |-> 0])
                 listed == Skills(used, [trust |-> 0, usage |-> 0], 0, "success_rate")
             IN  /\ rows[1].usage + rows[2].usage <= reputation.usage
                 /\ rows[1].success + rows[2].success <= reputation.success
                 /\ rows[1].failure + rows[2].failure <= reputation.failure
                 /\ \A i \in 1..2 : rows[i].trust <= 10000 /\ rows[i].discovery <= 10000
                 /\ \A i \in DOMAIN listed : listed[i][2].successRate < 10000
 <2>1. reputation.usage >= skills.usage /\ reputation.success >= 65 /\ reputation.failure >= 8
  <3>1. WalletReputation.usage >= skills.usage
    BY <1>2, RebuiltIs, ListIs, SMTT(30) DEF UsageCount, Larger, IdentityTypes, Kinds
  <3> QED BY <1>2, <1>6, <3>1, RebuiltIs DEF ProfileAgrees, SeedSuccess, SeedFailure
 <2> QED BY <1>2, <1>6, <2>1, RowsAre, RatesAre
<1>7. DiscoveryTellsTheReputation BY <1>1, <1>6 DEF DiscoveryTellsTheReputation, ProfileAgrees
<1> QED BY <1>3, <1>4, <1>5, <1>7

\* The components side by side: what happens to the variables of one is a
\* step of it or nothing.
LEMMA WalletsStep ==
  [WalletsNext]_walletsVars =>
    /\ [Next]_vars /\ [IdentityNext]_identityVars /\ [RegistryNext]_registryVars
    /\ [AutonomyNext]_autonomyVars
    /\ [GovernancePageNext]_governancePageVars /\ [SignInNext]_signInVars
    /\ [RecordPagesNext]_recordPagesVars
BY Zenon DEF WalletsNext, WalletNext, UserNext, SolanaUserNext, walletsVars, rowVars, userVars

LEMMA WalletsParts ==
  WalletsSpec =>
    /\ Spec
    /\ IdentityInit /\ [][IdentityNext]_identityVars
    /\ RegistryInit /\ [][RegistryNext]_registryVars
    /\ AutonomyInit /\ [][AutonomyNext]_autonomyVars
    /\ GovernancePageInit /\ [][GovernancePageNext]_governancePageVars
    /\ SignInSpec /\ RecordPagesSpec
<1>1. WalletsInit => /\ Init /\ IdentityInit /\ RegistryInit /\ AutonomyInit /\ GovernancePageInit
                     /\ SignInInit /\ RecordPagesInit
  BY DEF WalletsInit
<1> QED BY <1>1, WalletsStep, PTL DEF WalletsSpec, Spec, SignInSpec, RecordPagesSpec

\* The skill's row and its version rows agree, however the statements of
\* several requests interleave and fail, but for what overlapping writers
\* of the same columns have left.
THEOREM SkillTablesAlwaysAgree == WalletsSpec => []SkillTablesAgree
BY WalletsParts, InitRegistry, StepRegistry, TablesAgree, PTL

\* The lists, receipts, reputation and profile that identityService.ts keeps of a wallet agree
\* once a request has run alone, usage is accounted for, a confirmed receipt is on chain,
\* what the discovery tells is the reputation, and nothing that is counted is taken back.
THEOREM IdentityRecordsAlwaysAgree == WalletsSpec => IdentityRecordsAgree
<1>1. IdentityInv /\ [IdentityNext]_identityVars =>
        [ /\ reputation'.usage >= reputation.usage
          /\ reputation'.success >= reputation.success
          /\ reputation'.failure >= reputation.failure
          /\ reputation'.skills >= reputation.skills ]_identityVars
  BY BooksStep DEF IdentityInv
<1> QED BY <1>1, WalletsParts, InitIdentity, StepIdentity, RecordsAgree, PTL
        DEF IdentityRecordsAgree, ReputationNeverShrinks

\* The gate is no stricter with those who may do more, preferences survive
\* what does not overlap, receipts and figures rest on rows.
THEOREM AutonomyAlwaysKeepsItsWord == WalletsSpec => []AutonomyKeepsItsWord
BY WalletsParts, InitAutonomy, StepAutonomy, WordKept, PTL

\* The governance page, the sign-in and the pages of one record show and
\* do what belongs to the user, the wallet, the mode and the record they
\* are shown for, however their answers arrive.
THEOREM PagesAlwaysCurrent == WalletsSpec => []PagesAreCurrent
<1>1. GovernanceInv /\ SignInInv /\ PagesInv => PagesAreCurrent
  BY GovernanceShown, UsersShown, RecordsShown DEF PagesAreCurrent
<1> QED
  BY <1>1, WalletsParts, InitGovernance, StepGovernance, InitSignIn, StepSignIn,
     InitPages, StepPages, PTL DEF SignInSpec, RecordPagesSpec
=============================================================================
