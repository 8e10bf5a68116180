\* Sessions: two wallets, three nonces, three tokens, clock past both lifetimes.
\* Identity: three requests, two at once, one write that fails.
\* Registry: three requests at once, one statement that fails, a skill last used now or five
\* and a half months ago (in points of 10000).
\* Autonomy: two requests.  Governance: two requests of its page at once.
\* Sign-in: two people, two calls at once.  Pages: two keys, three requests, two changes.
SPECIFICATION WalletsSpec
CONSTANTS
  w1 = w1
  w2 = w2
  r1 = r1
  r2 = r2
  r3 = r3
  Wallets = {w1, w2}
  NonceIds = {r1, r2, r3}
  Tokens = {r1, r2, r3}
  NonceLife = 1
  SessionLife = 1
  MaxTime = 2
  Requests = {r1, r2, r3}
  Records <- SomeRecords
  Reported <- SomeEvents
  ListCap <- SmallCaps
  Overlap = 2
  MaxFaults = 1
  Callers = {r1, r2, r3}
  Contents = {w1, w2}
  Ages = {0, 55000}
  MaxVersion = 3
  MaxLost = 1
  Unset = Unset
  AutonomyCalls = {w1, w2}
  Configurations <- SomeConfigurations
  AskedLevels = {"assisted", "guided", "near_autonomous", "fully_autonomous"}
  Values = {0, 1}
  Confidences = {79, 80}
  Voters = {"a", "b"}
  Fetches = {w1, w2}
  People = {"ann", "own"}
  Owner = "own"
  Nobody = "nobody"
  MaxAuthCalls = 2
  Keys = {"x", "y"}
  FirstKey = "x"
  MaxPageLoads = 3
  MaxChanges = 2
SYMMETRY Symmetry
CHECK_DEADLOCK FALSE
INVARIANTS
  IndexNamesTheSession
  SessionRestsOnNonce
  SkillTablesAgree
  AutonomyKeepsItsWord
  PagesAreCurrent
PROPERTIES
  TokensDie
  IdentityRecordsAgree
