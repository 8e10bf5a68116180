\* Three saves and a crash, two NFT requests at once, two tasks of the
\* wallet page, two loops of the command center, eight cycles of its runtime, the whole
\* story of the demo, two turns of the agents, two reflections on the page of the
\* receipts, two structured receipts of either kind, and three moments of a page whose
\* logs are collected, one more after a trim that failed, with two reports at once and a
\* failure.
SPECIFICATION OperationsSpec
CONSTANTS
  s1 = s1
  s2 = s2
  s3 = s3
  Saves = {s1, s2, s3}
  Chainings = {TRUE, FALSE}
  Crashes = 1
  NftCalls = {s1, s2}
  Supplies = {0, 2}
  MaxKeys = 4
  Accounts = {"a", "b"}
  MaxTasks = 2
  PageWallets = {"a", "b"}
  Registry = {"k1"}
  MaxLoops = 2
  MaxRetries = 1
  MaxLinks = 2
  MaxPolicies = 5
  MaxCycles = 8
  MaxTurns = 2
  MaxReflections = 2
  MaxPageCalls = 3
  MaxStructured = 2
  BufferSize <- SmallBuffers
  LogSize = 2
  TrimTarget = 1
  MaxEntries = 4
  MaxFetches = 1
  MaxReports = 2
  MaxLogFaults = 1
CHECK_DEADLOCK FALSE
INVARIANTS
  WalletIsTheUsers
  CommandCenterTells
  StoryHoldsTogether
  RunsAreEarned
  LogsAreKept
PROPERTIES
  StoresRecover
  PagesSettle
  StoresHold
  ReceiptsHold
