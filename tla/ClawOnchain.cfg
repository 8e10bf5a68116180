\* Two wallets, one slug, two versions; six reputation events; skills with versions of two
\* fronts; three mints with none, some or all of the tokens there can be.
SPECIFICATION OnchainSpec
CONSTANTS
  w1 = w1
  w2 = w2
  v1 = v1
  v2 = v2
  m1 = m1
  m2 = m2
  m3 = m3
  U64Max = 100000000
  BpsScale = 10000
  U16Max = 3
  Wallets = {w1, w2}
  Slugs = {"s"}
  Versions = {v1, v2}
  RecordIds = {1}
  EventKinds = {"deployment", "skill_publish", "verified_authorship", "other"}
  Qualities = {0, 10000}
  Rewards = {0, 60000000}
  Quotas = {1}
  Reputations = {0, 5}
  StepCounts = {0, 2}
  MaxEvents = 6
  Authorities = {w1}
  Seeds = {1, 2}
  Fronts = {1, 2}
  MaxSkillVersion = 2
  CountMax = 1
  NftWallets = {w1, w2}
  NftMints = {m1, m2, m3}
  MaxSupplies = {0, 2}
  TokensBefore = {0, 4, 5}
  TokenMax = 5
  NftNone = NftNone
SYMMETRY Symmetry
CHECK_DEADLOCK FALSE
INVARIANTS
  SkillsMatchVersions
  AccountsAgree
  RegistersHold
PROPERTIES
  NeverTakenBack
