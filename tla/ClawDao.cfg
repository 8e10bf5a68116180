\* Two wallets, two proposals, changing stakes and configuration, weights near the largest u64.
SPECIFICATION SmallSpec
CONSTANTS
  w1 = w1
  w2 = w2
  U64Max = 13
  BpsScale = 10
  Wallets = {w1, w2}
  ProposalIds = {1, 2}
  Kinds = {"TreasurySpend", "Text"}
  Stakes = {1, 5}
  Reputations = {0, 1}
  MinStakes = {0, 1}
  QuorumBps = {0, 6}
  ThresholdBps = {2, 7}
  Durations = {0}
  Amounts = {1, 2, 3}
  SpendLimits = {0, 2}
  MaxSlot = 2
SYMMETRY WalletSymmetry
CHECK_DEADLOCK FALSE
INVARIANTS
  TypeOK
  FinalizeNeverWraps
  TreasuryBalances
  VotesAreCounted
PROPERTIES
  ImplementsBallot
  ExecutionIsFinal
