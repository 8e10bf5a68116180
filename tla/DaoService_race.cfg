\* Two requests at once: a wallet votes twice before its first vote is recorded.
SPECIFICATION Spec
CONSTANTS
  Wallets = {w1, w2}
  ProposalIds = {1}
  Requests = {r1, r2}
  Stakes = {1}
  Reputations = {0}
  MinStake = 1
  Actives = {TRUE}
  Ballots = {"yes", "no", "veto"}
  Amounts = {2}
  QuorumBps = 5
  ThresholdBps = 5
  BpsScale = 10
  Failures = {FALSE}
  Patience = {FALSE}
  MaxVoters = 2
  MaxReceipts = 2
SYMMETRY RequestSymmetry
INVARIANTS OneVotePerWallet
CHECK_DEADLOCK FALSE
