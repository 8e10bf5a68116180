\* Two requests, at once or one after the other, on one proposal, which a second create may
\* replace; persists that may fail.
SPECIFICATION SmallSpec
CONSTANTS
  Wallets = {w1, w2}
  ProposalIds = {1}
  Requests = {r1, r2}
  Stakes = {1}
  Reputations = {0}
  MinStake = 1
  Actives = {TRUE, FALSE}
  Ballots = {"yes", "abstain", "veto"}
  Amounts = {2}
  QuorumBps = 5
  ThresholdBps = 5
  BpsScale = 10
  Failures = {TRUE, FALSE}
  Patience = {TRUE, FALSE}
  MaxVoters = 2
  MaxReceipts = 2
SYMMETRY RequestSymmetry
CHECK_DEADLOCK FALSE
INVARIANTS
  NothingIsLost
  PromisesInTurn
  ShownAsJudged
PROPERTIES
  VerdictsStand
