\* Two requests of the bridge, by a route that credits, one that does not and one that only
\* builds, and two confirmations; then one or two runs of the swarm, and a restart that may
\* find their file torn.  The relayer's key is there.
\* Three writes to the sidecar, four manifests of the OpenClaw bridge, three failing calls.
SPECIFICATION ExecutionSpec
CONSTANTS
    c1 = c1
    c2 = c2
    NoTx = 0
    BridgeCallers <- MCCallers
    Subjects = {"s"}
    BridgeRoutes = {"skills", "send", "build"}
    HasRelayer = TRUE
    Orders = {TRUE, FALSE}
    MaxSends = 2
    MaxConfirms = 2
    Runs <- MCCallers
    Chosen = {"planner", "memory-recall"}
    PlanServices = {TRUE, FALSE}
    MirrorLimits = {1, 2}
    SwarmCrashes = 1
    Payloads = {"p1", "p2"}
    Reflections = {"r1"}
    BlobPlaces <- Places
    MaxWrites = 3
    SkillVersions = {"v1", "v2"}
    ManifestHashes = {1, 2}
    MaxBridged = 4
    MaxHistory = 2
    MaxErrors = 3
SYMMETRY Symmetric
CHECK_DEADLOCK FALSE
INVARIANTS
  BridgeTellsTheChain
  MirrorKeepsAnswers
  ClaimsRestOnProof
  RelaysTellTheTruth
  ErrorsAreTold
