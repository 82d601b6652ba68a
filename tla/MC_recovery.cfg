SPECIFICATION Spec
CONSTANTS
    Keys = {"work"}
    KeyType <- MCKeyType
    KeyTarget <- MCKeyTarget
    KeyPriority <- MCKeyPriority
    LongTermThreshold = 1
    MaxItems = 1
    MaxLoops = 1
    MaxRuns = 2
    Claimants = {"tick"}
    HandoffKeys = {}
    MaxConcurrentRuns = 1
    DiscoveryEnabled = {}
    DiscoverKeys = {}
    ApiOps = {"admit", "resume", "stop", "close"}
    AdmitKeys = {"work"}
    EnqueueKeys = {}
    RepairKeys = {}
    MaxCrashes = 1
    p1 = p1
    p2 = p2
    h1 = h1
    Pipes = {p1, p2}
    Handlers = {h1}
SYMMETRY Symmetry
INVARIANTS
    RunningRunIsLatest
    PipesOwnTheirRun
