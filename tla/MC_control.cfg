SPECIFICATION Spec
CONSTANTS
    Keys = {"fix", "rep"}
    KeyType <- MCKeyType
    KeyTarget <- MCKeyTarget
    KeyPriority <- MCKeyPriority
    LongTermThreshold = 1
    MaxItems = 2
    MaxLoops = 1
    MaxRuns = 1
    Claimants = {"tick"}
    HandoffKeys = {}
    MaxConcurrentRuns = 1
    DiscoveryEnabled = {}
    DiscoverKeys = {}
    ApiOps = {"admit", "pause", "resume", "close", "repair"}
    AdmitKeys = {"fix"}
    EnqueueKeys = {}
    RepairKeys = {"rep"}
    MaxCrashes = 0
    p1 = p1
    h1 = h1
    h2 = h2
    Pipes = {p1}
    Handlers = {h1, h2}
SYMMETRY Symmetry
INVARIANTS
    PausedIsQuiet
    OneActivePerDedupe
