SPECIFICATION Spec
CONSTANTS
    Keys = {"work", "misc", "rep"}
    KeyType <- MCKeyType
    KeyTarget <- MCKeyTarget
    KeyPriority <- MCKeyPriority
    LongTermThreshold = 1
    MaxItems = 2
    MaxLoops = 1
    MaxRuns = 1
    Claimants = {"tick", "pump"}
    HandoffKeys = {}
    MaxConcurrentRuns = 1
    DiscoveryEnabled = {"worker"}
    DiscoverKeys = {"work"}
    ApiOps = {"enqueue", "create_loop", "repair", "dequeue"}
    AdmitKeys = {"work"}
    EnqueueKeys = {"misc"}
    RepairKeys = {"rep"}
    MaxCrashes = 0
    p1 = p1
    p2 = p2
    h1 = h1
    Pipes = {p1, p2}
    Handlers = {h1}
SYMMETRY Symmetry
INVARIANTS
    RunningWithinLimit
    Inv
PROPERTIES
    ImplementsSlotPool
