SPECIFICATION Spec
CONSTANTS
    Keys = {"rev", "fix", "plan"}
    KeyType <- MCKeyType
    KeyTarget <- MCKeyTarget
    KeyPriority <- MCKeyPriority
    LongTermThreshold = 1
    MaxItems = 2
    MaxLoops = 3
    MaxRuns = 2
    Claimants = {"tick"}
    HandoffKeys = {"fix"}
    MaxConcurrentRuns = 2
    DiscoveryEnabled = {"reviewer", "fixer", "planner"}
    DiscoverKeys = {"rev", "fix", "plan"}
    ApiOps = {"dequeue", "stop_all"}
    AdmitKeys = {}
    EnqueueKeys = {}
    RepairKeys = {}
    MaxCrashes = 0
    p1 = p1
    p2 = p2
    h1 = h1
    Pipes = {p1, p2}
    Handlers = {h1}
SYMMETRY Symmetry
INVARIANTS
    PlannerOutcomeIsWhole
    OneFixerLoop
