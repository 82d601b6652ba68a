SPECIFICATION FairSpec
CONSTANTS
    Keys = {"rev", "fix"}
    KeyType <- MCKeyType
    KeyTarget <- MCKeyTarget
    KeyPriority <- MCKeyPriority
    LongTermThreshold = 1
    MaxItems = 2
    MaxLoops = 2
    MaxRuns = 3
    Claimants = {"tick", "pump"}
    HandoffKeys = {"fix"}
    MaxConcurrentRuns = 1
    DiscoveryEnabled = {"reviewer"}
    DiscoverKeys = {"rev"}
    ApiOps = {"lock"}
    AdmitKeys = {}
    EnqueueKeys = {}
    RepairKeys = {}
    MaxCrashes = 0
    p1 = p1
    p2 = p2
    h1 = h1
    Pipes = {p1, p2}
    Handlers = {h1}
PROPERTIES
    QueuedIsTaken
    ClaimEnds
