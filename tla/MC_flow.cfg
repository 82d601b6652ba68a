SPECIFICATION Spec
CONSTANTS
    MaxLoops = 2
    MaxPulls = 3
    MaxTroubles = 1
    Cached = {"all"}
INVARIANTS
    ImplementsInPlace
PROPERTIES
    BlockedIsNotReady
    TransitionHeals
    PlannedIsImplemented
