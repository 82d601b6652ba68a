SPECIFICATION PeripherySpec
CONSTANTS
    Executions = {"e1"}
    MaxDeaths = 2
    Deliveries = {"opened", "requested", "failed", "push", "comment"}
    EventOf <- MCEventOf
    KeysOf <- MCKeysOf
    Resolved = {"pr1", "main"}
    Workers = {"w1", "w2"}
    MaxReceived = 3
    PlannerLoops = {"l1", "l2"}
    RetentionDays = 1
    MaxPerTick = 1
    MaxAttempts = 1
    MaxWorkerRuns = 2
    MaxWtDeaths = 1
    MaxClientPasses = 1
    Instances = {"d1", "d2"}
    MaxAccidents = 1
    Askers = {"a1", "a2"}
    FailureThreshold = 2
    LockUsers = {"u1", "u2"}
    MaxInodes = 2
    Forwarded = {"r1", "r2"}
    MaxTransient = 3
INVARIANTS
    TerminalIsDead
    ActiveIsSupervised
    WorksMatchQueue
PROPERTIES
    RuntimeIsBounded
    AwakeWorkerDrains
    RowsAreCleaned
    ToldEnds
    OpenRecovers
CHECK_DEADLOCK FALSE
