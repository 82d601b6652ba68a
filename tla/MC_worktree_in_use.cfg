CONSTANTS
    PlannerLoops = {l1, l2}
    RetentionDays = 1
    MaxPerTick = 1
    MaxAttempts = 2
    MaxWorkerRuns = 1
    MaxWtDeaths = 1
    MaxClientPasses = 1
SPECIFICATION WorktreesSpec
PROPERTIES InUseIsKept
