INIT LibrariesInit
NEXT LibrariesNext
CONSTANTS
    Parts = {"settings"}
    MaxDays = 2
    MaxIssueAge = 2
    AutonomousDelay = 1
    MaxComments = 1
    Bodies <- MCBodies
    MaxRef = 3
    MaxDeps = 2
    MaxPushes = 1
    WatchRetries = 1
    Shas = {"c1"}
    Loops = {"l1"}
    MaxTries = 1
    BaseDelay = 2
    DelayCap = 3
    DelayRange = 4
    MaxRestarts = 2
    FileLayers <- MCFiles
    EnvValues <- MCEnvironments
    Overrides <- MCOverrides
    Fixers = {"f1", "f2"}
    Ignored = FALSE
    MaxChecks = 3
    MaxTroubles = 1
    MaxCrashes = 1
    Files <- MCDiffFiles
    MaxLines = 4
    MaxHunks = 3
    Callers = {"a", "b"}
    Argvs <- MCArgvs
    Mode = "strict"
    Allowlist <- MCAllowlist
    MaxCalls = 3
    Clients = {"c", "d"}
    ProjectRows <- MCProjectRows
    Repos <- MCRepos
    Within <- MCWithin
    MaxSessions = 2
    Projects = {"p"}
    Targets = {"issue"}
    Threads = {"t1", "t2"}
    Configured = {"p"}
    MaxLoops = 1
    MaxRuns = 2
    MaxRequests = 5
INVARIANT DefaultsComeLast
CHECK_DEADLOCK FALSE
