SPECIFICATION DistFairSpec
CONSTANTS
    j1 = j1  j2 = j2  t1 = t1  w1 = w1  w2 = w2
    NoJob = NoJob  NoNode = NoNode  Monitor = Monitor
    Retries <- MCRetries
    Priority <- MCPriority
    CreatedAt <- MCCreatedAt
    Explicit <- MCExplicit
    Capable <- MCCapable
    Threads = {t1}
    NumWorkers = 1
    Timed = {}
    HasContext = {}
    MayExit = {}
    MaxSubmits <- MCOnce
    MaxShutdowns = 0
    Jobs = {j1, j2}
    Nodes = {w1, w2}
    ByCapability = {j1}
    ByTarget = {j2}
    DefaultNodes = {w2}
    TimelyHeartbeats = TRUE
    MaxStarts = 1
    MaxAssigns = 0
    MayStop = {}
    MayCrash = {w1}
    MayClear = FALSE
INVARIANTS
    CrashesAreHandled
PROPERTIES
    EveryJobSurvivesCrashes
