SPECIFICATION Spec
CONSTANTS
    j1 = j1  j2 = j2  j3 = j3
    t1 = t1  t2 = t2  t3 = t3  t4 = t4
    NoJob = NoJob
    Retries <- MCRetries
    Priority <- MCPriority
    CreatedAt <- MCCreatedAt
    Jobs = {j1, j2}
    Threads = {t1, t2, t3}
    NumWorkers = 2
    Timed = {j1}
    HasContext = {j2}
    MayExit = {j2}
    MaxSubmits <- MCTwice
    MaxShutdowns = 1
SYMMETRY ThreadSymmetry
INVARIANTS
    TypeOK
    OnePlacePerJob
    ExclusiveExecution
    AtMostRetriesPlusOne
    NoJobIsLost
    MemoryRecordsOutcome
    ThreadsInOrder
PROPERTIES
    OutcomeIsFinal
    CancelledNeverStarts
