CONSTANTS
    a = a
    b = b
    Ids = {a, b}
    Loops = {l1}
    NoLoop = NoLoop
    Nil = Nil
    Repeating = {a, b}
    CronMayEnd = {b}
    MaxRuns <- MCMaxRuns
    JoinTimesOut = FALSE
    MaxSchedules = 1
    MaxSetbacks = 1
    MaxRestarts = 1
    MaxTime <- MCMaxTime
    CountCap = 3
SPECIFICATION FairSpec
INVARIANTS
    OneSubmissionPerDueTime
    ScheduleConsistent
PROPERTIES
    DueJobsAreTriggered
