CONSTANTS
    a = a
    b = b
    Ids = {a}
    Loops = {l1}
    NoLoop = NoLoop
    Nil = Nil
    Repeating = {a}
    CronMayEnd = {}
    MaxRuns <- MCMaxRuns
    JoinTimesOut = FALSE
    MaxSchedules = 1
    MaxSetbacks = 1
    MaxRestarts = 0
    MaxTime <- MCMaxTime
    CountCap = 4
SPECIFICATION Spec
INVARIANTS
    MaxRunsIsAMaximum
