CONSTANTS
    a = a
    b = b
    Ids = {a}
    Loops = {l1, l2}
    NoLoop = NoLoop
    Nil = Nil
    Repeating = {a}
    CronMayEnd = {}
    MaxRuns <- MCMaxRuns
    JoinTimesOut = TRUE
    MaxSchedules = 1
    MaxSetbacks = 0
    MaxRestarts = 1
    MaxTime <- MCMaxTime
    CountCap = 4
SPECIFICATION Spec
INVARIANTS
    OldLoopsStop
