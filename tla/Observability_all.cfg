SPECIFICATION TelemetrySpec
CONSTANTS
    h1 = h1  h2 = h2
    Publishers = {t1, t2}
    Handlers = {h1, h2, obs}
    Observer = obs
    Async = {h2}
    MayRaise = {h1}
    Names = {"task_failed", "task_started"}
    Failure = "task_failed"
    Accepts <- MCAccepts
    Subscribed <- MCSubscribed
    MaxHistory = 1
    MaxErrors = 1
    MaxPublishes = 2
    MaxOps = 1
    MaxRestarts = 2
SYMMETRY PublisherSymmetry
CHECK_DEADLOCK FALSE
INVARIANTS
    BusConsistent
    NobodyIsSkipped
    CountersAreExact
PROPERTIES
    DownMeansSilent
