\* One worker, one handler of clicks; the tasks and their bounds are those of MCBounds.
CONSTANTS
    t1 = t1
    r1 = r1
    c1 = c1
    Task = {t1}
    MaxRuns = 2
    MaxTurns = 3
    Horizon = 1
    Grace = 0
    Lease = 2
    AskTTL = 1
    NoticeLease = 1
    MaxLag = 1
    Runner = {r1}
    Callback = {c1}
    NoRun = NoRun
    Bounds <- MCBounds
SPECIFICATION LiveSpec
INVARIANTS
    TasksNeverOverlap
    TriggersAdvance
    NoticeOnce
    SettledIsQuiet
    LossIsTold
PROPERTIES
    WaitsEnd
