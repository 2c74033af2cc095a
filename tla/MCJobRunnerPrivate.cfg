\* Two private messages with a callback received between or around them, two
\* attempts each; a handler marks its side effect but makes no external call.
CONSTANTS
    e1 = e1
    e2 = e2
    e3 = e3
    laneA = laneA
    w1 = w1
    w2 = w2
    r1 = r1
    r2 = r2
    NoWorker = NoWorker
    NoEvent = NoEvent
    LaneOf <- OneLane
    WorkerOf <- Workers
    Event = {e1, e2, e3}
    Lane = {laneA}
    Private = {e1, e3}
    Worker = {w1, w2}
    Runner = {r1, r2}
    Protected = FALSE
    UnknownExpires = FALSE
    MaxAttempts = 2
    LeaseSeconds = 1
    BackoffMax = 1
    BackoffBase = 1
    Tolerance = 0
    CompletedTtl = 0
    UnknownTtl = 0
    MaxLag = 0
    MaxEpochs = 1
    MaxInflight = 1
    MaxSeq = 3
    MaxCalls = 0
SPECIFICATION FairSpec
CHECK_DEADLOCK FALSE
INVARIANTS
    InterruptIsCurrent
PROPERTIES
    Settles
