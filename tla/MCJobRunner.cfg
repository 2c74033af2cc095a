\* Protected runners, two events of one lane, one requeue by an operator.
CONSTANTS
    e1 = e1
    e2 = e2
    e3 = e3
    laneA = laneA
    w1 = w1
    w2 = w2
    r1 = r1
    r2 = r2
    NoWorker = NoWorker
    NoEvent = NoEvent
    LaneOf <- OneLane
    WorkerOf <- Workers
    Event = {e1, e2}
    Lane = {laneA}
    Private = {}
    Worker = {w1, w2}
    Runner = {r1, r2}
    Protected = TRUE
    UnknownExpires = FALSE
    MaxAttempts = 2
    LeaseSeconds = 1
    BackoffMax = 1
    BackoffBase = 1
    Tolerance = 0
    CompletedTtl = 1
    UnknownTtl = 0
    MaxLag = 0
    MaxEpochs = 2
    MaxInflight = 1
    MaxSeq = 2
    MaxCalls = 1
SPECIFICATION Spec
SYMMETRY Symmetry
INVARIANTS
    AtMostOneEffectfulAttempt
    CallsSerialPerLane
    CompletedIsCertain
CHECK_DEADLOCK FALSE
PROPERTIES
    SettledByHolder
