\* Two events of one lane, two workers, stale clock readings, expiring UNKNOWN rows.
CONSTANTS
    e1 = e1
    e2 = e2
    laneA = laneA
    laneB = laneB
    w1 = w1
    w2 = w2
    Event = {e1, e2}
    Lane = {laneA, laneB}
    LaneOf <- OneLane
    Private = {}
    Worker = {w1, w2}
    NoWorker = NoWorker
    MaxAttempts = 2
    LeaseSeconds = 1
    BackoffMax = 1
    Tolerance = 0
    CompletedTtl = 1
    UnknownTtl = 1
    UnknownExpires = TRUE
    MaxLag = 1
    MaxEpochs = 2
    MaxInflight = 1
    MaxSeq = 3
SPECIFICATION StoreSpec
SYMMETRY Symmetry
CHECK_DEADLOCK FALSE
INVARIANTS
    LaneOrder
    WaitingNeverStarted
    WakeupIsDue
PROPERTIES
    ImplementsInbox
