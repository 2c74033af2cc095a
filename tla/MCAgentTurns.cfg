CONSTANTS
    Message = {m1, m2}
    CallId = {"c1", "c2"}
    Menu <- MCMenu
    Keep = 1
    Scenarios <- MCScenarios
SYMMETRY MessageSymmetry
SPECIFICATION TurnsSpec
INVARIANTS
    MessageTurnsWellFormed
    ResultsInBatch
    NothingTwice
CHECK_DEADLOCK FALSE
