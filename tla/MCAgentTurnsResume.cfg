CONSTANTS
    Message = {m1, m2}
    CallId = {"c1", "c2"}
    Menu <- MCMenu
    Keep = 1
    Scenarios <- MCCrashScenario
SPECIFICATION TurnsSpec
INVARIANT TurnsWellFormed
CHECK_DEADLOCK FALSE
