\* One caller for every operation or tool, two callers for a read and a write.
CONSTANTS
    c1 = c1
    c2 = c2
    Caller = {c1, c2}
    Menus <- MCMenus
    Agents = {c1}
    Tools <- MCTools
    Policies = {"interactive", "read_only", "confirm_writes"}
    MaxPages = 2
    MaxAttempts = 2
    Budget = 1
    MaxDelay = 1
    Timeout = 1
    Offset = 2
    MinTtl = 1
    Lives = {0, 2, 4}
    MaxGrants = 2
    MaxClock = 4
SPECIFICATION AgentSpec
INVARIANTS
    TokenLive
    FetchedOnce
    WrittenOnce
    ViewToken
    UnconfirmedWritesNothing
    ConfirmedWriteOnce
    FailedWroteNothing
CHECK_DEADLOCK FALSE
