\* Three requests around each kind of tool.
CONSTANTS
    Request = {r1, r2, r3}
    Configs <- MCConfigs
SPECIFICATION CallbacksSpec
INVARIANTS
    RanOnce
    RunsAsDecided
    DoneIsRecorded
PROPERTIES
    UsesInbox
CHECK_DEADLOCK FALSE
