\* An event and a card action of two fragments each, in turn and together.
CONSTANTS
    e1 = e1
    c1 = c1
    Msg = {e1, c1}
    Cards = {c1}
    Fragments <- MCFragments
    Task = {1, 2}
    Configs <- MCConfigs
    MaxPartial = 1
    ReconnectCount = 1
SPECIFICATION WsSpec
INVARIANTS
    HandledOnce
    ReassembledWhole
PROPERTIES
    AckedIsHandled
CHECK_DEADLOCK FALSE
