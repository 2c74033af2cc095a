\* One event, and aclose() at any point.
CONSTANTS
    e1 = e1
    c1 = c1
    Msg = {e1, c1}
    Cards = {c1}
    Fragments <- MCFragments
    Task = {1}
    Configs <- MCStopConfigs
    MaxPartial = 1
    ReconnectCount = 1
SPECIFICATION WsSpec
PROPERTIES
    StopEnds
CHECK_DEADLOCK FALSE
