CONSTANTS
    a1 = a1
    a2 = a2
    a3 = a3
    key = key
    same = same
    other = other
    t1 = t1
    t2 = t2
    p1 = p1
    p2 = p2
    Approval = {a1, a2}
    Alike = {a1, a2}
    Key = {key}
    KeyOf <- OneKey
    Payload = {same, other}
    PayloadOf <- MostlySame
    NoPayload = NoPayload
    Turn = {t1, t2}
    Process = {p1}
    ProcessOf <- Together
    NoTurn = NoTurn
    NoApproval = NoApproval
SPECIFICATION FairSpec
CHECK_DEADLOCK FALSE
INVARIANTS
    OneDecision
    EffectIsOnRecord
PROPERTIES
    DispatchIsCurrent
    TurnsEnd
