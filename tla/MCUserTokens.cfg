\* Two lookups in two processes, three token responses, two aliases.
CONSTANTS
    openId = openId
    userId = userId
    c1 = c1
    c2 = c2
    Alias = {openId, userId}
    Primary = openId
    Caller = {c1, c2}
    MaxTries = 1
    MaxPairs = 3
SPECIFICATION Spec
SYMMETRY Symmetry
INVARIANTS
    RefreshedOnce
    AliasesAgree
PROPERTY GrantNeverOlder
CHECK_DEADLOCK FALSE
