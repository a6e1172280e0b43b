SPECIFICATION FairSpec
CONSTANTS
    a = a
    b = b
    x = x
    y = y
    Node = {a, b}
    Domain = {x}
    Ttl = {1, 2}
    EventTtl = 0
    PublishMayFail = TRUE
    MaxPublish <- TwoByA
    MaxRestarts <- OnlyA
    MaxToolSteps <- None
    MaxClock = 2
INVARIANTS
    CacheIsPersisted
PROPERTIES
    FirstOwnerAuthoritative
    NoRegression
    ClaimsSpread
CHECK_DEADLOCK FALSE
