SPECIFICATION Spec
CONSTANTS
    a = a
    b = b
    x = x
    y = y
    Node = {a, b}
    Domain = {x}
    Ttl = {1, 3}
    EventTtl = 0
    PublishMayFail = FALSE
    MaxPublish <- TwoOnlyB
    MaxRestarts <- OneEach
    MaxToolSteps <- ThreeOnlyA
    MaxClock = 2
INVARIANTS
    TypeOK
    NoClaimVanishes
    OwnNamesListed
PROPERTIES
    FirstOwnerAuthoritative
CHECK_DEADLOCK FALSE
