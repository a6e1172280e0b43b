SPECIFICATION Spec
CONSTANTS
    a = a
    b = b
    Peer = {a, b}
    ReplayWindow = 0
    PublishMayFail = {b}
    MaxSends <- TwoByA
    MaxRestarts <- OnlyA
    MaxClock = 1
INVARIANTS
    TypeOK
    DeliveredAtMostOnce
    ShownSessionIsHeld
    QueuedHasNegotiation
    SessionIdFixesKey
PROPERTIES
    ImplementsDelivery
CHECK_DEADLOCK FALSE
