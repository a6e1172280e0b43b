SPECIFICATION FairSpec
CONSTANTS
    a = a
    b = b
    Peer = {a, b}
    ReplayWindow = 1
    PublishMayFail = {}
    MaxSends <- TwoEach
    MaxRestarts <- None
    MaxClock = 0
INVARIANTS
    OneSidedSessionsAgree
    OneSidedIsReliable
    AcceptedIsKept
    QueuedHasNegotiation
PROPERTIES
    NegotiationStabilises
CHECK_DEADLOCK FALSE
