SPECIFICATION Spec
CONSTANTS
    a = a
    b = b
    Peer = {a, b}
    ReplayWindow = 1
    PublishMayFail = {}
    MaxSends <- OneEach
    MaxRestarts <- None
    MaxClock = 0
INVARIANTS
    SettledSessionsAgree
CHECK_DEADLOCK FALSE
