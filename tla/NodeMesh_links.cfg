SPECIFICATION FairSpec
CONSTANTS
    r = r
    s = s
    Peer = {r}
    Bootstrap = {r}
    PartitionAfter = 1
    Mdns = TRUE
    MaxConns <- TwoDirect
INVARIANTS
    ShownLinksAreOpen
    AttemptIsTracked
PROPERTIES
    LossIsDetected
CHECK_DEADLOCK FALSE
