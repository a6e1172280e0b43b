SPECIFICATION Spec
CONSTANTS
    r = r
    s = s
    Peer = {r, s}
    Bootstrap = {r}
    PartitionAfter = 1
    Mdns = FALSE
    MaxConns <- DirectOnly
INVARIANTS
    TypeOK
    PartitionIsAgreed
CHECK_DEADLOCK FALSE
