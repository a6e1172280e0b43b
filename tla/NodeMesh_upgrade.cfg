SPECIFICATION Spec
CONSTANTS
    r = r
    s = s
    Peer = {r}
    Bootstrap = {r}
    PartitionAfter = 1
    Mdns = FALSE
    MaxConns <- OneOfEach
INVARIANTS
    DirectPathShown
CHECK_DEADLOCK FALSE
