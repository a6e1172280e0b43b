SPECIFICATION Spec
CONSTANTS
    gw = gw
    notes = notes
    me = me
    other = other
    storage = storage
    http = http
    Domain = {gw, notes}
    Gateway = {gw}
    Builtin = {gw}
    App = App
    Cap = {storage, http}
    SafeCap = {}
    GatewayCap = {http}
    Requested <- Asked
    Peer = {me, other}
    Self = me
    Nobody = Nobody
    Resolution <- ForeignNotes
    Level = {"Restricted"}
    Commands = {"Register", "Gateway"}
    MaxCommands = 0
    MaxOpens = 3
    MaxBoth = 3
INVARIANTS
    PromptsAreActionable
CHECK_DEADLOCK FALSE
