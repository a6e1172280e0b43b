SPECIFICATION Spec
CONSTANTS
    gw = gw
    notes = notes
    me = me
    other = other
    storage = storage
    http = http
    Domain = {gw, notes}
    Gateway = {gw}
    Builtin = {gw}
    App = App
    Cap = {storage, http}
    SafeCap = {}
    GatewayCap = {http}
    Requested <- Asked
    Peer = {me, other}
    Self = me
    Nobody = Nobody
    Resolution <- ForeignNotes
    Level = {"Restricted"}
    Commands = {"Permission", "Register", "Gateway"}
    MaxCommands = 2
    MaxOpens = 3
    MaxBoth = 4
INVARIANTS
    TypeOK
    MountsAreBacked
    RefusalHasPrompt
    RefusalIsAnswerable
PROPERTIES
    MountsAreApproved
    DecisionsStick
CHECK_DEADLOCK FALSE
