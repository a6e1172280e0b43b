SPECIFICATION FairSpec
CONSTANTS
    a = a
    b = b
    r1 = r1
    Node = {a, b}
    Room = {r1}
    NoRoom = NoRoom
    NotificationLimit = 2
    Operations = {"Join", "Leave", "SendRoom", "SwitchRoom", "MarkRead"}
    MaxCommands <- TwoByA
    MaxCrashes = 1
    MaxInFlight = 1
    MayStop = {b}
INVARIANTS
    TypeOK
    NotificationsBacked
    RoomMessagesStayInRoom
PROPERTIES
    MembershipIsLocal
    JoinedIsShown
CHECK_DEADLOCK FALSE
