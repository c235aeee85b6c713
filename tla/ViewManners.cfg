\* Two rooms to join and a slot for one: joins may be refused.
CONSTANTS
    RoomName = {general, lobby, games}
    General = general
    NickName = {guest, kim}
    Guest = guest
    MaxRooms = 2
    MaxClients = 2
    MaxPid = 2
    DriftBound = 3
    MaxSend = 2
    Quoters = {1}
    Manners = {"slow", "patient"}
SPECIFICATION ViewSpec
SYMMETRY Names
INVARIANTS ViewTypeOK NeverOverCounts SharedNickIsGuest StaleOnlyInGeneral NicknameKnown
PROPERTY OwnEntryOnly
\* The users stop after MaxSend messages, or quit.
CHECK_DEADLOCK FALSE
