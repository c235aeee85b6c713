\* A slot for every name: no join is refused.
CONSTANTS
    RoomName = {general, lobby, games}
    General = general
    NickName = {guest, kim, lee}
    Guest = guest
    MaxRooms = 3
    MaxClients = 3
    MaxPid = 5
    DriftBound = 0
SPECIFICATION RoomySpec
SYMMETRY Names
INVARIANT ExactCounts
PROPERTY ImplementsDirectory
\* Once MaxPid connections have come and gone nobody is left to act.
CHECK_DEADLOCK FALSE
