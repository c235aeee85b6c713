\* A third connection for a slot that is given back, or refused.
CONSTANTS
    MaxClients = 2
    MaxConn = 3
    MaxSend = 2
    Talkers = {1, 2}
    Quitters = {1}
    MaxEntries = 2
    Room = {lobby}
    NoRoom = NoRoom
SPECIFICATION FairSpec
INVARIANTS MemberListed AnnouncedIsAhead StuckOnlyWhenMute
PROPERTIES TakingTurns RoundGoesOn
\* The handler may wait for ever.
CHECK_DEADLOCK FALSE
