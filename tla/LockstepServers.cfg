\* Two clients, and a third connection for which there is no room.
CONSTANTS
    MaxClients = 2
    MaxConn = 3
    MaxSend = 2
    PipeCap = 2
    MayFail = TRUE
SPECIFICATION FairSpec
INVARIANT OnlyNewestSurvives
PROPERTIES NothingReadOnceFull ReadAtNextConnection DeliveredToTalkers
\* The server has ended, or waits in accept when nobody connects any more.
CHECK_DEADLOCK FALSE
