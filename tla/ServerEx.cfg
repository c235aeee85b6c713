\* Descriptors for two children; of the pipes of the next the second fails, then both.
CONSTANTS
    MaxConn = 5
    FdLimit = 8
    MayFail = TRUE
SPECIFICATION FairSpec
INVARIANTS RoomToRefuse EndsInReverse
PROPERTIES ChildrenEndAfterDaemon ConnectionsAnswered
\* The daemon has been killed, or waits in accept when nobody connects any more.
CHECK_DEADLOCK FALSE
