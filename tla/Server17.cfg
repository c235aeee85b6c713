\* One connection more than slots, so that a slot and its numbers are used
\* twice.  A pipe has room for one message only: the answers to a nickname are
\* two, and the second waits until the child has ended.
CONSTANTS
    MaxClients = 2
    MaxConn = 3
    MaxSend = 2
    PipeCap = 1
    MayFail = TRUE
SPECIFICATION FairSpec
INVARIANTS EndsAreNamed LiveChildHasSlot ChildrenWithinLimit
PROPERTIES ServedByNextConnection TerminatesByNextConnection
\* The server has ended, or waits in accept when nobody connects any more.
CHECK_DEADLOCK FALSE
