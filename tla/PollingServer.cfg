\* One connection more than the array holds; the first client may quit at any moment.
CONSTANTS
    MaxClients = 2
    MaxPid = 3
    MaxSend = 2
    PipeCap = 1
    Quitters = {1}
SPECIFICATION PollFairSpec
INVARIANT ChildrenWithinArray
PROPERTIES TurnsForever RecordedRead
\* The parent may die of SIGPIPE.
CHECK_DEADLOCK FALSE
