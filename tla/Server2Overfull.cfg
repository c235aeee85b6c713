\* More connections than the array holds; the first and the last client quit at any moment.
CONSTANTS
    MaxClients = 2
    MaxPid = 3
    MaxSend = 1
    PipeCap = 1
    Quitters = {1, 3}
SPECIFICATION FairSpec
INVARIANT TypeOK
PROPERTIES MessagesRead ConnectionsAccepted
\* The parent waits in select for ever once the last user has acted.
CHECK_DEADLOCK FALSE
