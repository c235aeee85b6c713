\* A child ends between the read of its message and the handling.
CONSTANTS
    MaxClients = 2
    MaxPid = 2
    MaxSend = 1
    PipeCap = 1
    Quitters = {1}
SPECIFICATION Spec
INVARIANT AttributedToSender
\* The parent waits in select for ever once the last user has acted.
CHECK_DEADLOCK FALSE
