\* The second child's descriptor for the pipe is its own socket.
CONSTANTS
    MaxConn = 2
    MaxSend = 1
    PipeCap = 2
    MayFail = FALSE
SPECIFICATION Spec
INVARIANTS AllShareThePipe
CHECK_DEADLOCK FALSE
