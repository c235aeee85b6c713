\* The child with the pipe, and two that echo; every fork may fail, reads may
\* leave a rest, and the pipe holds less than a client sends.
CONSTANTS
    MaxConn = 2
    MaxSend = 2
    PipeCap = 1
    MayFail = TRUE
SPECIFICATION FairSpec
INVARIANTS OneWriter MessageAnnounced
PROPERTIES AcceptedOnceWriterLeft StopsWithLastClient
\* The daemon has ended, or waits in accept when nobody connects any more.
CHECK_DEADLOCK FALSE
