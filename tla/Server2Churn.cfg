\* Clients quit at any moment, also while a connection is being recorded; a pipe holds one message.
CONSTANTS
    MaxClients = 2
    MaxPid = 2
    MaxSend = 2
    PipeCap = 1
    Quitters = {1, 2}
SPECIFICATION FairSpec
PROPERTIES RecordsStay BroadcastReachesAll NoticesDrained
\* The parent waits in select for ever once the last user has acted.
CHECK_DEADLOCK FALSE
