\* Two clients, two logs, two connections, two failures, then close().
SPECIFICATION FairSpec
CONSTANTS
    client1 = client1
    client2 = client2
    log1 = log1
    log2 = log2
    MainTask = MainTask
    WriterTask = WriterTask
    Main <- MainTask
    Writer <- WriterTask
    Clients <- TwoClients
    Tasks <- TasksWithTwo
    Logs <- TwoLogs
    Rows <- RowsOfTwo
    MaxSize = 2
    MaxFaults = 2
INVARIANTS TypeOK LogsAccountedFor CleanWhileServing ConnectionsInOnePlace
PROPERTIES QuietLogsReachTheTable ClientsServed CloseComesToAnEnd
CHECK_DEADLOCK FALSE
