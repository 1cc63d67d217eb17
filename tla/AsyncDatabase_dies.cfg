\* One failed transaction ends the batch writer.
SPECIFICATION FairSpec
CONSTANTS
    client1 = client1
    client2 = client2
    log1 = log1
    log2 = log2
    MainTask = MainTask
    WriterTask = WriterTask
    Main <- MainTask
    Writer <- WriterTask
    Clients <- OneClient
    Tasks <- TasksWithOne
    Logs <- TwoLogs
    Rows <- RowsOfOne
    MaxSize = 2
    MaxFaults = 1
PROPERTY LogsReachTheTable
CHECK_DEADLOCK FALSE
