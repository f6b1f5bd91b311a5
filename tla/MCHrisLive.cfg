SPECIFICATION HrisSpec
CONSTANTS
    WorkerConfigs <- MCWithWorkers
    Receipts <- MCReceipts
    Execs <- MCExecs
    Entries <- MCEntries
    Procs = {p1, p2}
    MaxAttempts = 2
    ExecLimit = 1
    MaxReplays = 1
    MaxFaults = 1
    MaxLate = 1
    MaxManual = 2
    MaxTotal = 2
PROPERTY ReceiptsSettle
CHECK_DEADLOCK FALSE
