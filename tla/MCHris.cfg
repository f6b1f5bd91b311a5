SPECIFICATION HrisSafetySpec
CONSTANTS
    WorkerConfigs <- MCWorkerConfigs
    Receipts <- MCReceipts
    Execs <- MCExecs
    Entries <- MCEntries
    Procs = {p1, p2}
    MaxAttempts = 2
    ExecLimit = 1
    MaxReplays = 1
    MaxFaults = 1
    MaxLate = 1
    MaxManual = 1
    MaxTotal = 3
INVARIANTS HandledOnce
PROPERTY NotLost
SYMMETRY MCSymmetry
CHECK_DEADLOCK FALSE
