SPECIFICATION FairSpec
CONSTANTS
    QueueMax = 2
    BatchMax = 2
    FirstBackoff = 2
    BackoffMax = 4
    MaxEvents = 4
    MaxConns = 2
    MaxFails = 1
INVARIANT UploadOrder
INVARIANT EveryEventAccounted
INVARIANT RetainedBound
PROPERTY EveryEventLeaves
CHECK_DEADLOCK FALSE
