SPECIFICATION MCSpec
CONSTANTS
    Sessions = {s1, s2, s3}
    Duration = 2
    RelocksOnClose = TRUE
    MaxUnlocks = 5
    GwHandlers = {h1, h2}
    GwConns = {c1, c2}
    Certs = {"x1", "x2"}
    AccessKeys = {"a1"}
    DeviceKeys = {"d1"}
    Batches <- MCBatches
    MaxAcked = 2
    MaxGwOps = 4
INVARIANT RelockPending
INVARIANT CheckpointWithinIngested
INVARIANT DisabledHolds
PROPERTY DoorRelocks
PROPERTY RevokedSessionEnds
CHECK_DEADLOCK FALSE
