SPECIFICATION Spec
CONSTANTS
    Emails = {"a", "b"}
    Refs = {1, 2}
    MaxRequests <- MCRequests
    MaxFaults = 1
    MaxCrashes = 1
INVARIANTS
    DeletedStaysDeleted
    NoDanglingGrant
    SuspensionHolds
    OffboardedHasNoCredential
    NoDoubleBooking
    TopologySound
CHECK_DEADLOCK FALSE
