CONSTANTS
    Procs = {p1, p2}
    Lineages = {1}
    MaxAttempts = 2
    AlertBudgets <- MCAlertBudgets
    Emails = {"e1", "e2"}
    Exts = {"x1", "x2"}
    RequestIds = {r1, r2}
    Batches <- MCBatches
    Identities <- MCIdentities
    SyncAttempts = 2
    MaxDirOps = 3
    MaxDirFaults = 1
    Slots = {l1, l2}
    ApprovalRequired = TRUE
    PullProcs = {p1, p2}
    Staff = {s1}
    PullLeased = TRUE
    PullAttempts = 2
    MaxChanges = 2
    PullBudgets <- MCPullBudgets
SPECIFICATION Spec
INVARIANTS
    EveryDispatchAccounted
    OneCallPerLineage
    AnsweredSyncKept
    DeprovisionHolds
    ProvisionedWasApproved
    
PROPERTIES
    DueSettles
    PullSettles
CHECK_DEADLOCK FALSE
