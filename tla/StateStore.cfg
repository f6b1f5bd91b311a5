\* Two processes, two keys with tables of their own; a save has two batches of one change.
CONSTANTS
    p1 = p1
    p2 = p2
    A = A
    B = B
    StoreProcs = {p1, p2}
    StateKeys = {"tenant", "space"}
    Contents = {A, B}
    ReplayLimit = 1
    ReplayBatches = 2
    MaxChanges = 4
    MaxManual = 1
    MaxStoreFaults = 2
    MaxStoreOps = 4
SPECIFICATION StoreSpec
SYMMETRY StoreSymmetry
INVARIANTS
    SwapReplacesWhatItRead
    ProjectionFollows
\* The bound on changes stops the system.
CHECK_DEADLOCK FALSE
