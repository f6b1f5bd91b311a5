SPECIFICATION Spec
CONSTANTS
  Users = {u1}
  DemoUsers = {u1}
  Keys = {k1, k2}
  Pairs = {p1, p2}
  Nobody = nobody
  Threads = {t1, t2}
  AdminMFARequired = TRUE
  MaxGen = 3
  MaxOps = 3
  MaxFaults = 1
SYMMETRY Symmetry
INVARIANTS RecoveryCodeOnce
PROPERTIES EndedOnlyByReader 
CHECK_DEADLOCK FALSE
