SPECIFICATION MCSpec
CONSTANTS
  Passes = {p1, p2}
  Stock = {p1}
  Jobs = {j1, j2}
  Lone = {j1}
  Workers = {w1}
  Cards = {c1}
  Tasks = {t1, t2}
  MaxRetry = 1
  Limit = 1
  MaxOps = 3
  MaxFaults = 1
INVARIANTS StoredRevokedFinal SuccessHasOwnPass
PROPERTY ProcessingEnds
CHECK_DEADLOCK FALSE
