CONSTANTS
  p1 = p1
  p2 = p2
  c1 = c1
  c2 = c2
  c3 = c3
  Procs = {p1, p2}
  Callers = {c1, c2, c3}
  Of <- TwoInOne
  Names = {n1, n2}
  Sessions = {s1, s2, s3}
  None = None
  MaxFaults = 1
SPECIFICATION FairSpec
INVARIANTS TypeOK CalmNotConcurrent LocalNotConcurrent NoLockLeftBehind
PROPERTIES ImplementsTryLock EveryNameComesFree
CHECK_DEADLOCK FALSE
