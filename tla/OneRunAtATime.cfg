CONSTANTS
  Jobs = {j1}
  Keys = {k1}
  NoKey = NoKey
  Ticks = {t1, t2}
  None = None
  MaxAttempts = 2
  JobsPerTick = 1
  MaxFaults = 1
SPECIFICATION Spec
INVARIANTS OneRunAtATime
CHECK_DEADLOCK FALSE
