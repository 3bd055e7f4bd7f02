CONSTANTS
  Requests = {r1, r2, r3}
  Others = {}
  MaxFaults = 1
SPECIFICATION Spec
INVARIANTS RunningIsWaitedFor
CHECK_DEADLOCK FALSE
