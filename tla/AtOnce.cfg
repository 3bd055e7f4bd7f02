CONSTANTS
  Requests = {r1, r2, r3, o1}
  Others = {o1}
  MaxFaults = 1
  Loads = {l1, l2, l3}
  Drops = 3
  Calls = {a1, a2, a3, a4}
  Callers = {s1, s2, s3, s4}
  Limits = {1, 2}
SPECIFICATION AllSpec
INVARIANTS RetryNeverDoubles AnsweredByItsWrite InvalidationStands
  MissesAreShared SeenByItsRun OneRunPerKey GateHolds
PROPERTIES EveryCallReturns EveryWaiterPasses
CHECK_DEADLOCK FALSE
