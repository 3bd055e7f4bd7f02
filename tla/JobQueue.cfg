CONSTANTS
  Jobs = {j1, j2}
  Keys = {k1}
  NoKey = NoKey
  Ticks = {t1, t2}
  None = None
  MaxAttempts = 2
  JobsPerTick = 2
  MaxFaults = 1
SPECIFICATION FairSpec
INVARIANTS TypeOK OneUnfinishedPerKey EndsAreEarned PromptRunsAlone
PROPERTIES SettledStays EveryJobSettles
CHECK_DEADLOCK FALSE
