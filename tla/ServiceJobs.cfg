CONSTANTS
  NRoutes = 2
  BuiltIn = {2}
  Workers = {w1, w2}
  MaxHandoffs = 1
  MaxErrors = 2
  FallThroughs = 1
  MaxNews = 1
  MaxFaults = 1
  Kinds <- Either
  Approvers = {a1, a2}
  Windows = {v1, v2}
  Grants = {g1, g2}
  Share = share
  MaxAsks = 1
SPECIFICATION AllSpec
INVARIANTS TypeOK  OwnAnswer RemoteIsItsOwn OneMachineActs
  AnswerIsTrue DraftHandedOutOnce
PROPERTIES EndStays
SYMMETRY Interchangeable
CHECK_DEADLOCK FALSE
