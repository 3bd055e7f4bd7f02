CONSTANTS
  Changes = {c1, c2}
  ByWriter = {c2}
  MaxWrite = 1
  MaxFaults = 2
  NRoutes = 2
  BuiltIn = {2}
  Workers = {w1}
  MaxHandoffs = 1
  MaxErrors = 1
  FallThroughs = 1
  MaxNews = 1
  JobFaults = 1
SPECIFICATION AllSpec
INVARIANTS LeftIsFound
PROPERTIES LineArrives LinesAreDelivered WatchedJobEnds
CHECK_DEADLOCK FALSE
