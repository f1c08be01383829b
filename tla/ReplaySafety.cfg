SPECIFICATION Spec
CONSTANTS
  d1 = d1
  d2 = d2
  h1 = h1
  h2 = h2
  Deliveries = {d1, d2}
  Handlers = {h1, h2}
  MaxWorkers = 2
  SeenBound = 2
  MaxRuns = 2
  RunnersExit = TRUE
  NoRun = NoRun
SYMMETRY Symmetry
INVARIANTS
  MemoryClosedOnce
  CommitFollowsHandOff
  OneRunWhileRemembered
  InflightCounts
CHECK_DEADLOCK FALSE
