SPECIFICATION FairSpec
CONSTANTS
  d1 = d1
  d2 = d2
  h1 = h1
  h2 = h2
  Deliveries = {d1, d2}
  Handlers = {h1, h2}
  MaxWorkers = 1
  SeenBound = 2
  MaxRuns = 1
  RunnersExit = TRUE
  NoRun = NoRun
PROPERTIES
  SubmittedFinishes
  MemoryIsClosed
CHECK_DEADLOCK FALSE
