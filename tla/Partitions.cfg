SPECIFICATION Spec
CONSTANTS
  t1 = t1
  t2 = t2
  x1 = x1
  u1 = u1
  u2 = u2
  j1 = j1
  Traces = {t1, t2}
  Policies = {x1}
  Upkeepers = {u1, u2}
  Janitors = {j1}
  Ahead = 0
  Hot = 0
  Keep = 0
  MaxTime = 2
  MaxLoad = 2
SYMMETRY Symmetry
INVARIANTS
  HotTracesKeepTheirPayload
  RetentionIsComplete
  PartitionsAreScoped
PROPERTIES
  TracesStay
  PoliciesSurvive
CHECK_DEADLOCK FALSE
