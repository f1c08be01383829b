SPECIFICATION Spec
CONSTANTS
  k1 = k1
  c1 = c1
  c2 = c2
  p1 = p1
  p2 = p2
  b1 = b1
  main = main
  Keys = {k1}
  Claims = {c1, c2}
  Main = main
  Branches = {b1}
  Clients = {p1, p2}
  Tenanted = TRUE
  Strategies <- MCStrategies
  MaxRows = 3
  MaxClock = 1
SYMMETRY Symmetry
INVARIANTS
  MainDense
  CreditIsEarned
PROPERTIES
  WriteIsRead
  ReadWritesExtend
CHECK_DEADLOCK FALSE
