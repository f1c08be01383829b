SPECIFICATION Spec
CONSTANTS
  a1 = a1
  s1 = s1
  s2 = s2
  Size = 3
  Agents = {a1}
  Hash <- MCHash
  Sides = {s1, s2}
  Declared = TRUE
  Budget = 2
  PlanMax = 5
  MaxRows = 5
  MaxTurns = 1
SYMMETRY Symmetry
INVARIANTS
  RelearnsQuickly
  FixIsServed
  NeverHandsOffTheFix
  NoRepeatOfMiss
CHECK_DEADLOCK FALSE
