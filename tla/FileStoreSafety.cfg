SPECIFICATION Spec
CONSTANTS
  k1 = k1
  c1 = c1
  c2 = c2
  a1 = a1
  a2 = a2
  Keys = {k1}
  Agents = {a1, a2}
  Writers = {a1}
  Reporters = {a1, a2}
  Sweepers = {a2}
  Claims = {c1, c2}
  MaxVersion = 3
  MaxCrashes = 1
  NoFile = NoFile
  NoAgent = NoAgent
SYMMETRY ClaimSymmetry
INVARIANTS
  OneCurrent
  HistoryDense
  ReadWritesExtend
  CreditIsEarned
PROPERTIES
  HistoryImmutable
