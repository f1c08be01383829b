SPECIFICATION FairSpec
CONSTANTS
  k1 = k1
  c1 = c1
  a1 = a1
  a2 = a2
  Keys = {k1}
  Agents = {a1, a2}
  Writers = {a1, a2}
  Reporters = {a2}
  Sweepers = {a2}
  Claims = {c1}
  MaxVersion = 3
  MaxCrashes = 0
  NoFile = NoFile
  NoAgent = NoAgent
PROPERTIES
  EveryOperationReturns
  KeyComesBack
  ImplementsVersionedStore
