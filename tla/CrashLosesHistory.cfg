SPECIFICATION Spec
CONSTANTS
  k1 = k1
  c1 = c1
  c2 = c2
  a1 = a1
  Keys = {k1}
  Agents = {a1}
  Writers = {a1}
  Reporters = {}
  Sweepers = {}
  Claims = {c1, c2}
  MaxVersion = 3
  MaxCrashes = 1
  NoFile = NoFile
  NoAgent = NoAgent
PROPERTIES
  NothingIsLost
