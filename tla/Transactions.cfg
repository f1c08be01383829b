SPECIFICATION Spec
CONSTANTS
  a1 = a1
  a2 = a2
  Agents = {a1, a2}
  Keys <- MCKeys
  Minted <- MCMinted
  Buffers <- MCBuffers
  MaxCrashes = 1
  NoFile = NoFile
  NoAgent = NoAgent
  NoCommit = NoCommit
SYMMETRY AgentSymmetry
INVARIANTS
  NoCircularWait
  AllOrNothing
  BatchesSerialise
  SavedIsWhole
  CommonAncestorIsLatest
CHECK_DEADLOCK FALSE
