CONSTANTS
  CSIZE = 3
  Rules = {1}
  Dfas <- MCDfas
  Ks <- MCKs
  Bounds <- MCBounds
  Garbage <- MCGarbage
  MAX_INPUTS = 2
  Diameters = {2}
  DECREMENT = 1
  MAX_FOREST = 4
SPECIFICATION SpecD2fa
INVARIANTS
  FollowsWholeDfa
  AmortizedTraversals
  BoundOnPaths
  ImportRestoresExport
  ForestAgreesWithPartition
PROPERTIES
  LookupAnswers
CHECK_DEADLOCK FALSE
