CONSTANTS
  CSIZE = 5
  Rules = {1, 2}
  Dfas <- MCDfas
  Kinds <- MCKinds
  MANY_RANGES = 1
  CHAR_BIRMAP_SIZE = 1
  FIRST_NEGATIVE = 3
  MAX_INPUTS = 3
SPECIFICATION Spec
INVARIANTS
  LookupsAnswerTheTable
  SizeIsWhatIsUsed
CHECK_DEADLOCK FALSE
