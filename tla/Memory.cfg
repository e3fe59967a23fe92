CONSTANTS
  CSIZE = 4
  Rules = {1, 2}
  Tasks <- MCTasks
  BYTE = 2
  PER_WORD = 1
  MAX_INPUTS = 2
  Lists <- MCLists
  NIBBLE = 3
  MAX_STATES_NUMBER = 11
  MAX_BIG_SATES_NUMBER = 3
  BRAM_NUM_SINGLE_UNIT = 2
  UNIT_NUMBER = 3
SPECIFICATION SpecEither
INVARIANTS
  AccessesStayInTheBlock
  MissesAreFirstReadsOrEvictions
  MemoryTraversalReportsTheRules
  ReducedIsMinimal
  FpgaReportsTheRules
CHECK_DEADLOCK FALSE
