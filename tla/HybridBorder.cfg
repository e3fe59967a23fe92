CONSTANTS
  CSIZE = 2
  Rules = {1, 2}
  Tasks <- ListTasks
  SPECIAL_DEPTH = 2
  SPECIAL_MIN_DEPTH = 1
  MAX_TX = 2
  MAX_HEAD = 50
  NUM_LIMIT = 16
SPECIFICATION Spec
INVARIANTS
  ListReportsTheRules
CHECK_DEADLOCK FALSE
