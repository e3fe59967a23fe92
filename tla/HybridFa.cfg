CONSTANTS
  CSIZE = 2
  Rules = {1, 2}
  Tasks <- MCTasks
  SPECIAL_DEPTH = 2
  SPECIAL_MIN_DEPTH = 1
  MAX_TX = 2
  MAX_HEAD = 3
  NUM_LIMIT = 16
SPECIFICATION Spec
INVARIANTS
  ReportsTheRules
  SearchFollowsTheAutomaton
CHECK_DEADLOCK FALSE
