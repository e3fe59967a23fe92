CONSTANTS
  Given = {1, 2, 3, 4, 5, 6, 7}
  k = 2
SPECIFICATION HmSpec
INVARIANTS
  EveryRuleInOnePlace
PROPERTIES
  Terminates
CHECK_DEADLOCK FALSE
