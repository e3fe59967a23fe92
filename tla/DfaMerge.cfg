CONSTANTS
  CSIZE = 3
  Rules = {1, 2}
  TailNfas = {"n1", "n2"}
  KMAX = 3
  Merges <- MCMerges
  LongestWord = 4
SPECIFICATION Spec
INVARIANTS
  TuplesFollowComponents
  ReportsEveryRuleOfShortWords
  InheritsEveryBorderOnShortWords
  DeadStateStaysDead
CHECK_DEADLOCK FALSE
