CONSTANTS
  CSIZE = 3
  Rules = {1, 2}
  NfaStates = {0, 1, 2}
  Root = 0
  Nfas <- MCNfas
  MAX_DFA_SIZE = 4
  LongestWord = 4
SPECIFICATION Spec
INVARIANTS
  QueuesInStep
  TransitionsFollowMoves
  SameRulesOnShortWords
  NullIffTooLarge
PROPERTIES
  Returns
  BuildsPowerset
CHECK_DEADLOCK FALSE
