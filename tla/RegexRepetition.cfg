CONSTANTS
  CSIZE = 3
  Rules = {1, 2}
  RuleFiles <- SkippedLoops
  CaseTwin <- MCCaseTwin
  Newlines = {2}
  LongestWord = 4
  Reduced = {}
SPECIFICATION SpecReduce
INVARIANTS
  RecognizesTheFile
