CONSTANTS
  CSIZE = 3
  Rules = {1, 2}
  RuleFiles <- MCRuleFiles
  CaseTwin <- MCCaseTwin
  Newlines = {2}
  LongestWord = 4
  Reduced <- MCReduced
SPECIFICATION SpecReduce
INVARIANTS
  CopiesAreDetermined
  NothingDeletedIsInUse
  PointersMeet
  RecognizesTheFile
  SubsetsAreOld
