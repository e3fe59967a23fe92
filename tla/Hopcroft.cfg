CONSTANTS
  CSIZE = 2
  Rules = {1, 2}
  ExhaustiveSize = 3
  Dfas <- MCDfas
  Renumbered <- MCRenumbered
  Inputs <- MCInputs
SPECIFICATION SpecPfac
INVARIANTS
  NoEmptyBlocks
  DisagreementIsPending
  ResultIsMinimal
  MatchesAreCounted
PROPERTIES
  Terminates
CHECK_DEADLOCK FALSE
