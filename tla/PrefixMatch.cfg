CONSTANTS
  CSIZE = 2
  Rules = {1}
  LongestPacket = 5
  Simplest = {TRUE, FALSE}
  Chains = {"none", "b", "xba", "a+.*bxa"}
  Compiled <- MCCompiled
  Packets <- MCPackets
  GivenRules <- MCRules
SPECIFICATION SpecEither
INVARIANTS
  EntriesAreLiveCuts
  MatchedIffCut
  CutAsPromised
CHECK_DEADLOCK FALSE
