CONSTANTS
  NumRanks = 2
  NumExpertsPerRank = 2
  NumTopk = 2
  NumMaxTokensPerRank = 2
  NumSMs = 2
  ExpertAlignment = 2
  Setups <- AllSetups
SPECIFICATION FairSpec
INVARIANTS TypeOK DispatchExact CachedKeepsOrder CombineExact CountsExact PutsOwned WordsClean
PROPERTIES ProgramEnds
CHECK_DEADLOCK FALSE
