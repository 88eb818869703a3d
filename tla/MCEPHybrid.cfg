CONSTANTS
  NumExpertsPerRank = 2
  NumTopk = 2
  NumMaxTokensPerRank = 3
  UpdateInterval = 2
  ExpertAlignment = 2
  Setups <- AllSetups
SPECIFICATION FairSpec
INVARIANTS TypeOK DispatchExact CombineExact
PROPERTIES ProgramEnds
CHECK_DEADLOCK FALSE
