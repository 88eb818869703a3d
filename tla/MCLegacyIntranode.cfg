CONSTANTS
  NumRanks = 2
  NumExpertsPerRank = 2
  NumCombineWarps = 2
  ExpertAlignment = 2
  Setups <- AllPrograms
SPECIFICATION FairSpec
INVARIANTS TypeOK DispatchExact CombineExact
PROPERTIES BarrierSpec CallsEnd
CHECK_DEADLOCK FALSE
