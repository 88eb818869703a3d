CONSTANTS
  NumRanks = 2
  PerSession = 2
  Gathers <- TwoNoneOne
SPECIFICATION FairSpec
INVARIANTS TypeOK GatheredExact NoSignalAhead
PROPERTIES ProgramEnds
CHECK_DEADLOCK FALSE
