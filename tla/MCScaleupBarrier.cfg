CONSTANTS
  NumRanks = 2
  FlushStores = TRUE
  MaxBarriers = 6
SPECIFICATION FairSpec
INVARIANTS PutsVisible
PROPERTIES ImplementsBarrier NobodyStuck
CHECK_DEADLOCK FALSE
