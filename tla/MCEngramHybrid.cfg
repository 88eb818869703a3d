CONSTANTS
  NumScaleout = 2
  NumScaleup = 2
  MaxBarriers = 4
  MaxWrites = 2
  Hybrid = TRUE
  Fetchers = {0}
SPECIFICATION FairSpec
INVARIANTS TypeOK TwoBarriersReachAll PartnerFetchExact
PROPERTIES ImplementsPartnerBarrier WritesReturn
CHECK_DEADLOCK FALSE
