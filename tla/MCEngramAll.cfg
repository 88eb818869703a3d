CONSTANTS
  NumScaleout = 2
  NumScaleup = 2
  MaxBarriers = 4
  MaxWrites = 2
  Hybrid = TRUE
  Fetchers = {0}
SPECIFICATION Spec
INVARIANTS FetchExact
CHECK_DEADLOCK FALSE
