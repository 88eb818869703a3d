CONSTANTS
  NumRanks = 2
  SMs = {sm0}
  Inflight = 2
  NvlPairs <- OneWayNvl
  BarrierWith <- AllRanks
  MaxMsgs = 3
  MaxConfigs = 2
SPECIFICATION MixedSpec
INVARIANTS ViewIntact
CHECK_DEADLOCK FALSE
