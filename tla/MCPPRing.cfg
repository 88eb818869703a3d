CONSTANTS
  NumRanks = 3
  SMs = {sm0, sm1}
  Inflight = 2
  NvlPairs <- OneWayNvl
  BarrierWith <- AllRanks
  MaxMsgs = 3
  MaxConfigs = 1
SPECIFICATION Spec
CONSTRAINT OnTraffic
INVARIANTS TypeOK CopyExact ViewIntact StagingIntact
PROPERTIES ImplementsChannel
CHECK_DEADLOCK FALSE
