CONSTANTS
  NumRanks = 2
  SMs = {sm0}
  Inflight = 1
  NvlPairs <- OneWayNvl
  BarrierWith <- AllRanks
  MaxMsgs = 2
  MaxConfigs = 1
  Traffic <- BothWays
  MaxInTransit = 1
SPECIFICATION ScheduleSpec
PROPERTIES StreamsDrain
CHECK_DEADLOCK FALSE
