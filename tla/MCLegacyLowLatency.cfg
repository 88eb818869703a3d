CONSTANT Setups <- AllSetups
SPECIFICATION FairSpec
INVARIANTS TypeOK DispatchExact CombineExact SignalsMeetZero
PROPERTIES CallsEnd
CHECK_DEADLOCK FALSE
