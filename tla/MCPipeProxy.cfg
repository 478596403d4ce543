SPECIFICATION PipeSpec
CONSTANTS
  Crews <- Pairs
  Hosts <- AllHosts
  MaxStates = 1
  ToolCounts <- AnyCount
  ToolFlags <- AnyFlags
  BareCounts <- AnyBareCount
  BareFlags <- AnyBareFlags
INVARIANT ProxyFaithful
CHECK_DEADLOCK FALSE
