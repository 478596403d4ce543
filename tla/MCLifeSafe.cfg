SPECIFICATION FairSpec
CONSTANTS
  p1 = p1
  p2 = p2
  Proxy <- OneProxy
  Web = web
  MaxSignals = 3
  Faults <- AllFaults
CHECK_DEADLOCK FALSE
INVARIANTS UdpWithinRun RegistryOutlivesHandlers ExitAfterServers
PROPERTY SigintEnds
