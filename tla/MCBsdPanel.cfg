SPECIFICATION Spec
CONSTANTS
  Client <- TwoClients
  Nobody = "nobody"
  NWords = 2
  MaxTicks = 3
  Window = 1
  Faults <- AllFaults
INVARIANTS SleepsBriefly FrameOrdered
PROPERTIES TicksServed
CHECK_DEADLOCK FALSE
