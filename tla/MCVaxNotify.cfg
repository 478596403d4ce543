SPECIFICATION FairSpec
CONSTANTS
  Pid <- TwoPids
  MaxTicks = 2
  MaxStarts = 2
  Faults <- AllFaults
INVARIANT FrameFresh
PROPERTIES FramesForward SignalAnswered
CHECK_DEADLOCK FALSE
