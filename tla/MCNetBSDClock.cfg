SPECIFICATION Spec
CONSTANTS
  Cpu <- TwoCpus
  Primary = "cpu0"
  Proc <- TwoProcs
  hz = 1
  stathz = 2
  profhz = 4
  NWords = 2
  MaxTicks = 2
  MaxChanges = 3
INVARIANTS ProfilersCounted RateAgrees FrameOrdered
CHECK_DEADLOCK FALSE
