SPECIFICATION Spec
CONSTANTS
  States <- McStates
  MaxPackets = 4
  maxQueue = 5
INVARIANTS LampsFollow LabelTruthful
PROPERTY CatchesUp
CHECK_DEADLOCK FALSE
