SPECIFICATION Spec
CONSTANTS
  Client <- TwoClients
  Other <- OneOther
  None = "none"
  NWords = 2
  MaxCaptures = 3
INVARIANTS OneCapture SafeUnload
PROPERTIES ReadsEnd FramesCome
CHECK_DEADLOCK FALSE
