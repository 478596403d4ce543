SPECIFICATION Spec
CONSTANTS
  Funs <- TwoFuns
  Cancelled <- OneFun
  NCall = 3
  MaxT = 3
  MaxLate = 2
INVARIANTS PromptAtBase
PROPERTIES EventsAnswered QueueSpec
CHECK_DEADLOCK FALSE
