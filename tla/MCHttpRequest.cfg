SPECIFICATION HttpSpec
CONSTANTS
  Scripts <- McScripts
  Found <- Rule
  Timeout = 1
  MaxId = 2
  MaxCutId = 3
INVARIANTS AnswersInOrder AllAnswered Guarded
PROPERTIES OnlyStaleIdsRob Ends
CHECK_DEADLOCK FALSE
