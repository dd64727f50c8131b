SPECIFICATION Spec
CONSTANTS
  N = 3
  MaxTexts = 5
  MaxSize = 3
  MaxParallel = 2
  NULL = NULL
CHECK_DEADLOCK FALSE
INVARIANTS
  AnswerIsWhole
  EachTurnIsOwn
PROPERTIES
  Answered
