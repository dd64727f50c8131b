SPECIFICATION Spec
CONSTANTS
  N = 3
  MaxChunks = 2
  NULL = NULL
  Schemas <- MCSchemas
  Features <- MCFeatures
  Requests <- MCRequests
CHECK_DEADLOCK FALSE
INVARIANTS
  OneEnd
  FinalCompletesItsChunks
  AttemptsInOrder
  EveryModelFits
PROPERTIES
  Closed
