SPECIFICATION Spec
CONSTANTS
  CallIds = {a, b}
  FunctionNames = {f}
  Forms = {"none", "text", "parts"}
  MaxCalls = 2
  MaxListSize = 3
  NULL = NULL
CHECK_DEADLOCK FALSE
INVARIANTS
  ConsecutiveTextsMerge
