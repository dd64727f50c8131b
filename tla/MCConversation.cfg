SPECIFICATION Spec
CONSTANTS
  CallIds = {a, b}
  FunctionNames = {f, g}
  Forms = {"none", "empty", "text", "parts"}
  MaxCalls = 2
  MaxListSize = 5
  NULL = NULL
SYMMETRY Symmetry
CONSTRAINT Hopeful
CHECK_DEADLOCK FALSE
INVARIANTS
  AcceptsWellFormed
  ToolRoundAccepted
  LeavesOutExactly
  ResultsNameTheirCalls
  FallbackSendsAll
  ConfigsSent
  MergeKeepsAll
  MergedTextAlternates
