SPECIFICATION StreamSpec
CONSTANTS
  NULL = NULL
  MaxWords = 3
  MaxCalls = 3
CHECK_DEADLOCK FALSE
INVARIANTS
  ChunksMakeTheText
  FinishedIsWhole
  StreamIsPlain
  PlainIsWhole
