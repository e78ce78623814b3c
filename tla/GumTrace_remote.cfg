SPECIFICATION Spec
CONSTANTS
  BUFFER_SIZE = 4
  MARGIN = 2
  REG_LIST_SIZE = 2
  Insns <- MCFewInsns
  Modes <- MCModes
  FlushLimit <- MCFlushLimit
  REMOTE = TRUE
  RACY = FALSE
  OpenResults = {TRUE}
  MaxInsns = 3
  MaxSessions = 2
CHECK_DEADLOCK FALSE
INVARIANTS
  TracingLogIsExecution
  MemoryBounds
