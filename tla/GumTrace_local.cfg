SPECIFICATION Spec
CONSTANTS
  BUFFER_SIZE = 4
  MARGIN = 2
  REG_LIST_SIZE = 2
  Insns <- MCInsns
  Modes <- MCModes
  FlushLimit <- MCFlushLimit
  REMOTE = FALSE
  RACY = FALSE
  OpenResults = {TRUE}
  MaxInsns = 4
  MaxSessions = 2
CHECK_DEADLOCK FALSE
INVARIANTS
  TypeOK
  LogIsExecution
  StaleOnlyAtHead
  PendingIsLast
  MemoryBounds
  BoundedLag
  UnrunSavesLines
PROPERTIES
  ImplementsTraceLog
