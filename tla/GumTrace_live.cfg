SPECIFICATION FairSpec
CONSTANTS
  BUFFER_SIZE = 4
  MARGIN = 2
  REG_LIST_SIZE = 2
  Insns <- MCFewInsns
  Modes <- MCModes
  FlushLimit <- MCFlushLimit
  REMOTE = FALSE
  RACY = TRUE
  OpenResults = {TRUE, FALSE}
  MaxInsns = 2
  MaxSessions = 2
CHECK_DEADLOCK FALSE
PROPERTIES
  StreamReachesDisk
  FlushersStop
