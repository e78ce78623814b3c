SPECIFICATION MCSpec
CONSTANTS
  CHUNK = 4
  MaxLines = 4
  Sizes <- MCSizes
  RelAddrs = {"r0", "r1"}
  None = None
CHECK_DEADLOCK FALSE
INVARIANTS
  TypeOK
  LoadedInPlace
  SearchExact
  StartIsAsked
PROPERTIES
  Terminates
