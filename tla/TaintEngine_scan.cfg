SPECIFICATION Spec
CONSTANTS
  Regs <- MCRegs
  normalize <- MCnormalize
  REG_XZR = "xzr"
  REG_NZCV = "nzcv"
  Addrs <- MCAddrs
  None = None
  Lines <- MCLines
  TraceLength = 3
  max_scan_distance = 2
CHECK_DEADLOCK FALSE
INVARIANTS
  TypeOK
  ReportsAreCurrent
  StopReasonTrue
  ResultsInOrder
PROPERTIES
  ImplementsDataFlow
