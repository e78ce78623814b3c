SPECIFICATION Spec
CONSTANTS
  Regs <- MCRegs
  normalize <- MCnormalize
  REG_XZR <- XZR
  REG_NZCV <- NZCV
  REG_INVALID = REG_INVALID
  Addrs <- MCAddrs
  None = None
  Texts <- MCTexts
  Insns <- MCInsns
CHECK_DEADLOCK FALSE
INVARIANTS
  TypeOK
  ParsedWellFormed
  FlowExact
