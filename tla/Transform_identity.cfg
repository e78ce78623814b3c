SPECIFICATION Spec
CONSTANTS
  CALLBACK_CTX_SIZE = 2
  Addrs <- MCAddrs
  ModuleOf <- MCModuleOf
  Exclusive <- MCExclusive
  SystemModules <- MCSystemModules
  NameOrder <- MCNameOrder
  Requests <- MCRequests
  ANDROID = FALSE
  MaxPulls = 4
  MaxSessions = 1
CHECK_DEADLOCK FALSE
INVARIANTS
  CalloutIdentity
