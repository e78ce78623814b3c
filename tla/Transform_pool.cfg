SPECIFICATION Spec
CONSTANTS
  CALLBACK_CTX_SIZE = 3
  Addrs <- MCAddrs
  ModuleOf <- MCModuleOf
  Exclusive <- MCExclusive
  SystemModules <- MCSystemModules
  NameOrder <- MCNameOrder
  Requests <- MCRequests
  ANDROID = TRUE
  MaxPulls = 7
  MaxSessions = 2
CHECK_DEADLOCK FALSE
INVARIANTS
  TypeOK
  RecentContextsIntact
  SystemExcluded
