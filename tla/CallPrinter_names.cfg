SPECIFICATION Spec
CONSTANTS
  ARGS = 3
  ZERO = ZERO
  Env = Env
  None = None
  h = h
  A = A
  B = B
  m = m
  idA = idA
  idB = idB
  Words <- MCWords
  Classes = {A, B}
  Methods = {m}
  Handles = {h}
  Ids = {idA, idB}
  NameOf <- MCNameOf
  MethodsOf <- MCMethodsOf
  Svcs = {ZERO}
  Funcs = {"strlen", "syscall"}
  ArgLists <- MCArgLists
  JniArgLists <- MCJniArgLists
  Values <- MCValues
  MaxCalls = 4
INVARIANTS
  TypeOK
  RecordsPaired
  RecordTrue
  TablesTrue
  NamesTrue
