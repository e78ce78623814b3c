SPECIFICATION FairSpec
CONSTANTS
  Top = 4
  Maps <- MCMaps
  Counts = {1, 2}
  MaxInits = 2
INVARIANTS
  TypeOK
  FindExact
  
PROPERTY Terminates
