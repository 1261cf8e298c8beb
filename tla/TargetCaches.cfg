SPECIFICATION Spec
CONSTANTS
  Clients = {c1, c2}
  MAX_REMEMBERED_CLIENTS = 1
  TargetMayLeave = TRUE
  Uses = {"query", "scope"}
  MaxStamp = 4
  MaxGeneration = 2
  MaxIdentity = 3
SYMMETRY ClientSymmetry
CHECK_DEADLOCK FALSE
INVARIANTS
  CacheHonest
  EndedScopeRefused
