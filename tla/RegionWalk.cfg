SPECIFICATION Spec
CONSTANTS
  Page = 4
  MaxHeaderChunk = 3
  VsHeader = 1
  MaxStalls = 2
  ReadChunk = 4
  TraversalLimit = 3
  Walks <- AllWalks
CHECK_DEADLOCK FALSE
INVARIANTS
  RegionsExact
  WalkAccounts
PROPERTIES
  WalkEnds
