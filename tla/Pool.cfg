SPECIFICATION Spec
CONSTANTS
  Limit = 4
  Targets <- AllTargets
  PoolHeader = 1
  VsHeader = 1
  Page = 16
  Walks <- AllWalks
  Digit = 2
  Floor = 4
  TablePage = 4
  HostFold <- MCHostFold
  FoldTargets <- MCFoldTargets
  Kernels <- MCKernels
  Paths <- MCPaths
  Folded <- MCFolded
  MAX_ENTRIES = 3
  MAX_COMPONENTS = 3
  MAX_NAME_BYTES = 4
  MAX_TARGET_BYTES = 4
CHECK_DEADLOCK FALSE
INVARIANTS
  
  
  SourceHonest
  NamespaceHonest
PROPERTIES
  WalksEnd
