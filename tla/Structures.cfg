SPECIFICATION Spec
CONSTANTS
  Limit = 2
  Memories <- AllMemories
  Count = 4
  Batch = 3
  Addresses = {"a", "b", "c"}
  Tags = {1, 2}
  Hash <- Collisions
  Field = 3
  MinBlock = 2
  HalfWord = 2
  Byte = 1
  PageBytes = 16
  Engines = {1, 2}
  Images = {"a", "b"}
  Worlds <- MCWorlds
  Processes <- MCProcesses
  MAX_PROCESS_HEAPS = 4
  Selectors = {14, 20}
  Snapshots <- MCSnapshots
  HeapAddresses = {0, 1, 2, 3, 4, 5, 6}
  Space = 32
  Headers <- MCHeaders
  Bases = {0, 20, 24}
  HeaderPage = 2
  MAX_SECTIONS = 3
  Tables <- MCTables
  RvaSpace = 64
  Flag = 128
  Ordinals = 16
  Hint = 1
  NAME_READ_GRANULE = 2
  MAX_NAME = 4
  MAX_LIBRARIES = 2
  MAX_IMPORTS_PER_LIBRARY = 3
  MAX_IMPORTS_TOTAL = 4
  MAX_EXPORTS = 3
  Asked <- MCAsked
CHECK_DEADLOCK FALSE
INVARIANTS
  WalkIsTheTree
  LookupExact
  DecodeExact
  LayoutsHonest
  HeapAnswersExact
  ImageBounds
  
