SPECIFICATION Spec
CONSTANTS
  Specs <- MCSpecs
  ValueOf <- MCValueOf
  RunTo = {4}
  MaxHeld = 3
  MaxRefusals = 1
  Memories <- MCMemories
  Regions <- MCRegions
  ReadAddresses = {0, 2, 3, 5, 11, 14}
  ReadSizes = {0, 1, 3, 4, 6, 9, 13}
  Top = 16
  MaxRead = 12
  READ_CHUNK_BYTES = 4
  PREFIX <- MCPREFIX
  Newline = "n"
  Other = "x"
  MaxPrinted = 4
  MaxAttachFaults = 2
  Debuggees <- MCDebuggees
  MaxLookupFaults = 2
  EPROCESS_IMAGE_NAME_LEN = 3
  MaxAuditName = 12
  MAX_FIELDS = 2
  TraceEnd = 4
  Ip <- MCIpAt
  ThreadAt <- MCThreadAt
  Stops = {3}
  RunAddress = 2
  MaxReplayFaults = 3
  ModuleTables <- MCModuleTables
  ModuleAddresses = {0, 1, 2, 3, 6, 8, 9}
  MaxModuleFaults = 2
  Dumps <- MCDumps
  STORED_CONTEXT_SIZES <- MCLadder
  RecordSize = 3
  MaxParameters = 2
  MaxEventFaults = 1
  MaxMoves = 1
CHECK_DEADLOCK FALSE
INVARIANTS
  BreakpointsSound
  ReadsExact
  
  QueriesSound
  
  ReplayHonest
  
