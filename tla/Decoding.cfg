SPECIFICATION Spec
CONSTANTS
  Texts <- MCTexts
  TopAddress = 3
  Gone = 9
  MaxLines = 3
  Encodings <- MCEncodings
  High = 6
  Low = 4
  PointerBits = 30
  Fetches <- MCFetches
CHECK_DEADLOCK FALSE
INVARIANTS
  
  
  A64Exact
