SPECIFICATION FairSpec
CONSTANTS
  MaxProcessors = 6
  MaxBreakpoints = 2
  MaxUnlucky = 4
CHECK_DEADLOCK FALSE

  
PROPERTIES
  TeardownEnds
