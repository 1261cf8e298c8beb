SPECIFICATION Spec
CONSTANTS
  Pids = {p1, p2}
  MaxOpens = 2
  Opens = {"Attached", "Launched"}
  PidReuse = TRUE
  Overlap = FALSE
  PruneMayFail = FALSE
  EndMayFail = TRUE
SYMMETRY PidSymmetry
CHECK_DEADLOCK FALSE

  
  
PROPERTIES
  LaunchesInOrder
  StopsRouted
