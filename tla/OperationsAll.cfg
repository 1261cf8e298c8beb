SPECIFICATION Spec
CONSTANTS
  MaxOps = 2
  Kinds = {"command", "resolve", "reload", "chunked", "run", "settle", "runto", "wait", "open", "attach", "announce"}
  CallbackKinds = {"command", "resolve", "reload", "chunked", "run", "settle", "runto", "wait", "open", "attach", "announce"}
INVARIANTS
  RequestKept
  ReportsHonest
  NextStartsClean
PROPERTIES
  WatchdogsAsPromised
