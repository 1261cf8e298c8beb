SPECIFICATION FairSpec
CONSTANTS
  MaxOps = 2
  Kinds = {"command", "reload", "run", "attach"}
  CallbackKinds = {}
PROPERTIES
  BoundedOperationEnds
