CONSTANTS
  Objects <- GraphObjects
  KindOf <- GraphKindOf
  OwnerRef <- GraphOwnerRef
  Nil = Nil
  rollupMaxDepth = 6
  Disturbances = {"outage"}
  MaxDisturbances = 2
SPECIFICATION Spec
CHECK_DEADLOCK FALSE
INVARIANT
  DocumentsAreComplete
