CONSTANTS
  Objects <- MCObjects
  KindOf <- MCKindOf
  OwnerRef <- MCOwnerRef
  Nil = Nil
  rollupMaxDepth = 6
  Disturbances = {"outage", "object"}
  MaxDisturbances = 2
SPECIFICATION Spec
CHECK_DEADLOCK FALSE
INVARIANT
  SuppressionIsStable
