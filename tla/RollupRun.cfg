CONSTANTS
  Objects <- MCObjects
  KindOf <- MCKindOf
  OwnerRef <- MCOwnerRef
  Nil = Nil
  rollupMaxDepth = 6
  Disturbances = {"swap", "crd", "outage", "object", "fanout"}
  MaxDisturbances = 2
SPECIFICATION FairSpec
CHECK_DEADLOCK FALSE
INVARIANTS
  RollupTypeOK
  NothingDisappears
  OneWorkloadOneDocument
  DocumentsFollowPods
PROPERTY
  ComesToRest
