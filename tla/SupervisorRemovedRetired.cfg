\* Two generations of the CRD.
CONSTANTS
  Kinds = {lws}
  MaxUid = 2
  MaxEdits = 0
  MaxLag = 0
  MaxErrors = 0
  MaxFlips = 0
  MaxFaults = 0
  MaxWrites = 0
  MaxDisturbances = 0
SPECIFICATION Spec
CHECK_DEADLOCK FALSE
INVARIANT
  RemovedIsRetired
