\* One generation that is edited twice and an AIBOM write; a change of the allowlist or a
\* fault.
CONSTANTS
  Kinds = {lws}
  MaxUid = 1
  MaxEdits = 2
  MaxLag = 0
  MaxErrors = 0
  MaxFlips = 1
  MaxFaults = 1
  MaxWrites = 1
  MaxDisturbances = 1
SPECIFICATION Spec
CHECK_DEADLOCK FALSE
INVARIANTS
  SweepWithoutRunner
  RestMeansApplied
