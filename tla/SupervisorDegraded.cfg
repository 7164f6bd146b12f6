\* One watch whose list fails while the allowlist excludes its kind.
CONSTANTS
  Kinds = {lws}
  MaxUid = 1
  MaxEdits = 0
  MaxLag = 0
  MaxErrors = 0
  MaxFlips = 1
  MaxFaults = 1
  MaxWrites = 0
  MaxDisturbances = 2
SPECIFICATION Spec
CHECK_DEADLOCK FALSE
INVARIANT
  DisabledIsNeverDegraded
