\* One reconcile writes while the allowlist excludes its kind; no call fails.
CONSTANTS
  Kinds = {lws}
  MaxUid = 1
  MaxEdits = 0
  MaxLag = 0
  MaxErrors = 0
  MaxFlips = 1
  MaxFaults = 0
  MaxWrites = 1
  MaxDisturbances = 1
SPECIFICATION Spec
CHECK_DEADLOCK FALSE
INVARIANT
  ExcludedIsSwept
