\* One workload that changes twice while its reconciles run; no call fails.  The
\* threshold is above the counts that are reached.
CONSTANTS
  Inputs = {"a", "b"}
  Sinks = {"gcs"}
  Causes = {"not_opted_in"}
  StaleThreshold = 3
  MaxUid = 1
  MaxChanges = 2
  MaxFaults = 0
SPECIFICATION Spec
PROPERTY ErrorsAreConsecutive
CHECK_DEADLOCK FALSE
