\* One workload whose scrape fails until the threshold is reached.
CONSTANTS
  Inputs = {"a"}
  Sinks = {"gcs"}
  Causes = {"not_opted_in"}
  StaleThreshold = 2
  MaxUid = 1
  MaxChanges = 0
  MaxFaults = 2
SPECIFICATION Spec
INVARIANT PersistentMeansStale
CHECK_DEADLOCK FALSE
