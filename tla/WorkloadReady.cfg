\* One workload and one failed scrape.
CONSTANTS
  Inputs = {"a"}
  Sinks = {"gcs"}
  Causes = {"not_opted_in"}
  StaleThreshold = 2
  MaxUid = 1
  MaxChanges = 0
  MaxFaults = 1
SPECIFICATION Spec
INVARIANT QuietMeansReady
CHECK_DEADLOCK FALSE
