\* A workload that does not change, and one failed call or restart.
CONSTANTS
  Inputs = {"a", "b"}
  Sinks = {"gcs"}
  Causes = {"not_opted_in"}
  StaleThreshold = 2
  MaxUid = 1
  MaxChanges = 0
  MaxFaults = 1
SPECIFICATION FairSpec
PROPERTY
  BootstrapEnds
CHECK_DEADLOCK FALSE
