\* Two incarnations of a workload, one change of it or around it, two failed calls or
\* restarts, under fair scheduling.
CONSTANTS
  Inputs = {"a", "b"}
  Sinks = {"gcs", "webhook"}
  Causes = {"not_opted_in"}
  StaleThreshold = 2
  MaxUid = 2
  MaxChanges = 1
  MaxFaults = 2
SPECIFICATION FairSpec
INVARIANTS
  TypeOK
  HashMeansDelivered
  QuietMeansReported
PROPERTIES
  ImplementsLifecycle
  ReportedInTheEnd
CHECK_DEADLOCK FALSE
