\* Two generations of the CRD and either a change of the allowlist or a failure, under
\* the fairness of the goroutines.
CONSTANTS
  Kinds = {lws}
  MaxUid = 2
  MaxEdits = 0
  MaxLag = 0
  MaxErrors = 0
  MaxFlips = 1
  MaxFaults = 1
  MaxWrites = 0
  MaxDisturbances = 1
SPECIFICATION FairSpec
CHECK_DEADLOCK FALSE
INVARIANTS
  TypeOK
  SweepNeedsEvidence
  MembershipFollowsPresence
  WatchStartedOwed
PROPERTY
  ReadyIsServed
