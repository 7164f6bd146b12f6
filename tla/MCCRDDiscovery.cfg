\* One kind: kinds share nothing but the supervisor's kick.
CONSTANTS
  Kinds = {lws}
  MaxUid = 3
  MaxEdits = 2
  MaxLag = 2
  MaxErrors = 1
SPECIFICATION DiscoverySpec
INVARIANTS
  DiscoveryTypeOK
  RemovedIsGone
  LateIsAfterStart
  RestingWorkerIsCurrent
PROPERTY
  ImplementsLifecycle
