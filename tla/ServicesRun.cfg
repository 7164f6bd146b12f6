CONSTANTS
  NsWorkloads = {w1, w2}
  settle = 2
  maxWait = 3
  NoObs = NoObs
  MaxNsUid = 2
  MaxNow = 4
  MaxOptOuts = 1
  Callers = {c1, c2}
  Claims <- MCClaims
  Bundle <- MCBundle
  Policies <- MCPolicies
  NoPolicy = NoPolicy
  NoDigest = NoDigest
  NoResult = NoResult
  MaxSwaps = 1
  MaxTroubles = 1
  MaxCalls = 3
  Configured = {"gcs", "webhook"}
  gcsMaxAttempts = 3
  webhookAttempts = 3
  MaxRounds = 2
  MaxComponentsPerDocument = 4
  Workloads <- MCWorkloads
  NoDocument = NoDocument
SPECIFICATION FairSpec
CHECK_DEADLOCK FALSE
INVARIANTS
  ServicesTypeOK
  AnnouncementAhead
  AnnouncedOnce
  VerifiedIsEarned
  OneVerificationAtATime
  ReportedIsDelivered
  NothingSilentlyDropped
  ConfidenceNotOverstated
  RedactionComplete
PROPERTIES
  EveryClaimIsAnswered
  EmissionEnds
  DocumentIsStable
