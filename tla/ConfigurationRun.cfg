CONSTANTS
  KnownWorkloadKinds <- MCKnownWorkloadKinds
  SecretRefs = {"token"}
  Nil = Nil
  Specs <- MCSpecs
  ExpectedFields <- MCExpectedFields
  Schemas <- MCSchemas
  TickSeconds = 30
  Disturbances <- AllDisturbances
  MaxDisturbances = 2
  MaxBatches = 3
SPECIFICATION FairSpec
CHECK_DEADLOCK FALSE
INVARIANTS
  ConfigTypeOK
  QuietMeansCurrent
  SinksFollowSnapshot
  DeliverySurvivesSwap
PROPERTY
  ImplementsStore
  Settles
