CONSTANTS
  KnownWorkloadKinds <- MCKnownWorkloadKinds
  SecretRefs = {"token"}
  Nil = Nil
  Specs <- MCSpecs
  ExpectedFields <- MCExpectedFields
  Schemas <- OneSchema
  TickSeconds = 30
  Disturbances = {"fault"}
  MaxDisturbances = 1
  MaxBatches = 3
SPECIFICATION FairSpec
CHECK_DEADLOCK FALSE
PROPERTY GoodSpecTakesEffect
