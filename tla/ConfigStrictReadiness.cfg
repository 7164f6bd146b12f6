\* Two edits of the CR: a mistake and its correction; no call fails.
CONSTANTS
  KnownWorkloadKinds <- MCKnownWorkloadKinds
  SecretRefs = {"token"}
  Nil = Nil
  Specs <- MCSpecs
  ExpectedFields <- MCExpectedFields
  Schemas <- OneSchema
  TickSeconds = 30
  Disturbances = {"edit"}
  MaxDisturbances = 2
  MaxBatches = 3
SPECIFICATION Spec
CHECK_DEADLOCK FALSE
INVARIANT FlagIsOfLastLoad
