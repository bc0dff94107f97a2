SPECIFICATION FairSpec
CONSTANTS
  a = a
  b = b
  Callers <- TwoCallers
  Inputs <- SomeInputs
  NumReplicas = 2
  MaxQueuedBatches = 1
  MaxBatchSize = 2
  BatchTypeUsed = "examples"
  ReadSize = 3
INVARIANTS
  CompleteOrFailed
PROPERTIES
  CallersEnd
