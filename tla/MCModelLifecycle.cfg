SPECIFICATION FairSpec
CONSTANTS
  t1 = t1
  t2 = t2
  t3 = t3
  Threads <- TwoThreads
  NumReplicas = 2
  MaxQueueSize = 1
  MaxCalls = 3
  Modes = {"sync", "async", "forward"}
  OnCpu = FALSE
  MayFail = TRUE
INVARIANTS
  ReadyUntilCopyFails
PROPERTIES
  SynchronousBatchesKeepReplicas
  CallsReturn
