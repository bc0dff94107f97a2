SPECIFICATION FairBufferSpec
CONSTANTS
  c1 = c1
  c2 = c2
  Clients <- TwoClients
  NumRequests = 6
  MaxBatchSize = 2
  MaxBufferSize = 5
  NumReplicas = 1
  MaxQueueSize = 1
INVARIANTS
  RequestsAreKept
PROPERTIES
  RequestsAreTranslated
