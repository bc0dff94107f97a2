SPECIFICATION Spec
CONSTANTS
  replica = replica
  other = other
  Threads <- BothThreads
  Commands <- NoCommands
  MaxPending = 3
  Replica = replica
  MinCapacity = 2
  MaxQueries = 2
  Windows <- SomeWindows
  MaxLength = 3
  MaxPrompt = 1
  MaxRows = 2
  MaxBuffers = 7
  MaxOthers = 1
INVARIANTS
  FlushLeavesNothing
  AttentionReadsThePast
  CopiesAreComplete
