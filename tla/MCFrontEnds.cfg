SPECIFICATION MCSpec
CONSTANTS
  PromptBatches <- TwoBatches
  MaxSteps = 2
  MaxExamples = 4
  MaxLength = 2
  Sizes = {1, 2, 3, 5}
  Threads = {t1, t2, t3}
  MaxCalls = 2
  Outcomes = {"value", "error"}
INVARIANTS
  StreamIsComplete
  JobsEndFirst
  BatchesAreTight
PROPERTIES
  ConsumerReturns
  InputIsRead
  ResultReturns
