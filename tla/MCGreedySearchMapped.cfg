SPECIFICATION Spec
CONSTANTS
  VocabularySize = 4
  BosId = 1
  Models <- AllModels
  AllRequests <- MappedRequests
INVARIANT
  EndTokenStops
