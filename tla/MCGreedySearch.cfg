SPECIFICATION Spec
CONSTANTS
  VocabularySize = 4
  BosId = 1
  Models <- AllModels
  AllRequests <- SearchRequests
INVARIANTS
  EverySentenceIsAnswered
  CallbackStreamsHypotheses
PROPERTY
  ImplementsIndependentDecoding
