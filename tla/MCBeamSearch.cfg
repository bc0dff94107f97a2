SPECIFICATION SpecAll
CONSTANTS
  BeamSize = 2
  VocabularySize = 4
  Models <- AllModels
  Options <- SearchOptions
  AllRequests <- AlternativeRequests
INVARIANTS
  AlternativesContinueThePrefix
  StateFollowsSequences
  HypothesesEndInTime
  EverySentenceIsAnswered
PROPERTY
  EarlyExitIsSafe
