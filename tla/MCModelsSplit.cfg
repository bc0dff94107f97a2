SPECIFICATION MCSpec
CONSTANTS
  Platforms <- MCPlatforms
  Embeddings = {"embeddings"}
  Linears = {"linear"}
  Convs = {"conv"}
  Masked = {"projection"}
  Others = {"norm", "factor"}
  Factors = {"factor"}
  Aliases <- MCAliases
  Setters = {s1, s2}
  Workers = {w1, w2}
  Seeds = {d, one}
  DefaultSeed = d
  Device = device
  MaxSets = 3
  MaxDraws = 3
  EotId = 1
  SotId = 2
  NoTimestampsId = 4
  TimestampEndId = 7
  WhisperRequests <- Transcriptions
SYMMETRY Symmetry
CHECK_DEADLOCK FALSE
INVARIANT
  SplitModelsComputeTheWhole
