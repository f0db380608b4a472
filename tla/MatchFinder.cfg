SPECIFICATION Spec
CHECK_DEADLOCK FALSE
CONSTANTS
  StartIndex = 2
  CurrentMax = 34
  HashReadSize = 3
  MinMatch = 2
  HashSize = 2
  ChainSize = 8
  Attempts = 8
  TagSize = 2
  RowEntries = 4
  CacheSize = 2
  SkipThreshold = 4
  StartUpdates = 2
  EndUpdates = 1
  BucketCache = 2
  DdsChainSize = 2
  TreeSize = 8
  OptNum = 6
  SufficientLen = 5
  Hash3Size = 2
  LongBest = 6
  LongSkip = 2
  LdmMinMatch = 3
  LdmBuckets = 2
  LdmPerBucket = 2
  LdmChunk = 12
  BatchSize = 2
  BlockMax = 12
  TooSmall = 3
  UpdateGap = 4
  UpdateKeep = 2
  LongStep = 3
  Plans <- PlansMC
  RepChoices <- RepChoicesMC
INVARIANTS MatchesAreTrue CacheIsFresh TablesFit
