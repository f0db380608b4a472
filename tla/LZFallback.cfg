SPECIFICATION Spec
CHECK_DEADLOCK FALSE
CONSTANTS
  MinMatch = 2
  LenMod = 4
  LongMatch = 3
  ReadSize = 3
  HashReadSize = 3
  StartIndex = 2
  CurrentMax = 26
  WindowSize = 8
  BlockMax = 8
  TooSmall = 3
  SplitMin = 2
  OverlapSize = 4
  MaxRaw = 2
  Plans <- PlansFallback
INVARIANTS RoundTrip
