SPECIFICATION Spec
CONSTANTS
  MinMatch = 3
  LenMod = 65536
  SmallLiterals = 20
  ForceX2 = FALSE
  TargetCBlockSizeMin = 20
  HeaderBudget = 8
  SampleSize = 6
  SampleRatio = 5
  SuspectRatio = 2
  MinSeqSplit = 6
  MaxSplits = 196
  NbBlocks = 3
  Strategies = {1, 5, 8}
  WithDict = TRUE
  Blocks <- MCBlocks
  Settings <- MCSettings
  Dictionaries <- MCDictionaries
INVARIANTS Decodable TablesAgree
CHECK_DEADLOCK FALSE
