SPECIFICATION DBSpec
CONSTANTS
  CopyUnit = 2
  VecLen = 4
  Overlength = 8
  ExtraSize = 16
  BlockMax = 24
  StoredSeqs = 2
  Blocks <- AllBlocks
INVARIANT DecodedInPlace
CHECK_DEADLOCK FALSE
