SPECIFICATION DCSpec
CONSTANTS
    Streams <- RawFrames
    MinHdr = 1
    BlockHdr = 1
    ChecksumUnits = 2
    BlockMax = 3
    Overlength = 1
    NoProgressMax = 3
    TooLarge = 3
    TooLong = 2
    InLen = 10
    OutLen = 3
    ChunkLens = {10}
    MaxBytes = 24
    Missing = {0}
INVARIANT InputInOrder
