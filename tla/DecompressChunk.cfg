SPECIFICATION DCSpec
CONSTANTS
    Streams <- SliceStreams
    MinHdr = 1
    BlockHdr = 1
    ChecksumUnits = 2
    BlockMax = 3
    Overlength = 1
    NoProgressMax = 2
    TooLarge = 3
    TooLong = 2
    InLen = 4
    OutLen = 3
    ChunkLens = {0, 1, 3, 6}
    MaxBytes = 16
    Missing = {0, 1, 3, 30}
INVARIANTS
    WholeIsFinished
    SoundIsAccepted
PROPERTY SuccessIsComplete
