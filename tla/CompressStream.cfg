SPECIFICATION CSpec
CONSTANTS
    InLen = 8
    OutLen = 14
    ChunkLens = {5, 10}
    MaxBytes = 20
    FrameHdr = 1
    BlockHdr = 1
    Checksum = 1
    Margin = 4
    WindowSize = 6
    MaxBlocks = {4, 6}
    Pledges = {0, 8}
    MaxUnits = 13
INVARIANTS
    TypeOK
    CopyInBounds
    InputInOrder
    EncodedInOrder
    OutputInOrder
    RingInBounds
    FailsOnlyOnPledge
    HeaderIsTrue
PROPERTIES
    ClosesFrame
    ThriftyWrapper
    CallReturns
