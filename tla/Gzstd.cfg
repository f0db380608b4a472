SPECIFICATION GSpec
CONSTANTS
    InLen = 3
    OutLen = 8
    ChunkLens = {0, 1, 2, 3}
    MaxBytes = 16
    FrameHdr = 1
    BlockHdr = 1
    Checksum = 1
    Margin = 3
    WindowSize = 4
    MaxBlocks = {3}
    Pledges = {}
    MaxUnits = 60
    FileLens = {1, 4, 5, 7, 8}
    MaxFiles = 3
INVARIANT FileIsCompressed
CHECK_DEADLOCK FALSE
