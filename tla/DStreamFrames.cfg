SPECIFICATION CallerSpec
CONSTANTS
    Streams <- AllStreams
    MinHdr = 1
    BlockHdr = 1
    ChecksumUnits = 2
    BlockMax = 3
    Overlength = 1
    NoProgressMax = 3
    TooLarge = 3
    TooLong = 2
    Offers = {0, 1, 2, 3, 6, 20}
    Rooms = {0, 1, 2, 4}
INVARIANTS
    DeliveredInOrder
    WindowIntact
    ZeroAtFrameEnd
    FailsOnlyForCause
    FlawIsFound
PROPERTY Completes
CHECK_DEADLOCK FALSE
