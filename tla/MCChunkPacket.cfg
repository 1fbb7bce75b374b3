CONSTANTS
    ByteBits = 4
    SegmentWidth = 3
    Digits = 8
    ShortBytes = 1
    IntBytes = 2
    LongBytes = 2
    PositionXZBits = 3
    PositionYBits = 2
    WordBits = 8
    Blocks = 8
    Height = 2
    MaxCount = 3
    Sent <- MCSent
    Tags <- MCTags
    Nesting <- MCNesting
SPECIFICATION ChunkSpec
INVARIANTS
    NbtExact
    BlockEntitiesAligned
CHECK_DEADLOCK FALSE
