CONSTANTS
    ByteBits = 3
    SegmentWidth = 2
    Digits = 12
    ShortBytes = 2
    IntBytes = 4
    LongBytes = 8
    PositionXZBits = 10
    PositionYBits = 4
    WordBits = 8
    Blocks = 8
    Size = 2
    FieldPairs <- MCFieldPairs
    EntryInputs <- MCEntryInputs
    Sections <- MCSections
    ModelPairs <- MCModelPairs
    Tables <- MCTables
    Variants <- MCVariants
SPECIFICATION Spec
INVARIANTS
    FieldsReadBack
    EntriesReadBack
    MeshIsBoundary
    ModelsFaceOutward
    StatesDecode
CHECK_DEADLOCK FALSE
