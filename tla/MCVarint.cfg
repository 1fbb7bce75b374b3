CONSTANTS
    SegmentWidth = 3
    Digits = 8
SPECIFICATION CodecSpec
INVARIANTS
    RoundTrip
    BitsInPlace
    RejectsOnlyTooLong
CHECK_DEADLOCK FALSE
