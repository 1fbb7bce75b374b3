SPECIFICATION Spec
CONSTANTS
    N = 3
    Byte = {0, 1, 2, 3}
    Unset = Unset
    MaxStream = 3
    SegmentWidth = 1
    Digits = 4
    MaxLength = 3
PROPERTY
    EofThrows
CHECK_DEADLOCK FALSE
