SPECIFICATION Spec
CONSTANTS
    N = 3
    Byte = {0, 1, 2, 3}
    Unset = Unset
    MaxStream = 6
    SegmentWidth = 1
    Digits = 4
    MaxLength = 3
INVARIANTS
    CaughtUp
    OneReadOutstanding
    AssertionsHold
    FailureSurfaces
PROPERTIES
    DeliversStream
    UsesRing
    EventuallyDelivered
CHECK_DEADLOCK FALSE
