CONSTANTS
    N = 3
    Byte = {b1, b2}
    Unset = Unset
    MaxStream = 6
SPECIFICATION RingSpec
INVARIANT UnreadIntact
PROPERTY ImplementsQueue
CHECK_DEADLOCK FALSE
