CONSTANTS
    SegmentWidth = 1
    Digits = 4
    MaxLength = 3
    Id = {1, 2}
    MaxPayload = 2
    MaxSent = 2
SPECIFICATION Spec
INVARIANTS
    PrefixOfQueued
    WholeOnReturn
CHECK_DEADLOCK FALSE
