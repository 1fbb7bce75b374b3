CONSTANTS
    Keyboard <- MCKeyboard
    Motions <- MCMotions
    Typed <- MCTyped
    MaxEvents = 2
SPECIFICATION Spec
INVARIANTS
    MotionOnce
    CvarMatchesGL
    ReleasedInOrder
PROPERTIES
    TogglesArePresses
CHECK_DEADLOCK FALSE
