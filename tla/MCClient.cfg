CONSTANTS
    a1 = a1
    a2 = a2
    Arg <- MCArg
    NoArg = NoArg
    MaxReceived = 4
    MaxInbox = 1
SYMMETRY ArgSymmetry
SPECIFICATION AnyServerSpec
INVARIANTS
    ClientTypeOK
    SessionOrder
    PlayFollowsProfile
    ColumnsOfThisWorld
    Answers
CHECK_DEADLOCK FALSE
