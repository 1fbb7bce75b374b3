CONSTANTS
    Arg = {a1, a2}
    NoArg = NoArg
    MaxReceived = 5
    MaxInbox = 3
SPECIFICATION SessionSpec
INVARIANTS
    Understood
    ServerNeverSurprised
    ClientSurvives
PROPERTY AllAnswered
CHECK_DEADLOCK FALSE
