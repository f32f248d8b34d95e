SPECIFICATION Spec
CONSTANTS
    Text = {x, y}
    Nul = Nul
    HeaderLength = 2
    V0Length = 1
    MaxReceive = 6
    MaxInt = 7
    Word = 8
    MaxText = 5
    MaxOutput = 7
CHECK_DEADLOCK FALSE
INVARIANTS
    TypeOK
    WholeAnswer
    LengthIsTrue
    StaysInMessage
    RejectedNeedsShortage
