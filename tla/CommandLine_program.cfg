SPECIFICATION Spec
CONSTANTS
    Letters = {x, y}
    Spaces = {blank, tab}
    Nul = Nul
    MaxLine = 3
CHECK_DEADLOCK FALSE
INVARIANTS
    ChecksTheProgram
