SPECIFICATION Spec
CONSTANTS
    Letters = {x, y}
    Spaces = {blank, tab}
    Nul = Nul
    MaxLine = 6
CHECK_DEADLOCK FALSE
INVARIANTS
    WordsAreWhole
    PartsAfterSpace
