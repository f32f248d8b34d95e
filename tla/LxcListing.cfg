SPECIFICATION ListingSpec
CONSTANTS
    Values = {x, y, z}
    Null = Null
    Junk = Junk
    Blank = Blank
    Dot = Dot
    Step = 2
    MaxEntries = 4
CHECK_DEADLOCK FALSE
INVARIANTS
    TypeOK
    KeepsEntries
    FreesOnlyNames
    CrashNeedsShortage
    ListsDefined
