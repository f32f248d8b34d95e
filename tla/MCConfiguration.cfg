SPECIFICATION ConfSpec
CONSTANTS
    Pieces <- MCPieces
    Documents <- MCDocuments
    Names <- MCNames
    Formats <- MCFormats
CHECK_DEADLOCK FALSE
INVARIANTS
    AnswersOK
    FindsSetting
    FindsNothingElse
    CrashNeedsNestedList
