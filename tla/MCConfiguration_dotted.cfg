SPECIFICATION ConfSpec
CONSTANTS
    Pieces <- MCPieces
    Documents <- MCDocuments
    Names <- MCNames
    Formats <- MCAclFormats
CHECK_DEADLOCK FALSE
INVARIANT
    NotFoundIsAbsent
