SPECIFICATION Spec
CONSTANTS
    Bytes = {0, 1}
    Junk = Junk
    Memory = 6
    MaxOffset = 3
INVARIANTS
    RoomIsThere
    AppendedIsKept
PROPERTY
    FailureKeeps
