SPECIFICATION FairSpec
CONSTANTS
    FdLimit = 9
    PipeCapacity = 2
    MaxChunks = 4
CHECK_DEADLOCK FALSE
INVARIANTS
    CompleteOutput
    WritersHaveReader
    LeaksAreFailures
    ExhaustionHasCauses
PROPERTIES
    RunsLikeAbstract
    RunFinishes
