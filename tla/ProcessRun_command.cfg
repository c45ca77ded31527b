SPECIFICATION FairSpec
CONSTANTS
    Descendant = {d1}
    Leader = leader
    Trees = {"group", "job"}
    Limit = 1
    Chunk = 2
    PipeCapacity = 2
    MaxWritten = 2
INVARIANTS
    TreeIsGone
    ReadersAreJoined
    OkIsComplete
    NothingEscapesJob
    StrangersSpared
PROPERTIES
    KeepsCommand
    RunReturns
    OutputIsDrained
