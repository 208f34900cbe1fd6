CONSTANTS
    MaxLen = 9
    QueryMax = 2
    OperationMax = 3
    Nil = Nil

SPECIFICATION Spec

INVARIANTS
    ChunksFollowReference
    BatchOutcome
