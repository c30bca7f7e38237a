SPECIFICATION Spec
CONSTANTS
    r1 = r1
    r2 = r2
    r3 = r3
    None = None
    Reqs <- MCReqs
    Tokens <- MCTokens
    Prompts <- MCPrompts
    Batches <- MCOneBatch
    NumSeqIds = 4
    MaxCached = 2
    MaxLen = 2
SYMMETRY MCSymmetry
INVARIANTS
    TypeOK
    MapsInverse
    NoOrphanSequence
    LocalEndsWithResponse
PROPERTIES
    FifoEviction
    ImplementsResponseCache
