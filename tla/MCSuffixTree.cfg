SPECIFICATION MCSpec
CONSTANTS
    s1 = s1
    s2 = s2
    s3 = s3
    t1 = t1
    t2 = t2
    Nil = Nil
    SeqIds <- MCSeqs
    Tokens <- MCTokens
    MaxDepth = 3
    MaxTotal = 5
    n1 = n1
    n2 = n2
    n3 = n3
    n4 = n4
    k1 = k1
    k2 = k2
    k3 = k3
    k4 = k4
    k5 = k5
    v = v
    Empty = Empty
    Tombstone = Tombstone
    Raised = Raised
SYMMETRY MCSymmetry
INVARIANTS
    CountsOccurrences
    PointersFollowPaths
PROPERTIES
    SiblingsStaySorted
    TableIsAMap
