SPECIFICATION Spec
CONSTANTS
    s1 = s1
    s2 = s2
    t1 = t1
    t2 = t2
    Nil = Nil
    SeqIds <- MCTwoSeqs
    Tokens <- MCTokens
    MaxDepth = 4
    MaxTotal = 5
    MaxSpec = 2
    FactorNum = 3
    OffsetNum <- MCOffsetNum
    LimitDen = 2
    MinProb <- MCMinProb
SYMMETRY MCSymmetry
INVARIANTS
    TreeIsCompressed
    AppendAssertsHold
    DraftsAreBest
