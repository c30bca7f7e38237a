SPECIFICATION Spec
CONSTANTS
    Sizes = {1, 2, 4}
    SP = 2
    Threshold = 4
    MaxTokens = 12
    MaxSeqs = 4
    GraphMode = "FULL_AND_PIECEWISE"
    Adaptive = TRUE
    SwiftKV = FALSE
INVARIANTS
    RequiredGraphsCaptured
