SPECIFICATION Spec
CONSTANTS
  MaxBatch = 4
  Batches = {1, 2, 4}
  NPredict = 3
  Lookahead = 3
INVARIANTS
  EveryHeadIsRun
