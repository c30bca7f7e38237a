SPECIFICATION Spec
CONSTANTS
  None = None
  Idle = Idle
  r1 = r1
  r2 = r2
  r3 = r3
  StepReqs = {"r1", "r2"}
  PromptLen = 1
  MaxModelLen = 6
  MaxSampled = 2
  MaxSpecLen = 2
  MaxTreeDepth = 3
  MaxContext = 4
  MaxArg = 2
  MaxBatch = 7
  BatchSizes = {1, 2, 5, 6, 7}
  NPredict = 3
  Lookahead = 2
  NumRows = 3
  MaxDraft = 2
  MaxHeads = 3
  NumLayers = 2
  NumKvLayers = 1
  Backends = {"flash_attention", "flashinfer"}
  NumBlocks = 6
  MaxGraph = 4
  MaxReqs = 3
  MaxTokens = 2
  MaxPages = 2
CHECK_DEADLOCK FALSE
INVARIANTS
  CacheFollowsBatch
  DraftsSuitTheBatch
  
  ComputedProposalsAreTheirs
  DraftsFollowTheirRow
  ShardsAreOneVocabulary
  WeightsReachTheirModules
  SelectedRowsKeepTheirRequest
PROPERTIES
  ActiveKeepsItsSeqId
  SimulationIsSound
