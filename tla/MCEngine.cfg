SPECIFICATION MCSpec
CONSTANTS
  None = None
  Idle = Idle
  Main = Main
  Procs = {Main, P1, P2, P3}
  MaxWorkers = 2
  Sizes = {1, 2, 4}
  SP = 2
  Threshold = 4
  MaxTokens = 12
  MaxSeqs = 4
  GraphMode = "FULL_AND_PIECEWISE"
  Adaptive = TRUE
  SwiftKV = FALSE
  NumWorkers = 4
  MaxCrashes = 2
  C1 = C1
  C2 = C2
  Id1 = Id1
  Layers = {"l1", "l2"}
CHECK_DEADLOCK FALSE
INVARIANTS
  DispatchSound
  RanksSound
  OptionsReachTheirProcess
  PatchedOnce
PROPERTIES
  ModesSound
  StartsAndEnds
  EveryCallGetsItsOwn
