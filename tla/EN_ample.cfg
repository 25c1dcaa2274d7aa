SPECIFICATION FairSpec
CONSTANTS
  r1 = r1
  r2 = r2
  r3 = r3
  None = None
  Requests <- MC_Requests
  Blocks = {b1, b2, b3, b4, b5}
  BlockSize = 2
  PromptLen <- MC_PromptLen
  MaxBatch = 2
  Budget = 3
  MaxTokens = 3
INVARIANTS TypeOK EveryRequestQueued PositionLaw NeverShort
PROPERTIES FirstTokensInOrder OutputFrozen LifecycleSpec Completes
CHECK_DEADLOCK FALSE
