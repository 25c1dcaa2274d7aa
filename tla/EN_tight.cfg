SPECIFICATION Spec
CONSTANTS
  r1 = r1
  r2 = r2
  r3 = r3
  None = None
  Requests <- MC_Requests
  Blocks = {b1, b2, b3}
  BlockSize = 2
  PromptLen <- MC_PromptLen
  MaxBatch = 2
  Budget = 2
  MaxTokens = 3
SYMMETRY MC_Symmetry
INVARIANTS SlotReady PoolConserved
CHECK_DEADLOCK FALSE
