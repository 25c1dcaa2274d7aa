SPECIFICATION Spec
CONSTANTS
  r1 = r1
  r2 = r2
  r3 = r3
  None = None
  Requests <- MC_Requests
  Blocks = {b1, b2, b3, b4, b5, b6}
  BlockSize = 2
  PromptLen <- MC_PromptLen
  MaxBatch = 2
  Budget = 2
  MaxTokens = 2
SYMMETRY MC_Symmetry
INVARIANT FirstTokenSeesPrompt
CHECK_DEADLOCK FALSE
