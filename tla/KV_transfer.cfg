SPECIFICATION Spec
CONSTANTS
  r1 = r1
  r2 = r2
  r3 = r3
  w1 = w1
  w2 = w2
  Stale = Stale
  Requests <- MC_Requests
  Workers <- MC_Workers
  P2P <- MC_P2P
  Blocks = {b1, b2, b3}
  BlockSize = 2
  PromptLen <- MC_PromptLen
  MaxTokens = 3
SYMMETRY MC_Symmetry
INVARIANTS TypeOK ReadsOwnKV CopiesSafe
CHECK_DEADLOCK FALSE
