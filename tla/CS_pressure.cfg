SPECIFICATION Spec
CONSTANTS
  r1 = r1
  r2 = r2
  r3 = r3
  w1 = w1
  w2 = w2
  Requests <- MC_Requests
  Workers <- MC_TwoWorkers
  Routes <- MC_Disaggregated
  PromptLen <- MC_PromptLen
  BlockSize = 2
  NumBlocks = 3
  Reserve = 1
  MaxDecodeBatch = 2
  MaxBatch = 2
  MaxTokens = 2
INVARIANTS ServedOnce NeverFreedTwice OutputsAgree OutputBounded
SYMMETRY MC_Symmetry
CHECK_DEADLOCK FALSE
