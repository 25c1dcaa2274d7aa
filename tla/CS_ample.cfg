SPECIFICATION FairSpec
CONSTANTS
  r1 = r1
  r2 = r2
  r3 = r3
  w1 = w1
  w2 = w2
  Requests <- MC_Requests
  Workers <- MC_TwoWorkers
  Routes <- MC_MixedRoute
  PromptLen <- MC_PromptLen
  BlockSize = 2
  NumBlocks = 5
  Reserve = 3
  MaxDecodeBatch = 2
  MaxBatch = 2
  MaxTokens = 2
INVARIANTS TypeOK NobodyLost PoolBalanced
PROPERTIES ResultFinal ServiceSpec Returns
CHECK_DEADLOCK FALSE
