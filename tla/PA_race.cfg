SPECIFICATION Spec
CONSTANTS
  BlockSize = 4
  Blocks = {0, 1, 2, 3, 4, 5}
  NumWarps = 2
  WarpSize = 2
  MaxScore = 2
  Exp <- MC_Exp
  Batches <- MC_Batches
INVARIANT DecodeAlwaysExact
CHECK_DEADLOCK FALSE
