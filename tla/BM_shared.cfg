SPECIFICATION Spec
CONSTANTS
  Blocks = {b1, b2, b3, b4}
  s1 = s1
  s2 = s2
  s3 = s3
  Seqs <- MC_Seqs
  BlockSize = 2
  PromptLen <- MC_PromptLen
  MaxLen = 5
  SharedPool = TRUE
  CallerCopies = TRUE
SYMMETRY MC_Symmetry
INVARIANTS RefCountExact ReadBack
PROPERTY PoolSpec
CHECK_DEADLOCK FALSE
