SPECIFICATION Spec
CONSTANTS
  Blocks = {b1, b2, b3, b4}
  s1 = s1
  s2 = s2
  s3 = s3
  Seqs <- MC_Seqs
  BlockSize = 2
  PromptLen <- MC_PromptLen
  MaxLen = 5
  SharedPool = FALSE
  CallerCopies = TRUE
SYMMETRY MC_Symmetry
INVARIANTS TypeOK NoLeak ReadBack ExactFit
PROPERTIES AllocateDelivers PoolSpec
CHECK_DEADLOCK FALSE
