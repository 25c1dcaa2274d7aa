--------------------------- MODULE MC_BlockManager ---------------------------
(***************************************************************************)
(* Model-checking instance of BlockManager: three sequences, two of them   *)
(* with the same prompt so that one can be forked from the other.          *)
(***************************************************************************)
EXTENDS BlockManager, TLC

CONSTANTS s1, s2, s3

MC_Seqs == {s1, s2, s3}
MC_PromptLen == s1 :> 3 @@ s2 :> 3 @@ s3 :> 1
MC_Symmetry == Permutations(Blocks)
=============================================================================
