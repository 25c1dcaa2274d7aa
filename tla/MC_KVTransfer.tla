--------------------------- MODULE MC_KVTransfer ---------------------------
(***************************************************************************)
(* Model-checking instance of KVTransfer: three requests of one and two    *)
(* blocks, one prefill worker with peer access and one behind pinned       *)
(* memory.                                                                 *)
(***************************************************************************)
EXTENDS KVTransfer, TLC

CONSTANTS r1, r2, r3, w1, w2

MC_Requests == {r1, r2, r3}
MC_Workers == {w1, w2}
MC_P2P == {w1}
MC_PromptLen == r1 :> 1 @@ r2 :> 2 @@ r3 :> 3
MC_Symmetry == Permutations(Blocks)
=============================================================================
