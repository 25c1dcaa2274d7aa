------------------------------ MODULE MC_Engine ------------------------------
(***************************************************************************)
(* Model-checking instances of Engine: prompts of three lengths, shorter   *)
(* than, equal to and longer than the budget of a step.                    *)
(***************************************************************************)
EXTENDS Engine, TLC

CONSTANTS r1, r2, r3

MC_Requests == {r1, r2, r3}
MC_PromptLen == r1 :> 1 @@ r2 :> 4 @@ r3 :> 2
MC_EmptyPrompt == r1 :> 0 @@ r2 :> 2 @@ r3 :> 2
MC_Symmetry == Permutations(Blocks)
=============================================================================
