------------------------ MODULE MC_CentralScheduler ------------------------
(***************************************************************************)
(* Model-checking instances of CentralScheduler: three requests of one or  *)
(* two blocks, routed freely or all to the disaggregated path.             *)
(***************************************************************************)
EXTENDS CentralScheduler, TLC

CONSTANTS r1, r2, r3, w1, w2

MC_Requests == {r1, r2, r3}
MC_TwoRequests == {r1, r2}
MC_TwoWorkers == {w1, w2}
MC_PromptLen == [r \in Requests |-> IF r = r1 THEN 1 ELSE 2]
MC_Disaggregated == [r \in Requests |-> {"disaggregated"}]
MC_MixedRoute ==
  [r \in Requests |-> IF r = r1 THEN Paths ELSE {"disaggregated"}]
MC_Symmetry == Permutations(Workers)
=============================================================================
