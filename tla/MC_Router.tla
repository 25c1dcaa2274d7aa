------------------------------- MODULE MC_Router -------------------------------
(***************************************************************************)
(* Model-checking instance of Router: two buckets, one prompt on the edge  *)
(* of the first and one beyond the last, windows that overflow.            *)
(***************************************************************************)
EXTENDS Router

MC_Buckets == <<2, 4>>
=============================================================================
