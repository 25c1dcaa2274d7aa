--------------------------- MODULE RequestLifecycle ---------------------------
(***************************************************************************)
(* What the engine promises a request, without tokens, budgets or blocks:  *)
(* it moves through the queues waiting, prefilling, running and finished   *)
(* in this order, never back and never out, and at most MaxBatch requests  *)
(* are being prefilled or decoded at a time.                               *)
(***************************************************************************)
EXTENDS Naturals, FiniteSets

CONSTANTS
  Requests,   \* request ids
  MaxBatch    \* places in the batch

VARIABLE phase   \* phase[r]: the queue r is in, "new" before it is submitted

In(p) == {r \in Requests : phase[r] = p}
Active == In("prefilling") \cup In("running")

Move(S, p) == [r \in Requests |-> IF r \in S THEN p ELSE phase[r]]

Init == phase = [r \in Requests |-> "new"]

Submit(r) ==
  /\ phase[r] = "new"
  /\ phase' = Move({r}, "waiting")

(* Some running requests finish and leave their places.                    *)
Retire(S) ==
  /\ S \subseteq In("running")
  /\ phase' = Move(S, "finished")

(* The same, and one waiting request takes a place that is left.           *)
RetireAndAdmit(S, r) ==
  /\ S \subseteq In("running")
  /\ phase[r] = "waiting"
  /\ Cardinality(Active \ S) < MaxBatch
  /\ phase' = [Move(S, "finished") EXCEPT ![r] = "prefilling"]

(* The prompt is done: r decodes from now on.                              *)
StartDecoding(r) ==
  /\ phase[r] = "prefilling"
  /\ phase' = Move({r}, "running")

Next ==
  \/ \E r \in Requests : Submit(r) \/ StartDecoding(r)
  \/ \E S \in SUBSET Requests : Retire(S)
  \/ \E S \in SUBSET Requests, r \in Requests : RetireAndAdmit(S, r)

Spec == Init /\ [][Next]_phase
=============================================================================
