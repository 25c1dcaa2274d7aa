---------------------------- MODULE RequestService ----------------------------
(***************************************************************************)
(* What the router loop promises a request, without threads, workers or    *)
(* blocks: it waits in the queue, is given to one of two paths, may come   *)
(* back from the disaggregated one, and finishes once, on the path it was  *)
(* given to.                                                               *)
(***************************************************************************)
CONSTANTS
  Requests,   \* request ids
  Paths       \* "collocated", "disaggregated"

VARIABLE phase   \* phase[r]: "new", "queued", a path, or "finished"

Init == phase = [r \in Requests |-> "new"]

Submit(r) ==
  /\ phase[r] = "new"
  /\ phase' = [phase EXCEPT ![r] = "queued"]

Assign(r, p) ==
  /\ phase[r] = "queued"
  /\ phase' = [phase EXCEPT ![r] = p]

(* Prefill cannot take these requests now: they are queued again.          *)
Return(S) ==
  /\ \A r \in S : phase[r] = "disaggregated"
  /\ phase' = [r \in Requests |-> IF r \in S THEN "queued" ELSE phase[r]]

Finish(S) ==
  /\ \A r \in S : phase[r] \in Paths
  /\ phase' = [r \in Requests |-> IF r \in S THEN "finished" ELSE phase[r]]

Next ==
  \/ \E r \in Requests : Submit(r) \/ \E p \in Paths : Assign(r, p)
  \/ \E S \in SUBSET Requests : Return(S) \/ Finish(S)

Spec == Init /\ [][Next]_phase
=============================================================================
