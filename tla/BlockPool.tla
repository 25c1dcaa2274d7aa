------------------------------ MODULE BlockPool ------------------------------
(***************************************************************************)
(* What the paged KV cache is promised by its memory manager, without      *)
(* reference counts, free lists or block tables: every physical block has  *)
(* a set of owners, a sequence can take a block only while nobody owns it, *)
(* and an owned block gains owners only by a fork.                         *)
(***************************************************************************)
CONSTANTS
  Blocks,   \* physical KV-cache blocks
  Seqs      \* sequence ids

VARIABLE owners   \* owners[b]: the sequences whose data lives in block b

Holds(s, b) == s \in owners[b]

Init == owners = [b \in Blocks |-> {}]

(* s gets block b for its next tokens. *)
Take(s, b) ==
  /\ owners[b] = {}
  /\ owners' = [owners EXCEPT ![b] = {s}]

(* c starts as a copy of p and shares everything p holds. *)
Share(p, c) ==
  /\ \A b \in Blocks : ~ Holds(c, b)
  /\ owners' = [b \in Blocks |-> IF Holds(p, b) THEN owners[b] \cup {c}
                                              ELSE owners[b]]

(* s leaves the shared block o and goes on in the unowned block n. *)
Swap(s, o, n) ==
  /\ Holds(s, o)
  /\ owners[o] # {s}
  /\ owners[n] = {}
  /\ owners' = [owners EXCEPT ![o] = @ \ {s}, ![n] = {s}]

(* s gives up everything it holds. *)
Drop(s) == owners' = [b \in Blocks |-> owners[b] \ {s}]

Next ==
  \/ \E s \in Seqs, b \in Blocks : Take(s, b)
  \/ \E p, c \in Seqs : p # c /\ Share(p, c)
  \/ \E s \in Seqs, o, n \in Blocks : Swap(s, o, n)
  \/ \E s \in Seqs : Drop(s)

Spec == Init /\ [][Next]_owners
=============================================================================
