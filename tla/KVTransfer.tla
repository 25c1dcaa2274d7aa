------------------------------ MODULE KVTransfer ------------------------------
(***************************************************************************)
(* The contents of the K/V caches on the disaggregated path.  Prefill      *)
(* workers and the decode worker draw blocks from one pool, but each GPU   *)
(* has a cache of its own: a prompt is stored in the cache of its prefill  *)
(* worker, copied to pinned memory, and copied to the decode worker's      *)
(* cache on a stream that runs beside everything else.  A freed block is   *)
(* at once a block of somebody else, in all caches.                        *)
(*                                                                         *)
(* CentralScheduler has the queues and the threads around this; here the   *)
(* blocks are named and their cells have contents.  The queues between the *)
(* threads are the sets of requests in a stage: only the transfer stream   *)
(* has an order that matters to contents.                                  *)
(***************************************************************************)
EXTENDS Integers, Sequences, FiniteSets, SequencesExt

CONSTANTS
  Requests,    \* request ids
  Workers,     \* prefill workers
  Blocks,      \* blocks of the shared pool
  BlockSize,   \* tokens per block
  PromptLen,   \* PromptLen[r]: number of prompt tokens
  MaxTokens,   \* max_new_tokens
  P2P,         \* workers whose GPU the decode GPU can access (_check_p2p)
  Stale        \* what a cell holds that nobody has stored to

ASSUME RequestsAssumption == IsFiniteSet(Requests)
ASSUME BlocksAssumption == IsFiniteSet(Blocks)
ASSUME BlockSizeAssumption == BlockSize \in Nat \ {0}
ASSUME PromptLenAssumption == PromptLen \in [Requests -> Nat \ {0}]
ASSUME MaxTokensAssumption == MaxTokens \in Nat /\ MaxTokens > 1
ASSUME WorkersAssumption == Workers # {} /\ P2P \subseteq Workers

VARIABLES
  free,       \* free blocks of the pool
  table,      \* table[r]: r's block table
  stage,      \* where r is on its way
  on,         \* on[r]: the prefill worker that has r
  computed,   \* num_computed_tokens
  pcache,     \* pcache[w]: the cache of prefill worker w
  dcache,     \* the cache of the decode worker
  buf,        \* buf[r]: r's PinnedKVBuffer
  stream,     \* transfers queued on the transfer stream: request, block list
  copied,     \* blocks copied of the first of them
  fired,      \* requests whose event has fired
  dpc,        \* main thread and decode thread, in turns
  todo        \* requests the loop of _promote_ready or step() has to visit

poolVars == <<free, table>>
prefillVars == <<on, pcache, buf>>
streamVars == <<stream, copied, fired>>
decodeVars == <<dpc, todo>>
vars == <<poolVars, stage, computed, dcache, prefillVars, streamVars, decodeVars>>

Offsets == 0 .. BlockSize - 1
Tokens == (Requests \X Nat) \cup {Stale}
Cells == [Offsets -> Tokens]
PromptBlocks(r) == (PromptLen[r] + BlockSize - 1) \div BlockSize
OutputLen(r) == computed[r] - PromptLen[r] + 1

(* The sequences that have each element of S once.                         *)
Orders(S) ==
  {q \in [1 .. Cardinality(S) -> S] : IsInjective(q) /\ Range(q) = S}

(* Where position p is found through table t, and what r's cell holds.     *)
BlockAt(t, p) == t[p \div BlockSize + 1]
Found(cache, t, p) == cache[BlockAt(t, p)][p % BlockSize]

(* Each position of P[r], for r in S, stored through r's table.            *)
Stores(S, P, b, o) ==
  {x \in UNION {{r} \X P[r] : r \in S} :
     BlockAt(table[x[1]], x[2]) = b /\ x[2] % BlockSize = o}
AfterStore(cache, S, P) ==
  [b \in Blocks |-> [o \in Offsets |->
     IF Stores(S, P, b, o) = {} THEN cache[b][o]
     ELSE CHOOSE x \in Stores(S, P, b, o) : TRUE]]

In(st) == {r \in Requests : stage[r] = st}
Batch(w, st) == {r \in Requests : on[r] = w /\ stage[r] = st}
Move(S, st) == [r \in Requests |-> IF r \in S THEN st ELSE stage[r]]

(* The tables of S are freed and S has left the worker.                    *)
FreeAfter(S) == free \cup UNION {Range(table[r]) : r \in S}
TableAfter(S) == [r \in Requests |-> IF r \in S THEN <<>> ELSE table[r]]

Init ==
  /\ free = Blocks
  /\ table = [r \in Requests |-> <<>>]
  /\ stage = [r \in Requests |-> "new"]
  /\ on = [r \in Requests |-> CHOOSE w \in Workers : TRUE]
  /\ computed = [r \in Requests |-> 0]
  /\ pcache = [w \in Workers |-> [b \in Blocks |-> [o \in Offsets |-> Stale]]]
  /\ dcache = [b \in Blocks |-> [o \in Offsets |-> Stale]]
  /\ buf = [r \in Requests |-> <<>>]
  /\ stream = <<>> /\ copied = 0 /\ fired = {}
  /\ dpc = "flush" /\ todo = {}
-----------------------------------------------------------------------------
(* A prefill thread.                                                       *)

(* can_allocate and allocate of the next request of the batch.             *)
Allocate(w, r) ==
  /\ stage[r] = "new"
  /\ Batch(w, "stored") = {} /\ Batch(w, "extracted") = {}
  /\ \E t \in [1 .. PromptBlocks(r) -> free] :
       /\ \A i, j \in DOMAIN t : t[i] = t[j] => i = j
       /\ table' = [table EXCEPT ![r] = t]
       /\ free' = free \ Range(t)
  /\ stage' = [stage EXCEPT ![r] = "allocated"]
  /\ on' = [on EXCEPT ![r] = w]
  /\ UNCHANGED <<computed, dcache, pcache, buf, streamVars, decodeVars>>

(* Not enough blocks for the next request: the batch is requeued, or the   *)
(* thread ends with a MemoryError; the blocks it had are in no free list.  *)
Refuse(w, r) ==
  /\ stage[r] = "new"
  /\ Batch(w, "stored") = {} /\ Batch(w, "extracted") = {}
  /\ Cardinality(free) < PromptBlocks(r)
  /\ \E st \in {"new", "gone"} : stage' = Move(Batch(w, "allocated"), st)
  /\ table' = TableAfter(Batch(w, "allocated"))
  /\ UNCHANGED <<free, computed, dcache, prefillVars, streamVars, decodeVars>>

Positions(r) == 0 .. PromptLen[r] - 1

(* The forward pass over the batch stores all prompts in the worker's own  *)
(* cache; reading the sampled token waits for it.                          *)
PrefillForward(w) ==
  LET S == Batch(w, "allocated")
  IN /\ S # {}
     /\ pcache' = [pcache EXCEPT ![w] =
          AfterStore(@, S, [r \in S |-> Positions(r)])]
     /\ computed' = [r \in Requests |-> IF r \in S THEN PromptLen[r] ELSE computed[r]]
     /\ stage' = Move(S, "stored")
     /\ UNCHANGED <<poolVars, dcache, on, buf, streamVars, decodeVars>>

(* extract_kv_to_pinned: block i of the table becomes block i of a buffer  *)
(* of the request's own.                                                   *)
Extract(r) ==
  /\ stage[r] = "stored"
  /\ buf' = [buf EXCEPT ![r] = [i \in DOMAIN table[r] |-> pcache[on[r]][table[r][i]]]]
  /\ stage' = [stage EXCEPT ![r] = "extracted"]
  /\ UNCHANGED <<poolVars, computed, dcache, on, pcache, streamVars, decodeVars>>

(* The whole batch is extracted: the results go to _prefill_done.          *)
Deliver(w) ==
  /\ Batch(w, "extracted") # {} /\ Batch(w, "stored") = {}
  /\ stage' = Move(Batch(w, "extracted"), "done")
  /\ UNCHANGED <<poolVars, computed, dcache, prefillVars, streamVars, decodeVars>>
-----------------------------------------------------------------------------
(* The transfer stream of the decode GPU: transfers in the order queued,   *)
(* of each its blocks one after the other and then its event.              *)

(* Block i comes from the prefill GPU's cache, or from the pinned buffer.  *)
Source(r, t, i) == IF on[r] \in P2P THEN pcache[on[r]][t[i]] ELSE buf[r][i]

CopyBlock ==
  /\ stream # <<>>
  /\ LET r == Head(stream)[1]
         t == Head(stream)[2]
     IN /\ copied < Len(t)
        /\ dcache' = [dcache EXCEPT ![t[copied + 1]] = Source(r, t, copied + 1)]
  /\ copied' = copied + 1
  /\ UNCHANGED <<poolVars, stage, computed, prefillVars, stream, fired, decodeVars>>

FireEvent ==
  /\ stream # <<>>
  /\ copied = Len(Head(stream)[2])
  /\ fired' = fired \cup {Head(stream)[1]}
  /\ stream' = Tail(stream)
  /\ copied' = 0
  /\ UNCHANGED <<poolVars, stage, computed, dcache, prefillVars, decodeVars>>
-----------------------------------------------------------------------------
(* The main thread and, joined within each step, the decode thread.        *)

(* _flush_prefill_done: transfer_kv queues the copies of each finished     *)
(* prefill, receive_kv_async records the event behind them.                *)
Flush ==
  /\ dpc = "flush"
  /\ \E q \in Orders(In("done")) :
       stream' = stream \o [i \in DOMAIN q |-> <<q[i], table[q[i]]>>]
  /\ stage' = Move(In("done"), "pending")
  /\ todo' = In("pending") \cup In("done")
  /\ dpc' = "promote"
  /\ UNCHANGED <<poolVars, computed, dcache, prefillVars, copied, fired>>

Ready_Unchecked(r) == TRUE
Ready(r) == r \in fired

(* _promote_ready asks the event of one pending transfer.                  *)
Promote(r) ==
  /\ dpc \in {"promote", "repromote"}
  /\ r \in todo
  /\ todo' = todo \ {r}
  /\ IF Ready(r)
     THEN stage' = [stage EXCEPT ![r] = "running"] /\ fired' = fired \ {r}
     ELSE UNCHANGED <<stage, fired>>
  /\ UNCHANGED <<poolVars, computed, dcache, prefillVars, stream, copied, dpc>>

PromoteEnd ==
  /\ dpc \in {"promote", "repromote"}
  /\ todo = {}
  /\ dpc' = IF dpc = "promote" /\ In("running") # {} THEN "append" ELSE "enforce"
  /\ todo' = In("running")
  /\ UNCHANGED <<poolVars, stage, computed, dcache, prefillVars, streamVars>>

NeedsBlock(r) == Len(table[r]) < computed[r] \div BlockSize + 1

(* append_slot of the next group: its next position gets a block.          *)
AppendSlot(r) ==
  /\ dpc = "append" /\ r \in todo
  /\ IF NeedsBlock(r)
     THEN \E b \in free : /\ free' = free \ {b}
                          /\ table' = [table EXCEPT ![r] = Append(@, b)]
     ELSE UNCHANGED poolVars
  /\ todo' = todo \ {r}
  /\ UNCHANGED <<stage, computed, dcache, prefillVars, streamVars, dpc>>

Leave(S) ==
  /\ stage' = Move(S, "gone")
  /\ free' = FreeAfter(S)
  /\ table' = TableAfter(S)

Evictable_Pending(r) == stage[r] \in {"pending", "running"}
Evictable(r) == stage[r] = "running"

(* The pool is empty: the step ends and a running request goes.            *)
Evict(victim) ==
  /\ dpc = "append"
  /\ free = {} /\ \E r \in todo : NeedsBlock(r)
  /\ Evictable(victim)
  /\ Leave({victim})
  /\ dpc' = "enforce" /\ todo' = {}
  /\ UNCHANGED <<computed, dcache, prefillVars, streamVars>>

(* The forward pass: each running request stores its next position and     *)
(* attends to all up to it; those that sampled EOS leave, and copies that  *)
(* came through meanwhile are promoted.                                    *)
Forward ==
  LET S == In("running")
  IN /\ dpc = "append" /\ todo = {}
     /\ dcache' = AfterStore(dcache, S, [r \in S |-> {computed[r]}])
     /\ computed' = [r \in Requests |-> IF r \in S THEN computed[r] + 1 ELSE computed[r]]
     /\ \E eos \in SUBSET S :
          /\ Leave(eos)
          /\ dpc' = IF eos = {} THEN "enforce" ELSE "repromote"
          /\ todo' = IF eos = {} THEN {} ELSE In("pending")
     /\ UNCHANGED <<prefillVars, streamVars>>

AtLimit == {r \in In("running") : OutputLen(r) >= MaxTokens}

(* _enforce_max_tokens.                                                    *)
Enforce ==
  /\ dpc = "enforce"
  /\ Leave(AtLimit)
  /\ dpc' = "flush" /\ todo' = {}
  /\ UNCHANGED <<computed, dcache, prefillVars, streamVars>>
-----------------------------------------------------------------------------
Next ==
  \/ \E w \in Workers, r \in Requests : Allocate(w, r) \/ Refuse(w, r)
  \/ \E w \in Workers : PrefillForward(w) \/ Deliver(w)
  \/ \E r \in Requests : Extract(r) \/ Promote(r) \/ AppendSlot(r) \/ Evict(r)
  \/ CopyBlock \/ FireEvent
  \/ Flush \/ PromoteEnd \/ Forward \/ Enforce

Spec == Init /\ [][Next]_vars
-----------------------------------------------------------------------------
(* Types of all variables.                                                 *)
Stages == {"new", "allocated", "stored", "extracted", "done", "pending", "running",
           "gone"}
TypeOK ==
  /\ free \subseteq Blocks
  /\ table \in [Requests -> Seq(Blocks)]
  /\ stage \in [Requests -> Stages]
  /\ on \in [Requests -> Workers]
  /\ computed \in [Requests -> Nat]
  /\ pcache \in [Workers -> [Blocks -> Cells]]
  /\ dcache \in [Blocks -> Cells]
  /\ buf \in [Requests -> Seq(Cells)]
  /\ stream \in Seq(Requests \X Seq(Blocks))
  /\ copied \in Nat
  /\ fired \subseteq In("pending")
  /\ dpc \in {"flush", "promote", "append", "repromote", "enforce"}
  /\ todo \subseteq Requests

(* Decoding reads the request's own keys and values: as long as a request  *)
(* is in the decode batch, the decode worker's cache has, at the place its *)
(* table says, the token of every position it has computed, those of the   *)
(* prompt having come through the prefill worker's cache and the copy.     *)
(* No copy, store, free or reallocation of another request changes that    *)
(* (_promote_ready, transfer_kv, append_slot, free).                       *)
ReadsOwnKV ==
  \A r \in In("running") : \A p \in 0 .. computed[r] - 1 :
    /\ p \div BlockSize < Len(table[r])
    /\ Found(dcache, table[r], p) = <<r, p>>

(* A queued copy never meets a block that has changed hands: the blocks it *)
(* will write still belong to the request it was queued for, nobody        *)
(* decodes from them yet, and what it will read, in the prefill worker's   *)
(* cache or the pinned buffer, is still that request's prompt (transfer_kv *)
(* with non_blocking copies).                                              *)
CopiesSafe ==
  \A i \in DOMAIN stream :
    LET r == stream[i][1]
        t == stream[i][2]
    IN /\ stage[r] = "pending" /\ t = table[r]
       /\ \A p \in Positions(r) :
            Source(r, t, p \div BlockSize + 1)[p % BlockSize] = <<r, p>>
=============================================================================
