---------------------------- MODULE PagedAttention ----------------------------
(***************************************************************************)
(* One layer's attention in a forward pass over a batch: prompts store     *)
(* their keys and values and attend to themselves, decoding sequences      *)
(* store theirs and attend to the cache through FlashInfer or through the  *)
(* repository's own kernel.  The kernel is modelled with its warps: they   *)
(* share the scores in shared memory and meet at __syncthreads().  One     *)
(* CUDA block serves one sequence and head and shares nothing it writes    *)
(* with the others, so it runs for one sequence of the batch, any of them. *)
(*                                                                         *)
(* A key or value is the token it was computed from.  Scores are small     *)
(* natural numbers, exp is any function of them that turns sums into       *)
(* products, and sums are exact: m_sum is kept multiplied by Exp[MaxScore].*)
(***************************************************************************)
EXTENDS PagedForward

CONSTANTS
  Batches,    \* the batches a forward pass may have
  Blocks,     \* block ids, 0 among them
  NumWarps,   \* warps of a CUDA block
  WarpSize,   \* threads of a warp
  MaxScore,   \* scores are below MaxScore, which is that of a foreign key
  Exp         \* exp of what is computed from two scores

ASSUME WarpsAssumption ==
  NumWarps \in Nat \ {0} /\ WarpSize \in Nat \ {0} /\ BlockSize % NumWarps = 0
ASSUME ScoreAssumption == MaxScore \in Nat \ {0}
ASSUME ExpAssumption ==
  /\ Exp \in [0 .. 2 * MaxScore -> Nat \ {0}]
  /\ \A m, n \in DOMAIN Exp : m + n \in DOMAIN Exp => Exp[m + n] = Exp[m] * Exp[n]
ASSUME BlocksAssumption == Blocks \subseteq Nat

(* What the callers hand over in the context of a pass: a table has blocks *)
(* for all positions up to the last one of the pass, and no block is in    *)
(* two places of the tables.                                               *)
WellFormed(b) ==
  LET prompts == Range(b.prefills)
      decoding == Range(b.decodes)
      Apart(t, u) == Range(t) \cap Range(u) = {}
  IN /\ b.prefills \in Seq(prompts) /\ b.decodes \in Seq(decoding)
     /\ \A x \in prompts : /\ x.start \in Nat /\ x.num \in Nat \ {0}
                          /\ x.start + x.num <= Len(x.table) * BlockSize
     /\ \A x \in decoding : x.pos \in Nat /\ x.pos < Len(x.table) * BlockSize
     /\ \A x \in prompts \cup decoding : x.table \in Seq(Blocks) /\ IsInjective(x.table)
     /\ \A i, j \in DOMAIN b.prefills :
          i # j => Apart(b.prefills[i].table, b.prefills[j].table)
     /\ \A i, j \in DOMAIN b.decodes :
          i # j => Apart(b.decodes[i].table, b.decodes[j].table)
     /\ \A x \in prompts, y \in decoding : Apart(x.table, y.table)
ASSUME BatchesAssumption == \A b \in Batches : WellFormed(b)

VARIABLES
  batch,   \* the batch of this pass
  kv,      \* the cache: a token per cell
  attend,  \* attend[row]: the tokens a prompt's row attends to
  pc,      \* what this GPU's stream does next
  next,    \* prefill whose store is next
  run,     \* the decoding sequence whose CUDA block is looked at
  score,   \* score[p]: product of its query with the key of its position p
  sdata,   \* shared memory: <<>> unset, <<score>>, then <<weight, of a sum>>
  wpc,     \* what each warp does next
  win,     \* window of NumWarps tokens a warp works on
  idx,     \* its loop over a window, then over sdata
  l_max, m_sum,   \* its running maximum and denominator
  result   \* result[w]: weighted values as warp w has summed them up

passVars == <<batch, kv, attend, next>>
launchVars == <<run, score>>
warpVars == <<wpc, win, idx, l_max, m_sum>>
vars == <<passVars, pc, launchVars, sdata, warpVars, result>>

Stale == <<>>
Lanes == 0 .. NumWarps - 1

(* The cache before the pass: what the sequences have stored so far.       *)
Had(b) ==
  UNION ({{<<x, q>> : q \in 0 .. x.start - 1} : x \in Range(b.prefills)}
         \cup {{<<x, q>> : q \in 0 .. x.pos - 1} : x \in Range(b.decodes)})
Before(b) ==
  [c \in Blocks \X (0 .. BlockSize - 1) |->
     LET old == {y \in Had(b) : CellOf(y[1].table, y[2]) = c}
     IN IF old = {} THEN Stale ELSE LET y == CHOOSE y \in old : TRUE IN <<y[1].seq, y[2]>>]

Init ==
  /\ batch \in Batches
  /\ kv = Before(batch)
  /\ attend = <<>>
  /\ pc = IF batch.prefills = <<>> THEN "store_decodes" ELSE "store_prefill"
  /\ next = 1
  /\ run = 0 /\ score = <<>> /\ sdata = <<>> /\ result = <<>>
  /\ wpc = [w \in Lanes |-> "idle"]
  /\ win = [w \in Lanes |-> 0] /\ idx = [w \in Lanes |-> 0]
  /\ l_max = [w \in Lanes |-> -1] /\ m_sum = [w \in Lanes |-> 0]
-----------------------------------------------------------------------------
(* Cells and rows of a store, put into the cache.                          *)
AfterStore(S) ==
  [c \in DOMAIN kv |->
     LET rows == {x[2] : x \in {x \in S : x[1] = c}}
     IN IF rows = {} THEN kv[c] ELSE RowToken(batch, CHOOSE row \in rows : TRUE)]

(* paged_kv_store of the next prompt or chunk.                             *)
StorePrefill ==
  /\ pc = "store_prefill"
  /\ kv' = AfterStore(PrefillStore(batch, next))
  /\ next' = next + 1
  /\ pc' = IF next = Len(batch.prefills) THEN "attend" ELSE pc
  /\ UNCHANGED <<batch, attend, launchVars, sdata, warpVars, result>>

(* Attention of the prompts' rows, by the mask and not through the cache.  *)
AttendPrefill ==
  /\ pc = "attend"
  /\ attend' = [row \in 0 .. NumPrefill(batch) - 1 |->
                  {RowToken(batch, col) : col \in Visible(batch, row)}]
  /\ pc' = IF batch.decodes = <<>> THEN "end" ELSE "store_decodes"
  /\ UNCHANGED <<batch, kv, next, launchVars, sdata, warpVars, result>>

(* paged_kv_store of the decoding sequences.                               *)
StoreDecodes ==
  /\ pc = "store_decodes"
  /\ kv' = AfterStore(DecodeStore(batch))
  /\ pc' = "launch"
  /\ UNCHANGED <<batch, attend, next, launchVars, sdata, warpVars, result>>

(* The query of a decoding sequence meets the keys of its own positions    *)
(* with some scores, and any other key with MaxScore.                      *)
Query(i) ==
  /\ pc = "launch"
  /\ run' = i
  /\ score' \in [0 .. batch.decodes[i].pos -> 0 .. MaxScore - 1]
ScoreOf(sc, i, token) ==
  IF token # Stale /\ token[1] = batch.decodes[i].seq /\ token[2] \in DOMAIN sc
  THEN sc[token[2]] ELSE MaxScore

(* FlashInfer: the softmax over the cells its page metadata describe.      *)
RunFlashInfer(i) ==
  /\ Query(i)
  /\ LET cells == PageCells(PageMetadata(BlockTables(batch), SeqLens(batch)), i)
         n == Cardinality(DOMAIN cells)
         e == [p \in DOMAIN cells |-> Exp[ScoreOf(score', i, kv[cells[p]])]]
         sum == SumTo([k \in 1 .. n |-> e[k - 1]], n)
     IN result' = [w \in Lanes |-> [p \in DOMAIN cells |-> <<kv[cells[p]], e[p], sum>>]]
  /\ pc' = "end"
  /\ UNCHANGED <<passVars, sdata, warpVars>>
-----------------------------------------------------------------------------
(* The kernel of the repository.                                           *)
len == SeqLens(batch)[run]
Found(p) == kv[CellOf(BlockTables(batch)[run], p)]
Windows == CeilDiv(len, BlockSize) * (BlockSize \div NumWarps)

Launch(i) ==
  /\ Query(i)
  /\ sdata' = [p \in 0 .. SeqLens(batch)[i] - 1 |-> <<>>]
  /\ wpc' = [w \in Lanes |-> "dot"]
  /\ pc' = "kernel"
  /\ UNCHANGED <<passVars, win, idx, l_max, m_sum, result>>

Goto(w, label) == wpc' = [wpc EXCEPT ![w] = label]

(* Warp w multiplies the query with the key of its token of the window.    *)
Dot(w) ==
  LET p == win[w] * NumWarps + w
  IN /\ wpc[w] = "dot"
     /\ sdata' = IF p < len THEN [sdata EXCEPT ![p] = <<ScoreOf(score, run, Found(p))>>]
                 ELSE sdata
     /\ Goto(w, "sync_scores")
     /\ UNCHANGED <<passVars, pc, launchVars, win, idx, l_max, m_sum, result>>

(* __syncthreads(): nobody goes on before everybody has come.              *)
Meet(at) == \A w \in Lanes : wpc[w] = at
Sync ==
  /\ \E at \in {"sync_scores", "sync_weights"} :
       /\ Meet(at)
       /\ wpc' = [w \in Lanes |-> IF at = "sync_scores" THEN "fold" ELSE "gather"]
  /\ UNCHANGED <<passVars, pc, launchVars, sdata, win, idx, l_max, m_sum, result>>

(* What is read as a score; a weight, or what shared memory held before,   *)
(* is read as one or the other small number.                               *)
Read(p) == IF Len(sdata[p]) = 1 THEN {sdata[p][1]} ELSE {0, 1}

(* The denominator after one more score, under a maximum that may grow.    *)
Rescaled_Never(sum, old, new) == sum
Rescaled(sum, old, new) == sum \div Exp[new - old]

(* Every warp folds the window's next score into its own maximum and sum;  *)
(* after the last window there is no barrier before the weights.           *)
Fold(w) ==
  LET p == win[w] * NumWarps + idx[w]
      last == idx[w] = NumWarps - 1
  IN /\ wpc[w] = "fold"
     /\ IF p < len
        THEN \E s \in Read(p) :
               LET new == IF s > l_max[w] THEN s ELSE l_max[w]
               IN /\ l_max' = [l_max EXCEPT ![w] = new]
                  /\ m_sum' = [m_sum EXCEPT ![w] =
                       Rescaled(@, l_max[w], new) + Exp[MaxScore + s - new]]
        ELSE UNCHANGED <<l_max, m_sum>>
     /\ idx' = [idx EXCEPT ![w] = IF last THEN 0 ELSE @ + 1]
     /\ win' = [win EXCEPT ![w] = IF last THEN @ + 1 ELSE @]
     /\ CASE ~last -> UNCHANGED wpc
          [] last /\ win[w] + 1 < Windows -> Goto(w, "dot")
          [] OTHER -> Goto(w, "weigh")
     /\ UNCHANGED <<passVars, pc, launchVars, sdata, result>>

(* Its threads turn their scores into weights, in place, and again a block *)
(* of threads further on.                                                  *)
MoreWeights_Once(i) == FALSE
MoreWeights(i) == i < len
Weigh(w) ==
  LET mine == {p \in DOMAIN sdata : (p - idx[w]) \div WarpSize = w}
  IN /\ wpc[w] = "weigh"
     /\ sdata' = [p \in DOMAIN sdata |->
          IF p \in mine THEN <<Exp[MaxScore + sdata[p][1] - l_max[w]], m_sum[w]>>
          ELSE sdata[p]]
     /\ idx' = [idx EXCEPT ![w] = @ + NumWarps * WarpSize]
     /\ IF MoreWeights(idx'[w]) THEN UNCHANGED wpc ELSE Goto(w, "sync_weights")
     /\ UNCHANGED <<passVars, pc, launchVars, win, l_max, m_sum, result>>

(* Its threads add up the values of all positions for their part of the    *)
(* head, and write it out.                                                 *)
Gather(w) ==
  /\ wpc[w] = "gather"
  /\ result' = [v \in DOMAIN result \cup {w} |->
       IF v = w THEN [p \in DOMAIN sdata |-> <<Found(p)>> \o sdata[p]] ELSE result[v]]
  /\ Goto(w, "done")
  /\ pc' = IF \A v \in Lanes : wpc'[v] = "done" THEN "end" ELSE pc
  /\ UNCHANGED <<passVars, launchVars, sdata, win, idx, l_max, m_sum>>
-----------------------------------------------------------------------------
Next ==
  \/ StorePrefill \/ AttendPrefill \/ StoreDecodes
  \/ \E i \in DOMAIN batch.decodes : RunFlashInfer(i) \/ Launch(i)
  \/ \E w \in Lanes : Dot(w) \/ Fold(w) \/ Weigh(w) \/ Gather(w)
  \/ Sync

Spec == Init /\ [][Next]_vars
-----------------------------------------------------------------------------
(* Types of all variables.  A warp that has come to the weights has a      *)
(* denominator to divide by, and one that sums values up finds a weight at *)
(* every position.                                                         *)
TypeOK ==
  /\ batch \in Batches
  /\ kv \in [Blocks \X (0 .. BlockSize - 1) -> Range(Rows(batch)) \cup Range(Before(batch))]
  /\ pc \in {"store_prefill", "attend", "store_decodes", "launch", "kernel", "end"}
  /\ next \in 1 .. Len(batch.prefills) + 1
  /\ run \in 0 .. Len(batch.decodes)
  /\ \A p \in DOMAIN sdata : sdata[p] \in Seq(Nat) /\ Len(sdata[p]) <= 2
  /\ wpc \in [Lanes -> {"idle", "dot", "sync_scores", "fold", "weigh", "sync_weights",
                        "gather", "done"}]
  /\ win \in [Lanes -> Nat] /\ idx \in [Lanes -> Nat]
  /\ l_max \in [Lanes -> -1 .. MaxScore] /\ m_sum \in [Lanes -> Nat]
  /\ DOMAIN result \subseteq Lanes
  /\ \A w \in Lanes : wpc[w] \in {"weigh", "sync_weights", "gather", "done"} => m_sum[w] > 0
  /\ \A w \in Lanes, p \in DOMAIN sdata : wpc[w] = "gather" => Len(sdata[p]) = 2

(* A row of a prompt attends to the tokens of its own prompt (of its own   *)
(* chunk, if it is one) up to itself, all of them and nothing else,        *)
(* whatever else is in the batch (the mask of paged_forward).              *)
PromptsAttendOwn ==
  attend # <<>> =>
    \A j \in DOMAIN batch.prefills : \A i \in 0 .. batch.prefills[j].num - 1 :
      LET x == batch.prefills[j]
      IN attend[Offset(batch, j) + i] = {<<x.seq, q>> : q \in x.start .. x.start + i}

(* When a forward pass has stored, every sequence finds every position it  *)
(* has computed through its own block table: no store went to another's    *)
(* block, into the padding or over an older position (paged_kv_store).     *)
StoresLand ==
  pc \in {"launch", "kernel", "end"} =>
    /\ \A x \in Range(batch.prefills) : \A p \in 0 .. x.start + x.num - 1 :
         kv[CellOf(x.table, p)] = <<x.seq, p>>
    /\ \A x \in Range(batch.decodes) : \A p \in 0 .. x.pos :
         kv[CellOf(x.table, p)] = <<x.seq, p>>

(* The values of the positions 0 .. pos of its own, each with weight       *)
(* exp(score) over the sum of them all: ref_paged_attention.               *)
IsSoftmax(out) ==
  LET x == batch.decodes[run]
      n == x.pos + 1
      sum == SumTo([k \in 1 .. n |-> Exp[score[k - 1]]], n)
  IN /\ DOMAIN out = 0 .. x.pos
     /\ \A p \in DOMAIN out : /\ out[p][1] = <<x.seq, p>>
                              /\ out[p][2] * sum = Exp[score[p]] * out[p][3]

(* Scores of the last window are read and overwritten without a barrier in *)
(* between, unless that window has none.                                   *)
LastWindowEmpty == len <= (Windows - 1) * NumWarps
KernelRan == wpc[0] # "idle"

(* A decoding sequence's attention is the softmax over its own positions,  *)
(* whichever backend computes it and however the warps are scheduled, with *)
(* the repository's kernel as far as its barriers go (run_kernel,          *)
(* _build_page_metadata, paged_attention_kernel).                          *)
DecodeExact ==
  pc = "end" /\ run # 0 /\ (KernelRan => LastWindowEmpty) =>
    \A w \in Lanes : IsSoftmax(result[w])

(* What test_paged_attention.py expects of the kernel for every length.    *)
DecodeAlwaysExact ==
  pc = "end" /\ run # 0 => \A w \in Lanes : IsSoftmax(result[w])

(* The next token of a prompt comes from the row of its last token, that   *)
(* of a decoding sequence from the row of the token fed to it (step,       *)
(* prefill_batch).                                                         *)
SamplesLast ==
  /\ \A j \in DOMAIN batch.prefills :
       LET x == batch.prefills[j]
       IN RowToken(batch, PrefillSample(batch, j)) = <<x.seq, x.start + x.num - 1>>
  /\ \A i \in DOMAIN batch.decodes :
       RowToken(batch, DecodeSample(batch, i)) = <<batch.decodes[i].seq, batch.decodes[i].pos>>
=============================================================================
