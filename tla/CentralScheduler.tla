--------------------------- MODULE CentralScheduler ---------------------------
(***************************************************************************)
(* The router loop over one collocated worker, several prefill workers and *)
(* one decode worker: the main thread (pc), a thread per fired prefill     *)
(* batch (wpc), and in every step one thread per path (cpc, dpc).  The     *)
(* prefill threads run on while the main thread loops; the step threads    *)
(* are joined.  The prefill workers and the decode worker share one block  *)
(* pool, whose blocks are counted here (BlockManager names them).          *)
(***************************************************************************)
EXTENDS Integers, Sequences, FiniteSets, SequencesExt

CONSTANTS
  Requests,        \* request ids
  Workers,         \* prefill workers
  Routes,          \* Routes[r]: the paths the router may choose for r
  PromptLen,       \* PromptLen[r]: number of prompt tokens
  BlockSize,       \* tokens per block
  NumBlocks,       \* blocks of the shared pool
  Reserve,         \* blocks that dispatch leaves for decoding (16 in the code)
  MaxDecodeBatch,  \* MAX_DECODE_BATCH
  MaxBatch,        \* Scheduler.max_batch_size of the collocated engine
  MaxTokens        \* max_new_tokens

Paths == {"collocated", "disaggregated"}

ASSUME RequestsAssumption == IsFiniteSet(Requests)
ASSUME WorkersAssumption == IsFiniteSet(Workers)
ASSUME RoutesAssumption == Routes \in [Requests -> (SUBSET Paths) \ {{}}]
ASSUME PromptLenAssumption == PromptLen \in [Requests -> Nat \ {0}]
ASSUME SizesAssumption ==
  /\ BlockSize \in Nat \ {0} /\ NumBlocks \in Nat /\ Reserve \in Nat
  /\ MaxDecodeBatch \in Nat /\ MaxBatch \in Nat \ {0} /\ MaxTokens \in Nat \ {0}

VARIABLES
  arrived,   \* ghost: requests that were added
  pc,        \* the main thread
  waiting,   \* CentralScheduler._waiting
  pos,       \* position of the dispatch loop in waiting
  claim,     \* disaggregated_groups of this dispatch
  seen,      \* keys of _states when the length check began to iterate
  visit,     \* the keys it has still to visit
  known,     \* keys of _states
  path,      \* _RequestState.path
  out,       \* len(_RequestState.output_token_ids)
  fin,       \* _RequestState.finished
  free,      \* free blocks of the shared pool
  held,      \* held[r]: blocks in the table of seq_id r
  batch,     \* batch[w]: the groups of prefill thread w
  wpc,       \* prefill thread w
  wpos,      \* the group it works on
  got,       \* blocks allocate() has popped for that group
  done,      \* _prefill_done
  seqOut,    \* len(Sequence.output_token_ids) on the disaggregated path
  pending,   \* DecodeWorker._pending
  copied,    \* those whose copy event has fired
  dwRun,     \* DecodeWorker.running
  dpc,       \* thread _step_disaggregated
  dpos,      \* the group whose append_slot is next
  cpc,       \* thread _step_collocated
  cwWait,    \* waiting queue of the collocated engine
  cwRun,     \* its running groups
  cwStop,    \* those of them with status FINISHED_STOPPED
  cwFin,     \* its finished groups
  cwOut      \* len(Sequence.output_token_ids) there

mainVars == <<arrived, pc, pos, claim, seen, visit>>
stateVars == <<known, path, out, fin>>
poolVars == <<free, held>>
prefillVars == <<batch, wpc, wpos, got, done>>
decodeVars == <<seqOut, pending, copied, dwRun, dpc, dpos>>
collVars == <<cpc, cwWait, cwRun, cwStop, cwFin, cwOut>>
vars == <<mainVars, waiting, stateVars, poolVars, prefillVars, decodeVars, collVars>>

PromptBlocks(r) == (PromptLen[r] + BlockSize - 1) \div BlockSize
Computed(r) == PromptLen[r] + seqOut[r] - 1     \* num_computed_tokens
Alive(w) == wpc[w] # "idle"

(* f[x] things for each x of S, counted.                                   *)
Things(f, S) == UNION {{x} \X (1 .. f[x]) : x \in S}
Sum(f, S) == Cardinality(Things(f, S))

(* The elements of q that are in S, in their order: SelectSeq, as a        *)
(* function that a proof can unfold.                                       *)
Kept(q, S) == {i \in DOMAIN q : q[i] \in S}
Rank(K, i) == Cardinality({j \in K : j <= i})
Keep(q, S) ==
  [n \in 1 .. Cardinality(Kept(q, S)) |->
     q[CHOOSE i \in Kept(q, S) : Rank(Kept(q, S), i) = n]]

(* The tables of S are freed; the requests of S have their result.         *)
FreeAfter_Lost(S) == free
FreeAfter(S) == free + Sum(held, S)
HeldAfter_Kept(S) == held
HeldAfter(S) == [r \in Requests |-> IF r \in S THEN 0 ELSE held[r]]
FinAfter(S) == [r \in Requests |-> fin[r] \/ r \in S \cap known]

Init ==
  /\ arrived = {} /\ pc = "check" /\ waiting = <<>>
  /\ pos = 1 /\ claim = <<>> /\ seen = {} /\ visit = {}
  /\ known = {}
  /\ path = [r \in Requests |-> "collocated"]
  /\ out = [r \in Requests |-> 0]
  /\ fin = [r \in Requests |-> FALSE]
  /\ free = NumBlocks
  /\ held = [r \in Requests |-> 0]
  /\ batch = [w \in Workers |-> <<>>]
  /\ wpc = [w \in Workers |-> "idle"]
  /\ wpos = [w \in Workers |-> 1]
  /\ got = [w \in Workers |-> 0]
  /\ done = <<>>
  /\ seqOut = [r \in Requests |-> 0]
  /\ pending = <<>> /\ copied = {} /\ dwRun = <<>>
  /\ dpc = "off" /\ dpos = 1 /\ cpc = "off"
  /\ cwWait = <<>> /\ cwRun = {} /\ cwStop = {} /\ cwFin = {}
  /\ cwOut = [r \in Requests |-> 0]
-----------------------------------------------------------------------------
(* Main thread, between two steps.                                         *)

AddRequest(r) ==
  /\ pc = "check"
  /\ r \notin arrived
  /\ arrived' = arrived \cup {r}
  /\ waiting' = Append(waiting, r)
  /\ UNCHANGED <<pc, pos, claim, seen, visit, stateVars, poolVars, prefillVars,
                 decodeVars, collVars>>

(* _all_done looks at _waiting first ...                                   *)
CheckWaiting ==
  /\ pc = "check"
  /\ arrived # {}
  /\ pc' = IF waiting = <<>> THEN "check1" ELSE "dispatch"
  /\ UNCHANGED <<arrived, pos, claim, seen, visit, waiting, stateVars, poolVars,
                 prefillVars, decodeVars, collVars>>

(* ... then whether there are states ...                                   *)
CheckStates ==
  /\ pc = "check1"
  /\ pc' = IF known # {} THEN "check2" ELSE "dispatch"
  /\ UNCHANGED <<arrived, pos, claim, seen, visit, waiting, stateVars, poolVars,
                 prefillVars, decodeVars, collVars>>

(* ... and then at the threads, _prefill_done and _states.  Once no thread *)
(* is alive nothing changes under it.                                      *)
CheckRest ==
  /\ pc = "check2"
  /\ pc' = IF /\ \A w \in Workers : ~ Alive(w)
              /\ done = <<>>
              /\ \A r \in known : fin[r]
           THEN "done" ELSE "dispatch"
  /\ UNCHANGED <<arrived, pos, claim, seen, visit, waiting, stateVars, poolVars,
                 prefillVars, decodeVars, collVars>>
-----------------------------------------------------------------------------
(* Main thread, _dispatch_waiting.                                         *)

Dispatch ==
  /\ pc = "dispatch"
  /\ pc' = IF waiting = <<>> THEN "flush" ELSE "route"
  /\ pos' = 1
  /\ claim' = <<>>
  /\ UNCHANGED <<arrived, seen, visit, waiting, stateVars, poolVars, prefillVars,
                 decodeVars, collVars>>

(* decode_batch_size: what decodes, what is being copied, and what this    *)
(* dispatch has added.                                                     *)
DecodeLoad == Len(dwRun) + Len(pending) + Len(claim)

AllowedPaths(r) ==
  IF DecodeLoad >= MaxDecodeBatch THEN {"collocated"} ELSE Routes[r]

(* One turn of the loop over _waiting: a new state for the request, and a  *)
(* place in the collocated engine or in the batch for prefill.             *)
RouteOne ==
  /\ pc = "route"
  /\ pos <= Len(waiting)
  /\ LET r == waiting[pos]
     IN \E p \in AllowedPaths(r) :
          /\ known' = known \cup {r}
          /\ path' = [path EXCEPT ![r] = p]
          /\ out' = [out EXCEPT ![r] = 0]
          /\ fin' = [fin EXCEPT ![r] = FALSE]
          /\ IF p = "collocated"
             THEN cwWait' = Append(cwWait, r) /\ UNCHANGED claim
             ELSE claim' = Append(claim, r) /\ UNCHANGED cwWait
  /\ pos' = pos + 1
  /\ UNCHANGED <<arrived, pc, seen, visit, waiting, poolVars, prefillVars,
                 decodeVars, cpc, cwRun, cwStop, cwFin, cwOut>>

(* The iteration has met the end of the list.                              *)
RouteEnd ==
  /\ pc = "route"
  /\ pos > Len(waiting)
  /\ pc' = "clear"
  /\ UNCHANGED <<arrived, pos, claim, seen, visit, waiting, stateVars, poolVars,
                 prefillVars, decodeVars, collVars>>

Clear_Forgotten ==
  /\ pc = "clear"
  /\ pc' = IF claim = <<>> THEN "flush" ELSE "fire"
  /\ UNCHANGED <<arrived, pos, claim, seen, visit, waiting, stateVars, poolVars,
                 prefillVars, decodeVars, collVars>>

(* _waiting.clear(): also what was appended since the iteration ended.     *)
Clear ==
  /\ pc = "clear"
  /\ waiting' = <<>>
  /\ pc' = IF claim = <<>> THEN "flush" ELSE "fire"
  /\ UNCHANGED <<arrived, pos, claim, seen, visit, stateVars, poolVars, prefillVars,
                 decodeVars, collVars>>

Needed == FoldSeq(LAMBDA r, n : PromptBlocks(r) + n, 0, claim)
Room == free >= Needed + Reserve

(* An idle worker and enough blocks: its thread starts on the batch.       *)
Fire(w) ==
  /\ pc = "fire"
  /\ ~ Alive(w)
  /\ Room
  /\ batch' = [batch EXCEPT ![w] = claim]
  /\ wpc' = [wpc EXCEPT ![w] = "check"]
  /\ wpos' = [wpos EXCEPT ![w] = 1]
  /\ claim' = <<>>
  /\ pc' = "flush"
  /\ UNCHANGED <<arrived, pos, seen, visit, waiting, stateVars, poolVars, got, done,
                 decodeVars, collVars>>

Requeue_ThenClear ==
  /\ pc = "fire"
  /\ ~ Room \/ \A w \in Workers : Alive(w)
  /\ waiting' = <<>>
  /\ known' = known \ Range(claim)
  /\ claim' = <<>>
  /\ pc' = "flush"
  /\ UNCHANGED <<arrived, pos, seen, visit, path, out, fin, poolVars, prefillVars,
                 decodeVars, collVars>>

Requeue_KeepsStates ==
  /\ pc = "fire"
  /\ ~ Room \/ \A w \in Workers : Alive(w)
  /\ waiting' = waiting \o claim
  /\ claim' = <<>>
  /\ pc' = "flush"
  /\ UNCHANGED <<arrived, pos, seen, visit, stateVars, poolVars, prefillVars,
                 decodeVars, collVars>>

(* No idle worker or not enough blocks: _requeue puts the batch back and   *)
(* forgets its states.                                                     *)
Requeue ==
  /\ pc = "fire"
  /\ ~ Room \/ \A w \in Workers : Alive(w)
  /\ waiting' = waiting \o claim
  /\ known' = known \ Range(claim)
  /\ claim' = <<>>
  /\ pc' = "flush"
  /\ UNCHANGED <<arrived, pos, seen, visit, path, out, fin, poolVars, prefillVars,
                 decodeVars, collVars>>

(* _flush_prefill_done: each finished prefill whose state is still there   *)
(* gets its first token and starts its copy to the decode worker.  Then    *)
(* the two threads of the step start.                                      *)
Flush ==
  LET live == Keep(done, known)
  IN /\ pc = "flush"
     /\ done' = <<>>
     /\ out' = [r \in Requests |-> IF r \in Range(live) THEN out[r] + 1 ELSE out[r]]
     /\ pending' = pending \o live
     /\ pc' = "step"
     /\ dpc' = "start" /\ cpc' = "start"
     /\ UNCHANGED <<arrived, pos, claim, seen, visit, waiting, known, path, fin,
                    poolVars, batch, wpc, wpos, got, seqOut, copied, dwRun, dpos,
                    cwWait, cwRun, cwStop, cwFin, cwOut>>

(* Both threads are joined; _enforce_max_tokens starts to iterate.         *)
Join ==
  /\ pc = "step"
  /\ dpc = "off" /\ cpc = "off"
  /\ pc' = "enforce"
  /\ seen' = known
  /\ visit' = known
  /\ UNCHANGED <<arrived, pos, claim, waiting, stateVars, poolVars, prefillVars,
                 decodeVars, collVars>>
-----------------------------------------------------------------------------
(* Main thread, _enforce_max_tokens over _states.items().                  *)

SizeChanged == Cardinality(known) # Cardinality(seen)

(* A request on the collocated path at its limit is stopped in place.      *)
EnforceCollocated(r) ==
  /\ pc = "enforce" /\ ~ SizeChanged
  /\ r \in visit /\ path[r] = "collocated"
  /\ visit' = visit \ {r}
  /\ IF ~ fin[r] /\ r \in cwRun \ cwStop /\ cwOut[r] >= MaxTokens
     THEN /\ out' = [out EXCEPT ![r] = cwOut[r]]
          /\ cwStop' = cwStop \cup {r}
          /\ fin' = [fin EXCEPT ![r] = TRUE]
     ELSE UNCHANGED <<out, cwStop, fin>>
  /\ UNCHANGED <<arrived, pc, pos, claim, seen, waiting, known, path, poolVars,
                 prefillVars, decodeVars, cpc, cwWait, cwRun, cwFin, cwOut>>

AtLimit_OffByOne(r) == ~ fin[r] /\ out[r] > MaxTokens
AtLimit(r) == ~ fin[r] /\ out[r] >= MaxTokens
Leaves_Never(r) == FALSE
Leaves(r) == AtLimit(r) /\ r \in Range(dwRun)

(* On the disaggregated path it is finished, and if it is being decoded it *)
(* leaves the batch and frees its blocks.                                  *)
EnforceDisaggregated(r) ==
  /\ pc = "enforce" /\ ~ SizeChanged
  /\ r \in visit /\ path[r] = "disaggregated"
  /\ visit' = visit \ {r}
  /\ fin' = [fin EXCEPT ![r] = @ \/ AtLimit(r)]
  /\ dwRun' = IF Leaves(r) THEN Keep(dwRun, Requests \ {r}) ELSE dwRun
  /\ free' = FreeAfter(IF Leaves(r) THEN {r} ELSE {})
  /\ held' = HeldAfter(IF Leaves(r) THEN {r} ELSE {})
  /\ UNCHANGED <<arrived, pc, pos, claim, seen, waiting, known, path, out,
                 prefillVars, seqOut, pending, copied, dpc, dpos, collVars>>

EnforceEnd ==
  /\ pc = "enforce" /\ ~ SizeChanged
  /\ visit = {}
  /\ pc' = "check"
  /\ UNCHANGED <<arrived, pos, claim, seen, visit, waiting, stateVars, poolVars,
                 prefillVars, decodeVars, collVars>>

(* A prefill thread popped a state meanwhile: "dictionary changed size     *)
(* during iteration" ends the main thread.                                 *)
EnforceCrash ==
  /\ pc = "enforce" /\ SizeChanged
  /\ pc' = "crashed"
  /\ UNCHANGED <<arrived, pos, claim, seen, visit, waiting, stateVars, poolVars,
                 prefillVars, decodeVars, collVars>>

Main ==
  \/ CheckWaiting \/ CheckStates \/ CheckRest
  \/ Dispatch \/ RouteOne \/ RouteEnd \/ Clear
  \/ (\E w \in Workers : Fire(w)) \/ Requeue
  \/ Flush \/ Join
  \/ \E r \in Requests : EnforceCollocated(r) \/ EnforceDisaggregated(r)
  \/ EnforceEnd \/ EnforceCrash
-----------------------------------------------------------------------------
(* Thread of prefill worker w, _prefill_task.                              *)

Group(w) == batch[w][wpos[w]]

(* can_allocate of the next group: yes, or AssertionError.                 *)
PrefillCheck(w) ==
  /\ wpc[w] = "check"
  /\ wpc' = [wpc EXCEPT ![w] = IF free >= PromptBlocks(Group(w)) THEN "pop"
                                                                ELSE "requeue"]
  /\ wpos' = IF free >= PromptBlocks(Group(w)) THEN wpos
                                               ELSE [wpos EXCEPT ![w] = 1]
  /\ UNCHANGED <<mainVars, waiting, stateVars, poolVars, batch, got, done,
                 decodeVars, collVars>>

(* allocate() pops one block.                                              *)
PrefillPop(w) ==
  /\ wpc[w] = "pop"
  /\ got[w] < PromptBlocks(Group(w))
  /\ free > 0
  /\ free' = free - 1
  /\ got' = [got EXCEPT ![w] = @ + 1]
  /\ UNCHANGED <<mainVars, waiting, stateVars, held, batch, wpc, wpos, done,
                 decodeVars, collVars>>

(* allocate() finds the pool empty: MemoryError ends the thread, and the   *)
(* batch with it.                                                          *)
PrefillOOM(w) ==
  /\ wpc[w] = "pop"
  /\ got[w] < PromptBlocks(Group(w))
  /\ free = 0
  /\ wpc' = [wpc EXCEPT ![w] = "idle"]
  /\ batch' = [batch EXCEPT ![w] = <<>>]
  /\ got' = [got EXCEPT ![w] = 0]
  /\ UNCHANGED <<mainVars, waiting, stateVars, poolVars, wpos, done,
                 decodeVars, collVars>>

(* The list is complete and becomes the table of this seq_id, whatever     *)
(* table it had before.                                                    *)
PrefillTable(w) ==
  /\ wpc[w] = "pop"
  /\ got[w] = PromptBlocks(Group(w))
  /\ held' = [held EXCEPT ![Group(w)] = got[w]]
  /\ got' = [got EXCEPT ![w] = 0]
  /\ wpos' = [wpos EXCEPT ![w] = @ + 1]
  /\ wpc' = [wpc EXCEPT ![w] = IF wpos[w] = Len(batch[w]) THEN "forward" ELSE "check"]
  /\ UNCHANGED <<mainVars, waiting, stateVars, free, batch, done,
                 decodeVars, collVars>>

(* The forward pass over the whole batch, one sampled token per group, and *)
(* the results in _prefill_done.                                           *)
PrefillForward(w) ==
  /\ wpc[w] = "forward"
  /\ seqOut' = [r \in Requests |-> IF r \in Range(batch[w]) THEN 1 ELSE seqOut[r]]
  /\ done' = done \o batch[w]
  /\ wpc' = [wpc EXCEPT ![w] = "idle"]
  /\ batch' = [batch EXCEPT ![w] = <<>>]
  /\ UNCHANGED <<mainVars, waiting, stateVars, poolVars, wpos, got,
                 pending, copied, dwRun, dpc, dpos, collVars>>

(* _requeue of the batch, group by group: first into _waiting ...          *)
PrefillRequeue(w) ==
  /\ wpc[w] = "requeue"
  /\ waiting' = Append(waiting, Group(w))
  /\ wpc' = [wpc EXCEPT ![w] = "forget"]
  /\ UNCHANGED <<mainVars, stateVars, poolVars, batch, wpos, got, done,
                 decodeVars, collVars>>

(* ... then out of _states.                                                *)
PrefillForget(w) ==
  /\ wpc[w] = "forget"
  /\ known' = known \ {Group(w)}
  /\ wpos' = [wpos EXCEPT ![w] = @ + 1]
  /\ IF wpos[w] = Len(batch[w])
     THEN wpc' = [wpc EXCEPT ![w] = "idle"] /\ batch' = [batch EXCEPT ![w] = <<>>]
     ELSE wpc' = [wpc EXCEPT ![w] = "requeue"] /\ UNCHANGED batch
  /\ UNCHANGED <<mainVars, waiting, path, out, fin, poolVars, got, done,
                 decodeVars, collVars>>

Prefill(w) ==
  \/ PrefillCheck(w) \/ PrefillPop(w) \/ PrefillOOM(w) \/ PrefillTable(w)
  \/ PrefillForward(w) \/ PrefillRequeue(w) \/ PrefillForget(w)
-----------------------------------------------------------------------------
(* The decode worker's GPU and the thread _step_disaggregated.             *)

(* A copy on the transfer stream is through: its event fires.  The events  *)
(* fire in order, but promotion queries them one after the other and may   *)
(* find a later one fired and an earlier one not yet.                      *)
CopyDone(r) ==
  /\ r \in Range(pending) \ copied
  /\ copied' = copied \cup {r}
  /\ UNCHANGED <<mainVars, waiting, stateVars, poolVars, prefillVars, seqOut, pending,
                 dwRun, dpc, dpos, collVars>>

Ready == Keep(pending, copied)
NotReady == Keep(pending, Requests \ copied)

DecodeStart_KeepsEvents ==
  /\ dpc = "start"
  /\ dwRun' = dwRun \o Ready
  /\ pending' = NotReady
  /\ dpos' = 1
  /\ dpc' = IF dwRun' = <<>> THEN "off" ELSE "append"
  /\ UNCHANGED <<mainVars, waiting, stateVars, poolVars, prefillVars, seqOut, copied,
                 collVars>>

(* dw.step: promote what was copied; nothing to decode ends the step.      *)
DecodeStart ==
  /\ dpc = "start"
  /\ dwRun' = dwRun \o Ready
  /\ pending' = NotReady
  /\ copied' = {}
  /\ dpos' = 1
  /\ dpc' = IF dwRun' = <<>> THEN "off" ELSE "append"
  /\ UNCHANGED <<mainVars, waiting, stateVars, poolVars, prefillVars, seqOut, collVars>>

NeedsBlock_Late(r) == held[r] < (Computed(r) - 1) \div BlockSize + 1
NeedsBlock(r) == held[r] < Computed(r) \div BlockSize + 1

(* append_slot of the next group of the batch.                             *)
DecodeAppend ==
  /\ dpc = "append"
  /\ dpos <= Len(dwRun)
  /\ IF NeedsBlock(dwRun[dpos])
     THEN /\ free > 0
          /\ free' = free - 1
          /\ held' = [held EXCEPT ![dwRun[dpos]] = @ + 1]
     ELSE UNCHANGED poolVars
  /\ dpos' = dpos + 1
  /\ UNCHANGED <<mainVars, waiting, stateVars, prefillVars, seqOut, pending, copied,
                 dwRun, dpc, collVars>>

(* append_slot finds the pool empty: the step ends, and the oldest running *)
(* group is finished and gives its blocks back.                            *)
DecodeEvict ==
  LET victim == Head(dwRun)
  IN /\ dpc = "append"
     /\ dpos <= Len(dwRun)
     /\ NeedsBlock(dwRun[dpos])
     /\ free = 0
     /\ dwRun' = Tail(dwRun)
     /\ free' = FreeAfter({victim})
     /\ held' = HeldAfter({victim})
     /\ fin' = FinAfter({victim})
     /\ dpc' = "off"
     /\ UNCHANGED <<mainVars, waiting, known, path, out, prefillVars, seqOut, pending,
                    copied, dpos, collVars>>

(* The forward pass: a token for each group of the batch.  Those that      *)
(* sampled EOS leave the batch and free their blocks; then copies that     *)
(* came through meanwhile are promoted.  The tokens are recorded in the    *)
(* states that are still there.                                            *)
DecodeForward ==
  /\ dpc = "append"
  /\ dpos > Len(dwRun)
  /\ \E eos \in SUBSET Range(dwRun) :
       LET stay == Keep(dwRun, Requests \ eos)
       IN /\ seqOut' = [r \in Requests |->
               IF r \in Range(dwRun) THEN seqOut[r] + 1 ELSE seqOut[r]]
          /\ out' = [r \in Requests |->
               IF r \in Range(dwRun) \cap known THEN out[r] + 1 ELSE out[r]]
          /\ fin' = FinAfter(eos)
          /\ free' = FreeAfter(eos)
          /\ held' = HeldAfter(eos)
          /\ IF eos = {}
             THEN UNCHANGED <<pending, copied>> /\ dwRun' = stay
             ELSE pending' = NotReady /\ copied' = {} /\ dwRun' = stay \o Ready
  /\ dpc' = "off"
  /\ UNCHANGED <<mainVars, waiting, known, path, prefillVars, dpos, collVars>>

Decode == DecodeStart \/ DecodeAppend \/ DecodeEvict \/ DecodeForward
-----------------------------------------------------------------------------
(* Thread _step_collocated: one step of the collocated engine, then the    *)
(* results of its finished groups.  Prompts fit in one chunk and the       *)
(* engine's own pool is large enough here; Engine has the rest.            *)
CollocatedStep ==
  LET live == cwRun \ cwStop
      gone == cwFin \cup (cwRun \cap cwStop)
      new == gone \cap {r \in known : ~ fin[r]}
  IN /\ cpc = "start"
     /\ \E first \in IF cwWait # <<>> /\ Cardinality(live) < MaxBatch
                     THEN {{Head(cwWait)}} ELSE {{}}, eos \in SUBSET live :
          /\ cwWait' = IF first = {} THEN cwWait ELSE Tail(cwWait)
          /\ cwRun' = live \cup first
          /\ cwOut' = [r \in Requests |->
               IF r \in first THEN 1 ELSE IF r \in live THEN cwOut[r] + 1 ELSE cwOut[r]]
          /\ cwStop' = eos
     /\ cwFin' = gone
     /\ out' = [r \in Requests |-> IF r \in new THEN cwOut[r] ELSE out[r]]
     /\ fin' = [r \in Requests |-> fin[r] \/ r \in new]
     /\ cpc' = "off"
     /\ UNCHANGED <<mainVars, waiting, known, path, poolVars, prefillVars, decodeVars>>
-----------------------------------------------------------------------------
Next ==
  \/ \E r \in Requests : AddRequest(r) \/ CopyDone(r)
  \/ Main
  \/ \E w \in Workers : Prefill(w)
  \/ Decode
  \/ CollocatedStep

Spec == Init /\ [][Next]_vars

(* Threads that can run do run, and copies that were queued go through.    *)
FairSpec ==
  /\ Spec
  /\ WF_vars(Main)
  /\ \A w \in Workers : WF_vars(Prefill(w))
  /\ WF_vars(Decode)
  /\ WF_vars(CollocatedStep)
  /\ \A r \in Requests : WF_vars(CopyDone(r))
-----------------------------------------------------------------------------
(* Types of all variables.                                                 *)
TypeOK ==
  /\ arrived \subseteq Requests
  /\ pc \in {"check", "check1", "check2", "dispatch", "route", "clear", "fire", "flush",
             "step", "enforce", "done", "crashed"}
  /\ waiting \in Seq(Requests) /\ claim \in Seq(Requests)
  /\ pos \in Nat \ {0}
  /\ seen \subseteq Requests /\ visit \subseteq Requests
  /\ known \subseteq Requests
  /\ path \in [Requests -> Paths]
  /\ out \in [Requests -> Nat]
  /\ fin \in [Requests -> BOOLEAN]
  /\ free \in 0 .. NumBlocks
  /\ held \in [Requests -> 0 .. NumBlocks]
  /\ batch \in [Workers -> Seq(Requests)]
  /\ wpc \in [Workers -> {"idle", "check", "pop", "forward", "requeue", "forget"}]
  /\ wpos \in [Workers -> Nat \ {0}]
  /\ got \in [Workers -> 0 .. NumBlocks]
  /\ done \in Seq(Requests)
  /\ seqOut \in [Requests -> Nat]
  /\ pending \in Seq(Requests) /\ dwRun \in Seq(Requests)
  /\ copied \subseteq Range(pending)
  /\ dpc \in {"off", "start", "append"} /\ dpos \in Nat \ {0}
  /\ cpc \in {"off", "start"}
  /\ cwWait \in Seq(Requests)
  /\ cwRun \subseteq Requests /\ cwFin \subseteq Requests
  /\ cwStop \subseteq cwRun
  /\ cwOut \in [Requests -> Nat]

(* How often r is on its way: in the part of _waiting the dispatch loop    *)
(* has not passed, in the batch it collects, in the part of a prefill      *)
(* batch not yet put back, or in a queue of a worker.                      *)
Spots(r, q, n) == {i \in n + 1 .. Len(q) : q[i] = r}
Occurs(r, q, n) == Cardinality(Spots(r, q, n))
Passed == IF pc \in {"route", "clear"} THEN pos - 1 ELSE 0
PutBack(w) ==
  CASE wpc[w] = "requeue" -> wpos[w] - 1
    [] wpc[w] = "forget" -> wpos[w]
    [] OTHER -> 0
InPrefill(r) == [w \in Workers |-> Occurs(r, batch[w], PutBack(w))]
Places(r) ==
  Occurs(r, waiting, Passed) + Occurs(r, claim, 0) + Sum(InPrefill(r), Workers)
  + Occurs(r, done, 0) + Occurs(r, pending, 0) + Occurs(r, dwRun, 0)
  + Occurs(r, cwWait, 0) + (IF r \in cwRun THEN 1 ELSE 0)

(* Nobody is served twice: a request is in at most one place, whatever was *)
(* requeued, evicted or finished (_dispatch_waiting, _requeue,             *)
(* _flush_prefill_done, DecodeWorker._promote_ready).                      *)
ServedOnce == \A r \in Requests : Places(r) <= 1

(* Nobody is lost: a request that was added and has no result is somewhere *)
(* on its way.                                                             *)
NobodyLost ==
  \A r \in arrived : (r \in known /\ fin[r]) \/ Places(r) = 1

(* When run_until_done returns, every request that was added has a result. *)
AllServed == pc = "done" => \A r \in arrived : r \in known /\ fin[r]

(* The main thread survives: a request's trouble in a prefill thread does  *)
(* not end the loop for all.                                               *)
LoopSurvives == pc # "crashed"

(* Blocks of the shared pool are free, popped by an allocate(), or in the  *)
(* table of a request on its way through prefill, copy and decode.         *)
PoolBalanced ==
  /\ free + Sum(held, Requests) + Sum(got, Workers) = NumBlocks
  /\ \A r \in Requests : held[r] > 0 =>
       \/ r \in Range(done) \cup Range(pending) \cup Range(dwRun)
       \/ \E w \in Workers : r \in Range(batch[w])

(* No block is given back twice: what is free, popped or in a table never  *)
(* exceeds the pool, though tables are overwritten when a batch is         *)
(* requeued, and eviction, EOS and the length check all free.              *)
NeverFreedTwice == free + Sum(held, Requests) + Sum(got, Workers) <= NumBlocks

(* In the decode batch the router's copy of the output and the sequence's  *)
(* own agree, and the positions up to the last token fed have a block.     *)
OutputsAgree ==
  \A r \in Range(pending) \cup Range(dwRun) : r \in known =>
    /\ out[r] = seqOut[r]
    /\ Computed(r) <= held[r] * BlockSize

(* No request has more than max_new_tokens tokens.                         *)
OutputBounded == \A r \in known : out[r] <= MaxTokens

(* A result is final: tokens that a worker still produces for a finished   *)
(* request do not change it.                                               *)
ResultFinal ==
  [][\A r \in known : fin[r] => r \in known' /\ fin'[r] /\ out'[r] = out[r]]_vars

(* The decode worker is not overloaded: dispatch sends it nothing when its *)
(* batch is full.                                                          *)
DecodeBatchBound == Len(dwRun) + Len(pending) <= MaxDecodeBatch

(* run_until_done returns, and then has a result for everybody.            *)
Returns ==
  arrived # {} ~> pc = "done" /\ \A r \in arrived : r \in known /\ fin[r]

(* The loop keeps the service: each request is queued, given to one path,  *)
(* returned only by the disaggregated one, and finished once.              *)
Phase(r) ==
  IF r \notin arrived THEN "new"
  ELSE IF r \notin known THEN "queued"
  ELSE IF fin[r] THEN "finished" ELSE path[r]
Service == INSTANCE RequestService WITH phase <- [r \in Requests |-> Phase(r)]
ServiceSpec == Service!Spec
=============================================================================
