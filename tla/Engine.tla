-------------------------------- MODULE Engine --------------------------------
(***************************************************************************)
(* Continuous batching on one GPU: the Scheduler with its four queues and  *)
(* the Engine that drives it, one forward pass per step, over a paged pool *)
(* of its own (BlockManager with SharedPool = FALSE and no forks).         *)
(*                                                                         *)
(* One step of the engine is the action Schedule, one AppendSlot for each  *)
(* decoding request, the forward pass with its sampling, and the length    *)
(* check of the driving loop.  Tokens are counted, not named; whether a    *)
(* sampled token is EOS is a choice.  running and finished are sets: only  *)
(* the order in which append_slot visits a batch depends on their order,   *)
(* and any order is allowed here.                                          *)
(***************************************************************************)
EXTENDS Integers, Sequences, FiniteSets

CONSTANTS
  Requests,    \* request ids: each is a group of one sequence
  Blocks,      \* physical blocks of the pool
  BlockSize,   \* tokens per block
  PromptLen,   \* PromptLen[r]: number of prompt tokens
  MaxBatch,    \* Scheduler.max_batch_size
  Budget,      \* Scheduler.BUDGET: tokens per forward pass
  MaxTokens,   \* max_tokens_per_seq
  None         \* no prefill in this step

ASSUME RequestsAssumption == IsFiniteSet(Requests) /\ None \notin Requests
ASSUME BlocksAssumption == IsFiniteSet(Blocks)
ASSUME PromptLenAssumption == PromptLen \in [Requests -> Nat]
ASSUME SizesAssumption ==
  /\ BlockSize \in Nat \ {0}
  /\ MaxBatch \in Nat \ {0}
  /\ Budget \in Nat \ {0}
  /\ MaxTokens \in Nat \ {0}

VARIABLES
  waiting,      \* Scheduler.waiting
  prefilling,   \* Scheduler.prefilling
  running,      \* Scheduler.running
  finished,     \* Scheduler.finished
  status,       \* Sequence.status
  computed,     \* Sequence.num_computed_tokens
  outLen,       \* len(Sequence.output_token_ids)
  free,         \* free blocks of the pool
  held,         \* held[r]: the blocks in r's block table
  pc,           \* where the engine's thread is in its step
  prefill,      \* SchedulerOutput.prefill_group
  chunk,        \* len(SchedulerOutput.prefill_chunk_tokens)
  isLast,       \* SchedulerOutput.prefill_is_last
  decode,       \* SchedulerOutput.decode_groups
  todo,         \* decode groups whose append_slot is still to be called
  arrived,      \* ghost: requests in the order they were added
  context,      \* ghost: prompt tokens r's first output token attended to
  sawEos        \* ghost: requests that have sampled EOS

queueVars == <<waiting, prefilling, running, finished>>
poolVars == <<free, held>>
seqVars == <<status, computed, outLen>>
outVars == <<prefill, chunk, isLast, decode, todo>>
ghostVars == <<arrived, context, sawEos>>
vars == <<queueVars, seqVars, poolVars, pc, outVars, ghostVars>>

Statuses == {"WAITING", "RUNNING", "FINISHED_STOPPED", "FINISHED_ABORTED"}
Elems(q) == {q[i] : i \in DOMAIN q}
Smaller(a, b) == IF a < b THEN a ELSE b
Arrived == Elems(arrived)

IsFinished(r) == status[r] \in {"FINISHED_STOPPED", "FINISHED_ABORTED"}
NumLogicBlocks(r) == (PromptLen[r] + BlockSize - 1) \div BlockSize

Init ==
  /\ waiting = <<>> /\ prefilling = <<>> /\ running = {} /\ finished = {}
  /\ status = [r \in Requests |-> "WAITING"]
  /\ computed = [r \in Requests |-> 0]
  /\ outLen = [r \in Requests |-> 0]
  /\ free = Blocks
  /\ held = [r \in Requests |-> {}]
  /\ pc = "schedule"
  /\ prefill = None /\ chunk = 0 /\ isLast = FALSE
  /\ decode = {} /\ todo = {}
  /\ arrived = <<>>
  /\ context = [r \in Requests |-> 0]
  /\ sawEos = {}

(* Mutant: a new request goes to the front.                                *)
AddRequest_Front(r) ==
  /\ pc = "schedule"
  /\ r \notin Arrived
  /\ waiting' = <<r>> \o waiting
  /\ arrived' = Append(arrived, r)
  /\ UNCHANGED <<prefilling, running, finished, seqVars, poolVars, pc, outVars,
                 context, sawEos>>

(* add_request, between two steps: callers add requests while others run.  *)
AddRequest(r) ==
  /\ pc = "schedule"
  /\ r \notin Arrived
  /\ waiting' = Append(waiting, r)
  /\ arrived' = Append(arrived, r)
  /\ UNCHANGED <<prefilling, running, finished, seqVars, poolVars, pc, outVars,
                 context, sawEos>>
-----------------------------------------------------------------------------
(* schedule(), first part: finished groups leave running and free their    *)
(* blocks, whatever their status was.                                      *)
Done == {r \in running : IsFinished(r)}
Live_KeepsFinished == running   \* Mutant: finished groups stay in the batch
Live == running \ Done
FreeAfterClean == free \cup UNION {held[r] : r \in Done}
HeldAfterClean_KeepsTable == held   \* Mutant: the block table is not popped
HeldAfterClean == [r \in Requests |-> IF r \in Done THEN {} ELSE held[r]]
StatusAfterClean ==
  [r \in Requests |-> IF r \in Done THEN "FINISHED_ABORTED" ELSE status[r]]

(* The while condition of run_until_done.                                  *)
HasWork == running # {} \/ waiting # <<>> \/ prefilling # <<>>

PrefillBudget == Budget - Cardinality(Live)

(* Mutant: append_slot is called for the batch as it was before the clean. *)
CleanAndDecode_StaleBatch ==
  /\ pc = "schedule"
  /\ HasWork
  /\ running' = Live
  /\ finished' = finished \cup Done
  /\ decode' = Live
  /\ todo' = running
  /\ pc' = "append"
  /\ UNCHANGED <<computed, outLen, ghostVars>>

(* The part every outcome of schedule() shares.                            *)
CleanAndDecode ==
  /\ pc = "schedule"
  /\ HasWork
  /\ running' = Live
  /\ finished' = finished \cup Done
  /\ decode' = Live
  /\ todo' = Live
  /\ pc' = "append"
  /\ UNCHANGED <<computed, outLen, ghostVars>>

NoPrefill ==
  /\ prefill' = None /\ chunk' = 0 /\ isLast' = FALSE
  /\ free' = FreeAfterClean
  /\ held' = HeldAfterClean
  /\ status' = StatusAfterClean
  /\ UNCHANGED <<waiting, prefilling>>

(* r's next chunk starts at computed[r] and is cut by the budget.          *)
Chunk(r) ==
  /\ prefill' = r
  /\ chunk' = Smaller(PrefillBudget, PromptLen[r] - computed[r])
  /\ isLast' = (computed[r] + PrefillBudget >= PromptLen[r])

Admissible(r) ==
  /\ Cardinality(Live) < MaxBatch
  /\ Cardinality(FreeAfterClean) >= NumLogicBlocks(r)

(* Decoding requests use up the budget.                                    *)
ScheduleNoBudget ==
  /\ PrefillBudget <= 0
  /\ CleanAndDecode
  /\ NoPrefill

(* The head of prefilling gets its next chunk.                             *)
ScheduleContinue ==
  /\ PrefillBudget > 0
  /\ prefilling # <<>>
  /\ CleanAndDecode
  /\ Chunk(Head(prefilling))
  /\ prefilling' = IF isLast' THEN Tail(prefilling) ELSE prefilling
  /\ free' = FreeAfterClean
  /\ held' = HeldAfterClean
  /\ status' = StatusAfterClean
  /\ UNCHANGED waiting

(* Mutant: an unfinished prefill is not remembered.                        *)
ScheduleAdmit_Forgets ==
  /\ PrefillBudget > 0
  /\ prefilling = <<>>
  /\ waiting # <<>>
  /\ Admissible(Head(waiting))
  /\ CleanAndDecode
  /\ Chunk(Head(waiting))
  /\ waiting' = Tail(waiting)
  /\ status' = [StatusAfterClean EXCEPT ![Head(waiting)] = "RUNNING"]
  /\ \E S \in SUBSET FreeAfterClean :
       /\ Cardinality(S) = NumLogicBlocks(Head(waiting))
       /\ free' = FreeAfterClean \ S
       /\ held' = [HeldAfterClean EXCEPT ![Head(waiting)] = S]
  /\ UNCHANGED prefilling

(* Nobody is prefilling and the head of waiting fits: it gets the blocks   *)
(* of its whole prompt and its first chunk.                                *)
ScheduleAdmit ==
  /\ PrefillBudget > 0
  /\ prefilling = <<>>
  /\ waiting # <<>>
  /\ Admissible(Head(waiting))
  /\ CleanAndDecode
  /\ Chunk(Head(waiting))
  /\ waiting' = Tail(waiting)
  /\ prefilling' = IF isLast' THEN <<>> ELSE <<Head(waiting)>>
  /\ status' = [StatusAfterClean EXCEPT ![Head(waiting)] = "RUNNING"]
  /\ \E S \in SUBSET FreeAfterClean :
       /\ Cardinality(S) = NumLogicBlocks(Head(waiting))
       /\ free' = FreeAfterClean \ S
       /\ held' = [HeldAfterClean EXCEPT ![Head(waiting)] = S]

(* Nothing to prefill, or the head of waiting does not fit: the requests   *)
(* behind it wait as well.                                                 *)
ScheduleNoCandidate ==
  /\ PrefillBudget > 0
  /\ prefilling = <<>>
  /\ waiting # <<>> => ~ Admissible(Head(waiting))
  /\ CleanAndDecode
  /\ NoPrefill

Schedule ==
  \/ ScheduleNoBudget
  \/ ScheduleContinue
  \/ ScheduleAdmit
  \/ ScheduleNoCandidate
-----------------------------------------------------------------------------
(* The slot for position computed[r] is beyond r's blocks.                 *)
NeedsBlock_Late(r) ==   \* Mutant: the next position itself is not counted
  Cardinality(held[r]) < computed[r] \div BlockSize
NeedsBlock(r) == Cardinality(held[r]) < computed[r] \div BlockSize + 1

(* append_slot of one decoding request.                                    *)
AppendSlot(r) ==
  /\ pc = "append"
  /\ r \in todo
  /\ \/ /\ NeedsBlock(r)
        /\ \E b \in free :
             /\ free' = free \ {b}
             /\ held' = [held EXCEPT ![r] = @ \cup {b}]
     \/ /\ ~ NeedsBlock(r)
        /\ UNCHANGED poolVars
  /\ todo' = todo \ {r}
  /\ UNCHANGED <<queueVars, seqVars, pc, prefill, chunk, isLast, decode, ghostVars>>

(* append_slot with an empty pool: MemoryError leaves step() where it is.  *)
(* What schedule() did stays done.  run_until_done ends with the exception *)
(* and may be called again; under the CentralScheduler only the thread of  *)
(* this step ends, and the loop goes on with its length check.             *)
AppendOOM(r) ==
  /\ pc = "append"
  /\ r \in todo
  /\ NeedsBlock(r)
  /\ free = {}
  /\ pc' \in {"schedule", "enforce"}
  /\ prefill' = None /\ chunk' = 0 /\ isLast' = FALSE
  /\ decode' = {} /\ todo' = {}
  /\ UNCHANGED <<queueVars, seqVars, poolVars, ghostVars>>

(* No token in this step: step() returns before the forward pass.          *)
StepIdle ==
  /\ pc = "append"
  /\ todo = {}
  /\ chunk = 0 /\ decode = {}
  /\ pc' = "enforce"
  /\ prefill' = None /\ isLast' = FALSE
  /\ UNCHANGED <<queueVars, seqVars, poolVars, chunk, decode, todo, ghostVars>>

(* Positions of r stored by this forward pass.                             *)
Stored_PrefillOnly(r) ==   \* Mutant: decoding requests keep their position
  IF r = prefill THEN chunk ELSE 0
Stored(r) == IF r = prefill THEN chunk ELSE IF r \in decode THEN 1 ELSE 0

(* The forward pass and the sampling after it.  The prefilled request's    *)
(* last chunk yields its first token, every decoding request yields one;   *)
(* eos are the requests that sample EOS, of which only decoding ones are   *)
(* looked at.  Prefill attention covers the tokens of this chunk only.     *)
Forward ==
  LET first == IF prefill # None /\ isLast THEN {prefill} ELSE {}
  IN /\ pc = "append"
     /\ todo = {}
     /\ chunk > 0 \/ decode # {}
     /\ computed' = [r \in Requests |-> computed[r] + Stored(r)]
     /\ outLen' = [r \in Requests |->
          IF r \in first \cup decode THEN outLen[r] + 1 ELSE outLen[r]]
     /\ context' = [r \in Requests |-> IF r \in first THEN chunk ELSE context[r]]
     /\ running' = running \cup first
     /\ \E eos \in SUBSET (first \cup decode) :
          /\ sawEos' = sawEos \cup eos
          /\ status' = [r \in Requests |->
               IF r \in eos \cap decode THEN "FINISHED_STOPPED" ELSE status[r]]
     /\ pc' = "enforce"
     /\ prefill' = None /\ chunk' = 0 /\ isLast' = FALSE
     /\ decode' = {}
     /\ UNCHANGED <<waiting, prefilling, finished, poolVars, todo, arrived>>

AtLimit_Beyond(r) == outLen[r] > MaxTokens   \* Mutant: > for >=
AtLimit(r) == outLen[r] >= MaxTokens

(* The length check of run_until_done after each step.                     *)
Enforce ==
  /\ pc = "enforce"
  /\ pc' = "schedule"
  /\ status' = [r \in Requests |->
       IF r \in running /\ status[r] = "RUNNING" /\ AtLimit(r)
       THEN "FINISHED_STOPPED" ELSE status[r]]
  /\ UNCHANGED <<queueVars, computed, outLen, poolVars, outVars, ghostVars>>

EngineStep ==
  \/ Schedule
  \/ \E r \in Requests : AppendSlot(r) \/ AppendOOM(r)
  \/ StepIdle
  \/ Forward
  \/ Enforce

Next == EngineStep \/ \E r \in Requests : AddRequest(r)

Spec == Init /\ [][Next]_vars

(* The loop of run_until_done keeps running; nobody has to add requests.   *)
FairSpec == Spec /\ WF_vars(EngineStep)
-----------------------------------------------------------------------------
(* Types of all variables.                                                 *)
TypeOK ==
  /\ waiting \in Seq(Requests)
  /\ prefilling \in Seq(Requests)
  /\ running \subseteq Requests
  /\ finished \subseteq Requests
  /\ status \in [Requests -> Statuses]
  /\ computed \in [Requests -> Nat]
  /\ outLen \in [Requests -> Nat]
  /\ free \subseteq Blocks
  /\ held \in [Requests -> SUBSET Blocks]
  /\ pc \in {"schedule", "append", "enforce"}
  /\ prefill \in Requests \cup {None}
  /\ chunk \in Nat
  /\ isLast \in BOOLEAN
  /\ decode \subseteq Requests
  /\ todo \subseteq decode
  /\ arrived \in Seq(Requests)
  /\ context \in [Requests -> Nat]
  /\ sawEos \subseteq Requests

(* Every request that was added is in exactly one of the four queues, or   *)
(* is the one whose last chunk this step computes (schedule() has popped   *)
(* it, step() appends it to running afterwards).                           *)
InTransit == IF prefill # None /\ isLast THEN {prefill} ELSE {}
Places == <<Elems(waiting), Elems(prefilling), running, finished, InTransit>>
EveryRequestQueued ==
  /\ Arrived = UNION Elems(Places)
  /\ \A i, j \in DOMAIN Places : i # j => Places[i] \cap Places[j] = {}
  /\ Len(waiting) = Cardinality(Elems(waiting))

(* At most MaxBatch requests hold a place in the batch, the one being      *)
(* prefilled included, though schedule() compares only running with the    *)
(* limit: it admits nobody while somebody is prefilling.                   *)
BatchBound ==
  /\ Cardinality(running \cup Elems(prefilling) \cup InTransit) <= MaxBatch
  /\ Len(prefilling) <= 1

(* A forward pass has no more tokens than BUDGET, unless the decoding      *)
(* requests alone are more, and a chunk never passes the prompt's end.     *)
ForwardBudget ==
  pc = "append" =>
    /\ chunk > 0 => chunk + Cardinality(decode) <= Budget
    /\ prefill # None => computed[prefill] + chunk <= PromptLen[prefill]

(* When the forward pass runs, every position it stores has a block: the   *)
(* chunk's positions and the one of each decoding request whose            *)
(* append_slot was called (step, lines 42-93).                             *)
Room(r, n) == n <= Cardinality(held[r]) * BlockSize
SlotReady ==
  pc = "append" =>
    /\ prefill # None => Room(prefill, computed[prefill] + chunk)
    /\ \A r \in decode \ todo : Room(r, computed[r] + 1)

(* The token a request feeds next is its last output, and the number of    *)
(* positions stored is that token's position: prompt and outputs minus the *)
(* one not yet fed.  Before the first output only prompt tokens are stored.*)
PositionLaw ==
  \A r \in Requests :
    IF outLen[r] = 0 THEN computed[r] <= PromptLen[r]
                     ELSE computed[r] = PromptLen[r] + outLen[r] - 1

(* No request outputs more than max_tokens_per_seq tokens.                 *)
OutputWithinLimit == \A r \in Requests : outLen[r] <= MaxTokens

(* The blocks are shared out: each is free or in one table, and requests   *)
(* that wait or are finished hold none.                                    *)
PoolConserved ==
  /\ free \cup UNION {held[r] : r \in Requests} = Blocks
  /\ \A r \in Requests : held[r] \cap free = {}
  /\ \A r, q \in Requests : r # q => held[r] \cap held[q] = {}
  /\ \A r \in Elems(waiting) \cup finished : held[r] = {}

(* A pool with room for any MaxBatch requests at their token limit, and    *)
(* prompts with at least one token (step() returns early on an empty one,  *)
(* engine.py lines 62-63).  Need(r) blocks hold all positions r ever has.  *)
Need(r) == (PromptLen[r] + MaxTokens - 1 + BlockSize - 1) \div BlockSize
SlotsOf(S) == UNION {{r} \X (1 .. Need(r)) : r \in S}
Ample ==
  /\ \A r \in Requests : PromptLen[r] > 0
  /\ \A S \in SUBSET Requests :
       Cardinality(S) <= MaxBatch => Cardinality(SlotsOf(S)) <= Cardinality(Blocks)

(* In such a pool append_slot always finds the block it needs: can_allocate*)
(* keeps no blocks back for the tokens still to come, but the batch limit  *)
(* and the blocks freed by finished requests do.                           *)
NeverShort ==
  Ample /\ pc = "append" => \A r \in todo : NeedsBlock(r) => free # {}

(* First tokens come in the order of arrival: whoever gets its first token *)
(* does so after everybody who was added before.                           *)
FirstTokensInOrder ==
  [][\A i, j \in DOMAIN arrived :
       i < j /\ outLen'[arrived[j]] > 0 => outLen'[arrived[i]] > 0]_vars

(* The output of a request that was marked finished never changes, though  *)
(* it stays in running until the next schedule().                          *)
OutputFrozen ==
  [][\A r \in Requests : IsFinished(r) => outLen'[r] = outLen[r] /\ IsFinished(r)']_vars

(* Every request that is added is finished in the end.                     *)
Completes == \A r \in Requests : r \in Arrived ~> r \in finished

(* The engine keeps the life of a request: submitted, admitted within the  *)
(* batch limit, decoding, finished, in this order and never lost.          *)
Phase(r) ==
  CASE r \notin Arrived -> "new"
    [] r \in Elems(waiting) -> "waiting"
    [] r \in Elems(prefilling) \cup InTransit -> "prefilling"
    [] r \in running -> "running"
    [] r \in finished -> "finished"
    [] OTHER -> "lost"
Lifecycle == INSTANCE RequestLifecycle WITH
               phase <- [r \in Requests |-> Phase(r)]
LifecycleSpec == Lifecycle!Spec

(* A request whose output contains EOS gets no further token.              *)
NoTokenAfterEos ==
  [][\A r \in sawEos : outLen'[r] = outLen[r]]_vars

(* The first output token is computed from the whole prompt.               *)
FirstTokenSeesPrompt ==
  \A r \in Requests : outLen[r] > 0 => context[r] = PromptLen[r]
=============================================================================
