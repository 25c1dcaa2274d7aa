# A TLA+ model of nanoPD

nanoPD serves language-model requests on several GPUs. A request's prompt is
*prefilled* (one forward pass over many tokens), after which the request is
*decoded* one token per forward pass. Both can happen on one GPU (the
collocated path) or the prefill on one GPU and the decode on another (the
disaggregated path); a router chooses per request. Keys and values live in a
paged cache: physical blocks of `block_size` tokens, found through a block
table per sequence.

This directory specifies the parts of that system whose correctness depends on
order: who owns a block, which queue a request is in, what a forward pass may
store and read, and what the threads do to each other. Paths below are relative
to `src/nanoPD/`.

## 1. The system

| component | state | operations | talks to |
|---|---|---|---|
| Block manager (`block_manager/`) | free stack, `ref_cout` per block, block table per sequence | `can_allocate`, `allocate`, `append_slot`, `fork`, `free` | called by Scheduler, Engine, PrefillWorker, DecodeWorker, CentralScheduler |
| Sequence, SequenceGroup (`block_manager/sequence.py`) | status, prompt and output tokens, `num_computed_tokens` | `append_token_id`, properties | shared by reference by everything below |
| Scheduler (`engine/scheduler.py`) | queues waiting, prefilling, running, finished | `schedule` | block manager |
| Engine (`engine/engine.py`) | the four queues through its Scheduler | `add_request`, `step`, `run_until_done`, `generate` | Scheduler, block manager, ModelRunner |
| ModelRunner (`engine/model_runner.py`) | K/V cache of one GPU | `paged_forward`, patched attention: store, then attend | block tables handed over in the context of a step |
| CUDA kernels, FlashInfer backend (`paged_attention/`) | shared memory of a CUDA block | `paged_kv_store`, `paged_attention`, `_build_page_metadata` | launched by the patched attention |
| PrefillWorker, DecodeWorker, CollocatedWorker (`workers/`) | decode worker: running, finished, `_pending` transfers | `prefill_batch_and_extract`, `receive_kv_async`, `_promote_ready`, `step` | one block manager shared by the prefill workers and the decode worker |
| KV transfer (`workers/kv_transfer.py`) | copies queued on a stream | `extract_kv_to_pinned`, `transfer_kv` | caches of two GPUs |
| CentralScheduler (`router/central_scheduler.py`) | `_waiting`, `_states`, `_prefill_threads`, `_prefill_done` | `add_request`, `step`, `_dispatch_waiting`, `_requeue`, `_flush_prefill_done`, `_step_*`, `_enforce_max_tokens`, `_all_done` | everything above, from the main thread, one thread per prefill worker and two threads per step |
| Router, predictor (`router/`) | decision history; sliding windows of output lengths | `route`, `update` | cost model |
| Cost model (`cost_model/analytical.py`) | fitted constants | `route`, `t_*` | - |

What is hard in it, component by component, and what correctness means there:

- **Block manager.** Blocks are shared after `fork`, so they come back from
  several sequences in any order, and copy-on-write exchanges a block for
  another in the middle. Correct means: a block is free exactly when nobody can
  reach it, a count is the number of holders, what a sequence stored is what it
  reads back, and a yes of `can_allocate` is kept. On the disaggregated path
  the check and the pops of `allocate` run in several threads without a lock.
- **Scheduler and Engine.** A step moves a request between queues first and
  asks for blocks and computes afterwards, so any failure in between is a
  partial one. Budget, batch places and blocks are three limits with one queue
  in front. Correct means: a request is always in exactly one queue, moves
  forward only, in the order of arrival, its stored positions agree with its
  output, every position stored has a block, and it finishes.
- **Workers, KV transfer and CentralScheduler.** A request is handed from the main
  thread to a prefill thread, to `_prefill_done`, to a pending transfer and to
  the decode batch, while it may be requeued, evicted or marked finished.
  Correct means: it is in one place at a time, is served by one path, is never
  decoded before its copy is complete, gives its blocks back exactly once, and
  the loop ends when and only when all requests are finished.
- **Router and predictor.** Bucket edges, two windows of different length and
  the fallback from bucket to global mean to the default.
- **Forward pass.** The tokens of a whole batch are one flat row; stores, mask,
  padded block tables and sampling find their rows by offsets. Correct means:
  every row meets its own sequence and nothing else, and the warps of the
  kernel, which share their scores, compute one softmax between them.
- **Cost model.** Floating-point formulas; which terms are compared, and how the
  decision follows the loads, is a matter of logic.

## 2. Modules

| module | models | role |
|---|---|---|
| `BlockPool` | the promise of the block manager: blocks have owners | abstract specification |
| `BlockManager` | `block_manager.py`, the parts of `Sequence` it reads, and the cache cells reached through the tables | implements `BlockPool` |
| `BlockManager_proofs` | theorems about `BlockManager` | proofs |
| `MC_BlockManager` | instance with three sequences | model checking |
| `RequestLifecycle` | the promise of the engine: phases and batch places | abstract specification |
| `Engine` | `scheduler.py`, `engine.py` over a private pool | implements `RequestLifecycle` |
| `Engine_proofs` | theorems about `Engine` in any pool, and in one with room for the batch, its refinement among them | proofs |
| `MC_Engine` | instances with three requests | model checking |
| `RequestService` | the promise of the router loop: a request is queued, given to one path, perhaps returned by the disaggregated one, finished once | abstract specification |
| `CentralScheduler` | `central_scheduler.py` with `prefill_worker.py` and `decode_worker.py`, all threads | implements `RequestService` |
| `CentralScheduler_proofs` | where requests are and who frees, in any pool | proofs |
| `CentralOutputs_proofs` | outputs, positions and limits, in any pool | proofs |
| `CentralAmple_proofs` | nobody lost, no leak and the refinement, in a pool with room for all requests | proofs |
| `Router` | `output_lenth_predictor.py`, `router.py`, the estimates and the comparison of `analytical.py` | state machine over updates and decisions |
| `Router_proofs` | theorems about `Router` | proofs |
| `MC_Router` | instance with two buckets | model checking |
| `MC_CentralScheduler` | instances with three requests and two prefill workers | model checking |
| `KVTransfer` | what the caches of the prefill and decode GPUs hold: `kv_transfer.py` with the workers' stores, copies, promotion and release | the contents under `CentralScheduler` |
| `KVTransfer_proofs` | theorems about `KVTransfer` | proofs |
| `MC_KVTransfer` | instance with a peer-to-peer and a pinned-memory worker | model checking |
| `PagedForward` | index arithmetic of `paged_forward` and of FlashInfer's page metadata | pure operators |
| `PagedAttention` | one layer of a forward pass, down to the warps of the kernel | extends `PagedForward` |
| `PagedAttention_proofs` | where rows are stored, what they see, which are sampled, and what decoding sequences attend to, for any batch and any warps | proofs |
| `MC_PagedAttention` | the batches the three callers build | model checking |

### BlockManager

`free` is `_free_blocks` without its order (which block is popped matters to
no property, so any free block may be), `refCount` is `ref_cout`, `table` is
`_block_table`. `allocate()` is not one step: `CanAllocate` is the check that
said yes, `AllocateBlock` one turn of the loop that pops a block into the local
list (kept in `table`, which nobody looks up before the sequence is RUNNING),
`AllocateDone` the assignment of the finished list, `AllocateOOM` the
`MemoryError` of an empty pool, after which the local list is gone. In a
private pool (`SharedPool = FALSE`, one thread) nothing else runs in between;
in a shared pool (`SharedPool = TRUE`) everything may. `append_slot` has an
action per branch: `AppendGrow`, `AppendCopyOnWrite`, `AppendInPlace`; like the
code it decides by `num_computed_tokens`. `Fork` gives the child the parent's
status and position as its caller has to, since `fork` copies only the table.
`Free` counts down every block of the table and pushes back those that reach 0;
contents of a free block mean nothing (`Stale`).

`Prefill` and `Decode` store tokens through the table by the arithmetic of
`paged_kv_store_kernel` (position `\div` and `%` block size). `hist` is a ghost:
the tokens a sequence has stored, in order, which `ReadBack` compares with the
cells. `CallerCopies` says whether the caller of `append_slot` performs the
copy that the returned pair asks for.

### Engine

One engine step is a sequence of actions at `pc`: `Schedule` (its four
outcomes `ScheduleNoBudget`, `ScheduleContinue`, `ScheduleAdmit`,
`ScheduleNoCandidate`, each of which starts by cleaning out finished groups and
returning their blocks), one `AppendSlot` per decoding request, or `AppendOOM`
that leaves `step()` by an exception, then `Forward` (the pass and the sampling
after it) or `StepIdle` (the early return), then `Enforce`, the length check of
`run_until_done`. Requests are added between steps. Tokens are counted, whether
a sampled token is EOS is a choice. `running` and `finished` are sets, since any
order of visiting a batch is allowed. Ghosts: `arrived` (order of arrival),
`context` (how many prompt tokens the first output was computed from), `sawEos`.
After a `MemoryError` the model goes on, because two callers do:
`CentralScheduler` loses only the thread of that step and goes on with its
length check, and `run_until_done` may be called again.

### CentralScheduler

Threads are program counters. The main thread is `pc`: `AddRequest` between
steps, `CheckWaiting`, `CheckStates`, `CheckRest` (the reads of `_all_done`, one
after the other, because prefill threads run meanwhile), then `Dispatch`, one
`RouteOne` per waiting request, `RouteEnd`, `Clear`, and `Fire` or `Requeue`,
then `Flush`, the two threads of the step (`dpc`: `DecodeStart`, `DecodeAppend`
per group, `DecodeForward` or `DecodeEvict`; `cpc`: `CollocatedStep`), `Join`,
and the length check, one `EnforceCollocated` or `EnforceDisaggregated` per state
in any order of visiting. A change of the size of `_states` between two visits is
`EnforceCrash`: Python raises RuntimeError. A prefill thread is `wpc[w]`: per
group `PrefillCheck` (the assertion), `PrefillPop` per block, `PrefillTable`;
then `PrefillForward`, or `PrefillRequeue` and `PrefillForget` per group after
an AssertionError, or `PrefillOOM`, the MemoryError that ends the thread.

`known`, `path`, `out`, `fin` are `_states` (`out` the length of
`output_token_ids`), `seqOut` the length of the `Sequence`'s own list, `held`
the length of the table under a `seq_id`, `done` is `_prefill_done`, `pending`
and `copied` are `_pending` and the events that have fired. Blocks are counted;
`BlockManager` with `SharedPool = TRUE` says what these calls do to named blocks.

Left open or reduced: which path the router takes (`Routes`, any choice the
cost model could make); sampling EOS is a choice; the collocated engine is its
waiting queue and its batch, for prompts that fit one chunk and a pool of its own
that suffices (`Engine` has the rest). `_requeue` turns the tokens into text and
dispatch tokenises it again; for the byte-level tokenizers of the Qwen models
the repository runs this gives the same tokens back, so `PromptLen` stays. A
tokenizer that puts a BOS token in front (Llama) would lengthen the prompt by
one at each requeue; this is not modelled. A prefill thread counts as ended when
its results are in `_prefill_done`; in the code it stays alive a moment longer,
which can only cause one more requeue of the kind the model already has.

### Router

`bucketData` and `globalData` are the predictor's deques, `last` the newest entry
of `_history` (the older ones are only counted, by `decision_stats`). `Update` is
`OutputLengthPredictor.update`, `Route` is `Router.route`: `Predict` with its
three levels, then `Decision`. Python's `round` is `RoundDiv` (halves go to the
even number). The ghosts `past` and `pastIn` keep all outputs ever fed back, and
those of the prompts between the edges of each bucket (`InBucket`, the meaning
of the bisection in `BucketIdx`), so that `RecentOnly` can compare the windows
with the whole history. Times are exact: the cost terms are multiplied
by `BatchThresh`, which turns the two divisions by it into whole numbers; the
code computes in floating point, where a decision may differ if both sides are
equal up to rounding. `CentralScheduler` does not use this module: it allows any
choice of path.

### KVTransfer

`CentralScheduler` counts blocks and says where a request is; this module names
the blocks and says what their cells hold. One pool gives out block ids, and
each GPU has a cache with a cell for every id, so a block that is freed and
given to another request changes hands in all caches at once. `stage` is
where a request is (`new`, then `allocated`, `stored`, `extracted` in its
prefill thread, `done` in `_prefill_done`, `pending`, `running`, `gone`), `on` its prefill
worker. `PrefillForward` stores the prompts of a batch in the worker's cache;
it is one step because reading the sampled token back waits for the device. `Extract`
is `extract_kv_to_pinned`. `Flush` is `transfer_kv` and `receive_kv_async`: it
queues the block list on `stream`, from which `CopyBlock` and `FireEvent` take at any
time, in order. The source is the prefill worker's cache if the GPUs have peer
access and the pinned buffer if not, and it is read when the copy is made, not
when it is queued. `Promote`, `AppendSlot`, `Forward`, `Evict` and `Enforce` are the main
thread and the decode thread, which take turns (`dpc`). `Refuse` covers both ways a
batch can fail; what it had allocated is in nobody's table and in no free
list, as in the code.

Reduced: keys and values move together and are one; a request whose prefill
failed comes back as `new` with the same prompt (tokens gained in between are
`CentralScheduler`'s business); any running request may be the victim of an
eviction; `_flush_prefill_done` dropping a result whose id is no longer in `_states` is
left out, since that needs a request to be finished before its transfer, which
`MaxTokens > 1` excludes (item 12 of section 5 is what happens otherwise).

### PagedForward and PagedAttention

`PagedForward` has no state: given a batch, `Rows` is the flat row of tokens,
`PrefillStore` and `DecodeStore` the cells written and from which row, `Visible` the mask,
`BlockTables` the tables padded with 0, `PrefillSample` and `DecodeSample` the rows whose
logits are used (by `Engine.step`, `prefill_batch` and `DecodeWorker.step`),
`PageMetadata` FlashInfer's `indptr`, `indices` and `last_page_len`. A key or value is
the token it was computed from, so "meets the right sequence" can be stated.

`PagedAttention` runs a batch through it. `WellFormed` says of a batch what the callers
see to when they build the context of a pass (section 4). The steps are `StorePrefill` per prompt, `AttendPrefill`,
`StoreDecodes`, and then for one decoding sequence either `RunFlashInfer` or the
kernel, where each warp goes through `Dot` (its token of the window), a
barrier, `Fold` (running maximum and denominator over the window), and after the
last window `Weigh` (scores to weights, in place), a barrier, and `Gather`. CUDA blocks
share nothing they write, so one stands for all. `exp` is any function `Exp` of small
natural numbers that turns sums into products (`ExpAssumption`; powers of 2 in
the runs) and sums are exact, with the denominator multiplied by `Exp[MaxScore]`, so
the softmax can be compared exactly with its definition; a key that is not the sequence's own
scores `MaxScore`, more than any of its own. A warp that reads, as a score, a
place another warp has already turned into a weight gets one of two values.

Reduced: four warps of 32 threads are two of two (`NumWarps` divides the block
size in both); one head, so grouped-query attention is left out; keys and values
are one. FlashInfer itself is external: it attends to the pages described to it.
`paged_attention_optimized` is in no build file and left out.

## 3. Runs

All runs finish within a minute. Deadlock is not checked: a run ends when every
sequence is freed, every request is finished and no more can be added, or
`run_until_done` has returned, which is a proper end of the program.

| run | instance | shows |
|---|---|---|
| `bm_private` | 3 sequences, prompts 3, 3, 1, 4 blocks of 2 tokens, at most 5 tokens | `NoLeak`, `ReadBack`, `ExactFit`, `AllocateDelivers`, and that the manager implements `BlockPool`, with one thread |
| `bm_shared` | the same, several threads | counts (`RefCountExact`), contents (`ReadBack`) and ownership (`BlockPool`) survive every interleaving of checks, pops, failures, forks and frees |
| `en_ample` | 3 requests, prompts 1, 4, 2, 5 blocks, batch 2, budget 3, 3 output tokens, fair | queues (`EveryRequestQueued`), positions (`PositionLaw`), no `append_slot` without a block (`NeverShort`), order of first tokens, that the engine implements `RequestLifecycle`, and that every request finishes (`Completes`) |
| `en_tight` | 3 blocks, budget 2, as large as the batch | `SlotReady` and `PoolConserved`, also when `append_slot` raises `MemoryError` and when `schedule()` returns early without budget for a prompt |
| `cs_ample` | 3 requests, one routed freely, 2 prefill workers, 5 blocks, margin 3, decode limit 2, 2 output tokens, fair | nobody is lost (`NobodyLost`), results are final (`ResultFinal`), blocks are never lost (`PoolBalanced`), refinement of `RequestService`, and `run_until_done` returns with a result for everybody (`Returns`) |
| `cs_pressure` | 3 blocks, margin 1, all disaggregated | what holds when prefills are refused, die half way, and decoding evicts: `ServedOnce`, `NeverFreedTwice`, `OutputsAgree`, `OutputBounded` |
| `rt_router` | 2 buckets, windows of 2, prompts on an edge and beyond the last, 5 updates, loads up to 3 | `RecentOnly`, `LoadMonotone` |
| `kv_transfer` | 3 requests, prompts 1, 2, 3, 3 blocks of 2, a peer-to-peer and a pinned worker, 3 tokens | decoding reads its own keys and values (`ReadsOwnKV`), and copies under way never meet a block that has changed hands (`CopiesSafe`) |
| `pa_forward` | 29 batches as the three callers build them, blocks of 4, 6 blocks, 2 warps of 2, 2 scores | `PromptsAttendOwn`, `StoresLand`, `DecodeExact` for both backends, `SamplesLast` |
| `en_chunked`, `cs_early`, `pa_race` | see section 5 | disagreements found |

**Bounds.** `Blocks`, `BlockSize`, prompts, `MaxLen` and `MaxTokens` are small
numbers chosen so that each case of the code occurs: a prompt that fills its
last block and one that does not, a decode that needs a new block and one that
does not, a forked block that is swapped and one that is only freed, a pool
that runs dry, a prompt shorter than, equal to and longer than the budget, a
batch limit that keeps a request waiting. The early return of `schedule()` without budget
(`scheduler.py:58`) takes a batch as large as the budget, as in `en_tight`; the
repository constructs `Scheduler` with 8 or 16 places and a budget of 512 or 1024, with which
decoding never uses up the budget. `MaxLen` (BlockManager) only stops a
sequence from growing for ever; every branch of `append_slot` is taken below
it. Three sequences are enough for a parent, a child and a third party that
takes what they free. For `CentralScheduler` three requests and two workers let one
prefill thread requeue, a second prefill and the decode batch take its blocks;
in `cs_pressure` a margin of 1 against a decode batch of 2 scales the code's 16
against 20: smaller than the batch, so it can be used up; in `cs_ample` it is large
enough that no allocation fails, and what dispatch may hand out is still less
than what is waiting. For `KVTransfer` the third block is contended: the
requests need four, so a copy, a decode batch and a new prefill compete for the
blocks that are freed. For `PagedAttention` lengths lie below, at and above a block
and a window of warps, block 0 belongs to a sequence that is not the one
whose table it pads, and two scores suffice for a maximum that grows and one
that does not. For `Router` five updates overflow both the windows of a bucket and the global one,
and loads up to 3 lie on both sides of `BatchThresh = 2`. Symmetry over blocks, and over prefill
workers, is used in safety runs only.

**Fairness.** `FairSpec` has weak fairness of the engine's steps together: the
loop of `run_until_done` calls `step()` as long as a queue is not empty, and
each part of a step is plain sequential code. Nothing is assumed about requests
being added, about EOS (the length limit ends a request that never samples it)
or about which request is scheduled: `schedule()` decides that. In `en_ample`
the pool has enough blocks that no `append_slot` fails; with fewer, requests are lost
(item 4 of section 5). Prompts larger than the whole pool are excluded: the head of
`waiting` never fits and everybody behind it waits for ever (`scheduler.py:84-87`).

In `CentralScheduler` each thread is weakly fair (operating-system threads that
can run do run, the loop calls `step()` until `_all_done`), and so is each copy
event (the transfer stream executes what was queued). Nothing is assumed about
requests being added, EOS, or the router's choices.

A remark on `OutputWithinLimit`: the known issue in `docs/en/02-engine_en.md:638`
says a request may exceed the limit by one token. In the code as it is the check runs
after every step, and no request exceeds the limit. No run checks this; it is the theorem
`WithinLimit` of section 4.

## 4. Proofs

`BlockManager_proofs` proves for every finite set of blocks and of sequences,
every block size, every prompt length and both kinds of pool (assumptions: the
`ASSUME`s of `BlockManager`):

- `TypeCorrect`: `Spec => []TypeOK`;
- `RefCounts`: `Spec => []RefCountExact`;
- `ImplementsPool`: `Spec => PoolSpec`, the refinement of `BlockPool`;

and for a pool of one thread

- `PrivateNoLeak`: `Spec => []NoLeak`;
- `PrivateDelivers`: `Spec => AllocateDelivers`;

and again for both kinds

- `TablesFit`: `Spec => []ExactFit`;
- `AllReadBack`: `CallerCopies => (Spec => []ReadBack)`.

`RefCountExact` alone is not inductive: to subtract one holder when a table is
dropped, a table must not name a block twice (`NoRepeats`); the blocks of an
abandoned `allocate()` are uncounted for only because nobody else can hold them
(`BuildersAlone`: a fork needs a RUNNING parent); a fork may count up only if
the child held nothing before, which is where `TableHolders` (only allocating
and RUNNING sequences have blocks) is used; and counts of used, free and leaked
blocks need three clauses. `Ind` is their conjunction. The argument goes
through how each kind of step changes `Owners` (lemmas `TakeOwners`,
`SwapOwners`, `ForkOwners`, `DropOwners`), which serves the invariant, the
refinement and `NoLeak` alike. The private-pool theorems add `Reserved`: while
`allocate()` pops, the blocks in its list and the free ones cover the prompt.
`ExactFit` needs the length of a table as a function of what the sequence has
stored and whether `append_slot` has run for the next token (`FitInd`); a
bound in each direction would not survive a second call of `append_slot`.
`ReadBack` needs to know that a store hits nobody else's history: the block the
next token goes to (`SlotAlone`), and all blocks of a prompt being stored
(`PromptAlone`), have one owner, which is what copy-on-write is for. Its
hypothesis is that the caller of `append_slot` performs the copy it is told to
make; no caller in the repository does (item 5 of section 5), so the theorem says
what the block manager gives to a caller that keeps its side.

`Router_proofs` proves, from the `ASSUME`s of `Router` (buckets ascending, costs
natural numbers, `BatchThresh` at least 1):

- `TypeCorrect`: `Spec => []TypeOK`, the bounds of the windows included;
- `IdleNeverTransfers`: `Decision(p, n, 0, dbs)` is "collocated" for all arguments;
- `FollowsLoads`: a "disaggregated" decision survives any higher `system_load` and
  any smaller decode batch;
- `WindowsRecent`: `Spec => []RecentOnly`;
- `LoadOrder`: `Spec => []LoadMonotone`.

`WindowsRecent` rests on two facts: the index that bisection finds is the only
bucket whose edges enclose the prompt (`BucketMeaning`), and pushing onto the
newest `n` outputs gives the newest `n` of one more (`NewestPush`). `LoadOrder` is
`FollowsLoads` at the predicted length, so all that is missing is that a mean is
a natural number. It is a fold over a window: `TotalMeaning` unfolds it to a function
that fits the fold's recursion, `SumExists` shows that there is one and `SumType`
that each one yields numbers, both from a least counterexample, since the
library's induction theorems take an operator and cannot be used.

`KVTransfer_proofs` proves for any requests, workers, blocks, block size and
prompts of at least one token:

- `TypeCorrect`: `Spec => []TypeOK`;
- `OwnKV`: `Spec => []ReadsOwnKV`;
- `SafeCopies`: `Spec => []CopiesSafe`.

A token travels through three memories, and the invariant follows it. A prompt
is in its worker's cache from the forward pass until its transfer is through
(`InPrefillCache`), in the buffer from the extraction on (`InBuffer`), as far as the
stream has come in the decode worker's cache (`Arriving`), and entirely so once
the event has fired (`Came`), which is why promotion may put it in the batch.
`Queued` ties the stream to pending requests and their unchanged tables. What
protects all of it is `TablesApart`: no block is in two places of the tables, or
in a table and free. Hence two positions that have blocks never share a cell
(lemma `CellsApart`), a store puts each token where it belongs (`StoreLands`) and
touches nobody else's (`DecodeFrame`, `PrefillFrame`). `Prompted` and `Slotted` say that
there are blocks for the positions stored.

`Engine_proofs` proves for any requests, prompts, pool, batch limit and budget,
and whether or not `append_slot` ever raises `MemoryError`:

- `TypeCorrect`: `Spec => []TypeOK`;
- `Positions`: `Spec => []PositionLaw`;
- `WithinLimit`: `Spec => []OutputWithinLimit`;
- `SlotsReady`: `Spec => []SlotReady`;
- `Conserved`: `Spec => []PoolConserved`;
- `Frozen`: `Spec => OutputFrozen`;
- `BatchLimit`, `BudgetKept`: the batch and the tokens of a pass stay within
  `max_batch_size` and `BUDGET`.

The queues are lists and sets that the code keeps in step with status and
output, so the invariant says what each place implies: nothing computed and no
block in `waiting` (`WaitingInv`), a whole prompt's blocks and no output in prefill
(`PrefillInv`), output and a block for every stored position in the batch
(`RunningInv`), nothing held once finished (`FinishedInv`). A request is thereby in at
most one place, which no conjunct has to state. `Partition` is about the blocks, `StepInv`
about the output of `schedule()` between its return and the end of the
forward pass; without it the budget, and the slots promised by `append_slot`,
would be lost between the actions of a step.

`CentralScheduler_proofs` proves for any finite sets of requests and workers, any
routes and prompts, and any pool, margin and limits, with no assumption that
allocations succeed or that the main thread survives:

- `TypeCorrect`: `Spec => []TypeOK`;
- `NoDoubleFree`: `Spec => []NeverFreedTwice`;
- `OneService`: `Spec => []ServedOnce`.

`ServedOnce` is one argument over all threads: no step but `AddRequest` gives a request
more places than it had (`Fewer`), since whatever appears in one queue has left
another, and `AddRequest` does it for a request that had none (`NotArrived`). Each action
has its lemma, in which the parts of `Places` it does not touch stay equal
(`SameParts`) and the others are compared. A request moves between lists one by one
(`RouteOne`, `PrefillRequeue`), as a whole list (`Fire`, `Requeue`, `PrefillForward`) or as
the elements a condition selects (`Flush`, promotion, EOS), hence the
lemmas on `Occurs` after passing an element, appending, concatenating and `Keep`. `Grouped`
(a thread at work on a group has that group in its batch, and no empty batch is
fired) guarantees that the group put back is the one no longer counted in the batch. `NeverFreedTwice` is
inductive with the types alone: overwriting a table, or dropping a half-filled list,
makes the sum smaller, which is why it survives the failures that break
`PoolBalanced`. `Sum` counts a set of pairs and `Keep` chooses by rank, so that both can be
unfolded in a proof, which a fold or `SelectSeq` cannot; that ranks are found
(`RankFound`) is shown by a least counterexample.

`CentralOutputs_proofs` goes on from there, again for any pool, and whatever fails:

- `NotesAgree`: `Spec => []OutputsAgree`;
- `LengthLimited`: `MaxTokens > 1 => (Spec => []OutputBounded)`.

What the router has noted of a request, and what the request holds, depend on the
place it is at (`Outs`), so the count behind `ServedOnce` becomes a partition of
places (`Apart`, `Once`): a step that changes an output must not touch a request
that is somewhere else too. `Tables` and `Slots` follow blocks through a prefill
thread and through the calls of `append_slot` of a decode step. In
`LimInd` an output may be at the limit only between the end of the thread that
produced the last token and the visit of the length check (`Due`); a length
check that forgot the collocated or the decode worker's requests would break it.
With `max_new_tokens = 1` the bound is false (item 12 of section 5), hence the hypothesis.

Two modules prove what holds in a pool that suffices. The second half of `Engine_proofs` calls a
pool ample (`Ample` in `Engine`) if it has a block for every position of any
`MaxBatch` requests at their limits, and all prompts have a token:

- `PoolSuffices`: `Spec => []NeverShort` (`NeverShort` has `Ample` in it);
- `NobodyDropped`: `Ample => (Spec => []EveryRequestQueued)`;
- `ArrivalOrder`: `Ample => (Spec => FirstTokensInOrder)`;
- `ImplementsLifecycle`: `Ample => (Spec => LifecycleSpec)`.

The batch limit is what makes it work: only `InBatch` holds blocks, each no more
than it needs (`Bounded`), so a request that lacks one leaves one free. With that
no step ends half way, and every request stays covered by the queues (`Covered`);
`OrderInv` says that `waiting` is the tail of the arrivals and that
of the others all but the latest have output. The refinement maps queues to
phases action by action (`PhaseMap`).

In `CentralAmple_proofs` a pool is ample if it has room for all requests at their
full length, and `MaxTokens > 1`:

- `NobodyLeftOut`: `Ample => (Spec => []NobodyLost)`;
- `NothingLeaks`: `Ample => (Spec => []PoolBalanced)`;
- `ResultsFinal`: `Ample => (Spec => ResultFinal)`;
- `LoopLives`: `Ample => (Spec => []LoopSurvives)`;
- `ImplementsService`: `Ample => (Spec => ServiceSpec)`.

`Balance` (free blocks, popped blocks and tables add up to the pool) and `Bounded`
(tables within their need, and only of requests on their way) give every check
and pop of a prefill thread what it asks for (`PrefillGoesOn`), so no thread takes
the paths that requeue or die (`Healthy`); hence `_states` shrinks nowhere, and a request once
known stays known, with its result (`Traced`). Both hypotheses
are met by the runs that check the same properties: in `en_ample` two requests need at most
five blocks of five, in `cs_ample` the three requests need five of five. They are no
idle assumptions: section 5 lists what happens otherwise (items 4, 9, 10, 14).

`PagedAttention_proofs` proves, for any block size and any batches that are
`WellFormed`:

- `SampledRows`: `Spec => []SamplesLast`;
- `OwnPrompts`: `Spec => []PromptsAttendOwn`;
- `StoredInPlace`: `Spec => []StoresLand`;
- `AttentionExact`: `Spec => []DecodeExact`, for any number and size of warps and any `Exp`;
- `TypeCorrect`: `Spec => []TypeOK`, race or not: no warp divides by zero, none adds a value
  up without a weight.

`WellFormed` is what the callers of the forward pass provide: a table has blocks for all
positions up to the last of the pass, and no block is in two places of the
tables. It is no idle assumption either: `SlotsReady` and `Conserved` prove it of
what `Engine.step` hands over, `KVTransfer_proofs` (`Slotted`, `TablesApart`) of the
workers' batches, and TLC evaluates it for every batch of the runs. Offsets are
prefix sums, and rows a flattened list of lists; both are characterised once
(`SumStep`, `SumMonotone`, and the lemmas on `FlattenSeq`), from least counterexamples.
`RowsPlaced` then says which token is in which row, from which the first two
theorems follow. For the third, `OneCell` (a cell of tables that are apart belongs to one
sequence and one position, by division with remainder) and `PaddedCell` (the padding is
never used) say what a store writes and what it leaves, and `PassInv` goes through
the stores of a pass one by one: what is stored of a prompt before and after its turn,
and of a decoding sequence before and after theirs.

`AttentionExact` has a half for each backend. For FlashInfer, `PagesRead` shows that the
pages cut out of the common list are the table's own, and that with the length of the last
one (`LastPageLen`, a full page when the length is a multiple of the block size) they
have a cell per position. For the kernel, the invariant `Kernel` holds from launch to
end at every interleaving of the warps, and each step has a lemma of its own (`KernelDot`,
`KernelSync`, `KernelFold`, `KernelWeigh`, `KernelGather`):

- `Lockstep`: all warps are in the same window, or have left it and not begun the next
  (`Round`), and no warp adds values up while another weighs;
- `Summed`: a warp's maximum and denominator are those of the positions it has folded
  (`Seen`). A maximum that grows divides the sum by `Exp` of the difference without a
  remainder (`RescaleExact`). Where the last window has tokens, only types are claimed:
  that is the race of `pa_race`, and `NobodyEnds` says why no other window has it;
- `Shared`: a place of shared memory is empty, a score (`Dotted`), or, once the warp it
  belongs to has come to it in its turn, its weight (`Done`; `Owner` and `Turn` divide
  the position by the threads of a warp and of the block, `MineIs`). Every position is somebody's
  in exactly one turn, so none is left a score and none weighed twice.

TLC finds `Kernel` invariant on the instance of `pa_forward`.

Only model-checked: liveness (`Completes`, `Returns`), which is out of the prover's
reach, and the statements the violation runs refute.

## 5. Where code and documents disagree

Shown by a run:

1. `en_chunked`: chunks of one prompt do not attend to each other.
2. `cs_early`: `_all_done` reads `_waiting` before it looks at the threads; a
   batch requeued in between is forgotten and the loop returns without it.
3. `pa_race`: in `paged_attention_kernel.cu` no barrier separates the loop that
   folds the scores of the last window (line 98) from the one that overwrites
   them with weights (line 107); a warp that is late folds weights.

Seen while modelling; each is the failure of a property that is stated in the
module, and appears when that property is made the INVARIANT (or PROPERTY) of
the instance named:

4. `EveryRequestQueued` in `en_tight`: a `MemoryError` in a step loses the request
   whose last chunk was in it.
5. `ReadBack` in `bm_private` with `CallerCopies = FALSE`: `append_slot` returns
   the pair of blocks to copy; no caller in the repository performs the copy.
6. `AllocateDelivers` in `bm_shared`: `can_allocate` and `allocate` are not
   atomic between threads.
7. `EveryRequestQueued` in `en_ample` with `MC_EmptyPrompt`, a prompt of no tokens: it is lost by
   the early return of `step()`.
8. `NoTokenAfterEos` in `en_ample`: EOS as the first token does not end a request.
9. `NobodyLost`, `PoolBalanced` in `cs_pressure`: the `MemoryError` that follows
   from 6 ends a prefill thread; its requests and blocks are gone, and the loop
   never ends. An AssertionError in the middle of a batch leaves tables behind
   that the next allocation of the same request overwrites.
10. `LoopSurvives` in `cs_pressure`: a prefill thread's pop from `_states` while
    the length check iterates over it ends the loop.
11. `DecodeBatchBound` in `cs_ample`: requests in prefill are not counted, so the
    decode batch exceeds `MAX_DECODE_BATCH`.
12. `OutputBounded` in `cs_ample` with `MaxTokens = 1`: the request is marked
    finished before its copy is through, and then decoded without end.
13. `Returns` in `cs_ample` with `MC_TwoRequests`, `MC_Disaggregated`, 3 blocks
    and `Reserve = 2`: each fits, both together never do, and they are only
    tried together.
14. `ResultFinal` in `cs_early`'s instance: `_requeue` appends to `_waiting` first and
    pops `_states` later; a request served in between loses its finished result.

## 6. Not modelled, and the plan

Left out for good: floating-point rounding, projections, rotary embedding and
sampling in the model runner, the cost model's curve fitting, the profiler,
benchmarks, plots and examples (no state of the system), the Hugging Face
comparison runner, groups of several sequences (nothing outside unit tests
builds one), `paged_attention_optimized` (not built).

`CentralScheduler.run_until_done` feeds every result to the predictor after the
loop and never empties `_states`, so a second call would feed the first one's
again; the model ends at the first return and takes the predictor's updates
one by one in `Router`.

Worth doing next: the conditions of section 4 link modules in words (`WellFormed` is what
`Engine` and `KVTransfer` hand over); a module that composes `Engine` with
`PagedAttention`, a pass per step, would state them as one specification.
