----------------------------- MODULE BlockManager -----------------------------
(***************************************************************************)
(* The paged KV-cache memory manager: BlockAllocator, BlockSpaceManager    *)
(* and the cache cells a forward pass writes through the block tables.     *)
(*                                                                         *)
(* A pool is private to one thread (Engine) or shared by the prefill       *)
(* workers' threads, the decode worker's thread and the main thread of the *)
(* CentralScheduler.  In a shared pool other calls come between a          *)
(* can_allocate that said yes and the pops of the allocate it allowed.     *)
(***************************************************************************)
EXTENDS Integers, Sequences, FiniteSets

CONSTANTS
  Blocks,         \* the physical blocks of one GPU pool
  Seqs,           \* sequence ids
  BlockSize,      \* tokens per block
  PromptLen,      \* PromptLen[s]: prompt tokens of s
  MaxLen,         \* bound: no sequence stores more tokens than this
  SharedPool,     \* TRUE: several threads use this manager
  CallerCopies    \* TRUE: the caller of append_slot copies old to new on CoW

ASSUME BlockSizeAssumption == BlockSize \in Nat \ {0}
ASSUME PromptLenAssumption == PromptLen \in [Seqs -> Nat]
ASSUME BlocksAssumption == IsFiniteSet(Blocks)
ASSUME SeqsAssumption == IsFiniteSet(Seqs)
ASSUME MaxLenAssumption == MaxLen \in Nat
ASSUME ModeAssumption == SharedPool \in BOOLEAN /\ CallerCopies \in BOOLEAN

VARIABLES
  free,        \* BlockAllocator._free_blocks (the order of the stack is left out)
  refCount,    \* PhysicalBlock.ref_cout
  allocating,  \* sequences whose allocate() has passed its check and is popping
  table,       \* the local list of allocate(), then the entry of _block_table
  status,      \* Sequence.status
  computed,    \* Sequence.num_computed_tokens
  slotted,     \* sequences whose append_slot ran and whose token is not stored yet
  kv,          \* kv[b][o]: the token whose K/V is in cell o of block b
  hist         \* ghost: the tokens of each sequence, in order

poolVars == <<free, refCount, allocating, table, status>>
dataVars == <<computed, slotted, kv, hist>>
vars == <<free, refCount, allocating, table, status, computed, slotted, kv, hist>>

Stale == <<>>                         \* contents no live sequence wrote
Offsets == 0 .. BlockSize - 1
Token(s, p) == <<s, p>>               \* the token s computed at position p

BlocksOf(s) == {table[s][i] : i \in DOMAIN table[s]}
Owners(b) == {s \in Seqs : b \in BlocksOf(s)}

(* Sequence.num_logic_blocks before any output: the prompt, rounded up. *)
NumLogicBlocks(s) == (PromptLen[s] + BlockSize - 1) \div BlockSize

(* The sequences with an entry in _block_table: allocate() and fork() add  *)
(* it, free() removes it.                                                  *)
HasTable(s) == status[s] = "RUNNING"

PrefillDone(s) == computed[s] >= PromptLen[s]

(* One thread per private pool: nothing runs between the check and the end *)
(* of allocate().                                                          *)
Turn == SharedPool \/ allocating = {}

Init ==
  /\ free = Blocks
  /\ refCount = [b \in Blocks |-> 0]
  /\ allocating = {}
  /\ table = [s \in Seqs |-> <<>>]
  /\ status = [s \in Seqs |-> "WAITING"]
  /\ computed = [s \in Seqs |-> 0]
  /\ slotted = {}
  /\ kv = [b \in Blocks |-> [o \in Offsets |-> Stale]]
  /\ hist = [s \in Seqs |-> <<>>]
-----------------------------------------------------------------------------
(* Mutant: can_allocate off by one.                                        *)
CanAllocate_OffByOne(s) ==
  /\ Turn
  /\ status[s] = "WAITING"
  /\ s \notin allocating
  /\ Cardinality(free) + 1 >= NumLogicBlocks(s)
  /\ allocating' = allocating \cup {s}
  /\ UNCHANGED <<free, refCount, table, status, dataVars>>

(* can_allocate says yes and the caller goes on to allocate().             *)
CanAllocate(s) ==
  /\ Turn
  /\ status[s] = "WAITING"
  /\ s \notin allocating
  /\ Cardinality(free) >= NumLogicBlocks(s)
  /\ allocating' = allocating \cup {s}
  /\ UNCHANGED <<free, refCount, table, status, dataVars>>

(* One turn of allocate()'s loop: BlockAllocator.allocate pops a block.    *)
AllocateBlock(s) ==
  /\ s \in allocating
  /\ Len(table[s]) < NumLogicBlocks(s)
  /\ \E b \in free :
       /\ free' = free \ {b}
       /\ refCount' = [refCount EXCEPT ![b] = 1]
       /\ table' = [table EXCEPT ![s] = Append(@, b)]
  /\ UNCHANGED <<allocating, status, dataVars>>

(* The list is complete: it becomes the block table and s is RUNNING.      *)
AllocateDone(s) ==
  /\ s \in allocating
  /\ Len(table[s]) = NumLogicBlocks(s)
  /\ allocating' = allocating \ {s}
  /\ status' = [status EXCEPT ![s] = "RUNNING"]
  /\ UNCHANGED <<free, refCount, table, dataVars>>

(* The stack ran empty on the way: MemoryError, and the local list with    *)
(* the blocks popped so far is dropped without freeing them.               *)
AllocateOOM(s) ==
  /\ s \in allocating
  /\ Len(table[s]) < NumLogicBlocks(s)
  /\ free = {}
  /\ allocating' = allocating \ {s}
  /\ table' = [table EXCEPT ![s] = <<>>]
  /\ UNCHANGED <<free, refCount, status, dataVars>>
-----------------------------------------------------------------------------
(* Mutant: counts the position after the one about to be written.          *)
NeededBlocks_OffByOne(s) == (computed[s] + 1) \div BlockSize + 1

NeededBlocks(s) == computed[s] \div BlockSize + 1
LastBlock(s) == table[s][Len(table[s])]
Decoding(s) == HasTable(s) /\ PrefillDone(s) /\ computed[s] < MaxLen

(* append_slot, first branch: the last block is full, take one more.       *)
AppendGrow(s) ==
  /\ Turn
  /\ Decoding(s)
  /\ Len(table[s]) < NeededBlocks(s)
  /\ \E b \in free :
       /\ free' = free \ {b}
       /\ refCount' = [refCount EXCEPT ![b] = 1]
       /\ table' = [table EXCEPT ![s] = Append(@, b)]
  /\ slotted' = slotted \cup {s}
  /\ UNCHANGED <<allocating, status, computed, kv, hist>>

(* Mutant: the reference to the old block is kept.                         *)
AppendCopyOnWrite_KeepsOld(s) ==
  /\ Turn
  /\ Decoding(s)
  /\ Len(table[s]) >= NeededBlocks(s)
  /\ refCount[LastBlock(s)] > 1
  /\ \E b \in free :
       /\ free' = free \ {b}
       /\ refCount' = [refCount EXCEPT ![b] = 1]
       /\ table' = [table EXCEPT ![s] = [@ EXCEPT ![Len(@)] = b]]
       /\ kv' = IF CallerCopies THEN [kv EXCEPT ![b] = kv[LastBlock(s)]] ELSE kv
  /\ slotted' = slotted \cup {s}
  /\ UNCHANGED <<allocating, status, computed, hist>>

(* append_slot, second branch: the last block is shared, so s moves to a   *)
(* fresh one.  The new block has the old contents only if the caller       *)
(* performs the copy that the returned pair asks for.                      *)
AppendCopyOnWrite(s) ==
  /\ Turn
  /\ Decoding(s)
  /\ Len(table[s]) >= NeededBlocks(s)
  /\ refCount[LastBlock(s)] > 1
  /\ \E b \in free :
       /\ free' = free \ {b}
       /\ refCount' = [refCount EXCEPT ![b] = 1, ![LastBlock(s)] = @ - 1]
       /\ table' = [table EXCEPT ![s] = [@ EXCEPT ![Len(@)] = b]]
       /\ kv' = IF CallerCopies THEN [kv EXCEPT ![b] = kv[LastBlock(s)]] ELSE kv
  /\ slotted' = slotted \cup {s}
  /\ UNCHANGED <<allocating, status, computed, hist>>

(* append_slot, last branch: there is room in a block of its own.          *)
AppendInPlace(s) ==
  /\ Turn
  /\ Decoding(s)
  /\ Len(table[s]) >= NeededBlocks(s)
  /\ refCount[LastBlock(s)] <= 1
  /\ slotted' = slotted \cup {s}
  /\ UNCHANGED <<poolVars, computed, kv, hist>>

AppendSlot(s) == AppendGrow(s) \/ AppendCopyOnWrite(s) \/ AppendInPlace(s)
-----------------------------------------------------------------------------
BlockAt(s, p) == table[s][p \div BlockSize + 1]

(* The forward pass stores the K/V of n tokens from position computed[s].  *)
StoreKV(s, n) ==
  LET new == computed[s] .. computed[s] + n - 1
      at(b, o) == {p \in new : BlockAt(s, p) = b /\ p % BlockSize = o}
  IN /\ kv' = [b \in Blocks |-> [o \in Offsets |->
                 IF at(b, o) = {} THEN kv[b][o]
                                  ELSE Token(s, CHOOSE p \in at(b, o) : TRUE)]]
     /\ hist' = [hist EXCEPT ![s] =
                   @ \o [i \in 1 .. n |-> Token(s, computed[s] + i - 1)]]
     /\ computed' = [computed EXCEPT ![s] = @ + n]

(* A prefill chunk of s: n prompt tokens from where the last one stopped.  *)
Prefill(s, n) ==
  /\ Turn
  /\ HasTable(s)
  /\ n \in 1 .. PromptLen[s] - computed[s]
  /\ StoreKV(s, n)
  /\ UNCHANGED <<poolVars, slotted>>

(* A decode step of s: the one token for which append_slot made room.      *)
Decode(s) ==
  /\ Turn
  /\ s \in slotted
  /\ StoreKV(s, 1)
  /\ slotted' = slotted \ {s}
  /\ UNCHANGED poolVars
-----------------------------------------------------------------------------
(* Mutant: the shared blocks are not counted.                              *)
Fork_NoCount(p, c) ==
  /\ Turn
  /\ HasTable(p) /\ PrefillDone(p) /\ p \notin slotted
  /\ status[c] = "WAITING" /\ c \notin allocating
  /\ PromptLen[c] = PromptLen[p]
  /\ table' = [table EXCEPT ![c] = table[p]]
  /\ status' = [status EXCEPT ![c] = "RUNNING"]
  /\ computed' = [computed EXCEPT ![c] = computed[p]]
  /\ hist' = [hist EXCEPT ![c] = hist[p]]
  /\ UNCHANGED <<free, refCount, allocating, slotted, kv>>

(* fork: child c shares every block of p.  The caller forks between two    *)
(* decode steps and hands the child p's status and position.               *)
Fork(p, c) ==
  /\ Turn
  /\ HasTable(p) /\ PrefillDone(p) /\ p \notin slotted
  /\ status[c] = "WAITING" /\ c \notin allocating
  /\ PromptLen[c] = PromptLen[p]
  /\ refCount' = [b \in Blocks |-> IF b \in BlocksOf(p) THEN refCount[b] + 1
                                                        ELSE refCount[b]]
  /\ table' = [table EXCEPT ![c] = table[p]]
  /\ status' = [status EXCEPT ![c] = "RUNNING"]
  /\ computed' = [computed EXCEPT ![c] = computed[p]]
  /\ hist' = [hist EXCEPT ![c] = hist[p]]
  /\ UNCHANGED <<free, allocating, slotted, kv>>

(* Mutant: every block is pushed back, shared or not.                      *)
Free_Shared(s) ==
  LET returned == BlocksOf(s)
  IN /\ Turn
     /\ HasTable(s)
     /\ free' = free \cup returned
     /\ refCount' = [b \in Blocks |-> IF b \in BlocksOf(s) THEN refCount[b] - 1
                                                           ELSE refCount[b]]
     /\ table' = [table EXCEPT ![s] = <<>>]
     /\ status' = [status EXCEPT ![s] = "FINISHED_ABORTED"]
     /\ slotted' = slotted \ {s}
     /\ kv' = [b \in Blocks |-> IF b \in returned THEN [o \in Offsets |-> Stale]
                                                  ELSE kv[b]]
     /\ UNCHANGED <<allocating, computed, hist>>

(* free: every block of s loses a reference; those with none left are      *)
(* pushed back, and their contents no longer mean anything.                *)
Free(s) ==
  LET returned == {b \in BlocksOf(s) : refCount[b] = 1}
  IN /\ Turn
     /\ HasTable(s)
     /\ free' = free \cup returned
     /\ refCount' = [b \in Blocks |-> IF b \in BlocksOf(s) THEN refCount[b] - 1
                                                           ELSE refCount[b]]
     /\ table' = [table EXCEPT ![s] = <<>>]
     /\ status' = [status EXCEPT ![s] = "FINISHED_ABORTED"]
     /\ slotted' = slotted \ {s}
     /\ kv' = [b \in Blocks |-> IF b \in returned THEN [o \in Offsets |-> Stale]
                                                  ELSE kv[b]]
     /\ UNCHANGED <<allocating, computed, hist>>

Next ==
  \E s \in Seqs :
    \/ CanAllocate(s)
    \/ AllocateBlock(s)
    \/ AllocateDone(s)
    \/ AllocateOOM(s)
    \/ AppendGrow(s)
    \/ AppendCopyOnWrite(s)
    \/ AppendInPlace(s)
    \/ \E n \in 1 .. PromptLen[s] : Prefill(s, n)
    \/ Decode(s)
    \/ \E c \in Seqs \ {s} : Fork(s, c)
    \/ Free(s)

Spec == Init /\ [][Next]_vars
-----------------------------------------------------------------------------
Statuses == {"WAITING", "RUNNING", "FINISHED_ABORTED"}

(* Types of all variables; a token's position stays below MaxLen.          *)
TypeOK ==
  /\ free \subseteq Blocks
  /\ refCount \in [Blocks -> Nat]
  /\ allocating \subseteq Seqs
  /\ table \in [Seqs -> Seq(Blocks)]
  /\ status \in [Seqs -> Statuses]
  /\ computed \in [Seqs -> Nat]
  /\ slotted \subseteq Seqs

(* Blocks that no table, no allocate() in progress and no free list knows. *)
Leaked == {b \in Blocks \ free : Owners(b) = {}}

(* The reference count of a block in use is the number of sequences whose  *)
(* table (or allocate() in progress) holds it, and the free list holds     *)
(* exactly the blocks counted 0: allocate, fork, copy-on-write and free    *)
(* keep count and holders together, so no block is freed under a holder    *)
(* (ref_cout, lines 21-32 and 100-112).                                    *)
RefCountExact ==
  /\ \A b \in Blocks \ Leaked : refCount[b] = Cardinality(Owners(b))
  /\ free = {b \in Blocks : refCount[b] = 0}

(* No block is ever lost: each is free or some sequence can still return   *)
(* it (allocate, lines 59-65; append_slot's swap, lines 91-96).            *)
NoLeak == Leaked = {}

(* Once can_allocate has said yes, allocate() gives the sequence its whole *)
(* table and makes it RUNNING (lines 56-65): the free blocks that were     *)
(* counted are still there when they are popped.                           *)
AllocateDelivers ==
  [][\A s \in allocating \ allocating' : status'[s] = "RUNNING"]_vars

(* Attention reads back what was stored: every position a running sequence *)
(* has computed is found, through its block table, in the cell that still  *)
(* has that sequence's (or, before a fork, its parent's) token, whatever   *)
(* the other sequences stored, shared, copied or freed meanwhile.          *)
ReadBack ==
  \A s \in Seqs : HasTable(s) =>
    \A p \in 0 .. computed[s] - 1 :
      /\ p \div BlockSize < Len(table[s])
      /\ kv[BlockAt(s, p)][p % BlockSize] = hist[s][p + 1]

(* A running sequence holds the blocks its prompt and its stored tokens    *)
(* need, one more at most for the token append_slot made room for, and     *)
(* none twice: calling append_slot again for the same token, as a caller   *)
(* that hit MemoryError half way through its batch does, takes nothing.    *)
ExactFit ==
  \A s \in Seqs : HasTable(s) =>
    LET tokens == IF s \in slotted THEN computed[s] + 1 ELSE computed[s]
        filled == (tokens + BlockSize - 1) \div BlockSize
    IN /\ Len(table[s]) = IF filled > NumLogicBlocks(s) THEN filled
                                                        ELSE NumLogicBlocks(s)
       /\ Cardinality(BlocksOf(s)) = Len(table[s])

(* Every step of the manager is a step of the abstract pool: a block is    *)
(* taken only while nobody owns it, gains owners only by fork.             *)
Pool == INSTANCE BlockPool WITH owners <- [b \in Blocks |-> Owners(b)]
PoolSpec == Pool!Spec
=============================================================================
