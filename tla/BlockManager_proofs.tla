-------------------------- MODULE BlockManager_proofs --------------------------
(***************************************************************************)
(* Theorems about BlockManager, for any number of blocks and sequences,    *)
(* any block size and any prompts.                                         *)
(***************************************************************************)
EXTENDS BlockManager, FiniteSetTheorems, TLAPS

(* A sequence that is allocating still waits, and only allocating and      *)
(* running sequences have blocks.                                          *)
TableHolders ==
  /\ \A s \in allocating : status[s] = "WAITING"
  /\ \A s \in Seqs : s \in allocating \/ HasTable(s) \/ table[s] = <<>>

(* A table names no block twice.                                           *)
NoRepeats ==
  \A s \in Seqs : \A i, j \in DOMAIN table[s] : table[s][i] = table[s][j] => i = j

(* The blocks of an allocate() in progress are in no other list.           *)
BuildersAlone ==
  \A s \in allocating, b \in Blocks : s \in Owners(b) => Owners(b) = {s}

(* RefCountExact, split by what is known of a block.                       *)
OwnedCounted ==
  \A b \in Blocks : Owners(b) # {} => refCount[b] = Cardinality(Owners(b))
FreeUncounted == \A b \in free : refCount[b] = 0 /\ Owners(b) = {}
OthersCounted == \A b \in Blocks \ free : refCount[b] > 0

Ind ==
  /\ TypeOK
  /\ TableHolders
  /\ NoRepeats
  /\ BuildersAlone
  /\ OwnedCounted
  /\ FreeUncounted
  /\ OthersCounted
-----------------------------------------------------------------------------
ElemsOf(u) == {u[i] : i \in DOMAIN u}

LEMMA OwnersFinite ==
  ASSUME NEW b PROVE IsFiniteSet(Owners(b))
BY SeqsAssumption, FS_Subset DEF Owners

(* Replacing the list of one sequence changes the owners of a block by     *)
(* that sequence only.                                                     *)
LEMMA OwnersAfter ==
  ASSUME TypeOK, NEW s \in Seqs, NEW u, table' = [table EXCEPT ![s] = u],
         NEW b \in Blocks
  PROVE  Owners(b)' = IF b \in ElemsOf(u) THEN Owners(b) \cup {s}
                                          ELSE Owners(b) \ {s}
BY DEF TypeOK, Owners, BlocksOf, ElemsOf

LEMMA BlocksAfter ==
  ASSUME TypeOK, NEW s \in Seqs, NEW u, table' = [table EXCEPT ![s] = u],
         NEW q \in Seqs
  PROVE  BlocksOf(q)' = IF q = s THEN ElemsOf(u) ELSE BlocksOf(q)
BY DEF TypeOK, BlocksOf, ElemsOf

LEMMA ElemsAppend ==
  ASSUME NEW t \in Seq(Blocks), NEW b \in Blocks
  PROVE  /\ Append(t, b) \in Seq(Blocks)
         /\ ElemsOf(Append(t, b)) = ElemsOf(t) \cup {b}
<1>1. Append(t, b) \in Seq(Blocks)
  OBVIOUS
<1>2. /\ DOMAIN Append(t, b) = DOMAIN t \cup {Len(t) + 1}
      /\ \A i \in DOMAIN t : Append(t, b)[i] = t[i]
      /\ Append(t, b)[Len(t) + 1] = b
  OBVIOUS
<1> QED
  BY <1>1, <1>2 DEF ElemsOf

LEMMA InitInd == Init => Ind
<1> SUFFICES ASSUME Init PROVE Ind
  OBVIOUS
<1>1. TypeOK
  BY DEF Init, TypeOK, Statuses
<1>2. \A b \in Blocks : Owners(b) = {}
  BY DEF Init, Owners, BlocksOf
<1> QED
  BY <1>1, <1>2 DEF Init, Ind, TableHolders, NoRepeats, BuildersAlone,
     OwnedCounted, FreeUncounted, OthersCounted
-----------------------------------------------------------------------------
LEMMA DivNat ==
  ASSUME NEW a \in Nat PROVE a \div BlockSize \in Nat
BY BlockSizeAssumption

(* What Ind says of the blocks a sequence holds, and of free blocks.       *)
LEMMA HeldBlocks ==
  ASSUME Ind, NEW s \in Seqs, NEW b \in BlocksOf(s)
  PROVE  /\ b \in Blocks
         /\ b \notin free
         /\ s \in Owners(b)
         /\ refCount[b] \in Nat \ {0}
         /\ refCount[b] = Cardinality(Owners(b))
<1>1. b \in Blocks
  BY DEF Ind, TypeOK, BlocksOf
<1>2. s \in Owners(b)
  BY DEF Owners
<1>3. b \notin free
  BY <1>2 DEF Ind, FreeUncounted
<1> QED
  BY <1>1, <1>2, <1>3 DEF Ind, TypeOK, OthersCounted, OwnedCounted

(* How each kind of step changes the owners of every block.                *)
LEMMA TakeOwners ==
  ASSUME Ind, NEW s \in Seqs, NEW b \in free,
         table' = [table EXCEPT ![s] = Append(@, b)]
  PROVE  /\ b \in Blocks /\ Owners(b) = {} /\ refCount[b] = 0
         /\ \A d \in Blocks : Owners(d)' = IF d = b THEN {s} ELSE Owners(d)
<1>1. /\ b \in Blocks /\ Owners(b) = {} /\ refCount[b] = 0
      /\ table[s] \in Seq(Blocks)
      /\ \A q \in Seqs : b \notin BlocksOf(q)
  BY DEF Ind, TypeOK, FreeUncounted, Owners
<1>2. ElemsOf(Append(table[s], b)) = BlocksOf(s) \cup {b}
  BY <1>1, ElemsAppend DEF ElemsOf, BlocksOf
<1>3. \A d \in Blocks : Owners(d)' = IF d = b THEN {s} ELSE Owners(d)
  <2> SUFFICES ASSUME NEW d \in Blocks
               PROVE Owners(d)' = IF d = b THEN {s} ELSE Owners(d)
    OBVIOUS
  <2>1. Owners(d)' = IF d \in BlocksOf(s) \cup {b} THEN Owners(d) \cup {s}
                                                   ELSE Owners(d) \ {s}
    BY <1>2, OwnersAfter DEF Ind
  <2> QED
    BY <2>1, <1>1 DEF Owners
<1> QED
  BY <1>1, <1>3

(* A sequence takes a free block: the popping turn of allocate() and the   *)
(* first branch of append_slot.                                            *)
LEMMA TakeInd ==
  ASSUME Ind, NEW s \in Seqs, NEW b \in free,
         s \in allocating \/ HasTable(s),
         free' = free \ {b},
         refCount' = [refCount EXCEPT ![b] = 1],
         table' = [table EXCEPT ![s] = Append(@, b)],
         UNCHANGED <<allocating, status>>,
         TypeOK'
  PROVE  Ind'
<1> DEFINE u == Append(table[s], b)
<1>1. /\ b \in Blocks /\ Owners(b) = {} /\ refCount[b] = 0
      /\ table[s] \in Seq(Blocks)
      /\ table' = [table EXCEPT ![s] = u]
  BY DEF Ind, TypeOK, FreeUncounted
<1>3. \A q \in Seqs : b \notin BlocksOf(q)
  BY <1>1 DEF Owners
<1>4. \A d \in Blocks : Owners(d)' = IF d = b THEN {s} ELSE Owners(d)
  BY TakeOwners
<1>5. TableHolders'
  BY DEF Ind, TypeOK, TableHolders, HasTable
<1>6. NoRepeats'
  <2> SUFFICES ASSUME NEW q \in Seqs, NEW i \in DOMAIN table'[q],
                      NEW j \in DOMAIN table'[q], table'[q][i] = table'[q][j]
               PROVE  i = j
    BY DEF NoRepeats
  <2>1. CASE q # s
    BY <2>1 DEF Ind, TypeOK, NoRepeats
  <2>2. CASE q = s
    <3>1. table'[q] = u
      BY <2>2, <1>1 DEF Ind, TypeOK
    <3>2. /\ DOMAIN u = DOMAIN table[s] \cup {Len(table[s]) + 1}
          /\ \A k \in DOMAIN table[s] : u[k] = table[s][k]
          /\ u[Len(table[s]) + 1] = b
      BY <1>1
    <3>3. \A k \in DOMAIN table[s] : u[k] # b
      BY <3>2, <1>3 DEF BlocksOf
    <3> QED
      BY <3>1, <3>2, <3>3 DEF Ind, NoRepeats
  <2> QED
    BY <2>1, <2>2
<1>7. BuildersAlone'
  <2> SUFFICES ASSUME NEW q \in allocating, NEW d \in Blocks, q \in Owners(d)'
               PROVE  Owners(d)' = {q}
    BY DEF BuildersAlone
  <2>1. CASE d = b
    BY <2>1, <1>4
  <2>2. CASE d # b
    BY <2>2, <1>4 DEF Ind, BuildersAlone
  <2> QED
    BY <2>1, <2>2
<1>8. OwnedCounted'
  <2> SUFFICES ASSUME NEW d \in Blocks, Owners(d)' # {}
               PROVE  refCount'[d] = Cardinality(Owners(d)')
    BY DEF OwnedCounted
  <2>1. CASE d = b
    <3>1. refCount'[d] = 1
      BY <2>1 DEF Ind, TypeOK
    <3>2. Owners(d)' = {s}
      BY <2>1, <1>4
    <3> QED
      BY <3>1, <3>2, FS_Singleton
  <2>2. CASE d # b
    <3>1. refCount'[d] = refCount[d]
      BY <2>2 DEF Ind, TypeOK
    <3>2. Owners(d)' = Owners(d)
      BY <2>2, <1>4
    <3> QED
      BY <3>1, <3>2 DEF Ind, OwnedCounted
  <2> QED
    BY <2>1, <2>2
<1>9. FreeUncounted'
  BY <1>1, <1>4 DEF Ind, TypeOK, FreeUncounted
<1>10. OthersCounted'
  BY <1>1 DEF Ind, TypeOK, OthersCounted
<1> QED
  BY <1>5, <1>6, <1>7, <1>8, <1>9, <1>10 DEF Ind

(* The check of can_allocate and the last turn of allocate() move no       *)
(* block.                                                                  *)
LEMMA CanAllocateInd ==
  ASSUME Ind, NEW s \in Seqs, CanAllocate(s) PROVE Ind'
<1>1. TypeOK'
  BY DEF Ind, TypeOK, CanAllocate, dataVars
<1>2. table[s] = <<>> /\ \A b \in Blocks : s \notin Owners(b)
  BY DEF Ind, TableHolders, CanAllocate, HasTable, Owners, BlocksOf
<1>3. TableHolders'
  BY DEF Ind, TableHolders, CanAllocate, HasTable
<1>4. \A b : Owners(b)' = Owners(b)
  BY DEF CanAllocate, Owners, BlocksOf
<1>5. NoRepeats' /\ BuildersAlone'
  BY <1>2, <1>4 DEF Ind, NoRepeats, BuildersAlone, CanAllocate
<1>6. OwnedCounted' /\ FreeUncounted' /\ OthersCounted'
  BY <1>4 DEF Ind, OwnedCounted, FreeUncounted, OthersCounted, CanAllocate
<1> QED
  BY <1>1, <1>3, <1>5, <1>6 DEF Ind

LEMMA AllocateDoneInd ==
  ASSUME Ind, NEW s \in Seqs, AllocateDone(s) PROVE Ind'
<1>1. TypeOK'
  BY DEF Ind, TypeOK, AllocateDone, dataVars, Statuses
<1>2. TableHolders'
  BY DEF Ind, TypeOK, TableHolders, AllocateDone, HasTable
<1>3. \A b : Owners(b)' = Owners(b)
  BY DEF AllocateDone, Owners, BlocksOf
<1>4. NoRepeats' /\ BuildersAlone'
  BY <1>3 DEF Ind, NoRepeats, BuildersAlone, AllocateDone
<1>5. OwnedCounted' /\ FreeUncounted' /\ OthersCounted'
  BY <1>3 DEF Ind, OwnedCounted, FreeUncounted, OthersCounted, AllocateDone
<1> QED
  BY <1>1, <1>2, <1>4, <1>5 DEF Ind

LEMMA DropOwners ==
  ASSUME Ind, NEW s \in Seqs, table' = [table EXCEPT ![s] = <<>>]
  PROVE  \A d \in Blocks : Owners(d)' = Owners(d) \ {s}
<1>1. ElemsOf(<<>>) = {}
  BY DEF ElemsOf
<1> QED
  BY <1>1, OwnersAfter DEF Ind

(* The blocks of an abandoned allocate() keep their count of 1 and lose    *)
(* their only owner.                                                       *)
LEMMA AllocateOOMInd ==
  ASSUME Ind, NEW s \in Seqs, AllocateOOM(s) PROVE Ind'
<1>1. TypeOK'
  BY DEF Ind, TypeOK, AllocateOOM, dataVars
<1>2. TableHolders'
  BY DEF Ind, TypeOK, TableHolders, AllocateOOM, HasTable
<1>3. \A d \in Blocks : Owners(d)' = Owners(d) \ {s}
  BY DropOwners DEF AllocateOOM
<1>4. NoRepeats'
  BY DEF Ind, TypeOK, NoRepeats, AllocateOOM
<1>5. BuildersAlone'
  <2> SUFFICES ASSUME NEW q \in allocating', NEW d \in Blocks, q \in Owners(d)'
               PROVE  Owners(d)' = {q}
    BY DEF BuildersAlone
  <2>1. q \in allocating /\ q # s /\ q \in Owners(d)
    BY <1>3 DEF AllocateOOM
  <2> QED
    BY <2>1, <1>3 DEF Ind, BuildersAlone
<1>6. OwnedCounted'
  <2> SUFFICES ASSUME NEW d \in Blocks, Owners(d)' # {}
               PROVE  refCount'[d] = Cardinality(Owners(d)')
    BY DEF OwnedCounted
  <2>1. s \notin Owners(d)
    BY <1>3 DEF Ind, BuildersAlone, AllocateOOM
  <2>2. Owners(d)' = Owners(d) /\ refCount' = refCount
    BY <2>1, <1>3 DEF AllocateOOM
  <2> QED
    BY <2>2 DEF Ind, OwnedCounted
<1>7. FreeUncounted' /\ OthersCounted'
  BY DEF Ind, FreeUncounted, OthersCounted, AllocateOOM
<1> QED
  BY <1>1, <1>2, <1>4, <1>5, <1>6, <1>7 DEF Ind

LEMMA ElemsReplaceLast ==
  ASSUME NEW t \in Seq(Blocks), Len(t) > 0, NEW b \in Blocks,
         \A i, j \in DOMAIN t : t[i] = t[j] => i = j
  PROVE  LET u == [t EXCEPT ![Len(t)] = b]
         IN /\ u \in Seq(Blocks)
            /\ ElemsOf(u) = (ElemsOf(t) \ {t[Len(t)]}) \cup {b}
<1> DEFINE u == [t EXCEPT ![Len(t)] = b]
<1>1. u \in Seq(Blocks)
  OBVIOUS
<1>2. /\ DOMAIN u = DOMAIN t
      /\ Len(t) \in DOMAIN t
      /\ u[Len(t)] = b
      /\ \A i \in DOMAIN t : i # Len(t) => u[i] = t[i]
  OBVIOUS
<1> HIDE DEF u
<1>3. ElemsOf(u) = (ElemsOf(t) \ {t[Len(t)]}) \cup {b}
  BY <1>2 DEF ElemsOf
<1> QED
  BY <1>1, <1>3 DEF u

(* Copy-on-write: s leaves a block that others still own.                  *)
LEMMA SwapOwners ==
  ASSUME Ind, NEW s \in Seqs, AppendCopyOnWrite(s)
  PROVE  \E b \in free :
           LET old == LastBlock(s)
               u == [table[s] EXCEPT ![Len(table[s])] = b]
           IN /\ free' = free \ {b}
              /\ refCount' = [refCount EXCEPT ![b] = 1, ![old] = @ - 1]
              /\ table' = [table EXCEPT ![s] = u]
              /\ Len(table[s]) > 0 /\ u \in Seq(Blocks)
              /\ old \in Blocks /\ old # b /\ s \in Owners(old)
              /\ refCount[old] = Cardinality(Owners(old))
              /\ \A d \in Blocks : Owners(d)' = IF d = b THEN {s}
                                                ELSE IF d = old THEN Owners(d) \ {s}
                                                ELSE Owners(d)
<1> DEFINE old == LastBlock(s)
<1>1. PICK b \in free :
        /\ free' = free \ {b}
        /\ refCount' = [refCount EXCEPT ![b] = 1, ![old] = @ - 1]
        /\ table' = [table EXCEPT ![s] = [@ EXCEPT ![Len(@)] = b]]
  BY DEF AppendCopyOnWrite
<1> DEFINE u == [table[s] EXCEPT ![Len(table[s])] = b]
<1>2. /\ status[s] = "RUNNING" /\ s \notin allocating
      /\ allocating' = allocating /\ status' = status
      /\ refCount[old] > 1
      /\ b \in Blocks /\ Owners(b) = {} /\ refCount[b] = 0
  BY DEF Ind, TypeOK, TableHolders, FreeUncounted, AppendCopyOnWrite, Decoding, HasTable
<1>3. table[s] \in Seq(Blocks) /\ Len(table[s]) > 0
  <2>1. computed[s] \div BlockSize \in Nat
    BY DivNat DEF Ind, TypeOK
  <2> QED
    BY <2>1 DEF Ind, TypeOK, AppendCopyOnWrite, NeededBlocks
<1>4. old \in BlocksOf(s) /\ table' = [table EXCEPT ![s] = u]
  BY <1>1, <1>3 DEF BlocksOf, LastBlock
<1>5. /\ old \in Blocks /\ old # b /\ s \in Owners(old)
      /\ refCount[old] \in Nat /\ refCount[old] = Cardinality(Owners(old))
  BY <1>1, <1>4, HeldBlocks
<1>6. u \in Seq(Blocks) /\ ElemsOf(u) = (BlocksOf(s) \ {old}) \cup {b}
  <2>1. \A i, j \in DOMAIN table[s] : table[s][i] = table[s][j] => i = j
    BY DEF Ind, NoRepeats
  <2>2. BlocksOf(s) = ElemsOf(table[s])
    BY DEF BlocksOf, ElemsOf
  <2> QED
    BY <1>2, <1>3, <2>1, <2>2, ElemsReplaceLast DEF LastBlock
<1>7. \A d \in Blocks : Owners(d)' = IF d = b THEN {s}
                                     ELSE IF d = old THEN Owners(d) \ {s}
                                     ELSE Owners(d)
  <2> SUFFICES ASSUME NEW d \in Blocks
               PROVE Owners(d)' = IF d = b THEN {s}
                                  ELSE IF d = old THEN Owners(d) \ {s}
                                  ELSE Owners(d)
    OBVIOUS
  <2>1. Owners(d)' = IF d \in ElemsOf(u) THEN Owners(d) \cup {s}
                                         ELSE Owners(d) \ {s}
    BY <1>4, OwnersAfter DEF Ind
  <2>2. d \in BlocksOf(s) <=> s \in Owners(d)
    BY DEF Owners
  <2> HIDE DEF u, old
  <2> QED
    BY <2>1, <2>2, <1>2, <1>5, <1>6
<1> QED
  BY <1>1, <1>3, <1>4, <1>5, <1>6, <1>7

LEMMA AppendCopyOnWriteInd ==
  ASSUME Ind, NEW s \in Seqs, AppendCopyOnWrite(s) PROVE Ind'
<1> DEFINE old == LastBlock(s)
<1>1. PICK b \in free :
        LET u == [table[s] EXCEPT ![Len(table[s])] = b]
        IN /\ free' = free \ {b}
           /\ refCount' = [refCount EXCEPT ![b] = 1, ![old] = @ - 1]
           /\ table' = [table EXCEPT ![s] = u]
           /\ Len(table[s]) > 0 /\ u \in Seq(Blocks)
           /\ old \in Blocks /\ old # b /\ s \in Owners(old)
           /\ refCount[old] = Cardinality(Owners(old))
           /\ \A d \in Blocks : Owners(d)' = IF d = b THEN {s}
                                             ELSE IF d = old THEN Owners(d) \ {s}
                                             ELSE Owners(d)
  BY SwapOwners
<1> DEFINE u == [table[s] EXCEPT ![Len(table[s])] = b]
<1>2. /\ status[s] = "RUNNING" /\ s \notin allocating
      /\ allocating' = allocating /\ status' = status
      /\ refCount[old] > 1
      /\ b \in Blocks /\ Owners(b) = {} /\ refCount[b] = 0
  BY DEF Ind, TypeOK, TableHolders, FreeUncounted, AppendCopyOnWrite, Decoding, HasTable
<1>3. table[s] \in Seq(Blocks) /\ Len(table[s]) > 0
  BY <1>1 DEF Ind, TypeOK
<1>4. table' = [table EXCEPT ![s] = u] /\ u \in Seq(Blocks)
  BY <1>1
<1>5. /\ old \in Blocks /\ old # b /\ s \in Owners(old)
      /\ refCount[old] \in Nat /\ refCount[old] = Cardinality(Owners(old))
  BY <1>1 DEF Ind, TypeOK
<1>7. TypeOK'
  <2>1. refCount' \in [Blocks -> Nat]
    <3> HIDE DEF old
    <3>1. refCount \in [Blocks -> Nat] /\ refCount[old] - 1 \in Nat
      BY <1>2, <1>5 DEF Ind, TypeOK
    <3> QED
      BY <3>1, <1>1, <1>2, <1>5
  <2>2. table' \in [Seqs -> Seq(Blocks)]
    BY <1>4 DEF Ind, TypeOK
  <2> QED
    BY <2>1, <2>2, <1>1 DEF Ind, TypeOK, AppendCopyOnWrite
<1>8. \A d \in Blocks : Owners(d)' = IF d = b THEN {s}
                                     ELSE IF d = old THEN Owners(d) \ {s}
                                     ELSE Owners(d)
  BY <1>1
<1> HIDE DEF old
<1>9. TableHolders'
  BY <1>2, <1>4 DEF Ind, TypeOK, TableHolders, HasTable
<1>10. NoRepeats'
  <2>1. \A i \in DOMAIN table[s] : table[s][i] # b
    BY <1>2 DEF Owners, BlocksOf
  <2>2. \A i, j \in DOMAIN u : u[i] = u[j] => i = j
    BY <2>1, <1>3 DEF Ind, NoRepeats
  <2>3. \A q \in Seqs : table'[q] = IF q = s THEN u ELSE table[q]
    BY <1>4 DEF Ind, TypeOK
  <2> HIDE DEF u
  <2> QED
    BY <2>2, <2>3 DEF Ind, NoRepeats
<1>11. BuildersAlone'
  <2> SUFFICES ASSUME NEW q \in allocating, NEW d \in Blocks, q \in Owners(d)'
               PROVE  Owners(d)' = {q}
    BY <1>2 DEF BuildersAlone
  <2>1. d # b /\ q # s /\ q \in Owners(d)
    BY <1>2, <1>8
  <2>2. Owners(d) = {q}
    BY <2>1 DEF Ind, BuildersAlone
  <2> QED
    BY <2>1, <2>2, <1>8, <1>5
<1>12. OwnedCounted'
  <2> SUFFICES ASSUME NEW d \in Blocks, Owners(d)' # {}
               PROVE  refCount'[d] = Cardinality(Owners(d)')
    BY DEF OwnedCounted
  <2>1. CASE d = b
    <3>1. refCount'[d] = 1 /\ Owners(d)' = {s}
      BY <2>1, <1>1, <1>2, <1>5, <1>8 DEF Ind, TypeOK
    <3> QED
      BY <3>1, FS_Singleton
  <2>2. CASE d = old
    <3>1. refCount'[d] = refCount[d] - 1 /\ Owners(d)' = Owners(d) \ {s}
      BY <2>2, <1>1, <1>2, <1>5, <1>8 DEF Ind, TypeOK
    <3>2. Cardinality(Owners(d) \ {s}) = Cardinality(Owners(d)) - 1
      BY <2>2, <1>5, OwnersFinite, FS_RemoveElement
    <3> QED
      BY <3>1, <3>2, <2>2, <1>5
  <2>3. CASE d # b /\ d # old
    <3>1. refCount'[d] = refCount[d] /\ Owners(d)' = Owners(d)
      BY <2>3, <1>1, <1>8 DEF Ind, TypeOK
    <3> QED
      BY <3>1 DEF Ind, OwnedCounted
  <2> QED
    BY <2>1, <2>2, <2>3
<1>13. FreeUncounted'
  <2> SUFFICES ASSUME NEW d \in free'
               PROVE  refCount'[d] = 0 /\ Owners(d)' = {}
    BY DEF FreeUncounted
  <2>1. d \in Blocks /\ d # b /\ d # old /\ refCount[d] = 0 /\ Owners(d) = {}
    BY <1>1, <1>5 DEF Ind, TypeOK, FreeUncounted
  <2> QED
    BY <2>1, <1>1, <1>8 DEF Ind, TypeOK
<1>14. OthersCounted'
  BY <1>1, <1>2, <1>5 DEF Ind, TypeOK, OthersCounted
<1> QED
  BY <1>7, <1>9, <1>10, <1>11, <1>12, <1>13, <1>14 DEF Ind

LEMMA ForkOwners ==
  ASSUME Ind, NEW p \in Seqs, NEW c \in Seqs, p # c, Fork(p, c)
  PROVE  \A d \in Blocks : /\ c \notin Owners(d)
                           /\ d \in BlocksOf(p) <=> p \in Owners(d)
                           /\ Owners(d)' = IF p \in Owners(d) THEN Owners(d) \cup {c}
                                                               ELSE Owners(d)
<1>1. table[c] = <<>>
  BY DEF Ind, TableHolders, Fork, HasTable
<1>2. \A d \in Blocks : c \notin Owners(d) /\ (d \in BlocksOf(p) <=> p \in Owners(d))
  BY <1>1 DEF Owners, BlocksOf
<1>4. \A d \in Blocks : Owners(d)' = IF p \in Owners(d) THEN Owners(d) \cup {c}
                                                      ELSE Owners(d)
  <2> SUFFICES ASSUME NEW d \in Blocks
               PROVE Owners(d)' = IF p \in Owners(d) THEN Owners(d) \cup {c}
                                                     ELSE Owners(d)
    OBVIOUS
  <2>1. Owners(d)' = IF d \in ElemsOf(table[p]) THEN Owners(d) \cup {c}
                                                ELSE Owners(d) \ {c}
    BY OwnersAfter DEF Ind, Fork
  <2>2. ElemsOf(table[p]) = BlocksOf(p)
    BY DEF ElemsOf, BlocksOf
  <2> QED
    BY <2>1, <2>2, <1>2
<1> QED
  BY <1>2, <1>4

(* Fork: every block of p gains the owner c, which had none.               *)
LEMMA ForkInd ==
  ASSUME Ind, NEW p \in Seqs, NEW c \in Seqs, p # c, Fork(p, c) PROVE Ind'
<1>1. /\ status[p] = "RUNNING" /\ p \notin allocating
      /\ c \notin allocating /\ table[c] = <<>>
      /\ allocating' = allocating /\ free' = free
  BY DEF Ind, TypeOK, TableHolders, Fork, HasTable
<1>2. \A d \in Blocks : c \notin Owners(d) /\ (d \in BlocksOf(p) <=> p \in Owners(d))
  BY ForkOwners
<1>3. \A d \in Blocks : refCount'[d] = IF p \in Owners(d) THEN refCount[d] + 1
                                                        ELSE refCount[d]
  BY <1>2 DEF Fork
<1>4. \A d \in Blocks : Owners(d)' = IF p \in Owners(d) THEN Owners(d) \cup {c}
                                                      ELSE Owners(d)
  BY ForkOwners
<1>5. TypeOK'
  BY DEF Ind, TypeOK, Fork, Statuses
<1>6. TableHolders'
  BY <1>1 DEF Ind, TypeOK, TableHolders, Fork, HasTable
<1>7. NoRepeats'
  <2>1. \A q \in Seqs : table'[q] = IF q = c THEN table[p] ELSE table[q]
    BY DEF Ind, TypeOK, Fork
  <2> QED
    BY <2>1 DEF Ind, NoRepeats
<1>8. BuildersAlone'
  <2> SUFFICES ASSUME NEW q \in allocating, NEW d \in Blocks, q \in Owners(d)'
               PROVE  Owners(d)' = {q}
    BY <1>1 DEF BuildersAlone
  <2>1. q # c /\ q # p /\ q \in Owners(d)
    BY <1>1, <1>4
  <2>2. Owners(d) = {q}
    BY <2>1 DEF Ind, BuildersAlone
  <2> QED
    BY <2>1, <2>2, <1>4
<1>9. OwnedCounted'
  <2> SUFFICES ASSUME NEW d \in Blocks, Owners(d)' # {}
               PROVE  refCount'[d] = Cardinality(Owners(d)')
    BY DEF OwnedCounted
  <2>1. CASE p \in Owners(d)
    <3>1. refCount'[d] = refCount[d] + 1 /\ Owners(d)' = Owners(d) \cup {c}
      BY <2>1, <1>3, <1>4
    <3>2. Cardinality(Owners(d) \cup {c}) = Cardinality(Owners(d)) + 1
      BY <1>2, OwnersFinite, FS_AddElement
    <3>3. refCount[d] = Cardinality(Owners(d))
      BY <2>1 DEF Ind, OwnedCounted
    <3> QED
      BY <3>1, <3>2, <3>3
  <2>2. CASE p \notin Owners(d)
    <3>1. refCount'[d] = refCount[d] /\ Owners(d)' = Owners(d)
      BY <2>2, <1>3, <1>4
    <3> QED
      BY <3>1 DEF Ind, OwnedCounted
  <2> QED
    BY <2>1, <2>2
<1>10. FreeUncounted'
  BY <1>1, <1>3, <1>4 DEF Ind, TypeOK, FreeUncounted
<1>11. OthersCounted'
  <2> SUFFICES ASSUME NEW d \in Blocks, d \notin free
               PROVE  refCount'[d] > 0
    BY <1>1 DEF OthersCounted
  <2>1. refCount[d] \in Nat /\ refCount[d] > 0
    BY DEF Ind, TypeOK, OthersCounted
  <2> QED
    BY <2>1, <1>3
<1> QED
  BY <1>5, <1>6, <1>7, <1>8, <1>9, <1>10, <1>11 DEF Ind

(* Free: every block of s loses the owner s and one count; a block whose   *)
(* count was 1 had no other owner.                                         *)
LEMMA FreeInd ==
  ASSUME Ind, NEW s \in Seqs, Free(s) PROVE Ind'
<1> DEFINE returned == {d \in BlocksOf(s) : refCount[d] = 1}
<1>1. /\ s \notin allocating /\ allocating' = allocating
      /\ free' = free \cup returned
      /\ table' = [table EXCEPT ![s] = <<>>]
  BY DEF Ind, TypeOK, TableHolders, Free, HasTable
<1>2. \A d \in BlocksOf(s) : /\ d \in Blocks /\ d \notin free /\ s \in Owners(d)
                            /\ refCount[d] \in Nat \ {0}
                            /\ refCount[d] = Cardinality(Owners(d))
  BY HeldBlocks
<1>3. \A d \in Blocks : refCount'[d] = IF d \in BlocksOf(s) THEN refCount[d] - 1
                                                          ELSE refCount[d]
  BY DEF Free
<1>4. \A d \in Blocks : Owners(d)' = Owners(d) \ {s}
  BY <1>1, DropOwners
<1>5. \A d \in Blocks : d \notin BlocksOf(s) => s \notin Owners(d)
  BY DEF Owners
<1>6. \A d \in BlocksOf(s) :
        Cardinality(Owners(d) \ {s}) = Cardinality(Owners(d)) - 1
  BY <1>2, OwnersFinite, FS_RemoveElement
<1>7. TypeOK'
  <2>1. refCount' \in [Blocks -> Nat]
    BY <1>2 DEF Ind, TypeOK, Free
  <2>2. free' \subseteq Blocks
    BY <1>1, <1>2 DEF Ind, TypeOK
  <2> QED
    BY <2>1, <2>2 DEF Ind, TypeOK, Free, Statuses
<1>8. TableHolders'
  BY <1>1 DEF Ind, TypeOK, TableHolders, Free, HasTable
<1>9. NoRepeats'
  BY <1>1 DEF Ind, TypeOK, NoRepeats
<1>10. BuildersAlone'
  <2> SUFFICES ASSUME NEW q \in allocating, NEW d \in Blocks, q \in Owners(d)'
               PROVE  Owners(d)' = {q}
    BY <1>1 DEF BuildersAlone
  <2>1. q # s /\ q \in Owners(d)
    BY <1>1, <1>4
  <2>2. Owners(d) = {q}
    BY <2>1 DEF Ind, BuildersAlone
  <2> QED
    BY <2>1, <2>2, <1>4
<1>11. OwnedCounted'
  <2> SUFFICES ASSUME NEW d \in Blocks, Owners(d)' # {}
               PROVE  refCount'[d] = Cardinality(Owners(d)')
    BY DEF OwnedCounted
  <2>1. CASE d \in BlocksOf(s)
    BY <2>1, <1>2, <1>3, <1>4, <1>6
  <2>2. CASE d \notin BlocksOf(s)
    <3>1. refCount'[d] = refCount[d] /\ Owners(d)' = Owners(d)
      BY <2>2, <1>3, <1>4, <1>5
    <3> QED
      BY <3>1 DEF Ind, OwnedCounted
  <2> QED
    BY <2>1, <2>2
<1>12. FreeUncounted'
  <2> SUFFICES ASSUME NEW d \in free'
               PROVE  refCount'[d] = 0 /\ Owners(d)' = {}
    BY DEF FreeUncounted
  <2>1. CASE d \in returned
    <3>1. /\ d \in Blocks /\ d \in BlocksOf(s)
          /\ refCount[d] = 1 /\ Cardinality(Owners(d)) = 1
      BY <2>1, <1>2
    <3>2. IsFiniteSet(Owners(d) \ {s}) /\ Cardinality(Owners(d) \ {s}) = 0
      BY <3>1, <1>6, OwnersFinite, FS_Subset
    <3> QED
      BY <3>1, <3>2, <1>3, <1>4, FS_EmptySet
  <2>2. CASE d \in free
    <3>1. d \in Blocks /\ d \notin BlocksOf(s)
      BY <2>2, <1>2 DEF Ind, TypeOK
    <3> QED
      BY <3>1, <2>2, <1>3, <1>4 DEF Ind, FreeUncounted
  <2> QED
    BY <2>1, <2>2, <1>1
<1>13. OthersCounted'
  <2> SUFFICES ASSUME NEW d \in Blocks, d \notin free'
               PROVE  refCount'[d] > 0
    BY <1>1 DEF Ind, TypeOK, OthersCounted
  <2>1. CASE d \in BlocksOf(s)
    BY <2>1, <1>1, <1>2, <1>3
  <2>2. CASE d \notin BlocksOf(s)
    BY <2>2, <1>1, <1>3 DEF Ind, OthersCounted
  <2> QED
    BY <2>1, <2>2
<1> QED
  BY <1>7, <1>8, <1>9, <1>10, <1>11, <1>12, <1>13 DEF Ind

(* A step that touches none of the manager's own variables.                *)
LEMMA PoolUnchangedInd ==
  ASSUME Ind, UNCHANGED poolVars, TypeOK' PROVE Ind'
<1>1. /\ free' = free /\ refCount' = refCount /\ allocating' = allocating
      /\ table' = table /\ status' = status
  BY DEF poolVars
<1>2. \A b : Owners(b)' = Owners(b)
  BY <1>1 DEF Owners, BlocksOf
<1>3. TableHolders' /\ NoRepeats'
  BY <1>1 DEF Ind, TableHolders, NoRepeats, HasTable
<1>4. BuildersAlone' /\ OwnedCounted'
  BY <1>1, <1>2 DEF Ind, BuildersAlone, OwnedCounted
<1>5. FreeUncounted' /\ OthersCounted'
  BY <1>1, <1>2 DEF Ind, FreeUncounted, OthersCounted
<1> QED
  BY <1>3, <1>4, <1>5 DEF Ind

LEMMA NextInd == Ind /\ [Next]_vars => Ind'
<1> SUFFICES ASSUME Ind, [Next]_vars PROVE Ind'
  OBVIOUS
<1>1. ASSUME NEW s \in Seqs, AllocateBlock(s) PROVE Ind'
  <2>1. PICK b \in free : /\ free' = free \ {b}
                          /\ refCount' = [refCount EXCEPT ![b] = 1]
                          /\ table' = [table EXCEPT ![s] = Append(@, b)]
    BY <1>1 DEF AllocateBlock
  <2>2. Append(table[s], b) \in Seq(Blocks) /\ b \in Blocks
    BY ElemsAppend DEF Ind, TypeOK
  <2>3. TypeOK'
    BY <1>1, <2>1, <2>2 DEF Ind, TypeOK, AllocateBlock, dataVars
  <2> QED
    BY <1>1, <2>1, <2>3, TakeInd DEF AllocateBlock
<1>2. ASSUME NEW s \in Seqs, AppendGrow(s) PROVE Ind'
  <2>1. PICK b \in free : /\ free' = free \ {b}
                          /\ refCount' = [refCount EXCEPT ![b] = 1]
                          /\ table' = [table EXCEPT ![s] = Append(@, b)]
    BY <1>2 DEF AppendGrow
  <2>2. Append(table[s], b) \in Seq(Blocks) /\ b \in Blocks
    BY ElemsAppend DEF Ind, TypeOK
  <2>3. TypeOK'
    BY <1>2, <2>1, <2>2 DEF Ind, TypeOK, AppendGrow
  <2> QED
    BY <1>2, <2>1, <2>3, TakeInd DEF AppendGrow, Decoding
<1>3. ASSUME NEW s \in Seqs, AppendInPlace(s) PROVE Ind'
  <2>1. TypeOK'
    BY <1>3 DEF Ind, TypeOK, AppendInPlace, poolVars
  <2> QED
    BY <1>3, <2>1, PoolUnchangedInd DEF AppendInPlace
<1>4. ASSUME NEW s \in Seqs, NEW n \in 1 .. PromptLen[s], Prefill(s, n) PROVE Ind'
  <2>1. TypeOK'
    BY <1>4, PromptLenAssumption DEF Ind, TypeOK, Prefill, StoreKV, poolVars
  <2> QED
    BY <1>4, <2>1, PoolUnchangedInd DEF Prefill
<1>5. ASSUME NEW s \in Seqs, Decode(s) PROVE Ind'
  <2>1. TypeOK'
    BY <1>5 DEF Ind, TypeOK, Decode, StoreKV, poolVars
  <2> QED
    BY <1>5, <2>1, PoolUnchangedInd DEF Decode
<1>6. CASE UNCHANGED vars
  <2>1. TypeOK'
    BY <1>6 DEF Ind, TypeOK, vars
  <2> QED
    BY <1>6, <2>1, PoolUnchangedInd DEF vars, poolVars
<1> QED
  BY <1>1, <1>2, <1>3, <1>4, <1>5, <1>6, CanAllocateInd, AllocateDoneInd,
     AllocateOOMInd, AppendCopyOnWriteInd, ForkInd, FreeInd DEF Next

LEMMA RefCountFromInd == Ind => RefCountExact
<1> SUFFICES ASSUME Ind PROVE RefCountExact
  OBVIOUS
<1>1. \A b \in Blocks \ Leaked : refCount[b] = Cardinality(Owners(b))
  BY FS_EmptySet DEF Ind, Leaked, OwnedCounted, FreeUncounted
<1>2. free = {b \in Blocks : refCount[b] = 0}
  BY DEF Ind, TypeOK, FreeUncounted, OthersCounted
<1> QED
  BY <1>1, <1>2 DEF RefCountExact

LEMMA IndAlways == Spec => []Ind
BY InitInd, NextInd, PTL DEF Spec

(* The variables of the manager always have their types: no step takes a   *)
(* reference from a block that has none, none puts a foreign block in a    *)
(* table (ref_cout, _free_blocks and _block_table of block_manager.py).    *)
THEOREM TypeCorrect == Spec => []TypeOK
<1>1. Ind => TypeOK
  BY DEF Ind
<1> QED
  BY <1>1, IndAlways, PTL

(* Reference counts are exact, whatever the threads interleave and however *)
(* often an allocate() is abandoned half way: a block in use is counted    *)
(* once per holder, and exactly the blocks counted 0 are free              *)
(* (BlockAllocator lines 21-32, fork 100-105, append_slot 89-98, free).    *)
THEOREM RefCounts == Spec => []RefCountExact
BY IndAlways, RefCountFromInd, PTL
-----------------------------------------------------------------------------
(* The abstract pool.                                                      *)
LEMMA PoolInit == Init => Pool!Init
BY DEF Init, Pool!Init, Owners, BlocksOf

LEMMA TakeStep ==
  ASSUME Ind, NEW s \in Seqs, NEW b \in free,
         table' = [table EXCEPT ![s] = Append(@, b)]
  PROVE  Pool!Take(s, b)
BY TakeOwners DEF Pool!Take

LEMMA SwapStep ==
  ASSUME Ind, NEW s \in Seqs, AppendCopyOnWrite(s)
  PROVE  \E o, n \in Blocks : Pool!Swap(s, o, n)
<1> DEFINE old == LastBlock(s)
<1>1. PICK b \in free :
        /\ old \in Blocks /\ old # b /\ s \in Owners(old)
        /\ refCount[old] = Cardinality(Owners(old))
        /\ \A d \in Blocks : Owners(d)' = IF d = b THEN {s}
                                          ELSE IF d = old THEN Owners(d) \ {s}
                                          ELSE Owners(d)
  BY SwapOwners
<1>2. b \in Blocks /\ Owners(b) = {}
  BY DEF Ind, TypeOK, FreeUncounted
<1>3. Owners(old) # {s}
  <2>1. refCount[old] > 1
    BY DEF AppendCopyOnWrite
  <2>2. Cardinality({s}) = 1
    BY FS_Singleton
  <2> HIDE DEF old
  <2> QED
    BY <2>1, <2>2, <1>1
<1> HIDE DEF old
<1>4. Pool!Swap(s, old, b)
  BY <1>1, <1>2, <1>3 DEF Pool!Swap, Pool!Holds
<1> QED
  BY <1>1, <1>2, <1>4

LEMMA ShareStep ==
  ASSUME Ind, NEW p \in Seqs, NEW c \in Seqs, p # c, Fork(p, c)
  PROVE  Pool!Share(p, c)
BY ForkOwners DEF Pool!Share, Pool!Holds

LEMMA DropStep ==
  ASSUME Ind, NEW s \in Seqs, table' = [table EXCEPT ![s] = <<>>]
  PROVE  Pool!Drop(s)
BY DropOwners DEF Pool!Drop

LEMMA PoolStutter ==
  ASSUME table' = table
  PROVE  UNCHANGED [b \in Blocks |-> Owners(b)]
BY DEF Owners, BlocksOf

LEMMA PoolNext == Ind /\ [Next]_vars => [Pool!Next]_([b \in Blocks |-> Owners(b)])
<1> SUFFICES ASSUME Ind, [Next]_vars
             PROVE  Pool!Next \/ UNCHANGED [b \in Blocks |-> Owners(b)]
  OBVIOUS
<1>1. ASSUME NEW s \in Seqs, AllocateBlock(s) \/ AppendGrow(s) PROVE Pool!Next
  <2>1. PICK b \in free : table' = [table EXCEPT ![s] = Append(@, b)]
    BY <1>1 DEF AllocateBlock, AppendGrow
  <2>2. b \in Blocks
    BY DEF Ind, TypeOK
  <2> QED
    BY <2>1, <2>2, TakeStep DEF Pool!Next
<1>2. ASSUME NEW s \in Seqs, AppendCopyOnWrite(s) PROVE Pool!Next
  BY <1>2, SwapStep DEF Pool!Next
<1>3. ASSUME NEW s \in Seqs, NEW c \in Seqs \ {s}, Fork(s, c) PROVE Pool!Next
  BY <1>3, ShareStep DEF Pool!Next
<1>4. ASSUME NEW s \in Seqs, AllocateOOM(s) \/ Free(s) PROVE Pool!Next
  <2>1. table' = [table EXCEPT ![s] = <<>>]
    BY <1>4 DEF AllocateOOM, Free
  <2> QED
    BY <2>1, DropStep DEF Pool!Next
<1>5. ASSUME NEW s \in Seqs,
             \/ CanAllocate(s) \/ AllocateDone(s) \/ AppendInPlace(s)
             \/ \E n \in 1 .. PromptLen[s] : Prefill(s, n)
             \/ Decode(s)
      PROVE  UNCHANGED [b \in Blocks |-> Owners(b)]
  <2>1. table' = table
    BY <1>5 DEF CanAllocate, AllocateDone, AppendInPlace, Prefill, Decode, poolVars
  <2> QED
    BY <2>1, PoolStutter
<1>6. CASE UNCHANGED vars
  BY <1>6, PoolStutter DEF vars
<1> QED
  BY <1>1, <1>2, <1>3, <1>4, <1>5, <1>6 DEF Next

(* The manager implements the abstract pool: whatever the counts and lists *)
(* say, a block gets its first owner only while it has none, more owners   *)
(* only by fork, and copy-on-write leaves the shared block to the others   *)
(* (allocate 59-65, append_slot 72-98, fork 100-105, free 107-112).        *)
THEOREM ImplementsPool == Spec => PoolSpec
<1>1. Spec => Pool!Spec
  BY PoolInit, PoolNext, IndAlways, PTL DEF Spec, Pool!Spec
<1> QED
  BY <1>1 DEF PoolSpec
-----------------------------------------------------------------------------
(* A pool used by one thread only: one allocate() at a time, and the       *)
(* blocks its check counted are still free while it pops them.             *)
Reserved ==
  \A s \in allocating :
    /\ allocating = {s}
    /\ Len(table[s]) + Cardinality(free) >= NumLogicBlocks(s)
PrivateInd == Ind /\ Reserved /\ NoLeak

LEMMA PrivateInit == Init => PrivateInd
BY InitInd DEF Init, PrivateInd, Reserved, NoLeak, Leaked

LEMMA FreeFinite == TypeOK => IsFiniteSet(free)
BY BlocksAssumption, FS_Subset DEF TypeOK

(* allocate() does not run out of blocks after a yes of can_allocate.      *)
LEMMA PrivateNoOOM ==
  ASSUME PrivateInd, NEW s \in Seqs, AllocateOOM(s) PROVE FALSE
<1>1. Len(table[s]) \in Nat
  BY DEF PrivateInd, Ind, TypeOK
<1>2. Cardinality(free) = 0
  BY FS_EmptySet DEF AllocateOOM
<1>3. NumLogicBlocks(s) \in Nat
  BY DivNat, PromptLenAssumption, BlockSizeAssumption DEF NumLogicBlocks
<1> QED
  BY <1>1, <1>2, <1>3 DEF PrivateInd, Reserved, AllocateOOM

(* The last owner of a block leaves it only when the block goes free.      *)
LEMMA NoLeakKept ==
  ASSUME PrivateInd, [Next]_vars PROVE NoLeak'
<1> SUFFICES ASSUME NEW d \in Blocks, d \notin free' PROVE Owners(d)' # {}
  BY DEF NoLeak, Leaked
<1>1. Ind /\ (d \notin free => Owners(d) # {})
  BY DEF PrivateInd, NoLeak, Leaked
<1>2. ASSUME NEW s \in Seqs, AllocateBlock(s) \/ AppendGrow(s)
      PROVE  Owners(d)' # {}
  <2>1. PICK b \in free : /\ free' = free \ {b}
                          /\ table' = [table EXCEPT ![s] = Append(@, b)]
    BY <1>2 DEF AllocateBlock, AppendGrow
  <2>2. Owners(d)' = IF d = b THEN {s} ELSE Owners(d)
    BY <1>1, <2>1, TakeOwners
  <2> QED
    BY <1>1, <2>1, <2>2
<1>3. ASSUME NEW s \in Seqs, AppendCopyOnWrite(s) PROVE Owners(d)' # {}
  <2> DEFINE old == LastBlock(s)
  <2>1. PICK b \in free :
          /\ free' = free \ {b}
          /\ refCount[old] = Cardinality(Owners(old))
          /\ Owners(d)' = IF d = b THEN {s}
                          ELSE IF d = old THEN Owners(d) \ {s} ELSE Owners(d)
    BY <1>1, <1>3, SwapOwners
  <2>2. Owners(old) \ {s} # {}
    <3>1. refCount[old] > 1
      BY <1>3 DEF AppendCopyOnWrite
    <3>2. Cardinality({s}) = 1 /\ Cardinality({}) = 0
      BY FS_Singleton, FS_EmptySet
    <3>3. Owners(old) # {s} /\ Owners(old) # {}
      <4> HIDE DEF old
      <4> QED
        BY <2>1, <3>1, <3>2
    <3> QED
      BY <3>3
  <2> HIDE DEF old
  <2> QED
    BY <1>1, <2>1, <2>2
<1>4. ASSUME NEW s \in Seqs, NEW c \in Seqs \ {s}, Fork(s, c) PROVE Owners(d)' # {}
  BY <1>1, <1>4, ForkOwners DEF Fork
<1>5. ASSUME NEW s \in Seqs, Free(s) PROVE Owners(d)' # {}
  <2>1. Owners(d)' = Owners(d) \ {s}
    BY <1>1, <1>5, DropOwners DEF Free
  <2>2. d \notin free /\ (d \in BlocksOf(s) => refCount[d] # 1)
    BY <1>5 DEF Free
  <2>3. d \in BlocksOf(s) => refCount[d] = Cardinality(Owners(d))
    BY <1>1, HeldBlocks
  <2>4. d \notin BlocksOf(s) => s \notin Owners(d)
    BY DEF Owners
  <2>5. Cardinality({s}) = 1
    BY FS_Singleton
  <2>6. Owners(d) # {s}
    BY <2>2, <2>3, <2>4, <2>5
  <2> QED
    BY <1>1, <2>1, <2>2, <2>6
<1>6. ASSUME NEW s \in Seqs,
             \/ CanAllocate(s) \/ AllocateDone(s) \/ AppendInPlace(s)
             \/ \E n \in 1 .. PromptLen[s] : Prefill(s, n)
             \/ Decode(s)
      PROVE  Owners(d)' # {}
  <2>1. table' = table /\ free' = free
    BY <1>6 DEF CanAllocate, AllocateDone, AppendInPlace, Prefill, Decode, poolVars
  <2> QED
    BY <1>1, <2>1 DEF Owners, BlocksOf
<1>7. CASE UNCHANGED vars
  BY <1>1, <1>7 DEF vars, Owners, BlocksOf
<1> QED
  BY <1>2, <1>3, <1>4, <1>5, <1>6, <1>7, PrivateNoOOM DEF Next

LEMMA ReservedKept ==
  ASSUME ~ SharedPool, PrivateInd, [Next]_vars PROVE Reserved'
<1> SUFFICES ASSUME NEW q \in allocating'
             PROVE  /\ allocating' = {q}
                    /\ Len(table'[q]) + Cardinality(free') >= NumLogicBlocks(q)
  BY DEF Reserved, NumLogicBlocks
<1>1. Ind /\ Reserved /\ TypeOK
  BY DEF PrivateInd, Ind
<1>2. ASSUME NEW s \in Seqs, CanAllocate(s)
      PROVE  /\ allocating' = {q}
             /\ Len(table'[q]) + Cardinality(free') >= NumLogicBlocks(q)
  <2>1. allocating = {} /\ q = s
    BY <1>2 DEF CanAllocate, Turn
  <2>2. table[s] = <<>>
    BY <1>1, <1>2 DEF Ind, TableHolders, CanAllocate, HasTable
  <2>3. Cardinality(free) \in Nat
    BY <1>1, FreeFinite, FS_CardinalityType
  <2> QED
    BY <1>2, <2>1, <2>2, <2>3 DEF CanAllocate
<1>3. ASSUME NEW s \in Seqs, AllocateBlock(s)
      PROVE  /\ allocating' = {q}
             /\ Len(table'[q]) + Cardinality(free') >= NumLogicBlocks(q)
  <2>1. allocating' = allocating /\ allocating = {q} /\ s = q
    BY <1>1, <1>3 DEF AllocateBlock, Reserved
  <2>2. PICK b \in free : /\ free' = free \ {b}
                          /\ table' = [table EXCEPT ![s] = Append(@, b)]
    BY <1>3 DEF AllocateBlock
  <2>3. /\ Cardinality(free) \in Nat
        /\ Cardinality(free \ {b}) = Cardinality(free) - 1
    BY <1>1, FreeFinite, FS_CardinalityType, FS_RemoveElement
  <2>4. /\ Len(table[q]) \in Nat
        /\ Len(table'[q]) = Len(table[q]) + 1
    BY <1>1, <2>1, <2>2 DEF TypeOK
  <2>5. Len(table[q]) + Cardinality(free) >= NumLogicBlocks(q)
    BY <1>1, <2>1 DEF Reserved
  <2>6. NumLogicBlocks(q) \in Nat
    BY <2>1, DivNat, PromptLenAssumption, BlockSizeAssumption DEF NumLogicBlocks
  <2> QED
    BY <2>1, <2>2, <2>3, <2>4, <2>5, <2>6
<1>4. ASSUME NEW s \in Seqs, AllocateDone(s) PROVE FALSE
  BY <1>1, <1>4 DEF AllocateDone, Reserved
<1>5. ASSUME NEW s \in Seqs,
             \/ AppendGrow(s) \/ AppendCopyOnWrite(s) \/ AppendInPlace(s)
             \/ \E n \in 1 .. PromptLen[s] : Prefill(s, n)
             \/ Decode(s)
             \/ \E c \in Seqs \ {s} : Fork(s, c)
             \/ Free(s)
      PROVE  FALSE
  BY <1>5 DEF AppendGrow, AppendCopyOnWrite, AppendInPlace, Prefill, Decode, Fork,
     Free, Turn, poolVars
<1>6. CASE UNCHANGED vars
  BY <1>1, <1>6 DEF vars, Reserved
<1> QED
  BY <1>2, <1>3, <1>4, <1>5, <1>6, PrivateNoOOM DEF Next

LEMMA PrivateAlways == ~ SharedPool => (Spec => []PrivateInd)
<1> SUFFICES ASSUME ~ SharedPool PROVE Spec => []PrivateInd
  OBVIOUS
<1>1. PrivateInd /\ [Next]_vars => PrivateInd'
  BY NextInd, NoLeakKept, ReservedKept DEF PrivateInd
<1> QED
  BY <1>1, PrivateInit, PTL DEF Spec

(* One thread never loses a block: each is free or in a list that free()   *)
(* will give back (allocate 59-65, append_slot 91-96, free 107-112).       *)
THEOREM PrivateNoLeak == ~ SharedPool => (Spec => []NoLeak)
<1> SUFFICES ASSUME ~ SharedPool PROVE Spec => []NoLeak
  OBVIOUS
<1>1. PrivateInd => NoLeak
  BY DEF PrivateInd
<1> QED
  BY <1>1, PrivateAlways, PTL

(* In a pool of one thread a yes of can_allocate is kept by allocate():    *)
(* nobody pops between the two (lines 56-65; scheduler.py 84-92).          *)
THEOREM PrivateDelivers == ~ SharedPool => (Spec => AllocateDelivers)
<1> SUFFICES ASSUME ~ SharedPool PROVE Spec => AllocateDelivers
  OBVIOUS
<1>1. PrivateInd /\ [Next]_vars =>
        [\A s \in allocating \ allocating' : status'[s] = "RUNNING"]_vars
  <2> SUFFICES ASSUME PrivateInd, [Next]_vars, NEW s \in allocating \ allocating'
               PROVE  status'[s] = "RUNNING"
    OBVIOUS
  <2>1. allocating' # allocating
    OBVIOUS
  <2>2. PICK q \in Seqs : CanAllocate(q) \/ AllocateDone(q)
    BY <2>1, PrivateNoOOM DEF Next, vars, AllocateBlock, AppendGrow,
       AppendCopyOnWrite, AppendInPlace, Prefill, Decode, Fork, Free, poolVars
  <2> QED
    BY <2>2 DEF PrivateInd, Ind, TypeOK, CanAllocate, AllocateDone
<1> QED
  BY <1>1, PrivateAlways, PTL DEF Spec, AllocateDelivers
-----------------------------------------------------------------------------
(* Division by the block size.  Ceil(n) blocks hold n tokens.              *)
Ceil(n) == (n + BlockSize - 1) \div BlockSize

LEMMA DivMod ==
  ASSUME NEW a \in Nat
  PROVE  /\ a \div BlockSize \in Nat
         /\ a % BlockSize \in 0 .. BlockSize - 1
         /\ a = BlockSize * (a \div BlockSize) + (a % BlockSize)
BY BlockSizeAssumption

LEMMA TimesMonotone ==
  ASSUME NEW B \in Nat, NEW i \in Nat, NEW j \in Nat, i < j
  PROVE  B * i + B <= B * j
<1>1. j = i + 1 + (j - i - 1) /\ j - i - 1 \in Nat
  OBVIOUS
<1>2. B * j = B * i + B + B * (j - i - 1)
  BY <1>1
<1>3. B * (j - i - 1) \in Nat /\ B * i \in Nat /\ B * j \in Nat
  BY <1>1
<1> QED
  BY <1>2, <1>3

LEMMA DivMonotone ==
  ASSUME NEW a \in Nat, NEW b \in Nat, a <= b
  PROVE  a \div BlockSize <= b \div BlockSize
<1> DEFINE i == a \div BlockSize
           j == b \div BlockSize
<1>1. /\ i \in Nat /\ j \in Nat /\ BlockSize \in Nat
      /\ \E m \in 0 .. BlockSize - 1 : a = BlockSize * i + m
      /\ \E m \in 0 .. BlockSize - 1 : b = BlockSize * j + m
  BY DivMod, BlockSizeAssumption
<1>2. j < i => BlockSize * j + BlockSize <= BlockSize * i
  BY <1>1, TimesMonotone
<1>3. BlockSize * i \in Nat /\ BlockSize * j \in Nat
  BY <1>1
<1> HIDE DEF i, j
<1>4. ~ (j < i)
  BY <1>1, <1>2, <1>3
<1>5. i <= j
  BY <1>1, <1>4
<1> QED
  BY <1>5 DEF i, j

(* The block and the cell of a position determine it.                      *)
LEMMA PlaceUnique ==
  ASSUME NEW a \in Nat, NEW b \in Nat,
         a \div BlockSize = b \div BlockSize, a % BlockSize = b % BlockSize
  PROVE  a = b
BY DivMod

LEMMA DivNext ==
  ASSUME NEW a \in Nat
  PROVE  (a + BlockSize) \div BlockSize = a \div BlockSize + 1
<1> DEFINE i == a \div BlockSize
           j == (a + BlockSize) \div BlockSize
<1>1. /\ i \in Nat /\ j \in Nat /\ BlockSize \in Nat
      /\ \E m \in 0 .. BlockSize - 1 : a = BlockSize * i + m
      /\ \E m \in 0 .. BlockSize - 1 : a + BlockSize = BlockSize * j + m
  BY DivMod, BlockSizeAssumption
<1>2. /\ j < i + 1 => BlockSize * j + BlockSize <= BlockSize * (i + 1)
      /\ i + 1 < j => BlockSize * (i + 1) + BlockSize <= BlockSize * j
  BY <1>1, TimesMonotone
<1>3. /\ BlockSize * i \in Nat /\ BlockSize * j \in Nat
      /\ BlockSize * (i + 1) = BlockSize * i + BlockSize
  BY <1>1
<1> HIDE DEF i, j
<1>4. ~ (j < i + 1) /\ ~ (i + 1 < j)
  BY <1>1, <1>2, <1>3
<1>5. j = i + 1
  BY <1>1, <1>4
<1> QED
  BY <1>5 DEF i, j

LEMMA CeilFacts ==
  ASSUME NEW n \in Nat
  PROVE  /\ Ceil(n) \in Nat
         /\ Ceil(n + 1) = n \div BlockSize + 1
         /\ n \div BlockSize <= Ceil(n)
         /\ Ceil(0) = 0
<1>1. n + BlockSize - 1 \in Nat /\ n <= n + BlockSize - 1
  BY BlockSizeAssumption
<1>2. Ceil(n) \in Nat /\ n \div BlockSize <= Ceil(n)
  BY <1>1, DivMod, DivMonotone DEF Ceil
<1>3. Ceil(n + 1) = n \div BlockSize + 1
  <2>1. n + 1 + BlockSize - 1 = n + BlockSize
    BY BlockSizeAssumption
  <2> QED
    BY <2>1, DivNext DEF Ceil
<1>4. Ceil(0) = 0
  BY BlockSizeAssumption DEF Ceil
<1> QED
  BY <1>2, <1>3, <1>4

LEMMA CeilMonotone ==
  ASSUME NEW a \in Nat, NEW b \in Nat, a <= b PROVE Ceil(a) <= Ceil(b)
<1>1. /\ a + BlockSize - 1 \in Nat /\ b + BlockSize - 1 \in Nat
      /\ a + BlockSize - 1 <= b + BlockSize - 1
  BY BlockSizeAssumption
<1> QED
  BY <1>1, DivMonotone DEF Ceil

(* The block of a stored position is among those the tokens need.          *)
LEMMA PlaceWithin ==
  ASSUME NEW p \in Nat, NEW n \in Nat, p < n
  PROVE  p \div BlockSize \in Nat /\ p \div BlockSize < Ceil(n)
<1>1. Ceil(p + 1) <= Ceil(n) /\ Ceil(p + 1) = p \div BlockSize + 1
  BY CeilMonotone, CeilFacts
<1>2. p \div BlockSize \in Nat /\ Ceil(n) \in Nat
  BY DivMod, CeilFacts
<1> QED
  BY <1>1, <1>2
-----------------------------------------------------------------------------
(* How long a table is.  Tokens(s) counts what s stored and the token that *)
(* append_slot made room for.                                              *)
Tokens(s) == IF s \in slotted THEN computed[s] + 1 ELSE computed[s]
Larger(a, b) == IF a > b THEN a ELSE b
Size(s) == Larger(Ceil(Tokens(s)), NumLogicBlocks(s))

Fits(s) ==
  /\ status[s] = "WAITING" => computed[s] = 0
  /\ s \in slotted => HasTable(s) /\ PrefillDone(s)
  /\ HasTable(s) => Len(table[s]) = Size(s)

FitInd == \A s \in Seqs : Fits(s)

(* A step of s that leaves the other sequences as they were.               *)
Same(q) ==
  /\ table'[q] = table[q] /\ status'[q] = status[q] /\ computed'[q] = computed[q]
  /\ q \in slotted' <=> q \in slotted

LEMMA FitFrom ==
  ASSUME FitInd, NEW s \in Seqs, \A q \in Seqs \ {s} : Same(q), Fits(s)'
  PROVE  FitInd'
<1> SUFFICES ASSUME NEW q \in Seqs \ {s} PROVE Fits(q)'
  BY DEF FitInd
<1>1. Fits(q) /\ Same(q)
  BY DEF FitInd
<1> QED
  BY <1>1 DEF Fits, Same, HasTable, PrefillDone, Size, Tokens, NumLogicBlocks

LEMMA Numbers ==
  ASSUME TypeOK, NEW s \in Seqs
  PROVE  /\ computed[s] \in Nat /\ PromptLen[s] \in Nat /\ Len(table[s]) \in Nat
         /\ NumLogicBlocks(s) = Ceil(PromptLen[s]) /\ NumLogicBlocks(s) \in Nat
         /\ NeededBlocks(s) = Ceil(computed[s] + 1) /\ NeededBlocks(s) \in Nat
         /\ Ceil(computed[s]) \in Nat
         /\ NeededBlocks(s) <= Ceil(computed[s]) + 1
         /\ Ceil(computed[s]) <= NeededBlocks(s)
<1>1. computed[s] \in Nat /\ PromptLen[s] \in Nat /\ Len(table[s]) \in Nat
  BY PromptLenAssumption DEF TypeOK
<1>2. NumLogicBlocks(s) = Ceil(PromptLen[s]) /\ NumLogicBlocks(s) \in Nat
  BY <1>1, CeilFacts DEF NumLogicBlocks, Ceil
<1>3. /\ NeededBlocks(s) = Ceil(computed[s] + 1) /\ Ceil(computed[s]) \in Nat
      /\ computed[s] \div BlockSize <= Ceil(computed[s])
      /\ computed[s] \div BlockSize \in Nat
      /\ NeededBlocks(s) = computed[s] \div BlockSize + 1
  BY <1>1, CeilFacts, DivMod DEF NeededBlocks
<1>4. Ceil(computed[s]) <= Ceil(computed[s] + 1)
  BY <1>1, CeilMonotone
<1> QED
  BY <1>1, <1>2, <1>3, <1>4

(* What append_slot's test on the length means: the table is one block     *)
(* short, or holds exactly the blocks that the next token needs.           *)
LEMMA SlotSizes ==
  ASSUME TypeOK, NEW s \in Seqs, Fits(s), Decoding(s)
  PROVE  /\ NumLogicBlocks(s) <= NeededBlocks(s)
         /\ Len(table[s]) < NeededBlocks(s) =>
              s \notin slotted /\ Len(table[s]) + 1 = NeededBlocks(s)
         /\ Len(table[s]) >= NeededBlocks(s) => Len(table[s]) = NeededBlocks(s)
<1>1. /\ HasTable(s) /\ computed[s] >= PromptLen[s]
      /\ Len(table[s]) = Larger(Ceil(Tokens(s)), NumLogicBlocks(s))
  BY DEF Decoding, PrefillDone, Fits, Size
<1>2. NumLogicBlocks(s) <= Ceil(computed[s])
  BY <1>1, Numbers, CeilMonotone
<1>3. CASE s \in slotted
  <2>1. Len(table[s]) = Larger(NeededBlocks(s), NumLogicBlocks(s))
    BY <1>1, <1>3, Numbers DEF Tokens
  <2> QED
    BY <2>1, <1>2, Numbers DEF Larger
<1>4. CASE s \notin slotted
  <2>1. Len(table[s]) = Larger(Ceil(computed[s]), NumLogicBlocks(s))
    BY <1>1, <1>4 DEF Tokens
  <2> QED
    BY <2>1, <1>2, <1>4, Numbers DEF Larger
<1> QED
  BY <1>3, <1>4

(* append_slot leaves the table as long as the next token needs.           *)
LEMMA SlotFits ==
  ASSUME TypeOK, NEW s \in Seqs, Fits(s), Decoding(s),
         slotted' = slotted \cup {s}, UNCHANGED <<status, computed>>,
         Len(table'[s]) = NeededBlocks(s)
  PROVE  Fits(s)'
<1>1. NumLogicBlocks(s) <= NeededBlocks(s)
  BY SlotSizes
<1>2. NeededBlocks(s) = Ceil(computed[s] + 1)
  BY Numbers
<1>3. Tokens(s)' = computed[s] + 1 /\ NumLogicBlocks(s)' = NumLogicBlocks(s)
  BY DEF Tokens, NumLogicBlocks
<1>4. Size(s)' = NeededBlocks(s)
  <2>1. Size(s)' = Larger(Ceil(computed[s] + 1), NumLogicBlocks(s))
    BY <1>3 DEF Size, Larger, Ceil
  <2> QED
    BY <2>1, <1>1, <1>2, Numbers DEF Larger
<1>5. HasTable(s)' /\ PrefillDone(s)' /\ status'[s] # "WAITING"
  BY DEF Decoding, HasTable, PrefillDone
<1> QED
  BY <1>4, <1>5 DEF Fits

LEMMA GrowFit ==
  ASSUME Ind, FitInd, NEW s \in Seqs, AppendGrow(s) PROVE FitInd'
<1>1. TypeOK /\ Fits(s) /\ Decoding(s) /\ table[s] \in Seq(Blocks)
  BY DEF Ind, TypeOK, FitInd, AppendGrow
<1>2. PICK b \in free : table' = [table EXCEPT ![s] = Append(@, b)]
  BY DEF AppendGrow
<1>3. /\ Len(table'[s]) = Len(table[s]) + 1
      /\ \A q \in Seqs \ {s} : table'[q] = table[q]
  <2>1. b \in Blocks /\ table'[s] = Append(table[s], b)
    BY <1>1, <1>2 DEF TypeOK
  <2> QED
    BY <1>1, <1>2, <2>1 DEF TypeOK
<1>4. Len(table[s]) + 1 = NeededBlocks(s)
  BY <1>1, SlotSizes DEF AppendGrow
<1>5. Fits(s)'
  BY <1>1, <1>3, <1>4, SlotFits DEF AppendGrow
<1>6. \A q \in Seqs \ {s} : Same(q)
  BY <1>3 DEF Same, AppendGrow
<1> QED
  BY <1>5, <1>6, FitFrom

LEMMA CopyOnWriteFit ==
  ASSUME Ind, FitInd, NEW s \in Seqs, AppendCopyOnWrite(s) PROVE FitInd'
<1>1. TypeOK /\ Fits(s) /\ Decoding(s) /\ table[s] \in Seq(Blocks)
  BY DEF Ind, TypeOK, FitInd, AppendCopyOnWrite
<1>2. PICK b \in free : table' = [table EXCEPT ![s] = [@ EXCEPT ![Len(@)] = b]]
  BY DEF AppendCopyOnWrite
<1>3. /\ Len(table'[s]) = Len(table[s])
      /\ \A q \in Seqs \ {s} : table'[q] = table[q]
  <2>1. table'[s] = [table[s] EXCEPT ![Len(table[s])] = b]
    BY <1>1, <1>2 DEF TypeOK
  <2> QED
    BY <1>1, <1>2, <2>1 DEF TypeOK
<1>4. Len(table[s]) = NeededBlocks(s)
  BY <1>1, SlotSizes DEF AppendCopyOnWrite
<1>5. Fits(s)'
  BY <1>1, <1>3, <1>4, SlotFits DEF AppendCopyOnWrite
<1>6. \A q \in Seqs \ {s} : Same(q)
  BY <1>3 DEF Same, AppendCopyOnWrite
<1> QED
  BY <1>5, <1>6, FitFrom

LEMMA InPlaceFit ==
  ASSUME Ind, FitInd, NEW s \in Seqs, AppendInPlace(s) PROVE FitInd'
<1>1. TypeOK /\ Fits(s) /\ Decoding(s)
  BY DEF Ind, FitInd, AppendInPlace
<1>2. Len(table[s]) = NeededBlocks(s)
  BY <1>1, SlotSizes DEF AppendInPlace
<1>3. Fits(s)'
  BY <1>1, <1>2, SlotFits DEF AppendInPlace, poolVars
<1>4. \A q \in Seqs \ {s} : Same(q)
  BY DEF Same, AppendInPlace, poolVars
<1> QED
  BY <1>3, <1>4, FitFrom

(* A prefill chunk stores prompt tokens only, for which allocate() already *)
(* took the blocks.                                                        *)
LEMMA PrefillFit ==
  ASSUME Ind, FitInd, NEW s \in Seqs, NEW n \in Nat, Prefill(s, n) PROVE FitInd'
<1>1. /\ TypeOK /\ Fits(s) /\ HasTable(s) /\ n >= 1
      /\ computed[s] + n <= PromptLen[s]
      /\ computed' = [computed EXCEPT ![s] = @ + n]
      /\ UNCHANGED <<table, status, slotted>>
  <2>1. n \in 1 .. PromptLen[s] - computed[s] /\ HasTable(s)
    BY DEF Prefill
  <2>2. computed[s] \in Nat /\ PromptLen[s] \in Nat
    BY PromptLenAssumption DEF Ind, TypeOK
  <2>3. n >= 1 /\ computed[s] + n <= PromptLen[s]
    BY <2>1, <2>2
  <2> QED
    BY <2>1, <2>3 DEF Ind, FitInd, Prefill, StoreKV, poolVars
<1>2. computed'[s] = computed[s] + n /\ \A q \in Seqs \ {s} : Same(q)
  BY <1>1 DEF TypeOK, Same
<1>3. computed[s] \in Nat /\ PromptLen[s] \in Nat
  BY <1>1, Numbers
<1>4. s \notin slotted
  BY <1>1, <1>3 DEF Fits, PrefillDone
<1>5. /\ Ceil(computed[s]) <= NumLogicBlocks(s)
      /\ Ceil(computed[s] + n) <= NumLogicBlocks(s)
      /\ Ceil(computed[s] + n) \in Nat
  <2>1. /\ computed[s] + n \in Nat /\ computed[s] <= PromptLen[s]
        /\ NumLogicBlocks(s) = Ceil(PromptLen[s])
    BY <1>1, <1>3, Numbers
  <2>2. Ceil(computed[s]) <= Ceil(PromptLen[s])
    BY <2>1, <1>3, CeilMonotone
  <2>3. Ceil(computed[s] + n) <= Ceil(PromptLen[s])
    BY <2>1, <1>1, <1>3, CeilMonotone
  <2>4. Ceil(computed[s] + n) \in Nat
    BY <2>1, CeilFacts
  <2> QED
    BY <2>1, <2>2, <2>3, <2>4
<1>6. /\ Size(s) = Larger(Ceil(computed[s]), NumLogicBlocks(s))
      /\ Size(s)' = Larger(Ceil(computed[s] + n), NumLogicBlocks(s))
  BY <1>1, <1>2, <1>4 DEF Size, Tokens, NumLogicBlocks, Larger, Ceil
<1>7. Size(s)' = Size(s)
  BY <1>1, <1>5, <1>6, Numbers DEF Larger
<1>8. Fits(s)'
  BY <1>1, <1>4, <1>7 DEF Fits, HasTable
<1> QED
  BY <1>2, <1>8, FitFrom

(* Storing the token takes the room that append_slot made.                 *)
LEMMA DecodeFit ==
  ASSUME Ind, FitInd, NEW s \in Seqs, Decode(s) PROVE FitInd'
<1>1. /\ TypeOK /\ Fits(s) /\ s \in slotted
      /\ computed' = [computed EXCEPT ![s] = @ + 1]
      /\ slotted' = slotted \ {s}
      /\ UNCHANGED <<table, status>>
  BY DEF Ind, FitInd, Decode, StoreKV, poolVars
<1>2. computed'[s] = computed[s] + 1 /\ \A q \in Seqs \ {s} : Same(q)
  BY <1>1 DEF TypeOK, Same
<1>3. Size(s)' = Size(s)
  BY <1>1, <1>2 DEF Size, Tokens, NumLogicBlocks, Larger, Ceil
<1>4. Fits(s)'
  BY <1>1, <1>3 DEF Fits, HasTable
<1> QED
  BY <1>2, <1>4, FitFrom

LEMMA ForkFit ==
  ASSUME Ind, FitInd, NEW p \in Seqs, NEW c \in Seqs \ {p}, Fork(p, c) PROVE FitInd'
<1>1. /\ TypeOK /\ Fits(p) /\ Fits(c) /\ HasTable(p) /\ p \notin slotted
      /\ status[c] = "WAITING" /\ PromptLen[c] = PromptLen[p]
      /\ table' = [table EXCEPT ![c] = table[p]]
      /\ status' = [status EXCEPT ![c] = "RUNNING"]
      /\ computed' = [computed EXCEPT ![c] = computed[p]]
      /\ slotted' = slotted
  BY DEF Ind, FitInd, Fork
<1>2. /\ table'[c] = table[p] /\ status'[c] = "RUNNING" /\ computed'[c] = computed[p]
      /\ \A q \in Seqs \ {c} : Same(q)
  BY <1>1 DEF TypeOK, Same
<1>3. c \notin slotted
  BY <1>1 DEF Fits, HasTable
<1>4. Size(c)' = Size(p)
  BY <1>1, <1>2, <1>3 DEF Size, Tokens, NumLogicBlocks, Larger, Ceil
<1>5. Fits(c)'
  BY <1>1, <1>2, <1>3, <1>4 DEF Fits, HasTable
<1> QED
  BY <1>2, <1>5, FitFrom

(* The steps of allocate(), and free: no running sequence but the one that *)
(* has just been allocated, whose prompt is not stored yet.                *)
LEMMA AllocateFit ==
  ASSUME Ind, FitInd, NEW s \in Seqs,
         CanAllocate(s) \/ AllocateBlock(s) \/ AllocateOOM(s)
  PROVE  FitInd'
<1>1. /\ TypeOK /\ Fits(s) /\ status[s] = "WAITING"
      /\ UNCHANGED <<status, computed, slotted>>
      /\ \A q \in Seqs \ {s} : table'[q] = table[q]
  BY DEF Ind, FitInd, TypeOK, TableHolders, CanAllocate, AllocateBlock, AllocateOOM, dataVars
<1>2. \A q \in Seqs \ {s} : Same(q)
  BY <1>1 DEF Same
<1>3. Fits(s)'
  BY <1>1 DEF Fits, HasTable
<1> QED
  BY <1>2, <1>3, FitFrom

LEMMA AllocateDoneFit ==
  ASSUME Ind, FitInd, NEW s \in Seqs, AllocateDone(s) PROVE FitInd'
<1>1. /\ TypeOK /\ Fits(s) /\ status[s] = "WAITING" /\ status'[s] = "RUNNING"
      /\ Len(table[s]) = NumLogicBlocks(s)
      /\ UNCHANGED <<table, computed, slotted>>
      /\ \A q \in Seqs \ {s} : status'[q] = status[q]
  BY DEF Ind, FitInd, TypeOK, TableHolders, AllocateDone, dataVars
<1>2. \A q \in Seqs \ {s} : Same(q)
  BY <1>1 DEF Same
<1>3. s \notin slotted /\ computed[s] = 0
  BY <1>1 DEF Fits, HasTable
<1>4. Size(s)' = Larger(Ceil(0), NumLogicBlocks(s))
  BY <1>1, <1>3 DEF Size, Tokens, NumLogicBlocks, Larger, Ceil
<1>5. Size(s)' = NumLogicBlocks(s)
  BY <1>1, <1>4, Numbers, CeilFacts DEF Larger
<1>6. Fits(s)'
  BY <1>1, <1>3, <1>5 DEF Fits
<1> QED
  BY <1>2, <1>6, FitFrom

LEMMA FreeFit ==
  ASSUME Ind, FitInd, NEW s \in Seqs, Free(s) PROVE FitInd'
<1>1. /\ TypeOK /\ status'[s] = "FINISHED_ABORTED" /\ s \notin slotted'
      /\ \A q \in Seqs \ {s} : Same(q)
  BY DEF Ind, FitInd, TypeOK, Free, Same
<1>2. Fits(s)'
  BY <1>1 DEF Fits, HasTable
<1> QED
  BY <1>1, <1>2, FitFrom

LEMMA FitNext == Ind /\ FitInd /\ [Next]_vars => FitInd'
<1> SUFFICES ASSUME Ind, FitInd, [Next]_vars PROVE FitInd'
  OBVIOUS
<1>1. ASSUME NEW s \in Seqs, NEW n \in 1 .. PromptLen[s], Prefill(s, n) PROVE FitInd'
  <2>1. n \in Nat
    BY PromptLenAssumption
  <2> QED
    BY <1>1, <2>1, PrefillFit
<1>2. CASE UNCHANGED vars
  BY <1>2 DEF vars, FitInd, Fits, HasTable, PrefillDone, Size, Tokens, NumLogicBlocks
<1> QED
  BY <1>1, <1>2, GrowFit, CopyOnWriteFit, InPlaceFit, DecodeFit, ForkFit, AllocateFit,
     AllocateDoneFit, FreeFit DEF Next

LEMMA FitAlways == Spec => [](Ind /\ FitInd)
<1>1. Init => FitInd
  BY DEF Init, FitInd, Fits, HasTable
<1> QED
  BY <1>1, InitInd, NextInd, FitNext, PTL DEF Spec

LEMMA BlocksCounted ==
  ASSUME Ind, NEW s \in Seqs
  PROVE  Cardinality(BlocksOf(s)) = Len(table[s])
<1> DEFINE t == table[s]
           N == 1 .. Len(t)
<1>1. t \in Seq(Blocks) /\ Len(t) \in Nat /\ DOMAIN t = N
  BY DEF Ind, TypeOK
<1>2. \A i, j \in N : t[i] = t[j] => i = j
  BY <1>1 DEF Ind, NoRepeats
<1>3. BlocksOf(s) = {t[i] : i \in N}
  BY <1>1 DEF BlocksOf
<1>4. t \in [N -> BlocksOf(s)]
  BY <1>1, <1>3
<1>5. t \in Surjection(N, BlocksOf(s)) /\ t \in Injection(N, BlocksOf(s))
  BY <1>2, <1>3, <1>4 DEF Surjection, Injection, IsInjective
<1>6. IsFiniteSet(N) /\ Cardinality(N) = Len(t)
  BY <1>1, FS_Interval
<1> QED
  BY <1>5, <1>6, FS_Surjection

(* A running sequence holds the blocks of its prompt and of its tokens,    *)
(* one more at most, none twice, however often append_slot is called       *)
(* again for the same token (allocate 59-65, append_slot 72-98, fork       *)
(* 100-105; scheduler.py 139-151).                                         *)
THEOREM TablesFit == Spec => []ExactFit
<1>1. Ind /\ FitInd => ExactFit
  BY BlocksCounted DEF FitInd, Fits, ExactFit, Size, Larger, Tokens, Ceil
<1> QED
  BY <1>1, FitAlways, PTL
-----------------------------------------------------------------------------
(* What the cells hold, when the caller of append_slot performs the copy.  *)
(* A sequence reads back every position it stored.                         *)
Reads(s) ==
  HasTable(s) => \A p \in 0 .. computed[s] - 1 :
                   kv[BlockAt(s, p)][p % BlockSize] = hist[s][p + 1]

(* The cells s stores to next are in blocks that only s holds: the whole   *)
(* table while the prompt is being stored, and the block append_slot       *)
(* prepared for the next token.                                            *)
PromptAlone(s) ==
  HasTable(s) /\ ~ PrefillDone(s) =>
    \A i \in DOMAIN table[s] : Owners(table[s][i]) = {s}
SlotAlone(s) == s \in slotted => Owners(BlockAt(s, computed[s])) = {s}

Tokened == Seqs \X Nat
Noted(s) == hist[s] \in Seq(Tokened) /\ Len(hist[s]) = computed[s]

DataOf(s) == Reads(s) /\ PromptAlone(s) /\ SlotAlone(s) /\ Noted(s)
DataInd ==
  /\ DOMAIN kv = Blocks /\ DOMAIN hist = Seqs
  /\ \A s \in Seqs : DataOf(s)

(* The place of a stored position is in the table.                         *)
LEMMA PlaceIn ==
  ASSUME TypeOK, NEW s \in Seqs, NEW n \in Nat, Ceil(n) <= Len(table[s]),
         NEW p \in Nat, p < n
  PROVE  /\ p \div BlockSize + 1 \in DOMAIN table[s]
         /\ p \div BlockSize < Len(table[s])
         /\ BlockAt(s, p) \in BlocksOf(s)
         /\ BlockAt(s, p) \in Blocks /\ s \in Owners(BlockAt(s, p))
         /\ p % BlockSize \in Offsets
<1>1. table[s] \in Seq(Blocks) /\ Len(table[s]) \in Nat /\ Ceil(n) \in Nat
  BY CeilFacts DEF TypeOK
<1>2. p \div BlockSize \in Nat /\ p \div BlockSize < Ceil(n)
  BY PlaceWithin
<1>3. p \div BlockSize < Len(table[s])
  BY <1>1, <1>2
<1>4. p \div BlockSize + 1 \in DOMAIN table[s]
  BY <1>1, <1>2, <1>3
<1>5. BlockAt(s, p) \in BlocksOf(s) /\ BlockAt(s, p) \in Blocks
  BY <1>1, <1>4 DEF BlockAt, BlocksOf
<1>6. p % BlockSize \in Offsets
  BY DivMod DEF Offsets
<1> QED
  BY <1>3, <1>4, <1>5, <1>6 DEF Owners

(* The positions a running sequence stored are within its table.           *)
LEMMA StoredIn ==
  ASSUME TypeOK, FitInd, NEW s \in Seqs, HasTable(s)
  PROVE  Ceil(computed[s]) <= Len(table[s])
<1>1. Len(table[s]) = Larger(Ceil(Tokens(s)), NumLogicBlocks(s))
  BY DEF FitInd, Fits, Size
<1>2. Ceil(Tokens(s)) \in Nat /\ Ceil(computed[s]) <= Ceil(Tokens(s))
  <2>1. CASE s \in slotted
    <3>1. Tokens(s) = computed[s] + 1 /\ computed[s] + 1 \in Nat
      BY <2>1, Numbers DEF Tokens
    <3> QED
      BY <3>1, Numbers, CeilFacts
  <2>2. CASE s \notin slotted
    BY <2>2, Numbers DEF Tokens
  <2> QED
    BY <2>1, <2>2
<1>3. NumLogicBlocks(s) \in Nat /\ Ceil(computed[s]) \in Nat
  BY Numbers
<1> QED
  BY <1>1, <1>2, <1>3 DEF Larger

(* The room append_slot made is within the table.                          *)
LEMMA SlottedIn ==
  ASSUME TypeOK, FitInd, NEW s \in slotted
  PROVE  s \in Seqs /\ HasTable(s) /\ Ceil(computed[s] + 1) <= Len(table[s])
<1>1. s \in Seqs /\ HasTable(s) /\ Len(table[s]) = Larger(Ceil(Tokens(s)), NumLogicBlocks(s))
  BY DEF TypeOK, FitInd, Fits, Size
<1>2. Tokens(s) = computed[s] + 1
  BY DEF Tokens
<1>3. Ceil(computed[s] + 1) \in Nat /\ NumLogicBlocks(s) \in Nat
  BY <1>1, Numbers
<1> QED
  BY <1>1, <1>2, <1>3 DEF Larger

(* A step that leaves q as it was: its list, position and notes, the       *)
(* contents of its blocks and, if q is about to store in them, the blocks  *)
(* that q alone holds.                                                     *)
Undisturbed(q) ==
  /\ Same(q)
  /\ hist'[q] = hist[q]
  /\ \A b \in BlocksOf(q), o \in Offsets : kv'[b][o] = kv[b][o]
  /\ \/ PrefillDone(q) /\ q \notin slotted
     \/ \A b \in BlocksOf(q) : Owners(b) = {q} => Owners(b)' = {q}

LEMMA DataKept ==
  ASSUME TypeOK, FitInd, NEW q \in Seqs, DataOf(q), Undisturbed(q)
  PROVE  DataOf(q)'
<1>1. /\ table'[q] = table[q] /\ status'[q] = status[q] /\ computed'[q] = computed[q]
      /\ q \in slotted' <=> q \in slotted
      /\ hist'[q] = hist[q]
      /\ \A b \in BlocksOf(q), o \in Offsets : kv'[b][o] = kv[b][o]
  BY DEF Undisturbed, Same
<1>2. Noted(q)'
  BY <1>1 DEF DataOf, Noted
<1>3. \/ PrefillDone(q) /\ q \notin slotted
      \/ \A b \in BlocksOf(q) : Owners(b) = {q} => Owners(b)' = {q}
  BY DEF Undisturbed
<1>4. Reads(q)'
  <2> SUFFICES ASSUME HasTable(q), NEW p \in 0 .. computed[q] - 1
               PROVE  kv'[BlockAt(q, p)][p % BlockSize] = hist[q][p + 1]
    BY <1>1 DEF Reads, HasTable, BlockAt
  <2>1. computed[q] \in Nat /\ p \in Nat /\ p < computed[q]
    BY Numbers
  <2>2. BlockAt(q, p) \in BlocksOf(q) /\ p % BlockSize \in Offsets
    BY <2>1, StoredIn, PlaceIn
  <2> QED
    BY <1>1, <2>2 DEF DataOf, Reads
<1>5. PromptAlone(q)'
  <2> SUFFICES ASSUME HasTable(q), ~ PrefillDone(q), NEW i \in DOMAIN table[q]
               PROVE  Owners(table[q][i])' = {q}
    BY <1>1 DEF PromptAlone, HasTable, PrefillDone
  <2>1. table[q][i] \in BlocksOf(q) /\ Owners(table[q][i]) = {q}
    BY DEF BlocksOf, DataOf, PromptAlone
  <2> QED
    BY <1>1, <1>3, <2>1
<1>6. SlotAlone(q)'
  <2> SUFFICES ASSUME q \in slotted PROVE Owners(BlockAt(q, computed[q]))' = {q}
    BY <1>1 DEF SlotAlone, BlockAt
  <2>1. Ceil(computed[q] + 1) <= Len(table[q])
    BY SlottedIn
  <2>2. BlockAt(q, computed[q]) \in BlocksOf(q)
    BY <2>1, Numbers, PlaceIn
  <2> QED
    BY <1>1, <1>3, <2>2 DEF DataOf, SlotAlone, BlockAt
<1> QED
  BY <1>2, <1>4, <1>5, <1>6 DEF DataOf

LEMMA DataFrom ==
  ASSUME TypeOK, FitInd, DataInd, NEW s \in Seqs,
         DOMAIN kv' = Blocks, DOMAIN hist' = Seqs,
         \A q \in Seqs \ {s} : Undisturbed(q), DataOf(s)'
  PROVE  DataInd'
<1> SUFFICES ASSUME NEW q \in Seqs \ {s} PROVE DataOf(q)'
  BY DEF DataInd
<1>1. DataOf(q) /\ Undisturbed(q)
  BY DEF DataInd
<1> QED
  BY <1>1, DataKept

(* The steps of allocate() up to the last one.                             *)
LEMMA AllocateData ==
  ASSUME Ind, FitInd, DataInd, NEW s \in Seqs,
         CanAllocate(s) \/ AllocateBlock(s) \/ AllocateOOM(s)
  PROVE  DataInd'
<1>1. /\ TypeOK /\ status[s] = "WAITING"
      /\ UNCHANGED <<status, computed, slotted, kv, hist>>
      /\ \A q \in Seqs \ {s} : table'[q] = table[q]
  BY DEF Ind, TypeOK, TableHolders, CanAllocate, AllocateBlock, AllocateOOM, dataVars
<1>2. \A q \in Seqs \ {s} : \A d \in BlocksOf(q) : Owners(d) = {q} => Owners(d)' = {q}
  <2> SUFFICES ASSUME NEW q \in Seqs \ {s}, NEW d \in BlocksOf(q), Owners(d) = {q}
               PROVE  Owners(d)' = {q}
    OBVIOUS
  <2>1. d \in Blocks /\ d \notin free
    BY HeldBlocks
  <2>2. CASE CanAllocate(s)
    BY <2>2 DEF CanAllocate, Owners, BlocksOf
  <2>3. CASE AllocateBlock(s)
    <3>1. PICK b \in free : table' = [table EXCEPT ![s] = Append(@, b)]
      BY <2>3 DEF AllocateBlock
    <3>2. Owners(d)' = Owners(d)
      BY <2>1, <3>1, TakeOwners
    <3> QED
      BY <3>2
  <2>4. CASE AllocateOOM(s)
    <3>1. Owners(d)' = Owners(d) \ {s}
      BY <2>1, <2>4, DropOwners DEF AllocateOOM
    <3> QED
      BY <3>1
  <2> QED
    BY <2>2, <2>3, <2>4
<1>3. \A q \in Seqs \ {s} : Undisturbed(q)
  BY <1>1, <1>2 DEF Undisturbed, Same
<1>4. s \notin slotted /\ DataOf(s) /\ DOMAIN kv = Blocks /\ DOMAIN hist = Seqs
  BY <1>1 DEF FitInd, Fits, HasTable, DataInd
<1>5. DataOf(s)'
  BY <1>1, <1>4 DEF DataOf, Reads, PromptAlone, SlotAlone, Noted, HasTable
<1> QED
  BY <1>1, <1>3, <1>4, <1>5, DataFrom

(* A table fresh from allocate() is its sequence's own, and holds nothing  *)
(* yet.                                                                    *)
LEMMA AllocateDoneData ==
  ASSUME Ind, FitInd, DataInd, NEW s \in Seqs, AllocateDone(s) PROVE DataInd'
<1>1. /\ TypeOK /\ s \in allocating /\ status[s] = "WAITING"
      /\ UNCHANGED <<table, computed, slotted, kv, hist>>
      /\ \A q \in Seqs \ {s} : status'[q] = status[q]
  BY DEF Ind, TypeOK, TableHolders, AllocateDone, dataVars
<1>2. \A d : Owners(d)' = Owners(d)
  BY <1>1 DEF Owners, BlocksOf
<1>3. \A q \in Seqs \ {s} : Undisturbed(q)
  BY <1>1, <1>2 DEF Undisturbed, Same
<1>4. /\ s \notin slotted /\ computed[s] = 0
      /\ DataOf(s) /\ DOMAIN kv = Blocks /\ DOMAIN hist = Seqs
  BY <1>1 DEF FitInd, Fits, HasTable, DataInd
<1>5. \A i \in DOMAIN table[s] : Owners(table[s][i]) = {s}
  <2> SUFFICES ASSUME NEW i \in DOMAIN table[s] PROVE Owners(table[s][i]) = {s}
    OBVIOUS
  <2>1. table[s][i] \in BlocksOf(s)
    BY DEF BlocksOf
  <2>2. table[s][i] \in Blocks /\ s \in Owners(table[s][i])
    BY <2>1, HeldBlocks
  <2> QED
    BY <1>1, <2>2 DEF Ind, BuildersAlone
<1>6. Reads(s)' /\ SlotAlone(s)' /\ Noted(s)'
  BY <1>1, <1>4 DEF DataOf, Reads, SlotAlone, Noted
<1>7. PromptAlone(s)'
  BY <1>1, <1>2, <1>5 DEF PromptAlone
<1> QED
  BY <1>1, <1>3, <1>4, <1>6, <1>7, DataFrom DEF DataOf

(* append_slot, when it makes or finds the last block of s its own.        *)
LEMMA SlotData ==
  ASSUME TypeOK, TypeOK', FitInd, DataInd, NEW s \in Seqs, Decoding(s),
         UNCHANGED <<status, computed, hist>>, slotted' = slotted \cup {s},
         DOMAIN kv' = Blocks,
         \A q \in Seqs \ {s} : Undisturbed(q),
         Len(table'[s]) = NeededBlocks(s), Owners(LastBlock(s))' = {s},
         \A i \in DOMAIN table[s] :
           i \in DOMAIN table'[s] /\ kv'[table'[s][i]] = kv[table[s][i]]
  PROVE  DataInd'
<1>1. DataOf(s) /\ DOMAIN hist = Seqs /\ HasTable(s) /\ PrefillDone(s)
  BY DEF DataInd, Decoding
<1>2. Noted(s)' /\ PromptAlone(s)'
  BY <1>1 DEF DataOf, Noted, PromptAlone, PrefillDone
<1>3. SlotAlone(s)'
  <2>1. BlockAt(s, computed[s])' = LastBlock(s)'
    BY DEF BlockAt, LastBlock, NeededBlocks
  <2> QED
    BY <2>1 DEF SlotAlone
<1>4. Reads(s)'
  <2> SUFFICES ASSUME NEW p \in 0 .. computed[s] - 1
               PROVE  kv'[BlockAt(s, p)'][p % BlockSize] = hist[s][p + 1]
    BY DEF Reads, BlockAt
  <2>1. computed[s] \in Nat /\ p \in Nat /\ p < computed[s]
    BY Numbers
  <2>2. p \div BlockSize + 1 \in DOMAIN table[s]
    BY <1>1, <2>1, StoredIn, PlaceIn
  <2>3. kv'[BlockAt(s, p)'] = kv[BlockAt(s, p)]
    BY <2>2 DEF BlockAt
  <2>4. kv[BlockAt(s, p)][p % BlockSize] = hist[s][p + 1]
    BY <1>1 DEF DataOf, Reads
  <2> QED
    BY <2>3, <2>4
<1> QED
  BY <1>1, <1>2, <1>3, <1>4, DataFrom DEF DataOf

LEMMA GrowData ==
  ASSUME Ind, Ind', FitInd, DataInd, NEW s \in Seqs, AppendGrow(s) PROVE DataInd'
<1>1. /\ TypeOK /\ TypeOK' /\ Fits(s) /\ Decoding(s) /\ table[s] \in Seq(Blocks)
      /\ UNCHANGED <<status, computed, kv, hist>> /\ slotted' = slotted \cup {s}
      /\ DOMAIN kv = Blocks
  BY DEF Ind, TypeOK, FitInd, DataInd, AppendGrow
<1>2. PICK b \in free : table' = [table EXCEPT ![s] = Append(@, b)]
  BY DEF AppendGrow
<1>3. /\ b \in Blocks
      /\ \A d \in Blocks : Owners(d)' = IF d = b THEN {s} ELSE Owners(d)
  BY <1>2, TakeOwners
<1>4. /\ table'[s] = Append(table[s], b)
      /\ \A q \in Seqs \ {s} : table'[q] = table[q]
  BY <1>1, <1>2 DEF TypeOK
<1>5. /\ Len(table'[s]) = Len(table[s]) + 1
      /\ \A i \in DOMAIN table[s] : i \in DOMAIN table'[s] /\ table'[s][i] = table[s][i]
      /\ LastBlock(s)' = b
  BY <1>1, <1>3, <1>4 DEF LastBlock
<1>6. \A q \in Seqs \ {s} : Undisturbed(q)
  <2> SUFFICES ASSUME NEW q \in Seqs \ {s} PROVE Undisturbed(q)
    OBVIOUS
  <2>1. \A d \in BlocksOf(q) : Owners(d)' = Owners(d)
    BY <1>2, <1>3, HeldBlocks
  <2> QED
    BY <1>1, <1>4, <2>1 DEF Undisturbed, Same
<1>7. Len(table'[s]) = NeededBlocks(s)
  BY <1>1, <1>5, SlotSizes DEF AppendGrow
<1>8. Owners(LastBlock(s))' = {s}
  BY <1>3, <1>5
<1>9. \A i \in DOMAIN table[s] :
        i \in DOMAIN table'[s] /\ kv'[table'[s][i]] = kv[table[s][i]]
  BY <1>1, <1>5
<1> QED
  BY <1>1, <1>6, <1>7, <1>8, <1>9, SlotData

LEMMA InPlaceData ==
  ASSUME Ind, Ind', FitInd, DataInd, NEW s \in Seqs, AppendInPlace(s) PROVE DataInd'
<1>1. /\ TypeOK /\ TypeOK' /\ Fits(s) /\ Decoding(s)
      /\ UNCHANGED <<table, status, computed, kv, hist>> /\ slotted' = slotted \cup {s}
      /\ DOMAIN kv = Blocks
      /\ refCount[LastBlock(s)] <= 1
  BY DEF Ind, FitInd, DataInd, AppendInPlace, poolVars
<1>2. \A d : Owners(d)' = Owners(d)
  BY <1>1 DEF Owners, BlocksOf
<1>3. \A q \in Seqs \ {s} : Undisturbed(q)
  BY <1>1, <1>2 DEF Undisturbed, Same
<1>4. Len(table[s]) = NeededBlocks(s)
  BY <1>1, SlotSizes DEF AppendInPlace
<1>5. Owners(LastBlock(s))' = {s}
  <2>1. LastBlock(s) \in BlocksOf(s)
    <3>1. computed[s] \div BlockSize \in Nat
      BY <1>1, Numbers, DivMod
    <3>2. Len(table[s]) >= 1
      BY <1>4, <3>1 DEF NeededBlocks
    <3> QED
      BY <1>1, <3>2 DEF TypeOK, LastBlock, BlocksOf
  <2> DEFINE d == LastBlock(s)
  <2>2. s \in Owners(d) /\ refCount[d] \in Nat \ {0} /\ refCount[d] = Cardinality(Owners(d))
    BY <2>1, HeldBlocks
  <2>3. Cardinality(Owners(d)) = 1
    <3> HIDE DEF d
    <3> QED
      BY <1>1, <2>2 DEF d
  <2>4. Owners(d) = {s}
    <3>1. PICK x : Owners(d) = {x}
      BY <2>3, OwnersFinite, FS_Singleton
    <3> QED
      BY <2>2, <3>1
  <2> QED
    BY <1>1, <1>2, <2>4 DEF LastBlock
<1> QED
  BY <1>1, <1>3, <1>4, <1>5, SlotData

(* Copy-on-write: the fresh block gets what the shared one holds.          *)
LEMMA CopyOnWriteData ==
  ASSUME CallerCopies, Ind, Ind', FitInd, DataInd, NEW s \in Seqs, AppendCopyOnWrite(s)
  PROVE  DataInd'
<1> DEFINE old == LastBlock(s)
           t == table[s]
<1>1. /\ TypeOK /\ TypeOK' /\ Fits(s) /\ Decoding(s) /\ t \in Seq(Blocks)
      /\ UNCHANGED <<status, computed, hist>> /\ slotted' = slotted \cup {s}
      /\ DOMAIN kv = Blocks /\ DOMAIN table = Seqs
  BY DEF Ind, TypeOK, FitInd, DataInd, AppendCopyOnWrite
<1>2. PICK b \in free :
        /\ free' = free \ {b}
        /\ table' = [table EXCEPT ![s] = [@ EXCEPT ![Len(@)] = b]]
        /\ kv' = [kv EXCEPT ![b] = kv[old]]
  BY DEF AppendCopyOnWrite
<1>3. /\ b \in Blocks /\ Owners(b) = {}
      /\ \A q \in Seqs : b \notin BlocksOf(q)
  BY DEF Ind, TypeOK, FreeUncounted, Owners
<1>4. /\ old \in Blocks /\ s \in Owners(old) /\ Len(t) > 0
      /\ \A d \in Blocks : Owners(d)' = IF d = b THEN {s}
                                        ELSE IF d = old THEN Owners(d) \ {s}
                                        ELSE Owners(d)
  <2>1. PICK c \in free :
          /\ free' = free \ {c}
          /\ old \in Blocks /\ s \in Owners(old) /\ Len(t) > 0
          /\ \A d \in Blocks : Owners(d)' = IF d = c THEN {s}
                                            ELSE IF d = old THEN Owners(d) \ {s}
                                            ELSE Owners(d)
    BY SwapOwners
  <2>2. c = b
    BY <1>2, <2>1
  <2> QED
    BY <2>1, <2>2
<1>5. /\ table'[s] = [t EXCEPT ![Len(t)] = b]
      /\ \A q \in Seqs \ {s} : table'[q] = table[q]
  BY <1>1, <1>2
<1>6. /\ Len(table'[s]) = Len(t) /\ DOMAIN table'[s] = DOMAIN t
      /\ table'[s][Len(t)] = b
      /\ \A i \in DOMAIN t : i # Len(t) => table'[s][i] = t[i]
  BY <1>1, <1>3, <1>4, <1>5
<1>7. \A d \in Blocks : kv'[d] = IF d = b THEN kv[old] ELSE kv[d]
  BY <1>1, <1>2, <1>3
<1>8. \A q \in Seqs \ {s} : Undisturbed(q)
  <2> SUFFICES ASSUME NEW q \in Seqs \ {s} PROVE Undisturbed(q)
    OBVIOUS
  <2>1. ASSUME NEW d \in BlocksOf(q)
        PROVE  kv'[d] = kv[d] /\ (Owners(d) = {q} => Owners(d)' = {q})
    <3>1. d \in Blocks /\ d # b
      BY <1>3, HeldBlocks
    <3> HIDE DEF old
    <3> QED
      BY <1>4, <1>7, <3>1
  <2> QED
    BY <1>1, <1>5, <2>1 DEF Undisturbed, Same
<1>9. Len(table'[s]) = NeededBlocks(s)
  BY <1>1, <1>6, SlotSizes DEF AppendCopyOnWrite
<1>10. Owners(LastBlock(s))' = {s}
  <2>1. LastBlock(s)' = b
    BY <1>6 DEF LastBlock
  <2> QED
    BY <1>3, <1>4, <2>1
<1>11. \A i \in DOMAIN t : i \in DOMAIN table'[s] /\ kv'[table'[s][i]] = kv[t[i]]
  <2> SUFFICES ASSUME NEW i \in DOMAIN t PROVE kv'[table'[s][i]] = kv[t[i]]
    BY <1>6
  <2>1. CASE i = Len(t)
    BY <1>3, <1>6, <1>7, <2>1 DEF LastBlock
  <2>2. CASE i # Len(t)
    <3>1. t[i] \in Blocks /\ t[i] # b
      BY <1>1, <1>3 DEF BlocksOf
    <3> QED
      BY <1>6, <1>7, <2>2, <3>1
  <2> QED
    BY <2>1, <2>2
<1>12. DOMAIN kv' = Blocks
  BY <1>1, <1>2
<1> QED
  BY <1>1, <1>8, <1>9, <1>10, <1>11, <1>12, SlotData

(* fork: the child reads through the blocks of its parent, which is not    *)
(* about to store in them.                                                 *)
LEMMA ForkData ==
  ASSUME Ind, FitInd, DataInd, NEW p \in Seqs, NEW c \in Seqs \ {p}, Fork(p, c)
  PROVE  DataInd'
<1>1. /\ TypeOK /\ HasTable(p) /\ PrefillDone(p) /\ p \notin slotted
      /\ status[c] = "WAITING" /\ PromptLen[c] = PromptLen[p]
      /\ UNCHANGED <<slotted, kv>>
      /\ hist' = [hist EXCEPT ![c] = hist[p]]
      /\ table' = [table EXCEPT ![c] = table[p]]
      /\ status' = [status EXCEPT ![c] = "RUNNING"]
      /\ computed' = [computed EXCEPT ![c] = computed[p]]
      /\ DOMAIN kv = Blocks /\ DOMAIN hist = Seqs
  BY DEF Ind, DataInd, Fork
<1>2. /\ table'[c] = table[p] /\ status'[c] = "RUNNING"
      /\ computed'[c] = computed[p] /\ hist'[c] = hist[p]
      /\ \A q \in Seqs \ {c} : Same(q) /\ hist'[q] = hist[q]
  BY <1>1 DEF TypeOK, Same
<1>3. c \notin slotted
  BY <1>1 DEF FitInd, Fits, HasTable
<1>4. \A q \in Seqs \ {c} : Undisturbed(q)
  <2> SUFFICES ASSUME NEW q \in Seqs \ {c} PROVE Undisturbed(q)
    OBVIOUS
  <2>1. CASE q = p
    BY <1>1, <1>2, <2>1 DEF Undisturbed
  <2>2. CASE q # p
    <3>1. ASSUME NEW d \in BlocksOf(q), Owners(d) = {q} PROVE Owners(d)' = {q}
      <4>1. d \in Blocks
        BY HeldBlocks
      <4>2. Owners(d)' = IF p \in Owners(d) THEN Owners(d) \cup {c} ELSE Owners(d)
        BY <4>1, ForkOwners
      <4> QED
        BY <2>2, <3>1, <4>2
    <3> QED
      BY <1>1, <1>2, <3>1 DEF Undisturbed
  <2> QED
    BY <2>1, <2>2
<1>5. DataOf(p)
  BY DEF DataInd
<1>6. Reads(c)' /\ Noted(c)'
  BY <1>1, <1>2, <1>5 DEF DataOf, Reads, Noted, BlockAt
<1>7. PromptAlone(c)' /\ SlotAlone(c)'
  BY <1>1, <1>2, <1>3 DEF PromptAlone, SlotAlone, PrefillDone
<1> QED
  BY <1>1, <1>4, <1>6, <1>7, DataFrom DEF DataOf

(* free: a block whose contents are lost had no other holder.              *)
LEMMA FreeData ==
  ASSUME Ind, FitInd, DataInd, NEW s \in Seqs, Free(s) PROVE DataInd'
<1> DEFINE returned == {b \in BlocksOf(s) : refCount[b] = 1}
<1>1. /\ TypeOK /\ status'[s] = "FINISHED_ABORTED" /\ s \notin slotted'
      /\ \A q \in Seqs \ {s} : Same(q)
      /\ UNCHANGED <<computed, hist>>
      /\ kv' = [b \in Blocks |-> IF b \in returned THEN [o \in Offsets |-> Stale]
                                                  ELSE kv[b]]
      /\ DOMAIN hist = Seqs
  BY DEF Ind, TypeOK, DataInd, Free, Same
<1>2. ASSUME NEW q \in Seqs \ {s}, NEW d \in BlocksOf(q)
      PROVE  kv'[d] = kv[d] /\ (Owners(d) = {q} => Owners(d)' = {q})
  <2>1. d \in Blocks /\ q \in Owners(d) /\ refCount[d] = Cardinality(Owners(d))
    BY HeldBlocks
  <2>2. Owners(d)' = Owners(d) \ {s}
    BY <2>1, DropOwners DEF Free
  <2>3. d \notin returned
    <3> SUFFICES ASSUME d \in BlocksOf(s), refCount[d] = 1 PROVE FALSE
      OBVIOUS
    <3>1. s \in Owners(d)
      BY HeldBlocks
    <3>2. PICK x : Owners(d) = {x}
      BY <2>1, OwnersFinite, FS_Singleton
    <3> QED
      BY <2>1, <3>1, <3>2
  <2> HIDE DEF returned
  <2> QED
    BY <1>1, <2>1, <2>2, <2>3
<1>3. \A q \in Seqs \ {s} : Undisturbed(q)
  BY <1>1, <1>2 DEF Undisturbed
<1>4. DataOf(s)'
  <2>1. Noted(s)
    BY DEF DataInd, DataOf
  <2> QED
    BY <1>1, <2>1 DEF DataOf, Reads, PromptAlone, SlotAlone, Noted, HasTable
<1> QED
  BY <1>1, <1>3, <1>4, DataFrom

LEMMA Joined ==
  ASSUME NEW u \in Seq(Tokened), NEW v \in Seq(Tokened)
  PROVE  /\ u \o v \in Seq(Tokened) /\ Len(u \o v) = Len(u) + Len(v)
         /\ \A i \in 1 .. Len(u) : (u \o v)[i] = u[i]
         /\ \A i \in 1 .. Len(v) : (u \o v)[Len(u) + i] = v[i]
OBVIOUS

(* What s has noted after storing n tokens more.                           *)
LEMMA NotesAfter ==
  ASSUME NEW s \in Seqs, NEW n \in Nat, Noted(s),
         hist'[s] = hist[s] \o [i \in 1 .. n |-> Token(s, computed[s] + i - 1)]
  PROVE  /\ hist'[s] \in Seq(Tokened) /\ Len(hist'[s]) = computed[s] + n
         /\ \A p \in 0 .. computed[s] - 1 : hist'[s][p + 1] = hist[s][p + 1]
         /\ \A p \in computed[s] .. computed[s] + n - 1 : hist'[s][p + 1] = Token(s, p)
<1> DEFINE c == computed[s]
           u == hist[s]
           w == hist'[s]
           v == [i \in 1 .. n |-> Token(s, c + i - 1)]
<1>1. u \in Seq(Tokened) /\ c = Len(u) /\ c \in Nat
  BY DEF Noted
<1>2. \A i \in 1 .. n : Token(s, c + i - 1) \in Tokened
  BY <1>1 DEF Token, Tokened
<1>3. v \in Seq(Tokened) /\ Len(v) = n
  BY <1>2
<1>4. \A p \in c .. c + n - 1 : p + 1 - c \in 1 .. n /\ v[p + 1 - c] = Token(s, p)
  <2> SUFFICES ASSUME NEW p \in c .. c + n - 1
               PROVE  p + 1 - c \in 1 .. n /\ v[p + 1 - c] = Token(s, p)
    OBVIOUS
  <2>1. p + 1 - c \in 1 .. n /\ c + (p + 1 - c) - 1 = p
    BY <1>1
  <2>2. v[p + 1 - c] = Token(s, c + (p + 1 - c) - 1)
    BY <2>1
  <2> QED
    BY <2>1, <2>2
<1>5. w = u \o v
  OBVIOUS
<1> HIDE DEF u, v, w, c
<1>6. /\ w \in Seq(Tokened) /\ Len(w) = c + n
      /\ \A i \in 1 .. c : w[i] = u[i]
      /\ \A i \in 1 .. n : w[c + i] = v[i]
  <2>1. /\ u \o v \in Seq(Tokened) /\ Len(u \o v) = Len(u) + Len(v)
        /\ \A i \in 1 .. Len(u) : (u \o v)[i] = u[i]
        /\ \A i \in 1 .. Len(v) : (u \o v)[Len(u) + i] = v[i]
    BY <1>1, <1>3, Joined, Zenon
  <2> QED
    BY <2>1, <1>1, <1>3, <1>5
<1>7. \A p \in 0 .. c - 1 : w[p + 1] = u[p + 1]
  BY <1>1, <1>6
<1>8. ASSUME NEW p \in c .. c + n - 1 PROVE w[p + 1] = Token(s, p)
  <2>1. p + 1 - c \in 1 .. n /\ c + (p + 1 - c) = p + 1
    BY <1>1
  <2>2. w[c + (p + 1 - c)] = v[p + 1 - c]
    BY <1>6, <2>1
  <2> QED
    BY <1>4, <2>1, <2>2
<1> QED
  BY <1>6, <1>7, <1>8 DEF u, w, c

(* Storing n tokens of s, in cells that no other sequence reads and where  *)
(* s stored nothing before.                                                *)
LEMMA StoreReads ==
  ASSUME TypeOK, FitInd, DataInd, NEW s \in Seqs, NEW n \in Nat, HasTable(s),
         \A i, j \in DOMAIN table[s] : table[s][i] = table[s][j] => i = j,
         Ceil(computed[s] + n) <= Len(table[s]), StoreKV(s, n),
         UNCHANGED <<table, status>>,
         \A p \in computed[s] .. computed[s] + n - 1 : Owners(BlockAt(s, p)) = {s}
  PROVE  /\ Reads(s)' /\ Noted(s)'
         /\ \A q \in Seqs \ {s} :
              /\ hist'[q] = hist[q] /\ computed'[q] = computed[q]
              /\ \A b \in BlocksOf(q), o \in Offsets : kv'[b][o] = kv[b][o]
         /\ DOMAIN kv' = Blocks /\ DOMAIN hist' = Seqs
<1> DEFINE c == computed[s]
           new == c .. c + n - 1
           at(b, o) == {p \in new : BlockAt(s, p) = b /\ p % BlockSize = o}
           part == [i \in 1 .. n |-> Token(s, c + i - 1)]
<1>1. /\ c \in Nat /\ hist[s] \in Seq(Tokened) /\ Len(hist[s]) = c
      /\ DOMAIN kv = Blocks /\ DOMAIN hist = Seqs
      /\ \A p \in 0 .. c - 1 : kv[BlockAt(s, p)][p % BlockSize] = hist[s][p + 1]
  BY Numbers DEF DataInd, DataOf, Noted, Reads
<1>2. /\ kv' = [b \in Blocks |-> [o \in Offsets |->
                   IF at(b, o) = {} THEN kv[b][o]
                                    ELSE Token(s, CHOOSE p \in at(b, o) : TRUE)]]
      /\ hist' = [hist EXCEPT ![s] = @ \o part]
      /\ computed' = [computed EXCEPT ![s] = @ + n]
  BY DEF StoreKV
<1>3. /\ computed'[s] = c + n /\ hist'[s] = hist[s] \o part
      /\ \A q \in Seqs \ {s} : hist'[q] = hist[q] /\ computed'[q] = computed[q]
      /\ DOMAIN kv' = Blocks /\ DOMAIN hist' = Seqs
  <2> HIDE DEF part, at, c
  <2> QED
    BY <1>1, <1>2 DEF TypeOK, c
<1>4. Noted(s)
  BY DEF DataInd, DataOf
<1>5. /\ hist'[s] \in Seq(Tokened) /\ Len(hist'[s]) = c + n
      /\ \A p \in 0 .. c - 1 : hist'[s][p + 1] = hist[s][p + 1]
      /\ \A p \in c .. c + n - 1 : hist'[s][p + 1] = Token(s, p)
  BY <1>3, <1>4, NotesAfter, Zenon
<1>6. \A p \in 0 .. c + n - 1 : /\ p \div BlockSize + 1 \in DOMAIN table[s]
                               /\ BlockAt(s, p) \in Blocks
                               /\ p % BlockSize \in Offsets
  BY <1>1, PlaceIn
<1>7. \A p, r \in 0 .. c + n - 1 :
        BlockAt(s, p) = BlockAt(s, r) /\ p % BlockSize = r % BlockSize => p = r
  <2> SUFFICES ASSUME NEW p \in 0 .. c + n - 1, NEW r \in 0 .. c + n - 1,
                      BlockAt(s, p) = BlockAt(s, r), p % BlockSize = r % BlockSize
               PROVE  p = r
    OBVIOUS
  <2>1. p \div BlockSize + 1 = r \div BlockSize + 1
    BY <1>6 DEF BlockAt
  <2>2. p \in Nat /\ r \in Nat
    BY <1>1
  <2>3. p \div BlockSize \in Nat /\ r \div BlockSize \in Nat
    BY <2>2, DivMod
  <2>4. p \div BlockSize = r \div BlockSize
    <3>1. \A d, e \in Nat : d + 1 = e + 1 => d = e
      OBVIOUS
    <3> QED
      BY <2>1, <2>3, <3>1, Zenon
  <2> QED
    BY <2>2, <2>4, PlaceUnique
<1>8. \A p \in 0 .. c + n - 1 :
        kv'[BlockAt(s, p)][p % BlockSize] = hist'[s][p + 1]
  <2> SUFFICES ASSUME NEW p \in 0 .. c + n - 1
               PROVE  kv'[BlockAt(s, p)][p % BlockSize] = hist'[s][p + 1]
    OBVIOUS
  <2> DEFINE b == BlockAt(s, p)
             o == p % BlockSize
  <2>1. b \in Blocks /\ o \in Offsets
    BY <1>6
  <2>2. kv'[b][o] = IF at(b, o) = {} THEN kv[b][o]
                                     ELSE Token(s, CHOOSE r \in at(b, o) : TRUE)
    <3> HIDE DEF at, b, o
    <3> QED
      BY <1>2, <2>1
  <2>3. \A r \in at(b, o) : r = p /\ r \in new
    BY <1>1, <1>7
  <2>4. CASE p < c
    <3>1. at(b, o) = {}
      BY <1>1, <2>3, <2>4
    <3>2. p \in 0 .. c - 1
      BY <1>1, <2>4
    <3>3. kv'[b][o] = kv[b][o]
      BY <2>2, <3>1
    <3> QED
      BY <1>1, <1>5, <3>2, <3>3
  <2>5. CASE p >= c
    <3>1. p \in new
      BY <1>1, <2>5
    <3>2. p \in at(b, o)
      BY <3>1
    <3>3. (CHOOSE r \in at(b, o) : TRUE) = p
      <4> HIDE DEF at
      <4> QED
        BY <2>3, <3>2
    <3>4. kv'[b][o] = Token(s, p)
      BY <2>2, <3>2, <3>3
    <3> QED
      BY <1>5, <3>1, <3>4
  <2> QED
    BY <1>1, <2>4, <2>5
<1>9. Reads(s)' /\ Noted(s)'
  <2>1. Noted(s)'
    BY <1>3, <1>5 DEF Noted
  <2>2. \A p : BlockAt(s, p)' = BlockAt(s, p)
    BY DEF BlockAt
  <2>3. ASSUME NEW p \in 0 .. computed'[s] - 1
        PROVE  kv'[BlockAt(s, p)'][p % BlockSize] = hist'[s][p + 1]
    <3>1. p \in 0 .. c + n - 1
      <4>1. computed'[s] = c + n /\ c \in Nat
        BY <1>1, <1>3
      <4> QED
        BY <4>1
    <3>2. kv'[BlockAt(s, p)][p % BlockSize] = hist'[s][p + 1]
      BY <1>8, <3>1
    <3> QED
      BY <2>2, <3>2, Zenon
  <2>4. Reads(s)'
    BY <2>3 DEF Reads
  <2> QED
    BY <2>1, <2>4
<1>10. ASSUME NEW q \in Seqs \ {s}, NEW b \in BlocksOf(q), NEW o \in Offsets
       PROVE  kv'[b][o] = kv[b][o]
  <2>1. b \in Blocks /\ q \in Owners(b)
    BY DEF TypeOK, BlocksOf, Owners
  <2>2. at(b, o) = {}
    BY <2>1
  <2> QED
    BY <1>2, <2>1, <2>2
<1> QED
  BY <1>3, <1>9, <1>10

(* What a store by s leaves as it was, and the rest of what s then has.    *)
LEMMA StoreData ==
  ASSUME Ind, FitInd, DataInd, NEW s \in Seqs, NEW n \in Nat, HasTable(s),
         Ceil(computed[s] + n) <= Len(table[s]), StoreKV(s, n),
         UNCHANGED <<table, status>>,
         \A q \in Seqs \ {s} : q \in slotted' <=> q \in slotted,
         \A p \in computed[s] .. computed[s] + n - 1 : Owners(BlockAt(s, p)) = {s},
         PromptAlone(s)', SlotAlone(s)'
  PROVE  DataInd'
<1>1. TypeOK /\ \A i, j \in DOMAIN table[s] : table[s][i] = table[s][j] => i = j
  BY DEF Ind, NoRepeats
<1>2. /\ Reads(s)' /\ Noted(s)'
      /\ \A q \in Seqs \ {s} :
           /\ hist'[q] = hist[q] /\ computed'[q] = computed[q]
           /\ \A b \in BlocksOf(q), o \in Offsets : kv'[b][o] = kv[b][o]
      /\ DOMAIN kv' = Blocks /\ DOMAIN hist' = Seqs
  BY <1>1, StoreReads
<1>3. \A d : Owners(d)' = Owners(d)
  BY DEF Owners, BlocksOf
<1>4. \A q \in Seqs \ {s} : Undisturbed(q)
  BY <1>2, <1>3 DEF Undisturbed, Same
<1> QED
  BY <1>1, <1>2, <1>4, DataFrom DEF DataOf

LEMMA PrefillData ==
  ASSUME Ind, FitInd, DataInd, NEW s \in Seqs, NEW n \in Nat, Prefill(s, n)
  PROVE  DataInd'
<1>1. /\ TypeOK /\ Fits(s) /\ DataOf(s) /\ HasTable(s) /\ StoreKV(s, n)
      /\ n \in 1 .. PromptLen[s] - computed[s]
      /\ UNCHANGED <<table, status, slotted>>
  BY DEF Ind, FitInd, DataInd, Prefill, poolVars
<1>2. /\ computed[s] \in Nat /\ PromptLen[s] \in Nat /\ Len(table[s]) \in Nat
      /\ NumLogicBlocks(s) = Ceil(PromptLen[s]) /\ NumLogicBlocks(s) \in Nat
  BY <1>1, Numbers
<1>3. computed[s] + n \in Nat /\ computed[s] + n <= PromptLen[s] /\ computed[s] < PromptLen[s]
  BY <1>1, <1>2
<1>4. ~ PrefillDone(s) /\ s \notin slotted
  BY <1>1, <1>2, <1>3 DEF Fits, PrefillDone
<1>5. Ceil(computed[s] + n) <= Len(table[s])
  <2>1. Ceil(computed[s] + n) <= NumLogicBlocks(s) /\ Ceil(computed[s] + n) \in Nat
    BY <1>2, <1>3, CeilMonotone, CeilFacts
  <2>2. Len(table[s]) = Larger(Ceil(Tokens(s)), NumLogicBlocks(s))
    BY <1>1 DEF Fits, Size
  <2>3. Tokens(s) = computed[s] /\ Ceil(computed[s]) \in Nat
    BY <1>2, <1>4, CeilFacts DEF Tokens
  <2> QED
    BY <1>2, <2>1, <2>2, <2>3 DEF Larger
<1>6. \A i \in DOMAIN table[s] : Owners(table[s][i]) = {s}
  BY <1>1, <1>4 DEF DataOf, PromptAlone
<1>7. ASSUME NEW p \in computed[s] .. computed[s] + n - 1
      PROVE  Owners(BlockAt(s, p)) = {s}
  <2>1. p \in Nat /\ p < computed[s] + n
    BY <1>2, <1>3
  <2>2. p \div BlockSize + 1 \in DOMAIN table[s]
    BY <1>1, <1>3, <1>5, <2>1, PlaceIn
  <2> QED
    BY <1>6, <2>2 DEF BlockAt
<1>8. \A d : Owners(d)' = Owners(d)
  BY <1>1 DEF Owners, BlocksOf
<1>9. PromptAlone(s)' /\ SlotAlone(s)'
  BY <1>1, <1>4, <1>6, <1>8 DEF PromptAlone, SlotAlone
<1> QED
  BY <1>1, <1>5, <1>7, <1>9, StoreData

LEMMA DecodeData ==
  ASSUME Ind, FitInd, DataInd, NEW s \in Seqs, Decode(s) PROVE DataInd'
<1>1. /\ TypeOK /\ Fits(s) /\ DataOf(s) /\ s \in slotted /\ StoreKV(s, 1)
      /\ UNCHANGED <<table, status>> /\ slotted' = slotted \ {s}
  BY DEF Ind, FitInd, DataInd, Decode, poolVars
<1>2. HasTable(s) /\ PrefillDone(s) /\ Ceil(computed[s] + 1) <= Len(table[s])
  BY <1>1, SlottedIn DEF Fits
<1>3. computed[s] \in Nat /\ PromptLen[s] \in Nat
  BY <1>1, Numbers
<1>4. \A p \in computed[s] .. computed[s] + 1 - 1 : Owners(BlockAt(s, p)) = {s}
  <2>1. \A p \in computed[s] .. computed[s] + 1 - 1 : p = computed[s]
    BY <1>3
  <2>2. Owners(BlockAt(s, computed[s])) = {s}
    BY <1>1 DEF DataOf, SlotAlone
  <2> QED
    BY <2>1, <2>2
<1>5. PrefillDone(s)'
  <2>1. computed'[s] = computed[s] + 1
    BY <1>1 DEF StoreKV, TypeOK
  <2> QED
    BY <1>2, <1>3, <2>1 DEF PrefillDone
<1>6. PromptAlone(s)' /\ SlotAlone(s)'
  BY <1>1, <1>5 DEF PromptAlone, SlotAlone
<1> QED
  BY <1>1, <1>2, <1>4, <1>6, StoreData

LEMMA DataNext ==
  ASSUME CallerCopies, Ind, Ind', FitInd, DataInd, [Next]_vars PROVE DataInd'
<1>1. ASSUME NEW s \in Seqs, NEW n \in 1 .. PromptLen[s], Prefill(s, n) PROVE DataInd'
  <2>1. n \in Nat
    BY PromptLenAssumption
  <2> QED
    BY <1>1, <2>1, PrefillData
<1>2. CASE UNCHANGED vars
  BY <1>2 DEF vars, DataInd, DataOf, Reads, PromptAlone, SlotAlone, Noted, HasTable,
     PrefillDone, BlockAt, Owners, BlocksOf
<1> QED
  BY <1>1, <1>2, AllocateData, AllocateDoneData, GrowData, InPlaceData,
     CopyOnWriteData, ForkData, FreeData, DecodeData DEF Next

LEMMA DataInit == Init => DataInd
<1> SUFFICES ASSUME Init PROVE DataInd
  OBVIOUS
<1>1. ASSUME NEW s \in Seqs PROVE DataOf(s)
  BY DEF Init, DataOf, Reads, PromptAlone, SlotAlone, Noted, HasTable
<1> QED
  BY <1>1 DEF Init, DataInd

LEMMA ReadFromInd == TypeOK /\ FitInd /\ DataInd => ReadBack
<1> SUFFICES ASSUME TypeOK, FitInd, DataInd, NEW s \in Seqs, HasTable(s),
                    NEW p \in 0 .. computed[s] - 1
             PROVE  /\ p \div BlockSize < Len(table[s])
                    /\ kv[BlockAt(s, p)][p % BlockSize] = hist[s][p + 1]
  BY DEF ReadBack
<1>1. computed[s] \in Nat /\ p \in Nat /\ p < computed[s]
  BY Numbers
<1>2. p \div BlockSize < Len(table[s])
  BY <1>1, StoredIn, PlaceIn
<1> QED
  BY <1>2 DEF DataInd, DataOf, Reads

(* When the caller of append_slot copies the blocks it is told to copy, a  *)
(* running sequence finds every token it stored (or its parent, before a   *)
(* fork) in the cell its block table leads to, whatever is allocated,      *)
(* forked, copied and freed around it (block_manager.py 56-112, the slots  *)
(* of model_runner.py).  Without the copy it does not.                     *)
THEOREM AllReadBack == CallerCopies => (Spec => []ReadBack)
<1> SUFFICES ASSUME CallerCopies PROVE Spec => []ReadBack
  OBVIOUS
<1>1. Ind /\ FitInd /\ Ind' /\ DataInd /\ [Next]_vars => DataInd'
  BY DataNext
<1>2. Ind /\ FitInd /\ DataInd => ReadBack
  BY ReadFromInd DEF Ind
<1> QED
  BY <1>1, <1>2, DataInit, FitAlways, PTL DEF Spec
=============================================================================
