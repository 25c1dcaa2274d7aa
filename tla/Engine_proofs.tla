---------------------------- MODULE Engine_proofs ----------------------------
(***************************************************************************)
(* Theorems about Engine, for any requests, pool, batch limit and budget.  *)
(* The first ones hold whether or not append_slot ever meets an empty      *)
(* pool, the ones after the line only where it does not.                   *)
(***************************************************************************)
EXTENDS Engine, FiniteSetTheorems, TLAPS

(* A request that waits, or has not been added, has nothing yet.           *)
Untouched(r) == computed[r] = 0 /\ outLen[r] = 0 /\ held[r] = {}
WaitingInv ==
  /\ \A i, j \in DOMAIN waiting : waiting[i] = waiting[j] => i = j
  /\ Elems(waiting) \subseteq Arrived
  /\ \A r \in Elems(waiting) \cup (Requests \ Arrived) : status[r] = "WAITING"
  /\ \A r \in Requests : status[r] = "WAITING" => Untouched(r)

(* A request in prefill has the blocks of its whole prompt and no output.  *)
Started(r) ==
  /\ status[r] = "RUNNING" /\ outLen[r] = 0
  /\ Cardinality(held[r]) = NumLogicBlocks(r)
PrefillInv ==
  /\ prefilling = <<>> \/ \E r \in Requests : prefilling = <<r>>
  /\ \A r \in Elems(prefilling) : Started(r)
  /\ prefill # None =>
       /\ Started(prefill)
       /\ computed[prefill] + chunk <= PromptLen[prefill]
       /\ isLast => prefilling = <<>> /\ computed[prefill] + chunk = PromptLen[prefill]
       /\ ~ isLast => Elems(prefilling) = {prefill}

(* A request in the batch has output, and a block for every stored         *)
(* position; only the length check or EOS ends it.                         *)
RunningInv ==
  \A r \in running :
    /\ status[r] \in {"RUNNING", "FINISHED_STOPPED"}
    /\ outLen[r] > 0
    /\ Room(r, computed[r])
    /\ pc = "append" => status[r] = "RUNNING"
    /\ pc # "enforce" /\ status[r] = "RUNNING" => outLen[r] < MaxTokens

FinishedInv == \A r \in finished : status[r] = "FINISHED_ABORTED" /\ held[r] = {}

(* No block is lost or in two places.                                      *)
Partition(f, h) ==
  /\ f \cup UNION {h[r] : r \in Requests} = Blocks
  /\ \A r \in Requests : h[r] \cap f = {}
  /\ \A r, q \in Requests : r # q => h[r] \cap h[q] = {}

(* The output of schedule() lives until its forward pass is over.          *)
StepInv ==
  /\ pc = "append" => decode = running
  /\ pc # "append" => prefill = None /\ decode = {}
  /\ \A r \in decode \ todo : Room(r, computed[r] + 1)
  /\ chunk > 0 => chunk + Cardinality(decode) <= Budget

InBatch == running \cup Elems(prefilling) \cup InTransit

Ind ==
  /\ TypeOK
  /\ WaitingInv
  /\ PrefillInv
  /\ RunningInv
  /\ FinishedInv
  /\ Partition(free, held)
  /\ StepInv
  /\ PositionLaw
  /\ OutputWithinLimit
  /\ Cardinality(InBatch) <= MaxBatch
-----------------------------------------------------------------------------
(* The elements of the sequences that enqueue and dequeue make.            *)
LEMMA ElemsTyped ==
  ASSUME NEW T, NEW q \in Seq(T)
  PROVE  Elems(q) \subseteq T
BY DEF Elems

LEMMA ElemsAppend ==
  ASSUME NEW T, NEW q \in Seq(T), NEW e \in T
  PROVE  Elems(Append(q, e)) = Elems(q) \cup {e}
<1> DEFINE a == Append(q, e)
<1>1. /\ Len(q) \in Nat /\ DOMAIN q = 1 .. Len(q) /\ DOMAIN a = 1 .. Len(q) + 1
      /\ a[Len(q) + 1] = e /\ \A i \in 1 .. Len(q) : a[i] = q[i]
  OBVIOUS
<1>2. \A i \in 1 .. Len(q) + 1 : i = Len(q) + 1 \/ i \in 1 .. Len(q)
  BY <1>1
<1>3. 1 .. Len(q) \subseteq 1 .. Len(q) + 1 /\ Len(q) + 1 \in 1 .. Len(q) + 1
  BY <1>1
<1> HIDE DEF a
<1>4. Elems(a) \subseteq Elems(q) \cup {e}
  BY <1>1, <1>2 DEF Elems
<1>5. Elems(q) \cup {e} \subseteq Elems(a)
  BY <1>1, <1>3 DEF Elems
<1> QED
  BY <1>4, <1>5 DEF a

LEMMA ElemsTail ==
  ASSUME NEW T, NEW q \in Seq(T), q # <<>>,
         \A i, j \in DOMAIN q : q[i] = q[j] => i = j
  PROVE  /\ Tail(q) \in Seq(T) /\ Head(q) \in Elems(q) /\ Head(q) \in T
         /\ \A i, j \in DOMAIN Tail(q) : Tail(q)[i] = Tail(q)[j] => i = j
         /\ Elems(Tail(q)) \subseteq Elems(q) \ {Head(q)}
<1>1. /\ Len(q) \in Nat /\ Len(q) > 0 /\ DOMAIN q = 1 .. Len(q)
      /\ Tail(q) \in Seq(T) /\ DOMAIN Tail(q) = 1 .. Len(q) - 1
      /\ \A i \in 1 .. Len(q) - 1 : Tail(q)[i] = q[i + 1]
      /\ Head(q) = q[1] /\ Head(q) \in T
  OBVIOUS
<1>2. 1 \in DOMAIN q /\ \A i \in 1 .. Len(q) - 1 : i + 1 \in DOMAIN q /\ i + 1 # 1 /\ i \in Int
  BY <1>1
<1>3. \A i \in DOMAIN Tail(q) : Tail(q)[i] = q[i + 1] /\ q[i + 1] \in Elems(q) /\ q[i + 1] # q[1]
  BY <1>1, <1>2 DEF Elems
<1>4. \A i, j \in DOMAIN Tail(q) : Tail(q)[i] = Tail(q)[j] => i = j
  <2> SUFFICES ASSUME NEW i \in DOMAIN Tail(q), NEW j \in DOMAIN Tail(q),
                      Tail(q)[i] = Tail(q)[j]
               PROVE  i = j
    OBVIOUS
  <2>1. i + 1 = j + 1
    BY <1>1, <1>2
  <2> QED
    BY <1>1, <1>2, <2>1
<1>5. Elems(Tail(q)) \subseteq Elems(q) \ {Head(q)}
  BY <1>1, <1>3 DEF Elems
<1>6. Head(q) \in Elems(q)
  BY <1>1, <1>2 DEF Elems
<1> QED
  BY <1>1, <1>4, <1>5, <1>6

LEMMA ElemsOne ==
  ASSUME NEW r
  PROVE  /\ Elems(<<r>>) = {r} /\ Head(<<r>>) = r /\ Tail(<<r>>) = <<>> /\ Len(<<r>>) = 1
         /\ <<r>> # <<>>
<1>1. Elems(<<r>>) = {r}
  BY DEF Elems
<1> QED
  BY <1>1

LEMMA ElemsNone == Elems(<<>>) = {}
BY DEF Elems

(* The prompt's positions have room in the prompt's blocks, and a block    *)
(* more than c \div BlockSize has room for position c.                     *)
LEMMA PromptRoom ==
  ASSUME NEW r \in Requests
  PROVE  NumLogicBlocks(r) \in Nat /\ PromptLen[r] <= NumLogicBlocks(r) * BlockSize
BY SizesAssumption, PromptLenAssumption DEF NumLogicBlocks

LEMMA SlotRoom ==
  ASSUME NEW c \in Nat, NEW n \in Nat, c \div BlockSize < n
  PROVE  c + 1 <= n * BlockSize
<1>1. c \div BlockSize \in Nat /\ c < BlockSize * (c \div BlockSize) + BlockSize
  BY SizesAssumption
<1>2. BlockSize * (c \div BlockSize) + BlockSize = (c \div BlockSize + 1) * BlockSize
  BY <1>1, SizesAssumption
<1>3. (c \div BlockSize + 1) * BlockSize <= n * BlockSize
  BY <1>1, SizesAssumption
<1> QED
  BY <1>1, <1>2, <1>3, SizesAssumption

LEMMA RoomBlocks ==
  ASSUME NEW c \in Nat, NEW n \in Nat, c <= n * BlockSize
  PROVE  c \div BlockSize <= n
<1>1. c \div BlockSize \in Nat /\ BlockSize * (c \div BlockSize) <= c
  BY SizesAssumption
<1> QED
  BY <1>1, SizesAssumption

-----------------------------------------------------------------------------
LEMMA InitInd == Init => Ind
<1> SUFFICES ASSUME Init PROVE Ind
  OBVIOUS
<1>1. TypeOK
  <2>1. waiting \in Seq(Requests) /\ prefilling \in Seq(Requests) /\ arrived \in Seq(Requests)
    BY DEF Init
  <2> QED
    BY <2>1 DEF Init, TypeOK, Statuses
<1>2. WaitingInv
  <2>1. Elems(waiting) = {} /\ DOMAIN waiting = {}
    BY ElemsNone DEF Init
  <2> QED
    BY <2>1 DEF Init, WaitingInv, Untouched
<1>3. PrefillInv
  BY ElemsNone DEF Init, PrefillInv
<1>4. RunningInv /\ FinishedInv
  BY DEF Init, RunningInv, FinishedInv
<1>5. Partition(free, held)
  BY DEF Init, Partition
<1>6. StepInv
  BY DEF Init, StepInv
<1>7. PositionLaw /\ OutputWithinLimit
  BY PromptLenAssumption, SizesAssumption DEF Init, PositionLaw, OutputWithinLimit
<1>8. Cardinality(InBatch) <= MaxBatch
  <2>1. InBatch = {}
    BY ElemsNone DEF Init, InBatch, InTransit
  <2> QED
    BY <2>1, FS_EmptySet, SizesAssumption
<1> QED
  BY <1>1, <1>2, <1>3, <1>4, <1>5, <1>6, <1>7, <1>8 DEF Ind

LEMMA AddRequestInd ==
  ASSUME Ind, NEW r \in Requests, AddRequest(r)
  PROVE  Ind'
<1> USE DEF Ind
<1>1. /\ pc = "schedule" /\ r \notin Arrived
      /\ waiting' = Append(waiting, r) /\ arrived' = Append(arrived, r)
      /\ prefilling' = prefilling /\ running' = running /\ finished' = finished
      /\ status' = status /\ computed' = computed /\ outLen' = outLen
      /\ free' = free /\ held' = held /\ pc' = pc
      /\ prefill' = prefill /\ chunk' = chunk /\ isLast' = isLast
      /\ decode' = decode /\ todo' = todo
      /\ context' = context /\ sawEos' = sawEos
  BY DEF AddRequest, seqVars, poolVars, outVars
<1>2. waiting \in Seq(Requests) /\ arrived \in Seq(Requests)
  BY DEF TypeOK
<1>3. /\ waiting' \in Seq(Requests) /\ arrived' \in Seq(Requests)
      /\ Elems(waiting') = Elems(waiting) \cup {r}
      /\ Elems(arrived') = Arrived \cup {r}
  BY <1>1, <1>2, ElemsAppend DEF Arrived
<1>4. TypeOK'
  BY <1>1, <1>3 DEF TypeOK
<1>5. WaitingInv'
  <2>1. \A i, j \in DOMAIN waiting' : waiting'[i] = waiting'[j] => i = j
    <3>1. /\ Len(waiting) \in Nat /\ DOMAIN waiting = 1 .. Len(waiting)
          /\ DOMAIN waiting' = 1 .. Len(waiting) + 1
          /\ waiting'[Len(waiting) + 1] = r
          /\ \A i \in 1 .. Len(waiting) : waiting'[i] = waiting[i]
      BY <1>1, <1>2
    <3>2. \A i \in 1 .. Len(waiting) : waiting[i] # r
      BY <1>1, <3>1 DEF WaitingInv, Elems
    <3>3. \A i \in 1 .. Len(waiting) + 1 : i = Len(waiting) + 1 \/ i \in 1 .. Len(waiting)
      BY <3>1
    <3> QED
      BY <3>1, <3>2, <3>3 DEF WaitingInv
  <2>2. Arrived' = Arrived \cup {r}
    BY <1>3 DEF Arrived
  <2>3. Elems(waiting)' = Elems(waiting) \cup {r}
    BY <1>3
  <2>4. status[r] = "WAITING"
    BY <1>1 DEF WaitingInv
  <2> QED
    BY <1>1, <2>1, <2>2, <2>3, <2>4 DEF WaitingInv, Untouched
<1>6. PrefillInv' /\ RunningInv' /\ FinishedInv' /\ Partition(free, held)' /\ StepInv'
  BY <1>1 DEF PrefillInv, Started, NumLogicBlocks, RunningInv, Room, FinishedInv, Partition,
     StepInv, Elems
<1>7. PositionLaw' /\ OutputWithinLimit'
  BY <1>1 DEF PositionLaw, OutputWithinLimit
<1>8. Cardinality(InBatch)' <= MaxBatch
  BY <1>1 DEF InBatch, InTransit, Elems
<1> QED
  BY <1>4, <1>5, <1>6, <1>7, <1>8
-----------------------------------------------------------------------------
(* What schedule() makes of the batch before it looks for a prefill.       *)
LEMMA Cleaned ==
  ASSUME Ind, CleanAndDecode
  PROVE  /\ pc = "schedule" /\ pc' = "append" /\ prefill = None
         /\ running' = Live /\ decode' = Live /\ todo' = Live /\ finished' = finished \cup Done
         /\ computed' = computed /\ outLen' = outLen
         /\ arrived' = arrived /\ context' = context /\ sawEos' = sawEos
         /\ \A r \in Live : r \in running /\ r \in Requests /\ status[r] = "RUNNING"
         /\ \A r \in Done : r \in running /\ r \in Requests /\ status[r] = "FINISHED_STOPPED"
         /\ Live \subseteq running /\ Done \subseteq running
         /\ FreeAfterClean \subseteq Blocks
         /\ HeldAfterClean \in [Requests -> SUBSET Blocks]
         /\ StatusAfterClean \in [Requests -> Statuses]
         /\ Partition(FreeAfterClean, HeldAfterClean)
         /\ \A r \in Requests \ Done :
              HeldAfterClean[r] = held[r] /\ StatusAfterClean[r] = status[r]
         /\ \A r \in Done :
              HeldAfterClean[r] = {} /\ StatusAfterClean[r] = "FINISHED_ABORTED"
<1> USE DEF Ind
<1>1. /\ pc = "schedule" /\ pc' = "append"
      /\ running' = Live /\ decode' = Live /\ todo' = Live /\ finished' = finished \cup Done
      /\ computed' = computed /\ outLen' = outLen
      /\ arrived' = arrived /\ context' = context /\ sawEos' = sawEos
  BY DEF CleanAndDecode, ghostVars
<1>2. prefill = None
  BY <1>1 DEF StepInv
<1>3. /\ \A r \in Live : r \in running /\ r \in Requests /\ status[r] = "RUNNING"
      /\ \A r \in Done : r \in running /\ r \in Requests /\ status[r] = "FINISHED_STOPPED"
      /\ Live \subseteq running /\ Done \subseteq running
  BY DEF Live, Done, IsFinished, RunningInv, TypeOK
<1>4. \A r \in Requests \ Done :
        HeldAfterClean[r] = held[r] /\ StatusAfterClean[r] = status[r]
  BY DEF HeldAfterClean, StatusAfterClean
<1>5. \A r \in Done :
        HeldAfterClean[r] = {} /\ StatusAfterClean[r] = "FINISHED_ABORTED"
  BY <1>3 DEF HeldAfterClean, StatusAfterClean
<1>6. FreeAfterClean \subseteq Blocks
  BY <1>3 DEF FreeAfterClean, TypeOK
<1>7. HeldAfterClean \in [Requests -> SUBSET Blocks] /\ StatusAfterClean \in [Requests -> Statuses]
  BY DEF HeldAfterClean, StatusAfterClean, TypeOK, Statuses
<1>8. Partition(FreeAfterClean, HeldAfterClean)
  <2>1. \A b \in Blocks : b \in FreeAfterClean \cup UNION {HeldAfterClean[r] : r \in Requests}
    <3> SUFFICES ASSUME NEW b \in Blocks
                 PROVE  b \in FreeAfterClean \/ \E r \in Requests : b \in HeldAfterClean[r]
      OBVIOUS
    <3>1. b \in free \/ \E r \in Requests : b \in held[r]
      BY DEF Partition
    <3>2. ASSUME NEW r \in Requests, b \in held[r]
          PROVE  b \in FreeAfterClean \/ b \in HeldAfterClean[r]
      BY <1>4, <3>2 DEF FreeAfterClean
    <3> QED
      BY <3>1, <3>2 DEF FreeAfterClean
  <2>2. FreeAfterClean \cup UNION {HeldAfterClean[r] : r \in Requests} \subseteq Blocks
    BY <1>6, <1>7
  <2>3. \A r \in Requests : HeldAfterClean[r] \cap FreeAfterClean = {}
    <3> SUFFICES ASSUME NEW r \in Requests, r \notin Done
                 PROVE  held[r] \cap FreeAfterClean = {}
      BY <1>4, <1>5
    <3> QED
      BY <1>3 DEF FreeAfterClean, Partition
  <2>4. \A r, q \in Requests : r # q => HeldAfterClean[r] \cap HeldAfterClean[q] = {}
    BY <1>4, <1>5 DEF Partition
  <2>5. FreeAfterClean \cup UNION {HeldAfterClean[r] : r \in Requests} = Blocks
    BY <2>1, <2>2
  <2> QED
    BY <2>3, <2>4, <2>5 DEF Partition
<1> QED
  BY <1>1, <1>2, <1>3, <1>4, <1>5, <1>6, <1>7, <1>8

(* What every outcome of schedule() keeps, admitted being the requests     *)
(* that have left waiting.                                                 *)
LEMMA ScheduleFrame ==
  ASSUME Ind, CleanAndDecode, NEW admitted \in SUBSET Elems(waiting),
         \A r \in Requests \ admitted :
           held'[r] = HeldAfterClean[r] /\ status'[r] = StatusAfterClean[r],
         \A r \in admitted : status'[r] = "RUNNING",
         \A i, j \in DOMAIN waiting' : waiting'[i] = waiting'[j] => i = j,
         Elems(waiting') \subseteq Elems(waiting) \ admitted,
         chunk' > 0 => chunk' + Cardinality(Live) <= Budget
  PROVE  /\ WaitingInv' /\ RunningInv' /\ FinishedInv' /\ StepInv'
         /\ PositionLaw' /\ OutputWithinLimit'
<1> USE DEF Ind
<1>1. /\ pc = "schedule" /\ pc' = "append" /\ prefill = None
      /\ running' = Live /\ decode' = Live /\ todo' = Live /\ finished' = finished \cup Done
      /\ computed' = computed /\ outLen' = outLen /\ arrived' = arrived
      /\ \A r \in Live : r \in running /\ r \in Requests /\ status[r] = "RUNNING"
      /\ \A r \in Done : r \in running /\ r \in Requests /\ status[r] = "FINISHED_STOPPED"
      /\ \A r \in Requests \ Done :
           HeldAfterClean[r] = held[r] /\ StatusAfterClean[r] = status[r]
      /\ \A r \in Done :
           HeldAfterClean[r] = {} /\ StatusAfterClean[r] = "FINISHED_ABORTED"
  BY Cleaned
<1>2. \A r \in admitted : r \in Requests /\ status[r] = "WAITING" /\ r \in Arrived
  <2>1. Elems(waiting) \subseteq Requests
    BY ElemsTyped DEF TypeOK
  <2> QED
    BY <2>1 DEF WaitingInv
<1>3. WaitingInv'
  <2>1. Arrived' = Arrived
    BY <1>1 DEF Arrived, Elems
  <2>2. Elems(waiting)' \subseteq Arrived /\ Elems(waiting)' \subseteq Requests
    BY ElemsTyped DEF WaitingInv, TypeOK
  <2>3. \A r \in Elems(waiting)' \cup (Requests \ Arrived) : status'[r] = "WAITING"
    <3> SUFFICES ASSUME NEW r \in Elems(waiting)' \cup (Requests \ Arrived)
                 PROVE  status'[r] = "WAITING"
      OBVIOUS
    <3>1. r \in Requests /\ status[r] = "WAITING" /\ r \notin admitted
      BY <1>2, <2>2 DEF WaitingInv
    <3>2. r \notin Done
      BY <1>1, <3>1
    <3> QED
      BY <1>1, <3>1, <3>2
  <2>4. \A r \in Requests : status'[r] = "WAITING" => Untouched(r)'
    <3> SUFFICES ASSUME NEW r \in Requests, status'[r] = "WAITING" PROVE Untouched(r)'
      OBVIOUS
    <3>1. r \notin admitted /\ r \notin Done
      BY <1>1
    <3> QED
      BY <1>1, <3>1 DEF WaitingInv, Untouched
  <2> QED
    BY <2>1, <2>2, <2>3, <2>4 DEF WaitingInv
<1>4. RunningInv'
  <2> SUFFICES ASSUME NEW r \in Live
               PROVE  /\ status'[r] = "RUNNING" /\ outLen[r] > 0
                      /\ computed[r] <= Cardinality(held'[r]) * BlockSize
                      /\ outLen[r] < MaxTokens
    BY <1>1 DEF RunningInv, Room
  <2>1. r \in running /\ r \in Requests /\ status[r] = "RUNNING" /\ r \notin admitted
    BY <1>1, <1>2
  <2>2. held'[r] = held[r] /\ status'[r] = status[r]
    BY <1>1, <2>1
  <2>3. outLen[r] > 0 /\ outLen[r] < MaxTokens /\ Room(r, computed[r])
    BY <1>1, <2>1 DEF RunningInv
  <2> QED
    BY <2>1, <2>2, <2>3 DEF Room
<1>5. FinishedInv'
  <2> SUFFICES ASSUME NEW r \in finished \cup Done
               PROVE  status'[r] = "FINISHED_ABORTED" /\ held'[r] = {}
    BY <1>1 DEF FinishedInv
  <2>1. CASE r \in Done
    BY <1>1, <1>2, <2>1
  <2>2. CASE r \in finished
    <3>1. r \in Requests /\ status[r] = "FINISHED_ABORTED" /\ held[r] = {}
      BY <2>2 DEF FinishedInv, TypeOK
    <3> QED
      BY <1>1, <1>2, <3>1
  <2> QED
    BY <2>1, <2>2
<1>6. StepInv'
  BY <1>1 DEF StepInv
<1>7. PositionLaw' /\ OutputWithinLimit'
  BY <1>1 DEF PositionLaw, OutputWithinLimit
<1> QED
  BY <1>3, <1>4, <1>5, <1>6, <1>7


(* The batch is finite, and leaving it makes it no larger.                 *)
LEMMA BatchFinite ==
  ASSUME Ind
  PROVE  InBatch \subseteq Requests /\ IsFiniteSet(InBatch) /\ Cardinality(InBatch) \in Nat
<1>1. InBatch \subseteq Requests
  <2>1. Elems(prefilling) \subseteq Requests
    BY ElemsTyped DEF Ind, TypeOK
  <2> QED
    BY <2>1 DEF InBatch, InTransit, Ind, TypeOK
<1> QED
  BY <1>1, RequestsAssumption, FS_Subset, FS_CardinalityType

LEMMA BatchShrinks ==
  ASSUME Ind, InBatch' \subseteq InBatch
  PROVE  Cardinality(InBatch)' <= MaxBatch
<1>1. Cardinality(InBatch') <= Cardinality(InBatch) /\ Cardinality(InBatch') \in Nat
  BY BatchFinite, FS_Subset, FS_CardinalityType
<1>2. Cardinality(InBatch) <= MaxBatch /\ Cardinality(InBatch) \in Nat
  BY BatchFinite DEF Ind
<1> QED
  BY <1>1, <1>2, SizesAssumption

(* A request without output gets a chunk that its prompt has.              *)
LEMMA ChunkFits ==
  ASSUME Ind, NEW r \in Requests, outLen[r] = 0, PrefillBudget > 0, Chunk(r)
  PROVE  /\ prefill' = r /\ chunk' \in Nat /\ isLast' \in BOOLEAN
         /\ computed[r] + chunk' <= PromptLen[r]
         /\ isLast' => computed[r] + chunk' = PromptLen[r]
         /\ chunk' + Cardinality(Live) <= Budget
<1>1. IsFiniteSet(Live)
  <2>1. Live \subseteq Requests
    BY DEF Live, Ind, TypeOK
  <2> QED
    BY <2>1, RequestsAssumption, FS_Subset
<1>2. Cardinality(Live) \in Nat
  BY <1>1, FS_CardinalityType
<1>3. PrefillBudget \in Int /\ PrefillBudget + Cardinality(Live) = Budget
  BY <1>2, SizesAssumption DEF PrefillBudget
<1>4. computed[r] \in Nat /\ PromptLen[r] \in Nat /\ computed[r] <= PromptLen[r]
  BY PromptLenAssumption DEF Ind, TypeOK, PositionLaw
<1>5. /\ prefill' = r
      /\ chunk' = IF PrefillBudget < PromptLen[r] - computed[r] THEN PrefillBudget
                  ELSE PromptLen[r] - computed[r]
      /\ isLast' = (computed[r] + PrefillBudget >= PromptLen[r])
  BY DEF Chunk, Smaller
<1>6. chunk' \in Nat /\ chunk' <= PrefillBudget
  BY <1>3, <1>4, <1>5
<1>7. chunk' + Cardinality(Live) <= Budget
  BY <1>2, <1>3, <1>6, SizesAssumption
<1>8. computed[r] + chunk' <= PromptLen[r]
  BY <1>3, <1>4, <1>5
<1>9. isLast' => computed[r] + chunk' = PromptLen[r]
  <2>1. isLast' => computed[r] + PrefillBudget >= PromptLen[r]
    BY <1>5, Zenon
  <2>2. computed[r] + PrefillBudget >= PromptLen[r] => computed[r] + chunk' = PromptLen[r]
    BY <1>3, <1>4, <1>5
  <2> QED
    BY <2>1, <2>2
<1>10. isLast' \in BOOLEAN
  BY <1>5
<1> QED
  BY <1>5, <1>6, <1>7, <1>8, <1>9, <1>10

LEMMA NoPrefillInd ==
  ASSUME Ind, CleanAndDecode, NoPrefill
  PROVE  Ind'
<1> USE DEF Ind
<1>1. /\ prefill' = None /\ chunk' = 0 /\ isLast' = FALSE
      /\ free' = FreeAfterClean /\ held' = HeldAfterClean /\ status' = StatusAfterClean
      /\ waiting' = waiting /\ prefilling' = prefilling
  BY DEF NoPrefill
<1>2. /\ pc' = "append" /\ prefill = None
      /\ running' = Live /\ decode' = Live /\ todo' = Live /\ finished' = finished \cup Done
      /\ computed' = computed /\ outLen' = outLen
      /\ arrived' = arrived /\ context' = context /\ sawEos' = sawEos
      /\ Live \subseteq running /\ Done \subseteq running
      /\ FreeAfterClean \subseteq Blocks
      /\ HeldAfterClean \in [Requests -> SUBSET Blocks]
      /\ StatusAfterClean \in [Requests -> Statuses]
      /\ Partition(FreeAfterClean, HeldAfterClean)
      /\ \A r \in Done : r \in running /\ status[r] = "FINISHED_STOPPED"
      /\ \A r \in Requests \ Done :
           HeldAfterClean[r] = held[r] /\ StatusAfterClean[r] = status[r]
  BY Cleaned
<1>3. TypeOK'
  BY <1>1, <1>2 DEF TypeOK
<1>4. /\ WaitingInv' /\ RunningInv' /\ FinishedInv' /\ StepInv'
      /\ PositionLaw' /\ OutputWithinLimit'
  <2>1. {} \in SUBSET Elems(waiting) /\ Elems(waiting') \subseteq Elems(waiting) \ {}
    BY <1>1
  <2>2. \A i, j \in DOMAIN waiting' : waiting'[i] = waiting'[j] => i = j
    BY <1>1 DEF WaitingInv
  <2>3. ~(chunk' > 0)
    BY <1>1
  <2> HIDE DEF Ind
  <2> QED
    BY <1>1, <2>1, <2>2, <2>3, ScheduleFrame
<1>5. PrefillInv'
  <2>1. Elems(prefilling) \subseteq Requests
    BY ElemsTyped DEF TypeOK
  <2>2. \A r \in Elems(prefilling) : Started(r)'
    <3> SUFFICES ASSUME NEW r \in Elems(prefilling) PROVE Started(r)'
      OBVIOUS
    <3>1. r \in Requests \ Done /\ Started(r)
      BY <1>2, <2>1 DEF PrefillInv, Started
    <3> QED
      BY <1>1, <1>2, <3>1 DEF Started, NumLogicBlocks
  <2>3. Elems(prefilling)' = Elems(prefilling)
    BY <1>1
  <2> QED
    BY <1>1, <2>2, <2>3 DEF PrefillInv
<1>6. Partition(free, held)'
  BY <1>1, <1>2 DEF Partition
<1>7. Cardinality(InBatch)' <= MaxBatch
  <2>1. InBatch' \subseteq InBatch
    BY <1>1, <1>2 DEF InBatch, InTransit, Elems
  <2> QED
    BY <2>1, BatchShrinks
<1> QED
  BY <1>3, <1>4, <1>5, <1>6, <1>7

LEMMA ScheduleContinueInd ==
  ASSUME Ind, ScheduleContinue
  PROVE  Ind'
<1> USE DEF Ind
<1>1. PICK h \in Requests : prefilling = <<h>>
  BY DEF ScheduleContinue, PrefillInv
<1>2. Elems(prefilling) = {h} /\ Head(prefilling) = h /\ Tail(prefilling) = <<>>
  BY <1>1, ElemsOne
<1>3. /\ PrefillBudget > 0 /\ CleanAndDecode /\ Chunk(h)
      /\ prefilling' = IF isLast' THEN <<>> ELSE <<h>>
      /\ free' = FreeAfterClean /\ held' = HeldAfterClean /\ status' = StatusAfterClean
      /\ waiting' = waiting
  BY <1>1, <1>2 DEF ScheduleContinue
<1>4. Started(h) /\ h # None
  BY <1>2, RequestsAssumption DEF PrefillInv
<1>5. /\ prefill' = h /\ chunk' \in Nat /\ isLast' \in BOOLEAN
      /\ computed[h] + chunk' <= PromptLen[h]
      /\ isLast' => computed[h] + chunk' = PromptLen[h]
      /\ chunk' + Cardinality(Live) <= Budget
  <2>1. outLen[h] = 0
    BY <1>4 DEF Started
  <2> QED
    BY <1>3, <2>1, ChunkFits
<1>6. /\ pc' = "append" /\ prefill = None
      /\ running' = Live /\ decode' = Live /\ todo' = Live /\ finished' = finished \cup Done
      /\ computed' = computed /\ outLen' = outLen
      /\ arrived' = arrived /\ context' = context /\ sawEos' = sawEos
      /\ Live \subseteq running /\ Done \subseteq running
      /\ FreeAfterClean \subseteq Blocks
      /\ HeldAfterClean \in [Requests -> SUBSET Blocks]
      /\ StatusAfterClean \in [Requests -> Statuses]
      /\ Partition(FreeAfterClean, HeldAfterClean)
      /\ \A r \in Done : r \in running /\ status[r] = "FINISHED_STOPPED"
      /\ \A r \in Requests \ Done :
           HeldAfterClean[r] = held[r] /\ StatusAfterClean[r] = status[r]
  BY <1>3, Cleaned
<1>7. /\ prefilling' \in Seq(Requests)
      /\ isLast' => Elems(prefilling)' = {}
      /\ ~ isLast' => Elems(prefilling)' = {h}
  <2>1. CASE isLast'
    <3>1. prefilling' = <<>>
      BY <1>3, <2>1
    <3> QED
      BY <2>1, <3>1, ElemsNone
  <2>2. CASE ~ isLast'
    <3>1. prefilling' = <<h>>
      BY <1>3, <2>2
    <3>2. Elems(prefilling') = {h}
      BY <3>1, ElemsOne
    <3>3. prefilling' \in Seq(Requests)
      BY <1>1, <3>1
    <3> QED
      BY <2>2, <3>2, <3>3
  <2> QED
    BY <2>1, <2>2
<1>8. TypeOK'
  BY <1>3, <1>5, <1>6, <1>7 DEF TypeOK
<1>9. /\ WaitingInv' /\ RunningInv' /\ FinishedInv' /\ StepInv'
      /\ PositionLaw' /\ OutputWithinLimit'
  <2>1. {} \in SUBSET Elems(waiting) /\ Elems(waiting') \subseteq Elems(waiting) \ {}
    BY <1>3
  <2>2. \A i, j \in DOMAIN waiting' : waiting'[i] = waiting'[j] => i = j
    BY <1>3 DEF WaitingInv
  <2> HIDE DEF Ind
  <2> QED
    BY <1>3, <1>5, <2>1, <2>2, ScheduleFrame
<1>10. PrefillInv'
  <2>1. Started(h)'
    <3>1. h \notin Done
      BY <1>4, <1>6 DEF Started
    <3> QED
      BY <1>3, <1>4, <1>6, <3>1 DEF Started, NumLogicBlocks
  <2> QED
    BY <1>3, <1>5, <1>6, <1>7, <2>1 DEF PrefillInv, Started, NumLogicBlocks
<1>11. Partition(free, held)'
  BY <1>3, <1>6 DEF Partition
<1>12. Cardinality(InBatch)' <= MaxBatch
  <2>1. InTransit' \subseteq {h} /\ Elems(prefilling)' \subseteq {h}
    BY <1>5, <1>7 DEF InTransit
  <2>2. InBatch' \subseteq InBatch
    BY <1>2, <1>6, <2>1 DEF InBatch
  <2> QED
    BY <2>2, BatchShrinks
<1> QED
  BY <1>8, <1>9, <1>10, <1>11, <1>12

LEMMA ScheduleAdmitInd ==
  ASSUME Ind, ScheduleAdmit
  PROVE  Ind'
<1> USE DEF Ind
<1> DEFINE h == Head(waiting)
<1>1. /\ PrefillBudget > 0 /\ CleanAndDecode /\ Chunk(h) /\ Admissible(h)
      /\ prefilling = <<>> /\ waiting # <<>> /\ waiting' = Tail(waiting)
      /\ prefilling' = IF isLast' THEN <<>> ELSE <<h>>
      /\ status' = [StatusAfterClean EXCEPT ![h] = "RUNNING"]
  BY DEF ScheduleAdmit
<1>2. PICK S \in SUBSET FreeAfterClean :
        /\ Cardinality(S) = NumLogicBlocks(h)
        /\ free' = FreeAfterClean \ S
        /\ held' = [HeldAfterClean EXCEPT ![h] = S]
  BY DEF ScheduleAdmit
<1>3. /\ waiting' \in Seq(Requests) /\ h \in Elems(waiting) /\ h \in Requests
      /\ \A i, j \in DOMAIN waiting' : waiting'[i] = waiting'[j] => i = j
      /\ Elems(waiting') \subseteq Elems(waiting) \ {h}
  BY <1>1, ElemsTail DEF WaitingInv, TypeOK
<1> HIDE DEF h
<1>4. status[h] = "WAITING" /\ outLen[h] = 0 /\ computed[h] = 0 /\ held[h] = {} /\ h # None
  BY <1>3, RequestsAssumption DEF WaitingInv, Untouched
<1>5. /\ prefill' = h /\ chunk' \in Nat /\ isLast' \in BOOLEAN
      /\ computed[h] + chunk' <= PromptLen[h]
      /\ isLast' => computed[h] + chunk' = PromptLen[h]
      /\ chunk' + Cardinality(Live) <= Budget
  BY <1>1, <1>3, <1>4, ChunkFits
<1>6. /\ pc' = "append" /\ prefill = None
      /\ running' = Live /\ decode' = Live /\ todo' = Live /\ finished' = finished \cup Done
      /\ computed' = computed /\ outLen' = outLen
      /\ arrived' = arrived /\ context' = context /\ sawEos' = sawEos
      /\ Live \subseteq running /\ Done \subseteq running
      /\ FreeAfterClean \subseteq Blocks
      /\ HeldAfterClean \in [Requests -> SUBSET Blocks]
      /\ StatusAfterClean \in [Requests -> Statuses]
      /\ Partition(FreeAfterClean, HeldAfterClean)
      /\ \A r \in Done : r \in running /\ status[r] = "FINISHED_STOPPED"
      /\ \A r \in Requests \ Done :
           HeldAfterClean[r] = held[r] /\ StatusAfterClean[r] = status[r]
  BY <1>1, Cleaned
<1>7. /\ prefilling' \in Seq(Requests)
      /\ isLast' => Elems(prefilling)' = {}
      /\ ~ isLast' => Elems(prefilling)' = {h}
  <2>1. CASE isLast'
    <3>1. prefilling' = <<>>
      BY <1>1, <2>1
    <3> QED
      BY <2>1, <3>1, ElemsNone
  <2>2. CASE ~ isLast'
    <3>1. prefilling' = <<h>>
      BY <1>1, <2>2
    <3>2. Elems(prefilling') = {h}
      BY <3>1, ElemsOne
    <3>3. prefilling' \in Seq(Requests)
      BY <1>3, <3>1
    <3> QED
      BY <2>2, <3>2, <3>3
  <2> QED
    BY <2>1, <2>2
<1>8. /\ held'[h] = S /\ status'[h] = "RUNNING"
      /\ \A r \in Requests \ {h} : held'[r] = HeldAfterClean[r] /\ status'[r] = StatusAfterClean[r]
      /\ held' \in [Requests -> SUBSET Blocks] /\ status' \in [Requests -> Statuses]
  BY <1>1, <1>2, <1>3, <1>6 DEF Statuses
<1>9. TypeOK'
  BY <1>2, <1>3, <1>5, <1>6, <1>7, <1>8 DEF TypeOK
<1>10. /\ WaitingInv' /\ RunningInv' /\ FinishedInv' /\ StepInv'
       /\ PositionLaw' /\ OutputWithinLimit'
  <2>1. {h} \in SUBSET Elems(waiting)
    BY <1>3
  <2> HIDE DEF Ind
  <2> QED
    BY <1>1, <1>3, <1>5, <1>8, <2>1, ScheduleFrame
<1>11. PrefillInv'
  <2>1. status'[h] = "RUNNING" /\ outLen'[h] = 0 /\ held'[h] = S
    BY <1>4, <1>6, <1>8
  <2>2. Cardinality(held'[h]) = NumLogicBlocks(h)
    BY <1>2, <2>1
  <2>3. \A r : r = h => Started(r)'
    BY <2>1, <2>2 DEF Started, NumLogicBlocks
  <2>4. \A r \in Elems(prefilling)' : Started(r)'
    BY <1>7, <2>3
  <2>5. prefilling' = <<>> \/ \E r \in Requests : prefilling' = <<r>>
    BY <1>1, <1>3
  <2>6. Started(prefill)'
    BY <1>5, <2>1, <2>2 DEF Started, NumLogicBlocks
  <2>7. isLast' => prefilling' = <<>>
    BY <1>1
  <2>8. computed'[prefill'] + chunk' = computed[h] + chunk'
    BY <1>5, <1>6
  <2>9. /\ computed'[prefill'] + chunk' <= PromptLen[prefill']
        /\ isLast' => computed'[prefill'] + chunk' = PromptLen[prefill']
        /\ ~ isLast' => Elems(prefilling)' = {prefill'}
    BY <1>5, <1>7, <2>8
  <2> QED
    BY <2>4, <2>5, <2>6, <2>7, <2>9 DEF PrefillInv
<1>12. Partition(free, held)'
  <2>1. HeldAfterClean[h] = {}
    <3>1. h \notin Done
      BY <1>4, <1>6
    <3> QED
      BY <1>3, <1>4, <1>6, <3>1
  <2>2. free' \cup UNION {held'[r] : r \in Requests} = Blocks
    <3>1. \A b \in Blocks : b \in free' \/ \E r \in Requests : b \in held'[r]
      <4> SUFFICES ASSUME NEW b \in Blocks
                   PROVE  b \in free' \/ \E r \in Requests : b \in held'[r]
        OBVIOUS
      <4>1. b \in FreeAfterClean \/ \E r \in Requests : b \in HeldAfterClean[r]
        BY <1>6 DEF Partition
      <4>2. CASE b \in FreeAfterClean
        BY <1>2, <1>3, <1>8, <4>2
      <4>3. ASSUME NEW r \in Requests, b \in HeldAfterClean[r] PROVE b \in held'[r]
        BY <1>8, <2>1, <4>3
      <4> QED
        BY <4>1, <4>2, <4>3
    <3>2. free' \subseteq Blocks /\ \A r \in Requests : held'[r] \subseteq Blocks
      BY <1>2, <1>6, <1>8
    <3> QED
      BY <3>1, <3>2
  <2>3. \A r \in Requests : held'[r] \cap free' = {}
    BY <1>2, <1>6, <1>8 DEF Partition
  <2>4. \A r, q \in Requests : r # q => held'[r] \cap held'[q] = {}
    BY <1>2, <1>6, <1>8 DEF Partition
  <2> QED
    BY <2>2, <2>3, <2>4 DEF Partition
<1>13. Cardinality(InBatch)' <= MaxBatch
  <2>1. InBatch' = Live \cup {h}
    BY <1>5, <1>6, <1>7, <1>4 DEF InBatch, InTransit
  <2>2. IsFiniteSet(Live) /\ Cardinality(Live) \in Nat
    <3>1. Live \subseteq Requests
      BY DEF Live, TypeOK
    <3>2. IsFiniteSet(Live)
      BY <3>1, RequestsAssumption, FS_Subset
    <3> QED
      BY <3>2, FS_CardinalityType
  <2>3. Cardinality(Live) < MaxBatch
    BY <1>1 DEF Admissible
  <2>4. Cardinality(Live \cup {h}) \in {Cardinality(Live), Cardinality(Live) + 1}
    BY <2>2, FS_AddElement
  <2> QED
    BY <2>1, <2>2, <2>3, <2>4, SizesAssumption
<1> QED
  BY <1>9, <1>10, <1>11, <1>12, <1>13

LEMMA ScheduleInd ==
  ASSUME Ind, Schedule
  PROVE  Ind'
<1>1. CASE ScheduleNoBudget
  BY <1>1, NoPrefillInd DEF ScheduleNoBudget
<1>2. CASE ScheduleNoCandidate
  BY <1>2, NoPrefillInd DEF ScheduleNoCandidate
<1> QED
  BY <1>1, <1>2, ScheduleContinueInd, ScheduleAdmitInd DEF Schedule

-----------------------------------------------------------------------------
LEMMA HeldFinite ==
  ASSUME Ind, NEW r \in Requests
  PROVE  IsFiniteSet(held[r]) /\ Cardinality(held[r]) \in Nat
<1>1. held[r] \subseteq Blocks
  BY DEF Ind, TypeOK
<1> QED
  BY <1>1, BlocksAssumption, FS_Subset, FS_CardinalityType

(* During a step, who decodes is in the batch and has output; who is       *)
(* prefilled has none.                                                     *)
LEMMA Decoding ==
  ASSUME Ind, pc = "append", NEW r \in decode
  PROVE  /\ r \in Requests /\ r \in running /\ status[r] = "RUNNING"
         /\ outLen[r] \in Nat /\ outLen[r] > 0 /\ outLen[r] < MaxTokens
         /\ computed[r] \in Nat /\ computed[r] = PromptLen[r] + outLen[r] - 1
         /\ r # prefill /\ r \notin Elems(prefilling)
<1> USE DEF Ind
<1>1. r \in Requests /\ r \in running
  BY DEF StepInv, TypeOK
<1>2. status[r] = "RUNNING" /\ outLen[r] > 0 /\ outLen[r] < MaxTokens
  BY <1>1 DEF RunningInv
<1>3. outLen[r] \in Nat /\ computed[r] \in Nat
  BY <1>1 DEF TypeOK
<1>4. computed[r] = PromptLen[r] + outLen[r] - 1
  BY <1>1, <1>2, <1>3 DEF PositionLaw
<1>5. r # prefill /\ r \notin Elems(prefilling)
  <2>1. r # None
    BY <1>1, RequestsAssumption
  <2>2. outLen[r] # 0
    BY <1>2, <1>3
  <2> QED
    BY <2>1, <2>2 DEF PrefillInv, Started
<1> QED
  BY <1>1, <1>2, <1>3, <1>4, <1>5

LEMMA AppendSlotInd ==
  ASSUME Ind, NEW r \in Requests, AppendSlot(r)
  PROVE  Ind'
<1> USE DEF Ind
<1>1. /\ pc = "append" /\ pc' = pc /\ r \in todo /\ todo' = todo \ {r}
      /\ waiting' = waiting /\ prefilling' = prefilling /\ running' = running
      /\ finished' = finished /\ status' = status /\ computed' = computed
      /\ outLen' = outLen /\ prefill' = prefill /\ chunk' = chunk /\ isLast' = isLast
      /\ decode' = decode /\ arrived' = arrived /\ context' = context /\ sawEos' = sawEos
  BY DEF AppendSlot, queueVars, seqVars, ghostVars
<1>2. r \in decode
  BY <1>1 DEF TypeOK
<1>3. /\ r \in running /\ status[r] = "RUNNING" /\ computed[r] \in Nat
      /\ r # prefill /\ r \notin Elems(prefilling)
  BY <1>1, <1>2, Decoding
<1>4. IsFiniteSet(held[r]) /\ Cardinality(held[r]) \in Nat
  BY HeldFinite
<1>5. computed[r] \div BlockSize \in Nat /\ computed[r] \div BlockSize <= Cardinality(held[r])
  <2>1. computed[r] <= Cardinality(held[r]) * BlockSize
    BY <1>3 DEF RunningInv, Room
  <2>2. computed[r] \div BlockSize \in Nat
    BY <1>3, SizesAssumption
  <2> QED
    BY <1>3, <1>4, <2>1, <2>2, RoomBlocks
<1>6. /\ free' \subseteq Blocks /\ held' \in [Requests -> SUBSET Blocks]
      /\ \A q \in Requests \ {r} : held'[q] = held[q]
      /\ Partition(free, held)'
      /\ Cardinality(held'[r]) \in Nat /\ Cardinality(held[r]) <= Cardinality(held'[r])
      /\ computed[r] \div BlockSize < Cardinality(held'[r])
  <2>1. CASE NeedsBlock(r)
    <3>1. PICK b \in free : free' = free \ {b} /\ held' = [held EXCEPT ![r] = @ \cup {b}]
      BY <2>1 DEF AppendSlot
    <3>2. /\ b \in Blocks /\ b \notin held[r] /\ held'[r] = held[r] \cup {b}
          /\ \A q \in Requests \ {r} : held'[q] = held[q] /\ b \notin held[q]
      BY <3>1 DEF TypeOK, Partition
    <3>3. Cardinality(held'[r]) = Cardinality(held[r]) + 1
      BY <1>4, <3>2, FS_AddElement
    <3>4. free' \subseteq Blocks /\ held' \in [Requests -> SUBSET Blocks]
      BY <3>1, <3>2 DEF TypeOK
    <3>5. Partition(free, held)'
      <4>1. free' \cup UNION {held'[q] : q \in Requests} = Blocks
        <5>1. \A x \in Blocks : x \in free' \/ \E q \in Requests : x \in held'[q]
          <6> SUFFICES ASSUME NEW x \in Blocks
                       PROVE  x \in free' \/ \E q \in Requests : x \in held'[q]
            OBVIOUS
          <6>1. x \in free \/ \E q \in Requests : x \in held[q]
            BY DEF Partition
          <6> QED
            BY <3>1, <3>2, <6>1
        <5> QED
          BY <3>4, <5>1
      <4>2. \A q \in Requests : held'[q] \cap free' = {}
        BY <3>1, <3>2 DEF Partition
      <4>3. \A q, x \in Requests : q # x => held'[q] \cap held'[x] = {}
        BY <3>2 DEF Partition
      <4> QED
        BY <4>1, <4>2, <4>3 DEF Partition
    <3> QED
      BY <1>4, <1>5, <3>2, <3>3, <3>4, <3>5
  <2>2. CASE ~ NeedsBlock(r)
    <3>1. free' = free /\ held' = held
      BY <2>2 DEF AppendSlot, poolVars
    <3>2. computed[r] \div BlockSize < Cardinality(held[r])
      BY <1>4, <1>5, <2>2 DEF NeedsBlock
    <3> QED
      BY <1>4, <3>1, <3>2 DEF TypeOK, Partition
  <2> QED
    BY <2>1, <2>2
<1>7. TypeOK'
  BY <1>1, <1>6 DEF TypeOK
<1>8. WaitingInv'
  <2>1. \A q \in Requests : status[q] = "WAITING" => held'[q] = held[q]
    BY <1>3, <1>6
  <2> QED
    BY <1>1, <2>1 DEF WaitingInv, Untouched, Arrived, Elems
<1>9. PrefillInv'
  <2>1. Elems(prefilling) \subseteq Requests
    BY ElemsTyped DEF TypeOK
  <2>2. \A q \in Elems(prefilling) : q \in Requests /\ held'[q] = held[q]
    BY <1>3, <1>6, <2>1
  <2>3. prefill # None => held'[prefill] = held[prefill]
    BY <1>3, <1>6 DEF TypeOK
  <2>4. \A q \in Elems(prefilling) : Started(q)'
    BY <1>1, <2>2 DEF PrefillInv, Started, NumLogicBlocks
  <2>5. prefill # None => Started(prefill)'
    BY <1>1, <2>3 DEF PrefillInv, Started, NumLogicBlocks
  <2> QED
    BY <1>1, <2>4, <2>5 DEF PrefillInv
<1>10. \A q \in Requests : \A n \in Nat : Room(q, n) => Room(q, n)'
  <2> SUFFICES ASSUME NEW n \in Nat, Room(r, n) PROVE Room(r, n)'
    BY <1>6 DEF Room
  <2>1. Cardinality(held[r]) * BlockSize <= Cardinality(held'[r]) * BlockSize
    BY <1>4, <1>6, SizesAssumption
  <2>2. /\ Cardinality(held[r]) * BlockSize \in Nat
        /\ Cardinality(held'[r]) * BlockSize \in Nat
    BY <1>4, <1>6, SizesAssumption
  <2>3. n <= Cardinality(held[r]) * BlockSize
    BY DEF Room
  <2>4. n <= Cardinality(held'[r]) * BlockSize
    BY <2>1, <2>2, <2>3
  <2> QED
    BY <2>4 DEF Room
<1>11. RunningInv'
  <2> SUFFICES ASSUME NEW q \in running PROVE Room(q, computed[q])'
    BY <1>1 DEF RunningInv, Room
  <2>1. q \in Requests /\ computed[q] \in Nat /\ Room(q, computed[q])
    BY DEF RunningInv, TypeOK
  <2> QED
    BY <1>1, <1>10, <2>1 DEF Room
<1>12. FinishedInv'
  <2>1. \A q \in finished : q \in Requests /\ held'[q] = held[q]
    BY <1>3, <1>6 DEF FinishedInv, TypeOK
  <2> QED
    BY <1>1, <2>1 DEF FinishedInv
<1>13. StepInv'
  <2>1. Room(r, computed[r] + 1)'
    BY <1>1, <1>3, <1>6, SlotRoom DEF Room
  <2>2. \A q \in decode \ todo' : Room(q, computed[q] + 1)'
    <3> SUFFICES ASSUME NEW q \in decode \ todo', q # r PROVE Room(q, computed[q] + 1)'
      BY <2>1
    <3>1. q \in Requests /\ computed[q] + 1 \in Nat /\ Room(q, computed[q] + 1)
      BY <1>1 DEF StepInv, TypeOK
    <3> QED
      BY <1>1, <1>10, <3>1 DEF Room
  <2> QED
    BY <1>1, <2>2 DEF StepInv, Room
<1>14. PositionLaw' /\ OutputWithinLimit'
  BY <1>1 DEF PositionLaw, OutputWithinLimit
<1>15. Cardinality(InBatch)' <= MaxBatch
  BY <1>1 DEF InBatch, InTransit, Elems
<1> QED
  BY <1>6, <1>7, <1>8, <1>9, <1>11, <1>12, <1>13, <1>14, <1>15

(* A step that ends before its forward pass: a last chunk is dropped.      *)
LEMMA StepEndsInd ==
  ASSUME Ind, pc = "append", pc' \in {"schedule", "enforce"},
         UNCHANGED <<queueVars, seqVars, poolVars, ghostVars>>,
         prefill' = None, chunk' = 0, isLast' = FALSE, decode' = {}, todo' = {}
  PROVE  Ind'
<1> USE DEF Ind
<1>1. /\ waiting' = waiting /\ prefilling' = prefilling /\ running' = running
      /\ finished' = finished /\ status' = status /\ computed' = computed
      /\ outLen' = outLen /\ free' = free /\ held' = held
      /\ arrived' = arrived /\ context' = context /\ sawEos' = sawEos
  BY DEF queueVars, seqVars, poolVars, ghostVars
<1>2. TypeOK'
  BY <1>1 DEF TypeOK
<1>3. WaitingInv' /\ PrefillInv' /\ FinishedInv' /\ Partition(free, held)'
  BY <1>1 DEF WaitingInv, Untouched, Arrived, Elems, PrefillInv, Started, NumLogicBlocks,
     FinishedInv, Partition
<1>4. RunningInv'
  BY <1>1 DEF RunningInv, Room
<1>5. StepInv'
  BY DEF StepInv
<1>6. PositionLaw' /\ OutputWithinLimit'
  BY <1>1 DEF PositionLaw, OutputWithinLimit
<1>7. Cardinality(InBatch)' <= MaxBatch
  <2>1. InBatch' \subseteq InBatch
    BY <1>1 DEF InBatch, InTransit, Elems
  <2> QED
    BY <2>1, BatchShrinks
<1> QED
  BY <1>2, <1>3, <1>4, <1>5, <1>6, <1>7

LEMMA EnforceInd ==
  ASSUME Ind, Enforce
  PROVE  Ind'
<1> USE DEF Ind
<1>1. /\ pc = "enforce" /\ pc' = "schedule"
      /\ status' = [r \in Requests |->
           IF r \in running /\ status[r] = "RUNNING" /\ AtLimit(r)
           THEN "FINISHED_STOPPED" ELSE status[r]]
      /\ waiting' = waiting /\ prefilling' = prefilling /\ running' = running
      /\ finished' = finished /\ computed' = computed /\ outLen' = outLen
      /\ free' = free /\ held' = held /\ prefill' = prefill /\ chunk' = chunk
      /\ isLast' = isLast /\ decode' = decode /\ todo' = todo
      /\ arrived' = arrived /\ context' = context /\ sawEos' = sawEos
  BY DEF Enforce, queueVars, poolVars, outVars, ghostVars
<1>2. prefill = None /\ decode = {}
  BY <1>1 DEF StepInv
<1>3. \A r \in Requests : \/ status'[r] = status[r]
                          \/ r \in running /\ status[r] = "RUNNING" /\ status'[r] = "FINISHED_STOPPED"
  BY <1>1
<1>4. TypeOK'
  <2>1. status' \in [Requests -> Statuses]
    BY <1>1 DEF TypeOK, Statuses
  <2> QED
    BY <1>1, <2>1 DEF TypeOK
<1>5. WaitingInv'
  <2>1. \A r \in Elems(waiting) \cup (Requests \ Arrived) : r \in Requests
    BY ElemsTyped DEF TypeOK
  <2> QED
    BY <1>1, <1>3, <2>1 DEF WaitingInv, Untouched, Arrived, Elems
<1>6. PrefillInv'
  <2>1. Elems(prefilling) \subseteq Requests
    BY ElemsTyped DEF TypeOK
  <2>2. \A r \in Elems(prefilling) : r \notin running
    <3> SUFFICES ASSUME NEW r \in Elems(prefilling), r \in running PROVE FALSE
      OBVIOUS
    <3>1. outLen[r] = 0 /\ outLen[r] > 0
      BY DEF PrefillInv, Started, RunningInv
    <3> QED
      BY <3>1
  <2>3. \A r \in Elems(prefilling) : Started(r)'
    BY <1>1, <2>1, <2>2 DEF PrefillInv, Started, NumLogicBlocks
  <2> QED
    BY <1>1, <1>2, <2>3 DEF PrefillInv
<1>7. RunningInv'
  <2> SUFFICES ASSUME NEW r \in running
               PROVE  /\ status'[r] \in {"RUNNING", "FINISHED_STOPPED"}
                      /\ outLen[r] > 0 /\ Room(r, computed[r])
                      /\ status'[r] = "RUNNING" => outLen[r] < MaxTokens
    BY <1>1 DEF RunningInv, Room
  <2>1. r \in Requests /\ outLen[r] \in Nat
    BY DEF TypeOK
  <2>2. status'[r] = "RUNNING" => status[r] = "RUNNING" /\ ~ AtLimit(r)
    BY <1>1, <2>1
  <2>3. ~ AtLimit(r) => outLen[r] < MaxTokens
    BY <2>1, SizesAssumption DEF AtLimit
  <2> QED
    BY <1>3, <2>1, <2>2, <2>3 DEF RunningInv
<1>8. FinishedInv'
  <2>1. \A r \in finished : r \in Requests /\ status'[r] = status[r]
    BY <1>3 DEF FinishedInv, TypeOK
  <2> QED
    BY <1>1, <2>1 DEF FinishedInv
<1>9. Partition(free, held)' /\ StepInv'
  BY <1>1, <1>2 DEF Partition, StepInv, Room
<1>10. PositionLaw' /\ OutputWithinLimit'
  BY <1>1 DEF PositionLaw, OutputWithinLimit
<1>11. Cardinality(InBatch)' <= MaxBatch
  BY <1>1 DEF InBatch, InTransit, Elems
<1> QED
  BY <1>4, <1>5, <1>6, <1>7, <1>8, <1>9, <1>10, <1>11


LEMMA ForwardInd ==
  ASSUME Ind, Forward
  PROVE  Ind'
<1> USE DEF Ind
<1> DEFINE first == InTransit
<1>1. /\ pc = "append" /\ todo = {} /\ pc' = "enforce"
      /\ computed' = [r \in Requests |-> computed[r] + Stored(r)]
      /\ outLen' = [r \in Requests |->
           IF r \in first \cup decode THEN outLen[r] + 1 ELSE outLen[r]]
      /\ context' = [r \in Requests |-> IF r \in first THEN chunk ELSE context[r]]
      /\ running' = running \cup first
      /\ prefill' = None /\ chunk' = 0 /\ isLast' = FALSE /\ decode' = {} /\ todo' = todo
      /\ waiting' = waiting /\ prefilling' = prefilling /\ finished' = finished
      /\ free' = free /\ held' = held /\ arrived' = arrived
  BY DEF Forward, InTransit, poolVars
<1>2. PICK eos \in SUBSET (first \cup decode) :
        /\ sawEos' = sawEos \cup eos
        /\ status' = [r \in Requests |->
             IF r \in eos \cap decode THEN "FINISHED_STOPPED" ELSE status[r]]
  BY DEF Forward, InTransit
<1>3. ASSUME NEW r \in first
      PROVE  /\ r \in Requests /\ r = prefill /\ r \notin decode /\ prefilling = <<>>
             /\ status[r] = "RUNNING" /\ outLen[r] = 0
             /\ Cardinality(held[r]) = NumLogicBlocks(r)
             /\ computed[r] + chunk = PromptLen[r]
  <2>1. prefill # None /\ isLast /\ r = prefill
    BY <1>3 DEF InTransit
  <2>2. r \in Requests
    BY <2>1 DEF TypeOK
  <2>3. r \notin decode
    <3> SUFFICES ASSUME r \in decode PROVE FALSE
      OBVIOUS
    <3> QED
      BY <1>1, <2>1, Decoding
  <2> QED
    BY <2>1, <2>2, <2>3 DEF PrefillInv, Started
<1>4. ASSUME NEW r \in decode
      PROVE  /\ r \in Requests /\ r \in running /\ status[r] = "RUNNING"
             /\ outLen[r] \in Nat /\ outLen[r] > 0 /\ outLen[r] < MaxTokens
             /\ computed[r] \in Nat /\ computed[r] = PromptLen[r] + outLen[r] - 1
             /\ r # prefill /\ r \notin Elems(prefilling)
             /\ Room(r, computed[r] + 1)
  <2>1. Room(r, computed[r] + 1)
    BY <1>1 DEF StepInv
  <2> QED
    BY <1>1, <1>4, <2>1, Decoding
<1>5. first \subseteq Requests /\ decode \subseteq Requests /\ decode = running
  BY <1>1, <1>3 DEF StepInv, TypeOK
<1> HIDE DEF first
<1>6. /\ \A r \in first : outLen'[r] = 1 /\ computed'[r] = PromptLen[r]
      /\ \A r \in decode : outLen'[r] = outLen[r] + 1 /\ computed'[r] = computed[r] + 1
      /\ \A r \in Requests \ (first \cup decode) : outLen'[r] = outLen[r]
      /\ \A r \in Requests \ decode : r # prefill => computed'[r] = computed[r]
  <2>1. \A r \in first : outLen'[r] = 1 /\ computed'[r] = PromptLen[r]
    BY <1>1, <1>3 DEF Stored
  <2>2. \A r \in decode : outLen'[r] = outLen[r] + 1 /\ computed'[r] = computed[r] + 1
    BY <1>1, <1>4 DEF Stored
  <2>3. \A r \in Requests \ (first \cup decode) : outLen'[r] = outLen[r]
    BY <1>1
  <2>4. \A r \in Requests \ decode : r # prefill => computed'[r] = computed[r]
    BY <1>1 DEF Stored, TypeOK
  <2> QED
    BY <2>1, <2>2, <2>3, <2>4
<1>7. /\ \A r \in decode : status'[r] \in {"RUNNING", "FINISHED_STOPPED"}
      /\ \A r \in Requests \ decode : status'[r] = status[r]
  BY <1>2, <1>4, <1>5
<1>8. TypeOK'
  <2>1. computed' \in [Requests -> Nat]
    <3>1. \A r \in Requests : Stored(r) \in Nat
      BY DEF Stored, TypeOK
    <3>2. \A r \in Requests : computed[r] + Stored(r) \in Nat
      BY <3>1 DEF TypeOK
    <3> QED
      BY <1>1, <3>2
  <2>2. outLen' \in [Requests -> Nat] /\ context' \in [Requests -> Nat]
    BY <1>1 DEF TypeOK
  <2>3. status' \in [Requests -> Statuses]
    BY <1>2 DEF TypeOK, Statuses
  <2>4. running' \subseteq Requests /\ sawEos' \subseteq Requests
    BY <1>1, <1>2, <1>5 DEF TypeOK
  <2> QED
    BY <1>1, <2>1, <2>2, <2>3, <2>4 DEF TypeOK
<1>9. WaitingInv'
  <2>1. ASSUME NEW r \in Requests, status[r] = "WAITING"
        PROVE  /\ r \notin first /\ r \notin decode /\ r # prefill
               /\ computed'[r] = computed[r] /\ outLen'[r] = outLen[r]
               /\ held'[r] = held[r] /\ status'[r] = status[r]
    <3>1. r \notin first /\ r \notin decode
      BY <1>3, <1>4, <2>1
    <3>2. r # prefill
      BY <2>1, RequestsAssumption DEF PrefillInv, Started
    <3> QED
      BY <1>1, <1>6, <1>7, <3>1, <3>2
  <2>2. \A r \in Requests : status'[r] = "WAITING" => status[r] = "WAITING"
    BY <1>7
  <2>3. \A r \in Elems(waiting) \cup (Requests \ Arrived) : r \in Requests
    BY ElemsTyped DEF TypeOK
  <2>4. Elems(waiting)' = Elems(waiting) /\ Arrived' = Arrived
    BY <1>1 DEF Elems, Arrived
  <2>5. \A r \in Requests : status'[r] = "WAITING" => Untouched(r)'
    BY <2>1, <2>2 DEF WaitingInv, Untouched
  <2>6. \A r \in Elems(waiting) \cup (Requests \ Arrived) : status'[r] = "WAITING"
    BY <2>1, <2>3 DEF WaitingInv
  <2> QED
    BY <1>1, <2>4, <2>5, <2>6 DEF WaitingInv
<1>10. PrefillInv'
  <2>1. \A r \in Elems(prefilling) : Started(r)'
    <3> SUFFICES ASSUME NEW r \in Elems(prefilling) PROVE Started(r)'
      OBVIOUS
    <3>1. r \in Requests /\ Started(r)
      BY ElemsTyped DEF PrefillInv, TypeOK
    <3>2. r \notin first
      BY <1>3, ElemsNone
    <3>3. r \notin decode
      BY <1>4
    <3> QED
      BY <1>1, <1>6, <1>7, <3>1, <3>2, <3>3 DEF Started, NumLogicBlocks
  <2> QED
    BY <1>1, <2>1 DEF PrefillInv
<1>11. RunningInv'
  <2> SUFFICES ASSUME NEW r \in decode \cup first
               PROVE  /\ status'[r] \in {"RUNNING", "FINISHED_STOPPED"}
                      /\ outLen'[r] > 0
                      /\ computed'[r] <= Cardinality(held[r]) * BlockSize
    BY <1>1, <1>5 DEF RunningInv, Room
  <2>1. CASE r \in decode
    BY <1>4, <1>6, <1>7, <2>1 DEF Room
  <2>2. CASE r \in first
    <3>1. status'[r] = "RUNNING" /\ outLen'[r] = 1 /\ computed'[r] = PromptLen[r]
      BY <1>3, <1>6, <1>7, <2>2
    <3>2. PromptLen[r] <= Cardinality(held[r]) * BlockSize
      BY <1>3, <2>2, PromptRoom
    <3> QED
      BY <3>1, <3>2
  <2> QED
    BY <2>1, <2>2
<1>12. FinishedInv'
  <2>1. \A r \in finished : r \in Requests /\ r \notin decode
    BY <1>4 DEF FinishedInv, TypeOK
  <2> QED
    BY <1>1, <1>7, <2>1 DEF FinishedInv
<1>13. Partition(free, held)' /\ StepInv'
  BY <1>1 DEF Partition, StepInv
<1>14. PositionLaw'
  <2> SUFFICES ASSUME NEW r \in Requests
               PROVE  IF outLen'[r] = 0 THEN computed'[r] <= PromptLen[r]
                      ELSE computed'[r] = PromptLen[r] + outLen'[r] - 1
    BY DEF PositionLaw
  <2>1. PromptLen[r] \in Nat
    BY PromptLenAssumption
  <2>2. CASE r \in decode
    BY <1>4, <1>6, <2>1, <2>2
  <2>3. CASE r \in first
    BY <1>6, <2>1, <2>3
  <2>4. CASE r \notin decode /\ r \notin first /\ r # prefill
    BY <1>6, <2>4 DEF PositionLaw
  <2>5. CASE r \notin decode /\ r \notin first /\ r = prefill
    <3>1. prefill # None
      BY <2>5, RequestsAssumption
    <3>2. outLen[r] = 0 /\ computed[r] + chunk <= PromptLen[r]
      BY <2>5, <3>1 DEF PrefillInv, Started
    <3>3. computed'[r] = computed[r] + chunk /\ outLen'[r] = outLen[r]
      BY <1>1, <1>6, <2>5 DEF Stored
    <3> QED
      BY <3>2, <3>3
  <2> QED
    BY <2>2, <2>3, <2>4, <2>5
<1>15. OutputWithinLimit'
  <2> SUFFICES ASSUME NEW r \in Requests PROVE outLen'[r] <= MaxTokens
    BY DEF OutputWithinLimit
  <2>1. CASE r \in decode
    BY <1>4, <1>6, <2>1, SizesAssumption
  <2>2. CASE r \in first
    BY <1>6, <2>2, SizesAssumption
  <2>3. CASE r \notin decode /\ r \notin first
    BY <1>6, <2>3 DEF OutputWithinLimit
  <2> QED
    BY <2>1, <2>2, <2>3
<1>16. Cardinality(InBatch)' <= MaxBatch
  <2>1. InBatch' \subseteq InBatch
    BY <1>1 DEF InBatch, InTransit, Elems, first
  <2> QED
    BY <2>1, BatchShrinks
<1> QED
  BY <1>8, <1>9, <1>10, <1>11, <1>12, <1>13, <1>14, <1>15, <1>16

LEMMA NextInd == Ind /\ [Next]_vars => Ind'
<1> SUFFICES ASSUME Ind, [Next]_vars PROVE Ind'
  OBVIOUS
<1>1. CASE Schedule
  BY <1>1, ScheduleInd
<1>2. CASE \E r \in Requests : AppendSlot(r)
  BY <1>2, AppendSlotInd
<1>3. CASE \E r \in Requests : AppendOOM(r)
  BY <1>3, StepEndsInd DEF AppendOOM
<1>4. CASE StepIdle
  BY <1>4, StepEndsInd DEF StepIdle
<1>5. CASE Forward
  BY <1>5, ForwardInd
<1>6. CASE Enforce
  BY <1>6, EnforceInd
<1>7. CASE \E r \in Requests : AddRequest(r)
  BY <1>7, AddRequestInd
<1>8. CASE UNCHANGED vars
  <2> USE <1>8 DEF Ind, vars, queueVars, poolVars, seqVars, outVars, ghostVars
  <2>1. TypeOK'
    BY DEF TypeOK
  <2>2. WaitingInv' /\ PrefillInv' /\ FinishedInv' /\ Partition(free, held)'
    <3>1. WaitingInv'
      BY DEF WaitingInv, Untouched, Arrived, Elems
    <3>2. PrefillInv'
      BY DEF PrefillInv, Started, NumLogicBlocks, Elems
    <3>3. FinishedInv' /\ Partition(free, held)'
      BY DEF FinishedInv, Partition
    <3> QED
      BY <3>1, <3>2, <3>3
  <2>3. RunningInv' /\ StepInv'
    BY DEF RunningInv, StepInv, Room
  <2>4. PositionLaw' /\ OutputWithinLimit'
    BY DEF PositionLaw, OutputWithinLimit
  <2>5. Cardinality(InBatch)' <= MaxBatch
    BY DEF InBatch, InTransit, Elems
  <2> QED
    BY <2>1, <2>2, <2>3, <2>4, <2>5
<1> QED
  BY <1>1, <1>2, <1>3, <1>4, <1>5, <1>6, <1>7, <1>8 DEF Next, EngineStep

LEMMA Inductive == Spec => []Ind
<1> QED
  BY InitInd, NextInd, PTL DEF Spec
-----------------------------------------------------------------------------
(* Every variable has its type in every reachable state (Scheduler,        *)
(* Engine.step).                                                           *)
THEOREM TypeCorrect == Spec => []TypeOK
<1>1. Ind => TypeOK
  BY DEF Ind
<1> QED
  BY <1>1, Inductive, PTL

(* Whatever chunks the prompts are cut into and whichever steps end early, *)
(* the number of stored positions follows from the number of output tokens *)
(* (num_computed_tokens, context_lens and position of step).               *)
THEOREM Positions == Spec => []PositionLaw
<1>1. Ind => PositionLaw
  BY DEF Ind
<1> QED
  BY <1>1, Inductive, PTL

(* No request outputs more than max_tokens_per_seq tokens (run_until_done).*)
THEOREM WithinLimit == Spec => []OutputWithinLimit
<1>1. Ind => OutputWithinLimit
  BY DEF Ind
<1> QED
  BY <1>1, Inductive, PTL

(* Running and prefilling requests together never exceed max_batch_size.   *)
THEOREM BatchLimit == Spec => []BatchBound
<1>1. Ind => BatchBound
  <2> SUFFICES ASSUME Ind PROVE BatchBound
    OBVIOUS
  <2>1. Len(prefilling) <= 1
    <3>1. CASE prefilling = <<>>
      BY <3>1
    <3>2. CASE \E r \in Requests : prefilling = <<r>>
      BY <3>2
    <3> QED
      BY <3>1, <3>2 DEF Ind, PrefillInv
  <2> QED
    BY <2>1 DEF Ind, BatchBound, InBatch
<1> QED
  BY <1>1, Inductive, PTL

(* The tokens of a forward pass with a prefill chunk stay within BUDGET,   *)
(* and a chunk never passes the end of its prompt (schedule).              *)
THEOREM BudgetKept == Spec => []ForwardBudget
<1>1. Ind => ForwardBudget
  BY DEF Ind, StepInv, PrefillInv, ForwardBudget
<1> QED
  BY <1>1, Inductive, PTL

(* Every position a forward pass stores has a block of the request's       *)
(* table, for any block size and any prompts (append_slot, allocate).      *)
THEOREM SlotsReady == Spec => []SlotReady
<1>1. Ind => SlotReady
  <2> SUFFICES ASSUME Ind, pc = "append"
               PROVE  /\ prefill # None => Room(prefill, computed[prefill] + chunk)
                      /\ \A r \in decode \ todo : Room(r, computed[r] + 1)
    BY DEF SlotReady
  <2>1. ASSUME prefill # None
        PROVE  computed[prefill] + chunk <= Cardinality(held[prefill]) * BlockSize
    <3>1. prefill \in Requests
      BY <2>1 DEF Ind, TypeOK
    <3>2. /\ computed[prefill] + chunk <= PromptLen[prefill]
          /\ Cardinality(held[prefill]) = NumLogicBlocks(prefill)
      BY <2>1 DEF Ind, PrefillInv, Started
    <3>3. /\ NumLogicBlocks(prefill) \in Nat
          /\ PromptLen[prefill] <= NumLogicBlocks(prefill) * BlockSize
      BY <3>1, PromptRoom
    <3>4. computed[prefill] \in Nat /\ chunk \in Nat /\ PromptLen[prefill] \in Nat
      BY <3>1, PromptLenAssumption DEF Ind, TypeOK
    <3>5. NumLogicBlocks(prefill) * BlockSize \in Nat
      BY <3>3, SizesAssumption
    <3> QED
      BY <3>2, <3>3, <3>4, <3>5
  <2> QED
    BY <2>1 DEF Ind, StepInv, Room
<1> QED
  BY <1>1, Inductive, PTL

(* Blocks are neither lost nor shared, and who waits or has finished holds *)
(* none, even when append_slot meets an empty pool (free, append_slot).    *)
THEOREM Conserved == Spec => []PoolConserved
<1>1. Ind => PoolConserved
  <2> SUFFICES ASSUME Ind PROVE PoolConserved
    OBVIOUS
  <2>1. \A r \in Elems(waiting) : held[r] = {}
    <3>1. Elems(waiting) \subseteq Requests
      BY ElemsTyped DEF Ind, TypeOK
    <3> QED
      BY <3>1 DEF Ind, WaitingInv, Untouched
  <2> QED
    BY <2>1 DEF Ind, Partition, FinishedInv, PoolConserved
<1> QED
  BY <1>1, Inductive, PTL

(* A request that was marked finished gets no token and stays finished     *)
(* while it waits in running for the next schedule().                      *)
THEOREM Frozen == Spec => OutputFrozen
<1> DEFINE A == \A r \in Requests :
                  IsFinished(r) => outLen'[r] = outLen[r] /\ IsFinished(r)'
<1>1. Ind /\ [Next]_vars => [A]_vars
  <2> SUFFICES ASSUME Ind, Next, NEW r \in Requests, IsFinished(r)
               PROVE  outLen'[r] = outLen[r] /\ IsFinished(r)'
    OBVIOUS
  <2> USE DEF Ind
  <2>1. status[r] \notin {"WAITING", "RUNNING"}
    BY DEF IsFinished
  <2>2. CASE Schedule
    <3>1. CleanAndDecode
      BY <2>2 DEF Schedule, ScheduleNoBudget, ScheduleContinue, ScheduleAdmit, ScheduleNoCandidate
    <3>2. outLen' = outLen /\ StatusAfterClean \in [Requests -> Statuses]
      BY <3>1, Cleaned
    <3>3. StatusAfterClean[r] \in {"FINISHED_STOPPED", "FINISHED_ABORTED"}
      BY DEF StatusAfterClean, IsFinished
    <3>4. status' = StatusAfterClean
          \/ (ScheduleAdmit /\ status' = [StatusAfterClean EXCEPT ![Head(waiting)] = "RUNNING"])
      BY <2>2 DEF Schedule, ScheduleNoBudget, ScheduleContinue, ScheduleAdmit,
         ScheduleNoCandidate, NoPrefill
    <3>5. ScheduleAdmit => Head(waiting) # r
      <4> SUFFICES ASSUME ScheduleAdmit PROVE Head(waiting) # r
        OBVIOUS
      <4>1. Head(waiting) \in Elems(waiting)
        BY ElemsTail DEF ScheduleAdmit, WaitingInv, TypeOK
      <4> QED
        BY <2>1, <4>1 DEF WaitingInv
    <3>6. status'[r] = StatusAfterClean[r]
      BY <3>2, <3>4, <3>5
    <3> QED
      BY <3>2, <3>3, <3>6 DEF IsFinished
  <2>3. CASE Forward
    <3>1. pc = "append"
      BY <2>3 DEF Forward
    <3>2. r \notin decode
      BY <2>1, <3>1, Decoding
    <3>3. r \notin InTransit
      BY <2>1 DEF InTransit, PrefillInv, Started
    <3>4. outLen'[r] = outLen[r] /\ status'[r] = status[r]
      BY <2>3, <3>2, <3>3 DEF Forward, InTransit
    <3> QED
      BY <3>4 DEF IsFinished
  <2>4. CASE Enforce
    BY <2>4 DEF Enforce, IsFinished
  <2>5. CASE StepIdle \/ \E q \in Requests : AppendSlot(q) \/ AppendOOM(q) \/ AddRequest(q)
    BY <2>5 DEF StepIdle, AppendSlot, AppendOOM, AddRequest, seqVars, IsFinished
  <2> QED
    BY <2>2, <2>3, <2>4, <2>5 DEF Next, EngineStep
<1>2. Spec => [][A]_vars
  BY <1>1, Inductive, PTL DEF Spec
<1> QED
  BY <1>2 DEF OutputFrozen
-----------------------------------------------------------------------------
(***************************************************************************)
(* In a pool that has room for the batch (Ample) append_slot never fails:  *)
(* no step is cut short, no request is dropped, and the engine keeps the   *)
(* life of a request.                                                      *)
(***************************************************************************)
(* Every request that was added is somewhere.                              *)
Covered ==
  Arrived = Elems(waiting) \cup Elems(prefilling) \cup running \cup finished \cup InTransit

(* Who is not in the batch holds nothing, and nobody holds more than what  *)
(* its positions need.                                                     *)
Bounded ==
  /\ \A r \in Requests : Cardinality(held[r]) <= Need(r)
  /\ \A r \in Requests \ InBatch : held[r] = {}

(* A chunk has tokens, and only the last one reaches the prompt's end.     *)
ChunkInv ==
  /\ prefill # None =>
       /\ chunk > 0
       /\ ~ isLast => computed[prefill] + chunk < PromptLen[prefill]
  /\ \A r \in Elems(prefilling) : computed[r] < PromptLen[r]

(* The waiting requests are the last ones that arrived; of the others all  *)
(* but the latest have output, and it has or is being prefilled.           *)
Admitted == Len(arrived) - Len(waiting)
OrderInv ==
  /\ \A i, j \in DOMAIN arrived : arrived[i] = arrived[j] => i = j
  /\ Len(waiting) <= Len(arrived)
  /\ \A i \in DOMAIN waiting : waiting[i] = arrived[Admitted + i]
  /\ \A i \in DOMAIN arrived : i < Admitted => outLen[arrived[i]] > 0
  /\ Admitted > 0 => \/ outLen[arrived[Admitted]] > 0
                     \/ arrived[Admitted] \in Elems(prefilling) \cup InTransit

AmpleInd ==
  /\ Ind
  /\ Covered
  /\ Bounded
  /\ ChunkInv
  /\ OrderInv
-----------------------------------------------------------------------------
(* Quotients grow with their dividends, and by one per divisor.            *)
LEMMA QuotientMono ==
  ASSUME NEW a \in Int, NEW b \in Int, a <= b
  PROVE  a \div BlockSize \in Int /\ a \div BlockSize <= b \div BlockSize
<1>1. /\ a \div BlockSize \in Int /\ b \div BlockSize \in Int
      /\ BlockSize * (a \div BlockSize) <= a
      /\ b < BlockSize * (b \div BlockSize) + BlockSize
  BY SizesAssumption
<1> DEFINE x == a \div BlockSize
           y == b \div BlockSize
<1>2. x \in Int /\ y \in Int /\ BlockSize * x < BlockSize * y + BlockSize
  BY <1>1, SizesAssumption
<1> HIDE DEF x, y
<1>3. x <= y
  <2>1. BlockSize * x < BlockSize * (y + 1)
    BY <1>2, SizesAssumption
  <2> QED
    BY <1>2, <2>1, SizesAssumption
<1> QED
  BY <1>1, <1>3 DEF x, y

LEMMA QuotientNext ==
  ASSUME NEW a \in Int
  PROVE  (a + BlockSize) \div BlockSize = a \div BlockSize + 1
BY SizesAssumption

(* A request's positions up to its limit need at least its prompt's blocks.*)
LEMMA NeedCovers ==
  ASSUME NEW r \in Requests
  PROVE  /\ Need(r) \in Nat /\ NumLogicBlocks(r) <= Need(r)
         /\ \A c \in Nat : c <= PromptLen[r] + MaxTokens - 2 => c \div BlockSize + 1 <= Need(r)
<1>1. PromptLen[r] \in Nat /\ BlockSize \in Nat \ {0} /\ MaxTokens \in Nat \ {0}
  BY PromptLenAssumption, SizesAssumption
<1>2. NumLogicBlocks(r) \in Nat
  BY PromptRoom
<1>3. Need(r) \in Int /\ NumLogicBlocks(r) <= Need(r)
  <2> DEFINE a == PromptLen[r] + BlockSize - 1
             b == PromptLen[r] + MaxTokens - 1 + BlockSize - 1
  <2>1. a \in Int /\ b \in Int /\ a <= b
    BY <1>1
  <2>2. Need(r) = b \div BlockSize /\ NumLogicBlocks(r) = a \div BlockSize
    BY DEF Need, NumLogicBlocks
  <2> HIDE DEF a, b
  <2>3. b <= b
    BY <2>1
  <2> QED
    BY <2>1, <2>2, <2>3, QuotientMono
<1>4. ASSUME NEW c \in Nat, c <= PromptLen[r] + MaxTokens - 2
      PROVE  c \div BlockSize + 1 <= Need(r)
  <2> DEFINE a == c + BlockSize
             b == PromptLen[r] + MaxTokens - 1 + BlockSize - 1
  <2>1. a \in Int /\ b \in Int /\ a <= b
    BY <1>1, <1>4
  <2>2. Need(r) = b \div BlockSize /\ a \div BlockSize = c \div BlockSize + 1
    BY QuotientNext DEF Need
  <2> HIDE DEF a, b
  <2> QED
    BY <2>1, <2>2, QuotientMono
<1>5. Need(r) \in Nat
  BY <1>2, <1>3
<1> QED
  BY <1>3, <1>4, <1>5
-----------------------------------------------------------------------------
(* The slots of a batch are finitely many, one block fewer needs one slot  *)
(* fewer.                                                                  *)
LEMMA NeedFits ==
  ASSUME Ample, NEW r \in Requests
  PROVE  Need(r) <= Cardinality(Blocks)
<1>1. Cardinality({r}) = 1 /\ IsFiniteSet({r})
  BY FS_Singleton
<1>2. Need(r) \in Nat
  BY NeedCovers
<1>3. IsFiniteSet(1 .. Need(r)) /\ Cardinality(1 .. Need(r)) = Need(r)
  <2>1. 1 \in Int /\ Need(r) \in Int
    BY <1>2
  <2>2. /\ IsFiniteSet(1 .. Need(r))
        /\ Cardinality(1 .. Need(r)) = IF 1 > Need(r) THEN 0 ELSE Need(r) - 1 + 1
    BY <2>1, FS_Interval, Zenon
  <2> QED
    BY <1>2, <2>2
<1>4. Cardinality({r} \X (1 .. Need(r))) = Cardinality({r}) * Cardinality(1 .. Need(r))
  BY <1>1, <1>3, FS_Product, Zenon
<1>5. SlotsOf({r}) = {r} \X (1 .. Need(r))
  BY DEF SlotsOf
<1>6. Cardinality({r}) <= MaxBatch
  BY <1>1, SizesAssumption
<1>7. Cardinality(SlotsOf({r})) <= Cardinality(Blocks)
  BY <1>6 DEF Ample
<1>8. Cardinality(SlotsOf({r})) = Cardinality({r}) * Cardinality(1 .. Need(r))
  BY <1>4, <1>5
<1>9. Cardinality(SlotsOf({r})) = 1 * Need(r)
  BY <1>1, <1>3, <1>8
<1> QED
  BY <1>2, <1>7, <1>9

LEMMA SlotsFinite ==
  ASSUME Ample, NEW S \in SUBSET Requests
  PROVE  IsFiniteSet(SlotsOf(S)) /\ Cardinality(SlotsOf(S)) \in Nat
<1> DEFINE n == Cardinality(Blocks)
           All == Requests \X (1 .. n)
<1>1. n \in Nat
  BY BlocksAssumption, FS_CardinalityType
<1>2. IsFiniteSet(All)
  <2>1. IsFiniteSet(1 .. n)
    BY <1>1, FS_Interval
  <2> HIDE DEF n
  <2> QED
    BY <2>1, RequestsAssumption, FS_Product, Zenon
<1>3. SlotsOf(S) \subseteq All
  <2>1. ASSUME NEW r \in S PROVE {r} \X (1 .. Need(r)) \subseteq All
    <3>1. r \in Requests /\ Need(r) \in Nat /\ Need(r) <= n
      BY NeedCovers, NeedFits
    <3>2. 1 .. Need(r) \subseteq 1 .. n
      <4> HIDE DEF n
      <4> QED
        BY <1>1, <3>1
    <3> QED
      BY <3>1, <3>2
  <2> QED
    BY <2>1 DEF SlotsOf
<1> QED
  BY <1>2, <1>3, FS_Subset, FS_CardinalityType
(* The blocks are dealt out to the batch, and whoever needs one more has a *)
(* slot left: the blocks would be fewer than the slots.                    *)
LEMMA NeverOOM ==
  ASSUME Ample, Ind, Bounded, pc = "append", NEW r0 \in todo, NeedsBlock(r0), free = {}
  PROVE  FALSE
<1> DEFINE B == InBatch
           n(r) == Cardinality(held[r])
           F == [r \in B |-> CHOOSE f : f \in Surjection(1 .. n(r), held[r])]
           own == [b \in Blocks |-> CHOOSE r \in B : b \in held[r]]
           idx == [b \in Blocks |-> CHOOSE i \in 1 .. n(own[b]) : F[own[b]][i] = b]
           g == [b \in Blocks |-> <<own[b], idx[b]>>]
           T == SlotsOf(B) \ {<<r0, Need(r0)>>}
<1>1. B \in SUBSET Requests /\ Cardinality(B) <= MaxBatch
  BY BatchFinite DEF Ind
<1>2. r0 \in B /\ n(r0) < Need(r0) /\ Need(r0) \in Nat /\ n(r0) \in Nat
  <2>1. r0 \in decode
    BY DEF Ind, TypeOK
  <2>2. /\ r0 \in Requests /\ r0 \in running /\ computed[r0] \in Nat
        /\ outLen[r0] \in Nat /\ outLen[r0] < MaxTokens
        /\ computed[r0] = PromptLen[r0] + outLen[r0] - 1
    BY <2>1, Decoding
  <2>3. PromptLen[r0] \in Nat /\ MaxTokens \in Nat
    BY <2>2, PromptLenAssumption, SizesAssumption
  <2>4. computed[r0] <= PromptLen[r0] + MaxTokens - 2
    BY <2>2, <2>3
  <2>5. computed[r0] \div BlockSize + 1 <= Need(r0) /\ Need(r0) \in Nat
    BY <2>2, <2>4, NeedCovers
  <2>6. n(r0) < computed[r0] \div BlockSize + 1 /\ n(r0) \in Nat
    BY <2>2, HeldFinite DEF NeedsBlock
  <2>7. computed[r0] \div BlockSize \in Int
    BY <2>2, SizesAssumption
  <2>8. n(r0) < Need(r0)
    <3> HIDE DEF n
    <3> QED
      BY <2>5, <2>6, <2>7
  <2> QED
    BY <2>2, <2>5, <2>6, <2>8 DEF InBatch
<1>3. \A b \in Blocks : own[b] \in B /\ b \in held[own[b]]
  <2> SUFFICES ASSUME NEW b \in Blocks PROVE \E r \in B : b \in held[r]
    OBVIOUS
  <2>1. PICK r \in Requests : b \in held[r]
    BY DEF Ind, Partition
  <2> QED
    BY <2>1 DEF Bounded
<1>4. \A r \in B : F[r] \in Surjection(1 .. n(r), held[r]) /\ n(r) \in Nat /\ n(r) <= Need(r)
  <2> SUFFICES ASSUME NEW r \in B
               PROVE  /\ \E f : f \in Surjection(1 .. n(r), held[r])
                      /\ n(r) \in Nat /\ n(r) <= Need(r)
    OBVIOUS
  <2>1. r \in Requests /\ IsFiniteSet(held[r]) /\ n(r) <= Need(r)
    BY <1>1, HeldFinite DEF Bounded
  <2>2. n(r) \in Nat /\ ExistsBijection(1 .. n(r), held[r])
    BY <2>1, FS_CardinalityType
  <2> QED
    BY <2>1, <2>2 DEF ExistsBijection, Bijection
<1>5. \A b \in Blocks : idx[b] \in 1 .. n(own[b]) /\ F[own[b]][idx[b]] = b
  <2> SUFFICES ASSUME NEW b \in Blocks
               PROVE  \E i \in 1 .. n(own[b]) : F[own[b]][i] = b
    BY Zenon
  <2> DEFINE o == own[b]
  <2>1. o \in B /\ b \in held[o]
    BY <1>3
  <2> HIDE DEF o
  <2>2. F[o] \in Surjection(1 .. n(o), held[o])
    BY <1>4, <2>1
  <2>3. \E i \in 1 .. n(o) : F[o][i] = b
    <3> HIDE DEF F, n
    <3> QED
      BY <2>1, <2>2 DEF Surjection
  <2> QED
    BY <2>3 DEF o
<1> HIDE DEF F, own, idx, n, B
<1>6. \A b \in Blocks : g[b] \in T
  <2> SUFFICES ASSUME NEW b \in Blocks PROVE <<own[b], idx[b]>> \in T
    OBVIOUS
  <2>1. own[b] \in B /\ idx[b] \in 1 .. n(own[b]) /\ n(own[b]) \in Nat /\ n(own[b]) <= Need(own[b])
    BY <1>3, <1>4, <1>5
  <2>2. Need(own[b]) \in Nat
    BY <1>1, <2>1, NeedCovers
  <2>3. idx[b] \in 1 .. Need(own[b])
    BY <2>1, <2>2
  <2>4. <<own[b], idx[b]>> \in SlotsOf(B)
    BY <2>1, <2>3 DEF SlotsOf
  <2>5. own[b] = r0 => idx[b] # Need(r0)
    BY <1>2, <2>1
  <2> QED
    BY <2>4, <2>5
<1>7. \A b, c \in Blocks : g[b] = g[c] => b = c
  BY <1>5
<1> HIDE DEF g, T
<1>8. g \in Injection(Blocks, T)
  <2>1. g \in [Blocks -> T]
    BY <1>6 DEF g
  <2> QED
    BY <1>7, <2>1 DEF Injection, IsInjective
<1>9. IsFiniteSet(SlotsOf(B)) /\ Cardinality(SlotsOf(B)) \in Nat
  BY <1>1, SlotsFinite
<1>10. <<r0, Need(r0)>> \in SlotsOf(B)
  BY <1>2 DEF SlotsOf
<1>11. IsFiniteSet(T) /\ Cardinality(T) = Cardinality(SlotsOf(B)) - 1
  BY <1>9, <1>10, FS_RemoveElement DEF T
<1>12. Cardinality(Blocks) <= Cardinality(T)
  BY <1>8, <1>11, FS_Injection
<1>13. Cardinality(SlotsOf(B)) <= Cardinality(Blocks) /\ Cardinality(Blocks) \in Nat
  BY <1>1, BlocksAssumption, FS_CardinalityType DEF Ample
<1> QED
  BY <1>9, <1>11, <1>12, <1>13
-----------------------------------------------------------------------------
(* The steps that leave waiting alone keep the order, when who is being    *)
(* prefilled still is or has its first output.                             *)
LEMMA OrderKept ==
  ASSUME OrderInv, waiting' = waiting, arrived' = arrived,
         TypeOK, TypeOK',
         \A r \in Requests : outLen[r] > 0 => outLen'[r] > 0,
         \A r \in Elems(prefilling) \cup InTransit :
           outLen'[r] > 0 \/ r \in Elems(prefilling') \cup InTransit'
  PROVE  OrderInv'
<1>1. Len(waiting) \in Nat /\ Len(arrived) \in Nat /\ DOMAIN arrived = 1 .. Len(arrived)
  BY DEF TypeOK
<1>2. Admitted' = Admitted /\ Admitted \in Int /\ Admitted <= Len(arrived)
  BY <1>1 DEF Admitted
<1>3. \A i \in DOMAIN arrived : arrived[i] \in Requests
  BY DEF TypeOK
<1>4. \A i \in DOMAIN arrived : i < Admitted => outLen'[arrived[i]] > 0
  BY <1>3 DEF OrderInv
<1>5. Admitted > 0 => \/ outLen'[arrived[Admitted]] > 0
                     \/ arrived[Admitted] \in Elems(prefilling') \cup InTransit'
  <2> SUFFICES ASSUME Admitted > 0
               PROVE  \/ outLen'[arrived[Admitted]] > 0
                      \/ arrived[Admitted] \in Elems(prefilling') \cup InTransit'
    OBVIOUS
  <2>1. Admitted \in DOMAIN arrived
    BY <1>1, <1>2
  <2>2. arrived[Admitted] \in Requests
    BY <1>3, <2>1
  <2> QED
    BY <2>2 DEF OrderInv
<1>6. Elems(prefilling)' = Elems(prefilling')
  BY DEF Elems
<1> QED
  BY <1>2, <1>4, <1>5, <1>6 DEF OrderInv

(* Who is in which queue decides who holds blocks.                         *)
LEMMA BoundedKept ==
  ASSUME Bounded, held' = held, InBatch \subseteq InBatch'
  PROVE  Bounded'
BY DEF Bounded, Need

LEMMA AddRequestAmple ==
  ASSUME AmpleInd, NEW r \in Requests, AddRequest(r)
  PROVE  Covered' /\ Bounded' /\ ChunkInv' /\ OrderInv'
<1> USE DEF AmpleInd
<1>1. /\ r \notin Arrived
      /\ waiting' = Append(waiting, r) /\ arrived' = Append(arrived, r)
      /\ prefilling' = prefilling /\ running' = running /\ finished' = finished
      /\ computed' = computed /\ outLen' = outLen /\ held' = held
      /\ prefill' = prefill /\ chunk' = chunk /\ isLast' = isLast
  BY DEF AddRequest, seqVars, poolVars, outVars
<1>2. waiting \in Seq(Requests) /\ arrived \in Seq(Requests)
  BY DEF Ind, TypeOK
<1>3. Elems(waiting)' = Elems(waiting) \cup {r} /\ Arrived' = Arrived \cup {r}
  BY <1>1, <1>2, ElemsAppend DEF Arrived
<1>4. Elems(prefilling)' = Elems(prefilling) /\ InTransit' = InTransit
  BY <1>1 DEF InTransit
<1>5. Covered'
  BY <1>1, <1>3, <1>4 DEF Covered
<1>6. Bounded'
  BY <1>1, <1>4, BoundedKept DEF InBatch
<1>7. ChunkInv'
  BY <1>1, <1>4 DEF ChunkInv
<1>8. OrderInv'
  <2>1. /\ Len(waiting) \in Nat /\ DOMAIN waiting = 1 .. Len(waiting)
        /\ Len(waiting') = Len(waiting) + 1 /\ DOMAIN waiting' = 1 .. Len(waiting) + 1
        /\ waiting'[Len(waiting) + 1] = r
        /\ \A i \in 1 .. Len(waiting) : waiting'[i] = waiting[i]
    BY <1>1, <1>2
  <2>2. /\ Len(arrived) \in Nat /\ DOMAIN arrived = 1 .. Len(arrived)
        /\ Len(arrived') = Len(arrived) + 1 /\ DOMAIN arrived' = 1 .. Len(arrived) + 1
        /\ arrived'[Len(arrived) + 1] = r
        /\ \A i \in 1 .. Len(arrived) : arrived'[i] = arrived[i] /\ arrived[i] # r
    BY <1>1, <1>2 DEF Arrived, Elems
  <2>3. \A i \in 1 .. Len(arrived) + 1 : i = Len(arrived) + 1 \/ i \in 1 .. Len(arrived)
    BY <2>2
  <2>4. \A i \in 1 .. Len(waiting) + 1 : i = Len(waiting) + 1 \/ i \in 1 .. Len(waiting)
    BY <2>1
  <2>5. /\ Admitted' = Admitted /\ Admitted \in Nat /\ Admitted <= Len(arrived)
        /\ Admitted + (Len(waiting) + 1) = Len(arrived) + 1
        /\ \A i \in 1 .. Len(waiting) : Admitted + i \in 1 .. Len(arrived)
    BY <2>1, <2>2 DEF Admitted, OrderInv
  <2>6. \A i, j \in DOMAIN arrived' : arrived'[i] = arrived'[j] => i = j
    BY <2>2, <2>3 DEF OrderInv
  <2>7. Len(waiting') <= Len(arrived')
    BY <2>1, <2>2 DEF OrderInv
  <2>8. \A i \in DOMAIN waiting' : waiting'[i] = arrived'[Admitted' + i]
    BY <2>1, <2>2, <2>4, <2>5 DEF OrderInv
  <2>9. \A i \in DOMAIN arrived' : i < Admitted' => outLen'[arrived'[i]] > 0
    <3> SUFFICES ASSUME NEW i \in DOMAIN arrived', i < Admitted
                 PROVE  outLen'[arrived'[i]] > 0
      BY <2>5
    <3>1. i \in DOMAIN arrived
      BY <2>2, <2>5
    <3> QED
      BY <1>1, <2>2, <3>1 DEF OrderInv
  <2>10. Admitted' > 0 => \/ outLen'[arrived'[Admitted']] > 0
                         \/ arrived'[Admitted'] \in Elems(prefilling)' \cup InTransit'
    <3> SUFFICES ASSUME Admitted > 0
                 PROVE  \/ outLen[arrived'[Admitted]] > 0
                        \/ arrived'[Admitted] \in Elems(prefilling) \cup InTransit
      BY <1>1, <1>4, <2>5
    <3>1. Admitted \in 1 .. Len(arrived)
      BY <2>2, <2>5
    <3>2. arrived'[Admitted] = arrived[Admitted]
      BY <2>2, <3>1
    <3> QED
      BY <3>2 DEF OrderInv
  <2> QED
    BY <2>6, <2>7, <2>8, <2>9, <2>10 DEF OrderInv
<1> QED
  BY <1>5, <1>6, <1>7, <1>8
-----------------------------------------------------------------------------
(* schedule() takes blocks from finished requests and gives them to the    *)
(* admitted one, who is in the batch from then on.                         *)
LEMMA ScheduleBounded ==
  ASSUME AmpleInd, CleanAndDecode, NEW admitted \in SUBSET InBatch',
         Elems(prefilling) \subseteq InBatch',
         \A r \in Requests \ admitted : held'[r] = HeldAfterClean[r],
         \A r \in admitted : Cardinality(held'[r]) <= Need(r)
  PROVE  Bounded'
<1> USE DEF AmpleInd
<1>1. /\ prefill = None /\ running' = Live
      /\ \A r \in Requests \ Done : HeldAfterClean[r] = held[r]
      /\ \A r \in Done : HeldAfterClean[r] = {}
  BY Cleaned
<1>2. running = Live \cup Done /\ Live \subseteq InBatch'
  BY <1>1 DEF Live, Done, InBatch
<1>3. InBatch \subseteq InBatch' \cup Done
  BY <1>1, <1>2 DEF InBatch, InTransit
<1>4. \A r \in Requests : Cardinality(held'[r]) <= Need(r)
  <2> SUFFICES ASSUME NEW r \in Requests, r \notin admitted
               PROVE  Cardinality(held'[r]) <= Need(r)
    OBVIOUS
  <2>1. Need(r) \in Nat /\ Cardinality({}) = 0
    BY NeedCovers, FS_EmptySet
  <2>2. CASE r \in Done
    BY <1>1, <2>1, <2>2
  <2>3. CASE r \notin Done
    BY <1>1, <2>3 DEF Bounded
  <2> QED
    BY <2>2, <2>3
<1>5. \A r \in Requests \ InBatch' : held'[r] = {}
  <2> SUFFICES ASSUME NEW r \in Requests, r \notin InBatch' PROVE held'[r] = {}
    OBVIOUS
  <2>1. held'[r] = HeldAfterClean[r]
    OBVIOUS
  <2>2. CASE r \in Done
    BY <1>1, <2>1, <2>2
  <2>3. CASE r \notin Done
    BY <1>1, <1>3, <2>1, <2>3 DEF Bounded
  <2> QED
    BY <2>2, <2>3
<1>6. \A r \in Requests : Cardinality(held'[r]) <= Need(r)'
  BY <1>4 DEF Need
<1> QED
  BY <1>5, <1>6 DEF Bounded

LEMMA NoPrefillAmple ==
  ASSUME AmpleInd, CleanAndDecode, NoPrefill, TypeOK'
  PROVE  Covered' /\ Bounded' /\ ChunkInv' /\ OrderInv'
<1> USE DEF AmpleInd
<1>1. /\ prefill' = None /\ waiting' = waiting /\ prefilling' = prefilling
      /\ held' = HeldAfterClean
  BY DEF NoPrefill
<1>2. /\ prefill = None /\ running' = Live /\ finished' = finished \cup Done
      /\ computed' = computed /\ outLen' = outLen /\ arrived' = arrived
  BY Cleaned
<1>3. running = Live \cup Done
  BY DEF Live, Done
<1>4. /\ Elems(waiting)' = Elems(waiting) /\ Elems(prefilling)' = Elems(prefilling)
      /\ Arrived' = Arrived /\ InTransit = {} /\ InTransit' = {}
  BY <1>1, <1>2 DEF InTransit, Arrived
<1>5. Covered'
  BY <1>2, <1>3, <1>4 DEF Covered
<1>6. Bounded'
  <2>1. {} \in SUBSET InBatch' /\ Elems(prefilling) \subseteq InBatch'
    BY <1>4 DEF InBatch
  <2>2. /\ \A r \in Requests \ {} : held'[r] = HeldAfterClean[r]
        /\ \A r \in {} : Cardinality(held'[r]) <= Need(r)
    BY <1>1
  <2> HIDE DEF AmpleInd
  <2> QED
    BY <2>1, <2>2, ScheduleBounded
<1>7. ChunkInv'
  BY <1>1, <1>2, <1>4 DEF ChunkInv
<1>8. OrderInv'
  <2>1. \A r \in Elems(prefilling) \cup InTransit : r \in Elems(prefilling') \cup InTransit'
    BY <1>1, <1>4
  <2> QED
    BY <1>1, <1>2, <2>1, OrderKept DEF Ind
<1> QED
  BY <1>5, <1>6, <1>7, <1>8

(* The chunk of a request that has prompt tokens left.                     *)
LEMMA ChunkGoesOn ==
  ASSUME Ind, NEW r \in Requests, computed[r] < PromptLen[r], PrefillBudget > 0, Chunk(r)
  PROVE  /\ prefill' = r /\ chunk' > 0
         /\ ~ isLast' => computed[r] + chunk' < PromptLen[r]
<1>1. PrefillBudget \in Int
  <2>1. Live \subseteq Requests
    BY DEF Live, Ind, TypeOK
  <2>2. Cardinality(Live) \in Nat
    BY <2>1, RequestsAssumption, FS_Subset, FS_CardinalityType
  <2> QED
    BY <2>2, SizesAssumption DEF PrefillBudget
<1>2. computed[r] \in Nat /\ PromptLen[r] \in Nat
  BY PromptLenAssumption DEF Ind, TypeOK
<1>3. /\ prefill' = r
      /\ chunk' = IF PrefillBudget < PromptLen[r] - computed[r] THEN PrefillBudget
                  ELSE PromptLen[r] - computed[r]
      /\ isLast' = (computed[r] + PrefillBudget >= PromptLen[r])
  BY DEF Chunk, Smaller
<1>4. ~ isLast' => ~ (computed[r] + PrefillBudget >= PromptLen[r])
  BY <1>3, Zenon
<1>5. /\ chunk' > 0
      /\ ~ (computed[r] + PrefillBudget >= PromptLen[r]) => computed[r] + chunk' < PromptLen[r]
  BY <1>1, <1>2, <1>3
<1> QED
  BY <1>3, <1>4, <1>5

LEMMA ContinueAmple ==
  ASSUME AmpleInd, ScheduleContinue, TypeOK'
  PROVE  Covered' /\ Bounded' /\ ChunkInv' /\ OrderInv'
<1> USE DEF AmpleInd
<1>1. PICK h \in Requests : prefilling = <<h>>
  BY DEF ScheduleContinue, Ind, PrefillInv
<1>2. Elems(prefilling) = {h} /\ Head(prefilling) = h /\ Tail(prefilling) = <<>>
  BY <1>1, ElemsOne
<1>3. /\ PrefillBudget > 0 /\ CleanAndDecode /\ Chunk(h)
      /\ prefilling' = IF isLast' THEN <<>> ELSE <<h>>
      /\ held' = HeldAfterClean /\ waiting' = waiting
  BY <1>1, <1>2 DEF ScheduleContinue
<1>4. /\ prefill = None /\ running' = Live /\ finished' = finished \cup Done
      /\ computed' = computed /\ outLen' = outLen /\ arrived' = arrived
  BY <1>3, Cleaned
<1>5. computed[h] < PromptLen[h] /\ h # None
  BY <1>2, RequestsAssumption DEF ChunkInv
<1>6. prefill' = h /\ chunk' > 0 /\ (~ isLast' => computed[h] + chunk' < PromptLen[h])
  BY <1>3, <1>5, ChunkGoesOn
<1>7. Elems(prefilling') \subseteq {h} /\ Elems(prefilling') \cup InTransit' = {h}
  <2>1. CASE isLast'
    <3>1. prefilling' = <<>>
      BY <1>3, <2>1
    <3> QED
      BY <1>5, <1>6, <2>1, <3>1, ElemsNone DEF InTransit
  <2>2. CASE ~ isLast'
    <3>1. prefilling' = <<h>>
      BY <1>3, <2>2
    <3>2. Elems(prefilling') = {h}
      BY <3>1, ElemsOne
    <3> QED
      BY <2>2, <3>2 DEF InTransit
  <2> QED
    BY <2>1, <2>2
<1>8. /\ Elems(waiting)' = Elems(waiting) /\ Arrived' = Arrived
      /\ running = Live \cup Done /\ InTransit = {}
      /\ Elems(prefilling)' = Elems(prefilling')
  BY <1>3, <1>4 DEF InTransit, Arrived, Live, Done
<1>9. Covered'
  BY <1>2, <1>4, <1>7, <1>8 DEF Covered
<1>10. Bounded'
  <2>1. {} \in SUBSET InBatch' /\ Elems(prefilling) \subseteq InBatch'
    BY <1>2, <1>7 DEF InBatch
  <2>2. /\ \A r \in Requests \ {} : held'[r] = HeldAfterClean[r]
        /\ \A r \in {} : Cardinality(held'[r]) <= Need(r)
    BY <1>3
  <2> HIDE DEF AmpleInd
  <2> QED
    BY <1>3, <2>1, <2>2, ScheduleBounded
<1>11. ChunkInv'
  BY <1>4, <1>5, <1>6, <1>7, <1>8 DEF ChunkInv
<1>12. OrderInv'
  <2>1. \A r \in Elems(prefilling) \cup InTransit : r \in Elems(prefilling') \cup InTransit'
    BY <1>2, <1>7, <1>8
  <2> QED
    BY <1>3, <1>4, <2>1, OrderKept DEF Ind
<1> QED
  BY <1>9, <1>10, <1>11, <1>12
LEMMA ElemsSplit ==
  ASSUME NEW T, NEW q \in Seq(T), q # <<>>
  PROVE  Elems(q) \subseteq Elems(Tail(q)) \cup {Head(q)}
<1>1. /\ Len(q) \in Nat /\ Len(q) > 0 /\ DOMAIN q = 1 .. Len(q)
      /\ DOMAIN Tail(q) = 1 .. Len(q) - 1
      /\ \A i \in 1 .. Len(q) - 1 : Tail(q)[i] = q[i + 1]
      /\ Head(q) = q[1]
  OBVIOUS
<1>2. ASSUME NEW i \in DOMAIN q PROVE q[i] \in Elems(Tail(q)) \cup {Head(q)}
  <2>1. CASE i = 1
    BY <1>1, <2>1
  <2>2. CASE i # 1
    <3>1. i - 1 \in 1 .. Len(q) - 1 /\ (i - 1) + 1 = i
      BY <1>1, <2>2
    <3>2. i - 1 \in DOMAIN Tail(q) /\ Tail(q)[i - 1] = q[i]
      BY <1>1, <3>1
    <3> QED
      BY <3>2 DEF Elems
  <2> QED
    BY <2>1, <2>2
<1> QED
  BY <1>2 DEF Elems

LEMMA AdmitAmple ==
  ASSUME Ample, AmpleInd, ScheduleAdmit
  PROVE  Covered' /\ Bounded' /\ ChunkInv' /\ OrderInv'
<1> USE DEF AmpleInd
<1> DEFINE h == Head(waiting)
<1>1. /\ PrefillBudget > 0 /\ CleanAndDecode /\ Chunk(h)
      /\ prefilling = <<>> /\ waiting # <<>> /\ waiting' = Tail(waiting)
      /\ prefilling' = IF isLast' THEN <<>> ELSE <<h>>
  BY DEF ScheduleAdmit
<1>2. PICK S \in SUBSET FreeAfterClean :
        /\ Cardinality(S) = NumLogicBlocks(h)
        /\ held' = [HeldAfterClean EXCEPT ![h] = S]
  BY DEF ScheduleAdmit
<1>3. h \in Requests /\ Elems(waiting)' \cup {h} = Elems(waiting)
  <2>1. waiting \in Seq(Requests) /\ \A i, j \in DOMAIN waiting : waiting[i] = waiting[j] => i = j
    BY DEF Ind, TypeOK, WaitingInv
  <2>2. /\ h \in Elems(waiting) /\ h \in Requests
        /\ Elems(Tail(waiting)) \subseteq Elems(waiting) \ {h}
    BY <1>1, <2>1, ElemsTail
  <2>3. Elems(waiting) \subseteq Elems(Tail(waiting)) \cup {h}
    BY <1>1, <2>1, ElemsSplit
  <2> QED
    BY <1>1, <2>2, <2>3
<1>4. /\ Len(waiting) \in Nat /\ Len(waiting) > 0 /\ DOMAIN waiting = 1 .. Len(waiting)
      /\ Len(waiting') = Len(waiting) - 1 /\ DOMAIN waiting' = 1 .. Len(waiting) - 1
      /\ \A i \in 1 .. Len(waiting) - 1 : waiting'[i] = waiting[i + 1]
      /\ h = waiting[1]
  <2>1. waiting \in Seq(Requests)
    BY DEF Ind, TypeOK
  <2> QED
    BY <1>1, <2>1
<1> HIDE DEF h
<1>5. computed[h] = 0 /\ computed[h] < PromptLen[h] /\ h # None
  <2>1. status[h] = "WAITING"
    BY <1>3 DEF Ind, WaitingInv
  <2>2. PromptLen[h] > 0
    BY <1>3 DEF Ample
  <2> QED
    BY <1>3, <2>1, <2>2, RequestsAssumption DEF Ind, WaitingInv, Untouched
<1>6. prefill' = h /\ chunk' > 0 /\ (~ isLast' => computed[h] + chunk' < PromptLen[h])
  BY <1>1, <1>3, <1>5, ChunkGoesOn
<1>7. /\ prefill = None /\ running' = Live /\ finished' = finished \cup Done
      /\ computed' = computed /\ outLen' = outLen /\ arrived' = arrived
      /\ HeldAfterClean \in [Requests -> SUBSET Blocks]
  BY <1>1, Cleaned
<1>8. Elems(prefilling') \subseteq {h} /\ Elems(prefilling') \cup InTransit' = {h}
  <2>1. CASE isLast'
    <3>1. prefilling' = <<>>
      BY <1>1, <2>1
    <3> QED
      BY <1>5, <1>6, <2>1, <3>1, ElemsNone DEF InTransit
  <2>2. CASE ~ isLast'
    <3>1. prefilling' = <<h>>
      BY <1>1, <2>2
    <3>2. Elems(prefilling') = {h}
      BY <3>1, ElemsOne
    <3> QED
      BY <2>2, <3>2 DEF InTransit
  <2> QED
    BY <2>1, <2>2
<1>9. /\ Arrived' = Arrived /\ running = Live \cup Done
      /\ InTransit = {} /\ Elems(prefilling) = {} /\ Elems(prefilling)' = Elems(prefilling')
  BY <1>1, <1>7, ElemsNone DEF InTransit, Arrived, Live, Done
<1>10. Covered'
  BY <1>3, <1>7, <1>8, <1>9 DEF Covered
<1>11. Bounded'
  <2>1. {h} \in SUBSET InBatch' /\ Elems(prefilling) \subseteq InBatch'
    BY <1>8, <1>9 DEF InBatch
  <2>2. /\ \A r \in Requests \ {h} : held'[r] = HeldAfterClean[r]
        /\ held'[h] = S
    BY <1>2, <1>3, <1>7
  <2>3. \A r \in {h} : Cardinality(held'[r]) <= Need(r)
    BY <1>2, <1>3, <2>2, NeedCovers
  <2> HIDE DEF AmpleInd
  <2> QED
    BY <1>1, <2>1, <2>2, <2>3, ScheduleBounded
<1>12. ChunkInv'
  BY <1>5, <1>6, <1>7, <1>8 DEF ChunkInv
<1>13. OrderInv'
  <2>1. /\ Len(arrived) \in Nat /\ DOMAIN arrived = 1 .. Len(arrived)
        /\ Len(waiting) <= Len(arrived)
    BY DEF Ind, TypeOK, OrderInv
  <2>2. /\ Admitted \in Nat /\ Admitted' = Admitted + 1 /\ Admitted + 1 > 0
        /\ Admitted + 1 \in DOMAIN arrived
    BY <1>4, <1>7, <2>1 DEF Admitted
  <2>3. arrived[Admitted + 1] = h
    <3>1. 1 \in DOMAIN waiting
      BY <1>4
    <3> QED
      BY <1>4, <3>1 DEF OrderInv
  <2>4. \A i \in DOMAIN waiting' : waiting'[i] = arrived[Admitted' + i]
    <3> SUFFICES ASSUME NEW i \in 1 .. Len(waiting) - 1
                 PROVE  waiting[i + 1] = arrived[(Admitted + 1) + i]
      BY <1>4, <2>2
    <3>1. i + 1 \in DOMAIN waiting /\ (Admitted + 1) + i = Admitted + (i + 1)
      BY <1>4, <2>2
    <3> QED
      BY <3>1 DEF OrderInv
  <2>5. \A i \in DOMAIN arrived : i < Admitted' => outLen[arrived[i]] > 0
    <3> SUFFICES ASSUME NEW i \in DOMAIN arrived, i < Admitted + 1
                 PROVE  outLen[arrived[i]] > 0
      BY <2>2
    <3>1. i < Admitted \/ (i = Admitted /\ Admitted > 0)
      BY <2>1, <2>2
    <3> QED
      BY <1>9, <3>1 DEF OrderInv
  <2>6. arrived[Admitted + 1] \in Elems(prefilling') \cup InTransit'
    BY <1>8, <2>3
  <2>7. Len(waiting') <= Len(arrived)
    BY <1>4, <2>1
  <2>8. \A i, j \in DOMAIN arrived : arrived[i] = arrived[j] => i = j
    BY DEF OrderInv
  <2> QED
    BY <1>7, <1>9, <2>2, <2>4, <2>5, <2>6, <2>7, <2>8 DEF OrderInv
<1> QED
  BY <1>10, <1>11, <1>12, <1>13

LEMMA AppendSlotAmple ==
  ASSUME AmpleInd, NEW r \in Requests, AppendSlot(r), TypeOK'
  PROVE  Covered' /\ Bounded' /\ ChunkInv' /\ OrderInv'
<1> USE DEF AmpleInd
<1>1. /\ pc = "append" /\ r \in todo
      /\ waiting' = waiting /\ prefilling' = prefilling /\ running' = running
      /\ finished' = finished /\ computed' = computed /\ outLen' = outLen
      /\ prefill' = prefill /\ chunk' = chunk /\ isLast' = isLast /\ arrived' = arrived
  BY DEF AppendSlot, queueVars, seqVars, ghostVars
<1>2. r \in running /\ computed[r] \div BlockSize + 1 <= Need(r)
  <2>1. r \in decode
    BY <1>1 DEF Ind, TypeOK
  <2>2. /\ r \in running /\ computed[r] \in Nat /\ outLen[r] \in Nat /\ outLen[r] < MaxTokens
        /\ computed[r] = PromptLen[r] + outLen[r] - 1
    BY <1>1, <2>1, Decoding
  <2>3. PromptLen[r] \in Nat /\ MaxTokens \in Nat
    BY PromptLenAssumption, SizesAssumption
  <2>4. computed[r] <= PromptLen[r] + MaxTokens - 2
    BY <2>2, <2>3
  <2> QED
    BY <2>2, <2>4, NeedCovers
<1>3. /\ InBatch' = InBatch /\ InTransit' = InTransit
      /\ Elems(waiting)' = Elems(waiting) /\ Elems(prefilling)' = Elems(prefilling)
      /\ Arrived' = Arrived
  BY <1>1 DEF InBatch, InTransit, Arrived
<1>4. Covered'
  BY <1>1, <1>3 DEF Covered
<1>5. Bounded'
  <2>1. CASE NeedsBlock(r)
    <3>1. PICK b \in free : held' = [held EXCEPT ![r] = @ \cup {b}]
      BY <2>1 DEF AppendSlot
    <3>2. /\ held'[r] = held[r] \cup {b} /\ b \notin held[r]
          /\ \A q \in Requests \ {r} : held'[q] = held[q]
      BY <3>1 DEF Ind, TypeOK, Partition
    <3>3. Cardinality(held[r]) \in Nat /\ Cardinality(held'[r]) = Cardinality(held[r]) + 1
      BY <3>2, HeldFinite, FS_AddElement
    <3>4. computed[r] \div BlockSize \in Int /\ Need(r) \in Nat
      BY SizesAssumption, NeedCovers DEF Ind, TypeOK
    <3>5. Cardinality(held'[r]) <= Need(r)
      BY <1>2, <2>1, <3>3, <3>4 DEF NeedsBlock
    <3>6. \A q \in Requests : Cardinality(held'[q]) <= Need(q)'
      BY <3>2, <3>5 DEF Bounded, Need
    <3>7. \A q \in Requests \ InBatch : held'[q] = {}
      BY <1>2, <3>2 DEF Bounded, InBatch
    <3> QED
      BY <1>3, <3>6, <3>7 DEF Bounded
  <2>2. CASE ~ NeedsBlock(r)
    BY <1>3, <2>2, BoundedKept DEF AppendSlot, poolVars
  <2> QED
    BY <2>1, <2>2
<1>6. ChunkInv'
  BY <1>1, <1>3 DEF ChunkInv
<1>7. OrderInv'
  <2>1. \A q \in Elems(prefilling) \cup InTransit : q \in Elems(prefilling') \cup InTransit'
    BY <1>1, <1>3
  <2> QED
    BY <1>1, <2>1, OrderKept DEF Ind
<1> QED
  BY <1>4, <1>5, <1>6, <1>7
LEMMA ForwardAmple ==
  ASSUME AmpleInd, Forward, TypeOK'
  PROVE  Covered' /\ Bounded' /\ ChunkInv' /\ OrderInv'
<1> USE DEF AmpleInd
<1>1. /\ pc = "append" /\ running' = running \cup InTransit
      /\ computed' = [r \in Requests |-> computed[r] + Stored(r)]
      /\ outLen' = [r \in Requests |->
           IF r \in InTransit \cup decode THEN outLen[r] + 1 ELSE outLen[r]]
      /\ prefill' = None
      /\ waiting' = waiting /\ prefilling' = prefilling /\ finished' = finished
      /\ held' = held /\ arrived' = arrived
  BY DEF Forward, InTransit, poolVars
<1>2. /\ Elems(waiting)' = Elems(waiting) /\ Elems(prefilling)' = Elems(prefilling)
      /\ Arrived' = Arrived /\ InTransit' = {}
  BY <1>1 DEF InTransit, Arrived
<1>3. InTransit \subseteq Requests
  BY DEF InTransit, Ind, TypeOK
<1>4. \A r \in Requests : outLen[r] \in Nat /\ computed[r] \in Nat
  BY DEF Ind, TypeOK
<1>5. Covered'
  BY <1>1, <1>2 DEF Covered
<1>6. Bounded'
  BY <1>1, <1>2, BoundedKept DEF InBatch
<1>7. ChunkInv'
  <2> SUFFICES ASSUME NEW r \in Elems(prefilling)
               PROVE  computed'[r] < PromptLen[r]
    BY <1>1, <1>2 DEF ChunkInv
  <2>1. r \in Requests /\ r # None
    BY ElemsTyped, RequestsAssumption DEF Ind, TypeOK
  <2>2. CASE r = prefill
    <3>1. ~ isLast
      BY <2>1, <2>2, ElemsNone DEF Ind, PrefillInv
    <3>2. computed[r] + chunk < PromptLen[r]
      BY <2>1, <2>2, <3>1 DEF ChunkInv
    <3>3. computed'[r] = computed[r] + chunk
      BY <1>1, <2>1, <2>2 DEF Stored
    <3> QED
      BY <3>2, <3>3
  <2>3. CASE r # prefill
    <3>1. r \notin decode
      BY <1>1, Decoding
    <3>2. computed'[r] = computed[r] + 0
      BY <1>1, <2>1, <2>3, <3>1 DEF Stored
    <3>3. computed'[r] = computed[r]
      BY <1>4, <2>1, <3>2
    <3> QED
      BY <3>3 DEF ChunkInv
  <2> QED
    BY <2>2, <2>3
<1>8. OrderInv'
  <2>1. \A r \in Requests : outLen[r] > 0 => outLen'[r] > 0
    BY <1>1, <1>4
  <2>2. \A r \in InTransit : outLen'[r] > 0
    BY <1>1, <1>3, <1>4
  <2>3. \A r \in Elems(prefilling) \cup InTransit :
          outLen'[r] > 0 \/ r \in Elems(prefilling') \cup InTransit'
    BY <1>1, <2>2
  <2> QED
    BY <1>1, <2>1, <2>3, OrderKept DEF Ind
<1> QED
  BY <1>5, <1>6, <1>7, <1>8

(* An early return has no prefill to lose: a chunk is never empty.         *)
LEMMA OtherAmple ==
  ASSUME AmpleInd, StepIdle \/ Enforce \/ UNCHANGED vars, TypeOK'
  PROVE  Covered' /\ Bounded' /\ ChunkInv' /\ OrderInv'
<1> USE DEF AmpleInd
<1>1. /\ waiting' = waiting /\ prefilling' = prefilling /\ running' = running
      /\ finished' = finished /\ computed' = computed /\ outLen' = outLen
      /\ held' = held /\ arrived' = arrived
  BY DEF StepIdle, Enforce, vars, queueVars, seqVars, poolVars, ghostVars
<1>2. InTransit' = InTransit
  <2>1. CASE StepIdle
    <3>1. chunk = 0 /\ prefill' = None
      BY <2>1 DEF StepIdle
    <3>2. prefill = None
      BY <3>1 DEF ChunkInv
    <3> QED
      BY <3>1, <3>2 DEF InTransit
  <2>2. CASE Enforce \/ UNCHANGED vars
    BY <2>2 DEF Enforce, vars, outVars, InTransit
  <2> QED
    BY <2>1, <2>2
<1>3. /\ Elems(waiting)' = Elems(waiting) /\ Elems(prefilling)' = Elems(prefilling)
      /\ Arrived' = Arrived /\ InBatch' = InBatch
  BY <1>1, <1>2 DEF Arrived, InBatch
<1>4. Covered'
  BY <1>1, <1>2, <1>3 DEF Covered
<1>5. Bounded'
  BY <1>1, <1>3, BoundedKept
<1>6. ChunkInv'
  <2>1. \A r \in Elems(prefilling)' : computed'[r] < PromptLen[r]
    BY <1>1, <1>3 DEF ChunkInv
  <2>2. CASE StepIdle
    BY <2>1, <2>2 DEF ChunkInv, StepIdle
  <2>3. CASE Enforce \/ UNCHANGED vars
    <3>1. prefill' = prefill /\ chunk' = chunk /\ isLast' = isLast
      BY <2>3 DEF Enforce, vars, outVars
    <3> QED
      BY <1>1, <2>1, <3>1 DEF ChunkInv
  <2> QED
    BY <2>2, <2>3
<1>7. OrderInv'
  <2>1. \A r \in Elems(prefilling) \cup InTransit : r \in Elems(prefilling') \cup InTransit'
    BY <1>1, <1>2
  <2> QED
    BY <1>1, <2>1, OrderKept DEF Ind
<1> QED
  BY <1>4, <1>5, <1>6, <1>7

LEMMA AmpleInit == Init => AmpleInd
<1> SUFFICES ASSUME Init PROVE AmpleInd
  OBVIOUS
<1>1. /\ waiting = <<>> /\ prefilling = <<>> /\ running = {} /\ finished = {} /\ arrived = <<>>
      /\ held = [r \in Requests |-> {}] /\ prefill = None
  BY DEF Init
<1>2. Elems(waiting) = {} /\ Elems(prefilling) = {} /\ Arrived = {} /\ InTransit = {}
  BY <1>1, ElemsNone DEF InTransit, Arrived
<1>3. Covered
  BY <1>1, <1>2 DEF Covered
<1>4. Bounded
  BY <1>1, NeedCovers, FS_EmptySet DEF Bounded
<1>5. ChunkInv
  BY <1>1, <1>2 DEF ChunkInv
<1>6. OrderInv
  <2>1. DOMAIN arrived = {} /\ DOMAIN waiting = {} /\ Len(arrived) = 0 /\ Len(waiting) = 0
    BY <1>1
  <2> QED
    BY <2>1 DEF OrderInv, Admitted
<1> QED
  BY <1>3, <1>4, <1>5, <1>6, InitInd DEF AmpleInd

LEMMA AmpleNext == Ample => (AmpleInd /\ [Next]_vars => AmpleInd')
<1> SUFFICES ASSUME Ample, AmpleInd, [Next]_vars PROVE AmpleInd'
  OBVIOUS
<1>1. Ind'
  BY NextInd DEF AmpleInd
<1>2. TypeOK'
  BY <1>1 DEF Ind
<1>3. CASE Schedule
  <2>1. CASE ScheduleNoBudget \/ ScheduleNoCandidate
    BY <1>1, <1>2, <2>1, NoPrefillAmple DEF ScheduleNoBudget, ScheduleNoCandidate, AmpleInd
  <2>2. CASE ScheduleContinue
    BY <1>1, <1>2, <2>2, ContinueAmple DEF AmpleInd
  <2>3. CASE ScheduleAdmit
    BY <1>1, <2>3, AdmitAmple DEF AmpleInd
  <2> QED
    BY <1>3, <2>1, <2>2, <2>3 DEF Schedule
<1>4. ASSUME NEW r \in Requests, AppendSlot(r) PROVE AmpleInd'
  BY <1>1, <1>2, <1>4, AppendSlotAmple DEF AmpleInd
<1>5. ASSUME NEW r \in Requests, AppendOOM(r) PROVE AmpleInd'
  BY <1>5, NeverOOM DEF AppendOOM, AmpleInd
<1>6. CASE Forward
  BY <1>1, <1>2, <1>6, ForwardAmple DEF AmpleInd
<1>7. CASE StepIdle \/ Enforce \/ UNCHANGED vars
  BY <1>1, <1>2, <1>7, OtherAmple DEF AmpleInd
<1>8. ASSUME NEW r \in Requests, AddRequest(r) PROVE AmpleInd'
  BY <1>1, <1>8, AddRequestAmple DEF AmpleInd
<1> QED
  BY <1>3, <1>4, <1>5, <1>6, <1>7, <1>8 DEF Next, EngineStep

LEMMA AmpleAlways == Ample => (Spec => []AmpleInd)
<1> SUFFICES ASSUME Ample PROVE Spec => []AmpleInd
  OBVIOUS
<1>1. AmpleInd /\ [Next]_vars => AmpleInd'
  BY AmpleNext
<1> QED
  BY <1>1, AmpleInit, PTL DEF Spec
-----------------------------------------------------------------------------
(* A pool that has room for the batch never lets append_slot down, though  *)
(* can_allocate looks only at the blocks free now (step, lines 53-60).     *)
THEOREM PoolSuffices == Spec => []NeverShort
<1>1. CASE Ample
  <2>1. AmpleInd => NeverShort
    BY <1>1, NeverOOM DEF AmpleInd, NeverShort
  <2>2. Spec => []AmpleInd
    BY <1>1, AmpleAlways
  <2> QED
    BY <2>1, <2>2, PTL
<1>2. CASE ~ Ample
  <2>1. NeverShort
    BY <1>2 DEF NeverShort
  <2> QED
    BY <2>1, PTL
<1> QED
  BY <1>1, <1>2
(* The status and the output tell the queues apart.                        *)
LEMMA QueuesApart ==
  ASSUME Ind
  PROVE  /\ Elems(waiting) \cap (Elems(prefilling) \cup running \cup finished \cup InTransit) = {}
         /\ (Elems(prefilling) \cup InTransit) \cap (running \cup finished) = {}
         /\ Elems(prefilling) \cap InTransit = {}
         /\ running \cap finished = {}
<1>1. \A r \in Elems(waiting) : status[r] = "WAITING"
  BY DEF Ind, WaitingInv
<1>2. \A r \in Elems(prefilling) \cup InTransit : status[r] = "RUNNING" /\ outLen[r] = 0
  BY DEF Ind, PrefillInv, Started, InTransit
<1>3. \A r \in running : status[r] \in {"RUNNING", "FINISHED_STOPPED"} /\ outLen[r] > 0
  BY DEF Ind, RunningInv
<1>4. \A r \in finished : status[r] = "FINISHED_ABORTED"
  BY DEF Ind, FinishedInv
<1>5. InTransit # {} => Elems(prefilling) = {}
  BY ElemsNone DEF Ind, PrefillInv, InTransit
<1> QED
  BY <1>1, <1>2, <1>3, <1>4, <1>5

(* Every request that was added is in one queue and once (add_request,     *)
(* schedule, step): with room for the batch nobody is dropped between the  *)
(* pop from prefilling and the append to running.                          *)
THEOREM NobodyDropped == Ample => (Spec => []EveryRequestQueued)
<1> SUFFICES ASSUME Ample PROVE Spec => []EveryRequestQueued
  OBVIOUS
<1>1. AmpleInd => EveryRequestQueued
  <2> SUFFICES ASSUME AmpleInd PROVE EveryRequestQueued
    OBVIOUS
  <2> USE DEF AmpleInd
  <2>1. /\ DOMAIN Places = 1 .. 5
        /\ Places[1] = Elems(waiting) /\ Places[2] = Elems(prefilling) /\ Places[3] = running
        /\ Places[4] = finished /\ Places[5] = InTransit
    BY DEF Places
  <2>2. Arrived = UNION Elems(Places)
    <3>1. Elems(Places) = {Places[1], Places[2], Places[3], Places[4], Places[5]}
      <4>1. 1 .. 5 = {1, 2, 3, 4, 5}
        OBVIOUS
      <4> HIDE DEF Places
      <4> QED
        BY <2>1, <4>1 DEF Elems
    <3> QED
      BY <2>1, <3>1 DEF Covered
  <2>3. \A i, j \in DOMAIN Places : i # j => Places[i] \cap Places[j] = {}
    <3>1. \A i \in 1 .. 5 : i \in {1, 2, 3, 4, 5}
      OBVIOUS
    <3> HIDE DEF Places
    <3> QED
      BY <2>1, <3>1, QueuesApart
  <2>4. Len(waiting) = Cardinality(Elems(waiting))
    <3> DEFINE n == Len(waiting)
               f == [i \in 1 .. n |-> waiting[i]]
    <3>1. /\ n \in Nat /\ DOMAIN waiting = 1 .. n
          /\ \A i, j \in 1 .. n : waiting[i] = waiting[j] => i = j
      <4>1. waiting \in Seq(Requests)
        BY DEF Ind, TypeOK
      <4>2. n \in Nat /\ DOMAIN waiting = 1 .. n
        BY <4>1
      <4>3. \A i, j \in DOMAIN waiting : waiting[i] = waiting[j] => i = j
        BY DEF Ind, WaitingInv
      <4> HIDE DEF n
      <4> QED
        BY <4>2, <4>3
    <3>2. f \in Bijection(1 .. n, Elems(waiting))
      <4>1. f \in [1 .. n -> Elems(waiting)]
        BY <3>1 DEF Elems
      <4>2. \A t \in Elems(waiting) : \E i \in 1 .. n : f[i] = t
        BY <3>1 DEF Elems
      <4>3. \A i, j \in 1 .. n : f[i] = f[j] => i = j
        BY <3>1
      <4> HIDE DEF f, n
      <4> QED
        BY <4>1, <4>2, <4>3 DEF Bijection, Injection, Surjection, IsInjective
    <3>3. ExistsBijection(1 .. n, Elems(waiting))
      BY <3>2 DEF ExistsBijection
    <3> HIDE DEF n, f
    <3>4. Cardinality(Elems(waiting)) = n
      BY <3>1, <3>3, FS_CountingElements
    <3> QED
      BY <3>4 DEF n
  <2> QED
    BY <2>2, <2>3, <2>4 DEF EveryRequestQueued
<1> QED
  BY <1>1, AmpleAlways, PTL

(* First tokens come in the order of arrival (waiting and prefilling are   *)
(* first in, first out, and one request is prefilled at a time).           *)
THEOREM ArrivalOrder == Ample => (Spec => FirstTokensInOrder)
<1> DEFINE A == \A i, j \in DOMAIN arrived :
                  i < j /\ outLen'[arrived[j]] > 0 => outLen'[arrived[i]] > 0
<1> SUFFICES ASSUME Ample PROVE Spec => [][A]_vars
  BY DEF FirstTokensInOrder
<1>1. AmpleInd /\ [Next]_vars => [A]_vars
  <2> SUFFICES ASSUME AmpleInd, Next, NEW i \in DOMAIN arrived, NEW j \in DOMAIN arrived,
                      i < j, outLen'[arrived[j]] > 0
               PROVE  outLen'[arrived[i]] > 0
    OBVIOUS
  <2>1. AmpleInd'
    BY AmpleNext
  <2>2. /\ Len(arrived) \in Nat /\ DOMAIN arrived = 1 .. Len(arrived)
        /\ arrived \in Seq(Requests)
    BY DEF AmpleInd, Ind, TypeOK
  <2>3. arrived' = arrived \/ \E r \in Requests : arrived' = Append(arrived, r)
    BY DEF Next, EngineStep, Schedule, ScheduleNoBudget, ScheduleContinue, ScheduleAdmit,
       ScheduleNoCandidate, CleanAndDecode, AppendSlot, AppendOOM, StepIdle, Forward, Enforce,
       AddRequest, ghostVars
  <2>4. /\ DOMAIN arrived' = 1 .. Len(arrived')
        /\ Len(arrived') \in Nat /\ Len(arrived') >= Len(arrived)
        /\ i \in DOMAIN arrived' /\ j \in DOMAIN arrived'
        /\ arrived'[i] = arrived[i] /\ arrived'[j] = arrived[j]
    <3>1. CASE arrived' = arrived
      BY <2>2, <3>1
    <3>2. ASSUME NEW r \in Requests, arrived' = Append(arrived, r)
          PROVE  /\ DOMAIN arrived' = 1 .. Len(arrived')
                 /\ Len(arrived') \in Nat /\ Len(arrived') >= Len(arrived)
                 /\ i \in DOMAIN arrived' /\ j \in DOMAIN arrived'
                 /\ arrived'[i] = arrived[i] /\ arrived'[j] = arrived[j]
      BY <2>2, <3>2
    <3> QED
      BY <2>3, <3>1, <3>2
  <2>5. j <= Admitted'
    <3> SUFFICES ASSUME j > Admitted' PROVE FALSE
      BY <2>2, <2>4 DEF Admitted, AmpleInd, Ind, TypeOK
    <3> DEFINE k == j - Admitted'
    <3>1. /\ Len(waiting') \in Nat /\ DOMAIN waiting' = 1 .. Len(waiting')
          /\ Admitted' = Len(arrived') - Len(waiting')
      BY <2>1 DEF AmpleInd, Ind, TypeOK, Admitted
    <3>2. k \in DOMAIN waiting' /\ Admitted' + k = j
      BY <2>2, <2>4, <3>1
    <3>3. waiting'[k] = arrived'[j]
      <4> HIDE DEF k
      <4> QED
        BY <2>1, <3>2 DEF AmpleInd, OrderInv
    <3>4. arrived[j] \in Elems(waiting)'
      BY <2>4, <3>2, <3>3 DEF Elems
    <3>5. arrived[j] \in Requests
      BY <2>2
    <3>6. outLen'[arrived[j]] = 0
      BY <2>1, <3>4, <3>5 DEF AmpleInd, Ind, WaitingInv, Untouched
    <3> QED
      BY <3>6
  <2>6. i < Admitted'
    <3>1. Admitted' \in Int
      BY <2>1 DEF AmpleInd, Ind, TypeOK, Admitted
    <3> QED
      BY <2>2, <2>5, <3>1
  <2>7. outLen'[arrived'[i]] > 0
    BY <2>1, <2>4, <2>6 DEF AmpleInd, OrderInv
  <2> QED
    BY <2>4, <2>7
<1> QED
  BY <1>1, AmpleAlways, PTL DEF Spec
-----------------------------------------------------------------------------
(* The queue a request is in is its phase.                                 *)
PhaseMap ==
  \A r \in Requests :
    /\ r \notin Arrived => Phase(r) = "new"
    /\ r \in Elems(waiting) => Phase(r) = "waiting"
    /\ r \in Elems(prefilling) \cup InTransit => Phase(r) = "prefilling"
    /\ r \in running => Phase(r) = "running"
    /\ r \in finished => Phase(r) = "finished"
    /\ \/ r \notin Arrived
       \/ r \in Elems(waiting) \/ r \in Elems(prefilling) \cup InTransit
       \/ r \in running \/ r \in finished

LEMMA PhaseKnown == AmpleInd => PhaseMap
<1> SUFFICES ASSUME AmpleInd, NEW r \in Requests
             PROVE  /\ r \notin Arrived => Phase(r) = "new"
                    /\ r \in Elems(waiting) => Phase(r) = "waiting"
                    /\ r \in Elems(prefilling) \cup InTransit => Phase(r) = "prefilling"
                    /\ r \in running => Phase(r) = "running"
                    /\ r \in finished => Phase(r) = "finished"
                    /\ \/ r \notin Arrived
                       \/ r \in Elems(waiting) \/ r \in Elems(prefilling) \cup InTransit
                       \/ r \in running \/ r \in finished
  BY DEF PhaseMap
<1>1. Ind /\ Covered
  BY DEF AmpleInd
<1> QED
  BY <1>1, QueuesApart DEF Phase, Covered

(* A step that moves the requests of S into the phase p and leaves the     *)
(* queues of the others as they are.                                       *)
LEMMA PhaseNew ==
  ASSUME PhaseMap, PhaseMap', NEW q \in Requests, q \notin Arrived,
         Elems(waiting)' = Elems(waiting) \cup {q}, Arrived' = Arrived \cup {q},
         Elems(prefilling)' \cup InTransit' = Elems(prefilling) \cup InTransit,
         running' = running, finished' = finished
  PROVE  \A r \in Requests : Phase(r)' = IF r \in {q} THEN "waiting" ELSE Phase(r)
BY DEF PhaseMap

LEMMA PhaseDone ==
  ASSUME PhaseMap, PhaseMap', NEW S \in SUBSET running,
         Elems(waiting)' = Elems(waiting), Arrived' = Arrived,
         Elems(prefilling)' \cup InTransit' = Elems(prefilling) \cup InTransit,
         running' = running \ S, finished' = finished \cup S
  PROVE  \A r \in Requests : Phase(r)' = IF r \in S THEN "finished" ELSE Phase(r)
BY DEF PhaseMap

LEMMA PhaseAdmitted ==
  ASSUME PhaseMap, PhaseMap', NEW S \in SUBSET running, NEW h \in Elems(waiting),
         Elems(waiting) = Elems(waiting)' \cup {h}, Arrived' = Arrived,
         Elems(prefilling) \cup InTransit = {},
         Elems(prefilling)' \cup InTransit' = {h},
         running' = running \ S, finished' = finished \cup S
  PROVE  \A r \in Requests :
           Phase(r)' = IF r = h THEN "prefilling"
                       ELSE IF r \in S THEN "finished" ELSE Phase(r)
BY DEF PhaseMap

LEMMA PhaseStarted ==
  ASSUME PhaseMap, PhaseMap', NEW F \in SUBSET (Elems(prefilling) \cup InTransit),
         Elems(waiting)' = Elems(waiting), Arrived' = Arrived,
         Elems(prefilling) \cup InTransit = (Elems(prefilling)' \cup InTransit') \cup F,
         running' = running \cup F, finished' = finished
  PROVE  \A r \in Requests : Phase(r)' = IF r \in F THEN "running" ELSE Phase(r)
BY DEF PhaseMap

LEMMA PhaseSame ==
  ASSUME PhaseMap, PhaseMap',
         Elems(waiting)' = Elems(waiting), Arrived' = Arrived,
         Elems(prefilling)' \cup InTransit' = Elems(prefilling) \cup InTransit,
         running' = running, finished' = finished
  PROVE  UNCHANGED [r \in Requests |-> Phase(r)]
<1>1. \A r \in Requests : Phase(r)' = Phase(r)
  BY DEF PhaseMap
<1> QED
  BY <1>1
LEMMA LifecycleInit == Init => Lifecycle!Init
<1> SUFFICES ASSUME Init, NEW r \in Requests PROVE Phase(r) = "new"
  BY DEF Lifecycle!Init
<1>1. r \notin Arrived
  BY ElemsNone DEF Init, Arrived
<1>2. PhaseMap
  BY AmpleInit, PhaseKnown
<1> QED
  BY <1>1, <1>2 DEF PhaseMap

(* The parts of schedule() every outcome shares, as the phases see them.   *)
LEMMA ScheduleQueues ==
  ASSUME AmpleInd, CleanAndDecode
  PROVE  /\ Done \in SUBSET running /\ Done \in SUBSET Requests
         /\ running' = running \ Done /\ finished' = finished \cup Done
         /\ Arrived' = Arrived /\ InTransit = {}
<1>1. /\ prefill = None /\ running' = Live /\ finished' = finished \cup Done
      /\ arrived' = arrived
  BY Cleaned DEF AmpleInd
<1>2. running \subseteq Requests
  BY DEF AmpleInd, Ind, TypeOK
<1> QED
  BY <1>1, <1>2 DEF Done, Live, Arrived, InTransit

LEMMA RetireStep ==
  ASSUME AmpleInd, PhaseMap, PhaseMap', CleanAndDecode,
         Elems(waiting)' = Elems(waiting),
         Elems(prefilling)' \cup InTransit' = Elems(prefilling) \cup InTransit
  PROVE  Lifecycle!Next
<1>1. /\ Done \in SUBSET running /\ Done \in SUBSET Requests
      /\ running' = running \ Done /\ finished' = finished \cup Done
      /\ Arrived' = Arrived
  BY ScheduleQueues
<1>2. \A r \in Requests : Phase(r)' = IF r \in Done THEN "finished" ELSE Phase(r)
  BY <1>1, PhaseDone
<1>3. \A r \in Done : Phase(r) = "running"
  BY <1>1 DEF PhaseMap
<1>4. Lifecycle!Retire(Done)
  BY <1>1, <1>2, <1>3 DEF Lifecycle!Retire, Lifecycle!In, Lifecycle!Move
<1> QED
  BY <1>1, <1>4 DEF Lifecycle!Next

LEMMA AdmitStep ==
  ASSUME AmpleInd, PhaseMap, PhaseMap', ScheduleAdmit
  PROVE  Lifecycle!Next
<1> DEFINE h == Head(waiting)
<1>1. /\ CleanAndDecode /\ Chunk(h) /\ Cardinality(Live) < MaxBatch
      /\ prefilling = <<>> /\ waiting # <<>> /\ waiting' = Tail(waiting)
      /\ prefilling' = IF isLast' THEN <<>> ELSE <<h>>
  BY DEF ScheduleAdmit, Admissible
<1>2. /\ Done \in SUBSET running /\ Done \in SUBSET Requests
      /\ running' = running \ Done /\ finished' = finished \cup Done
      /\ Arrived' = Arrived /\ InTransit = {}
  BY <1>1, ScheduleQueues
<1>3. h \in Requests /\ h \in Elems(waiting) /\ Elems(waiting) = Elems(waiting)' \cup {h}
  <2>1. waiting \in Seq(Requests) /\ \A i, j \in DOMAIN waiting : waiting[i] = waiting[j] => i = j
    BY DEF AmpleInd, Ind, TypeOK, WaitingInv
  <2>2. /\ h \in Elems(waiting) /\ h \in Requests
        /\ Elems(Tail(waiting)) \subseteq Elems(waiting) \ {h}
    BY <1>1, <2>1, ElemsTail
  <2>3. Elems(waiting) \subseteq Elems(Tail(waiting)) \cup {h}
    BY <1>1, <2>1, ElemsSplit
  <2> QED
    BY <1>1, <2>2, <2>3
<1> HIDE DEF h
<1>4. /\ Elems(prefilling) \cup InTransit = {}
      /\ Elems(prefilling)' \cup InTransit' = {h}
  <2>1. h # None /\ prefill' = h
    BY <1>1, <1>3, RequestsAssumption DEF Chunk
  <2>2. CASE isLast'
    <3>1. prefilling' = <<>>
      BY <1>1, <2>2
    <3> QED
      BY <1>1, <1>2, <2>1, <2>2, <3>1, ElemsNone DEF InTransit
  <2>3. CASE ~ isLast'
    <3>1. prefilling' = <<h>>
      BY <1>1, <2>3
    <3>2. Elems(prefilling') = {h}
      BY <3>1, ElemsOne
    <3> QED
      BY <1>1, <1>2, <2>3, <3>2, ElemsNone DEF InTransit
  <2> QED
    BY <2>2, <2>3
<1>5. \A r \in Requests :
        Phase(r)' = IF r = h THEN "prefilling"
                    ELSE IF r \in Done THEN "finished" ELSE Phase(r)
  BY <1>2, <1>3, <1>4, PhaseAdmitted
<1>6. /\ Phase(h) = "waiting"
      /\ \A r \in Done : Phase(r) = "running"
  BY <1>2, <1>3 DEF PhaseMap
<1>7. {r \in Requests : Phase(r) = "prefilling"} \cup {r \in Requests : Phase(r) = "running"}
        = running
  <2>1. \A r \in Requests : Phase(r) # "prefilling"
    BY <1>4 DEF PhaseMap
  <2>2. \A r \in Requests : Phase(r) = "running" <=> r \in running
    BY DEF PhaseMap
  <2>3. running \subseteq Requests
    BY DEF AmpleInd, Ind, TypeOK
  <2> QED
    BY <2>1, <2>2, <2>3
<1>8. Cardinality(running \ Done) < MaxBatch
  BY <1>1 DEF Live
<1>9. Lifecycle!RetireAndAdmit(Done, h)
  <2> DEFINE bar == [r \in Requests |-> Phase(r)]
             act == {r \in Requests : bar[r] = "prefilling"} \cup {r \in Requests : bar[r] = "running"}
  <2>1. act = running
    BY <1>7
  <2>2. Cardinality(act \ Done) < MaxBatch
    BY <1>8, <2>1
  <2>3. bar[h] = "waiting" /\ Done \subseteq {r \in Requests : bar[r] = "running"}
    BY <1>2, <1>3, <1>6
  <2>4. bar' = [[r \in Requests |-> IF r \in Done THEN "finished" ELSE bar[r]]
                  EXCEPT ![h] = "prefilling"]
    BY <1>3, <1>5
  <2> HIDE DEF bar, act
  <2>5. Cardinality(act \ Done) = Cardinality(Lifecycle!Active \ Done)
    BY DEF bar, act, Lifecycle!Active, Lifecycle!In
  <2>6. Done \subseteq Lifecycle!In("running")
    BY <2>3 DEF bar, Lifecycle!In
  <2>7. bar' = [Lifecycle!Move(Done, "finished") EXCEPT ![h] = "prefilling"]
    BY <2>4 DEF bar, Lifecycle!Move
  <2>8. Lifecycle!Cardinality(Lifecycle!Active \ Done) < MaxBatch
    <3> DEFINE T == Lifecycle!Active \ Done
    <3>1. Lifecycle!Cardinality(T) = Cardinality(T)
      <4> HIDE DEF T
      <4> QED
        BY DEF Lifecycle!Cardinality, Cardinality
    <3> QED
      BY <2>2, <2>5, <3>1
  <2> QED
    BY <2>3, <2>6, <2>7, <2>8, Zenon DEF bar, Lifecycle!RetireAndAdmit
<1> QED
  BY <1>2, <1>3, <1>9 DEF Lifecycle!Next

LEMMA ForwardStep ==
  ASSUME AmpleInd, PhaseMap, PhaseMap', Forward
  PROVE  [Lifecycle!Next]_([r \in Requests |-> Phase(r)])
<1> DEFINE F == InTransit
<1>1. /\ running' = running \cup F /\ prefill' = None
      /\ waiting' = waiting /\ prefilling' = prefilling /\ finished' = finished
      /\ arrived' = arrived
  BY DEF Forward, InTransit
<1>2. /\ Elems(waiting)' = Elems(waiting) /\ Elems(prefilling)' = Elems(prefilling)
      /\ Arrived' = Arrived /\ InTransit' = {}
  BY <1>1 DEF InTransit, Arrived
<1>3. \A r \in Requests : Phase(r)' = IF r \in F THEN "running" ELSE Phase(r)
  BY <1>1, <1>2, PhaseStarted
<1>4. CASE F = {}
  BY <1>3, <1>4
<1>5. CASE F # {}
  <2>1. F = {prefill} /\ prefill \in Requests
    BY <1>5 DEF InTransit, AmpleInd, Ind, TypeOK
  <2>2. Phase(prefill) = "prefilling"
    BY <2>1 DEF PhaseMap
  <2>3. Lifecycle!StartDecoding(prefill)
    BY <1>3, <2>1, <2>2 DEF Lifecycle!StartDecoding, Lifecycle!Move
  <2> QED
    BY <2>1, <2>3 DEF Lifecycle!Next
<1> QED
  BY <1>4, <1>5

LEMMA LifecycleNext ==
  Ample => (AmpleInd /\ [Next]_vars => [Lifecycle!Next]_([r \in Requests |-> Phase(r)]))
<1> SUFFICES ASSUME Ample, AmpleInd, [Next]_vars
             PROVE  Lifecycle!Next \/ UNCHANGED [r \in Requests |-> Phase(r)]
  OBVIOUS
<1>1. PhaseMap
  BY PhaseKnown
<1>2. PhaseMap'
  <2>1. AmpleInd'
    BY AmpleNext
  <2>2. AmpleInd' => PhaseMap'
    BY PhaseKnown, PTL
  <2> QED
    BY <2>1, <2>2
<1>3. CASE ScheduleNoBudget \/ ScheduleNoCandidate
  <2>1. CleanAndDecode /\ NoPrefill
    BY <1>3 DEF ScheduleNoBudget, ScheduleNoCandidate
  <2>2. /\ Elems(waiting)' = Elems(waiting)
        /\ Elems(prefilling)' \cup InTransit' = Elems(prefilling) \cup InTransit
    BY <2>1, ScheduleQueues DEF NoPrefill, InTransit
  <2> QED
    BY <1>1, <1>2, <2>1, <2>2, RetireStep
<1>4. CASE ScheduleContinue
  <2>1. PICK h \in Requests : prefilling = <<h>>
    BY <1>4 DEF ScheduleContinue, AmpleInd, Ind, PrefillInv
  <2>2. Elems(prefilling) = {h} /\ Head(prefilling) = h /\ Tail(prefilling) = <<>> /\ h # None
    BY <2>1, ElemsOne, RequestsAssumption
  <2>3. /\ CleanAndDecode /\ prefill' = h /\ waiting' = waiting
        /\ prefilling' = IF isLast' THEN <<>> ELSE <<h>>
    BY <1>4, <2>1, <2>2 DEF ScheduleContinue, Chunk
  <2>4. Elems(prefilling)' \cup InTransit' = {h}
    <3>1. CASE isLast'
      <4>1. prefilling' = <<>>
        BY <2>3, <3>1
      <4> QED
        BY <2>2, <2>3, <3>1, <4>1, ElemsNone DEF InTransit
    <3>2. CASE ~ isLast'
      <4>1. prefilling' = <<h>>
        BY <2>3, <3>2
      <4> QED
        BY <2>2, <2>3, <3>2, <4>1, ElemsOne DEF InTransit
    <3> QED
      BY <3>1, <3>2
  <2>5. Elems(waiting)' = Elems(waiting) /\ InTransit = {}
    BY <2>3, ScheduleQueues
  <2> QED
    BY <1>1, <1>2, <2>2, <2>3, <2>4, <2>5, RetireStep
<1>5. CASE ScheduleAdmit
  BY <1>1, <1>2, <1>5, AdmitStep
<1>6. CASE Forward
  BY <1>1, <1>2, <1>6, ForwardStep
<1>7. ASSUME NEW q \in Requests, AddRequest(q)
      PROVE  Lifecycle!Next
  <2>1. /\ q \notin Arrived /\ waiting' = Append(waiting, q) /\ arrived' = Append(arrived, q)
        /\ prefilling' = prefilling /\ running' = running /\ finished' = finished
        /\ prefill' = prefill /\ isLast' = isLast
    BY <1>7 DEF AddRequest, outVars
  <2>2. Elems(waiting)' = Elems(waiting) \cup {q} /\ Arrived' = Arrived \cup {q}
    BY <2>1, ElemsAppend DEF Arrived, AmpleInd, Ind, TypeOK
  <2>3. Elems(prefilling)' \cup InTransit' = Elems(prefilling) \cup InTransit
    BY <2>1 DEF InTransit
  <2>4. \A r \in Requests : Phase(r)' = IF r \in {q} THEN "waiting" ELSE Phase(r)
    BY <1>1, <1>2, <2>1, <2>2, <2>3, PhaseNew
  <2>5. Phase(q) = "new"
    BY <1>1, <2>1 DEF PhaseMap
  <2>6. Lifecycle!Submit(q)
    BY <2>4, <2>5 DEF Lifecycle!Submit, Lifecycle!Move
  <2> QED
    BY <2>6 DEF Lifecycle!Next
<1>8. CASE StepIdle \/ Enforce \/ UNCHANGED vars \/ \E r \in Requests : AppendSlot(r)
  <2>1. /\ waiting' = waiting /\ prefilling' = prefilling /\ running' = running
        /\ finished' = finished /\ arrived' = arrived
    BY <1>8 DEF StepIdle, Enforce, AppendSlot, vars, queueVars, ghostVars
  <2>2. InTransit' = InTransit
    <3>1. CASE StepIdle
      <4>1. prefill = None /\ prefill' = None
        BY <3>1 DEF StepIdle, AmpleInd, ChunkInv
      <4> QED
        BY <4>1 DEF InTransit
    <3>2. CASE Enforce \/ UNCHANGED vars \/ \E r \in Requests : AppendSlot(r)
      BY <3>2 DEF Enforce, AppendSlot, vars, outVars, InTransit
    <3> QED
      BY <1>8, <3>1, <3>2
  <2>3. /\ Elems(waiting)' = Elems(waiting) /\ Elems(prefilling)' = Elems(prefilling)
        /\ Arrived' = Arrived
    BY <2>1 DEF Arrived
  <2> QED
    BY <1>1, <1>2, <2>1, <2>2, <2>3, PhaseSame
<1>9. ASSUME NEW r \in Requests, AppendOOM(r) PROVE FALSE
  BY <1>9, NeverOOM DEF AppendOOM, AmpleInd
<1> QED
  BY <1>3, <1>4, <1>5, <1>6, <1>7, <1>8, <1>9 DEF Next, EngineStep, Schedule

(* The engine implements the life of a request: whatever schedule, the     *)
(* forward pass and the length check do to the queues, a request goes      *)
(* through them in order, none is lost, and it is admitted only while the  *)
(* batch has a place (Scheduler.schedule, Engine.step, run_until_done).    *)
THEOREM ImplementsLifecycle == Ample => (Spec => LifecycleSpec)
<1> SUFFICES ASSUME Ample PROVE Spec => LifecycleSpec
  OBVIOUS
<1>1. AmpleInd /\ [Next]_vars => [Lifecycle!Next]_([r \in Requests |-> Phase(r)])
  BY LifecycleNext
<1>2. Spec => Lifecycle!Spec
  BY <1>1, LifecycleInit, AmpleAlways, PTL DEF Spec, Lifecycle!Spec
<1> QED
  BY <1>2 DEF LifecycleSpec
=============================================================================
