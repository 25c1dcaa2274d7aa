--------------------------- MODULE KVTransfer_proofs ---------------------------
(***************************************************************************)
(* Theorems about KVTransfer, for any number of requests, workers and      *)
(* blocks, any block size and any prompts.                                 *)
(***************************************************************************)
EXTENDS KVTransfer, FiniteSetTheorems, TLAPS

(* Stages in which a table is that of the prompt, and in which the prompt  *)
(* is in the prefill worker's cache.                                       *)
Prefilled == {"stored", "extracted", "done", "pending"}
Prompting == {"allocated"} \cup Prefilled

(* No block is in two places of the tables, or in a table and free.        *)
TablesApart ==
  /\ \A r \in Requests : stage[r] \in {"new", "gone"} => table[r] = <<>>
  /\ \A r \in Requests : \A i \in DOMAIN table[r] : table[r][i] \notin free
  /\ \A r, q \in Requests : \A i \in DOMAIN table[r], j \in DOMAIN table[q] :
       table[r][i] = table[q][j] => r = q /\ i = j

(* Until it is promoted a request has the blocks of its prompt.            *)
Prompted ==
  /\ \A r \in Requests : stage[r] \in Prompting => Len(table[r]) = PromptBlocks(r)
  /\ \A r \in Requests : stage[r] \in Prefilled => computed[r] = PromptLen[r]

(* A prompt stays where the copies read it from, until they are through.   *)
InPrefillCache ==
  \A r \in Requests : stage[r] \in Prefilled =>
    \A p \in Positions(r) : Found(pcache[on[r]], table[r], p) = <<r, p>>
InBuffer ==
  \A r \in Requests : stage[r] \in Prefilled \ {"stored"} =>
    /\ DOMAIN buf[r] = DOMAIN table[r]
    /\ \A p \in Positions(r) : buf[r][p \div BlockSize + 1][p % BlockSize] = <<r, p>>

(* Queued transfers are those of pending requests, one each.               *)
Queued ==
  /\ \A i \in DOMAIN stream : /\ stage[stream[i][1]] = "pending"
                              /\ stream[i][2] = table[stream[i][1]]
                              /\ stream[i][1] \notin fired
  /\ \A i, j \in DOMAIN stream : stream[i][1] = stream[j][1] => i = j
  /\ stream = <<>> => copied = 0

(* What has been copied is in the decode worker's cache.                   *)
Arriving ==
  stream # <<>> =>
    LET r == stream[1][1]
    IN \A p \in Positions(r) :
         p \div BlockSize < copied => Found(dcache, table[r], p) = <<r, p>>
Came ==
  \A r \in fired : \A p \in Positions(r) : Found(dcache, table[r], p) = <<r, p>>

(* Requests whose append_slot was called have room for their next position.*)
Slotted ==
  dpc = "append" =>
    /\ todo \subseteq In("running")
    /\ \A r \in In("running") \ todo : computed[r] \div BlockSize < Len(table[r])

Ind ==
  /\ TypeOK
  /\ TablesApart
  /\ Prompted
  /\ InPrefillCache
  /\ InBuffer
  /\ Queued
  /\ Arriving
  /\ Came
  /\ ReadsOwnKV
  /\ Slotted
-----------------------------------------------------------------------------
LEMMA DivMod ==
  ASSUME NEW p \in Nat
  PROVE  /\ p \div BlockSize \in Nat
         /\ p % BlockSize \in Offsets
BY BlockSizeAssumption DEF Offsets

LEMMA DivModUnique ==
  ASSUME NEW p \in Nat, NEW q \in Nat,
         p \div BlockSize = q \div BlockSize, p % BlockSize = q % BlockSize
  PROVE  p = q
BY BlockSizeAssumption

(* Every position of a prompt has a block of PromptBlocks.                 *)
LEMMA PromptFits ==
  ASSUME NEW r \in Requests, NEW p \in Positions(r)
  PROVE  /\ p \in Nat
         /\ PromptBlocks(r) \in Nat
         /\ p \div BlockSize < PromptBlocks(r)
BY BlockSizeAssumption, PromptLenAssumption DEF Positions, PromptBlocks

(* Two positions that have blocks and share a cell are the same position   *)
(* of the same request.                                                    *)
LEMMA CellsApart ==
  ASSUME TypeOK, TablesApart,
         NEW r \in Requests, NEW p \in Nat, p \div BlockSize < Len(table[r]),
         NEW q \in Requests, NEW o \in Nat, o \div BlockSize < Len(table[q]),
         BlockAt(table[r], p) = BlockAt(table[q], o), p % BlockSize = o % BlockSize
  PROVE  r = q /\ p = o
<1>1. /\ table[r] \in Seq(Blocks) /\ table[q] \in Seq(Blocks)
      /\ p \div BlockSize \in Nat /\ o \div BlockSize \in Nat
  BY DivMod DEF TypeOK
<1>2. /\ p \div BlockSize + 1 \in DOMAIN table[r]
      /\ o \div BlockSize + 1 \in DOMAIN table[q]
  BY <1>1
<1>3. r = q /\ p \div BlockSize + 1 = o \div BlockSize + 1
  BY <1>2 DEF TablesApart, BlockAt
<1>4. p \div BlockSize = o \div BlockSize
  BY <1>1, <1>3
<1> QED
  BY <1>3, <1>4, DivModUnique

LEMMA CellOfTable ==
  ASSUME TypeOK, NEW r \in Requests, NEW p \in Nat, p \div BlockSize < Len(table[r])
  PROVE  /\ BlockAt(table[r], p) \in Blocks
         /\ p % BlockSize \in Offsets
         /\ p \div BlockSize + 1 \in DOMAIN table[r]
<1>1. table[r] \in Seq(Blocks) /\ p \div BlockSize \in Nat /\ p % BlockSize \in Offsets
  BY DivMod DEF TypeOK
<1> QED
  BY <1>1 DEF BlockAt

(* What a store writes in a cell is one of its positions.                  *)
LEMMA StoreOne ==
  ASSUME NEW S \in SUBSET Requests, NEW P, NEW b \in Blocks, NEW o \in Offsets,
         NEW x \in Stores(S, P, b, o)
  PROVE  /\ x = <<x[1], x[2]>> /\ x[1] \in S /\ x[2] \in P[x[1]]
         /\ BlockAt(table[x[1]], x[2]) = b /\ x[2] % BlockSize = o
BY DEF Stores

LEMMA StoreTyped ==
  ASSUME NEW cache \in [Blocks -> Cells], NEW S \in SUBSET Requests, NEW P,
         \A r \in S : P[r] \subseteq Nat
  PROVE  AfterStore(cache, S, P) \in [Blocks -> Cells]
<1> SUFFICES ASSUME NEW b \in Blocks, NEW o \in Offsets
             PROVE  (IF Stores(S, P, b, o) = {} THEN cache[b][o]
                     ELSE CHOOSE x \in Stores(S, P, b, o) : TRUE) \in Tokens
  BY DEF AfterStore, Cells
<1>1. cache[b][o] \in Tokens
  BY DEF Cells
<1>2. ASSUME NEW x \in Stores(S, P, b, o) PROVE x \in Tokens
  <2>1. x = <<x[1], x[2]>> /\ x[1] \in Requests /\ x[2] \in Nat
    BY <1>2, StoreOne
  <2> QED
    BY <2>1 DEF Tokens
<1>3. Stores(S, P, b, o) # {} =>
        (CHOOSE x \in Stores(S, P, b, o) : TRUE) \in Stores(S, P, b, o)
  OBVIOUS
<1> QED
  BY <1>1, <1>2, <1>3

(* A store through the tables of S puts each of its positions where the    *)
(* table says, and overwrites nobody else's.                               *)
LEMMA StoreLands ==
  ASSUME TypeOK, TablesApart, NEW cache \in [Blocks -> Cells],
         NEW S \in SUBSET Requests, NEW P,
         \A q \in S : /\ P[q] \subseteq Nat
                      /\ \A o \in P[q] : o \div BlockSize < Len(table[q]),
         NEW r \in Requests, NEW p \in Nat, p \div BlockSize < Len(table[r]),
         (r \in S /\ p \in P[r]) \/ Found(cache, table[r], p) = <<r, p>>
  PROVE  Found(AfterStore(cache, S, P), table[r], p) = <<r, p>>
<1> DEFINE b == BlockAt(table[r], p)
           o == p % BlockSize
<1>1. b \in Blocks /\ o \in Offsets
  BY CellOfTable
<1>2. \A x \in Stores(S, P, b, o) : x = <<r, p>> /\ r \in S /\ p \in P[r]
  <2> SUFFICES ASSUME NEW x \in Stores(S, P, b, o)
               PROVE  x = <<r, p>> /\ r \in S /\ p \in P[r]
    OBVIOUS
  <2>1. /\ x = <<x[1], x[2]>> /\ x[1] \in S /\ x[2] \in P[x[1]]
        /\ BlockAt(table[x[1]], x[2]) = b /\ x[2] % BlockSize = o
    BY <1>1, StoreOne
  <2>2. x[1] \in Requests /\ x[2] \in Nat /\ x[2] \div BlockSize < Len(table[x[1]])
    BY <2>1
  <2>3. x[1] = r /\ x[2] = p
    BY <2>1, <2>2, CellsApart
  <2> QED
    BY <2>1, <2>3
<1>3. r \in S /\ p \in P[r] => <<r, p>> \in Stores(S, P, b, o)
  BY DEF Stores
<1>4. Found(AfterStore(cache, S, P), table[r], p) =
        IF Stores(S, P, b, o) = {} THEN cache[b][o]
        ELSE CHOOSE x \in Stores(S, P, b, o) : TRUE
  BY <1>1 DEF Found, AfterStore
<1>5. Found(cache, table[r], p) = cache[b][o]
  BY DEF Found
<1>6. Stores(S, P, b, o) # {} =>
        (CHOOSE x \in Stores(S, P, b, o) : TRUE) \in Stores(S, P, b, o)
  OBVIOUS
<1> HIDE DEF b, o
<1> QED
  BY <1>2, <1>3, <1>4, <1>5, <1>6
-----------------------------------------------------------------------------
LEMMA InitInd == Init => Ind
<1> SUFFICES ASSUME Init PROVE Ind
  OBVIOUS
<1>1. \A r \in Requests : stage[r] = "new" /\ table[r] = <<>>
  BY DEF Init
<1>2. TypeOK
  <2>1. [b \in Blocks |-> [o \in Offsets |-> Stale]] \in [Blocks -> Cells]
    BY DEF Cells, Tokens
  <2>2. [r \in Requests |-> CHOOSE w \in Workers : TRUE] \in [Requests -> Workers]
    BY WorkersAssumption
  <2>3. pcache \in [Workers -> [Blocks -> Cells]]
    BY <2>1 DEF Init
  <2>4. /\ table \in [Requests -> Seq(Blocks)] /\ buf \in [Requests -> Seq(Cells)]
        /\ stream \in Seq(Requests \X Seq(Blocks))
    BY DEF Init
  <2>5. stage \in [Requests -> Stages] /\ computed \in [Requests -> Nat]
    BY DEF Init, Stages
  <2> QED
    BY <2>1, <2>2, <2>3, <2>4, <2>5 DEF Init, TypeOK
<1>3. TablesApart
  BY <1>1 DEF TablesApart
<1>4. Prompted /\ InPrefillCache /\ InBuffer /\ ReadsOwnKV
  BY <1>1 DEF Prompted, InPrefillCache, InBuffer, ReadsOwnKV, Prompting, Prefilled, In
<1>5. Queued /\ Arriving /\ Came /\ Slotted
  BY DEF Init, Queued, Arriving, Came, Slotted
<1> QED
  BY <1>2, <1>3, <1>4, <1>5 DEF Ind

(* What Ind says of a request in a stage with a prompt stored.             *)
LEMMA PromptCells ==
  ASSUME Ind, NEW r \in Requests, stage[r] \in Prompting, NEW p \in Positions(r)
  PROVE  p \in Nat /\ p \div BlockSize < Len(table[r])
BY PromptFits DEF Ind, Prompted

LEMMA RunningCells ==
  ASSUME Ind, NEW r \in In("running"), NEW p \in 0 .. computed[r] - 1
  PROVE  r \in Requests /\ p \in Nat /\ p \div BlockSize < Len(table[r])
BY DEF Ind, TypeOK, ReadsOwnKV, In

LEMMA FiredPending ==
  ASSUME Ind, NEW r \in fired
  PROVE  r \in Requests /\ stage[r] = "pending" /\ stage[r] \in Prefilled
         /\ stage[r] \in Prompting
BY DEF Ind, TypeOK, In, Prefilled, Prompting
-----------------------------------------------------------------------------
(* What a step leaves alone when it does not touch the decode worker's     *)
(* cache and only takes requests out of the decode batch.                  *)
LEMMA DecodeFrame ==
  ASSUME Ind,
         dcache' = dcache, stream' = stream, copied' = copied, fired' = fired,
         \A q \in Requests : stage[q] = "pending" => stage'[q] = "pending",
         \A q \in Requests : stage'[q] \in {"pending", "running"} =>
           table'[q] = table[q] /\ computed'[q] = computed[q],
         \A q \in Requests : stage'[q] = "running" => stage[q] = "running"
  PROVE  Queued' /\ Arriving' /\ Came' /\ ReadsOwnKV'
<1> USE DEF Ind
<1>1. \A i \in DOMAIN stream : stream[i][1] \in Requests /\ stage[stream[i][1]] = "pending"
  BY DEF Queued, TypeOK
<1>2. Queued'
  BY <1>1 DEF Queued
<1>3. Arriving'
  <2> SUFFICES ASSUME stream # <<>>
               PROVE  \A p \in Positions(stream[1][1]) : p \div BlockSize < copied =>
                        Found(dcache, table'[stream[1][1]], p) = <<stream[1][1], p>>
    BY DEF Arriving, Found, BlockAt
  <2>1. 1 \in DOMAIN stream
    BY DEF TypeOK
  <2> QED
    BY <1>1, <2>1 DEF Arriving
<1>4. Came'
  <2> SUFFICES ASSUME NEW r \in fired, NEW p \in Positions(r)
               PROVE  Found(dcache, table'[r], p) = <<r, p>>
    BY DEF Came, Found, BlockAt
  <2> QED
    BY FiredPending DEF Came
<1>5. ReadsOwnKV'
  <2> SUFFICES ASSUME NEW r \in In("running")', NEW p \in 0 .. computed'[r] - 1
               PROVE  /\ p \div BlockSize < Len(table'[r])
                      /\ Found(dcache, table'[r], p) = <<r, p>>
    BY DEF ReadsOwnKV, Found, BlockAt
  <2>1. r \in In("running") /\ table'[r] = table[r] /\ computed'[r] = computed[r]
    BY DEF In
  <2> QED
    BY <2>1 DEF ReadsOwnKV
<1> QED
  BY <1>2, <1>3, <1>4, <1>5

(* The same for the prefill side.                                          *)
LEMMA PrefillFrame ==
  ASSUME Ind, pcache' = pcache, on' = on, buf' = buf,
         \A q \in Requests : stage'[q] \in Prefilled =>
           /\ stage[q] \in Prefilled
           /\ stage[q] = "stored" => stage'[q] = "stored"
           /\ table'[q] = table[q]
  PROVE  InPrefillCache' /\ InBuffer'
<1> USE DEF Ind
<1>1. InPrefillCache'
  <2> SUFFICES ASSUME NEW r \in Requests, stage'[r] \in Prefilled, NEW p \in Positions(r)
               PROVE  Found(pcache[on[r]], table'[r], p) = <<r, p>>
    BY DEF InPrefillCache, Found, BlockAt
  <2> QED
    BY DEF InPrefillCache
<1>2. InBuffer'
  BY DEF InBuffer
<1> QED
  BY <1>1, <1>2

(* Tables that are kept or dropped stay apart.                             *)
LEMMA TableFrame ==
  ASSUME Ind,
         \A q \in Requests : table'[q] \in {table[q], <<>>},
         \A q \in Requests : stage'[q] \in {"new", "gone"} => table'[q] = <<>>,
         \A b \in free' : b \in free \/ \E q \in Requests : b \in Range(table[q]) /\ table'[q] = <<>>
  PROVE  TablesApart'
<1> USE DEF Ind
<1>1. \A r, q \in Requests : \A i \in DOMAIN table'[r], j \in DOMAIN table'[q] :
        table'[r][i] = table'[q][j] => r = q /\ i = j
  BY DEF TablesApart
<1>2. ASSUME NEW r \in Requests, NEW i \in DOMAIN table'[r] PROVE table'[r][i] \notin free'
  <2>1. table'[r] = table[r]
    BY <1>2
  <2>2. table[r][i] \notin free
    BY <1>2, <2>1 DEF TablesApart
  <2>3. ASSUME NEW q \in Requests, table[r][i] \in Range(table[q]), table'[q] = <<>>
        PROVE  FALSE
    <3>1. PICK j \in DOMAIN table[q] : table[q][j] = table[r][i]
      BY <2>3 DEF Range
    <3>2. q = r
      BY <1>2, <2>1, <3>1 DEF TablesApart
    <3> QED
      BY <1>2, <2>3, <3>2
  <2> QED
    BY <2>1, <2>2, <2>3
<1> QED
  BY <1>1, <1>2 DEF TablesApart
-----------------------------------------------------------------------------
LEMMA AllocateInd ==
  ASSUME Ind, NEW w \in Workers, NEW r \in Requests, Allocate(w, r)
  PROVE  Ind'
<1> USE DEF Ind
<1>1. PICK t \in [1 .. PromptBlocks(r) -> free] :
        /\ \A i, j \in DOMAIN t : t[i] = t[j] => i = j
        /\ table' = [table EXCEPT ![r] = t]
        /\ free' = free \ Range(t)
  BY DEF Allocate
<1>2. /\ stage[r] = "new" /\ stage' = [stage EXCEPT ![r] = "allocated"]
      /\ on' = [on EXCEPT ![r] = w]
      /\ computed' = computed /\ dcache' = dcache /\ pcache' = pcache /\ buf' = buf
      /\ stream' = stream /\ copied' = copied /\ fired' = fired
      /\ dpc' = dpc /\ todo' = todo
  BY DEF Allocate, streamVars, decodeVars
<1>3. /\ t \in Seq(Blocks) /\ Len(t) = PromptBlocks(r)
      /\ DOMAIN t = 1 .. PromptBlocks(r) /\ \A i \in DOMAIN t : t[i] \in free
  <2>1. PromptBlocks(r) \in Nat
    BY BlockSizeAssumption, PromptLenAssumption DEF PromptBlocks
  <2>2. t \in [1 .. PromptBlocks(r) -> Blocks]
    BY DEF TypeOK
  <2>3. t \in Seq(Blocks)
    BY <2>1, <2>2
  <2> QED
    BY <2>1, <2>2, <2>3
<1>4. /\ table'[r] = t /\ \A q \in Requests \ {r} : table'[q] = table[q]
      /\ stage'[r] = "allocated" /\ \A q \in Requests \ {r} : stage'[q] = stage[q]
      /\ \A q \in Requests \ {r} : on'[q] = on[q]
  BY <1>1, <1>2 DEF TypeOK
<1>5. In("pending")' = In("pending") /\ In("running")' = In("running")
  BY <1>2, <1>4 DEF In
<1>6. TypeOK'
  BY <1>1, <1>2, <1>3, <1>5 DEF TypeOK, Stages
<1>7. TablesApart'
  <2>1. \A q \in Requests : stage'[q] \in {"new", "gone"} => table'[q] = <<>>
    BY <1>4 DEF TablesApart
  <2>2. \A q \in Requests : \A i \in DOMAIN table'[q] : table'[q][i] \notin free'
    BY <1>1, <1>3, <1>4 DEF TablesApart, Range
  <2>3. \A q, x \in Requests : \A i \in DOMAIN table'[q], j \in DOMAIN table'[x] :
          table'[q][i] = table'[x][j] => q = x /\ i = j
    BY <1>1, <1>3, <1>4 DEF TablesApart
  <2> QED
    BY <2>1, <2>2, <2>3 DEF TablesApart
<1>8. Prompted'
  BY <1>2, <1>3, <1>4 DEF Prompted, Prompting, Prefilled
<1>9. InPrefillCache' /\ InBuffer'
  BY <1>2, <1>4 DEF InPrefillCache, InBuffer, Prefilled, Found, BlockAt
<1>10. Queued' /\ Arriving' /\ Came' /\ ReadsOwnKV'
  BY <1>2, <1>4, DecodeFrame
<1>11. Slotted'
  <2>1. \A q \in In("running") : table'[q] = table[q]
    BY <1>2, <1>4 DEF In
  <2> QED
    BY <1>2, <1>5, <2>1 DEF Slotted
<1> QED
  BY <1>6, <1>7, <1>8, <1>9, <1>10, <1>11

LEMMA RefuseInd ==
  ASSUME Ind, NEW w \in Workers, NEW r \in Requests, Refuse(w, r)
  PROVE  Ind'
<1> USE DEF Ind
<1> DEFINE S == Batch(w, "allocated")
<1>1. PICK st \in {"new", "gone"} : stage' = Move(S, st)
  BY DEF Refuse
<1>2. /\ table' = TableAfter(S) /\ free' = free /\ computed' = computed
      /\ dcache' = dcache /\ on' = on /\ pcache' = pcache /\ buf' = buf
      /\ stream' = stream /\ copied' = copied /\ fired' = fired
      /\ dpc' = dpc /\ todo' = todo
  BY DEF Refuse, prefillVars, streamVars, decodeVars
<1>3. /\ \A q \in S : q \in Requests /\ stage[q] = "allocated" /\ stage'[q] = st /\ table'[q] = <<>>
      /\ \A q \in Requests \ S : stage'[q] = stage[q] /\ table'[q] = table[q]
  BY <1>1, <1>2 DEF Move, TableAfter, Batch
<1> HIDE DEF S
<1>4. In("pending")' = In("pending") /\ In("running")' = In("running")
  BY <1>3 DEF In
<1>5. TypeOK'
  <2>1. stage' \in [Requests -> Stages]
    BY <1>1 DEF Move, TypeOK, Stages
  <2>2. table' \in [Requests -> Seq(Blocks)]
    BY <1>2 DEF TableAfter, TypeOK
  <2> QED
    BY <1>2, <1>4, <2>1, <2>2 DEF TypeOK
<1>6. TablesApart'
  <2>1. \A q \in Requests : table'[q] \in {table[q], <<>>}
    BY <1>3
  <2>2. \A q \in Requests : stage'[q] \in {"new", "gone"} => table'[q] = <<>>
    BY <1>3 DEF TablesApart
  <2> QED
    BY <1>2, <2>1, <2>2, TableFrame
<1>7. Prompted'
  BY <1>2, <1>3 DEF Prompted, Prompting, Prefilled
<1>8. InPrefillCache' /\ InBuffer'
  <2>1. \A q \in Requests : stage'[q] \in Prefilled => stage'[q] = stage[q] /\ table'[q] = table[q]
    BY <1>3 DEF Prefilled
  <2> QED
    BY <1>2, <2>1, PrefillFrame
<1>9. Queued' /\ Arriving' /\ Came' /\ ReadsOwnKV'
  BY <1>2, <1>3, DecodeFrame
<1>10. Slotted'
  <2>1. \A q \in In("running") : table'[q] = table[q]
    BY <1>3 DEF In
  <2> QED
    BY <1>2, <1>4, <2>1 DEF Slotted
<1> QED
  BY <1>5, <1>6, <1>7, <1>8, <1>9, <1>10

LEMMA PrefillForwardInd ==
  ASSUME Ind, NEW w \in Workers, PrefillForward(w)
  PROVE  Ind'
<1> USE DEF Ind
<1> DEFINE S == Batch(w, "allocated")
           P == [r \in S |-> Positions(r)]
<1>1. /\ pcache' = [pcache EXCEPT ![w] = AfterStore(pcache[w], S, P)]
      /\ computed' = [r \in Requests |-> IF r \in S THEN PromptLen[r] ELSE computed[r]]
      /\ stage' = Move(S, "stored")
      /\ free' = free /\ table' = table /\ dcache' = dcache /\ on' = on /\ buf' = buf
      /\ stream' = stream /\ copied' = copied /\ fired' = fired
      /\ dpc' = dpc /\ todo' = todo
  BY DEF PrefillForward, poolVars, streamVars, decodeVars
<1>2. S \subseteq Requests /\ \A q \in S : stage[q] = "allocated" /\ on[q] = w
  BY DEF Batch
<1>3. /\ \A q \in S : stage'[q] = "stored" /\ computed'[q] = PromptLen[q]
      /\ \A q \in Requests \ S : stage'[q] = stage[q] /\ computed'[q] = computed[q]
  BY <1>1, <1>2 DEF Move
<1>4. \A q \in S : /\ P[q] \subseteq Nat
                   /\ \A p \in P[q] : p \div BlockSize < Len(table[q])
  <2> SUFFICES ASSUME NEW q \in S, NEW p \in Positions(q)
               PROVE  p \in Nat /\ p \div BlockSize < Len(table[q])
    OBVIOUS
  <2> QED
    BY <1>2, PromptCells DEF Prompting
<1>5. \A r \in S : P[r] = Positions(r)
  OBVIOUS
<1> HIDE DEF S, P
<1>6. In("pending")' = In("pending") /\ In("running")' = In("running")
  BY <1>2, <1>3 DEF In
<1>7. TypeOK'
  <2>1. stage' \in [Requests -> Stages]
    BY <1>1 DEF Move, TypeOK, Stages
  <2>2. computed' \in [Requests -> Nat]
    BY <1>1, PromptLenAssumption DEF TypeOK
  <2>3. AfterStore(pcache[w], S, P) \in [Blocks -> Cells]
    <3>1. pcache[w] \in [Blocks -> Cells]
      BY DEF TypeOK
    <3> QED
      BY <1>2, <1>4, <3>1, StoreTyped
  <2>4. pcache' \in [Workers -> [Blocks -> Cells]]
    BY <1>1, <2>3 DEF TypeOK
  <2> QED
    BY <1>1, <1>6, <2>1, <2>2, <2>4 DEF TypeOK
<1>8. TablesApart'
  <2>1. \A q \in Requests : stage'[q] \in {"new", "gone"} => table[q] = <<>>
    BY <1>3 DEF TablesApart
  <2> QED
    BY <1>1, <2>1 DEF TablesApart
<1>9. Prompted'
  <2>1. \A r \in Requests : stage'[r] \in Prompting => Len(table[r]) = PromptBlocks(r)
    BY <1>2, <1>3 DEF Prompted, Prompting
  <2>2. \A r \in Requests : stage'[r] \in Prefilled => computed'[r] = PromptLen[r]
    BY <1>3 DEF Prompted
  <2> QED
    BY <1>1, <2>1, <2>2 DEF Prompted
<1>10. InPrefillCache'
  <2> SUFFICES ASSUME NEW r \in Requests, stage'[r] \in Prefilled, NEW p \in Positions(r)
               PROVE  Found(pcache'[on[r]], table[r], p) = <<r, p>>
    BY <1>1 DEF InPrefillCache, Found, BlockAt
  <2>1. stage[r] \in Prompting
    BY <1>2, <1>3 DEF Prompting
  <2>2. p \in Nat /\ p \div BlockSize < Len(table[r])
    BY <2>1, PromptCells
  <2>3. r \in S => on[r] = w /\ p \in P[r]
    BY <1>2, <1>5
  <2>4. r \notin S => Found(pcache[on[r]], table[r], p) = <<r, p>>
    BY <1>3 DEF InPrefillCache
  <2>5. pcache'[on[r]] = IF on[r] = w THEN AfterStore(pcache[w], S, P) ELSE pcache[on[r]]
    BY <1>1 DEF TypeOK
  <2>6. on[r] = w => Found(AfterStore(pcache[w], S, P), table[r], p) = <<r, p>>
    <3>1. pcache[w] \in [Blocks -> Cells]
      BY DEF TypeOK
    <3>2. on[r] = w => (r \in S /\ p \in P[r]) \/ Found(pcache[w], table[r], p) = <<r, p>>
      BY <2>3, <2>4
    <3>3. S \in SUBSET Requests
      BY <1>2
    <3> QED
      BY <1>4, <2>2, <3>1, <3>2, <3>3, StoreLands
  <2> QED
    BY <2>3, <2>4, <2>5, <2>6
<1>11. InBuffer'
  BY <1>1, <1>3 DEF InBuffer, Prefilled
<1>12. Queued' /\ Arriving' /\ Came' /\ ReadsOwnKV'
  BY <1>1, <1>2, <1>3, DecodeFrame
<1>13. Slotted'
  <2>1. \A q \in In("running") : computed'[q] = computed[q]
    BY <1>2, <1>3 DEF In
  <2> QED
    BY <1>1, <1>6, <2>1 DEF Slotted
<1> QED
  BY <1>7, <1>8, <1>9, <1>10, <1>11, <1>12, <1>13

LEMMA ExtractInd ==
  ASSUME Ind, NEW r \in Requests, Extract(r)
  PROVE  Ind'
<1> USE DEF Ind
<1>1. /\ stage[r] = "stored"
      /\ buf' = [buf EXCEPT ![r] = [i \in DOMAIN table[r] |-> pcache[on[r]][table[r][i]]]]
      /\ stage' = [stage EXCEPT ![r] = "extracted"]
      /\ free' = free /\ table' = table /\ computed' = computed /\ dcache' = dcache
      /\ on' = on /\ pcache' = pcache
      /\ stream' = stream /\ copied' = copied /\ fired' = fired
      /\ dpc' = dpc /\ todo' = todo
  BY DEF Extract, poolVars, streamVars, decodeVars
<1>2. stage'[r] = "extracted" /\ \A q \in Requests \ {r} : stage'[q] = stage[q]
  BY <1>1 DEF TypeOK
<1>3. In("pending")' = In("pending") /\ In("running")' = In("running")
  BY <1>1, <1>2 DEF In
<1>4. /\ buf'[r] = [i \in DOMAIN table[r] |-> pcache[on[r]][table[r][i]]]
      /\ \A q \in Requests \ {r} : buf'[q] = buf[q]
  BY <1>1 DEF TypeOK
<1>5. TypeOK'
  <2>1. [i \in DOMAIN table[r] |-> pcache[on[r]][table[r][i]]] \in Seq(Cells)
    <3>1. table[r] \in Seq(Blocks) /\ pcache[on[r]] \in [Blocks -> Cells]
      BY DEF TypeOK
    <3> QED
      BY <3>1
  <2>2. buf' \in [Requests -> Seq(Cells)]
    BY <1>1, <2>1 DEF TypeOK
  <2> QED
    BY <1>1, <1>3, <2>2 DEF TypeOK, Stages
<1>6. TablesApart'
  <2>1. \A q \in Requests : stage'[q] \in {"new", "gone"} => table[q] = <<>>
    BY <1>2 DEF TablesApart
  <2> QED
    BY <1>1, <2>1 DEF TablesApart
<1>7. Prompted'
  BY <1>1, <1>2 DEF Prompted, Prompting, Prefilled
<1>8. InPrefillCache'
  <2>1. \A q \in Requests : stage'[q] \in Prefilled => stage[q] \in Prefilled
    BY <1>1, <1>2 DEF Prefilled
  <2> QED
    BY <1>1, <2>1 DEF InPrefillCache, Found, BlockAt
<1>9. InBuffer'
  <2> SUFFICES ASSUME NEW q \in Requests, stage'[q] \in Prefilled \ {"stored"}
               PROVE  /\ DOMAIN buf'[q] = DOMAIN table[q]
                      /\ \A p \in Positions(q) :
                           buf'[q][p \div BlockSize + 1][p % BlockSize] = <<q, p>>
    BY <1>1 DEF InBuffer
  <2>1. CASE q = r
    <3> SUFFICES ASSUME NEW p \in Positions(r)
                 PROVE  buf'[r][p \div BlockSize + 1][p % BlockSize] = <<r, p>>
      BY <1>4, <2>1
    <3>1. p \in Nat /\ p \div BlockSize < Len(table[r])
      BY <1>1, <2>1, PromptCells DEF Prompting, Prefilled
    <3>2. p \div BlockSize + 1 \in DOMAIN table[r]
      BY <3>1, CellOfTable
    <3>3. Found(pcache[on[r]], table[r], p) = <<r, p>>
      BY <1>1, <2>1 DEF InPrefillCache, Prefilled
    <3> QED
      BY <1>4, <2>1, <3>2, <3>3 DEF Found, BlockAt
  <2>2. CASE q # r
    BY <1>2, <1>4, <2>2 DEF InBuffer
  <2> QED
    BY <2>1, <2>2
<1>10. Queued' /\ Arriving' /\ Came' /\ ReadsOwnKV'
  BY <1>1, <1>2, DecodeFrame
<1>11. Slotted'
  BY <1>1, <1>3 DEF Slotted
<1> QED
  BY <1>5, <1>6, <1>7, <1>8, <1>9, <1>10, <1>11

LEMMA DeliverInd ==
  ASSUME Ind, NEW w \in Workers, Deliver(w)
  PROVE  Ind'
<1> USE DEF Ind
<1> DEFINE S == Batch(w, "extracted")
<1>1. /\ stage' = Move(S, "done")
      /\ free' = free /\ table' = table /\ computed' = computed /\ dcache' = dcache
      /\ on' = on /\ pcache' = pcache /\ buf' = buf
      /\ stream' = stream /\ copied' = copied /\ fired' = fired
      /\ dpc' = dpc /\ todo' = todo
  BY DEF Deliver, poolVars, prefillVars, streamVars, decodeVars
<1>2. /\ \A q \in S : q \in Requests /\ stage[q] = "extracted" /\ stage'[q] = "done"
      /\ \A q \in Requests \ S : stage'[q] = stage[q]
  BY <1>1 DEF Move, Batch
<1> HIDE DEF S
<1>3. In("pending")' = In("pending") /\ In("running")' = In("running")
  BY <1>2 DEF In
<1>4. TypeOK'
  <2>1. stage' \in [Requests -> Stages]
    BY <1>1 DEF Move, TypeOK, Stages
  <2> QED
    BY <1>1, <1>3, <2>1 DEF TypeOK
<1>5. \A q \in Requests : /\ stage'[q] \in {"new", "gone"} => stage[q] = stage'[q]
                          /\ stage'[q] \in Prompting => stage[q] \in Prompting
                          /\ stage'[q] \in Prefilled => stage[q] \in Prefilled
                          /\ stage[q] = "stored" => stage'[q] = "stored"
  BY <1>2 DEF Prompting, Prefilled
<1>6. TablesApart' /\ Prompted'
  BY <1>1, <1>5 DEF TablesApart, Prompted
<1>7. InPrefillCache' /\ InBuffer'
  BY <1>1, <1>5, PrefillFrame
<1>8. Queued' /\ Arriving' /\ Came' /\ ReadsOwnKV'
  BY <1>1, <1>2, DecodeFrame
<1>9. Slotted'
  BY <1>1, <1>3 DEF Slotted
<1> QED
  BY <1>4, <1>6, <1>7, <1>8, <1>9
-----------------------------------------------------------------------------
(* Requests of the decode batch leave it and their blocks are freed.       *)
LEMMA LeaveInd ==
  ASSUME Ind, NEW S \in SUBSET In("running"), Leave(S),
         computed' = computed, dcache' = dcache,
         on' = on, pcache' = pcache, buf' = buf,
         stream' = stream, copied' = copied, fired' = fired,
         dpc' \in {"enforce", "flush"}, todo' = {}
  PROVE  Ind'
<1> USE DEF Ind
<1>1. stage' = Move(S, "gone") /\ free' = FreeAfter(S) /\ table' = TableAfter(S)
  BY DEF Leave
<1>2. /\ \A q \in S : /\ q \in Requests /\ stage[q] = "running"
                      /\ stage'[q] = "gone" /\ table'[q] = <<>>
      /\ \A q \in Requests \ S : stage'[q] = stage[q] /\ table'[q] = table[q]
  BY <1>1 DEF Move, TableAfter, In
<1>3. In("pending")' = In("pending")
  BY <1>2 DEF In
<1>4. TypeOK'
  <2>1. stage' \in [Requests -> Stages]
    BY <1>1 DEF Move, TypeOK, Stages
  <2>2. table' \in [Requests -> Seq(Blocks)]
    BY <1>1 DEF TableAfter, TypeOK
  <2>3. free' \subseteq Blocks
    <3>1. \A q \in S : Range(table[q]) \subseteq Blocks
      BY <1>2 DEF TypeOK, Range
    <3> QED
      BY <1>1, <3>1 DEF FreeAfter, TypeOK
  <2> QED
    BY <1>3, <2>1, <2>2, <2>3 DEF TypeOK
<1>5. TablesApart'
  <2>1. \A q \in Requests : table'[q] \in {table[q], <<>>}
    BY <1>2
  <2>2. \A q \in Requests : stage'[q] \in {"new", "gone"} => table'[q] = <<>>
    BY <1>2 DEF TablesApart
  <2>3. \A b \in free' : \/ b \in free
                       \/ \E q \in Requests : b \in Range(table[q]) /\ table'[q] = <<>>
    BY <1>1, <1>2 DEF FreeAfter
  <2> QED
    BY <2>1, <2>2, <2>3, TableFrame
<1>6. \A q \in Requests : stage'[q] \in Prompting \cup {"running"} =>
        stage'[q] = stage[q] /\ table'[q] = table[q]
  BY <1>2 DEF Prompting, Prefilled
<1>7. Prompted'
  BY <1>6 DEF Prompted, Prompting
<1>8. InPrefillCache' /\ InBuffer'
  BY <1>6, PrefillFrame DEF Prompting
<1>9. Queued' /\ Arriving' /\ Came' /\ ReadsOwnKV'
  <2>1. \A q \in Requests : stage[q] = "pending" => stage'[q] = "pending"
    BY <1>2
  <2>2. \A q \in Requests : stage'[q] \in {"pending", "running"} =>
          stage'[q] = stage[q] /\ table'[q] = table[q]
    BY <1>6 DEF Prompting, Prefilled
  <2> QED
    BY <2>1, <2>2, DecodeFrame
<1>10. Slotted'
  BY DEF Slotted
<1> QED
  BY <1>4, <1>5, <1>7, <1>8, <1>9, <1>10

LEMMA EvictInd ==
  ASSUME Ind, NEW r \in Requests, Evict(r)
  PROVE  Ind'
<1>1. {r} \in SUBSET In("running")
  BY DEF Evict, Evictable, In
<1> QED
  BY <1>1, LeaveInd DEF Evict, prefillVars, streamVars

LEMMA EnforceInd ==
  ASSUME Ind, Enforce
  PROVE  Ind'
<1>1. AtLimit \in SUBSET In("running")
  BY DEF AtLimit
<1> QED
  BY <1>1, LeaveInd DEF Enforce, prefillVars, streamVars

LEMMA PromoteEndInd ==
  ASSUME Ind, PromoteEnd
  PROVE  Ind'
<1> USE DEF Ind
<1>1. /\ free' = free /\ table' = table /\ stage' = stage /\ computed' = computed
      /\ dcache' = dcache /\ on' = on /\ pcache' = pcache /\ buf' = buf
      /\ stream' = stream /\ copied' = copied /\ fired' = fired
      /\ dpc' \in {"append", "enforce"} /\ todo' = In("running")
  BY DEF PromoteEnd, poolVars, prefillVars, streamVars
<1>2. TypeOK'
  BY <1>1 DEF TypeOK, In
<1>3. TablesApart' /\ Prompted'
  BY <1>1 DEF TablesApart, Prompted
<1>4. InPrefillCache' /\ InBuffer'
  BY <1>1, PrefillFrame
<1>5. Queued' /\ Arriving' /\ Came' /\ ReadsOwnKV'
  BY <1>1, DecodeFrame
<1>6. Slotted'
  BY <1>1 DEF Slotted, In
<1> QED
  BY <1>2, <1>3, <1>4, <1>5, <1>6


LEMMA HeadQueued ==
  ASSUME Ind, stream # <<>>
  PROVE  /\ Head(stream) = stream[1] /\ 1 \in DOMAIN stream
         /\ stream[1][1] \in Requests /\ stage[stream[1][1]] = "pending"
         /\ stream[1][2] = table[stream[1][1]] /\ stream[1][1] \notin fired
<1>1. Head(stream) = stream[1] /\ 1 \in DOMAIN stream /\ stream[1][1] \in Requests
  BY DEF Ind, TypeOK
<1> QED
  BY <1>1 DEF Ind, Queued

LEMMA FireEventInd ==
  ASSUME Ind, FireEvent
  PROVE  Ind'
<1> USE DEF Ind
<1> DEFINE r == stream[1][1]
<1>1. /\ stream # <<>> /\ stream' = Tail(stream) /\ copied' = 0
      /\ free' = free /\ table' = table /\ stage' = stage /\ computed' = computed
      /\ dcache' = dcache /\ on' = on /\ pcache' = pcache /\ buf' = buf
      /\ dpc' = dpc /\ todo' = todo
  BY DEF FireEvent, poolVars, prefillVars, decodeVars
<1>2. /\ Head(stream) = stream[1] /\ r \in Requests /\ stage[r] = "pending"
      /\ stream[1][2] = table[r]
  BY <1>1, HeadQueued
<1>3. fired' = fired \cup {r} /\ copied = Len(table[r])
  BY <1>2 DEF FireEvent
<1> HIDE DEF r
<1>4. TypeOK'
  <2>1. stream' \in Seq(Requests \X Seq(Blocks))
    BY <1>1 DEF TypeOK
  <2>2. fired' \subseteq In("pending")'
    BY <1>1, <1>2, <1>3 DEF TypeOK, In
  <2> QED
    BY <1>1, <2>1, <2>2 DEF TypeOK
<1>5. TablesApart' /\ Prompted'
  BY <1>1 DEF TablesApart, Prompted
<1>6. InPrefillCache' /\ InBuffer'
  BY <1>1, PrefillFrame
<1>7. Queued'
  <2>1. \A i \in DOMAIN stream' : /\ i + 1 \in DOMAIN stream /\ i + 1 # 1
                                  /\ stream'[i] = stream[i + 1] /\ i \in Int
    <3>1. stream \in Seq(Requests \X Seq(Blocks)) /\ stream # <<>>
      BY <1>1 DEF TypeOK
    <3>2. /\ Len(stream) \in Nat /\ DOMAIN stream = 1 .. Len(stream)
          /\ DOMAIN Tail(stream) = 1 .. Len(stream) - 1
          /\ \A i \in 1 .. Len(stream) - 1 : Tail(stream)[i] = stream[i + 1]
      BY <3>1
    <3> QED
      BY <1>1, <3>2
  <2>2. 1 \in DOMAIN stream
    BY <1>1, HeadQueued
  <2>3. \A i \in DOMAIN stream' : stream'[i][1] # r
    BY <2>1, <2>2 DEF Queued, r
  <2>4. \A i \in DOMAIN stream' : /\ stage'[stream'[i][1]] = "pending"
                                  /\ stream'[i][2] = table'[stream'[i][1]]
                                  /\ stream'[i][1] \notin fired'
    BY <1>1, <1>3, <2>1, <2>3 DEF Queued
  <2>5. \A i, j \in DOMAIN stream' : stream'[i][1] = stream'[j][1] => i = j
    <3> SUFFICES ASSUME NEW i \in DOMAIN stream', NEW j \in DOMAIN stream',
                        stream'[i][1] = stream'[j][1]
                 PROVE  i = j
      OBVIOUS
    <3>1. i + 1 = j + 1
      BY <2>1 DEF Queued
    <3> QED
      BY <2>1, <3>1
  <2> QED
    BY <1>1, <2>4, <2>5 DEF Queued
<1>8. Arriving'
  <2>1. \A q : \A p \in Positions(q) : ~(p \div BlockSize < 0)
    <3> SUFFICES ASSUME NEW p \in Nat PROVE ~(p \div BlockSize < 0)
      BY DEF Positions
    <3> QED
      BY DivMod
  <2> QED
    BY <1>1, <2>1 DEF Arriving
<1>9. Came'
  <2> SUFFICES ASSUME NEW q \in fired', NEW p \in Positions(q)
               PROVE  Found(dcache, table[q], p) = <<q, p>>
    BY <1>1 DEF Came, Found, BlockAt
  <2>1. CASE q = r
    <3>1. p \div BlockSize < copied
      BY <1>2, <1>3, <2>1, PromptCells DEF Prompting, Prefilled
    <3> QED
      BY <1>1, <2>1, <3>1 DEF Arriving, r
  <2>2. CASE q # r
    BY <1>3, <2>2 DEF Came
  <2> QED
    BY <2>1, <2>2
<1>10. ReadsOwnKV' /\ Slotted'
  BY <1>1 DEF ReadsOwnKV, Slotted, In, Found, BlockAt
<1> QED
  BY <1>4, <1>5, <1>6, <1>7, <1>8, <1>9, <1>10

LEMMA CopyBlockInd ==
  ASSUME Ind, CopyBlock
  PROVE  Ind'
<1> USE DEF Ind
<1> DEFINE r == stream[1][1]
           t == table[r]
<1>1. /\ stream # <<>> /\ copied' = copied + 1 /\ stream' = stream /\ fired' = fired
      /\ free' = free /\ table' = table /\ stage' = stage /\ computed' = computed
      /\ on' = on /\ pcache' = pcache /\ buf' = buf
      /\ dpc' = dpc /\ todo' = todo
  BY DEF CopyBlock, poolVars, prefillVars, decodeVars
<1>2. /\ Head(stream) = stream[1] /\ r \in Requests /\ stage[r] = "pending"
      /\ stream[1][2] = t /\ r \notin fired
  BY <1>1, HeadQueued
<1>3. /\ copied < Len(t)
      /\ dcache' = [dcache EXCEPT ![t[copied + 1]] = Source(r, t, copied + 1)]
  BY <1>2 DEF CopyBlock
<1>4. t \in Seq(Blocks) /\ copied \in Nat /\ copied + 1 \in DOMAIN t /\ t[copied + 1] \in Blocks
  BY <1>2, <1>3 DEF TypeOK
<1> HIDE DEF r, t
<1>5. Source(r, t, copied + 1) \in Cells
  <2>1. buf[r] \in Seq(Cells) /\ copied + 1 \in DOMAIN buf[r]
    BY <1>2, <1>4 DEF InBuffer, Prefilled, TypeOK, t
  <2>2. pcache[on[r]] \in [Blocks -> Cells]
    BY <1>2 DEF TypeOK
  <2> QED
    BY <1>4, <2>1, <2>2 DEF Source
<1>6. dcache' \in [Blocks -> Cells]
  BY <1>3, <1>5 DEF TypeOK
<1>7. ASSUME NEW q \in Requests, NEW p \in Nat, p \div BlockSize < Len(table[q]),
             ~(q = r /\ p \div BlockSize = copied)
      PROVE  Found(dcache', table[q], p) = Found(dcache, table[q], p)
  <2>1. p \div BlockSize + 1 \in DOMAIN table[q] /\ BlockAt(table[q], p) \in Blocks
    BY <1>7, CellOfTable
  <2>2. BlockAt(table[q], p) # t[copied + 1]
    <3>1. p \div BlockSize \in Nat
      BY DivMod
    <3>2. BlockAt(table[q], p) = t[copied + 1] => q = r /\ p \div BlockSize + 1 = copied + 1
      BY <1>2, <1>4, <2>1 DEF TablesApart, BlockAt, t
    <3> QED
      BY <1>4, <1>7, <3>1, <3>2
  <2> QED
    BY <1>3, <2>1, <2>2 DEF Found, TypeOK
<1>8. TypeOK'
  BY <1>1, <1>4, <1>6 DEF TypeOK, In
<1>9. TablesApart' /\ Prompted' /\ Queued' /\ Slotted'
  BY <1>1 DEF TablesApart, Prompted, Queued, Slotted, In
<1>10. InPrefillCache' /\ InBuffer'
  BY <1>1, PrefillFrame
<1>11. Arriving'
  <2> SUFFICES ASSUME NEW p \in Positions(r), p \div BlockSize < copied + 1
               PROVE  Found(dcache', t, p) = <<r, p>>
    BY <1>1 DEF Arriving, r, t, Found, BlockAt
  <2>1. p \in Nat /\ p \div BlockSize \in Nat /\ p \div BlockSize < Len(t)
    BY <1>2, PromptCells, DivMod DEF Prompting, Prefilled, t
  <2>2. CASE p \div BlockSize = copied
    <3>1. Source(r, t, copied + 1)[p % BlockSize] = <<r, p>>
      BY <1>2, <2>2 DEF InPrefillCache, InBuffer, Prefilled, Source, Found, BlockAt, t
    <3> QED
      BY <1>3, <1>4, <2>2, <3>1 DEF Found, BlockAt, TypeOK
  <2>3. CASE p \div BlockSize # copied
    <3>1. Found(dcache, t, p) = <<r, p>>
      BY <1>1, <1>4, <2>1, <2>3 DEF Arriving, r, t
    <3> QED
      BY <1>2, <1>7, <2>1, <2>3, <3>1 DEF t
  <2> QED
    BY <2>2, <2>3
<1>12. Came'
  <2> SUFFICES ASSUME NEW q \in fired, NEW p \in Positions(q)
               PROVE  Found(dcache', table[q], p) = <<q, p>>
    BY <1>1 DEF Came, Found, BlockAt
  <2>1. q # r /\ q \in Requests /\ p \in Nat /\ p \div BlockSize < Len(table[q])
    BY <1>2, FiredPending, PromptCells
  <2>2. Found(dcache, table[q], p) = <<q, p>>
    BY DEF Came
  <2> QED
    BY <1>7, <2>1, <2>2
<1>13. ReadsOwnKV'
  <2> SUFFICES ASSUME NEW q \in In("running"), NEW p \in 0 .. computed[q] - 1
               PROVE  /\ p \div BlockSize < Len(table[q])
                      /\ Found(dcache', table[q], p) = <<q, p>>
    BY <1>1 DEF ReadsOwnKV, In, Found, BlockAt
  <2>1. q # r /\ q \in Requests /\ p \in Nat /\ p \div BlockSize < Len(table[q])
    BY <1>2, RunningCells DEF In
  <2>2. Found(dcache, table[q], p) = <<q, p>>
    BY DEF ReadsOwnKV
  <2> QED
    BY <1>7, <2>1, <2>2
<1> QED
  BY <1>8, <1>9, <1>10, <1>11, <1>12, <1>13

LEMMA PromoteInd ==
  ASSUME Ind, NEW r \in Requests, Promote(r)
  PROVE  Ind'
<1> USE DEF Ind
<1>1. /\ dpc \in {"promote", "repromote"} /\ todo' = todo \ {r}
      /\ free' = free /\ table' = table /\ computed' = computed
      /\ dcache' = dcache /\ on' = on /\ pcache' = pcache /\ buf' = buf
      /\ stream' = stream /\ copied' = copied /\ dpc' = dpc
  BY DEF Promote, poolVars, prefillVars
<1>2. CASE r \notin fired
  <2>1. stage' = stage /\ fired' = fired
    BY <1>2 DEF Promote, Ready
  <2>2. TypeOK'
    BY <1>1, <2>1 DEF TypeOK, In
  <2>3. TablesApart' /\ Prompted'
    BY <1>1, <2>1 DEF TablesApart, Prompted
  <2>4. InPrefillCache' /\ InBuffer'
    BY <1>1, <2>1, PrefillFrame
  <2>5. Queued' /\ Arriving' /\ Came' /\ ReadsOwnKV'
    BY <1>1, <2>1, DecodeFrame
  <2>6. Slotted'
    BY <1>1 DEF Slotted
  <2> QED
    BY <2>2, <2>3, <2>4, <2>5, <2>6
<1>3. CASE r \in fired
  <2>1. stage' = [stage EXCEPT ![r] = "running"] /\ fired' = fired \ {r}
    BY <1>3 DEF Promote, Ready
  <2>2. /\ stage[r] = "pending" /\ stage'[r] = "running"
        /\ \A q \in Requests \ {r} : stage'[q] = stage[q]
    BY <1>3, <2>1, FiredPending DEF TypeOK
  <2>3. TypeOK'
    <3>1. fired' \subseteq In("pending")'
      BY <2>1, <2>2 DEF In, TypeOK
    <3>2. stage' \in [Requests -> Stages]
      BY <2>1 DEF TypeOK, Stages
    <3> QED
      BY <1>1, <3>1, <3>2 DEF TypeOK
  <2>4. \A q \in Requests : stage'[q] \in {"new", "gone"} \cup Prompting => stage'[q] = stage[q]
    BY <2>2 DEF Prompting, Prefilled
  <2>5. TablesApart' /\ Prompted'
    BY <1>1, <2>4 DEF TablesApart, Prompted, Prompting
  <2>6. InPrefillCache' /\ InBuffer'
    BY <1>1, <2>4, PrefillFrame DEF Prompting
  <2>7. Queued'
    <3>1. \A i \in DOMAIN stream : stream[i][1] # r /\ stream[i][1] \in Requests
      BY <1>3 DEF Queued, TypeOK
    <3> QED
      BY <1>1, <2>1, <2>2, <3>1 DEF Queued
  <2>8. Arriving' /\ Came'
    BY <1>1, <2>1 DEF Arriving, Came, Found, BlockAt
  <2>9. ReadsOwnKV'
    <3> SUFFICES ASSUME NEW q \in In("running")', NEW p \in 0 .. computed[q] - 1
                 PROVE  /\ p \div BlockSize < Len(table[q])
                        /\ Found(dcache, table[q], p) = <<q, p>>
      BY <1>1 DEF ReadsOwnKV, Found, BlockAt
    <3>1. CASE q = r
      <4>1. p \in Positions(r)
        BY <2>2, <3>1 DEF Prompted, Prefilled, Positions
      <4> QED
        BY <1>3, <3>1, <4>1, FiredPending, PromptCells DEF Came
    <3>2. CASE q # r
      <4>1. q \in In("running")
        BY <2>2, <3>2 DEF In
      <4> QED
        BY <4>1 DEF ReadsOwnKV
    <3> QED
      BY <3>1, <3>2
  <2>10. Slotted'
    BY <1>1 DEF Slotted
  <2> QED
    BY <2>3, <2>5, <2>6, <2>7, <2>8, <2>9, <2>10
<1> QED
  BY <1>2, <1>3


LEMMA FlushInd ==
  ASSUME Ind, Flush
  PROVE  Ind'
<1> USE DEF Ind
<1> DEFINE S == In("done")
<1>1. PICK q \in Orders(S) :
        stream' = stream \o [i \in DOMAIN q |-> <<q[i], table[q[i]]>>]
  BY DEF Flush
<1>2. /\ stage' = Move(S, "pending") /\ todo' = In("pending") \cup S /\ dpc' = "promote"
      /\ free' = free /\ table' = table /\ computed' = computed
      /\ dcache' = dcache /\ on' = on /\ pcache' = pcache /\ buf' = buf
      /\ copied' = copied /\ fired' = fired
  BY DEF Flush, poolVars, prefillVars
<1>3. /\ \A r \in S : r \in Requests /\ stage[r] = "done" /\ stage'[r] = "pending"
      /\ \A r \in Requests \ S : stage'[r] = stage[r]
  BY <1>2 DEF Move, In
<1> DEFINE n == Len(stream)
           m == Cardinality(S)
           new == [i \in DOMAIN q |-> <<q[i], table[q[i]]>>]
<1>4. /\ m \in Nat /\ q \in [1 .. m -> S] /\ DOMAIN q = 1 .. m
      /\ \A i, j \in 1 .. m : q[i] = q[j] => i = j
  <2>1. IsFiniteSet(S)
    <3>1. S \subseteq Requests
      BY DEF In
    <3> QED
      BY <3>1, RequestsAssumption, FS_Subset
  <2>2. m \in Nat
    BY <2>1, FS_CardinalityType
  <2>3. q \in [1 .. m -> S] /\ IsInjective(q)
    BY DEF Orders
  <2> QED
    BY <2>2, <2>3 DEF IsInjective
<1>5. S \subseteq Requests /\ n \in Nat /\ DOMAIN stream = 1 .. n
      /\ stream \in Seq(Requests \X Seq(Blocks))
  BY DEF In, TypeOK
<1> HIDE DEF S, m
<1>6. new \in Seq(Requests \X Seq(Blocks)) /\ Len(new) = m
  <2>1. \A i \in 1 .. m : <<q[i], table[q[i]]>> \in Requests \X Seq(Blocks)
    BY <1>4, <1>5 DEF TypeOK
  <2>2. new = [i \in 1 .. m |-> <<q[i], table[q[i]]>>]
    BY <1>4
  <2> QED
    BY <1>4, <2>1, <2>2
<1>7. stream' \in Seq(Requests \X Seq(Blocks)) /\ Len(stream') = n + m
  BY <1>1, <1>5, <1>6
<1>8. /\ DOMAIN stream' = 1 .. n + m
      /\ \A i \in 1 .. n : stream'[i] = stream[i]
  BY <1>1, <1>5, <1>6, <1>7
<1>9. \A i \in n + 1 .. n + m : /\ i - n \in 1 .. m
                                /\ stream'[i] = <<q[i - n], table[q[i - n]]>>
  <2> SUFFICES ASSUME NEW i \in n + 1 .. n + m
               PROVE  i - n \in 1 .. m /\ stream'[i] = <<q[i - n], table[q[i - n]]>>
    OBVIOUS
  <2>1. i - n \in 1 .. m /\ i \in Int /\ i > n
    BY <1>4, <1>5
  <2>2. stream'[i] = new[i - n]
    BY <1>1, <1>4, <1>5, <1>6, <2>1
  <2>3. new[i - n] = <<q[i - n], table[q[i - n]]>>
    BY <1>4, <2>1
  <2> QED
    BY <2>1, <2>2, <2>3
<1> HIDE DEF n, new
<1>10. \A i \in DOMAIN stream' :
         \/ i \in DOMAIN stream /\ stream'[i] = stream[i]
         \/ /\ i \in n + 1 .. n + m /\ i - n \in 1 .. m
            /\ stream'[i] = <<q[i - n], table[q[i - n]]>> /\ q[i - n] \in S
  <2>1. \A i \in 1 .. n + m : i \in 1 .. n \/ i \in n + 1 .. n + m
    BY <1>4, <1>5
  <2> QED
    BY <1>4, <1>5, <1>8, <1>9, <2>1
<1>11. TypeOK'
  <2>1. stage' \in [Requests -> Stages]
    BY <1>2 DEF Move, TypeOK, Stages
  <2>2. fired' \subseteq In("pending")'
    BY <1>2, <1>3 DEF TypeOK, In
  <2>3. todo' \subseteq Requests
    BY <1>2, <1>5 DEF In
  <2> QED
    BY <1>2, <1>7, <2>1, <2>2, <2>3 DEF TypeOK
<1>12. \A r \in Requests : /\ stage'[r] \in {"new", "gone", "running", "stored"} =>
                                stage'[r] = stage[r]
                           /\ stage[r] \in {"pending", "running", "stored"} =>
                                stage'[r] = stage[r]
                           /\ stage'[r] \in Prompting => stage[r] \in Prompting
                           /\ stage'[r] \in Prefilled => stage[r] \in Prefilled
  BY <1>3 DEF Prompting, Prefilled
<1>13. TablesApart' /\ Prompted'
  BY <1>2, <1>12 DEF TablesApart, Prompted
<1>14. InPrefillCache' /\ InBuffer'
  BY <1>2, <1>12, PrefillFrame
<1>15. Queued'
  <2>1. \A i \in DOMAIN stream : stream[i][1] \in Requests /\ stage[stream[i][1]] = "pending"
    BY DEF Queued, TypeOK
  <2>2. \A r \in S : r \notin fired
    <3> SUFFICES ASSUME NEW r \in S, r \in fired PROVE FALSE
      OBVIOUS
    <3> QED
      BY <1>3, FiredPending
  <2>3. \A i \in DOMAIN stream' : /\ stage'[stream'[i][1]] = "pending"
                                  /\ stream'[i][2] = table'[stream'[i][1]]
                                  /\ stream'[i][1] \notin fired'
    <3> SUFFICES ASSUME NEW i \in DOMAIN stream'
                 PROVE  /\ stage'[stream'[i][1]] = "pending"
                        /\ stream'[i][2] = table[stream'[i][1]]
                        /\ stream'[i][1] \notin fired
      BY <1>2
    <3>1. CASE i \in DOMAIN stream /\ stream'[i] = stream[i]
      BY <1>12, <2>1, <3>1 DEF Queued
    <3>2. CASE stream'[i] = <<q[i - n], table[q[i - n]]>> /\ q[i - n] \in S
      BY <1>3, <2>2, <3>2
    <3> QED
      BY <1>10, <3>1, <3>2
  <2>4. \A i, j \in DOMAIN stream' : stream'[i][1] = stream'[j][1] => i = j
    <3> SUFFICES ASSUME NEW i \in DOMAIN stream', NEW j \in DOMAIN stream',
                        stream'[i][1] = stream'[j][1]
                 PROVE  i = j
      OBVIOUS
    <3> DEFINE Old(x) == x \in DOMAIN stream /\ stream'[x] = stream[x]
               New(x) == /\ x \in n + 1 .. n + m /\ x - n \in 1 .. m
                         /\ stream'[x][1] = q[x - n] /\ q[x - n] \in S
    <3>1. (Old(i) \/ New(i)) /\ (Old(j) \/ New(j))
      BY <1>10
    <3>2. ASSUME NEW x, NEW y, Old(x), New(y), stream'[x][1] = stream'[y][1] PROVE FALSE
      BY <1>3, <2>1, <3>2
    <3>3. CASE Old(i) /\ Old(j)
      BY <3>3 DEF Queued
    <3>4. CASE New(i) /\ New(j)
      <4>1. i - n = j - n
        BY <1>4, <3>4
      <4> QED
        BY <1>4, <1>5, <3>4, <4>1
    <3> HIDE DEF Old, New
    <3> QED
      BY <3>1, <3>2, <3>3, <3>4
  <2>5. stream' = <<>> => copied' = 0
    <3>1. stream' = <<>> => n + m = 0
      BY <1>7
    <3>2. n = 0 => stream = <<>>
      BY <1>5 DEF n
    <3> QED
      BY <1>2, <1>4, <1>5, <3>1, <3>2 DEF Queued
  <2> QED
    BY <2>3, <2>4, <2>5 DEF Queued
<1>16. Arriving'
  <2>1. CASE stream = <<>>
    <3>1. copied' = 0
      BY <1>2, <2>1 DEF Queued
    <3>2. \A r : \A p \in Positions(r) : ~(p \div BlockSize < 0)
      <4> SUFFICES ASSUME NEW p \in Nat PROVE ~(p \div BlockSize < 0)
        BY DEF Positions
      <4> QED
        BY DivMod
    <3> QED
      BY <3>1, <3>2 DEF Arriving
  <2>2. CASE stream # <<>>
    <3>1. stream'[1] = stream[1]
      BY <1>5, <1>8, <2>2, HeadQueued
    <3> QED
      BY <1>2, <2>2, <3>1 DEF Arriving, Found, BlockAt
  <2> QED
    BY <2>1, <2>2
<1>17. Came'
  BY <1>2 DEF Came, Found, BlockAt
<1>18. ReadsOwnKV'
  <2>1. In("running")' = In("running")
    BY <1>12 DEF In
  <2> QED
    BY <1>2, <2>1 DEF ReadsOwnKV, Found, BlockAt
<1>19. Slotted'
  BY <1>2 DEF Slotted
<1> QED
  BY <1>11, <1>13, <1>14, <1>15, <1>16, <1>17, <1>18, <1>19


(* The block of a position is at most one behind that of the position      *)
(* before it.                                                              *)
LEMMA NextBlock ==
  ASSUME NEW c \in Nat, c > 0
  PROVE  c \div BlockSize <= (c - 1) \div BlockSize + 1
<1>1. /\ c \div BlockSize \in Nat /\ (c - 1) \div BlockSize \in Nat
      /\ c - 1 \in Nat
  BY DivMod
<1>2. /\ c >= BlockSize * (c \div BlockSize)
      /\ c - 1 < BlockSize * ((c - 1) \div BlockSize) + BlockSize
  BY BlockSizeAssumption
<1> QED
  BY <1>1, <1>2, BlockSizeAssumption

LEMMA AppendSlotInd ==
  ASSUME Ind, NEW r \in Requests, AppendSlot(r)
  PROVE  Ind'
<1> USE DEF Ind
<1>1. /\ dpc = "append" /\ r \in todo /\ todo' = todo \ {r} /\ dpc' = dpc
      /\ stage' = stage /\ computed' = computed
      /\ dcache' = dcache /\ on' = on /\ pcache' = pcache /\ buf' = buf
      /\ stream' = stream /\ copied' = copied /\ fired' = fired
  BY DEF AppendSlot, prefillVars, streamVars
<1>2. stage[r] = "running" /\ r \in In("running")
  BY <1>1 DEF Slotted, In
<1>3. In("pending")' = In("pending") /\ In("running")' = In("running")
  BY <1>1 DEF In
<1>4. computed[r] \div BlockSize <= Len(table[r])
  <2>1. computed[r] \in Nat /\ Len(table[r]) \in Nat /\ computed[r] \div BlockSize \in Nat
    BY DivMod DEF TypeOK
  <2>2. CASE computed[r] = 0
    BY <2>1, <2>2, BlockSizeAssumption
  <2>3. CASE computed[r] > 0
    <3>1. computed[r] - 1 \in 0 .. computed[r] - 1 /\ computed[r] - 1 \in Nat
      BY <2>1, <2>3
    <3>2. (computed[r] - 1) \div BlockSize < Len(table[r])
      BY <1>2, <3>1 DEF ReadsOwnKV
    <3>3. computed[r] \div BlockSize <= (computed[r] - 1) \div BlockSize + 1
      BY <2>1, <2>3, NextBlock
    <3>4. (computed[r] - 1) \div BlockSize \in Nat
      BY <3>1, DivMod
    <3> QED
      BY <2>1, <3>2, <3>3, <3>4
  <2> QED
    BY <2>1, <2>2, <2>3
(* What is left to show when the other tables are as before and r's is     *)
(* longer at most.                                                         *)
<1>5. ASSUME TypeOK', TablesApart',
             \A q \in Requests \ {r} : table'[q] = table[q],
             \A i \in DOMAIN table[r] : i \in DOMAIN table'[r] /\ table'[r][i] = table[r][i],
             Len(table'[r]) >= Len(table[r]), computed[r] \div BlockSize < Len(table'[r])
      PROVE  Ind'
  <2>1. \A q \in Requests : stage'[q] \in Prompting => table'[q] = table[q]
    BY <1>1, <1>2, <1>5 DEF Prompting, Prefilled
  <2>2. Prompted'
    BY <1>1, <2>1 DEF Prompted, Prompting
  <2>3. InPrefillCache' /\ InBuffer'
    BY <1>1, <2>1, PrefillFrame DEF Prompting
  <2>4. Queued' /\ Arriving' /\ Came'
    <3>1. \A i \in DOMAIN stream : stream[i][1] \in Requests /\ stage[stream[i][1]] \in Prompting
      BY DEF Queued, TypeOK, Prompting, Prefilled
    <3>2. Queued'
      BY <1>1, <2>1, <3>1 DEF Queued
    <3>3. Arriving'
      <4>1. stream # <<>> => table'[stream[1][1]] = table[stream[1][1]]
        BY <1>1, <2>1, <3>1, HeadQueued
      <4> QED
        BY <1>1, <4>1 DEF Arriving, Found, BlockAt
    <3>4. Came'
      <4>1. \A q \in fired : table'[q] = table[q]
        <5> SUFFICES ASSUME NEW q \in fired PROVE table'[q] = table[q]
          OBVIOUS
        <5> QED
          BY <1>1, <2>1, FiredPending
      <4> QED
        BY <1>1, <4>1 DEF Came, Found, BlockAt
    <3> QED
      BY <3>2, <3>3, <3>4
  <2>5. ReadsOwnKV'
    <3> SUFFICES ASSUME NEW q \in In("running"), NEW p \in 0 .. computed[q] - 1
                 PROVE  /\ p \div BlockSize < Len(table'[q])
                        /\ Found(dcache, table'[q], p) = <<q, p>>
      BY <1>1, <1>3 DEF ReadsOwnKV, Found, BlockAt
    <3>0. q \in Requests /\ p \in Nat /\ p \div BlockSize < Len(table[q])
      BY RunningCells
    <3>1. p \div BlockSize \in Nat /\ Len(table[q]) \in Nat /\ Len(table'[r]) \in Nat
      <4>1. table[q] \in Seq(Blocks) /\ table'[r] \in Seq(Blocks)
        BY <1>5, <3>0 DEF TypeOK
      <4>2. Len(table[q]) \in Nat /\ Len(table'[r]) \in Nat
        BY <4>1
      <4>3. p \div BlockSize \in Nat
        BY <3>0, DivMod
      <4> QED
        BY <4>2, <4>3
    <3>2. p \div BlockSize + 1 \in DOMAIN table[q]
      BY <3>0, CellOfTable
    <3>3. Found(dcache, table[q], p) = <<q, p>>
      BY DEF ReadsOwnKV
    <3>4. CASE q = r
      BY <1>5, <3>0, <3>1, <3>2, <3>3, <3>4 DEF Found, BlockAt
    <3>5. CASE q # r
      BY <1>5, <3>0, <3>1, <3>3, <3>5 DEF Found, BlockAt
    <3> QED
      BY <3>4, <3>5
  <2>6. Slotted'
    <3> SUFFICES /\ todo' \subseteq In("running")
                 /\ \A q \in In("running") \ todo' : computed[q] \div BlockSize < Len(table'[q])
      BY <1>1, <1>3 DEF Slotted
    <3>1. todo' \subseteq In("running")
      BY <1>1 DEF Slotted
    <3>2. ASSUME NEW q \in In("running") \ todo'
          PROVE  computed[q] \div BlockSize < Len(table'[q])
      <4>1. CASE q = r
        BY <1>5, <4>1
      <4>2. CASE q # r
        BY <1>1, <1>5, <3>2, <4>2 DEF Slotted, In
      <4> QED
        BY <4>1, <4>2
    <3> QED
      BY <3>1, <3>2
  <2> QED
    BY <1>5, <2>2, <2>3, <2>4, <2>5, <2>6
<1>6. CASE NeedsBlock(r)
  <2>1. PICK b \in free : free' = free \ {b} /\ table' = [table EXCEPT ![r] = Append(@, b)]
    BY <1>6 DEF AppendSlot
  <2>2. b \in Blocks /\ table[r] \in Seq(Blocks)
    BY DEF TypeOK
  <2>3. /\ table'[r] = Append(table[r], b)
        /\ \A q \in Requests \ {r} : table'[q] = table[q]
    BY <2>1 DEF TypeOK
  <2>4. /\ table'[r] \in Seq(Blocks) /\ Len(table'[r]) = Len(table[r]) + 1
        /\ Len(table[r]) \in Nat
        /\ DOMAIN table'[r] = 1 .. Len(table[r]) + 1 /\ DOMAIN table[r] = 1 .. Len(table[r])
        /\ table'[r][Len(table[r]) + 1] = b
        /\ \A i \in DOMAIN table[r] : table'[r][i] = table[r][i]
    BY <2>2, <2>3
  <2>5. \A i \in DOMAIN table'[r] : i \in DOMAIN table[r] \/ (table'[r][i] = b /\ i = Len(table[r]) + 1)
    BY <2>4
  <2>6. TypeOK'
    <3>1. table' \in [Requests -> Seq(Blocks)]
      BY <2>1, <2>2, <2>3, <2>4 DEF TypeOK
    <3> QED
      BY <1>1, <1>3, <2>1, <3>1 DEF TypeOK
  <2>7. TablesApart'
    <3>1. \A q \in Requests : stage'[q] \in {"new", "gone"} => table'[q] = <<>>
      BY <1>1, <1>2, <2>3 DEF TablesApart
    <3>2. \A q \in Requests : \A i \in DOMAIN table'[q] :
            \/ i \in DOMAIN table[q] /\ table'[q][i] = table[q][i]
            \/ q = r /\ i = Len(table[r]) + 1 /\ table'[q][i] = b
      BY <2>3, <2>4, <2>5
    <3>3. \A q \in Requests : \A i \in DOMAIN table[q] : table[q][i] # b
      BY <2>1 DEF TablesApart
    <3>4. \A q \in Requests : \A i \in DOMAIN table'[q] : table'[q][i] \notin free'
      BY <2>1, <3>2 DEF TablesApart
    <3>5. \A q, x \in Requests : \A i \in DOMAIN table'[q], j \in DOMAIN table'[x] :
            table'[q][i] = table'[x][j] => q = x /\ i = j
      BY <3>2, <3>3 DEF TablesApart
    <3> QED
      BY <3>1, <3>4, <3>5 DEF TablesApart
  <2>8. computed[r] \div BlockSize < Len(table'[r]) /\ Len(table'[r]) >= Len(table[r])
    <3>1. computed[r] \div BlockSize \in Nat
      BY DivMod DEF TypeOK
    <3> QED
      BY <1>4, <2>4, <3>1
  <2>9. \A i \in DOMAIN table[r] : i \in DOMAIN table'[r] /\ table'[r][i] = table[r][i]
    BY <2>4
  <2> HIDE DEF Ind
  <2> QED
    BY <1>5, <2>3, <2>6, <2>7, <2>8, <2>9
<1>7. CASE ~NeedsBlock(r)
  <2>1. free' = free /\ table' = table
    BY <1>7 DEF AppendSlot, poolVars
  <2>2. TypeOK' /\ TablesApart'
    BY <1>1, <1>3, <2>1 DEF TypeOK, TablesApart
  <2>3. computed[r] \div BlockSize < Len(table[r])
    <3>1. computed[r] \div BlockSize \in Nat /\ Len(table[r]) \in Nat
      BY DivMod DEF TypeOK
    <3> QED
      BY <1>7, <3>1 DEF NeedsBlock
  <2>4. Len(table[r]) \in Nat
    BY DEF TypeOK
  <2> HIDE DEF Ind
  <2> QED
    BY <1>5, <2>1, <2>2, <2>3, <2>4
<1> QED
  BY <1>6, <1>7

LEMMA ForwardInd ==
  ASSUME Ind, Forward
  PROVE  Ind'
<1> USE DEF Ind
<1> DEFINE S == In("running")
           P == [r \in S |-> {computed[r]}]
<1>1. PICK eos \in SUBSET S : /\ Leave(eos)
                              /\ dpc' = IF eos = {} THEN "enforce" ELSE "repromote"
                              /\ todo' = IF eos = {} THEN {} ELSE In("pending")
  BY DEF Forward
<1>2. /\ dpc = "append" /\ todo = {}
      /\ dcache' = AfterStore(dcache, S, P)
      /\ computed' = [r \in Requests |-> IF r \in S THEN computed[r] + 1 ELSE computed[r]]
      /\ on' = on /\ pcache' = pcache /\ buf' = buf
      /\ stream' = stream /\ copied' = copied /\ fired' = fired
  BY DEF Forward, prefillVars, streamVars
<1>3. stage' = Move(eos, "gone") /\ free' = FreeAfter(eos) /\ table' = TableAfter(eos)
  BY <1>1 DEF Leave
<1>4. /\ \A q \in S : q \in Requests /\ stage[q] = "running"
      /\ \A q \in Requests : stage[q] = "running" => q \in S
  BY DEF In
<1>5. /\ \A q \in eos : /\ q \in Requests /\ stage[q] = "running"
                        /\ stage'[q] = "gone" /\ table'[q] = <<>>
      /\ \A q \in Requests \ eos : stage'[q] = stage[q] /\ table'[q] = table[q]
  BY <1>1, <1>3, <1>4 DEF Move, TableAfter
<1>6. /\ S \in SUBSET Requests
      /\ \A q \in S : /\ P[q] \subseteq Nat
                      /\ \A p \in P[q] : p \div BlockSize < Len(table[q])
  BY <1>2, <1>4 DEF Slotted, TypeOK
<1>7. \A q \in S : P[q] = {computed[q]}
  OBVIOUS
<1> HIDE DEF S, P
<1>8. dcache' \in [Blocks -> Cells]
  BY <1>2, <1>6, StoreTyped DEF TypeOK
<1>9. ASSUME NEW q \in Requests, NEW p \in Nat, p \div BlockSize < Len(table[q]),
             (q \in S /\ p \in P[q]) \/ Found(dcache, table[q], p) = <<q, p>>
      PROVE  Found(dcache', table[q], p) = <<q, p>>
  <2>1. dcache \in [Blocks -> Cells] /\ TypeOK /\ TablesApart
    BY DEF TypeOK
  <2> HIDE DEF Ind
  <2> QED
    BY <1>2, <1>6, <1>9, <2>1, StoreLands
<1>10. In("pending")' = In("pending")
  BY <1>5 DEF In
<1>11. TypeOK'
  <2>1. stage' \in [Requests -> Stages]
    BY <1>3 DEF Move, TypeOK, Stages
  <2>2. table' \in [Requests -> Seq(Blocks)]
    BY <1>3 DEF TableAfter, TypeOK
  <2>3. free' \subseteq Blocks
    <3>1. \A q \in eos : Range(table[q]) \subseteq Blocks
      BY <1>5 DEF TypeOK, Range
    <3> QED
      BY <1>3, <3>1 DEF FreeAfter, TypeOK
  <2>4. computed' \in [Requests -> Nat]
    BY <1>2 DEF TypeOK
  <2>5. todo' \subseteq Requests
    BY <1>1 DEF In
  <2>6. dpc' \in {"flush", "promote", "append", "repromote", "enforce"}
    BY <1>1
  <2> QED
    BY <1>2, <1>8, <1>10, <2>1, <2>2, <2>3, <2>4, <2>5, <2>6 DEF TypeOK
<1>12. TablesApart'
  <2>1. \A q \in Requests : table'[q] \in {table[q], <<>>}
    BY <1>5
  <2>2. \A q \in Requests : stage'[q] \in {"new", "gone"} => table'[q] = <<>>
    BY <1>5 DEF TablesApart
  <2>3. \A b \in free' : \/ b \in free
                       \/ \E q \in Requests : b \in Range(table[q]) /\ table'[q] = <<>>
    BY <1>3, <1>5 DEF FreeAfter
  <2> QED
    BY <2>1, <2>2, <2>3, TableFrame
<1>13. \A q \in Requests : stage'[q] \in Prompting =>
         stage'[q] = stage[q] /\ table'[q] = table[q] /\ computed'[q] = computed[q]
  <2> SUFFICES ASSUME NEW q \in Requests, stage'[q] \in Prompting
               PROVE  stage'[q] = stage[q] /\ table'[q] = table[q] /\ computed'[q] = computed[q]
    OBVIOUS
  <2>1. stage'[q] \notin {"running", "gone"}
    BY DEF Prompting, Prefilled
  <2>2. q \notin eos /\ q \notin S
    BY <1>4, <1>5, <2>1
  <2> QED
    BY <1>2, <1>5, <2>2
<1>14. Prompted'
  BY <1>13 DEF Prompted, Prompting
<1>15. InPrefillCache' /\ InBuffer'
  BY <1>2, <1>13, PrefillFrame DEF Prompting
<1>16. \A q \in Requests : stage[q] = "pending" => stage'[q] = "pending" /\ table'[q] = table[q]
  BY <1>5
<1>17. Queued'
  <2>1. \A i \in DOMAIN stream : stream[i][1] \in Requests /\ stage[stream[i][1]] = "pending"
    BY DEF Queued, TypeOK
  <2> QED
    BY <1>2, <1>16, <2>1 DEF Queued
<1>18. Arriving'
  <2> DEFINE r == stream[1][1]
  <2> SUFFICES ASSUME stream # <<>>, NEW p \in Positions(r), p \div BlockSize < copied
               PROVE  Found(dcache', table'[r], p) = <<r, p>>
    BY <1>2 DEF Arriving, Found, BlockAt
  <2>1. r \in Requests /\ stage[r] = "pending"
    BY HeadQueued
  <2>2. table'[r] = table[r]
    BY <1>16, <2>1
  <2>3. Found(dcache, table[r], p) = <<r, p>>
    BY DEF Arriving
  <2>4. p \in Nat /\ p \div BlockSize < Len(table[r])
    BY <2>1, PromptCells DEF Prompting, Prefilled
  <2> HIDE DEF r
  <2> QED
    BY <1>9, <2>1, <2>2, <2>3, <2>4
<1>19. Came'
  <2> SUFFICES ASSUME NEW q \in fired, NEW p \in Positions(q)
               PROVE  Found(dcache', table'[q], p) = <<q, p>>
    BY <1>2 DEF Came, Found, BlockAt
  <2>1. /\ q \in Requests /\ p \in Nat /\ p \div BlockSize < Len(table[q])
        /\ table'[q] = table[q]
    BY <1>16, FiredPending, PromptCells
  <2>2. Found(dcache, table[q], p) = <<q, p>>
    BY DEF Came
  <2> QED
    BY <1>9, <2>1, <2>2
<1>20. ReadsOwnKV'
  <2> SUFFICES ASSUME NEW q \in In("running")', NEW p \in 0 .. computed'[q] - 1
               PROVE  /\ p \div BlockSize < Len(table'[q])
                      /\ Found(dcache', table'[q], p) = <<q, p>>
    BY DEF ReadsOwnKV, Found, BlockAt
  <2>1. q \in Requests /\ stage'[q] = "running" /\ stage[q] = "running" /\ q \in S
        /\ q \in In("running")
    BY <1>4, <1>5 DEF In
  <2>2. table'[q] = table[q]
    BY <1>5, <2>1
  <2>3. computed'[q] = computed[q] + 1 /\ computed[q] \in Nat
    BY <1>2, <2>1 DEF TypeOK
  <2>4. CASE p = computed[q]
    <3>1. p \in P[q]
      BY <1>7, <2>1, <2>4
    <3>2. p \in Nat /\ p \div BlockSize < Len(table[q])
      BY <1>6, <2>1, <3>1
    <3> QED
      BY <1>9, <2>1, <2>2, <3>1, <3>2
  <2>5. CASE p # computed[q]
    <3>1. p \in 0 .. computed[q] - 1
      BY <2>3, <2>5
    <3>2. /\ p \in Nat /\ p \div BlockSize < Len(table[q])
          /\ Found(dcache, table[q], p) = <<q, p>>
      BY <2>1, <3>1, RunningCells DEF ReadsOwnKV
    <3> QED
      BY <1>9, <2>1, <2>2, <3>2
  <2> QED
    BY <2>4, <2>5
<1>21. Slotted'
  BY <1>1 DEF Slotted
<1> QED
  BY <1>11, <1>12, <1>14, <1>15, <1>17, <1>18, <1>19, <1>20, <1>21


LEMMA NextInd == Ind /\ [Next]_vars => Ind'
<1> SUFFICES ASSUME Ind, [Next]_vars PROVE Ind'
  OBVIOUS
<1>1. CASE \E w \in Workers, r \in Requests : Allocate(w, r) \/ Refuse(w, r)
  BY <1>1, AllocateInd, RefuseInd
<1>2. CASE \E w \in Workers : PrefillForward(w) \/ Deliver(w)
  BY <1>2, PrefillForwardInd, DeliverInd
<1>3. CASE \E r \in Requests : Extract(r) \/ Promote(r) \/ AppendSlot(r) \/ Evict(r)
  BY <1>3, ExtractInd, PromoteInd, AppendSlotInd, EvictInd
<1>4. CASE CopyBlock \/ FireEvent
  BY <1>4, CopyBlockInd, FireEventInd
<1>5. CASE Flush \/ PromoteEnd \/ Forward \/ Enforce
  BY <1>5, FlushInd, PromoteEndInd, ForwardInd, EnforceInd
<1>6. CASE UNCHANGED vars
  <2> USE <1>6 DEF Ind, vars, poolVars, prefillVars, streamVars, decodeVars
  <2>1. TypeOK'
    BY DEF TypeOK, In
  <2>2. TablesApart' /\ Prompted'
    BY DEF TablesApart, Prompted
  <2>3. InPrefillCache' /\ InBuffer'
    BY PrefillFrame
  <2>4. Queued' /\ Arriving' /\ Came' /\ ReadsOwnKV'
    BY DecodeFrame
  <2>5. Slotted'
    BY DEF Slotted, In
  <2> QED
    BY <2>1, <2>2, <2>3, <2>4, <2>5
<1> QED
  BY <1>1, <1>2, <1>3, <1>4, <1>5, <1>6 DEF Next

LEMMA Inductive == Spec => []Ind
<1>1. Init => Ind
  BY InitInd
<1>2. Ind /\ [Next]_vars => Ind'
  BY NextInd
<1> QED
  BY <1>1, <1>2, PTL DEF Spec

(* Every variable has its type in every reachable state; in particular     *)
(* only events of pending transfers have fired (record, query).            *)
THEOREM TypeCorrect == Spec => []TypeOK
<1>1. Ind => TypeOK
  BY DEF Ind
<1> QED
  BY <1>1, Inductive, PTL

(* Whatever number of requests and workers there is, however their stages  *)
(* interleave with the transfer stream and with the reuse of freed blocks: *)
(* the decode forward pass finds each running request's own keys and       *)
(* values where its block table says (decode_step, transfer_kv).           *)
THEOREM OwnKV == Spec => []ReadsOwnKV
<1>1. Ind => ReadsOwnKV
  BY DEF Ind
<1> QED
  BY <1>1, Inductive, PTL

(* A copy still queued on the transfer stream reads the prompt it was      *)
(* queued for, and writes blocks its request still has and nobody reads    *)
(* yet (transfer_kv, receive_kv_async).                                    *)
THEOREM SafeCopies == Spec => []CopiesSafe
<1>1. Ind => CopiesSafe
  <2> SUFFICES ASSUME Ind, NEW i \in DOMAIN stream
               PROVE  LET r == stream[i][1]
                          t == stream[i][2]
                      IN /\ stage[r] = "pending" /\ t = table[r]
                         /\ \A p \in Positions(r) :
                              Source(r, t, p \div BlockSize + 1)[p % BlockSize] = <<r, p>>
    BY DEF CopiesSafe
  <2> DEFINE r == stream[i][1]
             t == stream[i][2]
  <2>1. r \in Requests /\ stage[r] = "pending" /\ t = table[r]
    BY DEF Ind, Queued, TypeOK
  <2>2. stage[r] \in Prefilled /\ stage[r] \in Prefilled \ {"stored"}
    BY <2>1 DEF Prefilled
  <2> HIDE DEF r, t
  <2>3. \A p \in Positions(r) : pcache[on[r]][t[p \div BlockSize + 1]][p % BlockSize] = <<r, p>>
    BY <2>1, <2>2 DEF Ind, InPrefillCache, Found, BlockAt
  <2>4. \A p \in Positions(r) : buf[r][p \div BlockSize + 1][p % BlockSize] = <<r, p>>
    BY <2>1, <2>2 DEF Ind, InBuffer
  <2>5. \A p \in Positions(r) : Source(r, t, p \div BlockSize + 1)[p % BlockSize] = <<r, p>>
    BY <2>3, <2>4 DEF Source
  <2> QED
    BY <2>1, <2>5 DEF r, t
<1> QED
  BY <1>1, Inductive, PTL
=============================================================================
