--------------------------- MODULE CentralAmple_proofs ---------------------------
(***************************************************************************)
(* Theorems about CentralScheduler when the pool has room for all requests *)
(* at their full length: no prefill thread fails, so nobody is lost, no    *)
(* block leaks, results are final, the main thread survives, and the loop  *)
(* implements RequestService.                                              *)
(***************************************************************************)
EXTENDS CentralOutputs_proofs

(* The most blocks append_slot can give r: the last token is not fed.      *)
Need(r) == (PromptLen[r] + MaxTokens + BlockSize - 2) \div BlockSize
NeedOf == [r \in Requests |-> Need(r)]
Ample == MaxTokens > 1 /\ Sum(NeedOf, Requests) <= NumBlocks

LEMMA NeedNat ==
  ASSUME NEW r \in Requests
  PROVE  /\ Need(r) \in Nat /\ NeedOf[r] = Need(r)
         /\ PromptBlocks(r) \in Nat /\ PromptBlocks(r) <= Need(r)
<1>1. PromptLen[r] \in Nat /\ BlockSize \in Nat \ {0} /\ MaxTokens \in Nat \ {0} /\ PromptLen[r] >= 1
  BY PromptLenAssumption, SizesAssumption
<1> DEFINE p == PromptLen[r] + BlockSize - 1
           n == PromptLen[r] + MaxTokens + BlockSize - 2
<1>2. p \in Nat /\ n \in Nat /\ p <= n
  BY <1>1
<1> HIDE DEF p, n
<1>3. p \div BlockSize \in Nat /\ n \div BlockSize \in Nat /\ p \div BlockSize <= n \div BlockSize
  <2>1. /\ p \div BlockSize \in Nat /\ n \div BlockSize \in Nat
        /\ (p \div BlockSize) * BlockSize <= p
        /\ n < (n \div BlockSize + 1) * BlockSize
    BY <1>1, <1>2
  <2> DEFINE a == p \div BlockSize
             b == n \div BlockSize
  <2>2. a \in Nat /\ b \in Nat /\ a * BlockSize <= p /\ n < (b + 1) * BlockSize
    BY <2>1
  <2> HIDE DEF a, b
  <2>3. a <= b
    <3> SUFFICES ASSUME b + 1 <= a
                 PROVE  FALSE
      BY <2>2
    <3>1. (b + 1) * BlockSize <= a * BlockSize
      BY <1>1, <2>2
    <3>2. (b + 1) * BlockSize \in Nat /\ a * BlockSize \in Nat
      BY <1>1, <2>2
    <3> QED
      BY <1>2, <2>2, <3>1, <3>2
  <2> QED
    BY <2>1, <2>3 DEF a, b
<1> QED
  BY <1>3 DEF p, n, Need, NeedOf, PromptBlocks

(* Tables h and lists g fit into the need when each does, and no list is   *)
(* for a request that has a table or for one of another list.              *)
LEMMA Fits ==
  ASSUME NEW h, NEW g, NEW G,
         \A r \in Requests : h[r] \in Nat /\ h[r] <= NeedOf[r] /\ NeedOf[r] \in Nat,
         \A w \in Workers : g[w] \in Nat,
         \A w \in Workers : g[w] > 0 =>
            G[w] \in Requests /\ g[w] <= NeedOf[G[w]] /\ h[G[w]] = 0,
         \A w, v \in Workers : g[w] > 0 /\ g[v] > 0 /\ G[w] = G[v] => w = v
  PROVE  Sum(h, Requests) + Sum(g, Workers) <= Sum(NeedOf, Requests)
<1> DEFINE A == Things(h, Requests)
           B == Things(g, Workers)
           N == Things(NeedOf, Requests)
           f == [x \in B |-> <<G[x[1]], x[2]>>]
           C == {<<G[x[1]], x[2]>> : x \in B}
<1>1. /\ IsFiniteSet(A) /\ IsFiniteSet(B) /\ IsFiniteSet(N)
      /\ Sum(h, Requests) \in Nat /\ Sum(g, Workers) \in Nat /\ Sum(NeedOf, Requests) \in Nat
  BY RequestsAssumption, WorkersAssumption, SumNat
<1>2. \A x \in B : /\ x[1] \in Workers /\ x[2] \in 1 .. g[x[1]] /\ x = <<x[1], x[2]>>
                   /\ g[x[1]] > 0 /\ G[x[1]] \in Requests /\ x[2] \in Nat
  <2> TAKE x \in B
  <2>1. PICK w \in Workers : x \in {w} \X (1 .. g[w])
    BY DEF Things
  <2>2. x[1] = w /\ x[2] \in 1 .. g[w] /\ x = <<x[1], x[2]>>
    BY <2>1
  <2>3. g[w] \in Nat /\ g[w] > 0
    BY <2>2
  <2> QED
    BY <2>2, <2>3
<1>3. f \in Bijection(B, C)
  <2>1. f \in [B -> C] /\ \A c \in C : \E x \in B : f[x] = c
    OBVIOUS
  <2>2. ASSUME NEW x \in B, NEW y \in B, f[x] = f[y]
        PROVE  x = y
    <3>1. G[x[1]] = G[y[1]] /\ x[2] = y[2]
      BY <2>2
    <3>2. x[1] = y[1]
      BY <1>2, <3>1
    <3> QED
      BY <1>2, <3>1, <3>2
  <2> HIDE DEF f, C, B
  <2> QED
    BY <2>1, <2>2 DEF Bijection, Injection, Surjection, IsInjective
<1>4. A \cap C = {}
  <2> SUFFICES ASSUME NEW x \in B, <<G[x[1]], x[2]>> \in A
               PROVE  FALSE
    OBVIOUS
  <2>1. PICK r \in Requests : <<G[x[1]], x[2]>> \in {r} \X (1 .. h[r])
    BY DEF Things
  <2>2. G[x[1]] = r /\ x[2] \in 1 .. h[r]
    BY <2>1
  <2>3. h[r] = 0
    BY <1>2, <2>2
  <2> QED
    BY <2>2, <2>3
<1>5. A \cup C \subseteq N
  <2>1. ASSUME NEW a \in A
        PROVE  a \in N
    <3>1. PICK r \in Requests : a \in {r} \X (1 .. h[r])
      BY DEF Things
    <3>2. a \in {r} \X (1 .. NeedOf[r])
      BY <3>1
    <3> QED
      BY <3>2 DEF Things
  <2>2. ASSUME NEW x \in B
        PROVE  <<G[x[1]], x[2]>> \in N
    <3>1. x[2] \in 1 .. NeedOf[G[x[1]]] /\ G[x[1]] \in Requests
      BY <1>2
    <3>2. <<G[x[1]], x[2]>> \in {G[x[1]]} \X (1 .. NeedOf[G[x[1]]])
      BY <3>1
    <3> QED
      BY <3>1, <3>2 DEF Things
  <2> QED
    BY <2>1, <2>2
<1> HIDE DEF A, B, N, f, C
<1>6. ExistsBijection(B, C)
  BY <1>3 DEF ExistsBijection
<1>7. IsFiniteSet(C) /\ Cardinality(C) = Cardinality(B)
  BY <1>1, <1>6, FS_Bijection
<1>8. IsFiniteSet(A \cup C) /\ Cardinality(A \cup C) = Cardinality(A) + Cardinality(C)
  <2>1. Cardinality(A \cap C) = 0
    BY <1>4, FS_EmptySet
  <2>2. /\ IsFiniteSet(A \cup C)
        /\ Cardinality(A \cup C) = Cardinality(A) + Cardinality(C) - Cardinality(A \cap C)
    BY <1>1, <1>7, FS_Union, Zenon
  <2>3. Cardinality(A) \in Nat /\ Cardinality(C) \in Nat
    BY <1>1, <1>7, FS_CardinalityType
  <2> QED
    BY <2>1, <2>2, <2>3
<1>9. Cardinality(A \cup C) <= Cardinality(N)
  BY <1>1, <1>5, FS_Subset
<1> QED
  BY <1>7, <1>8, <1>9 DEF A, B, N, Sum
-----------------------------------------------------------------------------
(* The pool as an equation.                                                *)
AllBlocks(f, h, g) == f + Sum(h, Requests) + Sum(g, Workers)

LEMMA SumsPop ==
  ASSUME NEW f, NEW h, NEW g, PoolInv(f, h, g), NEW w \in Workers, NEW n,
         n[w] = g[w] + 1, \A y \in Workers \ {w} : n[y] = g[y]
  PROVE  AllBlocks(f - 1, h, n) = AllBlocks(f, h, g)
<1>1. \A y \in Workers : g[y] \in Nat
  BY PoolNat
<1>2. \A y \in Workers \ {w} : n[y] = g[y]
  OBVIOUS
<1>3. n[w] = g[w] + 1 /\ g[w] \in Nat
  BY PoolNat
<1>4. n[w] \in Nat
  BY <1>3
<1>5. /\ Sum(g, Workers) \in Nat /\ Sum(n, Workers) \in Nat
      /\ Sum(n, Workers) = Sum(g, Workers) - g[w] + n[w]
      /\ g[w] <= Sum(g, Workers)
  BY <1>1, <1>2, <1>4, WorkersAssumption, SumUpdate
<1>6. f \in Nat /\ Sum(h, Requests) \in Nat
  BY PoolNat
<1>7. f - 1 + Sum(h, Requests) + Sum(n, Workers) = f + Sum(h, Requests) + Sum(g, Workers)
  BY <1>3, <1>5, <1>6
<1> QED
  BY <1>7 DEF AllBlocks

LEMMA SumsTable ==
  ASSUME NEW f, NEW h, NEW g, PoolInv(f, h, g), NEW w \in Workers, NEW r \in Requests, h[r] = 0,
         NEW m, NEW n, m[r] = g[w], \A y \in Requests \ {r} : m[y] = h[y],
         n[w] = 0, \A y \in Workers \ {w} : n[y] = g[y]
  PROVE  AllBlocks(f, m, n) = AllBlocks(f, h, g)
<1>1. \A y \in Workers : g[y] \in Nat
  BY PoolNat
<1>2. \A y \in Workers \ {w} : n[y] = g[y]
  OBVIOUS
<1>3. n[w] = 0 /\ n[w] \in Nat /\ m[r] = g[w] /\ g[w] \in Nat /\ f \in Nat
  BY PoolNat
<1>4. \A y \in Requests : h[y] \in Nat
  BY PoolNat
<1>5. \A y \in Requests \ {r} : m[y] = h[y]
  OBVIOUS
<1>6. m[r] \in Nat /\ n[w] \in Nat
  BY <1>3
<1>7. /\ Sum(g, Workers) \in Nat /\ Sum(n, Workers) \in Nat
      /\ Sum(n, Workers) = Sum(g, Workers) - g[w] + n[w]
      /\ g[w] <= Sum(g, Workers)
  BY <1>1, <1>2, <1>6, WorkersAssumption, SumUpdate
<1>8. /\ Sum(h, Requests) \in Nat /\ Sum(m, Requests) \in Nat
      /\ Sum(m, Requests) = Sum(h, Requests) - h[r] + m[r]
      /\ h[r] <= Sum(h, Requests)
  BY <1>4, <1>5, <1>6, RequestsAssumption, SumUpdate
<1>9. f + Sum(m, Requests) + Sum(n, Workers) = f + Sum(h, Requests) + Sum(g, Workers)
  BY <1>3, <1>7, <1>8
<1> QED
  BY <1>9 DEF AllBlocks

LEMMA SumsAppend ==
  ASSUME NEW f, NEW h, NEW g, PoolInv(f, h, g), NEW r \in Requests, NEW m,
         m[r] = h[r] + 1, \A y \in Requests \ {r} : m[y] = h[y]
  PROVE  AllBlocks(f - 1, m, g) = AllBlocks(f, h, g)
<1>1. \A y \in Requests : h[y] \in Nat
  BY PoolNat
<1>2. \A y \in Requests \ {r} : m[y] = h[y]
  OBVIOUS
<1>3. m[r] = h[r] + 1 /\ h[r] \in Nat
  BY PoolNat
<1>4. m[r] \in Nat
  BY <1>3
<1>5. /\ Sum(h, Requests) \in Nat /\ Sum(m, Requests) \in Nat
      /\ Sum(m, Requests) = Sum(h, Requests) - h[r] + m[r]
      /\ h[r] <= Sum(h, Requests)
  BY <1>1, <1>2, <1>4, RequestsAssumption, SumUpdate
<1>6. f \in Nat /\ Sum(g, Workers) \in Nat
  BY PoolNat
<1>7. f - 1 + Sum(m, Requests) + Sum(g, Workers) = f + Sum(h, Requests) + Sum(g, Workers)
  BY <1>3, <1>5, <1>6
<1> QED
  BY <1>7 DEF AllBlocks

LEMMA SumsFree ==
  ASSUME PoolInv(free, held, got), NEW S \in SUBSET Requests
  PROVE  AllBlocks(FreeAfter(S), HeldAfter(S), got) = AllBlocks(free, held, got)
<1> DEFINE m == HeldAfter(S)
<1>1. /\ free \in Nat /\ Sum(got, Workers) \in Nat
      /\ \A q \in Requests : held[q] \in Nat /\ m[q] \in Nat
      /\ \A r \in S : m[r] = 0
      /\ \A q \in Requests \ S : m[q] = held[q]
  BY PoolNat DEF HeldAfter
<1> HIDE DEF m
<1>2. /\ Sum(held, Requests) = Sum(held, S) + Sum(held, Requests \ S)
      /\ Sum(held, S) \in Nat /\ Sum(held, Requests \ S) \in Nat
  BY <1>1, RequestsAssumption, SumSplit
<1>3. Sum(m, Requests) = Sum(m, S) + Sum(m, Requests \ S)
  BY <1>1, RequestsAssumption, SumSplit
<1>4. Sum(m, S) = 0 /\ Sum(m, Requests \ S) = Sum(held, Requests \ S)
  BY <1>1, SumNone, SumSame, Zenon
<1>5. Sum(m, Requests) = Sum(held, Requests \ S)
  BY <1>2, <1>3, <1>4
<1> QED
  BY <1>1, <1>2, <1>5 DEF AllBlocks, m, FreeAfter

(* What holds blocks, how many, and that they are all there.               *)
Holders == (UNION {TableOf(w) : w \in Workers}) \cup QDone \cup QPend \cup QRun
Balance == AllBlocks(free, held, got) = NumBlocks
Bounded == \A r \in Requests : held[r] <= Need(r) /\ (held[r] > 0 => r \in Holders)
Popped == \A w \in Workers : got[w] > 0 => wpc[w] = "pop" /\ got[w] <= PromptBlocks(Group(w))
Blocks == Balance /\ Bounded /\ Popped

(* A request that is being allocated has no table yet, and no other thread *)
(* allocates for it.                                                       *)
LEMMA GroupBare ==
  ASSUME TypeOK, Grouped, Apart, Once, NEW w \in Workers, wpc[w] \in {"check", "pop"}
  PROVE  /\ Group(w) \in Requests /\ Group(w) \notin Holders
         /\ \A v \in Workers : wpc[v] \in {"check", "pop"} /\ Group(v) = Group(w) => v = w
<1>1. /\ batch[w] \in Seq(Requests) /\ Len(batch[w]) \in Nat
      /\ wpos[w] \in Nat /\ 1 <= wpos[w] /\ wpos[w] <= Len(batch[w])
      /\ Group(w) \in Requests
  BY GroupIn
<1>2. Group(w) \in In(w) /\ In(w) \subseteq QPre
  BY TableIn DEF QPre
<1>3. PutBack(w) = 0 /\ Tabled(w) = wpos[w] - 1
  <2>1. wpc[w] # "forward" /\ wpc[w] # "requeue" /\ wpc[w] # "forget"
    OBVIOUS
  <2> QED
    BY <2>1, Zenon DEF PutBack, Tabled
<1>4. Group(w) \notin TableOf(w)
  <2> SUFFICES ASSUME NEW i \in 1 .. wpos[w] - 1, batch[w][i] = batch[w][wpos[w]]
               PROVE  FALSE
    BY <1>3 DEF TableOf, Group
  <2>1. i \in 0 + 1 .. Len(batch[w]) /\ wpos[w] \in 0 + 1 .. Len(batch[w]) /\ i # wpos[w]
    BY <1>1
  <2> QED
    BY <1>3, <2>1 DEF Once
<1>5. \A v \in Workers : v # w => Group(w) \notin TableOf(v)
  BY <1>2, TableIn DEF Apart
<1>6. Group(w) \notin QDone \cup QPend \cup QRun
  BY <1>2 DEF Apart
<1>7. \A v \in Workers : wpc[v] \in {"check", "pop"} /\ Group(v) = Group(w) => v = w
  BY <1>2, TableIn DEF Apart
<1> QED
  BY <1>1, <1>4, <1>5, <1>6, <1>7 DEF Holders

(* The pool has room for what an allocate() still has to pop.              *)
LEMMA RoomLeft ==
  ASSUME Ample, TypeOK, Grouped, Pool, Apart, Once, Blocks,
         NEW w \in Workers, wpc[w] \in {"check", "pop"}
  PROVE  /\ PromptBlocks(Group(w)) - got[w] <= free
         /\ got[w] \in Nat /\ got[w] <= PromptBlocks(Group(w))
         /\ PromptBlocks(Group(w)) \in Nat /\ free \in Nat
<1> DEFINE r == Group(w)
           g == [got EXCEPT ![w] = PromptBlocks(r)]
           G == [v \in Workers |-> Group(v)]
<1>1. /\ r \in Requests /\ r \notin Holders
      /\ \A v \in Workers : wpc[v] \in {"check", "pop"} /\ Group(v) = r => v = w
  BY GroupBare
<1>2. /\ free \in Nat /\ \A q \in Requests : held[q] \in Nat
      /\ \A v \in Workers : got[v] \in Nat
      /\ Sum(held, Requests) \in Nat /\ Sum(got, Workers) \in Nat /\ NumBlocks \in Nat
      /\ got \in [Workers -> Nat]
  BY PoolNat DEF Pool
<1>3. PromptBlocks(r) \in Nat /\ got[w] <= PromptBlocks(r)
  <2>1. PromptBlocks(r) \in Nat
    BY <1>1, NeedNat
  <2> QED
    BY <1>2, <2>1 DEF Blocks, Popped
<1>4. g[w] = PromptBlocks(r) /\ (\A v \in Workers \ {w} : g[v] = got[v])
      /\ \A v \in Workers : g[v] \in Nat
  BY <1>2, <1>3
<1>5. Sum(g, Workers) = Sum(got, Workers) - got[w] + PromptBlocks(r) /\ Sum(g, Workers) \in Nat
      /\ got[w] <= Sum(got, Workers)
  <2> HIDE DEF g
  <2>1. \A y \in Workers : got[y] \in Nat
    BY <1>2
  <2>2. \A y \in Workers \ {w} : g[y] = got[y]
    BY <1>4
  <2>3. g[w] \in Nat
    BY <1>4
  <2>4. /\ Sum(got, Workers) \in Nat /\ Sum(g, Workers) \in Nat
        /\ Sum(g, Workers) = Sum(got, Workers) - got[w] + g[w]
        /\ got[w] <= Sum(got, Workers)
    BY <2>1, <2>2, <2>3, WorkersAssumption, SumUpdate
  <2> QED
    BY <1>4, <2>4
<1>6. \A q \in Requests : held[q] <= NeedOf[q] /\ NeedOf[q] \in Nat
  BY NeedNat DEF Blocks, Bounded
<1>7. ASSUME NEW v \in Workers, g[v] > 0
      PROVE  /\ wpc[v] \in {"check", "pop"} /\ G[v] \in Requests
             /\ g[v] <= NeedOf[G[v]] /\ held[G[v]] = 0
  <2>1. wpc[v] \in {"check", "pop"} /\ g[v] <= PromptBlocks(Group(v))
    <3>1. CASE v = w
      BY <1>3, <1>4, <3>1
    <3>2. CASE v # w
      BY <1>4, <1>7, <3>2 DEF Blocks, Popped
    <3> QED
      BY <3>1, <3>2
  <2>2. Group(v) \in Requests /\ Group(v) \notin Holders
    BY <2>1, GroupBare
  <2>3. held[Group(v)] = 0
    <3>1. held[Group(v)] \in Nat
      BY <1>2, <2>2
    <3>2. ~ (held[Group(v)] > 0)
      BY <2>2 DEF Blocks, Bounded
    <3> QED
      BY <3>1, <3>2
  <2>4. PromptBlocks(Group(v)) <= NeedOf[Group(v)] /\ PromptBlocks(Group(v)) \in Nat
        /\ NeedOf[Group(v)] \in Nat
    BY <2>2, NeedNat
  <2>5. g[v] <= NeedOf[Group(v)]
    <3> HIDE DEF g
    <3> QED
      BY <1>4, <2>1, <2>4
  <2> QED
    BY <2>1, <2>2, <2>3, <2>5
<1>8. \A u, v \in Workers : g[u] > 0 /\ g[v] > 0 /\ G[u] = G[v] => u = v
  <2> TAKE u, v \in Workers
  <2> HAVE g[u] > 0 /\ g[v] > 0 /\ G[u] = G[v]
  <2>1. wpc[u] \in {"check", "pop"} /\ wpc[v] \in {"check", "pop"}
    BY <1>7
  <2> QED
    BY <2>1, GroupBare
<1> HIDE DEF g, G
<1>9. Sum(held, Requests) + Sum(g, Workers) <= Sum(NeedOf, Requests)
  BY <1>2, <1>4, <1>6, <1>7, <1>8, Fits
<1>10. Sum(NeedOf, Requests) <= NumBlocks /\ Sum(NeedOf, Requests) \in Nat
  <2>1. Sum(NeedOf, Requests) \in Nat
    BY <1>6, RequestsAssumption, SumNat
  <2> QED
    BY <2>1 DEF Ample
<1>11. free + Sum(held, Requests) + Sum(got, Workers) = NumBlocks
  BY DEF Blocks, Balance, AllBlocks
<1> QED
  BY <1>2, <1>3, <1>5, <1>9, <1>10, <1>11
-----------------------------------------------------------------------------
(* Where the requests are, what the prefill threads may be at, and what    *)
(* the main thread knows at each point of its loop.                        *)
Inside == QClaim \cup QPre \cup QDone \cup QPend \cup QRun \cup QCw \cup cwRun \cup cwFin
Traced ==
  /\ known \subseteq arrived
  /\ QWait \cap known = {}
  /\ Inside \subseteq known
  /\ \A r \in arrived : Nowhere(r) => r \in known /\ fin[r]
Healthy ==
  \A w \in Workers : /\ wpc[w] \notin {"requeue", "forget"}
                     /\ wpc[w] = "idle" => batch[w] = <<>>
Loop ==
  /\ pc = "clear" => pos > Len(waiting)
  /\ pc \notin {"route", "clear", "fire"} => claim = <<>>
  /\ pc = "enforce" => seen = known
  /\ pc # "crashed"
States == Traced /\ Healthy /\ Loop

(* The prefill threads have room, so none gives up.                        *)
LEMMA PrefillGoesOn ==
  ASSUME Ample, TypeOK, Grouped, Pool, Apart, Once, Blocks, Healthy, NEW w \in Workers
  PROVE  /\ ~ PrefillOOM(w) /\ ~ PrefillRequeue(w) /\ ~ PrefillForget(w)
         /\ PrefillCheck(w) => /\ wpc' = [wpc EXCEPT ![w] = "pop"] /\ wpos' = wpos
<1>1. ~ PrefillRequeue(w) /\ ~ PrefillForget(w)
  BY DEF Healthy, PrefillRequeue, PrefillForget
<1>2. ASSUME PrefillOOM(w)
      PROVE  FALSE
  <2>1. wpc[w] = "pop" /\ got[w] < PromptBlocks(Group(w)) /\ free = 0
    BY <1>2 DEF PrefillOOM
  <2>2. /\ PromptBlocks(Group(w)) - got[w] <= free /\ got[w] \in Nat
        /\ PromptBlocks(Group(w)) \in Nat
    BY <2>1, RoomLeft
  <2> QED
    BY <2>1, <2>2
<1>3. ASSUME PrefillCheck(w)
      PROVE  wpc' = [wpc EXCEPT ![w] = "pop"] /\ wpos' = wpos
  <2>1. wpc[w] = "check"
    BY <1>3 DEF PrefillCheck
  <2>2. got[w] = 0
    <3>1. got[w] \in Nat
      BY <2>1, RoomLeft
    <3>2. ~ (got[w] > 0)
      BY <2>1 DEF Blocks, Popped
    <3> QED
      BY <3>1, <3>2
  <2>3. free >= PromptBlocks(Group(w))
    BY <2>1, <2>2, RoomLeft
  <2> QED
    BY <1>3, <2>3 DEF PrefillCheck
<1> QED
  BY <1>1, <1>2, <1>3

LEMMA HealthyStep ==
  ASSUME Ample, TypeOK, Grouped, Pool, Apart, Once, Blocks, Healthy, Next
  PROVE  Healthy'
<1>1. ASSUME NEW w \in Workers, Prefill(w) \/ Fire(w)
      PROVE  Healthy'
  <2>1. \A v \in Workers \ {w} : batch'[v] = batch[v] /\ wpc'[v] = wpc[v]
    BY <1>1, OtherThreads
  <2>2. /\ wpc'[w] \notin {"requeue", "forget"}
        /\ wpc'[w] = "idle" => batch'[w] = <<>>
    <3>1. CASE Fire(w)
      BY <3>1, FireSites
    <3>2. CASE PrefillCheck(w)
      <4>1. wpc'[w] = "pop"
        BY <3>2, PrefillGoesOn DEF TypeOK
      <4> QED
        BY <4>1
    <3>3. CASE PrefillPop(w)
      BY <3>3 DEF PrefillPop, Healthy
    <3>4. CASE PrefillTable(w)
      <4>1. wpc'[w] \in {"forward", "check"}
        BY <3>4 DEF PrefillTable, TypeOK
      <4> QED
        BY <4>1
    <3>5. CASE PrefillForward(w)
      BY <3>5, ForwardSites
    <3> QED
      BY <1>1, <3>1, <3>2, <3>3, <3>4, <3>5, PrefillGoesOn DEF Prefill
  <2> QED
    BY <2>1, <2>2 DEF Healthy
<1>2. CASE UNCHANGED <<batch, wpc>>
  BY <1>2 DEF Healthy
<1>3. CASE \/ \E r \in Requests : AddRequest(r) \/ CopyDone(r)
           \/ CheckWaiting \/ CheckStates \/ CheckRest
           \/ Dispatch \/ RouteOne \/ RouteEnd \/ Clear
  BY <1>2, <1>3 DEF AddRequest, CopyDone, CheckWaiting, CheckStates, CheckRest, Dispatch,
     RouteOne, RouteEnd, Clear, prefillVars
<1>4. CASE \/ Requeue \/ Flush \/ Join
           \/ \E r \in Requests : EnforceCollocated(r) \/ EnforceDisaggregated(r)
           \/ EnforceEnd \/ EnforceCrash
  BY <1>2, <1>4 DEF Requeue, Flush, Join, EnforceCollocated, EnforceDisaggregated, EnforceEnd,
     EnforceCrash, prefillVars
<1>5. CASE Decode \/ CollocatedStep
  BY <1>2, <1>5 DEF Decode, DecodeStart, DecodeAppend, DecodeEvict, DecodeForward,
     CollocatedStep, prefillVars
<1> QED
  BY <1>1, <1>3, <1>4, <1>5 DEF Next, Main

LEMMA LoopStep ==
  ASSUME Ample, TypeOK, Grouped, Pool, Apart, Once, Blocks, Healthy, Threads, Loop, Next
  PROVE  Loop'
<1> USE DEF Loop
<1>1. CASE \E r \in Requests : AddRequest(r) \/ CopyDone(r)
  BY <1>1 DEF AddRequest, CopyDone, mainVars, stateVars
<1>2. CASE CheckWaiting \/ CheckStates \/ CheckRest \/ Dispatch \/ RouteOne \/ RouteEnd \/ Clear
  BY <1>2 DEF CheckWaiting, CheckStates, CheckRest, Dispatch, RouteOne, RouteEnd, Clear,
     stateVars
<1>3. CASE (\E w \in Workers : Fire(w)) \/ Requeue \/ Flush \/ Join \/ EnforceEnd
  BY <1>3 DEF Fire, Requeue, Flush, Join, EnforceEnd, stateVars
<1>4. CASE \E r \in Requests : EnforceCollocated(r) \/ EnforceDisaggregated(r)
  BY <1>4 DEF EnforceCollocated, EnforceDisaggregated
<1>5. CASE EnforceCrash
  BY <1>5 DEF EnforceCrash, SizeChanged
<1>6. ASSUME NEW w \in Workers, Prefill(w)
      PROVE  Loop'
  <2>1. PrefillCheck(w) \/ PrefillPop(w) \/ PrefillTable(w) \/ PrefillForward(w)
    BY <1>6, PrefillGoesOn DEF Prefill
  <2> QED
    BY <2>1 DEF PrefillCheck, PrefillPop, PrefillTable, PrefillForward, mainVars, stateVars
<1>7. CASE Decode \/ CollocatedStep
  BY <1>7 DEF Decode, DecodeStart, DecodeAppend, DecodeEvict, DecodeForward, CollocatedStep,
     mainVars, stateVars
<1> QED
  BY <1>1, <1>2, <1>3, <1>4, <1>5, <1>6, <1>7 DEF Next, Main

LEMMA TracedMove ==
  ASSUME Traced, UNCHANGED <<known, arrived>>, QWait' \subseteq QWait, Inside' \subseteq known,
         \A r \in known : fin[r] => fin'[r],
         \A r \in arrived : Nowhere(r)' => Nowhere(r) \/ (r \in known /\ fin'[r])
  PROVE  Traced'
<1>1. \A r \in arrived : Nowhere(r)' => r \in known /\ fin'[r]
  BY DEF Traced
<1>2. known' \subseteq arrived' /\ QWait' \cap known' = {} /\ Inside' \subseteq known'
  BY DEF Traced
<1> QED
  BY <1>1, <1>2 DEF Traced

LEMMA TracedQuiet ==
  ASSUME Traced, Become(QWait, QClaim, QPre, QDone, QPend, QRun, QCw, cwRun),
         UNCHANGED <<known, arrived, cwFin>>, \A r \in known : fin[r] => fin'[r]
  PROVE  Traced'
<1>1. Inside' = Inside /\ \A r : Nowhere(r)' <=> Nowhere(r)
  BY DEF Become, Inside, Nowhere
<1> QED
  BY <1>1, TracedMove DEF Traced, Become

LEMMA TracedAdd ==
  ASSUME Traced, TypeOK, NEW q \in Requests, AddRequest(q)
  PROVE  Traced'
<1>1. Become(QWait \cup {q}, QClaim, QPre, QDone, QPend, QRun, QCw, cwRun)
  BY AddSites
<1>2. /\ q \notin arrived /\ arrived' = arrived \cup {q}
      /\ UNCHANGED <<known, fin, cwFin>>
  BY DEF AddRequest, stateVars, collVars
<1>3. Inside' = Inside /\ \A r : Nowhere(r)' <=> Nowhere(r) /\ r # q
  BY <1>1, <1>2 DEF Become, Inside, Nowhere
<1> QED
  BY <1>1, <1>2, <1>3 DEF Traced, Become

LEMMA TracedRoute ==
  ASSUME Traced, TypeOK, NotArrived, Apart', RouteOne
  PROVE  Traced'
<1> DEFINE e == waiting[pos]
<1>1. /\ e \in QWait /\ QWait = QWait' \cup {e}
      /\ \/ Become(QWait', QClaim \cup {e}, QPre, QDone, QPend, QRun, QCw, cwRun)
         \/ Become(QWait', QClaim, QPre, QDone, QPend, QRun, QCw \cup {e}, cwRun)
  BY RouteSites
<1>2. /\ known' = known \cup {e} /\ fin' = [fin EXCEPT ![e] = FALSE]
      /\ UNCHANGED <<arrived, cwFin>>
  BY DEF RouteOne
<1>3. e \in Requests /\ e \in arrived
  <2>1. e \in Requests
    BY <1>1, SitesTyped DEF Sites
  <2>2. Places(e) # 0
    BY <1>1, <2>1, NotHere
  <2> QED
    BY <2>1, <2>2 DEF NotArrived
<1> HIDE DEF e
<1>4. e \notin QWait'
  BY <1>1 DEF Become, Apart
<1>5. /\ Inside' = Inside \cup {e}
      /\ \A r : Nowhere(r)' => Nowhere(r) /\ r # e
  BY <1>1, <1>2 DEF Become, Inside, Nowhere
<1>6. \A r \in Requests \ {e} : fin[r] => fin'[r]
  BY <1>2, <1>3, Zenon DEF TypeOK
<1>7. ASSUME NEW r \in arrived', Nowhere(r)'
      PROVE  r \in known' /\ fin'[r]
  BY <1>2, <1>5, <1>6, <1>7 DEF Traced, TypeOK
<1>8. known' \subseteq arrived' /\ QWait' \cap known' = {} /\ Inside' \subseteq known'
  BY <1>1, <1>2, <1>3, <1>4, <1>5 DEF Traced
<1> QED
  BY <1>7, <1>8 DEF Traced

LEMMA TracedRequeue ==
  ASSUME Traced, TypeOK, Apart, Departed, Requeue
  PROVE  Traced'
<1>1. Become(QWait \cup QClaim, {}, QPre, QDone, QPend, QRun, QCw, cwRun)
  BY RequeueSites
<1>2. known' = known \ QClaim /\ UNCHANGED <<arrived, fin, cwFin>>
  BY DEF Requeue, QClaim, collVars
<1>3. cwFin \cap QClaim = {}
  <2> SUFFICES ASSUME NEW r \in cwFin, r \in QClaim
               PROVE  FALSE
    OBVIOUS
  <2>1. r \in Requests /\ Places(r) = 0
    BY DEF Departed, TypeOK
  <2> QED
    BY <2>1, NotHere
<1>4. /\ Inside' \subseteq Inside \ QClaim
      /\ \A r : Nowhere(r)' => Nowhere(r) /\ r \notin QClaim
  BY <1>1, <1>2, <1>3 DEF Become, Inside, Nowhere, Apart
<1>5. QClaim \subseteq known
  BY DEF Traced, Inside
<1>6. ASSUME NEW r \in arrived', Nowhere(r)'
      PROVE  r \in known' /\ fin'[r]
  BY <1>2, <1>4, <1>6 DEF Traced
<1>7. known' \subseteq arrived' /\ QWait' \cap known' = {} /\ Inside' \subseteq known'
  BY <1>1, <1>2, <1>4 DEF Traced, Become
<1> QED
  BY <1>6, <1>7 DEF Traced

LEMMA TracedMain ==
  ASSUME Traced, TypeOK, Healthy, Loop, Dispatch \/ Clear \/ Flush \/ \E w \in Workers : Fire(w)
  PROVE  Traced'
<1>1. CASE Dispatch
  <2>1. Become(QWait, {}, QPre, QDone, QPend, QRun, QCw, cwRun)
    BY <1>1, DispatchSites
  <2>2. QClaim = {}
    <3>1. claim = <<>>
      BY <1>1 DEF Dispatch, Loop
    <3> QED
      BY <3>1, RangeEmpty DEF QClaim
  <2>3. UNCHANGED <<known, arrived, fin, cwFin>>
    BY <1>1 DEF Dispatch, stateVars, collVars
  <2> QED
    BY <2>1, <2>2, <2>3, TracedQuiet
<1>2. CASE Clear
  <2>1. Become({}, QClaim, QPre, QDone, QPend, QRun, QCw, cwRun)
    BY <1>2, ClearSites
  <2>2. QWait = {}
    <3>1. pc = "clear" /\ pos > Len(waiting) /\ pos \in Nat /\ Len(waiting) \in Nat
      BY <1>2 DEF Clear, Loop, TypeOK
    <3>2. Passed = pos - 1
      BY <3>1 DEF Passed
    <3>3. Passed + 1 .. Len(waiting) = {}
      BY <3>1, <3>2
    <3> QED
      BY <3>3 DEF QWait, Rest
  <2>3. UNCHANGED <<known, arrived, fin, cwFin>>
    BY <1>2 DEF Clear, stateVars, collVars
  <2> QED
    BY <2>1, <2>2, <2>3, TracedQuiet
<1>3. CASE Flush
  <2>1. Become(QWait, QClaim, QPre, {}, QPend \cup (QDone \cap known), QRun, QCw, cwRun)
    BY <1>3, FlushSites
  <2>2. QDone \subseteq known /\ UNCHANGED <<known, arrived, fin, cwFin>>
    BY <1>3 DEF Flush, Traced, Inside
  <2>3. Inside' = Inside /\ \A r : Nowhere(r)' <=> Nowhere(r)
    BY <2>1, <2>2 DEF Become, Inside, Nowhere
  <2> QED
    BY <2>1, <2>2, <2>3, TracedMove DEF Traced, Become
<1>4. ASSUME NEW w \in Workers, Fire(w)
      PROVE  Traced'
  <2>1. /\ Become(QWait, {}, QPre', QDone, QPend, QRun, QCw, cwRun)
        /\ In(w)' = QClaim /\ wpc[w] = "idle"
    BY <1>4, FireSites
  <2>2. QPre' = QPre \cup QClaim
    <3>1. batch[w] = <<>>
      BY <2>1 DEF Healthy
    <3>2. In(w) = {}
      BY <2>1, <3>1 DEF In, Rest, PutBack
    <3>3. \A v \in Workers \ {w} : In(v)' = In(v)
      BY <1>4, OtherThreads
    <3> QED
      BY <2>1, <3>2, <3>3, OneIn
  <2>3. UNCHANGED <<known, arrived, fin, cwFin>>
    BY <1>4 DEF Fire, stateVars, collVars
  <2>4. Inside' = Inside /\ \A r : Nowhere(r)' <=> Nowhere(r)
    BY <2>1, <2>2, <2>3 DEF Become, Inside, Nowhere
  <2> QED
    BY <2>1, <2>3, <2>4, TracedMove DEF Traced, Become
<1> QED
  BY <1>1, <1>2, <1>3, <1>4

LEMMA TracedEnforce ==
  ASSUME Traced, TypeOK, NEW q \in Requests, EnforceCollocated(q) \/ EnforceDisaggregated(q)
  PROVE  Traced'
<1>1. CASE EnforceCollocated(q)
  <2>1. Become(QWait, QClaim, QPre, QDone, QPend, QRun, QCw, cwRun)
    BY <1>1, QuietSites DEF Quiet
  <2>2. UNCHANGED <<known, arrived, cwFin>> /\ (fin' = fin \/ fin' = [fin EXCEPT ![q] = TRUE])
    BY <1>1 DEF EnforceCollocated
  <2>3. \A r \in Requests : fin[r] => fin'[r]
    BY <2>2, Zenon DEF TypeOK
  <2> QED
    BY <2>1, <2>2, <2>3, TracedQuiet DEF TypeOK
<1>2. CASE EnforceDisaggregated(q)
  <2>1. Become(QWait, QClaim, QPre, QDone, QPend, IF Leaves(q) THEN QRun \ {q} ELSE QRun, QCw,
               cwRun)
    BY <1>2, EnforceSites
  <2>2. UNCHANGED <<known, arrived, cwFin>> /\ fin' = [fin EXCEPT ![q] = @ \/ AtLimit(q)]
    BY <1>2 DEF EnforceDisaggregated, collVars
  <2>3. (\A r \in Requests : fin[r] => fin'[r]) /\ (AtLimit(q) => fin'[q])
    BY <2>2, Zenon DEF TypeOK
  <2>4. /\ Inside' \subseteq Inside
        /\ \A r : Nowhere(r)' => Nowhere(r) \/ (r = q /\ q \in QRun /\ AtLimit(q))
    BY <2>1, <2>2 DEF Become, Inside, Nowhere, Leaves, QRun
  <2>5. QRun \subseteq known
    BY DEF Traced, Inside
  <2>6. Inside' \subseteq known /\ QWait' \subseteq QWait
    BY <2>1, <2>4 DEF Traced, Become
  <2>7. \A r \in arrived : Nowhere(r)' => Nowhere(r) \/ (r \in known /\ fin'[r])
    BY <2>3, <2>4, <2>5
  <2>8. \A r \in known : fin[r] => fin'[r]
    BY <2>3 DEF TypeOK
  <2> QED
    BY <2>2, <2>6, <2>7, <2>8, TracedMove
<1> QED
  BY <1>1, <1>2

LEMMA TracedDecode ==
  ASSUME Traced, TypeOK, Once, Decode
  PROVE  Traced'
<1>1. CASE DecodeStart
  <2>1. Become(QWait, QClaim, QPre, QDone, QPend \ copied, QRun \cup (QPend \cap copied), QCw,
               cwRun)
    BY <1>1, DecodeStartSites
  <2>2. UNCHANGED <<known, arrived, fin, cwFin>>
    BY <1>1 DEF DecodeStart, mainVars, stateVars, collVars
  <2>3. Inside' = Inside /\ \A r : Nowhere(r)' <=> Nowhere(r)
    BY <2>1, <2>2 DEF Become, Inside, Nowhere
  <2> QED
    BY <2>1, <2>2, <2>3, TracedMove DEF Traced, Become
<1>2. CASE DecodeAppend
  <2>1. Become(QWait, QClaim, QPre, QDone, QPend, QRun, QCw, cwRun)
    BY <1>2, QuietSites DEF Quiet
  <2>2. UNCHANGED <<known, arrived, fin, cwFin>>
    BY <1>2 DEF DecodeAppend, mainVars, stateVars, collVars
  <2> QED
    BY <2>1, <2>2, TracedQuiet
<1>3. CASE DecodeEvict
  <2> DEFINE e == Head(dwRun)
  <2>1. Become(QWait, QClaim, QPre, QDone, QPend, QRun \ {e}, QCw, cwRun) /\ e \in QRun
    BY <1>3, DecodeEvictSites
  <2>2. UNCHANGED <<known, arrived, cwFin>> /\ fin' = FinAfter({e})
    BY <1>3 DEF DecodeEvict, mainVars, collVars
  <2> HIDE DEF e
  <2>3. Inside' \subseteq Inside /\ \A r : Nowhere(r)' => Nowhere(r) \/ r = e
    BY <2>1, <2>2 DEF Become, Inside, Nowhere
  <2>4. e \in known /\ e \in Requests
    BY <2>1 DEF Traced, Inside, TypeOK
  <2>5. (\A r \in Requests : fin[r] => fin'[r]) /\ fin'[e]
    BY <2>2, <2>4, Zenon DEF FinAfter
  <2>6. Inside' \subseteq known /\ QWait' \subseteq QWait
    BY <2>1, <2>3 DEF Traced, Become
  <2>7. \A r \in arrived : Nowhere(r)' => Nowhere(r) \/ (r \in known /\ fin'[r])
    BY <2>3, <2>4, <2>5
  <2>8. \A r \in known : fin[r] => fin'[r]
    BY <2>5 DEF TypeOK
  <2> QED
    BY <2>2, <2>6, <2>7, <2>8, TracedMove
<1>4. CASE DecodeForward
  <2>1. PICK eos, up \in SUBSET Requests : Forwarded(eos, up)
    BY <1>4, DecodeForwardSites
  <2>2. /\ eos \in SUBSET QRun /\ up \in SUBSET QPend
        /\ Become(QWait, QClaim, QPre, QDone, QPend \ up, (QRun \ eos) \cup up, QCw, cwRun)
        /\ fin' = FinAfter(eos)
    BY <2>1 DEF Forwarded
  <2>3. UNCHANGED <<known, arrived, cwFin>>
    BY <1>4 DEF DecodeForward, mainVars, collVars
  <2>4. Inside' \subseteq Inside /\ \A r : Nowhere(r)' => Nowhere(r) \/ r \in eos
    BY <2>2, <2>3 DEF Become, Inside, Nowhere
  <2>5. eos \subseteq known /\ eos \subseteq Requests
    BY <2>2 DEF Traced, Inside
  <2>6. (\A r \in Requests : fin[r] => fin'[r]) /\ \A r \in eos : fin'[r]
    BY <2>2, <2>5, Zenon DEF FinAfter
  <2>7. Inside' \subseteq known /\ QWait' \subseteq QWait
    BY <2>2, <2>4 DEF Traced, Become
  <2>8. \A r \in arrived : Nowhere(r)' => Nowhere(r) \/ (r \in known /\ fin'[r])
    BY <2>4, <2>5, <2>6
  <2>9. \A r \in known : fin[r] => fin'[r]
    BY <2>6 DEF TypeOK
  <2> QED
    BY <2>3, <2>7, <2>8, <2>9, TracedMove
<1> QED
  BY <1>1, <1>2, <1>3, <1>4 DEF Decode

LEMMA TracedCollocated ==
  ASSUME Traced, TypeOK, Once, CollocatedStep
  PROVE  Traced'
<1>1. PICK first, eos \in SUBSET Requests : Stepped(first, eos)
  BY CollocatedSites
<1> DEFINE live == cwRun \ cwStop
           gone == cwFin \cup (cwRun \cap cwStop)
           new == gone \cap {r \in known : ~ fin[r]}
<1>2. /\ first \in SUBSET QCw
      /\ Become(QWait, QClaim, QPre, QDone, QPend, QRun, QCw \ first, live \cup first)
      /\ cwFin' = gone /\ fin' = [r \in Requests |-> fin[r] \/ r \in new]
  BY <1>1 DEF Stepped
<1>3. UNCHANGED <<known, arrived>>
  BY DEF CollocatedStep, mainVars
<1>4. Inside' \subseteq Inside /\ \A r : Nowhere(r)' => Nowhere(r) \/ r \in cwRun \cap cwStop
  BY <1>2 DEF Become, Inside, Nowhere
<1>5. cwRun \subseteq known
  BY DEF Traced, Inside
<1>6. \A r \in cwRun \cap cwStop : r \in new \/ fin[r]
  BY <1>5
<1> HIDE DEF new
<1>7. \A r \in Requests : (fin[r] => fin'[r]) /\ (r \in new => fin'[r])
  BY <1>2, Zenon
<1>8. Inside' \subseteq known /\ QWait' \subseteq QWait /\ known \subseteq Requests
  BY <1>2, <1>4 DEF Traced, Become, TypeOK
<1>9. \A r \in arrived : Nowhere(r)' => Nowhere(r) \/ (r \in known /\ fin'[r])
  BY <1>4, <1>5, <1>6, <1>7, <1>8
<1> QED
  BY <1>3, <1>7, <1>8, <1>9, TracedMove

LEMMA TracedStep ==
  ASSUME Ample, Traced, Healthy, Loop, TypeOK, Grouped, Pool, Apart, Apart', Once, Blocks,
         NotArrived, Departed, Next
  PROVE  Traced'
<1>1. CASE \/ \E r \in Requests : CopyDone(r)
           \/ CheckWaiting \/ CheckStates \/ CheckRest \/ RouteEnd \/ Join
           \/ EnforceEnd \/ EnforceCrash
  <2>1. Become(QWait, QClaim, QPre, QDone, QPend, QRun, QCw, cwRun)
    BY <1>1, QuietSites DEF Quiet
  <2>2. UNCHANGED <<known, arrived, fin, cwFin>>
    BY <1>1 DEF CopyDone, CheckWaiting, CheckStates, CheckRest, RouteEnd, Join, EnforceEnd,
       EnforceCrash, mainVars, stateVars, collVars
  <2> QED
    BY <2>1, <2>2, TracedQuiet
<1>2. ASSUME NEW w \in Workers, Prefill(w)
      PROVE  Traced'
  <2>1. PrefillCheck(w) \/ PrefillPop(w) \/ PrefillTable(w) \/ PrefillForward(w)
    BY <1>2, PrefillGoesOn DEF Prefill
  <2>2. UNCHANGED <<known, arrived, fin, cwFin>>
    BY <2>1 DEF PrefillCheck, PrefillPop, PrefillTable, PrefillForward, mainVars, stateVars,
       collVars
  <2>3. CASE PrefillCheck(w) \/ PrefillPop(w) \/ PrefillTable(w)
    BY <2>2, <2>3, BatchSites, TracedQuiet
  <2>4. CASE PrefillForward(w)
    <3>1. /\ Become(QWait, QClaim, QPre', QDone \cup In(w), QPend, QRun, QCw, cwRun)
          /\ QPre = QPre' \cup In(w)
      BY <2>4, ForwardSites
    <3>2. Inside' = Inside /\ \A r : Nowhere(r)' => Nowhere(r)
      BY <2>2, <3>1 DEF Become, Inside, Nowhere
    <3> QED
      BY <2>2, <3>1, <3>2, TracedMove DEF Traced, Become
  <2> QED
    BY <2>1, <2>3, <2>4
<1> QED
  BY <1>1, <1>2, TracedAdd, TracedRoute, TracedRequeue, TracedMain, TracedEnforce,
     TracedDecode, TracedCollocated DEF Next, Main
-----------------------------------------------------------------------------
(* Each step keeps Blocks.                                                 *)
LEMMA BalanceStep ==
  ASSUME Ample, TypeOK, Grouped, Pool, Apart, Once, Blocks, Healthy, Next
  PROVE  Balance'
<1> DEFINE total == AllBlocks(free, held, got)
<1>0. total = NumBlocks /\ PoolInv(free, held, got)
  BY DEF Blocks, Balance, Pool
<1> HIDE DEF total
<1> SUFFICES AllBlocks(free', held', got') = total
  BY <1>0 DEF Balance, AllBlocks
<1>1. CASE UNCHANGED <<free, held, got>>
  BY <1>1 DEF total
<1>2. ASSUME NEW w \in Workers, PrefillPop(w)
      PROVE  AllBlocks(free', held', got') = total
  <2>1. free' = free - 1 /\ held' = held /\ got' = [got EXCEPT ![w] = @ + 1]
    BY <1>2 DEF PrefillPop
  <2>2. got'[w] = got[w] + 1 /\ \A v \in Workers \ {w} : got'[v] = got[v]
    BY <1>0, <2>1, PoolNat
  <2>3. AllBlocks(free - 1, held, got') = AllBlocks(free, held, got)
    BY <1>0, <2>2, SumsPop
  <2> QED
    BY <2>1, <2>3 DEF total
<1>3. ASSUME NEW w \in Workers, PrefillTable(w)
      PROVE  AllBlocks(free', held', got') = total
  <2>1. /\ wpc[w] \in {"check", "pop"} /\ free' = free
        /\ held' = [held EXCEPT ![Group(w)] = got[w]] /\ got' = [got EXCEPT ![w] = 0]
    BY <1>3 DEF PrefillTable
  <2>2. Group(w) \in Requests /\ Group(w) \notin Holders
    BY <2>1, GroupBare
  <2>3. held[Group(w)] = 0
    <3>1. held[Group(w)] \in Nat
      BY <1>0, <2>2, PoolNat
    <3>2. ~ (held[Group(w)] > 0)
      BY <2>2 DEF Blocks, Bounded
    <3> QED
      BY <3>1, <3>2
  <2>4. /\ held'[Group(w)] = got[w] /\ \A r \in Requests \ {Group(w)} : held'[r] = held[r]
        /\ got'[w] = 0 /\ \A v \in Workers \ {w} : got'[v] = got[v]
    BY <1>0, <2>1, <2>2, PoolNat
  <2>5. AllBlocks(free, held', got') = AllBlocks(free, held, got)
    BY <1>0, <2>2, <2>3, <2>4, SumsTable
  <2> QED
    BY <2>1, <2>5 DEF total
<1>4. CASE DecodeAppend
  <2>1. CASE NeedsBlock(dwRun[dpos])
    <3>1. dwRun[dpos] \in Requests
      BY <1>4 DEF DecodeAppend, TypeOK
    <3>2. /\ free' = free - 1 /\ got' = got
          /\ held' = [held EXCEPT ![dwRun[dpos]] = @ + 1]
      BY <1>4, <2>1 DEF DecodeAppend, prefillVars
    <3>3. /\ held'[dwRun[dpos]] = held[dwRun[dpos]] + 1
          /\ \A r \in Requests \ {dwRun[dpos]} : held'[r] = held[r]
      BY <1>0, <3>1, <3>2, PoolNat
    <3>4. AllBlocks(free - 1, held', got) = AllBlocks(free, held, got)
      BY <1>0, <3>1, <3>3, SumsAppend, Zenon
    <3> QED
      BY <3>2, <3>4 DEF total
  <2>2. CASE ~ NeedsBlock(dwRun[dpos])
    BY <1>1, <1>4, <2>2 DEF DecodeAppend, poolVars, prefillVars
  <2> QED
    BY <2>1, <2>2
<1>5. ASSUME NEW S \in SUBSET Requests, free' = FreeAfter(S), held' = HeldAfter(S), got' = got
      PROVE  AllBlocks(free', held', got') = total
  BY <1>0, <1>5, SumsFree DEF total
<1>6. CASE DecodeEvict
  <2>1. {Head(dwRun)} \in SUBSET Requests
    BY <1>6 DEF DecodeEvict, TypeOK
  <2> QED
    BY <1>5, <1>6, <2>1 DEF DecodeEvict, prefillVars
<1>7. CASE DecodeForward
  <2>1. PICK eos \in SUBSET Range(dwRun) : free' = FreeAfter(eos) /\ held' = HeldAfter(eos)
    BY <1>7 DEF DecodeForward
  <2>2. eos \in SUBSET Requests
    BY DEF TypeOK, Range
  <2> QED
    BY <1>5, <1>7, <2>1, <2>2 DEF DecodeForward, prefillVars
<1>8. ASSUME NEW r \in Requests, EnforceDisaggregated(r)
      PROVE  AllBlocks(free', held', got') = total
  <2> DEFINE S == IF Leaves(r) THEN {r} ELSE {}
  <2>1. S \in SUBSET Requests /\ free' = FreeAfter(S) /\ held' = HeldAfter(S) /\ got' = got
    BY <1>8 DEF EnforceDisaggregated, prefillVars
  <2> QED
    BY <1>5, <2>1
<1>9. CASE \E r \in Requests : AddRequest(r) \/ CopyDone(r) \/ EnforceCollocated(r)
  BY <1>1, <1>9 DEF AddRequest, CopyDone, EnforceCollocated, poolVars, prefillVars
<1>10. CASE \/ CheckWaiting \/ CheckStates \/ CheckRest
            \/ Dispatch \/ RouteOne \/ RouteEnd \/ Clear
  BY <1>1, <1>10 DEF CheckWaiting, CheckStates, CheckRest, Dispatch, RouteOne, RouteEnd,
       Clear, poolVars, prefillVars
<1>11. CASE (\E w \in Workers : Fire(w)) \/ Requeue \/ Flush \/ Join
  BY <1>1, <1>11 DEF Fire, Requeue, Flush, Join, poolVars, prefillVars
<1>12. CASE EnforceEnd \/ EnforceCrash \/ DecodeStart \/ CollocatedStep
  BY <1>1, <1>12 DEF EnforceEnd, EnforceCrash, DecodeStart, CollocatedStep, poolVars,
       prefillVars
<1>13. CASE \E w \in Workers : \/ PrefillCheck(w) \/ PrefillForward(w)
                               \/ PrefillRequeue(w) \/ PrefillForget(w)
  BY <1>1, <1>13 DEF PrefillCheck, PrefillForward, PrefillRequeue, PrefillForget, poolVars
<1>14. \A w \in Workers : ~ PrefillOOM(w)
  BY PrefillGoesOn
<1> QED
  BY <1>2, <1>3, <1>4, <1>6, <1>7, <1>8, <1>9, <1>10, <1>11, <1>12, <1>13, <1>14
     DEF Next, Main, Prefill, Decode

LEMMA PoppedStep ==
  ASSUME Ample, TypeOK, Grouped, Pool, Apart, Once, Blocks, Healthy, Next
  PROVE  Popped'
<1>1. CASE UNCHANGED <<got, wpc, batch, wpos>>
  BY <1>1 DEF Blocks, Popped, Group
<1>2. ASSUME NEW w \in Workers, Fire(w) \/ Prefill(w)
      PROVE  Popped'
  <2>1. \A v \in Workers \ {w} :
          (got'[v] > 0 => wpc'[v] = "pop" /\ got'[v] <= PromptBlocks(Group(v)'))
    BY <1>2, OtherThreads DEF Blocks, Popped
  <2>2. got[w] \in Nat /\ (got[w] > 0 => wpc[w] = "pop" /\ got[w] <= PromptBlocks(Group(w)))
    BY PoolNat DEF Pool, Blocks, Popped
  <2>3. got'[w] > 0 => wpc'[w] = "pop" /\ got'[w] <= PromptBlocks(Group(w)')
    <3>1. CASE Fire(w)
      <4>1. got'[w] = got[w] /\ wpc[w] = "idle"
        BY <3>1 DEF Fire, Alive
      <4> QED
        BY <2>2, <4>1
    <3>2. CASE PrefillCheck(w)
      <4>1. got'[w] = got[w] /\ wpc[w] = "check"
        BY <3>2 DEF PrefillCheck
      <4> QED
        BY <2>2, <4>1
    <3>3. CASE PrefillPop(w)
      <4>1. /\ wpc[w] = "pop" /\ got[w] < PromptBlocks(Group(w))
            /\ got' = [got EXCEPT ![w] = @ + 1] /\ UNCHANGED <<batch, wpc, wpos>>
        BY <3>3 DEF PrefillPop
      <4>2. Group(w)' = Group(w) /\ wpc'[w] = "pop"
        BY <4>1 DEF Group
      <4>3. Group(w) \in Requests
        BY <4>1, GroupBare
      <4>4. PromptBlocks(Group(w)) \in Nat
        BY <4>3, NeedNat
      <4>5. got'[w] = got[w] + 1
        BY <4>1, PoolNat DEF Pool
      <4> HIDE DEF Pool
      <4>6. got'[w] <= PromptBlocks(Group(w))
        BY <2>2, <4>1, <4>4, <4>5
      <4> QED
        BY <4>2, <4>6
    <3>4. CASE PrefillTable(w)
      <4>1. got'[w] = 0
        BY <3>4, PoolNat DEF PrefillTable, Pool
      <4> QED
        BY <4>1
    <3>5. CASE PrefillForward(w)
      <4>1. got'[w] = got[w] /\ wpc[w] = "forward"
        BY <3>5 DEF PrefillForward
      <4> QED
        BY <2>2, <4>1
    <3> QED
      BY <1>2, <3>1, <3>2, <3>3, <3>4, <3>5, PrefillGoesOn DEF Prefill
  <2>4. \A v \in Workers : got'[v] > 0 => wpc'[v] = "pop" /\ got'[v] <= PromptBlocks(Group(v)')
    BY <2>1, <2>3
  <2> QED
    BY <2>4 DEF Popped, PromptBlocks, Group
<1>3. CASE \/ \E r \in Requests : AddRequest(r) \/ CopyDone(r)
           \/ CheckWaiting \/ CheckStates \/ CheckRest
           \/ Dispatch \/ RouteOne \/ RouteEnd \/ Clear
  BY <1>1, <1>3 DEF AddRequest, CopyDone, CheckWaiting, CheckStates, CheckRest, Dispatch,
     RouteOne, RouteEnd, Clear, prefillVars
<1>4. CASE \/ Requeue \/ Flush \/ Join
           \/ \E r \in Requests : EnforceCollocated(r) \/ EnforceDisaggregated(r)
           \/ EnforceEnd \/ EnforceCrash
  BY <1>1, <1>4 DEF Requeue, Flush, Join, EnforceCollocated, EnforceDisaggregated, EnforceEnd,
     EnforceCrash, prefillVars
<1>5. CASE Decode \/ CollocatedStep
  BY <1>1, <1>5 DEF Decode, DecodeStart, DecodeAppend, DecodeEvict, DecodeForward,
     CollocatedStep, prefillVars
<1> QED
  BY <1>2, <1>3, <1>4, <1>5 DEF Next, Main
(* append_slot asks for no more than the need: the length check leaves     *)
(* nobody in the decode batch at the limit.                                *)
LEMMA AppendFits ==
  ASSUME Ample, TypeOK, Outs, Limits, Threads, Traced, DecodeAppend, NeedsBlock(dwRun[dpos])
  PROVE  /\ dwRun[dpos] \in QRun /\ dwRun[dpos] \in Requests
         /\ held[dwRun[dpos]] + 1 <= Need(dwRun[dpos])
<1> DEFINE e == dwRun[dpos]
<1>1. e \in QRun
  <2>1. /\ dpos \in Nat \ {0} /\ dpos <= Len(dwRun) /\ dwRun \in Seq(Requests)
        /\ Len(dwRun) \in Nat
    BY DEF DecodeAppend, TypeOK
  <2> QED
    BY <2>1 DEF QRun, Range
<1>2. dpc = "append" /\ held[e] < Computed(e) \div BlockSize + 1
  BY DEF DecodeAppend, NeedsBlock
<1> HIDE DEF e
<1>3. e \in known /\ e \in Requests
  BY <1>1 DEF Traced, Inside, TypeOK
<1>4. ~ Due(e, dpc = "off")
  BY <1>2 DEF Due, Threads
<1>5. out[e] < MaxTokens /\ out[e] = seqOut[e] /\ seqOut[e] >= 1
  BY <1>1, <1>3, <1>4 DEF Limits, DecodeLimits, Outs
<1>6. /\ held[e] \in Nat /\ seqOut[e] \in Nat /\ PromptLen[e] \in Nat
      /\ BlockSize \in Nat /\ BlockSize > 0 /\ MaxTokens \in Nat
  BY <1>3, PromptLenAssumption, SizesAssumption DEF TypeOK
<1> DEFINE c == Computed(e)
           m == PromptLen[e] + MaxTokens - 2
<1>7. c \in Nat /\ m \in Nat /\ c <= m /\ m + BlockSize = PromptLen[e] + MaxTokens + BlockSize - 2
  BY <1>5, <1>6 DEF Computed
<1>8. held[e] < c \div BlockSize + 1 /\ Need(e) = (m + BlockSize) \div BlockSize
  BY <1>2, <1>7 DEF Need
<1> HIDE DEF c, m
<1>9. c \div BlockSize + 1 <= (m + BlockSize) \div BlockSize
  <2> DEFINE x == c \div BlockSize
             y == (m + BlockSize) \div BlockSize
  <2>1. /\ x \in Nat /\ y \in Nat /\ x * BlockSize <= c
        /\ m + BlockSize < (y + 1) * BlockSize
    BY <1>6, <1>7
  <2> HIDE DEF x, y
  <2>2. SUFFICES ASSUME y <= x
                 PROVE  FALSE
    BY <2>1 DEF x, y
  <2>3. y * BlockSize <= x * BlockSize
    BY <1>6, <2>1, <2>2
  <2>4. (y + 1) * BlockSize = y * BlockSize + BlockSize
    BY <1>6, <2>1
  <2>5. y * BlockSize \in Nat /\ x * BlockSize \in Nat
    BY <1>6, <2>1
  <2> QED
    BY <1>6, <1>7, <2>1, <2>3, <2>4, <2>5
<1>10. c \div BlockSize \in Nat /\ (m + BlockSize) \div BlockSize \in Nat
  BY <1>6, <1>7
<1>11. held[e] + 1 <= Need(e)
  BY <1>6, <1>8, <1>9, <1>10
<1> QED
  BY <1>1, <1>3, <1>11 DEF e

(* What a prefill thread has in a table it keeps, or puts in _prefill_done. *)
LEMMA HoldersPrefill ==
  ASSUME Ample, TypeOK, Grouped, Pool, Apart, Once, Blocks, Healthy,
         NEW w \in Workers, Fire(w) \/ Prefill(w)
  PROVE  /\ Holders \subseteq Holders'
         /\ PrefillTable(w) => Group(w) \in Holders'
<1>1. \A v \in Workers \ {w} : TableOf(v)' = TableOf(v)
  <2> TAKE v \in Workers \ {w}
  <2>1. batch'[v] = batch[v] /\ wpc'[v] = wpc[v] /\ wpos'[v] = wpos[v]
    BY OtherThreads
  <2>2. Tabled(v)' = Tabled(v)
    BY <2>1, Zenon DEF Tabled
  <2> QED
    BY <2>1, <2>2 DEF TableOf
<1>2. QDone \subseteq QDone' /\ QPend' = QPend /\ QRun' = QRun
  BY FireSites, BatchSites, ForwardSites, PrefillGoesOn DEF Prefill, Become
<1>3. TableOf(w) \subseteq TableOf(w)' \cup QDone'
  <2>1. CASE Fire(w)
    <3>1. wpc[w] = "idle"
      BY <2>1, FireSites
    <3> QED
      BY <3>1, TableIn
  <2>2. CASE PrefillCheck(w)
    <3>1. wpc[w] = "check" /\ wpc'[w] = "pop" /\ wpos'[w] = wpos[w] /\ batch'[w] = batch[w]
      BY <2>2, PrefillGoesOn DEF PrefillCheck, TypeOK
    <3>2. Tabled(w) = wpos[w] - 1 /\ Tabled(w)' = wpos[w] - 1
      <4>1. wpc[w] # "forward" /\ wpc'[w] # "forward"
        BY <3>1
      <4> QED
        BY <3>1, <4>1, Zenon DEF Tabled
    <3> QED
      BY <3>1, <3>2 DEF TableOf
  <2>3. CASE PrefillPop(w)
    BY <2>3 DEF PrefillPop, TableOf, Tabled
  <2>4. CASE PrefillTable(w)
    BY <2>4, TabledStep
  <2>5. CASE PrefillForward(w)
    BY <2>5, ForwardSites, TableIn DEF Become
  <2> QED
    BY <2>1, <2>2, <2>3, <2>4, <2>5, PrefillGoesOn DEF Prefill
<1>4. Holders \subseteq Holders'
  BY <1>1, <1>2, <1>3 DEF Holders
<1>5. ASSUME PrefillTable(w)
      PROVE  Group(w) \in Holders'
  <2>1. Group(w) \in TableOf(w)'
    BY <1>5, TabledStep
  <2> QED
    BY <2>1 DEF Holders
<1> QED
  BY <1>4, <1>5

LEMMA HoldersKept ==
  ASSUME UNCHANGED <<batch, wpc, wpos>>, NEW S,
         QDone \cup QPend \cup QRun \subseteq QDone' \cup QPend' \cup QRun' \cup S
  PROVE  Holders \subseteq Holders' \cup S
<1>1. \A v \in Workers : TableOf(v)' = TableOf(v)
  <2> TAKE v \in Workers
  <2>1. Tabled(v)' = Tabled(v)
    BY Zenon DEF Tabled
  <2> QED
    BY <2>1 DEF TableOf
<1> QED
  BY <1>1 DEF Holders
LEMMA BoundedStep ==
  ASSUME Ample, TypeOK, Grouped, Pool, Apart, Once, Outs, Limits, Threads, Traced, Healthy,
         Blocks, Next
  PROVE  Bounded'
<1>0. /\ \A r \in Requests : held[r] \in Nat /\ held[r] <= Need(r) /\ Need(r) \in Nat
      /\ \A r \in Requests : held[r] > 0 => r \in Holders
      /\ held \in [Requests -> Nat]
  BY PoolNat, NeedNat DEF Pool, Blocks, Bounded
(* It is enough that blocks kept have a holder still, and that new ones    *)
(* are within the need.                                                    *)
<1>1. ASSUME \A r \in Requests :
               \/ held'[r] = 0
               \/ held'[r] <= Need(r) /\ r \in Holders'
               \/ held'[r] = held[r] /\ (r \in Holders => r \in Holders')
      PROVE  Bounded'
  <2>1. ASSUME NEW r \in Requests
        PROVE  held'[r] <= Need(r) /\ (held'[r] > 0 => r \in Holders')
    BY <1>0, <1>1
  <2> QED
    BY <2>1 DEF Bounded, Need
<1>2. CASE UNCHANGED <<held, batch, wpc, wpos>> /\ QDone \cup QPend \cup QRun \subseteq QDone' \cup QPend' \cup QRun'
  <2>1. Holders \subseteq Holders' \cup {}
    BY <1>2, HoldersKept
  <2> QED
    BY <1>1, <1>2, <2>1
<1>3. ASSUME NEW S \in SUBSET Requests, UNCHANGED <<batch, wpc, wpos>>, held' = HeldAfter(S),
             QDone \cup QPend \cup QRun \subseteq QDone' \cup QPend' \cup QRun' \cup S
      PROVE  Bounded'
  <2>1. Holders \subseteq Holders' \cup S
    BY <1>3, HoldersKept
  <2>2. \A r \in Requests : held'[r] = 0 \/ (held'[r] = held[r] /\ r \notin S)
    BY <1>3 DEF HeldAfter
  <2> QED
    BY <1>1, <2>1, <2>2
<1>4. ASSUME NEW w \in Workers, Fire(w) \/ Prefill(w)
      PROVE  Bounded'
  <2>1. Holders \subseteq Holders'
    BY <1>4, HoldersPrefill
  <2>2. CASE PrefillTable(w)
    <3>1. wpc[w] = "pop" /\ got[w] = PromptBlocks(Group(w)) /\ held' = [held EXCEPT ![Group(w)] = got[w]]
      BY <2>2 DEF PrefillTable
    <3>2. Group(w) \in Requests /\ Group(w) \in Holders'
      BY <1>4, <2>2, <3>1, GroupBare, HoldersPrefill
    <3>3. held'[Group(w)] <= Need(Group(w))
      BY <1>0, <3>1, <3>2, NeedNat
    <3>4. \A r \in Requests \ {Group(w)} : held'[r] = held[r]
      BY <1>0, <3>1
    <3> QED
      BY <1>1, <2>1, <3>2, <3>3, <3>4
  <2>3. CASE ~ PrefillTable(w)
    <3>1. held' = held
      BY <1>4, <2>3 DEF Fire, Prefill, PrefillCheck, PrefillPop, PrefillOOM, PrefillForward,
         PrefillRequeue, PrefillForget, poolVars
    <3> QED
      BY <1>1, <2>1, <3>1
  <2> QED
    BY <2>2, <2>3
<1>5. CASE DecodeAppend
  <2>1. /\ Become(QWait, QClaim, QPre, QDone, QPend, QRun, QCw, cwRun)
        /\ UNCHANGED <<batch, wpc, wpos>>
    BY <1>5, QuietSites DEF Quiet
  <2>2. Holders \subseteq Holders' \cup {} /\ QRun' = QRun
    BY <2>1, HoldersKept DEF Become
  <2>3. CASE NeedsBlock(dwRun[dpos])
    <3> DEFINE e == dwRun[dpos]
    <3>1. e \in QRun /\ e \in Requests /\ held[e] + 1 <= Need(e)
      BY <1>5, <2>3, AppendFits
    <3>2. held' = [held EXCEPT ![e] = @ + 1]
      BY <1>5, <2>3 DEF DecodeAppend
    <3> HIDE DEF e
    <3>3. held'[e] <= Need(e) /\ \A r \in Requests \ {e} : held'[r] = held[r]
      BY <1>0, <3>1, <3>2
    <3>4. e \in Holders'
      BY <2>2, <3>1 DEF Holders
    <3> QED
      BY <1>1, <2>2, <3>1, <3>3, <3>4
  <2>4. CASE ~ NeedsBlock(dwRun[dpos])
    <3>1. held' = held
      BY <1>5, <2>4 DEF DecodeAppend, poolVars
    <3> QED
      BY <1>1, <2>2, <3>1
  <2> QED
    BY <2>3, <2>4
<1>6. CASE DecodeEvict
  <2> DEFINE e == Head(dwRun)
  <2>1. Become(QWait, QClaim, QPre, QDone, QPend, QRun \ {e}, QCw, cwRun) /\ e \in QRun
    BY <1>6, DecodeEvictSites
  <2>2. held' = HeldAfter({e}) /\ UNCHANGED <<batch, wpc, wpos>>
    BY <1>6 DEF DecodeEvict, prefillVars
  <2> HIDE DEF e
  <2>3. {e} \in SUBSET Requests
    BY <2>1, SitesTyped DEF Sites
  <2>4. QDone \cup QPend \cup QRun \subseteq QDone' \cup QPend' \cup QRun' \cup {e}
    BY <2>1 DEF Become
  <2> QED
    BY <1>3, <2>2, <2>3, <2>4
<1>7. CASE DecodeForward
  <2>1. PICK eos, up \in SUBSET Requests : Forwarded(eos, up)
    BY <1>7, DecodeForwardSites
  <2>2. /\ Become(QWait, QClaim, QPre, QDone, QPend \ up, (QRun \ eos) \cup up, QCw, cwRun)
        /\ held' = HeldAfter(eos)
    BY <2>1 DEF Forwarded
  <2>3. UNCHANGED <<batch, wpc, wpos>>
    BY <1>7 DEF DecodeForward, prefillVars
  <2>4. QDone \cup QPend \cup QRun \subseteq QDone' \cup QPend' \cup QRun' \cup eos
    BY <2>2 DEF Become
  <2> QED
    BY <1>3, <2>2, <2>3, <2>4
<1>8. ASSUME NEW q \in Requests, EnforceDisaggregated(q)
      PROVE  Bounded'
  <2> DEFINE S == IF Leaves(q) THEN {q} ELSE {}
  <2>1. S \in SUBSET Requests /\ held' = HeldAfter(S) /\ UNCHANGED <<batch, wpc, wpos>>
    BY <1>8 DEF EnforceDisaggregated, prefillVars
  <2>2. QDone \cup QPend \cup QRun \subseteq QDone' \cup QPend' \cup QRun' \cup S
    BY <1>8, EnforceSites DEF Become
  <2> QED
    BY <1>3, <2>1, <2>2
<1>9. CASE \/ \E r \in Requests : AddRequest(r) \/ CopyDone(r) \/ EnforceCollocated(r)
           \/ CheckWaiting \/ CheckStates \/ CheckRest \/ Dispatch \/ RouteOne \/ RouteEnd
  <2>1. UNCHANGED <<held, batch, wpc, wpos, done, pending, dwRun>>
    BY <1>9 DEF AddRequest, CopyDone, EnforceCollocated, CheckWaiting, CheckStates, CheckRest,
       Dispatch, RouteOne, RouteEnd, poolVars, prefillVars, decodeVars
  <2> QED
    BY <1>2, <2>1, SameSites
<1>10. CASE Clear \/ Requeue \/ Join \/ EnforceEnd \/ EnforceCrash \/ CollocatedStep
  <2>1. UNCHANGED <<held, batch, wpc, wpos, done, pending, dwRun>>
    BY <1>10 DEF Clear, Requeue, Join, EnforceEnd, EnforceCrash, CollocatedStep, poolVars,
       prefillVars, decodeVars
  <2> QED
    BY <1>2, <2>1, SameSites
<1>11. CASE Flush
  <2>1. Become(QWait, QClaim, QPre, {}, QPend \cup (QDone \cap known), QRun, QCw, cwRun)
    BY <1>11, FlushSites
  <2>2. UNCHANGED <<held, batch, wpc, wpos>>
    BY <1>11 DEF Flush, poolVars
  <2> QED
    BY <1>2, <2>1, <2>2 DEF Become, Traced, Inside
<1>12. CASE DecodeStart
  <2>1. Become(QWait, QClaim, QPre, QDone, QPend \ copied, QRun \cup (QPend \cap copied), QCw,
               cwRun)
    BY <1>12, DecodeStartSites
  <2>2. UNCHANGED <<held, batch, wpc, wpos>>
    BY <1>12 DEF DecodeStart, poolVars, prefillVars
  <2> QED
    BY <1>2, <2>1, <2>2 DEF Become
<1> QED
  BY <1>4, <1>5, <1>6, <1>7, <1>8, <1>9, <1>10, <1>11, <1>12 DEF Next, Main, Decode
-----------------------------------------------------------------------------
(* The inductive invariant, when the pool is ample.                        *)
AmpleInd == LimInd /\ States /\ Blocks

LEMMA ApartAlso == TypeOK /\ ServedOnce => Apart
BY ApartNow

LEMMA ApartAfter == TypeOK' /\ ServedOnce' => Apart'
BY ApartAlso, PTL

LEMMA InitAmple == Init => AmpleInd
<1> SUFFICES ASSUME Init
             PROVE  AmpleInd
  OBVIOUS
<1>1. LimInd
  BY InitLimited
<1>2. TypeOK /\ PoolInv(free, held, got)
  BY <1>1 DEF LimInd, OutInd, Ind, Pool
<1>3. Balance
  <2>1. (\A r \in Requests : held[r] = 0) /\ (\A w \in Workers : got[w] = 0) /\ free = NumBlocks
    BY DEF Init
  <2>2. Sum(held, Requests) = 0 /\ Sum(got, Workers) = 0
    BY <2>1, SumNone, Zenon
  <2>3. NumBlocks \in Nat
    BY SizesAssumption
  <2> QED
    BY <2>1, <2>2, <2>3 DEF Balance, AllBlocks
<1>4. Bounded
  <2>1. \A r \in Requests : held[r] = 0
    BY DEF Init
  <2> QED
    BY <2>1, NeedNat DEF Bounded
<1>5. Popped
  BY DEF Init, Popped
<1>6. Traced
  <2>1. \A w \in Workers : batch[w] = <<>> /\ wpc[w] = "idle"
    BY DEF Init
  <2>2. QPre = {}
    BY <2>1 DEF QPre, In, Rest, PutBack
  <2>3. QWait = {}
    BY DEF Init, QWait, Rest, Passed
  <2>4. QClaim = {} /\ QDone = {} /\ QPend = {} /\ QRun = {} /\ QCw = {}
    BY RangeEmpty DEF Init, QClaim, QDone, QPend, QRun, QCw
  <2>5. cwRun = {} /\ cwFin = {} /\ known = {} /\ arrived = {}
    BY DEF Init
  <2> QED
    BY <2>2, <2>3, <2>4, <2>5 DEF Traced, Inside
<1>7. Healthy /\ Loop
  BY DEF Init, Healthy, Loop
<1> QED
  BY <1>1, <1>3, <1>4, <1>5, <1>6, <1>7 DEF AmpleInd, States, Blocks

LEMMA NextAmple ==
  ASSUME Ample, AmpleInd, [Next]_vars
  PROVE  AmpleInd'
<1>1. /\ TypeOK /\ Grouped /\ Pool /\ ServedOnce /\ NotArrived /\ Outs /\ Threads /\ Departed
      /\ Limits /\ Traced /\ Healthy /\ Loop /\ Blocks
  BY DEF Ample, AmpleInd, LimInd, OutInd, Ind, Noted, States
<1>2. Apart /\ Once
  BY <1>1, ApartNow, OnceNow
<1>3. LimInd'
  BY NextLimited DEF AmpleInd
<1>4. Apart'
  BY <1>3, ApartAfter DEF LimInd, OutInd, Ind
<1>5. CASE Next
  <2>1. States'
    BY <1>1, <1>2, <1>4, <1>5, TracedStep, HealthyStep, LoopStep DEF States
  <2>2. Blocks'
    BY <1>1, <1>2, <1>5, BalanceStep, BoundedStep, PoppedStep DEF Blocks
  <2> QED
    BY <1>3, <2>1, <2>2 DEF AmpleInd
<1>6. CASE UNCHANGED vars
  <2>1. UNCHANGED <<waiting, pc, pos, claim, batch, wpc, wpos, got, done, pending, dwRun, cwWait,
                    cwRun, cwFin, known, arrived, fin, seen, free, held>>
    BY <1>6 DEF vars, mainVars, stateVars, poolVars, prefillVars, decodeVars, collVars
  <2>2. Become(QWait, QClaim, QPre, QDone, QPend, QRun, QCw, cwRun)
    BY <2>1, SameSites DEF Become, Passed
  <2>3. Traced'
    BY <1>1, <2>1, <2>2, TracedQuiet
  <2>4. Healthy' /\ Loop'
    BY <1>1, <2>1 DEF Healthy, Loop
  <2>5. Balance' /\ Popped'
    BY <1>1, <2>1 DEF Blocks, Balance, AllBlocks, Popped, Group
  <2>6. Bounded'
    <3>1. Holders \subseteq Holders' \cup {}
      BY <2>1, <2>2, HoldersKept DEF Become
    <3> QED
      BY <1>1, <2>1, <3>1 DEF Blocks, Bounded
  <2> QED
    BY <1>3, <2>3, <2>4, <2>5, <2>6 DEF AmpleInd, States, Blocks
<1> QED
  BY <1>5, <1>6

LEMMA AlwaysAmple == Ample => (Spec => []AmpleInd)
<1> SUFFICES ASSUME Ample
             PROVE  Spec => []AmpleInd
  OBVIOUS
<1>1. AmpleInd /\ [Next]_vars => AmpleInd'
  BY NextAmple
<1> QED
  BY <1>1, InitAmple, PTL DEF Spec
-----------------------------------------------------------------------------
(* A finished request keeps its state, its result and its output.          *)
LEMMA FinalStep ==
  ASSUME Ample, AmpleInd, [Next]_vars
  PROVE  \A r \in known : fin[r] => r \in known' /\ fin'[r] /\ out'[r] = out[r]
<1>1. /\ TypeOK /\ Grouped /\ Pool /\ ServedOnce /\ Outs /\ Limits /\ Traced /\ Healthy /\ Blocks
  BY DEF Ample, AmpleInd, LimInd, OutInd, Ind, Noted, States
<1>2. Apart /\ Once
  BY <1>1, ApartNow, OnceNow
<1>3. known \subseteq Requests /\ fin \in [Requests -> BOOLEAN] /\ out \in [Requests -> Nat]
  BY <1>1 DEF TypeOK
<1>4. CASE UNCHANGED <<known, fin, out>>
  BY <1>4
<1>5. CASE RouteOne
  <2> DEFINE e == waiting[pos]
  <2>1. e \in QWait
    BY <1>1, <1>5, RouteSites
  <2>2. /\ known' = known \cup {e} /\ fin' = [fin EXCEPT ![e] = FALSE]
        /\ out' = [out EXCEPT ![e] = 0]
    BY <1>5 DEF RouteOne
  <2> HIDE DEF e
  <2>3. e \notin known
    BY <1>1, <2>1 DEF Traced
  <2>4. \A r \in Requests \ {e} : out'[r] = out[r] /\ (fin[r] => fin'[r])
    BY <1>3, <2>2, Zenon
  <2> QED
    BY <1>3, <2>2, <2>3, <2>4
<1>6. CASE Requeue
  <2>1. known' = known \ QClaim /\ UNCHANGED <<fin, out>>
    BY <1>6 DEF Requeue, QClaim
  <2>2. \A r \in QClaim \cap known : ~ fin[r]
    BY <1>1 DEF Outs, Fresh
  <2> QED
    BY <2>1, <2>2
<1>7. CASE Flush
  <2>1. /\ out' = [r \in Requests |-> IF r \in Range(Keep(done, known)) THEN out[r] + 1 ELSE out[r]]
        /\ UNCHANGED <<known, fin>>
    BY <1>7 DEF Flush
  <2>2. Range(Keep(done, known)) = QDone \cap known
    BY <1>1, RangeKeep DEF QDone, TypeOK
  <2>3. \A r \in QDone \cap known : ~ fin[r]
    BY <1>1 DEF Outs, Fresh
  <2>4. \A r \in Requests \ (QDone \cap known) : out'[r] = out[r]
    BY <2>1, <2>2
  <2> QED
    BY <1>3, <2>1, <2>3, <2>4
<1>8. ASSUME NEW q \in Requests, EnforceCollocated(q)
      PROVE  \A r \in known : fin[r] => r \in known' /\ fin'[r] /\ out'[r] = out[r]
  <2>1. known' = known
    BY <1>8 DEF EnforceCollocated
  <2>2. CASE fin[q]
    BY <1>4, <1>8, <2>1, <2>2 DEF EnforceCollocated
  <2>3. CASE ~ fin[q]
    <3>1. \/ UNCHANGED <<fin, out>>
          \/ out' = [out EXCEPT ![q] = cwOut[q]] /\ fin' = [fin EXCEPT ![q] = TRUE]
      BY <1>8 DEF EnforceCollocated
    <3>2. \A r \in Requests \ {q} : out'[r] = out[r] /\ (fin[r] => fin'[r])
      BY <1>3, <3>1, Zenon
    <3> QED
      BY <1>3, <2>1, <2>3, <3>2
  <2> QED
    BY <2>2, <2>3
<1>9. ASSUME NEW q \in Requests, EnforceDisaggregated(q)
      PROVE  \A r \in known : fin[r] => r \in known' /\ fin'[r] /\ out'[r] = out[r]
  <2>1. UNCHANGED <<known, out>> /\ fin' = [fin EXCEPT ![q] = @ \/ AtLimit(q)]
    BY <1>9 DEF EnforceDisaggregated
  <2>2. \A r \in Requests : fin[r] => fin'[r]
    BY <1>3, <2>1, Zenon
  <2> QED
    BY <1>3, <2>1, <2>2
<1>10. CASE DecodeEvict
  <2>1. UNCHANGED <<known, out>> /\ fin' = FinAfter({Head(dwRun)})
    BY <1>10 DEF DecodeEvict
  <2>2. \A r \in Requests : fin[r] => fin'[r]
    BY <2>1, Zenon DEF FinAfter
  <2> QED
    BY <1>3, <2>1, <2>2
<1>11. CASE DecodeForward
  <2>1. PICK eos, up \in SUBSET Requests : Forwarded(eos, up)
    BY <1>1, <1>11, DecodeForwardSites
  <2>2. /\ out' = [r \in Requests |-> IF r \in QRun \cap known THEN out[r] + 1 ELSE out[r]]
        /\ fin' = FinAfter(eos)
    BY <2>1 DEF Forwarded
  <2>3. known' = known
    BY <1>11 DEF DecodeForward
  <2>4. \A r \in Requests : fin[r] => fin'[r]
    BY <2>2, Zenon DEF FinAfter
  <2>5. \A r \in QRun \cap known : ~ fin[r]
    BY <1>1 DEF Limits, DecodeLimits
  <2>6. \A r \in Requests \ (QRun \cap known) : out'[r] = out[r]
    BY <2>2
  <2> QED
    BY <1>3, <2>3, <2>4, <2>5, <2>6
<1>12. CASE CollocatedStep
  <2> DEFINE new == (cwFin \cup (cwRun \cap cwStop)) \cap {r \in known : ~ fin[r]}
  <2>1. /\ out' = [r \in Requests |-> IF r \in new THEN cwOut[r] ELSE out[r]]
        /\ fin' = [r \in Requests |-> fin[r] \/ r \in new]
        /\ known' = known
    BY <1>12 DEF CollocatedStep
  <2>2. \A r \in new : ~ fin[r]
    OBVIOUS
  <2> HIDE DEF new
  <2>3. \A r \in Requests : fin[r] => fin'[r]
    BY <2>1, Zenon
  <2>4. \A r \in Requests \ new : out'[r] = out[r]
    BY <2>1
  <2> QED
    BY <1>3, <2>1, <2>2, <2>3, <2>4
<1>13. ASSUME NEW w \in Workers, Prefill(w)
       PROVE  UNCHANGED <<known, fin, out>>
  <2>1. PrefillCheck(w) \/ PrefillPop(w) \/ PrefillTable(w) \/ PrefillForward(w)
    BY <1>1, <1>2, <1>13, PrefillGoesOn DEF Prefill
  <2> QED
    BY <2>1 DEF PrefillCheck, PrefillPop, PrefillTable, PrefillForward, stateVars
<1>14. CASE \/ \E r \in Requests : AddRequest(r) \/ CopyDone(r)
            \/ CheckWaiting \/ CheckStates \/ CheckRest \/ Dispatch \/ RouteEnd \/ Clear
            \/ (\E w \in Workers : Fire(w))
  BY <1>4, <1>14 DEF AddRequest, CopyDone, CheckWaiting, CheckStates, CheckRest, Dispatch,
     RouteEnd, Clear, Fire, stateVars
<1>15. CASE Join \/ EnforceEnd \/ EnforceCrash \/ DecodeStart \/ DecodeAppend \/ UNCHANGED vars
  BY <1>4, <1>15 DEF Join, EnforceEnd, EnforceCrash, DecodeStart, DecodeAppend, vars, stateVars
<1> QED
  BY <1>4, <1>5, <1>6, <1>7, <1>8, <1>9, <1>10, <1>11, <1>12, <1>13, <1>14, <1>15
     DEF Next, Main, Decode

(* With an ample pool no request is lost: each that was added has a result *)
(* or is in exactly one place, through dispatch, requeue, prefill, copy,   *)
(* decode and eviction (_dispatch_waiting, _prefill_task,                  *)
(* _flush_prefill_done, DecodeWorker.step, _enforce_max_tokens).           *)
THEOREM NobodyLeftOut == Ample => (Spec => []NobodyLost)
<1> SUFFICES ASSUME Ample
             PROVE  Spec => []NobodyLost
  OBVIOUS
<1>1. AmpleInd => NobodyLost
  <2> SUFFICES ASSUME AmpleInd, NEW r \in arrived
               PROVE  (r \in known /\ fin[r]) \/ Places(r) = 1
    BY DEF NobodyLost
  <2>1. TypeOK /\ ServedOnce /\ Traced /\ r \in Requests
    BY DEF AmpleInd, LimInd, OutInd, Ind, States, TypeOK
  <2>2. Places(r) = 0 => Nowhere(r)
    BY <2>1, PlacedNow DEF Placed
  <2>3. Nowhere(r) => r \in known /\ fin[r]
    BY <2>1 DEF Traced
  <2>4. Places(r) \in Nat /\ Places(r) <= 1
    BY <2>1, PlacesNat DEF ServedOnce
  <2> QED
    BY <2>2, <2>3, <2>4
<1> QED
  BY <1>1, AlwaysAmple, PTL

(* With an ample pool no block leaks: each is free, popped by an           *)
(* allocate(), or in the table of a request on its way through prefill,    *)
(* copy and decode (BlockManager.allocate, append_slot, free).             *)
THEOREM NothingLeaks == Ample => (Spec => []PoolBalanced)
<1> SUFFICES ASSUME Ample
             PROVE  Spec => []PoolBalanced
  OBVIOUS
<1>1. AmpleInd => PoolBalanced
  <2> SUFFICES ASSUME AmpleInd
               PROVE  PoolBalanced
    OBVIOUS
  <2>1. TypeOK /\ Grouped /\ Balance /\ Bounded
    BY DEF AmpleInd, LimInd, OutInd, Ind, Blocks
  <2>2. \A w \in Workers : TableOf(w) \subseteq Range(batch[w])
    <3> TAKE w \in Workers
    <3>1. batch[w] \in Seq(Requests)
      BY <2>1 DEF TypeOK
    <3>2. In(w) \subseteq Range(batch[w])
      <4>1. PutBack(w) \in Nat
        BY <2>1 DEF PutBack, TypeOK
      <4>2. Rest(batch[w], PutBack(w)) \subseteq Rest(batch[w], 0)
        BY <4>1 DEF Rest
      <4> QED
        BY <3>1, <4>2, RangeRest DEF In
    <3> QED
      BY <2>1, <3>2, TableIn
  <2>3. \A r \in Requests : held[r] > 0 =>
          \/ r \in Range(done) \cup Range(pending) \cup Range(dwRun)
          \/ \E w \in Workers : r \in Range(batch[w])
    BY <2>1, <2>2 DEF Bounded, Holders, QDone, QPend, QRun
  <2> QED
    BY <2>1, <2>3 DEF PoolBalanced, Balance, AllBlocks
<1> QED
  BY <1>1, AlwaysAmple, PTL

(* With an ample pool a result is final: the tokens that a worker still    *)
(* produces for a finished request do not change it (_enforce_max_tokens,  *)
(* _step_disaggregated, _step_collocated).                                 *)
THEOREM ResultsFinal == Ample => (Spec => ResultFinal)
<1> SUFFICES ASSUME Ample
             PROVE  Spec => ResultFinal
  OBVIOUS
<1>1. AmpleInd /\ [Next]_vars =>
        [\A r \in known : fin[r] => r \in known' /\ fin'[r] /\ out'[r] = out[r]]_vars
  BY FinalStep
<1> QED
  BY <1>1, AlwaysAmple, PTL DEF Spec, ResultFinal

(* With an ample pool the main thread survives: no prefill thread takes a  *)
(* state out of _states while _enforce_max_tokens iterates over it.        *)
THEOREM LoopLives == Ample => (Spec => []LoopSurvives)
<1> SUFFICES ASSUME Ample
             PROVE  Spec => []LoopSurvives
  OBVIOUS
<1>1. AmpleInd => LoopSurvives
  BY DEF AmpleInd, States, Loop, LoopSurvives
<1> QED
  BY <1>1, AlwaysAmple, PTL
-----------------------------------------------------------------------------
(* Refinement: each step is one of the service, or changes no phase.       *)
Phases == [r \in Requests |-> Phase(r)]

LEMMA FinishStep ==
  ASSUME AmpleInd, UNCHANGED <<arrived, known, path>>, \A r \in known : fin[r] => fin'[r]
  PROVE  Service!Next
<1> DEFINE S == {r \in known : fin'[r] /\ ~ fin[r]}
<1>1. TypeOK /\ Traced
  BY DEF AmpleInd, LimInd, OutInd, Ind, States
<1>2. /\ known \subseteq Requests /\ known \subseteq arrived
      /\ \A r \in Requests : path[r] \in Paths
  BY <1>1 DEF TypeOK, Traced
<1>3. S \in SUBSET Requests
  BY <1>2
<1>4. \A r \in S : Phases[r] \in Paths
  BY <1>2 DEF Phases, Phase
<1>5. \A r \in Requests : Phase(r)' = IF r \in S THEN "finished" ELSE Phase(r)
  <2> TAKE r \in Requests
  <2>1. CASE r \in S
    BY <1>2, <2>1 DEF Phase
  <2>2. CASE r \in known \ S
    <3>1. fin'[r] <=> fin[r]
      BY <2>2
    <3> QED
      BY <1>2, <2>2, <3>1 DEF Phase
  <2>3. CASE r \notin known
    BY <2>3 DEF Phase
  <2> QED
    BY <2>1, <2>2, <2>3
<1> HIDE DEF S
<1>6. Phases' = [r \in Requests |-> IF r \in S THEN "finished" ELSE Phases[r]]
  BY <1>5 DEF Phases
<1>7. Service!Finish(S)
  BY <1>4, <1>6 DEF Service!Finish, Phases
<1> QED
  BY <1>3, <1>7 DEF Service!Next

LEMMA SubmitStep ==
  ASSUME AmpleInd, NEW q \in Requests, AddRequest(q)
  PROVE  Service!Next
<1>1. Traced
  BY DEF AmpleInd, States
<1>2. q \notin arrived /\ arrived' = arrived \cup {q} /\ UNCHANGED <<known, fin, path>>
  BY DEF AddRequest, stateVars
<1>3. q \notin known
  BY <1>1, <1>2 DEF Traced
<1>4. Phases[q] = "new"
  BY <1>2 DEF Phases, Phase
<1>5. \A r \in Requests : Phase(r)' = IF r = q THEN "queued" ELSE Phase(r)
  BY <1>2, <1>3 DEF Phase
<1>6. Phases' = [Phases EXCEPT ![q] = "queued"]
  BY <1>5 DEF Phases
<1>7. Service!Submit(q)
  BY <1>4, <1>6 DEF Service!Submit, Phases
<1> QED
  BY <1>7 DEF Service!Next

LEMMA AssignStep ==
  ASSUME AmpleInd, RouteOne
  PROVE  Service!Next
<1>1. TypeOK /\ Traced /\ NotArrived
  BY DEF AmpleInd, LimInd, OutInd, Ind, States
<1> DEFINE e == waiting[pos]
<1>2. /\ e \in QWait
      /\ \E p \in Paths : path' = [path EXCEPT ![e] = p]
  BY <1>1, RouteSites DEF Paths
<1>3. /\ known' = known \cup {e} /\ fin' = [fin EXCEPT ![e] = FALSE] /\ arrived' = arrived
  BY DEF RouteOne
<1> HIDE DEF e
<1>4. e \in Requests /\ e \in arrived /\ e \notin known
  <2>1. e \in Requests
    BY <1>1, <1>2, SitesTyped DEF Sites
  <2>2. Places(e) # 0
    BY <1>1, <1>2, <2>1, NotHere
  <2> QED
    BY <1>1, <1>2, <2>1, <2>2 DEF NotArrived, Traced
<1>5. PICK p \in Paths : path' = [path EXCEPT ![e] = p]
  BY <1>2
<1>6. path'[e] = p /\ \A r \in Requests \ {e} : path'[r] = path[r] /\ fin'[r] = fin[r]
  BY <1>1, <1>3, <1>4, <1>5 DEF TypeOK
<1>7. fin'[e] = FALSE
  BY <1>1, <1>3, <1>4, Zenon DEF TypeOK
<1>8. Phases[e] = "queued"
  BY <1>4 DEF Phases, Phase
<1>9. \A r \in Requests : Phase(r)' = IF r = e THEN p ELSE Phase(r)
  BY <1>3, <1>4, <1>6, <1>7 DEF Phase
<1>10. Phases' = [Phases EXCEPT ![e] = p]
  BY <1>9 DEF Phases
<1>11. Service!Assign(e, p)
  BY <1>8, <1>10 DEF Service!Assign, Phases
<1> QED
  BY <1>4, <1>11 DEF Service!Next

LEMMA ReturnStep ==
  ASSUME AmpleInd, Requeue
  PROVE  Service!Next
<1>1. TypeOK /\ Traced /\ Outs
  BY DEF AmpleInd, LimInd, OutInd, Ind, Noted, States
<1>2. known' = known \ QClaim /\ UNCHANGED <<arrived, fin, path>>
  BY DEF Requeue, QClaim
<1>3. QClaim \subseteq known /\ known \subseteq arrived /\ QClaim \in SUBSET Requests
  BY <1>1 DEF Traced, Inside, TypeOK
<1>4. \A r \in QClaim : path[r] = "disaggregated" /\ ~ fin[r]
  BY <1>1, <1>3 DEF Outs, Fresh
<1>5. \A r \in QClaim : Phases[r] = "disaggregated"
  BY <1>3, <1>4 DEF Phases, Phase
<1>6. \A r \in Requests : Phase(r)' = IF r \in QClaim THEN "queued" ELSE Phase(r)
  BY <1>2, <1>3 DEF Phase
<1>7. Phases' = [r \in Requests |-> IF r \in QClaim THEN "queued" ELSE Phases[r]]
  BY <1>6 DEF Phases
<1>8. Service!Return(QClaim)
  BY <1>5, <1>7 DEF Service!Return, Phases
<1> QED
  BY <1>3, <1>8 DEF Service!Next

LEMMA ServiceNext ==
  ASSUME Ample, AmpleInd, [Next]_vars
  PROVE  Service!Next
<1>1. /\ TypeOK /\ Grouped /\ Pool /\ ServedOnce /\ Healthy /\ Blocks
  BY DEF Ample, AmpleInd, LimInd, OutInd, Ind, States
<1>2. Apart /\ Once
  BY <1>1, ApartNow, OnceNow
<1>3. ASSUME UNCHANGED <<arrived, known, path>>
      PROVE  Service!Next
  BY <1>3, FinalStep, FinishStep
<1>4. ASSUME NEW w \in Workers, Prefill(w)
      PROVE  UNCHANGED <<arrived, known, path>>
  <2>1. PrefillCheck(w) \/ PrefillPop(w) \/ PrefillTable(w) \/ PrefillForward(w)
    BY <1>1, <1>2, <1>4, PrefillGoesOn DEF Prefill
  <2> QED
    BY <2>1 DEF PrefillCheck, PrefillPop, PrefillTable, PrefillForward, mainVars, stateVars
<1>5. CASE \/ \E r \in Requests : CopyDone(r) \/ EnforceCollocated(r) \/ EnforceDisaggregated(r)
           \/ CheckWaiting \/ CheckStates \/ CheckRest \/ Dispatch \/ RouteEnd \/ Clear
  BY <1>3, <1>5 DEF CopyDone, EnforceCollocated, EnforceDisaggregated, CheckWaiting,
     CheckStates, CheckRest, Dispatch, RouteEnd, Clear, mainVars, stateVars
<1>6. CASE \/ \E w \in Workers : Fire(w)
           \/ Flush \/ Join \/ EnforceEnd \/ EnforceCrash
  BY <1>3, <1>6 DEF Fire, Flush, Join, EnforceEnd, EnforceCrash, stateVars
<1>7. CASE Decode \/ CollocatedStep \/ UNCHANGED vars
  BY <1>3, <1>7 DEF Decode, DecodeStart, DecodeAppend, DecodeEvict, DecodeForward,
     CollocatedStep, vars, mainVars, stateVars
<1> QED
  BY <1>3, <1>4, <1>5, <1>6, <1>7, SubmitStep, AssignStep, ReturnStep DEF Next, Main

LEMMA ServiceInit == Init => Service!Init
<1> SUFFICES ASSUME Init
             PROVE  Service!Init
  OBVIOUS
<1>1. arrived = {}
  BY DEF Init
<1>2. \A r \in Requests : Phase(r) = "new"
  BY <1>1 DEF Phase
<1> QED
  BY <1>2 DEF Service!Init

(* With an ample pool the router loop implements its service: each request *)
(* is queued, given to one path, comes back only from the disaggregated    *)
(* one and before it has a result, and finishes once (CentralScheduler     *)
(* .step and the threads it starts).                                       *)
THEOREM ImplementsService == Ample => (Spec => ServiceSpec)
<1> SUFFICES ASSUME Ample
             PROVE  Spec => ServiceSpec
  OBVIOUS
<1>1. AmpleInd /\ [Next]_vars => [Service!Next]_([r \in Requests |-> Phase(r)])
  BY ServiceNext
<1>2. Spec => Service!Spec
  BY <1>1, ServiceInit, AlwaysAmple, PTL DEF Spec, Service!Spec
<1> QED
  BY <1>2 DEF ServiceSpec
=============================================================================
