------------------------- MODULE CentralOutputs_proofs -------------------------
(***************************************************************************)
(* Theorems about the tokens of CentralScheduler, for any requests,        *)
(* workers, routes and pool: the router's copy of an output and the        *)
(* sequence's own agree in the decode batch, every position fed there has  *)
(* a block, and with max_new_tokens above one nobody gets more tokens.     *)
(***************************************************************************)
EXTENDS CentralScheduler_proofs

(* The elements of q after the first n.                                    *)
Rest(q, n) == {q[i] : i \in n + 1 .. Len(q)}

LEMMA RestOccurs ==
  ASSUME NEW r, NEW T, NEW q \in Seq(T), NEW n \in Nat
  PROVE  /\ Occurs(r, q, n) \in Nat
         /\ r \in Rest(q, n) <=> Occurs(r, q, n) > 0
         /\ r \in Rest(q, n) <=> Occurs(r, q, n) # 0
<1>1. IsFiniteSet(Spots(r, q, n)) /\ Occurs(r, q, n) \in Nat
  BY OccursNat
<1>2. r \in Rest(q, n) <=> Spots(r, q, n) # {}
  BY DEF Rest, Spots
<1>3. Cardinality(Spots(r, q, n)) = 0 <=> Spots(r, q, n) = {}
  BY <1>1, FS_EmptySet
<1> QED
  BY <1>1, <1>2, <1>3 DEF Occurs

(* What occurs once has one position.                                      *)
LEMMA OccursOnce ==
  ASSUME NEW T, NEW q \in Seq(T), NEW n \in Nat,
         NEW i \in n + 1 .. Len(q), NEW j \in n + 1 .. Len(q), q[i] = q[j],
         Occurs(q[i], q, n) <= 1
  PROVE  i = j
<1> SUFFICES ASSUME i # j
             PROVE  FALSE
  OBVIOUS
<1> DEFINE K == Spots(q[i], q, n)
<1>1. IsFiniteSet(K) /\ Cardinality(K) \in Nat /\ Cardinality(K) <= 1
  BY OccursNat DEF Occurs
<1>2. i \in K /\ j \in K
  BY DEF Spots
<1> HIDE DEF K
<1>3. Cardinality(K \ {i}) = Cardinality(K) - 1 /\ IsFiniteSet(K \ {i})
  BY <1>1, <1>2, FS_RemoveElement
<1>4. Cardinality((K \ {i}) \ {j}) = Cardinality(K \ {i}) - 1 /\ IsFiniteSet((K \ {i}) \ {j})
  <2>1. j \in K \ {i}
    BY <1>2
  <2> QED
    BY <1>3, <2>1, FS_RemoveElement
<1>5. Cardinality((K \ {i}) \ {j}) \in Nat
  BY <1>4, FS_CardinalityType
<1> QED
  BY <1>1, <1>3, <1>4, <1>5

LEMMA RangeRest ==
  ASSUME NEW T, NEW q \in Seq(T)
  PROVE  Range(q) = Rest(q, 0) /\ Range(q) \subseteq T
<1>1. DOMAIN q = 0 + 1 .. Len(q)
  OBVIOUS
<1> QED
  BY <1>1 DEF Range, Rest

LEMMA RangeEmpty == Range(<<>>) = {}
BY DEF Range

LEMMA RestNext ==
  ASSUME NEW T, NEW q \in Seq(T), NEW n \in Nat, n < Len(q)
  PROVE  /\ q[n + 1] \in T
         /\ Rest(q, n) = Rest(q, n + 1) \cup {q[n + 1]}
<1>1. Len(q) \in Nat /\ n + 1 .. Len(q) = (n + 1 + 1 .. Len(q)) \cup {n + 1}
  OBVIOUS
<1>2. q[n + 1] \in T
  OBVIOUS
<1> QED
  BY <1>1, <1>2 DEF Rest

LEMMA RestAppend ==
  ASSUME NEW T, NEW q \in Seq(T), NEW e \in T, NEW n \in Nat
  PROVE  /\ Rest(Append(q, e), n) \subseteq Rest(q, n) \cup {e}
         /\ Rest(q, n) \subseteq Rest(Append(q, e), n)
         /\ n <= Len(q) => e \in Rest(Append(q, e), n)
<1> DEFINE a == Append(q, e)
<1>1. /\ Len(q) \in Nat /\ Len(a) = Len(q) + 1
      /\ a[Len(q) + 1] = e /\ \A i \in 1 .. Len(q) : a[i] = q[i]
  OBVIOUS
<1> HIDE DEF a
<1>2. Rest(a, n) \subseteq Rest(q, n) \cup {e}
  BY <1>1 DEF Rest
<1>3. Rest(q, n) \subseteq Rest(a, n)
  BY <1>1 DEF Rest
<1>4. n <= Len(q) => e \in Rest(a, n)
  BY <1>1 DEF Rest
<1> QED
  BY <1>2, <1>3, <1>4 DEF a

LEMMA RestConcat ==
  ASSUME NEW T, NEW q \in Seq(T), NEW t \in Seq(T), NEW n \in Nat
  PROVE  /\ Rest(q \o t, n) \subseteq Rest(q, n) \cup Range(t)
         /\ Rest(q, n) \subseteq Rest(q \o t, n)
         /\ n <= Len(q) => Range(t) \subseteq Rest(q \o t, n)
<1> DEFINE c == q \o t
<1>1. /\ Len(q) \in Nat /\ Len(t) \in Nat /\ Len(c) = Len(q) + Len(t)
      /\ \A i \in 1 .. Len(q) : c[i] = q[i]
      /\ \A i \in Len(q) + 1 .. Len(q) + Len(t) : c[i] = t[i - Len(q)]
      /\ \A i \in 1 .. Len(t) : c[Len(q) + i] = t[i]
      /\ DOMAIN t = 1 .. Len(t)
  OBVIOUS
<1> HIDE DEF c
<1>2. Rest(c, n) \subseteq Rest(q, n) \cup Range(t)
  <2> SUFFICES ASSUME NEW i \in n + 1 .. Len(c)
               PROVE  c[i] \in Rest(q, n) \cup Range(t)
    BY DEF Rest
  <2>1. CASE i <= Len(q)
    BY <1>1, <2>1 DEF Rest
  <2>2. CASE ~ (i <= Len(q))
    <3>1. i - Len(q) \in 1 .. Len(t) /\ c[i] = t[i - Len(q)]
      BY <1>1, <2>2
    <3> QED
      BY <1>1, <3>1 DEF Range
  <2> QED
    BY <2>1, <2>2
<1>3. Rest(q, n) \subseteq Rest(c, n)
  BY <1>1 DEF Rest
<1>4. n <= Len(q) => Range(t) \subseteq Rest(c, n)
  BY <1>1 DEF Rest, Range
<1> QED
  BY <1>2, <1>3, <1>4 DEF c

LEMMA RangeAppend ==
  ASSUME NEW T, NEW q \in Seq(T), NEW e \in T
  PROVE  Range(Append(q, e)) = Range(q) \cup {e}
<1>1. Append(q, e) \in Seq(T) /\ Len(q) \in Nat
  OBVIOUS
<1>2. Range(q) = Rest(q, 0) /\ Range(Append(q, e)) = Rest(Append(q, e), 0)
  BY <1>1, RangeRest
<1> QED
  BY <1>1, <1>2, RestAppend

LEMMA RangeConcat ==
  ASSUME NEW T, NEW q \in Seq(T), NEW t \in Seq(T)
  PROVE  Range(q \o t) = Range(q) \cup Range(t)
<1>1. q \o t \in Seq(T) /\ Len(q) \in Nat
  OBVIOUS
<1>2. Range(q) = Rest(q, 0) /\ Range(q \o t) = Rest(q \o t, 0)
  BY <1>1, RangeRest
<1>3. 0 \in Nat /\ 0 <= Len(q)
  BY <1>1
<1> QED
  BY <1>2, <1>3, RestConcat

(* The ranks of K's elements differ.                                       *)
LEMMA RankDiffers ==
  ASSUME NEW K \in SUBSET Nat, IsFiniteSet(K), NEW i \in K, NEW j \in K,
         Rank(K, i) = Rank(K, j)
  PROVE  i = j
<1>1. ASSUME NEW a \in K, NEW b \in K, a < b, Rank(K, a) = Rank(K, b)
      PROVE  FALSE
  <2> DEFINE A == {k \in K : k <= a}
             B == {k \in K : k <= b}
  <2>1. IsFiniteSet(A) /\ IsFiniteSet(B)
    BY FS_Subset
  <2>2. A \subseteq B \ {b} /\ b \in B
    <3>1. a \in Nat /\ b \in Nat /\ a < b
      BY <1>1
    <3>2. ASSUME NEW k \in K, k <= a
          PROVE  k <= b /\ k # b
      <4>1. k \in Nat
        OBVIOUS
      <4> QED
        BY <3>1, <3>2, <4>1
    <3>3. b <= b
      BY <3>1
    <3> QED
      BY <3>2, <3>3
  <2>3. Cardinality(A) = Cardinality(B)
    BY <1>1 DEF Rank
  <2> HIDE DEF A, B
  <2>4. IsFiniteSet(B \ {b}) /\ Cardinality(B \ {b}) = Cardinality(B) - 1
    BY <2>1, <2>2, FS_RemoveElement
  <2>5. Cardinality(A) <= Cardinality(B \ {b})
    BY <2>2, <2>4, FS_Subset
  <2>6. Cardinality(A) \in Nat /\ Cardinality(B) \in Nat
    BY <2>1, FS_CardinalityType
  <2> QED
    BY <2>3, <2>4, <2>5, <2>6
<1>2. i \in Nat /\ j \in Nat
  OBVIOUS
<1> QED
  BY <1>1, <1>2

(* Keep loses nothing of S.                                                *)
LEMMA RangeKeep ==
  ASSUME NEW T, NEW q \in Seq(T), NEW S
  PROVE  Range(Keep(q, S)) = Range(q) \cap S
<1> DEFINE K == Kept(q, S)
           k == Keep(q, S)
           Place(n) == CHOOSE i \in K : Rank(K, i) = n
<1>1. /\ K \in SUBSET Nat /\ DOMAIN q = 1 .. Len(q) /\ Len(q) \in Nat
      /\ \A i : i \in K <=> i \in DOMAIN q /\ q[i] \in S
  BY DEF Kept
<1>2. IsFiniteSet(K)
  <2>1. IsFiniteSet(1 .. Len(q))
    BY <1>1, FS_Interval
  <2>2. K \subseteq 1 .. Len(q)
    BY <1>1
  <2> QED
    BY <2>1, <2>2, FS_Subset, Zenon
<1>3. Cardinality(K) \in Nat
  BY <1>2, FS_CardinalityType
<1>4. /\ DOMAIN k = 1 .. Cardinality(K)
      /\ \A n \in 1 .. Cardinality(K) : k[n] = q[Place(n)]
  BY DEF Keep
<1> HIDE DEF K, k
<1>5. ASSUME NEW n \in 1 .. Cardinality(K)
      PROVE  Place(n) \in K
  <2>1. \E i \in K : Rank(K, i) = n
    BY <1>1, <1>2, RankFound
  <2> QED
    BY <2>1, Zenon
<1>6. ASSUME NEW i \in K
      PROVE  Rank(K, i) \in 1 .. Cardinality(K) /\ Place(Rank(K, i)) = i
  <2> DEFINE B == {j \in K : j <= i}
  <2>1. IsFiniteSet(B) /\ Cardinality(B) \in Nat /\ Cardinality(B) <= Cardinality(K)
    BY <1>2, FS_Subset, FS_CardinalityType
  <2>2. i \in B
    BY <1>1
  <2>3. Cardinality(B) # 0
    BY <2>1, <2>2, FS_EmptySet
  <2>4. Rank(K, i) \in 1 .. Cardinality(K)
    BY <1>3, <2>1, <2>3 DEF Rank
  <2>5. Place(Rank(K, i)) \in K /\ Rank(K, Place(Rank(K, i))) = Rank(K, i)
    BY Zenon
  <2> HIDE DEF Place
  <2>6. Place(Rank(K, i)) = i
    BY <1>1, <1>2, <2>5, RankDiffers
  <2> QED
    BY <2>4, <2>6
<1> HIDE DEF Place
<1>7. Range(k) \subseteq Range(q) \cap S
  BY <1>1, <1>4, <1>5 DEF Range
<1>8. Range(q) \cap S \subseteq Range(k)
  <2> SUFFICES ASSUME NEW i \in DOMAIN q, q[i] \in S
               PROVE  q[i] \in Range(k)
    BY DEF Range
  <2>1. i \in K
    BY <1>1
  <2>2. Rank(K, i) \in 1 .. Cardinality(K) /\ k[Rank(K, i)] = q[i]
    BY <1>4, <1>6, <2>1
  <2> QED
    BY <1>4, <2>2 DEF Range
<1> QED
  BY <1>7, <1>8 DEF k

(* The first element leaves, and does not occur again.                     *)
LEMMA RangeTail ==
  ASSUME NEW T, NEW q \in Seq(T), q # <<>>
  PROVE  /\ Range(q) = Range(Tail(q)) \cup {Head(q)}
         /\ Occurs(Head(q), q, 0) <= 1 => Range(Tail(q)) = Range(q) \ {Head(q)}
<1> DEFINE t == Tail(q)
<1>1. /\ Len(q) \in Nat /\ Len(q) > 0 /\ t \in Seq(T) /\ Len(t) = Len(q) - 1
      /\ \A i \in 1 .. Len(q) - 1 : t[i] = q[i + 1]
      /\ Head(q) = q[1] /\ Head(q) \in T
      /\ DOMAIN q = 1 .. Len(q) /\ DOMAIN t = 1 .. Len(t)
  OBVIOUS
<1> HIDE DEF t
<1>2. Range(q) \subseteq Range(t) \cup {Head(q)}
  <2> SUFFICES ASSUME NEW i \in 1 .. Len(q)
               PROVE  q[i] \in Range(t) \cup {q[1]}
    BY <1>1 DEF Range
  <2>1. CASE i = 1
    BY <2>1
  <2>2. CASE i # 1
    <3>1. i - 1 \in 1 .. Len(q) - 1 /\ i - 1 + 1 = i
      BY <1>1, <2>2
    <3>2. t[i - 1] = q[i] /\ i - 1 \in DOMAIN t
      BY <1>1, <3>1
    <3> QED
      BY <3>2 DEF Range
  <2> QED
    BY <2>1, <2>2
<1>3. Range(t) \subseteq Range(q) /\ Head(q) \in Range(q)
  <2>1. ASSUME NEW i \in 1 .. Len(t) PROVE t[i] \in Range(q)
    <3>1. i \in 1 .. Len(q) - 1 /\ i + 1 \in 1 .. Len(q)
      BY <1>1
    <3>2. t[i] = q[i + 1] /\ i + 1 \in DOMAIN q
      BY <1>1, <3>1
    <3> QED
      BY <3>2 DEF Range
  <2>2. 1 \in DOMAIN q /\ q[1] = Head(q)
    BY <1>1
  <2> QED
    BY <1>1, <2>1, <2>2, Zenon DEF Range
<1>4. ASSUME Occurs(Head(q), q, 0) <= 1
      PROVE  Head(q) \notin Range(t)
  <2> SUFFICES ASSUME NEW i \in 1 .. Len(q) - 1, t[i] = Head(q)
               PROVE  FALSE
    BY <1>1 DEF Range
  <2>1. i + 1 \in 0 + 1 .. Len(q) /\ 1 \in 0 + 1 .. Len(q) /\ q[i + 1] = q[1] /\ i + 1 # 1
    BY <1>1
  <2> QED
    BY <1>1, <1>4, <2>1, OccursOnce
<1> QED
  BY <1>2, <1>3, <1>4 DEF t
-----------------------------------------------------------------------------
(* Where the requests are, as sets: the sites that Places counts.          *)
QWait == Rest(waiting, Passed)
QClaim == Range(claim)
In(w) == Rest(batch[w], PutBack(w))
QPre == UNION {In(w) : w \in Workers}
QDone == Range(done)
QPend == Range(pending)
QRun == Range(dwRun)
QCw == Range(cwWait)

(* No request is at two of them, in two threads, or twice in a batch.      *)
Apart ==
  /\ QWait \cap (QClaim \cup QPre \cup QDone \cup QPend \cup QRun \cup QCw \cup cwRun) = {}
  /\ QClaim \cap (QPre \cup QDone \cup QPend \cup QRun \cup QCw \cup cwRun) = {}
  /\ QPre \cap (QDone \cup QPend \cup QRun \cup QCw \cup cwRun) = {}
  /\ QDone \cap (QPend \cup QRun \cup QCw \cup cwRun) = {}
  /\ QPend \cap (QRun \cup QCw \cup cwRun) = {}
  /\ QRun \cap (QCw \cup cwRun) = {}
  /\ QCw \cap cwRun = {}
  /\ \A w, v \in Workers : w # v => In(w) \cap In(v) = {}

Once ==
  /\ \A w \in Workers : \A i, j \in PutBack(w) + 1 .. Len(batch[w]) :
       batch[w][i] = batch[w][j] => i = j
  /\ \A i, j \in 1 .. Len(dwRun) : dwRun[i] = dwRun[j] => i = j
  /\ cwWait # <<>> => Occurs(Head(cwWait), cwWait, 0) <= 1
  /\ dwRun # <<>> => Occurs(Head(dwRun), dwRun, 0) <= 1

Sites ==
  /\ QWait \subseteq Requests /\ QClaim \subseteq Requests /\ QPre \subseteq Requests
  /\ QDone \subseteq Requests /\ QPend \subseteq Requests /\ QRun \subseteq Requests
  /\ QCw \subseteq Requests /\ cwRun \subseteq Requests

(* A site counts its requests.                                             *)
Counts(r) ==
  /\ r \in QWait <=> Waiting(r) # 0
  /\ r \in QClaim <=> Claimed(r) # 0
  /\ \A w \in Workers : r \in In(w) <=> InPrefill(r)[w] # 0
  /\ r \in QDone <=> Done(r) # 0
  /\ r \in QPend <=> Pending(r) # 0
  /\ r \in QRun <=> Decoding(r) # 0
  /\ r \in QCw <=> CwWaiting(r) # 0
  /\ r \in cwRun <=> CwRunning(r) # 0

LEMMA SitesTyped == TypeOK => Sites
<1> SUFFICES ASSUME TypeOK
             PROVE  Sites
  OBVIOUS
<1>1. Passed \in Nat /\ \A w \in Workers : PutBack(w) \in Nat /\ batch[w] \in Seq(Requests)
  <2>1. Passed \in Nat
    BY DEF TypeOK, Passed
  <2>2. ASSUME NEW w \in Workers, NEW r \in Requests
        PROVE  PutBack(w) \in Nat
    BY Counted DEF AllNumbers, Numbers
  <2>3. ASSUME NEW w \in Workers
        PROVE  PutBack(w) \in Nat
    <3>1. wpos \in [Workers -> Nat \ {0}]
      BY DEF TypeOK
    <3>2. wpos[w] \in Nat /\ wpos[w] - 1 \in Nat
      BY <3>1
    <3>3. PutBack(w) \in {0, wpos[w], wpos[w] - 1}
      BY Zenon DEF PutBack
    <3> QED
      BY <3>2, <3>3
  <2> QED
    BY <2>1, <2>3 DEF TypeOK
<1>2. ASSUME NEW q \in Seq(Requests), NEW n \in Nat
      PROVE  Rest(q, n) \subseteq Requests
  BY DEF Rest
<1>3. QWait \subseteq Requests
  BY <1>1, <1>2 DEF QWait, TypeOK
<1>4. QPre \subseteq Requests
  BY <1>1, <1>2 DEF QPre, In
<1>5. /\ QClaim \subseteq Requests /\ QDone \subseteq Requests /\ QPend \subseteq Requests
      /\ QRun \subseteq Requests /\ QCw \subseteq Requests
  BY RangeRest DEF TypeOK, QClaim, QDone, QPend, QRun, QCw
<1> QED
  BY <1>3, <1>4, <1>5 DEF Sites, TypeOK

LEMMA SitesCount ==
  ASSUME TypeOK, NEW r \in Requests
  PROVE  Counts(r)
<1>1. Numbers(r)
  BY Counted DEF AllNumbers
<1>2. ASSUME NEW q \in Seq(Requests)
      PROVE  r \in Range(q) <=> Occurs(r, q, 0) # 0
  BY RangeRest, RestOccurs
<1>3. r \in QWait <=> Waiting(r) # 0
  BY <1>1, RestOccurs DEF Numbers, TypeOK, QWait, Waiting
<1>4. \A w \in Workers : r \in In(w) <=> InPrefill(r)[w] # 0
  <2> TAKE w \in Workers
  <2>1. batch[w] \in Seq(Requests) /\ PutBack(w) \in Nat
    BY <1>1 DEF Numbers, TypeOK
  <2>2. r \in Rest(batch[w], PutBack(w)) <=> Occurs(r, batch[w], PutBack(w)) # 0
    BY <2>1, RestOccurs
  <2> QED
    BY <2>2 DEF In, InPrefill
<1>5. /\ claim \in Seq(Requests) /\ done \in Seq(Requests) /\ pending \in Seq(Requests)
      /\ dwRun \in Seq(Requests) /\ cwWait \in Seq(Requests)
  BY DEF TypeOK
<1>6. /\ r \in QClaim <=> Claimed(r) # 0
      /\ r \in QDone <=> Done(r) # 0
      /\ r \in QPend <=> Pending(r) # 0
      /\ r \in QRun <=> Decoding(r) # 0
      /\ r \in QCw <=> CwWaiting(r) # 0
  BY <1>2, <1>5 DEF QClaim, Claimed, QDone, Done, QPend, Pending, QRun, Decoding, QCw, CwWaiting
<1>7. r \in cwRun <=> CwRunning(r) # 0
  BY DEF CwRunning
<1> QED
  BY <1>3, <1>4, <1>6, <1>7 DEF Counts

(* Two of f's numbers are no more than their sum.                          *)
LEMMA SumTwo ==
  ASSUME NEW S, IsFiniteSet(S), NEW f, \A x \in S : f[x] \in Nat,
         NEW x \in S, NEW y \in S, x # y
  PROVE  Sum(f, S) \in Nat /\ f[x] + f[y] <= Sum(f, S)
<1>1. {x} \in SUBSET S /\ y \in S \ {x} /\ IsFiniteSet(S \ {x})
  BY FS_Difference
<1>2. /\ Sum(f, S) = Sum(f, {x}) + Sum(f, S \ {x})
      /\ Sum(f, {x}) \in Nat /\ Sum(f, S \ {x}) \in Nat
  BY <1>1, SumSplit
<1>3. f[x] \in Nat /\ f[y] \in Nat
  OBVIOUS
<1>4. Sum(f, {x}) = f[x]
  BY <1>3, SumOne
<1>5. f[y] <= Sum(f, S \ {x})
  <2>1. /\ \A z \in S \ {x} : f[z] \in Nat
        /\ \A z \in (S \ {x}) \ {y} : f[z] = f[z]
    OBVIOUS
  <2> QED
    BY <1>1, <1>3, <2>1, SumUpdate
<1> QED
  BY <1>2, <1>3, <1>4, <1>5

LEMMA InPrefillBound ==
  ASSUME TypeOK, NEW r \in Requests
  PROVE  /\ r \in QPre => Prefilling(r) # 0
         /\ \A w \in Workers : InPrefill(r)[w] \in Nat /\ InPrefill(r)[w] <= Prefilling(r)
         /\ \A w, v \in Workers : w # v =>
              InPrefill(r)[w] + InPrefill(r)[v] <= Prefilling(r)
<1>1. Numbers(r) /\ Counts(r)
  BY Counted, SitesCount DEF AllNumbers
<1> DEFINE f == InPrefill(r)
<1>2. \A w \in Workers : f[w] \in Nat
  BY <1>1 DEF Numbers
<1>3. \A w \in Workers : r \in In(w) <=> f[w] # 0
  BY <1>1 DEF Counts
<1> HIDE DEF f
<1>4. ASSUME NEW w \in Workers
      PROVE  f[w] <= Sum(f, Workers)
  <2>1. f[w] \in Nat /\ \A v \in Workers \ {w} : f[v] = f[v]
    BY <1>2
  <2> QED
    BY <1>2, <2>1, WorkersAssumption, SumUpdate
<1>5. ASSUME NEW w \in Workers, NEW v \in Workers, w # v
      PROVE  f[w] + f[v] <= Sum(f, Workers)
  BY <1>2, <1>5, WorkersAssumption, SumTwo
<1>6. Sum(f, Workers) \in Nat
  BY <1>2, WorkersAssumption, SumNat
<1>7. r \in QPre => Sum(f, Workers) # 0
  <2> SUFFICES ASSUME NEW w \in Workers, r \in In(w)
               PROVE  Sum(f, Workers) # 0
    BY DEF QPre
  <2> QED
    BY <1>2, <1>3, <1>4, <1>6
<1> QED
  BY <1>2, <1>4, <1>5, <1>7 DEF f, Prefilling
LEMMA ApartNow ==
  ASSUME TypeOK, ServedOnce
  PROVE  Apart
<1> DEFINE Alone(r) ==
             /\ r \in QWait => r \notin QClaim \cup QPre \cup QDone \cup QPend \cup QRun \cup QCw \cup cwRun
             /\ r \in QClaim => r \notin QPre \cup QDone \cup QPend \cup QRun \cup QCw \cup cwRun
             /\ r \in QPre => r \notin QDone \cup QPend \cup QRun \cup QCw \cup cwRun
             /\ r \in QDone => r \notin QPend \cup QRun \cup QCw \cup cwRun
             /\ r \in QPend => r \notin QRun \cup QCw \cup cwRun
             /\ r \in QRun => r \notin QCw \cup cwRun
             /\ r \in QCw => r \notin cwRun
             /\ \A w, v \in Workers : w # v => ~ (r \in In(w) /\ r \in In(v))
<1>1. ASSUME NEW r \in Requests
      PROVE  Alone(r)
  <2>1. Total(r) /\ Counts(r) /\ Places(r) <= 1
    BY Totals, SitesCount DEF AllTotals, ServedOnce
  <2>2. Prefilling(r) <= 1
    BY <2>1 DEF Total
  <2>3. ASSUME NEW w \in Workers, NEW v \in Workers, w # v
        PROVE  ~ (r \in In(w) /\ r \in In(v))
    <3>1. /\ InPrefill(r)[w] \in Nat /\ InPrefill(r)[v] \in Nat
          /\ InPrefill(r)[w] + InPrefill(r)[v] <= Prefilling(r)
      BY <2>3, InPrefillBound
    <3>2. (r \in In(w) <=> InPrefill(r)[w] # 0) /\ (r \in In(v) <=> InPrefill(r)[v] # 0)
      BY <2>1 DEF Counts
    <3>3. Prefilling(r) \in Nat
      BY <2>1 DEF Total
    <3> QED
      BY <2>2, <3>1, <3>2, <3>3
  <2>4. /\ r \in QWait <=> Waiting(r) # 0
        /\ r \in QClaim <=> Claimed(r) # 0
        /\ r \in QPre => Prefilling(r) # 0
        /\ r \in QDone <=> Done(r) # 0
        /\ r \in QPend <=> Pending(r) # 0
        /\ r \in QRun <=> Decoding(r) # 0
        /\ r \in QCw <=> CwWaiting(r) # 0
        /\ r \in cwRun <=> CwRunning(r) # 0
    BY <2>1, InPrefillBound DEF Counts
  <2>5. /\ Waiting(r) + Claimed(r) + Prefilling(r) + Done(r) + Pending(r)
                 + Decoding(r) + CwWaiting(r) + CwRunning(r) <= 1
        /\ Waiting(r) \in Nat /\ Claimed(r) \in Nat /\ Prefilling(r) \in Nat
        /\ Done(r) \in Nat /\ Pending(r) \in Nat /\ Decoding(r) \in Nat
        /\ CwWaiting(r) \in Nat /\ CwRunning(r) \in Nat
    BY <2>1 DEF Total
  <2> DEFINE a == Waiting(r)
             b == Claimed(r)
             c == Prefilling(r)
             d == Done(r)
             e == Pending(r)
             f == Decoding(r)
             g == CwWaiting(r)
             h == CwRunning(r)
  <2>6. /\ a \in Nat /\ b \in Nat /\ c \in Nat /\ d \in Nat /\ e \in Nat /\ f \in Nat
        /\ g \in Nat /\ h \in Nat /\ a + b + c + d + e + f + g + h <= 1
    BY <2>5
  <2> HIDE DEF a, b, c, d, e, f, g, h
  <2>7. /\ a # 0 => b = 0 /\ c = 0 /\ d = 0 /\ e = 0 /\ f = 0 /\ g = 0 /\ h = 0
        /\ b # 0 => c = 0 /\ d = 0 /\ e = 0 /\ f = 0 /\ g = 0 /\ h = 0
        /\ c # 0 => d = 0 /\ e = 0 /\ f = 0 /\ g = 0 /\ h = 0
        /\ d # 0 => e = 0 /\ f = 0 /\ g = 0 /\ h = 0
        /\ e # 0 => f = 0 /\ g = 0 /\ h = 0
        /\ f # 0 => g = 0 /\ h = 0
        /\ g # 0 => h = 0
    BY <2>6
  <2> QED
    BY <2>3, <2>4, <2>7 DEF a, b, c, d, e, f, g, h
<1>2. Sites
  BY SitesTyped
<1>3. \A w \in Workers : In(w) \subseteq Requests
  BY <1>2 DEF Sites, QPre
<1> QED
  BY <1>1, <1>2, <1>3 DEF Apart, Sites

LEMMA OnceNow ==
  ASSUME TypeOK, ServedOnce
  PROVE  Once
<1>1. ASSUME NEW r \in Requests
      PROVE  /\ \A w \in Workers : InPrefill(r)[w] <= 1
             /\ Decoding(r) <= 1 /\ CwWaiting(r) <= 1
  <2>1. Total(r) /\ Places(r) <= 1
    BY Totals DEF AllTotals, ServedOnce
  <2>2. Prefilling(r) <= 1 /\ Decoding(r) <= 1 /\ CwWaiting(r) <= 1 /\ Prefilling(r) \in Nat
    BY <2>1 DEF Total
  <2>3. \A w \in Workers : InPrefill(r)[w] \in Nat /\ InPrefill(r)[w] <= Prefilling(r)
    BY InPrefillBound
  <2> QED
    BY <2>2, <2>3
<1>2. ASSUME NEW w \in Workers, NEW i \in PutBack(w) + 1 .. Len(batch[w]),
             NEW j \in PutBack(w) + 1 .. Len(batch[w]), batch[w][i] = batch[w][j]
      PROVE  i = j
  <2>1. PutBack(w) \in Nat /\ batch[w] \in Seq(Requests)
    <3>1. wpos \in [Workers -> Nat \ {0}]
      BY DEF TypeOK
    <3>2. wpos[w] \in Nat /\ wpos[w] - 1 \in Nat
      BY <3>1
    <3>3. PutBack(w) \in {0, wpos[w], wpos[w] - 1}
      BY Zenon DEF PutBack
    <3> QED
      BY <3>2, <3>3 DEF TypeOK
  <2>2. batch[w][i] \in Requests
    BY <2>1
  <2>3. Occurs(batch[w][i], batch[w], PutBack(w)) <= 1
    BY <1>1, <2>2 DEF InPrefill
  <2> QED
    BY <1>2, <2>1, <2>3, OccursOnce
<1>3. ASSUME NEW i \in 1 .. Len(dwRun), NEW j \in 1 .. Len(dwRun), dwRun[i] = dwRun[j]
      PROVE  i = j
  <2>1. dwRun \in Seq(Requests) /\ dwRun[i] \in Requests
    BY DEF TypeOK
  <2>2. Occurs(dwRun[i], dwRun, 0) <= 1
    BY <1>1, <2>1 DEF Decoding
  <2>3. i \in 0 + 1 .. Len(dwRun) /\ j \in 0 + 1 .. Len(dwRun)
    OBVIOUS
  <2> QED
    BY <1>3, <2>1, <2>2, <2>3, OccursOnce
<1>4. cwWait # <<>> => Occurs(Head(cwWait), cwWait, 0) <= 1
  BY <1>1 DEF TypeOK, CwWaiting
<1>5. dwRun # <<>> => Occurs(Head(dwRun), dwRun, 0) <= 1
  BY <1>1 DEF TypeOK, Decoding
<1> QED
  BY <1>2, <1>3, <1>4, <1>5 DEF Once
-----------------------------------------------------------------------------
(* What each step makes of the sites.                                      *)
Become(wait, claimed, prefilling, finished, copying, decoding, cwWaiting, cwRunning) ==
  /\ QWait' = wait /\ QClaim' = claimed /\ QPre' = prefilling /\ QDone' = finished
  /\ QPend' = copying /\ QRun' = decoding /\ QCw' = cwWaiting /\ cwRun' = cwRunning

LEMMA SameSites ==
  /\ UNCHANGED <<waiting, Passed>> => QWait' = QWait
  /\ UNCHANGED claim => QClaim' = QClaim
  /\ UNCHANGED <<batch, wpc, wpos>> => QPre' = QPre /\ \A w \in Workers : In(w)' = In(w)
  /\ UNCHANGED done => QDone' = QDone
  /\ UNCHANGED pending => QPend' = QPend
  /\ UNCHANGED dwRun => QRun' = QRun
  /\ UNCHANGED cwWait => QCw' = QCw
BY DEF QWait, QClaim, QPre, In, PutBack, QDone, QPend, QRun, QCw

Quiet ==
  \/ CheckWaiting \/ CheckStates \/ CheckRest \/ RouteEnd \/ Join
  \/ (\E r \in Requests : EnforceCollocated(r) \/ CopyDone(r))
  \/ EnforceEnd \/ EnforceCrash \/ DecodeAppend
  \/ (\E w \in Workers : PrefillPop(w))

LEMMA QuietSites ==
  ASSUME Quiet
  PROVE  /\ Become(QWait, QClaim, QPre, QDone, QPend, QRun, QCw, cwRun)
         /\ \A w \in Workers : In(w)' = In(w)
         /\ UNCHANGED <<waiting, Passed, claim, batch, wpc, wpos, done, pending, dwRun, cwWait,
                        cwRun>>
<1> USE DEF mainVars, Passed, prefillVars, decodeVars, collVars
<1>1. UNCHANGED <<waiting, Passed, claim, batch, wpc, wpos, done, pending, dwRun, cwWait,
                  cwRun>>
  <2>1. CASE CheckWaiting
    BY <2>1 DEF CheckWaiting
  <2>2. CASE CheckStates
    BY <2>2 DEF CheckStates
  <2>3. CASE CheckRest
    BY <2>3 DEF CheckRest
  <2>4. CASE RouteEnd
    BY <2>4 DEF RouteEnd
  <2>5. CASE Join
    BY <2>5 DEF Join
  <2>6. CASE \E r \in Requests : EnforceCollocated(r)
    BY <2>6 DEF EnforceCollocated
  <2>7. CASE \E r \in Requests : CopyDone(r)
    BY <2>7 DEF CopyDone
  <2>8. CASE EnforceEnd
    BY <2>8 DEF EnforceEnd
  <2>9. CASE EnforceCrash
    BY <2>9 DEF EnforceCrash
  <2>10. CASE DecodeAppend
    BY <2>10 DEF DecodeAppend
  <2>11. CASE \E w \in Workers : PrefillPop(w)
    BY <2>11 DEF PrefillPop
  <2> QED
    BY <2>1, <2>2, <2>3, <2>4, <2>5, <2>6, <2>7, <2>8, <2>9, <2>10, <2>11 DEF Quiet
<1> QED
  BY <1>1, SameSites DEF Become

LEMMA AddSites ==
  ASSUME TypeOK, NEW q \in Requests, AddRequest(q)
  PROVE  Become(QWait \cup {q}, QClaim, QPre, QDone, QPend, QRun, QCw, cwRun)
<1>1. waiting \in Seq(Requests) /\ Passed = 0 /\ Passed' = 0 /\ waiting' = Append(waiting, q)
  BY DEF TypeOK, AddRequest, Passed
<1>2. QWait' = QWait \cup {q}
  <2>1. Len(waiting) \in Nat /\ 0 <= Len(waiting) /\ 0 \in Nat
    BY <1>1
  <2>2. Rest(Append(waiting, q), 0) = Rest(waiting, 0) \cup {q}
    BY <1>1, <2>1, RestAppend
  <2> QED
    BY <1>1, <2>2 DEF QWait
<1> QED
  BY <1>2, SameSites DEF Become, AddRequest, prefillVars, decodeVars, collVars

LEMMA DispatchSites ==
  ASSUME Dispatch
  PROVE  Become(QWait, {}, QPre, QDone, QPend, QRun, QCw, cwRun)
<1>1. QWait' = QWait
  BY DEF Dispatch, Passed, QWait
<1>2. QClaim' = {}
  BY RangeEmpty DEF Dispatch, QClaim
<1> QED
  BY <1>1, <1>2, SameSites DEF Become, Dispatch, prefillVars, decodeVars, collVars

LEMMA RouteSites ==
  ASSUME TypeOK, RouteOne
  PROVE  /\ waiting[pos] \in QWait
         /\ QWait = QWait' \cup {waiting[pos]}
         /\ \/ /\ path' = [path EXCEPT ![waiting[pos]] = "disaggregated"]
               /\ Become(QWait', QClaim \cup {waiting[pos]}, QPre, QDone, QPend, QRun, QCw,
                         cwRun)
            \/ /\ path' = [path EXCEPT ![waiting[pos]] = "collocated"]
               /\ Become(QWait', QClaim, QPre, QDone, QPend, QRun, QCw \cup {waiting[pos]},
                         cwRun)
<1> DEFINE r == waiting[pos]
<1>1. /\ waiting \in Seq(Requests) /\ claim \in Seq(Requests) /\ cwWait \in Seq(Requests)
      /\ pos \in Nat \ {0} /\ pos <= Len(waiting) /\ Len(waiting) \in Nat
  BY DEF TypeOK, RouteOne
<1>2. r \in Requests
  BY <1>1
<1>3. Passed = pos - 1 /\ Passed' = pos /\ waiting' = waiting
  BY <1>1 DEF RouteOne, Passed
<1>4. QWait = QWait' \cup {r}
  <2>1. pos - 1 \in Nat /\ pos - 1 < Len(waiting) /\ pos - 1 + 1 = pos
    BY <1>1
  <2>2. Rest(waiting, pos - 1) = Rest(waiting, pos - 1 + 1) \cup {waiting[pos - 1 + 1]}
    BY <1>1, <2>1, RestNext
  <2> QED
    BY <1>3, <2>1, <2>2 DEF QWait
<1>5. PICK p \in AllowedPaths(r) :
        /\ path' = [path EXCEPT ![r] = p]
        /\ IF p = "collocated" THEN cwWait' = Append(cwWait, r) /\ claim' = claim
                               ELSE claim' = Append(claim, r) /\ cwWait' = cwWait
  BY DEF RouteOne
<1>6. p = "collocated" \/ p = "disaggregated"
  BY <1>2, <1>5, RoutesAssumption DEF AllowedPaths, Paths
<1>7. QPre' = QPre /\ QDone' = QDone /\ QPend' = QPend /\ QRun' = QRun /\ cwRun' = cwRun
  BY SameSites DEF RouteOne, prefillVars, decodeVars
<1> HIDE DEF r
<1>8. CASE p = "collocated"
  <2>1. cwWait' = Append(cwWait, r) /\ claim' = claim
    BY <1>5, <1>8
  <2>2. QCw' = QCw \cup {r} /\ QClaim' = QClaim
    BY <1>1, <1>2, <2>1, RangeAppend, SameSites DEF QCw
  <2> QED
    BY <1>4, <1>5, <1>7, <1>8, <2>2 DEF Become, r
<1>9. CASE p = "disaggregated"
  <2>1. cwWait' = cwWait /\ claim' = Append(claim, r)
    BY <1>5, <1>9
  <2>2. QCw' = QCw /\ QClaim' = QClaim \cup {r}
    BY <1>1, <1>2, <2>1, RangeAppend, SameSites DEF QClaim
  <2> QED
    BY <1>4, <1>5, <1>7, <1>9, <2>2 DEF Become, r
<1> QED
  BY <1>6, <1>8, <1>9

LEMMA ClearSites ==
  ASSUME Clear
  PROVE  Become({}, QClaim, QPre, QDone, QPend, QRun, QCw, cwRun)
<1>1. waiting' = <<>> /\ Passed' = 0
  BY DEF Clear, Passed
<1>2. QWait' = {}
  BY <1>1 DEF QWait, Rest
<1> QED
  BY <1>2, SameSites DEF Become, Clear, prefillVars, decodeVars, collVars

LEMMA RequeueSites ==
  ASSUME TypeOK, Requeue
  PROVE  Become(QWait \cup QClaim, {}, QPre, QDone, QPend, QRun, QCw, cwRun)
<1>1. /\ waiting \in Seq(Requests) /\ claim \in Seq(Requests) /\ Passed = 0 /\ Passed' = 0
      /\ waiting' = waiting \o claim /\ claim' = <<>>
  BY DEF TypeOK, Requeue, Passed
<1>2. QWait' = QWait \cup QClaim
  <2>1. Len(waiting) \in Nat /\ 0 <= Len(waiting) /\ 0 \in Nat
    BY <1>1
  <2>2. Rest(waiting \o claim, 0) = Rest(waiting, 0) \cup Range(claim)
    BY <1>1, <2>1, RestConcat
  <2> QED
    BY <1>1, <2>2 DEF QWait, QClaim
<1>3. QClaim' = {}
  BY <1>1, RangeEmpty DEF QClaim
<1> QED
  BY <1>2, <1>3, SameSites DEF Become, Requeue, prefillVars, decodeVars, collVars

LEMMA FlushSites ==
  ASSUME TypeOK, Flush
  PROVE  Become(QWait, QClaim, QPre, {}, QPend \cup (QDone \cap known), QRun, QCw, cwRun)
<1>1. /\ pending \in Seq(Requests) /\ done \in Seq(Requests)
      /\ Keep(done, known) \in Seq(Requests)
      /\ pending' = pending \o Keep(done, known) /\ done' = <<>>
  BY KeepSeq DEF TypeOK, Flush
<1>2. QPend' = QPend \cup (QDone \cap known)
  BY <1>1, RangeConcat, RangeKeep DEF QPend, QDone
<1>3. QDone' = {}
  BY <1>1, RangeEmpty DEF QDone
<1>4. QWait' = QWait
  BY DEF Flush, Passed, QWait
<1> QED
  BY <1>2, <1>3, <1>4, SameSites DEF Become, Flush

LEMMA EnforceSites ==
  ASSUME TypeOK, NEW q \in Requests, EnforceDisaggregated(q)
  PROVE  /\ Become(QWait, QClaim, QPre, QDone, QPend, IF Leaves(q) THEN QRun \ {q} ELSE QRun,
                   QCw, cwRun)
         /\ dpc' = dpc /\ dpos' = dpos
<1>1. dwRun' = IF Leaves(q) THEN Keep(dwRun, Requests \ {q}) ELSE dwRun
  BY DEF EnforceDisaggregated
<1>2. dwRun \in Seq(Requests) /\ QRun \subseteq Requests
  BY RangeRest DEF TypeOK, QRun
<1>3. Range(Keep(dwRun, Requests \ {q})) = QRun \ {q}
  BY <1>2, RangeKeep DEF QRun
<1>4. QRun' = IF Leaves(q) THEN QRun \ {q} ELSE QRun
  BY <1>1, <1>3 DEF QRun
<1> QED
  BY <1>4, SameSites DEF Become, EnforceDisaggregated, Passed, prefillVars, collVars

LEMMA DecodeStartSites ==
  ASSUME TypeOK, DecodeStart
  PROVE  Become(QWait, QClaim, QPre, QDone, QPend \ copied, QRun \cup (QPend \cap copied), QCw,
                cwRun)
<1>1. /\ pending \in Seq(Requests) /\ dwRun \in Seq(Requests)
      /\ Ready \in Seq(Requests) /\ NotReady \in Seq(Requests)
      /\ dwRun' = dwRun \o Ready /\ pending' = NotReady
  BY KeepSeq DEF TypeOK, Ready, NotReady, DecodeStart
<1>2. QPend \subseteq Requests
  BY <1>1, RangeRest DEF QPend
<1>3. Range(Ready) = QPend \cap copied /\ Range(NotReady) = QPend \ copied
  BY <1>1, <1>2, RangeKeep DEF QPend, Ready, NotReady
<1>4. QRun' = QRun \cup (QPend \cap copied) /\ QPend' = QPend \ copied
  BY <1>1, <1>3, RangeConcat DEF QRun, QPend
<1> QED
  BY <1>4, SameSites DEF Become, DecodeStart, mainVars, Passed, prefillVars, collVars

LEMMA DecodeEvictSites ==
  ASSUME TypeOK, Once, DecodeEvict
  PROVE  /\ Become(QWait, QClaim, QPre, QDone, QPend, QRun \ {Head(dwRun)}, QCw, cwRun)
         /\ Head(dwRun) \in QRun
<1>1. dwRun' = Tail(dwRun) /\ dwRun \in Seq(Requests) /\ dwRun # <<>>
  BY DEF DecodeEvict, TypeOK
<1>2. Range(Tail(dwRun)) = QRun \ {Head(dwRun)} /\ Head(dwRun) \in QRun
  BY <1>1, RangeTail DEF Once, QRun
<1>3. QRun' = QRun \ {Head(dwRun)}
  BY <1>1, <1>2 DEF QRun
<1> QED
  BY <1>2, <1>3, SameSites DEF Become, DecodeEvict, mainVars, Passed, prefillVars, collVars
(* What DecodeForward does for those that sampled EOS, eos, and for those  *)
(* that it promotes, up.                                                   *)
Forwarded(eos, up) ==
  /\ eos \in SUBSET QRun /\ up \in SUBSET (QPend \cap copied)
  /\ Become(QWait, QClaim, QPre, QDone, QPend \ up, (QRun \ eos) \cup up, QCw, cwRun)
  /\ seqOut' = [r \in Requests |-> IF r \in QRun THEN seqOut[r] + 1 ELSE seqOut[r]]
  /\ out' = [r \in Requests |-> IF r \in QRun \cap known THEN out[r] + 1 ELSE out[r]]
  /\ fin' = FinAfter(eos) /\ free' = FreeAfter(eos) /\ held' = HeldAfter(eos)

LEMMA DecodeForwardSites ==
  ASSUME TypeOK, DecodeForward
  PROVE  \E eos, up \in SUBSET Requests : Forwarded(eos, up)
<1>1. PICK eos \in SUBSET Range(dwRun) :
        /\ seqOut' = [r \in Requests |->
              IF r \in Range(dwRun) THEN seqOut[r] + 1 ELSE seqOut[r]]
        /\ out' = [r \in Requests |->
              IF r \in Range(dwRun) \cap known THEN out[r] + 1 ELSE out[r]]
        /\ fin' = FinAfter(eos) /\ free' = FreeAfter(eos) /\ held' = HeldAfter(eos)
        /\ \/ UNCHANGED pending /\ dwRun' = Keep(dwRun, Requests \ eos)
           \/ pending' = NotReady /\ dwRun' = Keep(dwRun, Requests \ eos) \o Ready
  BY DEF DecodeForward
<1> DEFINE stay == Keep(dwRun, Requests \ eos)
<1>2. /\ pending \in Seq(Requests) /\ dwRun \in Seq(Requests)
      /\ Ready \in Seq(Requests) /\ NotReady \in Seq(Requests) /\ stay \in Seq(Requests)
  BY KeepSeq DEF TypeOK, Ready, NotReady
<1>3. QPend \subseteq Requests /\ QRun \subseteq Requests
  BY <1>2, RangeRest DEF QPend, QRun
<1>4. Range(Ready) = QPend \cap copied /\ Range(NotReady) = QPend \ copied
  BY <1>2, <1>3, RangeKeep DEF QPend, Ready, NotReady
<1>5. Range(stay) = QRun \ eos
  BY <1>2, <1>3, RangeKeep DEF QRun
<1> HIDE DEF stay
<1>6. PICK up \in SUBSET (QPend \cap copied) :
        QPend' = QPend \ up /\ QRun' = (QRun \ eos) \cup up
  <2>1. CASE UNCHANGED pending /\ dwRun' = stay
    <3>1. QPend' = QPend \ {} /\ QRun' = (QRun \ eos) \cup {}
      BY <1>5, <2>1 DEF QPend, QRun
    <3> QED
      BY <3>1
  <2>2. CASE pending' = NotReady /\ dwRun' = stay \o Ready
    <3>1. QPend' = QPend \ (QPend \cap copied)
      BY <1>4, <2>2 DEF QPend
    <3>2. QRun' = (QRun \ eos) \cup (QPend \cap copied)
      BY <1>2, <1>4, <1>5, <2>2, RangeConcat DEF QRun
    <3> QED
      BY <3>1, <3>2
  <2> QED
    BY <1>1, <2>1, <2>2 DEF stay
<1>7. /\ QWait' = QWait /\ QClaim' = QClaim /\ QPre' = QPre /\ QDone' = QDone /\ QCw' = QCw
      /\ cwRun' = cwRun
  BY SameSites DEF DecodeForward, mainVars, Passed, prefillVars, collVars
<1>8. Forwarded(eos, up)
  BY <1>1, <1>6, <1>7 DEF Forwarded, Become, QRun
<1>9. eos \in SUBSET Requests /\ up \in SUBSET Requests
  BY <1>1, <1>3, <1>6 DEF QRun
<1> QED
  BY <1>8, <1>9

(* What CollocatedStep does: first comes to the batch, eos stop there.     *)
Stepped(first, eos) ==
  LET live == cwRun \ cwStop
      gone == cwFin \cup (cwRun \cap cwStop)
      new == gone \cap {r \in known : ~ fin[r]}
  IN /\ first \in SUBSET QCw /\ eos \in SUBSET live
     /\ Become(QWait, QClaim, QPre, QDone, QPend, QRun, QCw \ first, live \cup first)
     /\ cwOut' = [r \in Requests |->
           IF r \in first THEN 1 ELSE IF r \in live THEN cwOut[r] + 1 ELSE cwOut[r]]
     /\ cwStop' = eos
     /\ cwFin' = gone
     /\ out' = [r \in Requests |-> IF r \in new THEN cwOut[r] ELSE out[r]]
     /\ fin' = [r \in Requests |-> fin[r] \/ r \in new]

LEMMA CollocatedSites ==
  ASSUME TypeOK, Once, CollocatedStep
  PROVE  \E first, eos \in SUBSET Requests : Stepped(first, eos)
<1> DEFINE live == cwRun \ cwStop
<1>1. PICK first \in IF cwWait # <<>> /\ Cardinality(live) < MaxBatch
                     THEN {{Head(cwWait)}} ELSE {{}}, eos \in SUBSET live :
          /\ cwWait' = IF first = {} THEN cwWait ELSE Tail(cwWait)
          /\ cwRun' = live \cup first
          /\ cwOut' = [r \in Requests |->
               IF r \in first THEN 1 ELSE IF r \in live THEN cwOut[r] + 1 ELSE cwOut[r]]
          /\ cwStop' = eos
  BY DEF CollocatedStep
<1>2. cwWait \in Seq(Requests) /\ cwRun \subseteq Requests
  BY DEF TypeOK
<1>3. QCw' = QCw \ first /\ first \in SUBSET QCw
  <2>1. CASE first = {}
    BY <1>1, <2>1 DEF QCw
  <2>2. CASE first # {}
    <3>1. cwWait # <<>> /\ first = {Head(cwWait)} /\ cwWait' = Tail(cwWait)
      BY <1>1, <2>2
    <3>2. Range(Tail(cwWait)) = QCw \ {Head(cwWait)} /\ Head(cwWait) \in QCw
      BY <1>2, <3>1, RangeTail DEF Once, QCw
    <3> QED
      BY <3>1, <3>2 DEF QCw
  <2> QED
    BY <2>1, <2>2
<1>4. /\ QWait' = QWait /\ QClaim' = QClaim /\ QPre' = QPre /\ QDone' = QDone
      /\ QPend' = QPend /\ QRun' = QRun
  BY SameSites DEF CollocatedStep, mainVars, Passed, prefillVars, decodeVars
<1>5. Become(QWait, QClaim, QPre, QDone, QPend, QRun, QCw \ first, live \cup first)
  BY <1>1, <1>3, <1>4 DEF Become
<1>6. eos \in SUBSET live
  BY <1>1
<1>7. Stepped(first, eos)
  BY <1>1, <1>3, <1>5, <1>6 DEF Stepped, CollocatedStep
<1>8. QCw \subseteq Requests
  BY <1>2, RangeRest DEF QCw
<1> QED
  BY <1>2, <1>3, <1>6, <1>7, <1>8

(* A step of prefill thread w: the other threads keep what they have.      *)
LEMMA OtherThreads ==
  ASSUME TypeOK, NEW w \in Workers, Fire(w) \/ Prefill(w)
  PROVE  \A v \in Workers \ {w} : /\ batch'[v] = batch[v] /\ wpc'[v] = wpc[v]
                                  /\ wpos'[v] = wpos[v] /\ got'[v] = got[v]
                                  /\ In(v)' = In(v) /\ Group(v)' = Group(v)
<1>1. \A v \in Workers \ {w} : /\ batch'[v] = batch[v] /\ wpc'[v] = wpc[v]
                               /\ wpos'[v] = wpos[v] /\ got'[v] = got[v]
  <2>1. CASE Fire(w)
    BY <2>1 DEF Fire, TypeOK
  <2>2. CASE PrefillCheck(w)
    BY <2>2 DEF PrefillCheck, TypeOK
  <2>3. CASE PrefillPop(w)
    BY <2>3 DEF PrefillPop, TypeOK
  <2>4. CASE PrefillOOM(w)
    BY <2>4 DEF PrefillOOM, TypeOK
  <2>5. CASE PrefillTable(w)
    BY <2>5 DEF PrefillTable, TypeOK
  <2>6. CASE PrefillForward(w)
    BY <2>6 DEF PrefillForward, TypeOK
  <2>7. CASE PrefillRequeue(w)
    BY <2>7 DEF PrefillRequeue, TypeOK
  <2>8. CASE PrefillForget(w)
    BY <2>8 DEF PrefillForget, TypeOK
  <2> QED
    BY <2>1, <2>2, <2>3, <2>4, <2>5, <2>6, <2>7, <2>8 DEF Prefill
<1> QED
  BY <1>1 DEF In, PutBack, Group

LEMMA OneIn ==
  ASSUME NEW w \in Workers, NEW X, In(w)' = X, \A v \in Workers \ {w} : In(v)' = In(v)
  PROVE  /\ QPre' \subseteq QPre \cup X
         /\ QPre = QPre' \cup In(w) \/ X # {}
         /\ \A v \in Workers : In(v)' \subseteq QPre'
         /\ In(w) \subseteq X => QPre' = QPre \cup X
BY DEF QPre

LEMMA FireSites ==
  ASSUME TypeOK, NEW w \in Workers, Fire(w)
  PROVE  /\ Become(QWait, {}, QPre', QDone, QPend, QRun, QCw, cwRun)
         /\ In(w)' = QClaim /\ QPre' \subseteq QPre \cup QClaim
         /\ wpc[w] = "idle" /\ wpc'[w] = "check" /\ wpos'[w] = 1 /\ batch'[w] = claim
<1>1. /\ batch'[w] = claim /\ wpc'[w] = "check" /\ wpos'[w] = 1 /\ wpc[w] = "idle"
      /\ claim \in Seq(Requests) /\ claim' = <<>>
  BY DEF Fire, TypeOK, Alive
<1>2. PutBack(w)' = 0
  BY <1>1 DEF PutBack
<1>3. In(w)' = QClaim
  BY <1>1, <1>2, RangeRest DEF In, QClaim
<1>4. QClaim' = {}
  BY <1>1, RangeEmpty DEF QClaim
<1>5. QWait' = QWait
  BY DEF Fire, Passed, QWait
<1>6. \A v \in Workers \ {w} : In(v)' = In(v)
  BY OtherThreads
<1>7. QPre' \subseteq QPre \cup QClaim
  BY <1>3, <1>6, OneIn
<1> QED
  BY <1>1, <1>3, <1>4, <1>5, <1>7, SameSites DEF Become, Fire, decodeVars, collVars

(* The steps of a prefill thread that leave its batch alone.               *)
LEMMA BatchSites ==
  ASSUME TypeOK, NEW w \in Workers, PrefillCheck(w) \/ PrefillPop(w) \/ PrefillTable(w)
  PROVE  /\ Become(QWait, QClaim, QPre, QDone, QPend, QRun, QCw, cwRun)
         /\ \A v \in Workers : In(v)' = In(v) /\ batch'[v] = batch[v]
         /\ PutBack(w) = 0 /\ PutBack(w)' = 0
<1>1. batch'[w] = batch[w] /\ PutBack(w) = 0 /\ PutBack(w)' = 0
  <2>1. CASE PrefillCheck(w)
    <3>1. batch'[w] = batch[w] /\ PutBack(w) = 0
      BY <2>1 DEF PrefillCheck, PutBack
    <3>2. \/ wpc'[w] = "pop"
          \/ wpc'[w] = "requeue" /\ wpos'[w] = 1
      BY <2>1 DEF PrefillCheck, TypeOK
    <3> QED
      BY <3>1, <3>2 DEF PutBack
  <2>2. CASE PrefillPop(w)
    BY <2>2 DEF PrefillPop, PutBack
  <2>3. CASE PrefillTable(w)
    BY <2>3 DEF PrefillTable, PutBack, TypeOK
  <2> QED
    BY <2>1, <2>2, <2>3
<1>2. \A v \in Workers \ {w} : In(v)' = In(v) /\ batch'[v] = batch[v]
  BY OtherThreads DEF Prefill
<1>3. In(w)' = In(w)
  BY <1>1 DEF In
<1>4. QPre' = QPre
  BY <1>2, <1>3 DEF QPre
<1> QED
  BY <1>1, <1>2, <1>3, <1>4, SameSites
     DEF Become, PrefillCheck, PrefillPop, PrefillTable, mainVars, Passed, decodeVars, collVars

LEMMA OOMSites ==
  ASSUME TypeOK, NEW w \in Workers, PrefillOOM(w)
  PROVE  /\ Become(QWait, QClaim, QPre', QDone, QPend, QRun, QCw, cwRun)
         /\ In(w)' = {} /\ QPre' \subseteq QPre /\ wpc'[w] = "idle" /\ batch'[w] = <<>>
<1>1. batch'[w] = <<>> /\ wpc'[w] = "idle"
  BY DEF PrefillOOM, TypeOK
<1>2. In(w)' = {}
  BY <1>1 DEF In, Rest, PutBack
<1>3. \A v \in Workers \ {w} : In(v)' = In(v)
  BY OtherThreads DEF Prefill
<1>4. QPre' \subseteq QPre
  BY <1>2, <1>3, OneIn
<1> QED
  BY <1>1, <1>2, <1>4, SameSites
     DEF Become, PrefillOOM, mainVars, Passed, decodeVars, collVars

LEMMA ForwardSites ==
  ASSUME TypeOK, NEW w \in Workers, PrefillForward(w)
  PROVE  /\ Become(QWait, QClaim, QPre', QDone \cup In(w), QPend, QRun, QCw, cwRun)
         /\ In(w) = Range(batch[w]) /\ In(w)' = {} /\ QPre = QPre' \cup In(w)
         /\ wpc'[w] = "idle" /\ batch'[w] = <<>>
<1>1. /\ batch'[w] = <<>> /\ wpc'[w] = "idle" /\ PutBack(w) = 0
      /\ done' = done \o batch[w] /\ batch[w] \in Seq(Requests) /\ done \in Seq(Requests)
  BY DEF PrefillForward, TypeOK, PutBack
<1>2. In(w)' = {}
  BY <1>1 DEF In, Rest, PutBack
<1>3. In(w) = Range(batch[w])
  BY <1>1, RangeRest DEF In
<1>4. QDone' = QDone \cup In(w)
  BY <1>1, <1>3, RangeConcat DEF QDone
<1>5. \A v \in Workers \ {w} : In(v)' = In(v)
  BY OtherThreads DEF Prefill
<1>6. QPre = QPre' \cup In(w)
  BY <1>2, <1>5, OneIn
<1> QED
  BY <1>1, <1>2, <1>3, <1>4, <1>6, SameSites
     DEF Become, PrefillForward, mainVars, Passed, collVars

LEMMA PutBackSites ==
  ASSUME TypeOK, Grouped, NEW w \in Workers, PrefillRequeue(w) \/ PrefillForget(w)
  PROVE  /\ Become(QWait', QClaim, QPre', QDone, QPend, QRun, QCw, cwRun)
         /\ QPre' \subseteq QPre /\ QWait \subseteq QWait' /\ QWait' \subseteq QWait \cup QPre
         /\ Group(w) \in Requests
         /\ In(w)' \subseteq In(w)
<1>1. /\ batch[w] \in Seq(Requests) /\ Len(batch[w]) \in Nat
      /\ wpos[w] \in Nat /\ 1 <= wpos[w] /\ wpos[w] <= Len(batch[w])
      /\ Group(w) \in Requests
  BY GroupIn DEF PrefillRequeue, PrefillForget
<1>2. Passed \in Nat /\ waiting \in Seq(Requests)
  BY DEF TypeOK, Passed
<1>3. \A v \in Workers \ {w} : In(v)' = In(v)
  BY OtherThreads DEF Prefill
<1>4. /\ In(w)' \subseteq In(w) /\ QWait \subseteq QWait'
      /\ QWait' \subseteq QWait \cup In(w)
  <2>1. CASE PrefillRequeue(w)
    <3>1. /\ batch'[w] = batch[w] /\ PutBack(w) = wpos[w] - 1 /\ PutBack(w)' = wpos[w]
          /\ waiting' = Append(waiting, Group(w)) /\ Passed' = Passed
      BY <2>1 DEF PrefillRequeue, PutBack, Passed, TypeOK, mainVars
    <3>2. wpos[w] - 1 \in Nat /\ wpos[w] - 1 < Len(batch[w]) /\ wpos[w] - 1 + 1 = wpos[w]
      BY <1>1
    <3>3. Rest(batch[w], wpos[w] - 1)
            = Rest(batch[w], wpos[w] - 1 + 1) \cup {batch[w][wpos[w] - 1 + 1]}
      BY <1>1, <3>2, RestNext
    <3>4. In(w) = In(w)' \cup {Group(w)}
      BY <3>1, <3>2, <3>3 DEF In, Group
    <3>5. /\ Rest(Append(waiting, Group(w)), Passed) \subseteq Rest(waiting, Passed) \cup {Group(w)}
          /\ Rest(waiting, Passed) \subseteq Rest(Append(waiting, Group(w)), Passed)
      BY <1>1, <1>2, RestAppend
    <3> QED
      BY <3>1, <3>4, <3>5 DEF QWait
  <2>2. CASE PrefillForget(w)
    <3>1. QWait' = QWait
      BY <2>2, SameSites DEF PrefillForget, mainVars, Passed
    <3>2. PutBack(w) = wpos[w]
      BY <2>2 DEF PrefillForget, PutBack
    <3>3. CASE wpos[w] = Len(batch[w])
      <4>1. batch'[w] = <<>> /\ wpc'[w] = "idle"
        BY <2>2, <3>3 DEF PrefillForget, TypeOK
      <4>2. In(w)' = {}
        BY <4>1 DEF In, Rest, PutBack
      <4> QED
        BY <3>1, <4>2
    <3>4. CASE wpos[w] # Len(batch[w])
      <4>1. batch'[w] = batch[w] /\ wpc'[w] = "requeue" /\ wpos'[w] = wpos[w] + 1
        BY <2>2, <3>4 DEF PrefillForget, TypeOK
      <4>2. PutBack(w)' = wpos'[w] - 1
        BY <4>1, Zenon DEF PutBack
      <4>3. PutBack(w)' = PutBack(w)
        BY <1>1, <3>2, <4>1, <4>2
      <4> QED
        BY <3>1, <4>1, <4>3 DEF In
    <3> QED
      BY <3>3, <3>4
  <2> QED
    BY <2>1, <2>2
<1>5. QPre' \subseteq QPre /\ In(w) \subseteq QPre
  BY <1>3, <1>4 DEF QPre
<1> QED
  BY <1>1, <1>4, <1>5, SameSites
     DEF Become, PrefillRequeue, PrefillForget, mainVars, decodeVars, collVars, Passed
-----------------------------------------------------------------------------
(* What the router has noted of a request, and what the request holds, by  *)
(* the site it is at.  A request that a prefill thread is just putting     *)
(* back may be routed again and then forgotten: hence "\cap known".        *)
Fresh(r) == path[r] = "disaggregated" /\ ~ fin[r] /\ out[r] = 0
Prefilled(r) == seqOut[r] = 1 /\ held[r] = PromptBlocks(r)

Outs ==
  /\ \A r \in (QClaim \cup QPre) \cap known : Fresh(r)
  /\ \A r \in QDone : Prefilled(r) /\ (r \in known => Fresh(r))
  /\ \A r \in QPend : /\ Prefilled(r)
                      /\ r \in known => path[r] = "disaggregated" /\ out[r] = 1
  /\ \A r \in QRun : /\ seqOut[r] >= 1 /\ Computed(r) <= held[r] * BlockSize
                     /\ r \in known => path[r] = "disaggregated" /\ out[r] = seqOut[r]

(* The groups of prefill thread w whose tables are complete.               *)
Tabled(w) ==
  CASE wpc[w] = "forward" -> Len(batch[w])
    [] wpc[w] \in {"check", "pop"} -> wpos[w] - 1
    [] OTHER -> 0
TableOf(w) == {batch[w][i] : i \in 1 .. Tabled(w)}
Tables == \A w \in Workers : \A r \in TableOf(w) : held[r] = PromptBlocks(r)

(* The groups that append_slot has passed have a block for the next token. *)
Slots ==
  dpc = "append" =>
    \A i \in 1 .. Len(dwRun) : i < dpos => Computed(dwRun[i]) + 1 <= held[dwRun[i]] * BlockSize

(* The threads of a step run only inside it.                               *)
Threads == dpc # "off" \/ cpc # "off" => pc = "step"

(* A finished group of the collocated engine is nowhere else.              *)
Departed == \A r \in cwFin : r \in arrived /\ Places(r) = 0

LEMMA NotHere ==
  ASSUME TypeOK, NEW r \in Requests
  PROVE  Places(r) = 0 <=> /\ r \notin QWait /\ r \notin QClaim /\ r \notin QPre
                           /\ r \notin QDone /\ r \notin QPend /\ r \notin QRun
                           /\ r \notin QCw /\ r \notin cwRun
<1>1. Total(r) /\ Counts(r)
  BY Totals, SitesCount DEF AllTotals
<1>2. r \in QPre <=> Prefilling(r) # 0
  <2>1. r \in QPre => Prefilling(r) # 0
    BY InPrefillBound
  <2>2. ASSUME r \notin QPre
        PROVE  Prefilling(r) = 0
    <3>1. \A w \in Workers : InPrefill(r)[w] = 0
      BY <1>1, <2>2 DEF Counts, QPre
    <3> QED
      BY <3>1, SumNone, Zenon DEF Prefilling
  <2> QED
    BY <2>1, <2>2
<1> DEFINE a == Waiting(r)
           b == Claimed(r)
           c == Prefilling(r)
           d == Done(r)
           e == Pending(r)
           f == Decoding(r)
           g == CwWaiting(r)
           h == CwRunning(r)
<1>3. /\ a \in Nat /\ b \in Nat /\ c \in Nat /\ d \in Nat /\ e \in Nat /\ f \in Nat
      /\ g \in Nat /\ h \in Nat /\ Places(r) = a + b + c + d + e + f + g + h
  BY <1>1 DEF Total
<1> HIDE DEF a, b, c, d, e, f, g, h
<1>4. Places(r) = 0 <=> a = 0 /\ b = 0 /\ c = 0 /\ d = 0 /\ e = 0 /\ f = 0 /\ g = 0 /\ h = 0
  BY <1>3
<1>5. /\ r \in QWait <=> a # 0
      /\ r \in QClaim <=> b # 0
      /\ r \in QPre <=> c # 0
      /\ r \in QDone <=> d # 0
      /\ r \in QPend <=> e # 0
      /\ r \in QRun <=> f # 0
      /\ r \in QCw <=> g # 0
      /\ r \in cwRun <=> h # 0
  BY <1>1, <1>2 DEF Counts, a, b, c, d, e, f, g, h
<1> QED
  BY <1>4, <1>5

LEMMA TableIn ==
  ASSUME TypeOK, Grouped, NEW w \in Workers
  PROVE  /\ TableOf(w) \subseteq In(w)
         /\ wpc[w] \in {"check", "pop"} => Group(w) \in In(w)
         /\ wpc[w] \in {"idle", "requeue", "forget"} => TableOf(w) = {}
<1>1. batch[w] \in Seq(Requests) /\ Len(batch[w]) \in Nat
  BY DEF TypeOK
<1>2. CASE wpc[w] \in {"check", "pop"}
  <2>1. wpos[w] \in Nat /\ 1 <= wpos[w] /\ wpos[w] <= Len(batch[w])
    BY <1>2, GroupIn
  <2>2. PutBack(w) = 0 /\ Tabled(w) = wpos[w] - 1
    <3>1. PutBack(w) = 0
      BY <1>2 DEF PutBack
    <3>2. Tabled(w) = wpos[w] - 1
      <4>1. wpc[w] # "forward"
        BY <1>2
      <4> QED
        BY <1>2, <4>1, Zenon DEF Tabled
    <3> QED
      BY <3>1, <3>2
  <2> QED
    BY <1>1, <1>2, <2>1, <2>2 DEF TableOf, In, Rest, Group
<1>3. CASE wpc[w] = "forward"
  <2>1. PutBack(w) = 0
    BY <1>3 DEF PutBack
  <2>2. Tabled(w) = Len(batch[w])
    BY <1>3, Zenon DEF Tabled
  <2> QED
    BY <1>1, <1>3, <2>1, <2>2 DEF TableOf, In, Rest
<1>4. CASE wpc[w] \in {"idle", "requeue", "forget"}
  <2>1. wpc[w] # "forward" /\ wpc[w] \notin {"check", "pop"}
    BY <1>4
  <2>2. Tabled(w) = 0
    BY <2>1, Zenon DEF Tabled
  <2> QED
    BY <1>4, <2>2 DEF TableOf
<1> QED
  BY <1>2, <1>3, <1>4 DEF TypeOK

(* Arithmetic of blocks.                                                   *)
LEMMA PromptFits ==
  ASSUME NEW r \in Requests
  PROVE  PromptBlocks(r) \in Nat /\ PromptLen[r] <= PromptBlocks(r) * BlockSize
<1>1. PromptLen[r] \in Nat /\ BlockSize \in Nat \ {0}
  BY PromptLenAssumption, SizesAssumption
<1> QED
  BY <1>1 DEF PromptBlocks

LEMMA BlockEnough ==
  ASSUME NEW n \in Nat, NEW h \in Nat
  PROVE  /\ h >= n \div BlockSize + 1 => n + 1 <= h * BlockSize
         /\ n <= h * BlockSize => n + 1 <= (h + 1) * BlockSize
         /\ h * BlockSize <= (h + 1) * BlockSize
<1>1. BlockSize \in Nat \ {0}
  BY SizesAssumption
<1>2. n < (n \div BlockSize + 1) * BlockSize /\ n \div BlockSize \in Nat
  BY <1>1
<1>3. ASSUME h >= n \div BlockSize + 1
      PROVE  (n \div BlockSize + 1) * BlockSize <= h * BlockSize
  BY <1>1, <1>2, <1>3
<1>4. (h + 1) * BlockSize = h * BlockSize + BlockSize
  BY <1>1
<1>5. h * BlockSize \in Nat
  BY <1>1
<1> QED
  BY <1>1, <1>2, <1>3, <1>4, <1>5

LEMMA ComputedNat ==
  ASSUME TypeOK, NEW r \in Requests
  PROVE  Computed(r) \in Nat /\ (seqOut[r] = 1 => Computed(r) = PromptLen[r])
<1>1. PromptLen[r] \in Nat /\ PromptLen[r] >= 1 /\ seqOut[r] \in Nat
  BY PromptLenAssumption DEF TypeOK
<1> QED
  BY <1>1 DEF Computed
-----------------------------------------------------------------------------
(* Each step keeps Outs.                                                   *)
Untouched(r) ==
  /\ path'[r] = path[r] /\ out'[r] = out[r] /\ fin'[r] = fin[r]
  /\ seqOut'[r] = seqOut[r] /\ held'[r] = held[r]

LEMMA OutsKept ==
  ASSUME Outs,
         QClaim' \subseteq QClaim, QPre' \subseteq QPre \cup QClaim,
         QDone' \subseteq QDone, QPend' \subseteq QPend, QRun' \subseteq QRun,
         \A r \in QClaim' \cup QPre' \cup QDone' \cup QPend' \cup QRun' :
           Untouched(r) /\ (r \in known' => r \in known)
  PROVE  Outs'
<1>1. \A r \in (QClaim' \cup QPre') \cap known' : Fresh(r)'
  BY DEF Outs, Untouched, Fresh
<1>2. \A r \in QDone' : Prefilled(r)' /\ (r \in known' => Fresh(r)')
  BY DEF Outs, Untouched, Fresh, Prefilled
<1>3. \A r \in QPend' : /\ Prefilled(r)'
                        /\ r \in known' => path'[r] = "disaggregated" /\ out'[r] = 1
  BY DEF Outs, Untouched, Prefilled
<1>4. \A r \in QRun' :
        /\ seqOut'[r] >= 1 /\ Computed(r)' <= held'[r] * BlockSize
        /\ r \in known' => path'[r] = "disaggregated" /\ out'[r] = seqOut'[r]
  BY DEF Outs, Untouched, Computed
<1> QED
  BY <1>1, <1>2, <1>3, <1>4 DEF Outs

LEMMA OutsStill ==
  ASSUME Outs, TypeOK, Grouped, known' \subseteq known,
         UNCHANGED <<path, out, fin, seqOut, held>>,
         \/ \E q \in Requests : AddRequest(q)
         \/ Dispatch \/ Clear \/ Requeue \/ Quiet
         \/ (\E w \in Workers : \/ Fire(w) \/ PrefillCheck(w) \/ PrefillPop(w) \/ PrefillOOM(w)
                                \/ PrefillRequeue(w) \/ PrefillForget(w))
  PROVE  Outs'
<1>1. \A r : Untouched(r) /\ (r \in known' => r \in known)
  BY DEF Untouched
<1> DEFINE Shrink == /\ QClaim' \subseteq QClaim /\ QPre' \subseteq QPre \cup QClaim
                     /\ QDone' \subseteq QDone /\ QPend' \subseteq QPend /\ QRun' \subseteq QRun
<1>2. Shrink
  <2>1. ASSUME NEW q \in Requests, AddRequest(q)
        PROVE  Shrink
    BY <2>1, AddSites DEF Become
  <2>2. CASE Dispatch \/ Clear \/ Requeue \/ Quiet
    BY <2>2, DispatchSites, ClearSites, RequeueSites, QuietSites DEF Become
  <2>3. ASSUME NEW w \in Workers, Fire(w) \/ PrefillOOM(w)
        PROVE  Shrink
    BY <2>3, FireSites, OOMSites DEF Become
  <2>4. ASSUME NEW w \in Workers, PrefillCheck(w) \/ PrefillPop(w)
        PROVE  Shrink
    BY <2>4, BatchSites DEF Become
  <2>5. ASSUME NEW w \in Workers, PrefillRequeue(w) \/ PrefillForget(w)
        PROVE  Shrink
    BY <2>5, PutBackSites DEF Become
  <2> QED
    BY <2>1, <2>2, <2>3, <2>4, <2>5
<1> QED
  BY <1>1, <1>2, OutsKept

LEMMA OutsRoute ==
  ASSUME Outs, TypeOK, Apart, RouteOne
  PROVE  Outs'
<1> DEFINE e == waiting[pos]
<1>1. /\ e \in QWait /\ known' = known \cup {e}
      /\ out' = [out EXCEPT ![e] = 0] /\ fin' = [fin EXCEPT ![e] = FALSE]
      /\ seqOut' = seqOut /\ held' = held
  BY RouteSites DEF RouteOne, poolVars, decodeVars
<1>2. \/ /\ path' = [path EXCEPT ![e] = "disaggregated"]
         /\ Become(QWait', QClaim \cup {e}, QPre, QDone, QPend, QRun, QCw, cwRun)
      \/ /\ path' = [path EXCEPT ![e] = "collocated"]
         /\ Become(QWait', QClaim, QPre, QDone, QPend, QRun, QCw \cup {e}, cwRun)
  BY RouteSites
<1>3. e \in Requests
  BY <1>1, SitesTyped DEF Sites
<1> HIDE DEF e
<1>4. /\ path \in [Requests -> Paths] /\ out \in [Requests -> Nat] /\ fin \in [Requests -> BOOLEAN]
  BY DEF TypeOK
<1>5. ASSUME NEW r \in QClaim \cup QPre \cup QDone \cup QPend \cup QRun
      PROVE  Untouched(r) /\ (r \in known' => r \in known)
  <2>1. r # e /\ r \in Requests
    BY <1>1, SitesTyped DEF Apart, Sites
  <2> QED
    BY <1>1, <1>2, <1>4, <2>1 DEF Untouched
<1>6. /\ QPre' = QPre /\ QDone' = QDone /\ QPend' = QPend /\ QRun' = QRun
      /\ QClaim' = QClaim \/ (QClaim' = QClaim \cup {e} /\ path'[e] = "disaggregated")
  BY <1>2, <1>3, <1>4 DEF Become
<1>7. out'[e] = 0 /\ ~ fin'[e]
  BY <1>1, <1>3, <1>4
<1>8. \A r \in (QClaim' \cup QPre') \cap known' : Fresh(r)'
  <2> SUFFICES ASSUME NEW r \in (QClaim' \cup QPre') \cap known'
               PROVE  Fresh(r)'
    OBVIOUS
  <2>1. CASE r \in QClaim \cup QPre
    BY <1>5, <2>1 DEF Outs, Untouched, Fresh
  <2>2. CASE r = e /\ path'[e] = "disaggregated"
    BY <1>7, <2>2 DEF Fresh
  <2> QED
    BY <1>6, <2>1, <2>2
<1>9. \A r \in QDone' : Prefilled(r)' /\ (r \in known' => Fresh(r)')
  BY <1>5, <1>6 DEF Outs, Untouched, Fresh, Prefilled
<1>10. \A r \in QPend' : /\ Prefilled(r)'
                         /\ r \in known' => path'[r] = "disaggregated" /\ out'[r] = 1
  BY <1>5, <1>6 DEF Outs, Untouched, Prefilled
<1>11. \A r \in QRun' :
        /\ seqOut'[r] >= 1 /\ Computed(r)' <= held'[r] * BlockSize
        /\ r \in known' => path'[r] = "disaggregated" /\ out'[r] = seqOut'[r]
  BY <1>5, <1>6 DEF Outs, Untouched, Computed
<1> QED
  BY <1>8, <1>9, <1>10, <1>11 DEF Outs

LEMMA OutsFlush ==
  ASSUME Outs, TypeOK, Apart, Flush
  PROVE  Outs'
<1>1. Become(QWait, QClaim, QPre, {}, QPend \cup (QDone \cap known), QRun, QCw, cwRun)
  BY FlushSites
<1>2. Range(Keep(done, known)) = QDone \cap known
  BY RangeKeep DEF TypeOK, QDone
<1>3. /\ out' = [r \in Requests |-> IF r \in QDone \cap known THEN out[r] + 1 ELSE out[r]]
      /\ UNCHANGED <<known, path, fin, seqOut, held>>
  BY <1>2 DEF Flush, poolVars
<1>4. ASSUME NEW r \in QClaim \cup QPre \cup QPend \cup QRun
      PROVE  Untouched(r)
  <2>1. r \notin QDone /\ r \in Requests
    BY SitesTyped DEF Apart, Sites
  <2> QED
    BY <1>3, <2>1 DEF Untouched
<1>5. ASSUME NEW r \in QDone \cap known
      PROVE  Prefilled(r)' /\ path'[r] = "disaggregated" /\ out'[r] = 1
  <2>1. r \in Requests /\ Prefilled(r) /\ Fresh(r)
    BY SitesTyped DEF Outs, Sites
  <2> QED
    BY <1>3, <2>1 DEF Prefilled, Fresh
<1>6. \A r \in (QClaim' \cup QPre') \cap known' : Fresh(r)'
  BY <1>1, <1>3, <1>4 DEF Become, Outs, Untouched, Fresh
<1>7. QDone' = {}
  BY <1>1 DEF Become
<1>8. \A r \in QPend' : /\ Prefilled(r)'
                        /\ r \in known' => path'[r] = "disaggregated" /\ out'[r] = 1
  <2> SUFFICES ASSUME NEW r \in QPend'
               PROVE  /\ Prefilled(r)'
                      /\ r \in known' => path'[r] = "disaggregated" /\ out'[r] = 1
    OBVIOUS
  <2>1. CASE r \in QPend
    BY <1>3, <1>4, <2>1 DEF Outs, Untouched, Prefilled
  <2>2. CASE r \in QDone \cap known
    BY <1>5, <2>2
  <2> QED
    BY <1>1, <2>1, <2>2 DEF Become
<1>9. \A r \in QRun' :
        /\ seqOut'[r] >= 1 /\ Computed(r)' <= held'[r] * BlockSize
        /\ r \in known' => path'[r] = "disaggregated" /\ out'[r] = seqOut'[r]
  BY <1>1, <1>3, <1>4 DEF Become, Outs, Untouched, Computed
<1> QED
  BY <1>6, <1>7, <1>8, <1>9 DEF Outs
LEMMA OutsCollocated ==
  ASSUME Outs, TypeOK, Apart, Once, Departed,
         CollocatedStep \/ \E q \in Requests : EnforceCollocated(q)
  PROVE  Outs'
<1> DEFINE Five == QClaim \cup QPre \cup QDone \cup QPend \cup QRun
<1>0. Sites
  BY SitesTyped
<1>1. CASE CollocatedStep
  <2>1. PICK first, eos \in SUBSET Requests : Stepped(first, eos)
    BY <1>1, CollocatedSites
  <2> DEFINE new == (cwFin \cup (cwRun \cap cwStop)) \cap {r \in known : ~ fin[r]}
  <2>2. /\ Become(QWait, QClaim, QPre, QDone, QPend, QRun, QCw \ first, (cwRun \ cwStop) \cup first)
        /\ out' = [r \in Requests |-> IF r \in new THEN cwOut[r] ELSE out[r]]
        /\ fin' = [r \in Requests |-> fin[r] \/ r \in new]
    BY <2>1 DEF Stepped
  <2>3. UNCHANGED <<known, path, held, seqOut>>
    BY <1>1 DEF CollocatedStep, poolVars, decodeVars
  <2>4. ASSUME NEW r \in Five
        PROVE  Untouched(r)
    <3>1. r \in Requests
      BY <1>0 DEF Sites
    <3>2. r \notin cwRun
      BY DEF Apart
    <3>3. r \notin cwFin
      <4>1. Places(r) # 0
        BY <3>1, NotHere
      <4> QED
        BY <4>1 DEF Departed
    <3>4. r \notin new
      BY <3>2, <3>3
    <3>5. fin[r] \in BOOLEAN
      BY <3>1 DEF TypeOK
    <3> QED
      BY <2>2, <2>3, <3>1, <3>4, <3>5 DEF Untouched
  <2> QED
    BY <2>2, <2>3, <2>4, OutsKept DEF Become
<1>2. ASSUME NEW q \in Requests, EnforceCollocated(q)
      PROVE  Outs'
  <2>1. Become(QWait, QClaim, QPre, QDone, QPend, QRun, QCw, cwRun)
    BY <1>2, QuietSites DEF Quiet
  <2>2. UNCHANGED <<known, path, held, seqOut>>
    BY <1>2 DEF EnforceCollocated, poolVars, decodeVars
  <2>3. \/ UNCHANGED <<out, fin>>
        \/ /\ q \in cwRun /\ out' = [out EXCEPT ![q] = cwOut[q]]
           /\ fin' = [fin EXCEPT ![q] = TRUE]
    BY <1>2 DEF EnforceCollocated
  <2>4. ASSUME NEW r \in Five
        PROVE  Untouched(r)
    <3>1. r \in Requests /\ r \notin cwRun
      BY <1>0 DEF Sites, Apart
    <3> QED
      BY <2>2, <2>3, <3>1 DEF Untouched, TypeOK
  <2> QED
    BY <2>1, <2>2, <2>4, OutsKept DEF Become
<1> QED
  BY <1>1, <1>2

LEMMA OutsEnforce ==
  ASSUME Outs, TypeOK, Apart, NEW q \in Requests, EnforceDisaggregated(q)
  PROVE  Outs'
<1>0. Sites
  BY SitesTyped
<1>1. Become(QWait, QClaim, QPre, QDone, QPend, IF Leaves(q) THEN QRun \ {q} ELSE QRun, QCw,
             cwRun)
  BY EnforceSites
<1>2. /\ UNCHANGED <<known, path, out, seqOut>>
      /\ fin' = [fin EXCEPT ![q] = fin[q] \/ AtLimit(q)]
      /\ held' = HeldAfter(IF Leaves(q) THEN {q} ELSE {})
  BY DEF EnforceDisaggregated
<1>3. Leaves(q) => q \in QRun
  BY DEF Leaves, QRun
<1>4. ASSUME NEW r \in QClaim \cup QPre \cup QDone \cup QPend \cup QRun', r \in Requests
      PROVE  held'[r] = held[r]
  <2>1. r # q \/ ~ Leaves(q)
    BY <1>1, <1>3 DEF Apart, Become
  <2> QED
    BY <1>2, <1>4, <2>1 DEF HeldAfter
<1>5. ASSUME NEW r \in Requests, Fresh(r)
      PROVE  Fresh(r)'
  <2>1. out[r] = 0 /\ MaxTokens \in Nat \ {0}
    BY <1>5, SizesAssumption DEF Fresh
  <2>2. ~ (out[r] >= MaxTokens)
    BY <2>1
  <2>3. ~ AtLimit(r)
    BY <2>2 DEF AtLimit
  <2>4. ~ fin'[r]
    BY <1>2, <1>5, <2>3 DEF Fresh, TypeOK
  <2> QED
    BY <1>2, <1>5, <2>4 DEF Fresh
<1>6. \A r \in (QClaim' \cup QPre') \cap known' : Fresh(r)'
  BY <1>0, <1>1, <1>2, <1>5 DEF Become, Outs, Sites
<1>7. \A r \in QDone' : Prefilled(r)' /\ (r \in known' => Fresh(r)')
  BY <1>0, <1>1, <1>2, <1>4, <1>5 DEF Become, Outs, Sites, Prefilled
<1>8. \A r \in QPend' : /\ Prefilled(r)'
                        /\ r \in known' => path'[r] = "disaggregated" /\ out'[r] = 1
  BY <1>0, <1>1, <1>2, <1>4 DEF Become, Outs, Sites, Prefilled
<1>9. \A r \in QRun' :
        /\ seqOut'[r] >= 1 /\ Computed(r)' <= held'[r] * BlockSize
        /\ r \in known' => path'[r] = "disaggregated" /\ out'[r] = seqOut'[r]
  <2> SUFFICES ASSUME NEW r \in QRun'
               PROVE  /\ seqOut'[r] >= 1 /\ Computed(r)' <= held'[r] * BlockSize
                      /\ r \in known' => path'[r] = "disaggregated" /\ out'[r] = seqOut'[r]
    OBVIOUS
  <2>1. r \in QRun /\ r \in Requests
    BY <1>0, <1>1 DEF Become, Sites
  <2>2. held'[r] = held[r]
    BY <1>4, <2>1
  <2> QED
    BY <1>2, <2>1, <2>2 DEF Outs, Computed
<1> QED
  BY <1>6, <1>7, <1>8, <1>9 DEF Outs

LEMMA OutsTable ==
  ASSUME Outs, TypeOK, Grouped, Apart, NEW w \in Workers, PrefillTable(w)
  PROVE  Outs'
<1>1. Become(QWait, QClaim, QPre, QDone, QPend, QRun, QCw, cwRun)
  BY BatchSites
<1>2. Group(w) \in QPre
  BY TableIn DEF QPre, PrefillTable
<1>3. /\ UNCHANGED <<known, path, out, fin, seqOut>>
      /\ held' = [held EXCEPT ![Group(w)] = got[w]]
  BY DEF PrefillTable, stateVars, decodeVars
<1>4. ASSUME NEW r \in QDone \cup QPend \cup QRun
      PROVE  held'[r] = held[r]
  <2>1. r # Group(w) /\ r \in Requests
    BY <1>2, SitesTyped DEF Apart, Sites
  <2> QED
    BY <1>3, <2>1 DEF TypeOK
<1>5. \A r \in (QClaim' \cup QPre') \cap known' : Fresh(r)'
  BY <1>1, <1>3 DEF Become, Outs, Fresh
<1>6. \A r \in QDone' : Prefilled(r)' /\ (r \in known' => Fresh(r)')
  BY <1>1, <1>3, <1>4 DEF Become, Outs, Fresh, Prefilled
<1>7. \A r \in QPend' : /\ Prefilled(r)'
                        /\ r \in known' => path'[r] = "disaggregated" /\ out'[r] = 1
  BY <1>1, <1>3, <1>4 DEF Become, Outs, Prefilled
<1>8. \A r \in QRun' :
        /\ seqOut'[r] >= 1 /\ Computed(r)' <= held'[r] * BlockSize
        /\ r \in known' => path'[r] = "disaggregated" /\ out'[r] = seqOut'[r]
  BY <1>1, <1>3, <1>4 DEF Become, Outs, Computed
<1> QED
  BY <1>5, <1>6, <1>7, <1>8 DEF Outs

LEMMA OutsPrefillForward ==
  ASSUME Outs, TypeOK, Grouped, Apart, Tables, NEW w \in Workers, PrefillForward(w)
  PROVE  Outs'
<1>0. Sites
  BY SitesTyped
<1>1. /\ Become(QWait, QClaim, QPre', QDone \cup In(w), QPend, QRun, QCw, cwRun)
      /\ In(w) = Range(batch[w]) /\ QPre = QPre' \cup In(w)
  BY ForwardSites
<1>2. /\ UNCHANGED <<known, path, out, fin, held>>
      /\ seqOut' = [r \in Requests |-> IF r \in In(w) THEN 1 ELSE seqOut[r]]
  BY <1>1 DEF PrefillForward, stateVars, poolVars
<1>3. TableOf(w) = In(w)
  <2>1. Tabled(w) = Len(batch[w])
    BY DEF Tabled, PrefillForward
  <2>2. DOMAIN batch[w] = 1 .. Len(batch[w])
    BY DEF TypeOK
  <2> QED
    BY <1>1, <2>1, <2>2 DEF TableOf, Range
<1>4. ASSUME NEW r \in QDone \cup QPend \cup QRun
      PROVE  seqOut'[r] = seqOut[r] /\ held'[r] = held[r]
  <2>1. r \notin In(w) /\ r \in Requests
    BY <1>0, <1>1 DEF Apart, Sites
  <2> QED
    BY <1>2, <2>1
<1>5. ASSUME NEW r \in In(w)
      PROVE  Prefilled(r)' /\ (r \in known' => Fresh(r)')
  <2>1. r \in Requests /\ held[r] = PromptBlocks(r) /\ r \in QPre
    BY <1>0, <1>1, <1>3 DEF Tables, Sites
  <2>2. r \in known => Fresh(r)
    BY <2>1 DEF Outs
  <2> QED
    BY <1>2, <2>1, <2>2 DEF Prefilled, Fresh, PromptBlocks
<1>6. \A r \in (QClaim' \cup QPre') \cap known' : Fresh(r)'
  BY <1>1, <1>2 DEF Become, Outs, Fresh
<1>7. \A r \in QDone' : Prefilled(r)' /\ (r \in known' => Fresh(r)')
  <2> SUFFICES ASSUME NEW r \in QDone'
               PROVE  Prefilled(r)' /\ (r \in known' => Fresh(r)')
    OBVIOUS
  <2>1. CASE r \in QDone
    BY <1>2, <1>4, <2>1 DEF Outs, Fresh, Prefilled
  <2>2. CASE r \in In(w)
    BY <1>5, <2>2
  <2> QED
    BY <1>1, <2>1, <2>2 DEF Become
<1>8. \A r \in QPend' : /\ Prefilled(r)'
                        /\ r \in known' => path'[r] = "disaggregated" /\ out'[r] = 1
  BY <1>1, <1>2, <1>4 DEF Become, Outs, Prefilled
<1>9. \A r \in QRun' :
        /\ seqOut'[r] >= 1 /\ Computed(r)' <= held'[r] * BlockSize
        /\ r \in known' => path'[r] = "disaggregated" /\ out'[r] = seqOut'[r]
  BY <1>1, <1>2, <1>4 DEF Become, Outs, Computed
<1> QED
  BY <1>6, <1>7, <1>8, <1>9 DEF Outs
LEMMA OutsDecodeStart ==
  ASSUME Outs, TypeOK, DecodeStart
  PROVE  Outs'
<1>0. Sites
  BY SitesTyped
<1>1. Become(QWait, QClaim, QPre, QDone, QPend \ copied, QRun \cup (QPend \cap copied), QCw,
             cwRun)
  BY DecodeStartSites
<1>2. UNCHANGED <<known, path, out, fin, seqOut, held>>
  BY DEF DecodeStart, stateVars, poolVars
<1>3. ASSUME NEW r \in QPend
      PROVE  /\ seqOut[r] >= 1 /\ Computed(r) <= held[r] * BlockSize
             /\ r \in known => path[r] = "disaggregated" /\ out[r] = seqOut[r]
  <2>1. r \in Requests /\ Prefilled(r)
    BY <1>0 DEF Outs, Sites
  <2>2. Computed(r) <= held[r] * BlockSize
    BY <2>1, ComputedNat, PromptFits DEF Prefilled
  <2> QED
    BY <2>1, <2>2 DEF Outs, Prefilled
<1>4. \A r \in (QClaim' \cup QPre') \cap known' : Fresh(r)'
  BY <1>1, <1>2 DEF Become, Outs, Fresh
<1>5. \A r \in QDone' : Prefilled(r)' /\ (r \in known' => Fresh(r)')
  BY <1>1, <1>2 DEF Become, Outs, Fresh, Prefilled
<1>6. \A r \in QPend' : /\ Prefilled(r)'
                        /\ r \in known' => path'[r] = "disaggregated" /\ out'[r] = 1
  BY <1>1, <1>2 DEF Become, Outs, Prefilled
<1>7. \A r \in QRun' :
        /\ seqOut'[r] >= 1 /\ Computed(r)' <= held'[r] * BlockSize
        /\ r \in known' => path'[r] = "disaggregated" /\ out'[r] = seqOut'[r]
  BY <1>1, <1>2, <1>3 DEF Become, Outs, Computed
<1> QED
  BY <1>4, <1>5, <1>6, <1>7 DEF Outs

LEMMA OutsAppend ==
  ASSUME Outs, TypeOK, Apart, DecodeAppend
  PROVE  Outs'
<1>0. Sites
  BY SitesTyped
<1>1. Become(QWait, QClaim, QPre, QDone, QPend, QRun, QCw, cwRun)
  BY QuietSites DEF Quiet
<1> DEFINE e == dwRun[dpos]
<1>2. /\ UNCHANGED <<known, path, out, fin, seqOut>>
      /\ held' = held \/ held' = [held EXCEPT ![e] = @ + 1]
  BY DEF DecodeAppend, stateVars, poolVars
<1>3. e \in QRun /\ e \in Requests
  <2>1. /\ dpos \in Nat \ {0} /\ dpos <= Len(dwRun) /\ dwRun \in Seq(Requests)
        /\ Len(dwRun) \in Nat
    BY DEF DecodeAppend, TypeOK
  <2> QED
    BY <2>1 DEF QRun, Range
<1> HIDE DEF e
<1>4. ASSUME NEW r \in QDone \cup QPend
      PROVE  held'[r] = held[r]
  <2>1. r # e /\ r \in Requests
    BY <1>0, <1>3 DEF Apart, Sites
  <2> QED
    BY <1>2, <2>1 DEF TypeOK
<1>5. ASSUME NEW r \in QRun
      PROVE  Computed(r) <= held'[r] * BlockSize
  <2>1. r \in Requests /\ Computed(r) <= held[r] * BlockSize
    BY <1>0 DEF Outs, Sites
  <2>2. held[r] \in Nat /\ (held'[r] = held[r] \/ held'[r] = held[r] + 1)
    BY <1>2, <1>3, <2>1 DEF TypeOK
  <2>3. /\ Computed(r) \in Nat /\ held[r] * BlockSize <= (held[r] + 1) * BlockSize
        /\ BlockSize \in Nat
    BY <2>1, <2>2, ComputedNat, BlockEnough, SizesAssumption
  <2>4. held[r] * BlockSize \in Nat /\ (held[r] + 1) * BlockSize \in Nat
    BY <2>2, <2>3
  <2> QED
    BY <2>1, <2>2, <2>3, <2>4
<1>6. \A r \in (QClaim' \cup QPre') \cap known' : Fresh(r)'
  BY <1>1, <1>2 DEF Become, Outs, Fresh
<1>7. \A r \in QDone' : Prefilled(r)' /\ (r \in known' => Fresh(r)')
  BY <1>1, <1>2, <1>4 DEF Become, Outs, Fresh, Prefilled
<1>8. \A r \in QPend' : /\ Prefilled(r)'
                        /\ r \in known' => path'[r] = "disaggregated" /\ out'[r] = 1
  BY <1>1, <1>2, <1>4 DEF Become, Outs, Prefilled
<1>9. \A r \in QRun' :
        /\ seqOut'[r] >= 1 /\ Computed(r)' <= held'[r] * BlockSize
        /\ r \in known' => path'[r] = "disaggregated" /\ out'[r] = seqOut'[r]
  BY <1>1, <1>2, <1>5 DEF Become, Outs, Computed
<1> QED
  BY <1>6, <1>7, <1>8, <1>9 DEF Outs

LEMMA OutsEvict ==
  ASSUME Outs, TypeOK, Apart, Once, DecodeEvict
  PROVE  Outs'
<1>0. Sites
  BY SitesTyped
<1> DEFINE e == Head(dwRun)
<1>1. Become(QWait, QClaim, QPre, QDone, QPend, QRun \ {e}, QCw, cwRun) /\ e \in QRun
  BY DecodeEvictSites
<1>2. /\ UNCHANGED <<known, path, out, seqOut>>
      /\ held' = HeldAfter({e}) /\ fin' = FinAfter({e})
  BY DEF DecodeEvict
<1> HIDE DEF e
<1>3. ASSUME NEW r \in QClaim \cup QPre \cup QDone \cup QPend \cup QRun, r # e
      PROVE  Untouched(r)
  <2>1. r \in Requests /\ fin[r] \in BOOLEAN
    BY <1>0 DEF Sites, TypeOK
  <2> QED
    BY <1>2, <1>3, <2>1 DEF HeldAfter, FinAfter, Untouched
<1>4. /\ QClaim' \subseteq QClaim /\ QPre' \subseteq QPre \cup QClaim
      /\ QDone' \subseteq QDone /\ QPend' \subseteq QPend /\ QRun' \subseteq QRun
  BY <1>1 DEF Become
<1>5. \A r \in QClaim' \cup QPre' \cup QDone' \cup QPend' \cup QRun' : r # e
  BY <1>1 DEF Become, Apart
<1> QED
  BY <1>2, <1>3, <1>4, <1>5, OutsKept

LEMMA OutsForward ==
  ASSUME Outs, TypeOK, Apart, Slots, DecodeForward
  PROVE  Outs'
<1>0. Sites
  BY SitesTyped
<1>1. PICK eos, up \in SUBSET Requests : Forwarded(eos, up)
  BY DecodeForwardSites
<1>2. /\ eos \in SUBSET QRun /\ up \in SUBSET QPend
      /\ Become(QWait, QClaim, QPre, QDone, QPend \ up, (QRun \ eos) \cup up, QCw, cwRun)
      /\ seqOut' = [r \in Requests |-> IF r \in QRun THEN seqOut[r] + 1 ELSE seqOut[r]]
      /\ out' = [r \in Requests |-> IF r \in QRun \cap known THEN out[r] + 1 ELSE out[r]]
      /\ fin' = FinAfter(eos) /\ held' = HeldAfter(eos)
      /\ known' = known /\ path' = path
  BY <1>1 DEF Forwarded, DecodeForward
<1>3. ASSUME NEW r \in QClaim \cup QPre \cup QDone \cup QPend
      PROVE  Untouched(r)
  <2>1. r \in Requests /\ fin[r] \in BOOLEAN /\ r \notin QRun
    BY <1>0 DEF Sites, TypeOK, Apart
  <2> QED
    BY <1>2, <2>1 DEF HeldAfter, FinAfter, Untouched
<1>4. \A r \in (QClaim' \cup QPre') \cap known' : Fresh(r)'
  BY <1>2, <1>3 DEF Become, Outs, Untouched, Fresh
<1>5. \A r \in QDone' : Prefilled(r)' /\ (r \in known' => Fresh(r)')
  BY <1>2, <1>3 DEF Become, Outs, Untouched, Fresh, Prefilled
<1>6. \A r \in QPend' : /\ Prefilled(r)'
                        /\ r \in known' => path'[r] = "disaggregated" /\ out'[r] = 1
  BY <1>2, <1>3 DEF Become, Outs, Untouched, Prefilled
<1>7. ASSUME NEW r \in up
      PROVE  /\ seqOut'[r] >= 1 /\ Computed(r)' <= held'[r] * BlockSize
             /\ r \in known' => path'[r] = "disaggregated" /\ out'[r] = seqOut'[r]
  <2>1. r \in Requests /\ Prefilled(r) /\ Untouched(r)
    BY <1>0, <1>2, <1>3 DEF Outs, Sites
  <2>2. Computed(r) <= held[r] * BlockSize
    BY <2>1, ComputedNat, PromptFits DEF Prefilled
  <2>3. Computed(r)' = Computed(r)
    BY <2>1 DEF Computed, Untouched
  <2>4. r \in known => path[r] = "disaggregated" /\ out[r] = 1
    BY <1>2 DEF Outs
  <2> QED
    BY <1>2, <2>1, <2>2, <2>3, <2>4 DEF Prefilled, Untouched
<1>8. ASSUME NEW r \in QRun \ eos
      PROVE  /\ seqOut'[r] >= 1 /\ Computed(r)' <= held'[r] * BlockSize
             /\ r \in known' => path'[r] = "disaggregated" /\ out'[r] = seqOut'[r]
  <2>1. r \in Requests /\ seqOut[r] \in Nat /\ out[r] \in Nat /\ PromptLen[r] \in Nat
    BY <1>0, PromptLenAssumption DEF Sites, TypeOK
  <2>2. PICK i \in 1 .. Len(dwRun) : dwRun[i] = r
    BY RangeRest DEF QRun, Range, TypeOK
  <2>3. i < dpos /\ dpc = "append"
    <3>1. dpos \in Nat /\ Len(dwRun) \in Nat /\ dpos > Len(dwRun)
      BY DEF DecodeForward, TypeOK
    <3> QED
      BY <3>1 DEF DecodeForward
  <2>4. Computed(r) + 1 <= held[r] * BlockSize
    BY <2>2, <2>3 DEF Slots
  <2>5. seqOut'[r] = seqOut[r] + 1 /\ held'[r] = held[r]
    BY <1>2, <2>1 DEF HeldAfter
  <2>6. Computed(r)' = Computed(r) + 1
    BY <2>1, <2>5 DEF Computed
  <2>7. r \in known => out'[r] = out[r] + 1 /\ out[r] = seqOut[r] /\ path[r] = "disaggregated"
    BY <1>2, <2>1 DEF Outs
  <2> QED
    BY <1>2, <2>1, <2>4, <2>5, <2>6, <2>7
<1>9. QRun' = (QRun \ eos) \cup up
  BY <1>2 DEF Become
<1>10. \A r \in QRun' :
        /\ seqOut'[r] >= 1 /\ Computed(r)' <= held'[r] * BlockSize
        /\ r \in known' => path'[r] = "disaggregated" /\ out'[r] = seqOut'[r]
  BY <1>7, <1>8, <1>9
<1> QED
  BY <1>4, <1>5, <1>6, <1>10 DEF Outs
-----------------------------------------------------------------------------
(* Each step keeps the tables of the prefill batches ...                   *)
LEMMA HeldElsewhere ==
  ASSUME TypeOK, Next, \A w \in Workers : ~ PrefillTable(w)
  PROVE  \A r \in Requests \ QRun : held'[r] = held[r]
<1>1. CASE UNCHANGED held
  BY <1>1
<1>2. CASE DecodeAppend
  <2>1. dwRun[dpos] \in QRun
    <3>1. /\ dpos \in Nat \ {0} /\ dpos <= Len(dwRun) /\ dwRun \in Seq(Requests)
          /\ Len(dwRun) \in Nat
      BY <1>2 DEF DecodeAppend, TypeOK
    <3> QED
      BY <3>1 DEF QRun, Range
  <2>2. held' = held \/ held' = [held EXCEPT ![dwRun[dpos]] = @ + 1]
    BY <1>2 DEF DecodeAppend, poolVars
  <2> QED
    BY <2>1, <2>2 DEF TypeOK
<1>3. ASSUME NEW S \in SUBSET QRun, held' = HeldAfter(S)
      PROVE  \A r \in Requests \ QRun : held'[r] = held[r]
  BY <1>3 DEF HeldAfter
<1>4. CASE DecodeEvict
  <2>1. {Head(dwRun)} \in SUBSET QRun
    <3>1. dwRun \in Seq(Requests) /\ dwRun # <<>>
      BY <1>4 DEF DecodeEvict, TypeOK
    <3> QED
      BY <3>1, RangeTail DEF QRun
  <2> QED
    BY <1>3, <1>4, <2>1 DEF DecodeEvict
<1>5. CASE DecodeForward
  <2>1. PICK eos \in SUBSET QRun : held' = HeldAfter(eos)
    BY <1>5 DEF DecodeForward, QRun
  <2> QED
    BY <1>3, <2>1
<1>6. ASSUME NEW q \in Requests, EnforceDisaggregated(q)
      PROVE  \A r \in Requests \ QRun : held'[r] = held[r]
  <2> DEFINE S == IF Leaves(q) THEN {q} ELSE {}
  <2>1. S \in SUBSET QRun /\ held' = HeldAfter(S)
    BY <1>6 DEF EnforceDisaggregated, Leaves, QRun
  <2> QED
    BY <1>3, <2>1
<1>7. CASE \/ \E r \in Requests : AddRequest(r) \/ CopyDone(r) \/ EnforceCollocated(r)
           \/ CheckWaiting \/ CheckStates \/ CheckRest
           \/ Dispatch \/ RouteOne \/ RouteEnd \/ Clear
  BY <1>1, <1>7 DEF AddRequest, CopyDone, EnforceCollocated, CheckWaiting, CheckStates,
       CheckRest, Dispatch, RouteOne, RouteEnd, Clear, poolVars
<1>8. CASE \/ (\E w \in Workers : Fire(w)) \/ Requeue \/ Flush \/ Join
           \/ EnforceEnd \/ EnforceCrash \/ DecodeStart \/ CollocatedStep
  BY <1>1, <1>8 DEF Fire, Requeue, Flush, Join, EnforceEnd, EnforceCrash, DecodeStart,
       CollocatedStep, poolVars
<1>9. CASE \E w \in Workers : \/ PrefillCheck(w) \/ PrefillPop(w) \/ PrefillOOM(w)
                              \/ PrefillForward(w) \/ PrefillRequeue(w) \/ PrefillForget(w)
  BY <1>1, <1>9 DEF PrefillCheck, PrefillPop, PrefillOOM, PrefillForward, PrefillRequeue,
       PrefillForget, poolVars
<1> QED
  BY <1>2, <1>4, <1>5, <1>6, <1>7, <1>8, <1>9 DEF Next, Main, Prefill, Decode

(* The tables that thread w has completed, after a step of its own.        *)
LEMMA TabledStep ==
  ASSUME TypeOK, Grouped, NEW w \in Workers, Fire(w) \/ Prefill(w)
  PROVE  \/ PrefillTable(w) /\ TableOf(w)' = TableOf(w) \cup {Group(w)}
         \/ ~ PrefillTable(w) /\ TableOf(w)' \in {TableOf(w), {}}
<1>1. CASE PrefillTable(w)
  <2>1. /\ batch[w] \in Seq(Requests) /\ Len(batch[w]) \in Nat /\ wpc[w] = "pop"
        /\ wpos[w] \in Nat /\ 1 <= wpos[w] /\ wpos[w] <= Len(batch[w])
    BY <1>1, GroupIn DEF PrefillTable
  <2>2. Tabled(w) = wpos[w] - 1
    BY <2>1, Zenon DEF Tabled
  <2>3. /\ batch'[w] = batch[w] /\ wpos'[w] = wpos[w] + 1
        /\ wpc'[w] = IF wpos[w] = Len(batch[w]) THEN "forward" ELSE "check"
    BY <1>1 DEF PrefillTable, TypeOK
  <2>4. Tabled(w)' = wpos[w]
    <3>1. CASE wpos[w] = Len(batch[w])
      <4>1. wpc'[w] = "forward"
        BY <2>3, <3>1
      <4>2. Tabled(w)' = Len(batch'[w])
        BY <4>1, Zenon DEF Tabled
      <4> QED
        BY <2>3, <3>1, <4>2
    <3>2. CASE wpos[w] # Len(batch[w])
      <4>1. wpc'[w] = "check" /\ wpc'[w] # "forward"
        BY <2>3, <3>2
      <4>2. Tabled(w)' = wpos'[w] - 1
        BY <4>1, Zenon DEF Tabled
      <4> QED
        BY <2>1, <2>3, <4>2
    <3> QED
      BY <3>1, <3>2
  <2>5. 1 .. wpos[w] = (1 .. wpos[w] - 1) \cup {wpos[w]}
    BY <2>1
  <2> QED
    BY <1>1, <2>2, <2>3, <2>4, <2>5 DEF TableOf, Group
<1>2. CASE Fire(w)
  <2>1. wpc'[w] = "check" /\ wpos'[w] = 1 /\ wpc[w] = "idle"
    BY <1>2, FireSites
  <2>2. wpc'[w] # "forward"
    BY <2>1
  <2>3. Tabled(w)' = wpos'[w] - 1
    BY <2>1, <2>2, Zenon DEF Tabled
  <2>4. TableOf(w)' = {}
    BY <2>1, <2>3 DEF TableOf
  <2> QED
    BY <2>1, <2>4 DEF PrefillTable
<1>3. CASE PrefillPop(w)
  <2>1. UNCHANGED <<batch, wpc, wpos>> /\ got[w] < PromptBlocks(Group(w)) /\ got[w] \in Nat
    BY <1>3 DEF PrefillPop, TypeOK
  <2>2. ~ PrefillTable(w)
    <3>1. Group(w) \in Requests
      BY <1>3, GroupIn DEF PrefillPop
    <3> QED
      BY <2>1, <3>1, PromptFits DEF PrefillTable
  <2> QED
    BY <2>1, <2>2 DEF TableOf, Tabled
<1>4. CASE PrefillCheck(w)
  <2>1. ~ PrefillTable(w) /\ wpc[w] = "check" /\ batch'[w] = batch[w]
    BY <1>4 DEF PrefillCheck, PrefillTable
  <2>2. (wpc'[w] = "pop" /\ wpos'[w] = wpos[w]) \/ wpc'[w] = "requeue"
    BY <1>4 DEF PrefillCheck, TypeOK
  <2>3. CASE wpc'[w] = "pop" /\ wpos'[w] = wpos[w]
    <3>1. Tabled(w) = wpos[w] - 1
      BY <2>1, Zenon DEF Tabled
    <3>2. Tabled(w)' = wpos'[w] - 1
      <4>1. wpc'[w] = "pop"
        BY <2>3
      <4> QED
        BY <4>1, Zenon DEF Tabled
    <3> QED
      BY <2>1, <2>3, <3>1, <3>2 DEF TableOf
  <2>4. CASE wpc'[w] = "requeue"
    <3>1. Tabled(w)' = 0
      BY <2>4, Zenon DEF Tabled
    <3> QED
      BY <2>1, <3>1 DEF TableOf
  <2> QED
    BY <2>2, <2>3, <2>4
<1>5. CASE \/ (PrefillOOM(w) /\ ~ PrefillTable(w)) \/ PrefillForward(w) \/ PrefillRequeue(w)
           \/ PrefillForget(w)
  <2>1. wpc'[w] \in {"idle", "forget", "requeue"}
    BY <1>5 DEF PrefillOOM, PrefillForward, PrefillRequeue, PrefillForget, TypeOK
  <2>2. wpc'[w] # "forward" /\ wpc'[w] \notin {"check", "pop"}
    BY <2>1
  <2>3. Tabled(w)' = 0
    BY <2>2, Zenon DEF Tabled
  <2>4. ~ PrefillTable(w)
    BY <1>5 DEF PrefillTable, PrefillForward, PrefillRequeue, PrefillForget
  <2> QED
    BY <2>3, <2>4 DEF TableOf
<1> QED
  BY <1>1, <1>2, <1>3, <1>4, <1>5 DEF Prefill

LEMMA TablesStep ==
  ASSUME Tables, TypeOK, Grouped, Apart, Next
  PROVE  Tables'
<1>0. Sites
  BY SitesTyped
<1>1. \A v \in Workers : TableOf(v) \subseteq In(v) /\ In(v) \subseteq QPre
  BY TableIn DEF QPre
<1>2. ASSUME NEW w \in Workers, Prefill(w) \/ Fire(w)
      PROVE  Tables'
  <2>1. \A v \in Workers \ {w} : TableOf(v)' = TableOf(v)
    BY <1>2, OtherThreads DEF TableOf, Tabled
  <2>2. CASE PrefillTable(w)
    <3>1. Group(w) \in In(w) /\ got[w] = PromptBlocks(Group(w)) /\ Group(w) \in Requests
      BY <2>2, TableIn, GroupIn DEF PrefillTable
    <3>2. \A r \in Requests : held'[r] = IF r = Group(w) THEN PromptBlocks(r) ELSE held[r]
      BY <2>2, <3>1 DEF PrefillTable, TypeOK
    <3>3. TableOf(w)' = TableOf(w) \cup {Group(w)}
      BY <2>2, TabledStep DEF Prefill
    <3>4. ASSUME NEW r \in TableOf(w)'
          PROVE  held'[r] = PromptBlocks(r)
      <4>1. r \in Requests
        BY <1>0, <1>1, <3>1, <3>3 DEF Sites
      <4> QED
        BY <3>2, <3>3, <4>1 DEF Tables
    <3>5. ASSUME NEW v \in Workers \ {w}, NEW r \in TableOf(v)'
          PROVE  held'[r] = PromptBlocks(r)
      <4>1. r \in In(v) /\ r \in Requests /\ held[r] = PromptBlocks(r)
        BY <1>0, <1>1, <2>1 DEF Tables, Sites
      <4>2. r # Group(w)
        BY <3>1, <4>1 DEF Apart
      <4> QED
        BY <3>2, <4>1, <4>2
    <3> QED
      BY <3>4, <3>5 DEF Tables, PromptBlocks
  <2>3. CASE ~ PrefillTable(w)
    <3>1. TableOf(w)' \subseteq TableOf(w)
      BY <1>2, <2>3, TabledStep
    <3>2. held' = held
      BY <1>2, <2>3 DEF Prefill, Fire, PrefillCheck, PrefillPop, PrefillOOM, PrefillForward,
           PrefillRequeue, PrefillForget, poolVars
    <3> QED
      BY <2>1, <3>1, <3>2 DEF Tables, PromptBlocks
  <2> QED
    BY <2>2, <2>3
<1>3. CASE UNCHANGED <<batch, wpc, wpos>> /\ \A w \in Workers : ~ PrefillTable(w)
  <2>1. \A v \in Workers : TableOf(v)' = TableOf(v)
    BY <1>3 DEF TableOf, Tabled
  <2>2. ASSUME NEW v \in Workers, NEW r \in TableOf(v)
        PROVE  held'[r] = PromptBlocks(r)
    <3>1. r \in Requests \ QRun
      BY <1>0, <1>1 DEF Sites, Apart
    <3> QED
      BY <1>3, <3>1, HeldElsewhere DEF Tables
  <2> QED
    BY <2>1, <2>2 DEF Tables, PromptBlocks
<1>4. CASE \/ \E r \in Requests : AddRequest(r) \/ CopyDone(r)
           \/ CheckWaiting \/ CheckStates \/ CheckRest
           \/ Dispatch \/ RouteOne \/ RouteEnd \/ Clear \/ Requeue \/ Flush \/ Join
           \/ \E r \in Requests : EnforceCollocated(r) \/ EnforceDisaggregated(r)
           \/ EnforceEnd \/ EnforceCrash \/ Decode \/ CollocatedStep
  <2>1. UNCHANGED <<batch, wpc, wpos>>
    <3>1. CASE \/ \E r \in Requests : AddRequest(r) \/ CopyDone(r)
               \/ CheckWaiting \/ CheckStates \/ CheckRest
               \/ Dispatch \/ RouteOne \/ RouteEnd \/ Clear
      BY <3>1 DEF AddRequest, CopyDone, CheckWaiting, CheckStates, CheckRest, Dispatch,
           RouteOne, RouteEnd, Clear, prefillVars
    <3>2. CASE \/ Requeue \/ Flush \/ Join
               \/ \E r \in Requests : EnforceCollocated(r) \/ EnforceDisaggregated(r)
               \/ EnforceEnd \/ EnforceCrash
      BY <3>2 DEF Requeue, Flush, Join, EnforceCollocated, EnforceDisaggregated, EnforceEnd,
           EnforceCrash, prefillVars
    <3>3. CASE Decode \/ CollocatedStep
      BY <3>3 DEF Decode, DecodeStart, DecodeAppend, DecodeEvict, DecodeForward,
           CollocatedStep, prefillVars
    <3> QED
      BY <1>4, <3>1, <3>2, <3>3
  <2>2. CASE \E w \in Workers : PrefillTable(w)
    BY <1>2, <2>2 DEF Prefill
  <2> QED
    BY <1>3, <2>1, <2>2
<1> QED
  BY <1>2, <1>4 DEF Next, Main
-----------------------------------------------------------------------------
(* ... the blocks for the next tokens, the threads' phase, and what is     *)
(* finished.                                                               *)
LEMMA SlotsKept ==
  ASSUME Slots, TypeOK,
         dpc' = "append" => /\ UNCHANGED <<dpc, dpos, dwRun>>
                            /\ \A r \in QRun : seqOut'[r] = seqOut[r] /\ held'[r] = held[r]
  PROVE  Slots'
<1>1. ASSUME dpc' = "append", NEW i \in 1 .. Len(dwRun'), i < dpos'
      PROVE  (Computed(dwRun[i]) + 1 <= held[dwRun[i]] * BlockSize)'
  <2>1. dwRun' = dwRun /\ dpos' = dpos /\ dpc = "append"
    BY <1>1
  <2> DEFINE e == dwRun[i]
  <2>2. e \in QRun
    BY <1>1, <2>1 DEF TypeOK, QRun, Range
  <2>3. PromptLen[e] + seqOut[e] - 1 + 1 <= held[e] * BlockSize
    BY <1>1, <2>1 DEF Slots, Computed
  <2>4. seqOut'[e] = seqOut[e] /\ held'[e] = held[e]
    BY <1>1, <2>2
  <2>5. PromptLen[e] + seqOut'[e] - 1 + 1 <= held'[e] * BlockSize
    BY <2>3, <2>4
  <2> QED
    BY <2>1, <2>5 DEF Computed
<1> QED
  BY <1>1 DEF Slots

LEMMA SlotsAppend ==
  ASSUME Slots, Outs, TypeOK, Once, DecodeAppend
  PROVE  Slots'
<1> DEFINE e == dwRun[dpos]
<1>1. /\ dpos \in Nat \ {0} /\ dpos <= Len(dwRun) /\ dwRun \in Seq(Requests)
      /\ Len(dwRun) \in Nat /\ dpc = "append"
      /\ dwRun' = dwRun /\ seqOut' = seqOut /\ dpos' = dpos + 1
  BY DEF DecodeAppend, TypeOK
<1>2. e \in QRun /\ e \in Requests
  BY <1>1 DEF QRun, Range
<1>3. \/ NeedsBlock(e) /\ held' = [held EXCEPT ![e] = @ + 1]
      \/ ~ NeedsBlock(e) /\ held' = held
  BY DEF DecodeAppend, poolVars
<1>4. Computed(e) + 1 <= held'[e] * BlockSize
  <2>0. Computed(e) \in Nat /\ Computed(e) <= held[e] * BlockSize
    BY <1>2, ComputedNat DEF Outs
  <2> HIDE DEF e
  <2>1. /\ Computed(e) \in Nat /\ held[e] \in Nat /\ held \in [Requests -> 0 .. NumBlocks]
        /\ BlockSize \in Nat \ {0} /\ Computed(e) <= held[e] * BlockSize
    BY <1>2, <2>0, SizesAssumption DEF TypeOK
  <2>2. CASE NeedsBlock(e) /\ held' = [held EXCEPT ![e] = @ + 1]
    <3>1. held'[e] = held[e] + 1
      BY <1>2, <2>1, <2>2
    <3> QED
      BY <2>1, <3>1, BlockEnough
  <2>3. CASE ~ NeedsBlock(e) /\ held' = held
    <3>1. held[e] >= Computed(e) \div BlockSize + 1
      BY <2>1, <2>3 DEF NeedsBlock
    <3> QED
      BY <2>1, <2>3, <3>1, BlockEnough
  <2> QED
    BY <1>3, <2>2, <2>3
<1> SUFFICES ASSUME NEW i \in 1 .. Len(dwRun), i < dpos + 1
             PROVE  Computed(dwRun[i]) + 1 <= held'[dwRun[i]] * BlockSize
  BY <1>1 DEF Slots, Computed
<1>5. CASE i = dpos
  BY <1>4, <1>5
<1>6. CASE i # dpos
  <2>1. i < dpos /\ dpos \in 1 .. Len(dwRun)
    BY <1>1, <1>6
  <2>2. dwRun[i] # e /\ dwRun[i] \in Requests
    BY <1>1, <1>6, <2>1 DEF Once
  <2> HIDE DEF e
  <2>3. held'[dwRun[i]] = held[dwRun[i]]
    BY <1>2, <1>3, <2>2 DEF TypeOK
  <2> QED
    BY <1>1, <2>1, <2>3 DEF Slots
<1> QED
  BY <1>5, <1>6

LEMMA SlotsStep ==
  ASSUME Slots, Outs, TypeOK, Grouped, Apart, Once, Threads, Next
  PROVE  Slots'
<1>0. Sites
  BY SitesTyped
<1>1. CASE DecodeStart
  <2>1. dpos' = 1
    BY <1>1 DEF DecodeStart
  <2>2. \A i \in 1 .. Len(dwRun') : ~ (i < dpos')
    BY <2>1
  <2> QED
    BY <2>2 DEF Slots
<1>2. CASE DecodeAppend
  BY <1>2, SlotsAppend
<1>3. CASE DecodeEvict \/ DecodeForward \/ Flush
  BY <1>3 DEF DecodeEvict, DecodeForward, Flush, Slots
<1>4. CASE \E q \in Requests : EnforceDisaggregated(q)
  BY <1>4 DEF EnforceDisaggregated, Threads, Slots
<1>5. ASSUME NEW w \in Workers, Prefill(w)
      PROVE  Slots'
  <2>1. UNCHANGED <<dpc, dpos, dwRun>>
    BY <1>5 DEF Prefill, PrefillCheck, PrefillPop, PrefillOOM, PrefillTable, PrefillForward,
         PrefillRequeue, PrefillForget, decodeVars
  <2>2. CASE PrefillTable(w)
    <3>1. Group(w) \in QPre /\ held' = [held EXCEPT ![Group(w)] = got[w]] /\ seqOut' = seqOut
      BY <2>2, TableIn DEF PrefillTable, decodeVars, QPre
    <3>2. ASSUME NEW r \in QRun
          PROVE  held'[r] = held[r] /\ seqOut'[r] = seqOut[r]
      <4>1. r # Group(w) /\ r \in Requests
        BY <1>0, <3>1 DEF Apart, Sites
      <4> QED
        BY <3>1, <4>1 DEF TypeOK
    <3> QED
      BY <2>1, <3>2, SlotsKept
  <2>3. CASE PrefillForward(w)
    <3>1. /\ In(w) = Range(batch[w]) /\ In(w) \subseteq QPre /\ held' = held
          /\ seqOut' = [r \in Requests |-> IF r \in Range(batch[w]) THEN 1 ELSE seqOut[r]]
      BY <2>3, ForwardSites DEF PrefillForward, poolVars, QPre
    <3>2. ASSUME NEW r \in QRun
          PROVE  held'[r] = held[r] /\ seqOut'[r] = seqOut[r]
      <4>1. r \notin In(w) /\ r \in Requests
        BY <1>0, <3>1 DEF Apart, Sites
      <4> QED
        BY <3>1, <4>1
    <3> QED
      BY <2>1, <3>2, SlotsKept
  <2>4. CASE \/ PrefillCheck(w) \/ PrefillPop(w) \/ PrefillOOM(w) \/ PrefillRequeue(w)
             \/ PrefillForget(w)
    <3>1. UNCHANGED <<seqOut, held>>
      BY <2>4 DEF PrefillCheck, PrefillPop, PrefillOOM, PrefillRequeue, PrefillForget,
           decodeVars, poolVars
    <3> QED
      BY <2>1, <3>1, SlotsKept
  <2> QED
    BY <1>5, <2>2, <2>3, <2>4 DEF Prefill
<1>6. CASE UNCHANGED <<dpc, dpos, dwRun, seqOut, held>>
  BY <1>6, SlotsKept
<1>7. CASE \/ \E r \in Requests : AddRequest(r) \/ CopyDone(r) \/ EnforceCollocated(r)
           \/ CheckWaiting \/ CheckStates \/ CheckRest
           \/ Dispatch \/ RouteOne \/ RouteEnd \/ Clear
  BY <1>6, <1>7 DEF AddRequest, CopyDone, EnforceCollocated, CheckWaiting, CheckStates,
       CheckRest, Dispatch, RouteOne, RouteEnd, Clear, decodeVars, poolVars
<1>8. CASE \/ (\E w \in Workers : Fire(w)) \/ Requeue \/ Join
           \/ EnforceEnd \/ EnforceCrash \/ CollocatedStep
  BY <1>6, <1>8 DEF Fire, Requeue, Join, EnforceEnd, EnforceCrash, CollocatedStep,
       decodeVars, poolVars
<1> QED
  BY <1>1, <1>2, <1>3, <1>4, <1>5, <1>7, <1>8 DEF Next, Main, Decode

LEMMA ThreadsStep ==
  ASSUME Threads, Next
  PROVE  Threads'
<1> USE DEF Threads
<1>1. CASE UNCHANGED <<pc, dpc, cpc>>
  BY <1>1
<1>2. CASE \/ \E r \in Requests : AddRequest(r) \/ CopyDone(r)
           \/ CheckWaiting \/ CheckStates \/ CheckRest \/ Dispatch
  BY <1>2 DEF AddRequest, CopyDone, CheckWaiting, CheckStates, CheckRest, Dispatch, mainVars,
       decodeVars, collVars
<1>3. CASE RouteOne \/ RouteEnd \/ Clear
  BY <1>3 DEF RouteOne, RouteEnd, Clear, decodeVars, collVars
<1>4. CASE (\E w \in Workers : Fire(w)) \/ Requeue \/ Flush \/ Join
  BY <1>4 DEF Fire, Requeue, Flush, Join, decodeVars, collVars
<1>5. CASE \/ \E r \in Requests : EnforceCollocated(r) \/ EnforceDisaggregated(r)
           \/ EnforceEnd \/ EnforceCrash
  BY <1>5 DEF EnforceCollocated, EnforceDisaggregated, EnforceEnd, EnforceCrash, decodeVars,
       collVars
<1>6. CASE Decode
  <2>1. dpc # "off" /\ pc' = pc /\ cpc' = cpc
    BY <1>6 DEF Decode, DecodeStart, DecodeAppend, DecodeEvict, DecodeForward, mainVars,
         collVars
  <2> QED
    BY <2>1
<1>7. CASE CollocatedStep
  BY <1>7 DEF CollocatedStep, mainVars, decodeVars
<1>8. CASE \E w \in Workers : Prefill(w)
  BY <1>1, <1>8 DEF Prefill, PrefillCheck, PrefillPop, PrefillOOM, PrefillTable,
       PrefillForward, PrefillRequeue, PrefillForget, mainVars, decodeVars, collVars
<1> QED
  BY <1>2, <1>3, <1>4, <1>5, <1>6, <1>7, <1>8 DEF Next, Main

LEMMA ArrivedGrows ==
  ASSUME Next
  PROVE  arrived \subseteq arrived'
BY DEF Next, Main, Prefill, Decode, AddRequest, CopyDone, CheckWaiting, CheckStates,
   CheckRest, Dispatch, RouteOne, RouteEnd, Clear, Fire, Requeue, Flush, Join,
   EnforceCollocated, EnforceDisaggregated, EnforceEnd, EnforceCrash, PrefillCheck,
   PrefillPop, PrefillOOM, PrefillTable, PrefillForward, PrefillRequeue, PrefillForget,
   DecodeStart, DecodeAppend, DecodeEvict, DecodeForward, CollocatedStep, mainVars

Nowhere(r) ==
  /\ r \notin QWait /\ r \notin QClaim /\ r \notin QPre /\ r \notin QDone
  /\ r \notin QPend /\ r \notin QRun /\ r \notin QCw /\ r \notin cwRun
Placed == \A r \in Requests : Places(r) = 0 <=> Nowhere(r)

LEMMA PlacedNow == TypeOK => Placed
BY NotHere DEF Placed, Nowhere

LEMMA PlacedAfter == TypeOK' => Placed'
BY PlacedNow, PTL

LEMMA DepartedStep ==
  ASSUME Departed, TypeOK, TypeOK', Grouped, Apart, Once, NotArrived, Next
  PROVE  Departed'
<1>0. cwFin \subseteq Requests /\ cwRun \subseteq Requests
  BY DEF TypeOK
<1>1. ASSUME NEW r \in cwFin
      PROVE  r \in arrived' /\ Places(r)' = 0
  <2>1. r \in Requests /\ Places(r) = 0 /\ Places(r)' \in Nat /\ r \in arrived /\ r \in arrived'
    BY <1>0, PlacesNatAfter, ArrivedGrows DEF Departed
  <2>2. CASE Fewer
    BY <2>1, <2>2 DEF Fewer
  <2>3. ASSUME NEW q \in Requests, AddRequest(q)
        PROVE  Places(r)' = 0
    <3>1. r # q
      BY <2>1, <2>3 DEF AddRequest
    <3>2. Places(r)' <= Places(r) + (IF r = q THEN 1 ELSE 0)
      BY <2>1, <2>3, AddStep
    <3> QED
      BY <2>1, <3>1, <3>2
  <2> QED
    BY <2>1, <2>2, <2>3, FewerStep
<1>2. CASE cwFin' = cwFin
  BY <1>1, <1>2 DEF Departed
<1>3. CASE CollocatedStep
  <2>1. PICK first, eos \in SUBSET Requests : Stepped(first, eos)
    BY <1>3, CollocatedSites
  <2>2. /\ first \in SUBSET QCw /\ cwFin' = cwFin \cup (cwRun \cap cwStop)
        /\ Become(QWait, QClaim, QPre, QDone, QPend, QRun, QCw \ first,
                  (cwRun \ cwStop) \cup first)
    BY <2>1 DEF Stepped
  <2>3. ASSUME NEW r \in cwRun \cap cwStop
        PROVE  r \in arrived' /\ Places(r)' = 0
    <3>1. r \in Requests
      BY <1>0
    <3>2. Nowhere(r)'
      BY <2>2 DEF Become, Apart, Nowhere
    <3>3. Places(r) # 0
      BY <3>1, NotHere
    <3>4. r \in arrived
      BY <3>1, <3>3 DEF NotArrived
    <3> QED
      BY <3>1, <3>2, <3>4, PlacedAfter, ArrivedGrows DEF Placed
  <2> QED
    BY <1>1, <2>2, <2>3 DEF Departed
<1>4. CASE ~ CollocatedStep
  BY <1>2, <1>4 DEF Next, Main, Prefill, Decode, AddRequest, CopyDone, CheckWaiting,
     CheckStates, CheckRest, Dispatch, RouteOne, RouteEnd, Clear, Fire, Requeue, Flush, Join,
     EnforceCollocated, EnforceDisaggregated, EnforceEnd, EnforceCrash, PrefillCheck,
     PrefillPop, PrefillOOM, PrefillTable, PrefillForward, PrefillRequeue, PrefillForget,
     DecodeStart, DecodeAppend, DecodeEvict, DecodeForward, collVars
<1> QED
  BY <1>3, <1>4
-----------------------------------------------------------------------------
(* Together they are inductive.                                            *)
Noted == Outs /\ Tables /\ Slots /\ Threads /\ Departed
OutInd == Ind /\ Noted

LEMMA InitNoted == Init => Noted
<1> SUFFICES ASSUME Init
             PROVE  Noted
  OBVIOUS
<1>1. \A w \in Workers : batch[w] = <<>> /\ wpc[w] = "idle"
  BY DEF Init
<1>2. QClaim = {} /\ QDone = {} /\ QPend = {} /\ QRun = {} /\ QPre = {}
  <2>1. \A w \in Workers : In(w) = {}
    BY <1>1 DEF In, Rest, PutBack
  <2>2. claim = <<>> /\ done = <<>> /\ pending = <<>> /\ dwRun = <<>>
    BY DEF Init
  <2> QED
    BY <2>1, <2>2, RangeEmpty DEF QClaim, QDone, QPend, QRun, QPre
<1>3. Outs
  BY <1>2 DEF Outs
<1>4. Tables
  <2>1. \A w \in Workers : Tabled(w) = 0
    BY <1>1 DEF Tabled
  <2> QED
    BY <2>1 DEF Tables, TableOf
<1>5. Slots /\ Threads /\ Departed
  BY DEF Init, Slots, Threads, Departed
<1> QED
  BY <1>3, <1>4, <1>5 DEF Noted

LEMMA OutsNext ==
  ASSUME Noted, TypeOK, Grouped, Apart, Once, Next
  PROVE  Outs'
<1> USE DEF Noted
<1>1. CASE \E r \in Requests : AddRequest(r) \/ CopyDone(r)
  BY <1>1, OutsStill DEF AddRequest, CopyDone, Quiet, stateVars, poolVars, decodeVars
<1>2. CASE CheckWaiting \/ CheckStates \/ CheckRest \/ Dispatch \/ RouteEnd \/ Clear
  BY <1>2, OutsStill DEF CheckWaiting, CheckStates, CheckRest, Dispatch, RouteEnd, Clear,
     Quiet, stateVars, poolVars, decodeVars
<1>3. CASE RouteOne
  BY <1>3, OutsRoute
<1>4. CASE (\E w \in Workers : Fire(w)) \/ Requeue \/ Join \/ EnforceEnd \/ EnforceCrash
  BY <1>4, OutsStill DEF Fire, Requeue, Join, EnforceEnd, EnforceCrash, Quiet, stateVars,
     poolVars, decodeVars
<1>5. CASE Flush
  BY <1>5, OutsFlush
<1>6. CASE \E r \in Requests : EnforceCollocated(r)
  BY <1>6, OutsCollocated
<1>7. CASE \E r \in Requests : EnforceDisaggregated(r)
  BY <1>7, OutsEnforce
<1>8. ASSUME NEW w \in Workers, Prefill(w)
      PROVE  Outs'
  <2>1. CASE PrefillTable(w)
    BY <2>1, OutsTable
  <2>2. CASE PrefillForward(w)
    BY <2>2, OutsPrefillForward
  <2>3. CASE PrefillCheck(w) \/ PrefillPop(w) \/ PrefillOOM(w)
    BY <2>3, OutsStill DEF PrefillCheck, PrefillPop, PrefillOOM, stateVars, poolVars,
       decodeVars
  <2>4. CASE PrefillRequeue(w) \/ PrefillForget(w)
    BY <2>4, OutsStill DEF PrefillRequeue, PrefillForget, stateVars, poolVars, decodeVars
  <2> QED
    BY <1>8, <2>1, <2>2, <2>3, <2>4 DEF Prefill
<1>9. CASE Decode
  BY <1>9, OutsDecodeStart, OutsAppend, OutsEvict, OutsForward DEF Decode
<1>10. CASE CollocatedStep
  BY <1>10, OutsCollocated
<1> QED
  BY <1>1, <1>2, <1>3, <1>4, <1>5, <1>6, <1>7, <1>8, <1>9, <1>10 DEF Next, Main

LEMMA NextNoted == OutInd /\ [Next]_vars => OutInd'
<1> SUFFICES ASSUME OutInd, [Next]_vars
             PROVE  OutInd'
  OBVIOUS
<1>1. Ind'
  BY NextInd DEF OutInd
<1>2. /\ TypeOK /\ TypeOK' /\ Grouped /\ NotArrived /\ ServedOnce
      /\ Outs /\ Tables /\ Slots /\ Threads /\ Departed
  BY <1>1 DEF OutInd, Ind, Noted
<1>3. Apart /\ Once
  BY <1>2, ApartNow, OnceNow
<1>4. CASE Next
  <2>1. Outs'
    BY <1>2, <1>3, <1>4, OutsNext DEF Noted
  <2>2. Tables' /\ Slots'
    BY <1>2, <1>3, <1>4, TablesStep, SlotsStep
  <2>3. Threads' /\ Departed'
    BY <1>2, <1>3, <1>4, ThreadsStep, DepartedStep
  <2> QED
    BY <1>1, <2>1, <2>2, <2>3 DEF OutInd, Noted
<1>5. CASE UNCHANGED vars
  <2>1. UNCHANGED <<arrived, pc, pos, waiting, claim, known, path, out, fin, held, batch, wpc,
                    wpos, done, seqOut, pending, dwRun, dpc, dpos, cpc, cwWait, cwRun, cwFin>>
    BY <1>5 DEF vars, mainVars, stateVars, poolVars, prefillVars, decodeVars, collVars
  <2>2. Outs'
    <3>1. QClaim' = QClaim /\ QPre' = QPre /\ QDone' = QDone /\ QPend' = QPend /\ QRun' = QRun
      BY <2>1, SameSites
    <3>2. \A r : Untouched(r)
      BY <2>1 DEF Untouched
    <3> QED
      BY <1>2, <2>1, <3>1, <3>2, OutsKept
  <2>3. Tables'
    BY <1>2, <2>1 DEF Tables, TableOf, Tabled, PromptBlocks
  <2>4. Slots'
    BY <1>2, <2>1, SlotsKept
  <2>5. Threads'
    BY <1>2, <2>1 DEF Threads
  <2>6. Departed'
    <3>1. Fewer
      BY <1>1, <1>2, <2>1, QuietFewer DEF Ind, Passed
    <3>2. ASSUME NEW r \in cwFin
          PROVE  Places(r)' = 0
      <4>1. r \in Requests /\ Places(r) = 0 /\ Places(r)' \in Nat
        BY <1>2, PlacesNatAfter DEF Departed, TypeOK
      <4>2. Places(r)' <= Places(r)
        BY <3>1, <4>1 DEF Fewer
      <4> QED
        BY <4>1, <4>2
    <3> QED
      BY <1>2, <2>1, <3>2 DEF Departed
  <2> QED
    BY <1>1, <2>2, <2>3, <2>4, <2>5, <2>6 DEF OutInd, Noted
<1> QED
  BY <1>4, <1>5

LEMMA AlwaysNoted == Spec => []OutInd
<1>1. Init => OutInd
  BY InitInd, InitNoted DEF OutInd
<1> QED
  BY <1>1, NextNoted, PTL DEF Spec

(* While a request is copied or decoded, the router has noted as many      *)
(* tokens of it as its sequence has, and the tokens fed so far have their  *)
(* blocks (_flush_prefill_done, _step_disaggregated, append_slot): for any *)
(* requests, workers and pool, however the threads interleave.             *)
THEOREM NotesAgree == Spec => []OutputsAgree
<1>1. OutInd => OutputsAgree
  <2> SUFFICES ASSUME OutInd
               PROVE  OutputsAgree
    OBVIOUS
  <2>1. TypeOK /\ Outs
    BY DEF OutInd, Ind, Noted
  <2>2. Sites
    BY <2>1, SitesTyped
  <2>3. ASSUME NEW r \in QPend, r \in known
        PROVE  out[r] = seqOut[r] /\ Computed(r) <= held[r] * BlockSize
    <3>1. r \in Requests /\ out[r] = 1 /\ seqOut[r] = 1 /\ held[r] = PromptBlocks(r)
      BY <2>1, <2>2, <2>3 DEF Sites, Outs, Prefilled
    <3>2. Computed(r) = PromptLen[r]
      BY <2>1, <3>1, ComputedNat
    <3> QED
      BY <3>1, <3>2, PromptFits
  <2>4. ASSUME NEW r \in QRun, r \in known
        PROVE  out[r] = seqOut[r] /\ Computed(r) <= held[r] * BlockSize
    BY <2>1, <2>4 DEF Outs
  <2> QED
    BY <2>3, <2>4 DEF OutputsAgree, QPend, QRun
<1> QED
  BY <1>1, AlwaysNoted, PTL
-----------------------------------------------------------------------------
(* The length limit.  r's output may be at it only between the step that   *)
(* produced the last token (off: its thread has ended) and the visit of    *)
(* _enforce_max_tokens.                                                    *)
Due(r, off) ==
  \/ pc = "step" /\ off
  \/ pc = "enforce" /\ r \in visit
  \/ pc = "crashed"

DecodeLimits ==
  /\ \A r \in QPend \cap known : ~ fin[r]
  /\ \A r \in QRun \cap known : /\ ~ fin[r]
                                /\ out[r] < MaxTokens \/ Due(r, dpc = "off")
CollLimits ==
  /\ \A r \in QCw \cap known : path[r] = "collocated" /\ ~ fin[r]
  /\ \A r \in cwRun \cap known : path[r] = "collocated" /\ cwOut[r] <= MaxTokens
  /\ \A r \in (cwRun \ cwStop) \cap known :
       ~ fin[r] /\ (cwOut[r] < MaxTokens \/ Due(r, cpc = "off"))
  /\ \A r \in cwFin \cap known : fin[r]
Limits == OutputBounded /\ DecodeLimits /\ CollLimits

(* A due visit stays due.                                                  *)
DueStays ==
  \A r \in known' : /\ Due(r, dpc = "off") => Due(r, dpc = "off")'
                    /\ Due(r, cpc = "off") => Due(r, cpc = "off")'

LEMMA DecodeLimitsKept ==
  ASSUME DecodeLimits, known' \subseteq known, QPend' \subseteq QPend, QRun' \subseteq QRun,
         \A r \in (QPend' \cup QRun') \cap known' : fin'[r] = fin[r] /\ out'[r] = out[r],
         \A r \in QRun' \cap known' : Due(r, dpc = "off") => Due(r, dpc = "off")'
  PROVE  DecodeLimits'
<1>1. ASSUME NEW r \in QPend', r \in known'
      PROVE  ~ fin'[r]
  BY <1>1 DEF DecodeLimits
<1>2. ASSUME NEW r \in QRun', r \in known'
      PROVE  ~ fin'[r] /\ (out'[r] < MaxTokens \/ Due(r, dpc = "off")')
  BY <1>2 DEF DecodeLimits
<1> QED
  BY <1>1, <1>2 DEF DecodeLimits

LEMMA CollLimitsKept ==
  ASSUME CollLimits, known' \subseteq known, QCw' \subseteq QCw,
         UNCHANGED <<cwRun, cwStop, cwFin, cwOut>>,
         \A r \in (QCw' \cup cwRun' \cup cwFin') \cap known' :
           fin'[r] = fin[r] /\ path'[r] = path[r],
         \A r \in (cwRun' \ cwStop') \cap known' : Due(r, cpc = "off") => Due(r, cpc = "off")'
  PROVE  CollLimits'
<1>1. ASSUME NEW r \in QCw', r \in known'
      PROVE  path'[r] = "collocated" /\ ~ fin'[r]
  BY <1>1 DEF CollLimits
<1>2. ASSUME NEW r \in cwRun', r \in known'
      PROVE  path'[r] = "collocated" /\ cwOut'[r] <= MaxTokens
  BY <1>2 DEF CollLimits
<1>3. ASSUME NEW r \in cwRun' \ cwStop', r \in known'
      PROVE  ~ fin'[r] /\ (cwOut'[r] < MaxTokens \/ Due(r, cpc = "off")')
  BY <1>3 DEF CollLimits
<1>4. ASSUME NEW r \in cwFin', r \in known'
      PROVE  fin'[r]
  BY <1>4 DEF CollLimits
<1> QED
  BY <1>1, <1>2, <1>3, <1>4 DEF CollLimits

LEMMA LimitsStill ==
  ASSUME Limits, known' \subseteq known, QPend' \subseteq QPend, QRun' \subseteq QRun,
         QCw' \subseteq QCw, UNCHANGED <<path, out, fin, cwRun, cwStop, cwFin, cwOut>>, DueStays
  PROVE  Limits'
<1>1. DecodeLimits'
  BY DecodeLimitsKept DEF Limits, DueStays
<1>2. CollLimits'
  BY CollLimitsKept DEF Limits, DueStays
<1> QED
  BY <1>1, <1>2 DEF Limits, OutputBounded

LEMMA LimitsRoute ==
  ASSUME Limits, Departed, Apart, TypeOK, RouteOne
  PROVE  Limits'
<1> DEFINE e == waiting[pos]
<1>1. /\ e \in QWait /\ known' = known \cup {e}
      /\ out' = [out EXCEPT ![e] = 0] /\ fin' = [fin EXCEPT ![e] = FALSE]
      /\ UNCHANGED <<pc, visit, dpc, cpc, cwRun, cwStop, cwFin, cwOut>>
      /\ QWait \subseteq Requests
  BY RouteSites, SitesTyped DEF RouteOne, decodeVars, Sites
<1>2. \/ /\ path' = [path EXCEPT ![e] = "disaggregated"]
         /\ QPend' = QPend /\ QRun' = QRun /\ QCw' = QCw
      \/ /\ path' = [path EXCEPT ![e] = "collocated"]
         /\ QPend' = QPend /\ QRun' = QRun /\ QCw' = QCw \cup {e}
  BY RouteSites DEF Become
<1>3. e \in Requests /\ e \notin QPend \cup QRun \cup QCw \cup cwRun
  BY <1>1 DEF Apart
<1>4. e \notin cwFin
  BY <1>1, <1>3, NotHere DEF Departed
<1> HIDE DEF e
<1>5. /\ out'[e] = 0 /\ ~ fin'[e] /\ (e \in QCw' => path'[e] = "collocated")
      /\ \A r \in Requests \ {e} : out'[r] = out[r] /\ fin'[r] = fin[r] /\ path'[r] = path[r]
  <2>1. out'[e] = 0 /\ \A r \in Requests \ {e} : out'[r] = out[r]
    BY <1>1, <1>3 DEF TypeOK
  <2>2. ~ fin'[e] /\ \A r \in Requests \ {e} : fin'[r] = fin[r]
    BY <1>1, <1>3, Zenon DEF TypeOK
  <2>3. (e \in QCw' => path'[e] = "collocated") /\ \A r \in Requests \ {e} : path'[r] = path[r]
    BY <1>2, <1>3 DEF TypeOK
  <2> QED
    BY <2>1, <2>2, <2>3
<1>6. known \subseteq Requests /\ MaxTokens \in Nat
  BY SizesAssumption DEF TypeOK
<1>7. \A r : Due(r, dpc = "off")' = Due(r, dpc = "off") /\ Due(r, cpc = "off")' = Due(r, cpc = "off")
  BY <1>1 DEF Due
<1>8. OutputBounded'
  <2>1. ASSUME NEW r \in known'
        PROVE  out'[r] <= MaxTokens
    BY <1>1, <1>5, <1>6, <2>1 DEF Limits, OutputBounded
  <2> QED
    BY <2>1 DEF OutputBounded
<1>9. DecodeLimits'
  <2>1. ASSUME NEW r \in QPend' \cup QRun', r \in known'
        PROVE  r \in known /\ r \in Requests \ {e}
    BY <1>1, <1>2, <1>3, <1>6, <2>1
  <2>2. ASSUME NEW r \in QPend', r \in known'
        PROVE  ~ fin'[r]
    BY <1>2, <1>5, <2>1, <2>2 DEF Limits, DecodeLimits
  <2>3. ASSUME NEW r \in QRun', r \in known'
        PROVE  ~ fin'[r] /\ (out'[r] < MaxTokens \/ Due(r, dpc = "off")')
    BY <1>2, <1>5, <1>7, <2>1, <2>3 DEF Limits, DecodeLimits
  <2> QED
    BY <2>2, <2>3 DEF DecodeLimits
<1>10. CollLimits'
  <2>1. ASSUME NEW r \in QCw' \cup cwRun' \cup cwFin', r \in known', r # e
        PROVE  r \in known /\ r \in Requests \ {e}
    BY <1>1, <1>6, <2>1
  <2>2. ASSUME NEW r \in QCw', r \in known'
        PROVE  path'[r] = "collocated" /\ ~ fin'[r]
    <3>1. CASE r = e
      BY <1>5, <2>2, <3>1
    <3>2. CASE r # e
      BY <1>2, <1>5, <2>1, <2>2, <3>2 DEF Limits, CollLimits
    <3> QED
      BY <3>1, <3>2
  <2>3. ASSUME NEW r \in cwRun', r \in known'
        PROVE  path'[r] = "collocated" /\ cwOut'[r] <= MaxTokens
    BY <1>1, <1>3, <1>5, <2>1, <2>3 DEF Limits, CollLimits
  <2>4. ASSUME NEW r \in cwRun' \ cwStop', r \in known'
        PROVE  ~ fin'[r] /\ (cwOut'[r] < MaxTokens \/ Due(r, cpc = "off")')
    BY <1>1, <1>3, <1>5, <1>7, <2>1, <2>4 DEF Limits, CollLimits
  <2>5. ASSUME NEW r \in cwFin', r \in known'
        PROVE  fin'[r]
    BY <1>1, <1>4, <1>5, <2>1, <2>5 DEF Limits, CollLimits
  <2> QED
    BY <2>2, <2>3, <2>4, <2>5 DEF CollLimits
<1> QED
  BY <1>8, <1>9, <1>10 DEF Limits
LEMMA LimitsFlush ==
  ASSUME Limits, Outs, Threads, Apart, TypeOK, MaxTokens > 1, Flush
  PROVE  Limits'
<1>0. Sites
  BY SitesTyped
<1>1. Become(QWait, QClaim, QPre, {}, QPend \cup (QDone \cap known), QRun, QCw, cwRun)
  BY FlushSites
<1>2. Range(Keep(done, known)) = QDone \cap known
  BY RangeKeep DEF TypeOK, QDone
<1>3. /\ out' = [r \in Requests |-> IF r \in QDone \cap known THEN out[r] + 1 ELSE out[r]]
      /\ UNCHANGED <<known, path, fin, cwRun, cwStop, cwFin, cwOut>>
      /\ pc = "flush"
  BY <1>2 DEF Flush
<1>4. \A r \in QDone \cap known : ~ fin[r] /\ out[r] = 0
  BY DEF Outs, Fresh
<1>5. \A r : ~ Due(r, dpc = "off") /\ ~ Due(r, cpc = "off")
  BY <1>3 DEF Due
<1>6. known \subseteq Requests /\ MaxTokens \in Nat
  BY SizesAssumption DEF TypeOK
<1>7. OutputBounded'
  <2>1. ASSUME NEW r \in known
        PROVE  out'[r] <= MaxTokens
    BY <1>3, <1>4, <1>6, <2>1 DEF Limits, OutputBounded
  <2> QED
    BY <1>3, <2>1 DEF OutputBounded
<1>8. DecodeLimits'
  <2>1. ASSUME NEW r \in QPend', r \in known
        PROVE  ~ fin[r]
    BY <1>1, <1>4, <2>1 DEF Become, Limits, DecodeLimits
  <2>2. ASSUME NEW r \in QRun', r \in known
        PROVE  ~ fin[r] /\ out'[r] < MaxTokens
    <3>1. r \in QRun /\ r \notin QDone /\ r \in Requests
      BY <1>0, <1>1, <2>2 DEF Become, Apart, Sites
    <3>2. out'[r] = out[r]
      BY <1>3, <3>1
    <3> QED
      BY <1>5, <2>2, <3>1, <3>2 DEF Limits, DecodeLimits
  <2> QED
    BY <1>3, <2>1, <2>2 DEF DecodeLimits
<1>9. CollLimits'
  BY <1>1, <1>3, <1>5, CollLimitsKept DEF Become, Limits
<1> QED
  BY <1>7, <1>8, <1>9 DEF Limits

LEMMA LimitsEnforceColl ==
  ASSUME Limits, Outs, Threads, Departed, Apart, TypeOK, MaxTokens > 1, NEW q \in Requests,
         EnforceCollocated(q)
  PROVE  Limits'
<1>0. Sites
  BY SitesTyped
<1>1. Become(QWait, QClaim, QPre, QDone, QPend, QRun, QCw, cwRun)
  BY QuietSites DEF Quiet
<1>2. /\ UNCHANGED <<pc, known, path, cwRun, cwFin, cwOut, dpc, cpc>>
      /\ pc = "enforce" /\ q \in visit /\ path[q] = "collocated" /\ visit' = visit \ {q}
  BY DEF EnforceCollocated, decodeVars
<1>3. \/ /\ q \in cwRun \ cwStop /\ cwOut[q] >= MaxTokens
         /\ out' = [out EXCEPT ![q] = cwOut[q]]
         /\ cwStop' = cwStop \cup {q} /\ fin' = [fin EXCEPT ![q] = TRUE]
      \/ /\ fin[q] \/ q \notin cwRun \ cwStop \/ ~ (cwOut[q] >= MaxTokens)
         /\ UNCHANGED <<out, cwStop, fin>>
  BY DEF EnforceCollocated
<1>4. \A r : r # q => /\ Due(r, dpc = "off")' = Due(r, dpc = "off")
                      /\ Due(r, cpc = "off")' = Due(r, cpc = "off")
  BY <1>2 DEF Due
<1>5. q \notin QRun \cap known /\ q \notin QPend \cap known
  BY <1>2 DEF Outs
<1>6. /\ cwOut \in [Requests -> Nat] /\ MaxTokens \in Nat /\ out \in [Requests -> Nat]
      /\ fin \in [Requests -> BOOLEAN] /\ known \subseteq Requests
  BY SizesAssumption DEF TypeOK
<1>7. \A r \in Requests \ {q} : fin'[r] = fin[r] /\ out'[r] = out[r]
  <2>1. CASE UNCHANGED <<out, cwStop, fin>>
    BY <2>1
  <2>2. CASE out' = [out EXCEPT ![q] = cwOut[q]] /\ fin' = [fin EXCEPT ![q] = TRUE]
    BY <1>6, <2>2, Zenon
  <2> QED
    BY <1>3, <2>1, <2>2
<1>8. DecodeLimits'
  <2>1. \A r \in (QPend' \cup QRun') \cap known' : r \in Requests \ {q}
    BY <1>0, <1>1, <1>2, <1>5, <1>6 DEF Become
  <2>2. \A r \in (QPend' \cup QRun') \cap known' : fin'[r] = fin[r] /\ out'[r] = out[r]
    BY <1>7, <2>1
  <2>3. \A r \in QRun' \cap known' : Due(r, dpc = "off") => Due(r, dpc = "off")'
    BY <1>4, <2>1
  <2> QED
    BY <1>1, <1>2, <2>2, <2>3, DecodeLimitsKept DEF Become, Limits
<1>9. CASE q \notin known
  <2>1. ~ (q \in cwRun \ cwStop) \/ q \notin known
    BY <1>9
  <2>2. \A r \in known : r \in Requests \ {q}
    BY <1>6, <1>9
  <2>3. OutputBounded'
    BY <1>2, <1>7, <2>2 DEF Limits, OutputBounded
  <2>4. CollLimits'
    <3>1. ASSUME NEW r \in QCw', r \in known'
          PROVE  path'[r] = "collocated" /\ ~ fin'[r]
      BY <1>1, <1>2, <1>7, <2>2, <3>1 DEF Become, Limits, CollLimits
    <3>2. ASSUME NEW r \in cwRun', r \in known'
          PROVE  path'[r] = "collocated" /\ cwOut'[r] <= MaxTokens
      BY <1>2, <3>2 DEF Limits, CollLimits
    <3>3. ASSUME NEW r \in cwRun' \ cwStop', r \in known'
          PROVE  ~ fin'[r] /\ (cwOut'[r] < MaxTokens \/ Due(r, cpc = "off")')
      BY <1>2, <1>3, <1>4, <1>7, <2>2, <3>3 DEF Limits, CollLimits
    <3>4. ASSUME NEW r \in cwFin', r \in known'
          PROVE  fin'[r]
      BY <1>2, <1>7, <2>2, <3>4 DEF Limits, CollLimits
    <3> QED
      BY <3>1, <3>2, <3>3, <3>4 DEF CollLimits
  <2> QED
    BY <1>8, <2>3, <2>4 DEF Limits
<1>10. CASE q \in known /\ UNCHANGED <<out, cwStop, fin>>
  <2>1. OutputBounded'
    BY <1>2, <1>10 DEF Limits, OutputBounded
  <2>2. ASSUME NEW r \in (cwRun' \ cwStop') \cap known', Due(r, cpc = "off")
        PROVE  cwOut[r] < MaxTokens \/ Due(r, cpc = "off")'
    <3>1. CASE r # q
      BY <1>4, <2>2, <3>1
    <3>2. CASE r = q
      <4>1. ~ fin[q] /\ q \in cwRun \ cwStop
        BY <1>2, <1>10, <2>2, <3>2 DEF Limits, CollLimits
      <4>2. ~ (cwOut[q] >= MaxTokens)
        <5>1. CASE q \in cwRun \ cwStop /\ cwStop' = cwStop \cup {q}
          BY <1>10, <5>1
        <5> QED
          BY <1>3, <4>1, <5>1
      <4> QED
        BY <1>6, <3>2, <4>2
    <3> QED
      BY <3>1, <3>2
  <2>3. CollLimits'
    <3>1. ASSUME NEW r \in (cwRun' \ cwStop') \cap known'
          PROVE  ~ fin'[r] /\ (cwOut'[r] < MaxTokens \/ Due(r, cpc = "off")')
      BY <1>2, <1>10, <2>2, <3>1 DEF Limits, CollLimits
    <3>2. /\ \A r \in QCw' \cap known' : path'[r] = "collocated" /\ ~ fin'[r]
          /\ \A r \in cwRun' \cap known' : path'[r] = "collocated" /\ cwOut'[r] <= MaxTokens
          /\ \A r \in cwFin' \cap known' : fin'[r]
      BY <1>1, <1>2, <1>10 DEF Become, Limits, CollLimits
    <3> QED
      BY <3>1, <3>2 DEF CollLimits
  <2> QED
    BY <1>8, <2>1, <2>3 DEF Limits
<1>11. CASE /\ q \in known /\ q \in cwRun \ cwStop /\ cwOut[q] >= MaxTokens
            /\ out' = [out EXCEPT ![q] = cwOut[q]]
            /\ cwStop' = cwStop \cup {q} /\ fin' = [fin EXCEPT ![q] = TRUE]
  <2>1. out'[q] = cwOut[q] /\ cwOut[q] <= MaxTokens
    BY <1>6, <1>11 DEF Limits, CollLimits
  <2>2. fin'[q]
    BY <1>6, <1>11, Zenon
  <2>3. q \notin QCw
    BY <1>11 DEF Apart
  <2>4. OutputBounded'
    <3>1. ASSUME NEW r \in known
          PROVE  out'[r] <= MaxTokens
      BY <1>6, <1>7, <2>1, <3>1 DEF Limits, OutputBounded
    <3> QED
      BY <1>2, <3>1 DEF OutputBounded
  <2>5. CollLimits'
    <3>1. ASSUME NEW r \in QCw', r \in known'
          PROVE  path'[r] = "collocated" /\ ~ fin'[r]
      <4>1. r \in Requests \ {q}
        BY <1>1, <1>2, <1>6, <2>3, <3>1 DEF Become
      <4> QED
        BY <1>1, <1>2, <1>7, <3>1, <4>1 DEF Become, Limits, CollLimits
    <3>2. ASSUME NEW r \in cwRun', r \in known'
          PROVE  path'[r] = "collocated" /\ cwOut'[r] <= MaxTokens
      BY <1>2, <3>2 DEF Limits, CollLimits
    <3>3. ASSUME NEW r \in cwRun' \ cwStop', r \in known'
          PROVE  ~ fin'[r] /\ (cwOut'[r] < MaxTokens \/ Due(r, cpc = "off")')
      <4>1. r \in Requests \ {q} /\ r \in cwRun \ cwStop /\ r \in known
        BY <1>2, <1>6, <1>11, <3>3
      <4> QED
        BY <1>2, <1>4, <1>7, <4>1 DEF Limits, CollLimits
    <3>4. ASSUME NEW r \in cwFin', r \in known'
          PROVE  fin'[r]
      <4>1. CASE r = q
        BY <2>2, <4>1
      <4>2. CASE r # q
        BY <1>2, <1>6, <1>7, <3>4, <4>2 DEF Limits, CollLimits
      <4> QED
        BY <4>1, <4>2
    <3> QED
      BY <3>1, <3>2, <3>3, <3>4 DEF CollLimits
  <2> QED
    BY <1>8, <2>4, <2>5 DEF Limits
<1> QED
  BY <1>3, <1>9, <1>10, <1>11
LEMMA LimitsEnforceDis ==
  ASSUME Limits, Outs, Threads, Apart, TypeOK, MaxTokens > 1, NEW q \in Requests,
         EnforceDisaggregated(q)
  PROVE  Limits'
<1>0. Sites
  BY SitesTyped
<1>1. Become(QWait, QClaim, QPre, QDone, QPend, IF Leaves(q) THEN QRun \ {q} ELSE QRun, QCw,
             cwRun)
  BY EnforceSites
<1>2. /\ UNCHANGED <<pc, known, path, out, cwRun, cwStop, cwFin, cwOut, dpc, cpc>>
      /\ pc = "enforce" /\ path[q] = "disaggregated" /\ visit' = visit \ {q}
  BY DEF EnforceDisaggregated, collVars
<1>3. /\ \A r \in Requests \ {q} : fin'[r] = fin[r]
      /\ fin'[q] <=> fin[q] \/ AtLimit(q)
  <2>1. fin' = [fin EXCEPT ![q] = @ \/ AtLimit(q)] /\ fin \in [Requests -> BOOLEAN]
    BY DEF EnforceDisaggregated, TypeOK
  <2> QED
    BY <2>1, Zenon
<1>4. \A r : r # q => /\ Due(r, dpc = "off")' = Due(r, dpc = "off")
                      /\ Due(r, cpc = "off")' = Due(r, cpc = "off")
  BY <1>2 DEF Due
<1>5. out \in [Requests -> Nat] /\ MaxTokens \in Nat /\ known \subseteq Requests
  BY SizesAssumption DEF TypeOK
<1>6. OutputBounded'
  BY <1>2 DEF Limits, OutputBounded
<1>7. DecodeLimits'
  <2>1. ASSUME NEW r \in QPend', r \in known'
        PROVE  ~ fin'[r]
    <3>1. r \in QPend /\ r \in known /\ r \in Requests /\ ~ fin[r] /\ out[r] = 1
      BY <1>0, <1>1, <1>2, <2>1 DEF Become, Sites, Limits, DecodeLimits, Outs
    <3>2. CASE r # q
      BY <1>3, <3>1, <3>2
    <3>3. CASE r = q
      <4>1. ~ AtLimit(q)
        BY <1>5, <3>1, <3>3 DEF AtLimit
      <4> QED
        BY <1>3, <3>1, <3>3, <4>1
    <3> QED
      BY <3>2, <3>3
  <2>2. ASSUME NEW r \in QRun', r \in known'
        PROVE  ~ fin'[r] /\ (out'[r] < MaxTokens \/ Due(r, dpc = "off")')
    <3>1. /\ r \in QRun /\ r \in known /\ r \in Requests
          /\ ~ fin[r] /\ (out[r] < MaxTokens \/ Due(r, dpc = "off"))
      BY <1>0, <1>1, <1>2, <2>2 DEF Become, Sites, Limits, DecodeLimits
    <3>2. CASE r # q
      BY <1>2, <1>3, <1>4, <3>1, <3>2
    <3>3. CASE r = q
      <4>1. ~ AtLimit(q)
        BY <1>1, <2>2, <3>1, <3>3 DEF Become, Leaves, QRun
      <4>2. ~ fin'[q] /\ ~ (out[q] >= MaxTokens)
        BY <1>3, <3>1, <3>3, <4>1 DEF AtLimit
      <4> QED
        BY <1>2, <1>5, <3>1, <3>3, <4>2
    <3> QED
      BY <3>2, <3>3
  <2> QED
    BY <2>1, <2>2 DEF DecodeLimits
<1>8. CollLimits'
  <2>1. ASSUME NEW r \in QCw', r \in known'
        PROVE  path'[r] = "collocated" /\ ~ fin'[r]
    <3>1. r \in Requests \ {q}
      BY <1>0, <1>1, <1>2, <2>1 DEF Become, Sites, Limits, CollLimits
    <3> QED
      BY <1>1, <1>2, <1>3, <2>1, <3>1 DEF Become, Limits, CollLimits
  <2>2. ASSUME NEW r \in cwRun', r \in known'
        PROVE  /\ path'[r] = "collocated" /\ cwOut'[r] <= MaxTokens
               /\ r \in Requests \ {q}
    BY <1>0, <1>2, <2>2 DEF Sites, Limits, CollLimits
  <2>3. ASSUME NEW r \in cwRun' \ cwStop', r \in known'
        PROVE  ~ fin'[r] /\ (cwOut'[r] < MaxTokens \/ Due(r, cpc = "off")')
    BY <1>2, <1>3, <1>4, <2>2, <2>3 DEF Limits, CollLimits
  <2>4. ASSUME NEW r \in cwFin', r \in known'
        PROVE  fin'[r]
    BY <1>2, <1>3, <1>5, <2>4 DEF Limits, CollLimits
  <2> QED
    BY <2>1, <2>2, <2>3, <2>4 DEF CollLimits
<1> QED
  BY <1>6, <1>7, <1>8 DEF Limits

LEMMA LimitsDecodeStart ==
  ASSUME Limits, Outs, Threads, TypeOK, MaxTokens > 1, DecodeStart
  PROVE  Limits'
<1>1. Become(QWait, QClaim, QPre, QDone, QPend \ copied, QRun \cup (QPend \cap copied), QCw,
             cwRun)
  BY DecodeStartSites
<1>2. /\ UNCHANGED <<pc, visit, known, path, out, fin, cpc, cwRun, cwStop, cwFin, cwOut>>
      /\ dpc = "start" /\ pc = "step"
  BY DEF DecodeStart, mainVars, stateVars, collVars, Threads
<1>3. \A r : ~ Due(r, dpc = "off") /\ Due(r, cpc = "off")' = Due(r, cpc = "off")
  BY <1>2 DEF Due
<1>4. OutputBounded'
  BY <1>2 DEF Limits, OutputBounded
<1>5. DecodeLimits'
  <2>1. ASSUME NEW r \in QPend', r \in known
        PROVE  ~ fin[r]
    BY <1>1, <2>1 DEF Become, Limits, DecodeLimits
  <2>2. ASSUME NEW r \in QRun', r \in known
        PROVE  ~ fin[r] /\ out[r] < MaxTokens
    <3>1. CASE r \in QRun
      BY <1>3, <2>2, <3>1 DEF Limits, DecodeLimits
    <3>2. CASE r \in QPend
      BY <2>2, <3>2, SizesAssumption DEF Limits, DecodeLimits, Outs
    <3> QED
      BY <1>1, <2>2, <3>1, <3>2 DEF Become
  <2> QED
    BY <1>2, <2>1, <2>2 DEF DecodeLimits
<1>6. CollLimits'
  BY <1>1, <1>2, <1>3, CollLimitsKept DEF Become, Limits
<1> QED
  BY <1>4, <1>5, <1>6 DEF Limits

LEMMA LimitsEvict ==
  ASSUME Limits, Outs, Threads, Apart, Departed, Once, TypeOK, DecodeEvict
  PROVE  Limits'
<1>0. Sites
  BY SitesTyped
<1> DEFINE e == Head(dwRun)
<1>1. Become(QWait, QClaim, QPre, QDone, QPend, QRun \ {e}, QCw, cwRun) /\ e \in QRun
  BY DecodeEvictSites
<1>2. /\ UNCHANGED <<pc, visit, known, path, out, cpc, cwRun, cwStop, cwFin, cwOut>>
      /\ dpc' = "off" /\ pc = "step" /\ fin' = FinAfter({e})
  BY DEF DecodeEvict, mainVars, collVars, Threads
<1> HIDE DEF e
<1>3. \A r : Due(r, dpc = "off")' /\ Due(r, cpc = "off")' = Due(r, cpc = "off")
  BY <1>2 DEF Due
<1>4. /\ \A r \in Requests \ {e} : fin'[r] <=> fin[r]
      /\ \A r \in Requests : fin[r] => fin'[r]
  BY <1>2, Zenon DEF FinAfter
<1>5. e \notin QPend \cup QCw \cup cwRun /\ known \subseteq Requests
  BY <1>1 DEF Apart, TypeOK
<1>6. OutputBounded'
  BY <1>2 DEF Limits, OutputBounded
<1>7. DecodeLimits'
  <2>1. ASSUME NEW r \in QPend' \cup QRun', r \in known'
        PROVE  r \in (QPend \cup QRun) \cap known /\ ~ fin[r] /\ r \in Requests \ {e}
    BY <1>1, <1>2, <1>5, <2>1 DEF Become, Limits, DecodeLimits
  <2>2. \A r \in (QPend' \cup QRun') \cap known' : ~ fin'[r]
    BY <1>4, <2>1
  <2> QED
    BY <1>3, <2>2 DEF DecodeLimits
<1>8. CollLimits'
  <2>1. ASSUME NEW r \in QCw' \cup cwRun', r \in known'
        PROVE  r \in (QCw \cup cwRun) \cap known /\ (fin'[r] <=> fin[r])
    BY <1>1, <1>2, <1>4, <1>5, <2>1 DEF Become
  <2>2. ASSUME NEW r \in QCw', r \in known'
        PROVE  path'[r] = "collocated" /\ ~ fin'[r]
    BY <1>1, <1>2, <2>1, <2>2 DEF Become, Limits, CollLimits
  <2>3. ASSUME NEW r \in cwRun', r \in known'
        PROVE  path'[r] = "collocated" /\ cwOut'[r] <= MaxTokens
    BY <1>2, <2>3 DEF Limits, CollLimits
  <2>4. ASSUME NEW r \in cwRun' \ cwStop', r \in known'
        PROVE  ~ fin'[r] /\ (cwOut'[r] < MaxTokens \/ Due(r, cpc = "off")')
    BY <1>2, <1>3, <2>1, <2>4 DEF Limits, CollLimits
  <2>5. ASSUME NEW r \in cwFin', r \in known'
        PROVE  fin'[r]
    BY <1>2, <1>4, <1>5, <2>5 DEF Limits, CollLimits
  <2> QED
    BY <2>2, <2>3, <2>4, <2>5 DEF CollLimits
<1> QED
  BY <1>6, <1>7, <1>8 DEF Limits

LEMMA LimitsForward ==
  ASSUME Limits, Outs, Threads, Apart, Departed, TypeOK, MaxTokens > 1, DecodeForward
  PROVE  Limits'
<1>0. Sites
  BY SitesTyped
<1>1. PICK eos, up \in SUBSET Requests : Forwarded(eos, up)
  BY DecodeForwardSites
<1>2. /\ eos \in SUBSET QRun /\ up \in SUBSET QPend
      /\ Become(QWait, QClaim, QPre, QDone, QPend \ up, (QRun \ eos) \cup up, QCw, cwRun)
      /\ out' = [r \in Requests |-> IF r \in QRun \cap known THEN out[r] + 1 ELSE out[r]]
      /\ fin' = FinAfter(eos)
  BY <1>1 DEF Forwarded
<1>3. /\ UNCHANGED <<pc, visit, known, path, cpc, cwRun, cwStop, cwFin, cwOut>>
      /\ dpc = "append" /\ dpc' = "off" /\ pc = "step"
  BY DEF DecodeForward, mainVars, collVars, Threads
<1>4. \A r : /\ ~ Due(r, dpc = "off") /\ Due(r, dpc = "off")'
             /\ Due(r, cpc = "off")' = Due(r, cpc = "off")
  BY <1>3 DEF Due
<1>5. /\ \A r \in Requests \ eos : fin'[r] <=> fin[r]
      /\ \A r \in Requests : fin[r] => fin'[r]
  BY <1>2, Zenon DEF FinAfter
<1>6. known \subseteq Requests /\ MaxTokens \in Nat /\ out \in [Requests -> Nat]
  BY SizesAssumption DEF TypeOK
<1>7. eos \cap QPend = {} /\ eos \cap QCw = {} /\ eos \cap cwRun = {}
  BY <1>2 DEF Apart
<1>8. OutputBounded'
  <2>1. ASSUME NEW r \in known
        PROVE  out'[r] <= MaxTokens
    <3>1. CASE r \in QRun
      <4>1. out[r] < MaxTokens /\ out[r] \in Nat /\ out'[r] = out[r] + 1
        BY <1>2, <1>4, <1>6, <2>1, <3>1 DEF Limits, DecodeLimits
      <4> QED
        BY <1>6, <4>1
    <3>2. CASE r \notin QRun
      BY <1>2, <1>6, <2>1, <3>2 DEF Limits, OutputBounded
    <3> QED
      BY <3>1, <3>2
  <2> QED
    BY <1>3, <2>1 DEF OutputBounded
<1>9. DecodeLimits'
  <2>1. ASSUME NEW r \in QPend' \cup QRun', r \in known'
        PROVE  r \in (QPend \cup QRun) \cap known /\ ~ fin[r] /\ r \in Requests \ eos
    BY <1>2, <1>3, <1>6, <1>7, <2>1 DEF Become, Limits, DecodeLimits
  <2>2. \A r \in (QPend' \cup QRun') \cap known' : ~ fin'[r]
    BY <1>5, <2>1
  <2> QED
    BY <1>4, <2>2 DEF DecodeLimits
<1>10. CollLimits'
  <2>1. ASSUME NEW r \in QCw' \cup cwRun', r \in known'
        PROVE  r \in (QCw \cup cwRun) \cap known /\ (fin'[r] <=> fin[r])
    BY <1>2, <1>3, <1>5, <1>6, <1>7, <2>1 DEF Become
  <2>2. ASSUME NEW r \in QCw', r \in known'
        PROVE  path'[r] = "collocated" /\ ~ fin'[r]
    BY <1>2, <1>3, <2>1, <2>2 DEF Become, Limits, CollLimits
  <2>3. ASSUME NEW r \in cwRun', r \in known'
        PROVE  path'[r] = "collocated" /\ cwOut'[r] <= MaxTokens
    BY <1>3, <2>3 DEF Limits, CollLimits
  <2>4. ASSUME NEW r \in cwRun' \ cwStop', r \in known'
        PROVE  ~ fin'[r] /\ (cwOut'[r] < MaxTokens \/ Due(r, cpc = "off")')
    BY <1>3, <1>4, <2>1, <2>4 DEF Limits, CollLimits
  <2>5. ASSUME NEW r \in cwFin', r \in known'
        PROVE  fin'[r]
    BY <1>3, <1>5, <1>6, <2>5 DEF Limits, CollLimits
  <2> QED
    BY <2>2, <2>3, <2>4, <2>5 DEF CollLimits
<1> QED
  BY <1>8, <1>9, <1>10 DEF Limits
LEMMA LimitsCollocated ==
  ASSUME Limits, Outs, Threads, Apart, Departed, Once, TypeOK, MaxTokens > 1, CollocatedStep
  PROVE  Limits'
<1>0. Sites
  BY SitesTyped
<1>1. PICK first, eos \in SUBSET Requests : Stepped(first, eos)
  BY CollocatedSites
<1> DEFINE live == cwRun \ cwStop
           gone == cwFin \cup (cwRun \cap cwStop)
           new == gone \cap {r \in known : ~ fin[r]}
<1>2. /\ first \in SUBSET QCw /\ eos \in SUBSET live
      /\ Become(QWait, QClaim, QPre, QDone, QPend, QRun, QCw \ first, live \cup first)
      /\ cwOut' = [r \in Requests |->
            IF r \in first THEN 1 ELSE IF r \in live THEN cwOut[r] + 1 ELSE cwOut[r]]
      /\ cwStop' = eos /\ cwFin' = gone
      /\ out' = [r \in Requests |-> IF r \in new THEN cwOut[r] ELSE out[r]]
      /\ fin' = [r \in Requests |-> fin[r] \/ r \in new]
  BY <1>1 DEF Stepped
<1>3. /\ UNCHANGED <<pc, visit, known, path, dpc>>
      /\ cpc = "start" /\ cpc' = "off" /\ pc = "step"
  BY DEF CollocatedStep, mainVars, decodeVars, Threads
<1>4. \A r : /\ ~ Due(r, cpc = "off") /\ Due(r, cpc = "off")'
             /\ Due(r, dpc = "off")' = Due(r, dpc = "off")
  BY <1>3 DEF Due
<1>5. known \subseteq Requests /\ MaxTokens \in Nat /\ cwOut \in [Requests -> Nat]
  BY SizesAssumption DEF TypeOK
<1>6. /\ new \subseteq cwRun \cap cwStop
      /\ new \cap (QPend \cup QRun \cup QCw \cup live) = {}
      /\ first \cap new = {}
      /\ \A r \in Requests \ new : (fin'[r] <=> fin[r]) /\ out'[r] = out[r]
      /\ \A r \in Requests \cap new : fin'[r] /\ out'[r] = cwOut[r]
  <2>1. new \subseteq cwRun \cap cwStop
    <3>1. \A r \in cwFin \cap known : fin[r]
      BY DEF Limits, CollLimits
    <3> QED
      BY <3>1
  <2>2. new \cap (QPend \cup QRun \cup QCw \cup live) = {}
    BY <2>1 DEF Apart
  <2>3. first \cap new = {}
    BY <1>2, <2>2
  <2> HIDE DEF new
  <2>4. \A r \in Requests \ new : (fin'[r] <=> fin[r])
    BY <1>2, Zenon
  <2>5. \A r \in Requests \cap new : fin'[r]
    BY <1>2, Zenon
  <2>6. \A r \in Requests : out'[r] = IF r \in new THEN cwOut[r] ELSE out[r]
    BY <1>2
  <2> QED
    BY <2>1, <2>2, <2>3, <2>4, <2>5, <2>6
<1>7. /\ \A r \in first : cwOut'[r] = 1
      /\ \A r \in live : cwOut'[r] = IF r \in first THEN 1 ELSE cwOut[r] + 1
  BY <1>0, <1>2 DEF Sites
<1>8. gone = cwFin \cup (cwRun \cap cwStop) /\ live = cwRun \ cwStop
      /\ \A r \in gone \cap known : r \in new \/ fin[r]
  OBVIOUS
<1> HIDE DEF live, gone, new
<1>9. OutputBounded'
  <2>1. ASSUME NEW r \in known
        PROVE  out'[r] <= MaxTokens
    <3>1. CASE r \in new
      BY <1>5, <1>6, <2>1, <3>1 DEF Limits, CollLimits
    <3>2. CASE r \notin new
      BY <1>5, <1>6, <2>1, <3>2 DEF Limits, OutputBounded
    <3> QED
      BY <3>1, <3>2
  <2> QED
    BY <1>3, <2>1 DEF OutputBounded
<1>10. DecodeLimits'
  <2>1. ASSUME NEW r \in QPend' \cup QRun', r \in known'
        PROVE  r \in (QPend \cup QRun) \cap known /\ r \in Requests \ new
    BY <1>2, <1>3, <1>5, <1>6, <2>1 DEF Become
  <2>2. ASSUME NEW r \in QPend', r \in known'
        PROVE  ~ fin'[r]
    BY <1>2, <1>6, <2>1, <2>2 DEF Become, Limits, DecodeLimits
  <2>3. ASSUME NEW r \in QRun', r \in known'
        PROVE  ~ fin'[r] /\ (out'[r] < MaxTokens \/ Due(r, dpc = "off")')
    BY <1>2, <1>4, <1>6, <2>1, <2>3 DEF Become, Limits, DecodeLimits
  <2> QED
    BY <2>2, <2>3 DEF DecodeLimits
<1>11. ASSUME NEW r \in live \cup first, r \in known
       PROVE  /\ path[r] = "collocated" /\ ~ fin[r] /\ r \in Requests \ new
              /\ cwOut'[r] <= MaxTokens
  <2>1. CASE r \in first
    <3>1. path[r] = "collocated" /\ ~ fin[r] /\ r \in Requests \ new
      BY <1>2, <1>5, <1>6, <1>11, <2>1 DEF Limits, CollLimits
    <3> QED
      BY <1>5, <1>7, <2>1, <3>1
  <2>2. CASE r \in live /\ r \notin first
    <3>1. path[r] = "collocated" /\ ~ fin[r] /\ r \in Requests \ new /\ cwOut[r] < MaxTokens
      BY <1>4, <1>5, <1>6, <1>8, <1>11, <2>2 DEF Limits, CollLimits
    <3>2. cwOut'[r] = cwOut[r] + 1 /\ cwOut[r] \in Nat
      BY <1>5, <1>7, <2>2, <3>1
    <3> QED
      BY <1>5, <3>1, <3>2
  <2> QED
    BY <1>11, <2>1, <2>2
<1>12. CollLimits'
  <2>1. ASSUME NEW r \in QCw', r \in known'
        PROVE  path'[r] = "collocated" /\ ~ fin'[r]
    <3>1. r \in QCw \cap known /\ r \in Requests \ new
      BY <1>2, <1>3, <1>5, <1>6, <2>1 DEF Become
    <3> QED
      BY <1>3, <1>6, <3>1 DEF Limits, CollLimits
  <2>2. ASSUME NEW r \in cwRun', r \in known'
        PROVE  path'[r] = "collocated" /\ cwOut'[r] <= MaxTokens /\ ~ fin'[r]
    <3>1. r \in live \cup first
      BY <1>2, <2>2 DEF Become
    <3> QED
      BY <1>3, <1>6, <1>11, <2>2, <3>1
  <2>3. ASSUME NEW r \in cwFin', r \in known'
        PROVE  fin'[r]
    BY <1>2, <1>3, <1>5, <1>6, <1>8, <2>3
  <2> QED
    BY <1>4, <2>1, <2>2, <2>3 DEF CollLimits
<1> QED
  BY <1>9, <1>10, <1>12 DEF Limits

LEMMA LimitsNext ==
  ASSUME Limits, Outs, Threads, Apart, Departed, Once, TypeOK, Grouped, MaxTokens > 1, Next
  PROVE  Limits'
<1>1. CASE \E r \in Requests : AddRequest(r) \/ CopyDone(r)
  <2>1. DueStays
    BY <1>1 DEF DueStays, Due, AddRequest, CopyDone, mainVars, decodeVars, collVars
  <2>2. /\ UNCHANGED <<known, path, out, fin, cwRun, cwStop, cwFin, cwOut, pending, dwRun, cwWait>>
    BY <1>1 DEF AddRequest, CopyDone, stateVars, decodeVars, collVars
  <2> QED
    BY <2>1, <2>2, LimitsStill, SameSites
<1>2. CASE CheckWaiting \/ CheckStates \/ CheckRest \/ Dispatch \/ RouteEnd \/ Clear
           \/ (\E w \in Workers : Fire(w)) \/ Requeue \/ Join \/ EnforceEnd \/ EnforceCrash
  <2>1. /\ UNCHANGED <<path, out, fin, cwRun, cwStop, cwFin, cwOut, pending, dwRun, cwWait,
                       dpc, cpc>>
        /\ known' \subseteq known
    BY <1>2 DEF CheckWaiting, CheckStates, CheckRest, Dispatch, RouteEnd, Clear, Fire, Requeue,
       Join, EnforceEnd, EnforceCrash, stateVars, decodeVars, collVars
  <2>2. DueStays
    <3>1. CASE CheckWaiting \/ CheckStates \/ CheckRest \/ Dispatch \/ RouteEnd \/ Clear
               \/ (\E w \in Workers : Fire(w)) \/ Requeue
      BY <2>1, <3>1 DEF DueStays, Due, CheckWaiting, CheckStates, CheckRest, Dispatch,
         RouteEnd, Clear, Fire, Requeue
    <3>2. CASE Join \/ EnforceEnd \/ EnforceCrash
      BY <2>1, <3>2 DEF DueStays, Due, Join, EnforceEnd, EnforceCrash
    <3> QED
      BY <1>2, <3>1, <3>2
  <2> QED
    BY <2>1, <2>2, LimitsStill, SameSites
<1>3. CASE RouteOne
  BY <1>3, LimitsRoute
<1>4. CASE Flush
  BY <1>4, LimitsFlush
<1>5. CASE \E r \in Requests : EnforceCollocated(r) \/ EnforceDisaggregated(r)
  BY <1>5, LimitsEnforceColl, LimitsEnforceDis
<1>6. ASSUME NEW w \in Workers, Prefill(w)
      PROVE  Limits'
  <2>1. /\ UNCHANGED <<path, out, fin, cwRun, cwStop, cwFin, cwOut, pending, dwRun, cwWait,
                       dpc, cpc, pc, visit>>
        /\ known' \subseteq known
    BY <1>6 DEF Prefill, PrefillCheck, PrefillPop, PrefillOOM, PrefillTable, PrefillForward,
       PrefillRequeue, PrefillForget, mainVars, stateVars, decodeVars, collVars
  <2>2. DueStays
    BY <2>1 DEF DueStays, Due
  <2> QED
    BY <2>1, <2>2, LimitsStill, SameSites
<1>7. CASE DecodeStart
  BY <1>7, LimitsDecodeStart
<1>8. CASE DecodeAppend
  <2>1. UNCHANGED <<known, path, out, fin, cwRun, cwStop, cwFin, cwOut, pending, dwRun, cwWait,
                    dpc, cpc, pc, visit>>
    BY <1>8 DEF DecodeAppend, mainVars, stateVars, collVars
  <2>2. DueStays
    BY <2>1 DEF DueStays, Due
  <2> QED
    BY <2>1, <2>2, LimitsStill, SameSites
<1>9. CASE DecodeEvict \/ DecodeForward
  BY <1>9, LimitsEvict, LimitsForward
<1>10. CASE CollocatedStep
  BY <1>10, LimitsCollocated
<1> QED
  BY <1>1, <1>2, <1>3, <1>4, <1>5, <1>6, <1>7, <1>8, <1>9, <1>10 DEF Next, Main, Decode

LimInd == OutInd /\ (MaxTokens > 1 => Limits)

LEMMA InitLimited == Init => LimInd
<1> SUFFICES ASSUME Init
             PROVE  LimInd
  OBVIOUS
<1>1. OutInd
  BY InitInd, InitNoted DEF OutInd
<1>2. known = {}
  BY DEF Init
<1>3. Limits
  BY <1>2 DEF Limits, OutputBounded, DecodeLimits, CollLimits
<1> QED
  BY <1>1, <1>3 DEF LimInd

LEMMA NextLimited == LimInd /\ [Next]_vars => LimInd'
<1> SUFFICES ASSUME LimInd, [Next]_vars
             PROVE  LimInd'
  OBVIOUS
<1>1. OutInd'
  BY NextNoted DEF LimInd
<1>2. ASSUME MaxTokens > 1
      PROVE  Limits'
  <2>1. TypeOK /\ Grouped /\ ServedOnce /\ Outs /\ Threads /\ Departed /\ Limits
    BY <1>2 DEF LimInd, OutInd, Ind, Noted
  <2>2. Apart /\ Once
    BY <2>1, ApartNow, OnceNow
  <2>3. CASE Next
    BY <1>2, <2>1, <2>2, <2>3, LimitsNext
  <2>4. CASE UNCHANGED vars
    <3>1. UNCHANGED <<known, path, out, fin, cwRun, cwStop, cwFin, cwOut, pending, dwRun,
                      cwWait, dpc, cpc, pc, visit>>
      BY <2>4 DEF vars, mainVars, stateVars, decodeVars, collVars
    <3>2. DueStays
      BY <3>1 DEF DueStays, Due
    <3> QED
      BY <2>1, <3>1, <3>2, LimitsStill, SameSites
  <2> QED
    BY <2>3, <2>4
<1> QED
  BY <1>1, <1>2 DEF LimInd

LEMMA AlwaysLimited == Spec => []LimInd
BY InitLimited, NextLimited, PTL DEF Spec

(* With max_new_tokens above one no request has more tokens than that, on  *)
(* either path (_enforce_max_tokens runs after each step, when the threads *)
(* are joined).  With max_new_tokens = 1 a request may get a second token: *)
(* the token of the prefill is not checked before the first decode step.   *)
THEOREM LengthLimited == MaxTokens > 1 => (Spec => []OutputBounded)
<1> SUFFICES ASSUME MaxTokens > 1
             PROVE  Spec => []OutputBounded
  OBVIOUS
<1>1. LimInd => OutputBounded
  BY DEF LimInd, Limits
<1> QED
  BY <1>1, AlwaysLimited, PTL
=============================================================================
