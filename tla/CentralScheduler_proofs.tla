------------------------ MODULE CentralScheduler_proofs ------------------------
(***************************************************************************)
(* Theorems about CentralScheduler, for any requests, workers, routes and  *)
(* pool: types, no block given back twice, nobody served twice.            *)
(***************************************************************************)
EXTENDS CentralScheduler, FiniteSetTheorems, WellFoundedInduction, TLAPS

(* Facts about Sum.                                                        *)
LEMMA SumNat ==
  ASSUME NEW S, IsFiniteSet(S), NEW f, \A x \in S : f[x] \in Nat
  PROVE  IsFiniteSet(Things(f, S)) /\ Sum(f, S) \in Nat
<1> DEFINE part == [x \in S |-> {x} \X (1 .. f[x])]
           Parts == {{x} \X (1 .. f[x]) : x \in S}
<1>1. part \in Surjection(S, Parts)
  BY DEF Surjection
<1>2. IsFiniteSet(Parts)
  BY <1>1, FS_Surjection, Zenon
<1>3. \A T \in Parts : IsFiniteSet(T)
  <2> TAKE T \in Parts
  <2>1. PICK x \in S : T = {x} \X (1 .. f[x])
    OBVIOUS
  <2>2. IsFiniteSet({x})
    BY FS_Singleton
  <2>3. 1 \in Int /\ f[x] \in Int
    OBVIOUS
  <2>4. IsFiniteSet(1 .. f[x])
    BY <2>3, FS_Interval, Zenon
  <2> QED
    BY <2>1, <2>2, <2>4, FS_Product, Zenon
<1>4. IsFiniteSet(UNION Parts)
  BY <1>2, <1>3, FS_UNION, Zenon
<1> QED
  BY <1>4, FS_CardinalityType DEF Sum, Things

LEMMA SumSame ==
  ASSUME NEW S, NEW f, NEW g, \A x \in S : f[x] = g[x]
  PROVE  Sum(f, S) = Sum(g, S)
<1>1. Things(f, S) = Things(g, S)
  BY DEF Things
<1> QED
  BY <1>1 DEF Sum

LEMMA SumSplit ==
  ASSUME NEW S, IsFiniteSet(S), NEW f, \A x \in S : f[x] \in Nat, NEW A \in SUBSET S
  PROVE  /\ Sum(f, S) = Sum(f, A) + Sum(f, S \ A)
         /\ Sum(f, A) \in Nat /\ Sum(f, S \ A) \in Nat
<1>1. IsFiniteSet(A) /\ IsFiniteSet(S \ A)
  BY FS_Subset, FS_Difference
<1>2. /\ IsFiniteSet(Things(f, A)) /\ Sum(f, A) \in Nat
      /\ IsFiniteSet(Things(f, S \ A)) /\ Sum(f, S \ A) \in Nat
  BY <1>1, SumNat
<1>3. Things(f, S) = Things(f, A) \cup Things(f, S \ A)
  BY DEF Things
<1>4. Things(f, A) \cap Things(f, S \ A) = {}
  BY DEF Things
<1>5. Cardinality(Things(f, A) \cap Things(f, S \ A)) = 0
  BY <1>4, FS_EmptySet
<1>6. Cardinality(Things(f, A) \cup Things(f, S \ A)) =
        Cardinality(Things(f, A)) + Cardinality(Things(f, S \ A))
        - Cardinality(Things(f, A) \cap Things(f, S \ A))
  BY <1>2, FS_Union, Zenon
<1> QED
  BY <1>2, <1>3, <1>5, <1>6 DEF Sum

LEMMA SumNone ==
  ASSUME NEW S, NEW f, \A x \in S : f[x] = 0
  PROVE  Sum(f, S) = 0
<1>1. \A x \in S : 1 .. f[x] = {}
  OBVIOUS
<1>2. Things(f, S) = {}
  BY <1>1 DEF Things
<1> QED
  BY <1>2, FS_EmptySet DEF Sum

LEMMA SumOne ==
  ASSUME NEW x, NEW f, f[x] \in Nat
  PROVE  Sum(f, {x}) = f[x]
<1>1. Things(f, {x}) = {x} \X (1 .. f[x])
  BY DEF Things
<1>2. IsFiniteSet({x}) /\ Cardinality({x}) = 1
  BY FS_Singleton, Zenon
<1>3. 1 \in Int /\ f[x] \in Int /\ (IF 1 > f[x] THEN 0 ELSE f[x] - 1 + 1) = f[x]
  OBVIOUS
<1>4. IsFiniteSet(1 .. f[x]) /\ Cardinality(1 .. f[x]) = f[x]
  BY <1>3, FS_Interval, Zenon
<1>5. Cardinality({x} \X (1 .. f[x])) = Cardinality({x}) * Cardinality(1 .. f[x])
  BY <1>2, <1>4, FS_Product, Zenon
<1>6. 1 * f[x] = f[x]
  OBVIOUS
<1> QED
  BY <1>1, <1>2, <1>4, <1>5, <1>6 DEF Sum

(* One of the numbers changes.                                             *)
LEMMA SumUpdate ==
  ASSUME NEW S, IsFiniteSet(S), NEW f, NEW g, NEW x \in S,
         \A y \in S : f[y] \in Nat, g[x] \in Nat, \A y \in S \ {x} : g[y] = f[y]
  PROVE  /\ Sum(f, S) \in Nat /\ Sum(g, S) \in Nat
         /\ Sum(g, S) = Sum(f, S) - f[x] + g[x]
         /\ f[x] <= Sum(f, S)
<1>0. {x} \in SUBSET S /\ f[x] \in Nat /\ g[x] \in Nat
  OBVIOUS
<1>1. /\ Sum(f, S) = Sum(f, {x}) + Sum(f, S \ {x})
      /\ Sum(f, {x}) = f[x] /\ Sum(f, S \ {x}) \in Nat
  BY <1>0, SumSplit, SumOne, Zenon
<1>2. \A y \in S : g[y] \in Nat
  OBVIOUS
<1>3. Sum(g, S) = Sum(g, {x}) + Sum(g, S \ {x}) /\ Sum(g, {x}) = g[x]
  BY <1>0, <1>2, SumSplit, SumOne, Zenon
<1>4. Sum(g, S \ {x}) = Sum(f, S \ {x})
  BY SumSame, Zenon
<1> QED
  BY <1>0, <1>1, <1>3, <1>4
-----------------------------------------------------------------------------
(* Facts about Occurs.                                                     *)
LEMMA UnionBound ==
  ASSUME NEW A, IsFiniteSet(A), NEW B, IsFiniteSet(B)
  PROVE  /\ IsFiniteSet(A \cup B)
         /\ Cardinality(A \cup B) \in Nat
         /\ Cardinality(A \cup B) <= Cardinality(A) + Cardinality(B)
<1>1. /\ IsFiniteSet(A \cup B)
      /\ Cardinality(A \cup B) = Cardinality(A) + Cardinality(B) - Cardinality(A \cap B)
  BY FS_Union, Zenon
<1>2. IsFiniteSet(A \cap B)
  BY FS_Intersection, Zenon
<1>3. /\ Cardinality(A) \in Nat /\ Cardinality(B) \in Nat
      /\ Cardinality(A \cap B) \in Nat /\ Cardinality(A \cup B) \in Nat
  BY <1>1, <1>2, FS_CardinalityType, Zenon
<1> QED
  BY <1>1, <1>3

LEMMA OccursNat ==
  ASSUME NEW r, NEW T, NEW q \in Seq(T), NEW n \in Nat
  PROVE  IsFiniteSet(Spots(r, q, n)) /\ Occurs(r, q, n) \in Nat
<1>1. Len(q) \in Nat /\ IsFiniteSet(n + 1 .. Len(q))
  BY FS_Interval
<1>2. IsFiniteSet(Spots(r, q, n))
  BY <1>1, FS_Subset DEF Spots
<1> QED
  BY <1>2, FS_CardinalityType DEF Occurs

LEMMA OccursNone ==
  ASSUME NEW r
  PROVE  Occurs(r, <<>>, 0) = 0
<1>1. Spots(r, <<>>, 0) = {}
  BY DEF Spots
<1> QED
  BY <1>1, FS_EmptySet DEF Occurs

(* The loop passes element n + 1.                                          *)
LEMMA OccursPassed ==
  ASSUME NEW r, NEW T, NEW q \in Seq(T), NEW n \in Nat, n < Len(q)
  PROVE  Occurs(r, q, n + 1) = Occurs(r, q, n) - (IF q[n + 1] = r THEN 1 ELSE 0)
<1>1. Len(q) \in Nat
  OBVIOUS
<1>2. Spots(r, q, n + 1) = Spots(r, q, n) \ {n + 1}
  BY <1>1 DEF Spots
<1>3. n + 1 \in Spots(r, q, n) <=> q[n + 1] = r
  BY <1>1 DEF Spots
<1>4. IsFiniteSet(Spots(r, q, n)) /\ Cardinality(Spots(r, q, n)) \in Nat
  BY OccursNat DEF Occurs
<1>5. Cardinality(Spots(r, q, n) \ {n + 1}) =
        IF n + 1 \in Spots(r, q, n) THEN Cardinality(Spots(r, q, n)) - 1
                                    ELSE Cardinality(Spots(r, q, n))
  BY <1>4, FS_RemoveElement, Zenon
<1>6. CASE q[n + 1] = r
  <2>1. Cardinality(Spots(r, q, n + 1)) = Cardinality(Spots(r, q, n)) - 1
    BY <1>2, <1>3, <1>5, <1>6, Zenon
  <2> QED
    BY <2>1, <1>6 DEF Occurs
<1>7. CASE q[n + 1] # r
  <2>1. Cardinality(Spots(r, q, n + 1)) = Cardinality(Spots(r, q, n))
    BY <1>2, <1>3, <1>5, <1>7, Zenon
  <2>2. Cardinality(Spots(r, q, n)) = Cardinality(Spots(r, q, n)) - 0
    BY <1>4
  <2> QED
    BY <2>1, <2>2, <1>7 DEF Occurs
<1> QED
  BY <1>6, <1>7

LEMMA OccursAppend ==
  ASSUME NEW r, NEW T, NEW q \in Seq(T), NEW e \in T, NEW n \in Nat
  PROVE  Occurs(r, Append(q, e), n) <= Occurs(r, q, n) + (IF e = r THEN 1 ELSE 0)
<1> DEFINE a == Append(q, e)
<1>1. /\ Len(q) \in Nat /\ a \in Seq(T) /\ Len(a) = Len(q) + 1
      /\ a[Len(q) + 1] = e /\ \A i \in 1 .. Len(q) : a[i] = q[i]
  OBVIOUS
<1> HIDE DEF a
<1>2. Spots(r, a, n) \subseteq
        Spots(r, q, n) \cup (IF e = r THEN {Len(q) + 1} ELSE {})
  BY <1>1 DEF Spots
<1>3. IsFiniteSet(Spots(r, q, n)) /\ Cardinality(Spots(r, q, n)) \in Nat
  BY OccursNat DEF Occurs
<1>4. IsFiniteSet(Spots(r, a, n)) /\ Cardinality(Spots(r, a, n)) \in Nat
  BY <1>1, OccursNat DEF Occurs
<1>5. /\ IsFiniteSet(Spots(r, q, n) \cup {Len(q) + 1})
      /\ Cardinality(Spots(r, q, n) \cup {Len(q) + 1}) <= Cardinality(Spots(r, q, n)) + 1
  <2>1. IsFiniteSet({Len(q) + 1}) /\ Cardinality({Len(q) + 1}) = 1
    BY FS_Singleton, Zenon
  <2> QED
    BY <1>3, <2>1, UnionBound
<1>6. CASE e = r
  <2>1. Cardinality(Spots(r, a, n)) <= Cardinality(Spots(r, q, n) \cup {Len(q) + 1})
    BY <1>2, <1>5, <1>6, FS_Subset
  <2>2. Cardinality(Spots(r, q, n) \cup {Len(q) + 1}) \in Nat
    BY <1>5, FS_CardinalityType
  <2> QED
    BY <2>1, <2>2, <1>3, <1>4, <1>5, <1>6 DEF a, Occurs
<1>7. CASE e # r
  <2>1. Cardinality(Spots(r, a, n)) <= Cardinality(Spots(r, q, n))
    BY <1>2, <1>3, <1>7, FS_Subset
  <2> QED
    BY <2>1, <1>3, <1>7 DEF a, Occurs
<1> QED
  BY <1>6, <1>7

(* Elements of t come to the end of q; the spots of a function of theirs.  *)
LEMMA OccursConcat ==
  ASSUME NEW r, NEW T, NEW q \in Seq(T), NEW t \in Seq(T), NEW n \in Nat
  PROVE  Occurs(r, q \o t, n) <= Occurs(r, q, n) + Occurs(r, t, 0)
<1> DEFINE c == q \o t
           New == {i \in Len(q) + 1 .. Len(q) + Len(t) : c[i] = r}
           back == [i \in New |-> i - Len(q)]
<1>1. /\ Len(q) \in Nat /\ Len(t) \in Nat /\ c \in Seq(T) /\ Len(c) = Len(q) + Len(t)
      /\ \A i \in 1 .. Len(q) : c[i] = q[i]
      /\ \A i \in Len(q) + 1 .. Len(q) + Len(t) : c[i] = t[i - Len(q)]
  OBVIOUS
<1> HIDE DEF c
<1>2. Spots(r, c, n) \subseteq Spots(r, q, n) \cup New
  BY <1>1 DEF Spots
<1>3. back \in Injection(New, Spots(r, t, 0))
  BY <1>1 DEF Injection, IsInjective, Spots
<1>4. /\ IsFiniteSet(Spots(r, q, n)) /\ Cardinality(Spots(r, q, n)) \in Nat
      /\ IsFiniteSet(Spots(r, t, 0)) /\ Cardinality(Spots(r, t, 0)) \in Nat
  BY OccursNat DEF Occurs
<1>5. IsFiniteSet(New) /\ Cardinality(New) <= Cardinality(Spots(r, t, 0))
  BY <1>3, <1>4, FS_Injection, Zenon
<1>6. Cardinality(New) \in Nat
  BY <1>5, FS_CardinalityType
<1> HIDE DEF New
<1>7. /\ IsFiniteSet(Spots(r, q, n) \cup New)
      /\ Cardinality(Spots(r, q, n) \cup New) \in Nat
      /\ Cardinality(Spots(r, q, n) \cup New) <= Cardinality(Spots(r, q, n)) + Cardinality(New)
  BY <1>4, <1>5, UnionBound, Zenon
<1>8. /\ Cardinality(Spots(r, c, n)) \in Nat
      /\ Cardinality(Spots(r, c, n)) <= Cardinality(Spots(r, q, n) \cup New)
  BY <1>2, <1>7, FS_Subset, FS_CardinalityType
<1> QED
  BY <1>4, <1>5, <1>6, <1>7, <1>8 DEF c, Occurs

LEMMA OccursTail ==
  ASSUME NEW r, NEW T, NEW q \in Seq(T), q # <<>>
  PROVE  /\ Tail(q) \in Seq(T) /\ Head(q) \in T
         /\ Occurs(r, Tail(q), 0) <= Occurs(r, q, 0) - (IF Head(q) = r THEN 1 ELSE 0)
<1> DEFINE t == Tail(q)
           on == [i \in Spots(r, t, 0) |-> i + 1]
<1>1. /\ Len(q) \in Nat /\ Len(q) > 0 /\ t \in Seq(T) /\ Len(t) = Len(q) - 1
      /\ \A i \in 1 .. Len(q) - 1 : t[i] = q[i + 1]
      /\ Head(q) = q[1] /\ Head(q) \in T
  OBVIOUS
<1> HIDE DEF t
<1>2. on \in Injection(Spots(r, t, 0), Spots(r, q, 1))
  BY <1>1 DEF Injection, IsInjective, Spots
<1>3. IsFiniteSet(Spots(r, q, 1))
  BY OccursNat DEF Spots
<1>4. Occurs(r, t, 0) <= Occurs(r, q, 1)
  BY <1>2, <1>3, FS_Injection, Zenon DEF Occurs
<1>5. Occurs(r, q, 1) = Occurs(r, q, 0) - (IF q[1] = r THEN 1 ELSE 0)
  <2>1. Occurs(r, q, 0 + 1) = Occurs(r, q, 0) - (IF q[0 + 1] = r THEN 1 ELSE 0)
    BY <1>1, OccursPassed, 0 \in Nat, 0 < Len(q), SMT
  <2> QED
    BY <2>1, 0 + 1 = 1
<1>6. Occurs(r, t, 0) \in Nat /\ Occurs(r, q, 0) \in Nat
  BY <1>1, OccursNat
<1> QED
  BY <1>1, <1>4, <1>5, <1>6 DEF t
-----------------------------------------------------------------------------
(* Keep takes positions of q that differ, each with an element of S.       *)
LEMMA Least ==
  ASSUME NEW K \in SUBSET Nat, K # {}
  PROVE  \E i \in K : \A j \in K : i <= j
<1> DEFINE R == OpToRel(<, Nat)
<1>1. IsWellFoundedOn(R, Nat)
  BY NatLessThanWellFounded
<1>2. \A x, y \in Nat : y < x => <<y, x>> \in R
  BY DEF OpToRel
<1> HIDE DEF R
<1>3. PICK i \in K : \A j \in K : <<j, i>> \notin R
  BY <1>1, WFMin
<1>4. \A j \in K : ~ (j < i)
  BY <1>2, <1>3
<1> QED
  BY <1>4

LEMMA RankFound ==
  ASSUME NEW K \in SUBSET Nat, IsFiniteSet(K), NEW n \in 1 .. Cardinality(K)
  PROVE  \E i \in K : Rank(K, i) = n
<1> DEFINE Below(i) == {j \in K : j <= i}
           Missing == {m \in 1 .. Cardinality(K) : \A i \in K : Rank(K, i) # m}
<1>1. Cardinality(K) \in Nat
  BY FS_CardinalityType
<1>2. \A i \in K : IsFiniteSet(Below(i)) /\ Rank(K, i) = Cardinality(Below(i))
  BY FS_Subset DEF Rank
<1>3. SUFFICES ASSUME Missing # {}
               PROVE  FALSE
  OBVIOUS
<1>4. PICK m \in Missing : \A k \in Missing : m <= k
  <2>1. Missing \in SUBSET Nat
    BY <1>1
  <2> QED
    BY <1>3, <2>1, Least, Zenon
<1>5. m \in Nat /\ 1 <= m /\ m <= Cardinality(K)
  BY <1>1
(* The set that rank m - 1 reaches, and the least element beyond it.       *)
<1>6. \E B \in SUBSET K : /\ Cardinality(B) = m - 1
                          /\ \A i \in B, j \in K : j <= i => j \in B
  <2>1. CASE m = 1
    <3>1. Cardinality({}) = m - 1
      BY <2>1, FS_EmptySet
    <3> QED
      BY <3>1
  <2>2. CASE m # 1
    <3>1. m - 1 \in 1 .. Cardinality(K) /\ m - 1 \notin Missing
      BY <1>1, <1>4, <1>5, <2>2
    <3>2. PICK i \in K : Rank(K, i) = m - 1
      BY <3>1
    <3>3. Cardinality(Below(i)) = m - 1
      BY <1>2, <3>2
    <3> QED
      BY <3>3
  <2> QED
    BY <2>1, <2>2
<1>7. PICK B \in SUBSET K : /\ Cardinality(B) = m - 1
                            /\ \A i \in B, j \in K : j <= i => j \in B
  BY <1>6
<1>8. IsFiniteSet(B)
  BY FS_Subset
<1>9. K \ B # {}
  <2>1. SUFFICES ASSUME K = B
                 PROVE  FALSE
    OBVIOUS
  <2> QED
    BY <2>1, <1>1, <1>5, <1>7
<1>10. PICK i \in K \ B : \A j \in K \ B : i <= j
  BY <1>9, Least
<1>11. Below(i) = B \cup {i}
  <2>1. ASSUME NEW j \in K
        PROVE  j <= i <=> j \in B \/ j = i
    <3>1. i \in Nat /\ j \in Nat /\ i \notin B
      OBVIOUS
    <3>2. j \in B => ~ (i <= j)
      BY <1>7, <3>1
    <3>3. j \notin B => i <= j
      BY <1>10
    <3> QED
      BY <3>1, <3>2, <3>3
  <2> QED
    BY <2>1
<1>12. Cardinality(B \cup {i}) = Cardinality(B) + 1
  BY <1>8, <1>10, FS_AddElement
<1>13. Rank(K, i) = m
  BY <1>2, <1>5, <1>7, <1>10, <1>11, <1>12
<1> QED
  BY <1>4, <1>10, <1>13

LEMMA KeepFrom ==
  ASSUME NEW T, NEW q \in Seq(T), NEW S
  PROVE  \E from \in [1 .. Len(Keep(q, S)) -> Kept(q, S)] :
           /\ \A n \in 1 .. Len(Keep(q, S)) : Keep(q, S)[n] = q[from[n]]
           /\ \A n, m \in 1 .. Len(Keep(q, S)) : from[n] = from[m] => n = m
           /\ Keep(q, S) \in Seq(T)
<1> DEFINE K == Kept(q, S)
           k == Keep(q, S)
           from == [n \in 1 .. Cardinality(K) |-> CHOOSE i \in K : Rank(K, i) = n]
<1>1. K \in SUBSET Nat /\ K \subseteq DOMAIN q /\ DOMAIN q = 1 .. Len(q) /\ Len(q) \in Nat
  BY DEF Kept
<1>2. IsFiniteSet(1 .. Len(q))
  BY <1>1, FS_Interval
<1>3. IsFiniteSet(K)
  BY <1>1, <1>2, FS_Subset, Zenon
<1>4. Cardinality(K) \in Nat
  BY <1>3, FS_CardinalityType
<1>5. k = [n \in 1 .. Cardinality(K) |-> q[CHOOSE i \in K : Rank(K, i) = n]]
  BY DEF Keep
<1>5a. k = [n \in 1 .. Cardinality(K) |-> q[from[n]]]
  BY <1>5
<1> HIDE DEF K, k
<1>6. \A n \in 1 .. Cardinality(K) : from[n] \in K /\ Rank(K, from[n]) = n
  <2> TAKE n \in 1 .. Cardinality(K)
  <2>1. \E i \in K : Rank(K, i) = n
    BY <1>1, <1>3, RankFound
  <2> QED
    BY <2>1, Zenon
<1>7. from \in [1 .. Cardinality(K) -> K]
  BY <1>6
<1>8. \A n \in 1 .. Cardinality(K) : k[n] = q[from[n]] /\ q[from[n]] \in T
  <2> TAKE n \in 1 .. Cardinality(K)
  <2>1. k[n] = q[from[n]]
    BY <1>5a
  <2>2. from[n] \in DOMAIN q
    BY <1>1, <1>6
  <2> QED
    BY <2>1, <2>2
<1>9. \A n, m \in 1 .. Cardinality(K) : from[n] = from[m] => n = m
  <2> TAKE n, m \in 1 .. Cardinality(K)
  <2> QED
    BY <1>6, Zenon
<1> HIDE DEF from
<1>10. k \in Seq(T) /\ Len(k) = Cardinality(K)
  BY <1>4, <1>5a, <1>8
<1> QED
  BY <1>7, <1>8, <1>9, <1>10 DEF K, k

LEMMA KeepSeq ==
  ASSUME NEW T, NEW q \in Seq(T), NEW S
  PROVE  Keep(q, S) \in Seq(T)
BY KeepFrom

LEMMA OccursKeep ==
  ASSUME NEW r, NEW T, NEW q \in Seq(T), NEW S
  PROVE  /\ Occurs(r, Keep(q, S), 0) <= Occurs(r, q, 0)
         /\ r \notin S => Occurs(r, Keep(q, S), 0) = 0
<1> DEFINE k == Keep(q, S)
<1>1. PICK from \in [1 .. Len(k) -> Kept(q, S)] :
           /\ \A n \in 1 .. Len(k) : k[n] = q[from[n]]
           /\ \A n, m \in 1 .. Len(k) : from[n] = from[m] => n = m
           /\ k \in Seq(T)
  BY KeepFrom
<1> HIDE DEF k
<1> DEFINE there == [n \in Spots(r, k, 0) |-> from[n]]
<1>2. \A i \in Kept(q, S) : i \in 0 + 1 .. Len(q) /\ q[i] \in S
  BY DEF Kept
<1>3. \A n \in Spots(r, k, 0) : /\ n \in 1 .. Len(k) /\ k[n] = r
                                /\ from[n] \in 0 + 1 .. Len(q) /\ q[from[n]] = r /\ r \in S
  BY <1>1, <1>2 DEF Spots
<1>4. there \in Injection(Spots(r, k, 0), Spots(r, q, 0))
  <2>1. \A n \in Spots(r, k, 0) : from[n] \in Spots(r, q, 0)
    BY <1>3 DEF Spots
  <2>2. \A n, m \in Spots(r, k, 0) : from[n] = from[m] => n = m
    BY <1>1, <1>3
  <2> QED
    BY <2>1, <2>2 DEF Injection, IsInjective
<1>5. IsFiniteSet(Spots(r, q, 0))
  BY OccursNat
<1>6. Cardinality(Spots(r, k, 0)) <= Cardinality(Spots(r, q, 0))
  BY <1>4, <1>5, FS_Injection, Zenon
<1>7. ASSUME r \notin S
      PROVE  Cardinality(Spots(r, k, 0)) = 0
  <2>1. Spots(r, k, 0) = {}
    BY <1>3, <1>7
  <2> QED
    BY <2>1, FS_EmptySet
<1> QED
  BY <1>6, <1>7 DEF k, Occurs
-----------------------------------------------------------------------------
(* The pool.  A number may grow only at the cost of another: a table that  *)
(* is overwritten, or a list that a MemoryError drops, makes the sum       *)
(* smaller, never larger.                                                  *)
PoolInv(f, h, g) ==
  /\ f \in 0 .. NumBlocks
  /\ h \in [Requests -> 0 .. NumBlocks]
  /\ g \in [Workers -> 0 .. NumBlocks]
  /\ f + Sum(h, Requests) + Sum(g, Workers) <= NumBlocks

LEMMA PoolBound ==
  ASSUME NEW f \in Nat, NEW h \in [Requests -> Nat], NEW g \in [Workers -> Nat],
         f + Sum(h, Requests) + Sum(g, Workers) <= NumBlocks
  PROVE  PoolInv(f, h, g)
<1>1. NumBlocks \in Nat /\ Sum(h, Requests) \in Nat /\ Sum(g, Workers) \in Nat
  BY RequestsAssumption, WorkersAssumption, SizesAssumption, SumNat
<1>2. \A r \in Requests : h[r] \in 0 .. NumBlocks
  <2> TAKE r \in Requests
  <2>1. h[r] <= Sum(h, Requests)
    BY RequestsAssumption, SumUpdate
  <2> QED
    BY <1>1, <2>1
<1>3. \A w \in Workers : g[w] \in 0 .. NumBlocks
  <2> TAKE w \in Workers
  <2>1. g[w] <= Sum(g, Workers)
    BY WorkersAssumption, SumUpdate
  <2> QED
    BY <1>1, <2>1
<1> QED
  BY <1>1, <1>2, <1>3 DEF PoolInv

LEMMA PoolNat ==
  ASSUME NEW f, NEW h, NEW g, PoolInv(f, h, g)
  PROVE  /\ f \in Nat /\ h \in [Requests -> Nat] /\ g \in [Workers -> Nat]
         /\ Sum(h, Requests) \in Nat /\ Sum(g, Workers) \in Nat /\ NumBlocks \in Nat
         /\ f + Sum(h, Requests) + Sum(g, Workers) <= NumBlocks
<1>1. f \in Nat /\ h \in [Requests -> Nat] /\ g \in [Workers -> Nat]
  BY DEF PoolInv
<1>2. Sum(h, Requests) \in Nat /\ Sum(g, Workers) \in Nat
  BY <1>1, RequestsAssumption, WorkersAssumption, SumNat
<1> QED
  BY <1>1, <1>2, SizesAssumption DEF PoolInv

LEMMA PoolPop ==
  ASSUME NEW f, NEW h, NEW g, PoolInv(f, h, g), f > 0, NEW w \in Workers
  PROVE  PoolInv(f - 1, h, [g EXCEPT ![w] = @ + 1])
<1> DEFINE n == [g EXCEPT ![w] = @ + 1]
<1>1. /\ f - 1 \in Nat /\ h \in [Requests -> Nat] /\ n \in [Workers -> Nat]
      /\ n[w] = g[w] + 1 /\ n[w] \in Nat /\ \A v \in Workers \ {w} : n[v] = g[v]
      /\ \A v \in Workers : g[v] \in Nat
  BY PoolNat
<1> HIDE DEF n
<1>2. Sum(n, Workers) = Sum(g, Workers) - g[w] + n[w] /\ Sum(n, Workers) \in Nat
  <2>1. \A y \in Workers : g[y] \in Nat
    BY <1>1
  <2>2. \A y \in Workers \ {w} : n[y] = g[y]
    BY <1>1
  <2>3. n[w] \in Nat
    BY <1>1
  <2> QED
    BY <2>1, <2>2, <2>3, WorkersAssumption, SumUpdate
<1>3. f - 1 + Sum(h, Requests) + Sum(n, Workers) <= NumBlocks
  BY <1>1, <1>2, PoolNat
<1> QED
  BY <1>1, <1>3, PoolBound DEF n

LEMMA PoolDrop ==
  ASSUME NEW f, NEW h, NEW g, PoolInv(f, h, g), NEW w \in Workers
  PROVE  PoolInv(f, h, [g EXCEPT ![w] = 0])
<1> DEFINE n == [g EXCEPT ![w] = 0]
<1>1. /\ f \in Nat /\ h \in [Requests -> Nat] /\ n \in [Workers -> Nat]
      /\ n[w] = 0 /\ n[w] \in Nat /\ \A v \in Workers \ {w} : n[v] = g[v]
      /\ \A v \in Workers : g[v] \in Nat
  BY PoolNat
<1> HIDE DEF n
<1>2. Sum(n, Workers) = Sum(g, Workers) - g[w] + n[w] /\ Sum(n, Workers) \in Nat
  <2>1. \A y \in Workers : g[y] \in Nat
    BY <1>1
  <2>2. \A y \in Workers \ {w} : n[y] = g[y]
    BY <1>1
  <2>3. n[w] \in Nat
    BY <1>1
  <2> QED
    BY <2>1, <2>2, <2>3, WorkersAssumption, SumUpdate
<1>3. f + Sum(h, Requests) + Sum(n, Workers) <= NumBlocks
  BY <1>1, <1>2, PoolNat
<1> QED
  BY <1>1, <1>3, PoolBound DEF n

LEMMA PoolTable ==
  ASSUME NEW f, NEW h, NEW g, PoolInv(f, h, g), NEW w \in Workers, NEW r \in Requests
  PROVE  PoolInv(f, [h EXCEPT ![r] = g[w]], [g EXCEPT ![w] = 0])
<1> DEFINE m == [h EXCEPT ![r] = g[w]]
           n == [g EXCEPT ![w] = 0]
<1>1. /\ f \in Nat /\ m \in [Requests -> Nat] /\ n \in [Workers -> Nat]
      /\ n[w] = 0 /\ n[w] \in Nat /\ \A v \in Workers \ {w} : n[v] = g[v]
      /\ m[r] = g[w] /\ \A q \in Requests \ {r} : m[q] = h[q]
      /\ \A v \in Workers : g[v] \in Nat
      /\ \A q \in Requests : h[q] \in Nat
  BY PoolNat
<1> HIDE DEF m, n
<1>2. Sum(n, Workers) = Sum(g, Workers) - g[w] + n[w] /\ Sum(n, Workers) \in Nat
  <2>1. \A y \in Workers : g[y] \in Nat
    BY <1>1
  <2>2. \A y \in Workers \ {w} : n[y] = g[y]
    BY <1>1
  <2>3. n[w] \in Nat
    BY <1>1
  <2> QED
    BY <2>1, <2>2, <2>3, WorkersAssumption, SumUpdate
<1>3. m[r] \in Nat
  BY <1>1
<1>4. Sum(m, Requests) = Sum(h, Requests) - h[r] + m[r] /\ Sum(m, Requests) \in Nat
  <2>1. \A y \in Requests : h[y] \in Nat
    BY <1>1
  <2>2. \A y \in Requests \ {r} : m[y] = h[y]
    BY <1>1
  <2>3. m[r] \in Nat
    BY <1>1
  <2> QED
    BY <2>1, <2>2, <2>3, RequestsAssumption, SumUpdate
<1>5. f + Sum(m, Requests) + Sum(n, Workers) <= NumBlocks
  BY <1>1, <1>2, <1>4, PoolNat
<1> QED
  BY <1>1, <1>5, PoolBound DEF m, n

LEMMA PoolAppend ==
  ASSUME NEW f, NEW h, NEW g, PoolInv(f, h, g), f > 0, NEW r \in Requests
  PROVE  PoolInv(f - 1, [h EXCEPT ![r] = @ + 1], g)
<1> DEFINE m == [h EXCEPT ![r] = @ + 1]
<1>1. /\ f - 1 \in Nat /\ m \in [Requests -> Nat] /\ g \in [Workers -> Nat]
      /\ m[r] = h[r] + 1 /\ m[r] \in Nat /\ \A q \in Requests \ {r} : m[q] = h[q]
      /\ \A q \in Requests : h[q] \in Nat
  BY PoolNat
<1> HIDE DEF m
<1>2. Sum(m, Requests) = Sum(h, Requests) - h[r] + m[r] /\ Sum(m, Requests) \in Nat
  <2>1. \A y \in Requests : h[y] \in Nat
    BY <1>1
  <2>2. \A y \in Requests \ {r} : m[y] = h[y]
    BY <1>1
  <2>3. m[r] \in Nat
    BY <1>1
  <2> QED
    BY <2>1, <2>2, <2>3, RequestsAssumption, SumUpdate
<1>3. f - 1 + Sum(m, Requests) + Sum(g, Workers) <= NumBlocks
  BY <1>1, <1>2, PoolNat
<1> QED
  BY <1>1, <1>3, PoolBound DEF m

(* The tables of S are freed.                                              *)
LEMMA PoolFree ==
  ASSUME PoolInv(free, held, got), NEW S \in SUBSET Requests
  PROVE  PoolInv(FreeAfter(S), HeldAfter(S), got)
<1> DEFINE m == HeldAfter(S)
<1>1. /\ free \in Nat /\ held \in [Requests -> Nat] /\ got \in [Workers -> Nat]
      /\ m \in [Requests -> Nat]
      /\ \A r \in S : m[r] = 0
      /\ \A q \in Requests \ S : m[q] = held[q]
  BY PoolNat DEF HeldAfter
<1> HIDE DEF m
<1>2. /\ Sum(held, Requests) = Sum(held, S) + Sum(held, Requests \ S)
      /\ Sum(held, S) \in Nat /\ Sum(held, Requests \ S) \in Nat
  BY <1>1, RequestsAssumption, SumSplit
<1>3. Sum(m, Requests) = Sum(m, S) + Sum(m, Requests \ S)
  BY <1>1, RequestsAssumption, SumSplit
<1>4. Sum(m, S) = 0
  BY <1>1, SumNone, Zenon
<1>5. Sum(m, Requests \ S) = Sum(held, Requests \ S)
  <2>1. \A q \in Requests \ S : m[q] = held[q]
    BY <1>1
  <2> QED
    BY <2>1, SumSame, Zenon
<1>6. /\ free + Sum(held, S) \in Nat
      /\ free + Sum(held, S) + Sum(m, Requests) + Sum(got, Workers) <= NumBlocks
  BY <1>1, <1>2, <1>3, <1>4, <1>5, PoolNat
<1> QED
  BY <1>1, <1>6, PoolBound DEF m, FreeAfter

(* Nothing is freed for nobody.                                            *)
LEMMA FreeNobody == PoolInv(free, held, got) => FreeAfter({}) = free /\ HeldAfter({}) = held
<1> SUFFICES ASSUME PoolInv(free, held, got)
             PROVE  FreeAfter({}) = free /\ HeldAfter({}) = held
  OBVIOUS
<1>1. Sum(held, {}) = 0
  BY SumNone
<1> QED
  BY <1>1, PoolNat DEF FreeAfter, HeldAfter
-----------------------------------------------------------------------------
(* The places of a request, part by part.                                  *)
Numbers(r) ==
  /\ Passed \in Nat /\ \A w \in Workers : PutBack(w) \in Nat
  /\ Occurs(r, waiting, Passed) \in Nat /\ Occurs(r, claim, 0) \in Nat
  /\ \A w \in Workers : /\ InPrefill(r)[w] = Occurs(r, batch[w], PutBack(w))
                        /\ InPrefill(r)[w] \in Nat
  /\ Sum(InPrefill(r), Workers) \in Nat
  /\ Occurs(r, done, 0) \in Nat /\ Occurs(r, pending, 0) \in Nat
  /\ Occurs(r, dwRun, 0) \in Nat /\ Occurs(r, cwWait, 0) \in Nat

AllNumbers == \A r \in Requests : Numbers(r)

LEMMA Counted == TypeOK => AllNumbers
<1> SUFFICES ASSUME TypeOK, NEW r \in Requests
             PROVE  Numbers(r)
  BY DEF AllNumbers
<1>1. Passed \in Nat /\ \A w \in Workers : PutBack(w) \in Nat
  <2>1. Passed \in Nat
    BY DEF TypeOK, Passed
  <2>2. ASSUME NEW w \in Workers
        PROVE  PutBack(w) \in Nat
    <3>1. wpos[w] \in Nat /\ wpos[w] - 1 \in Nat
      <4>1. wpos \in [Workers -> Nat \ {0}]
        BY DEF TypeOK
      <4> QED
        BY <4>1
    <3>2. CASE wpc[w] = "requeue"
      BY <3>1, <3>2 DEF PutBack
    <3>3. CASE wpc[w] = "forget"
      BY <3>1, <3>3 DEF PutBack
    <3>4. CASE wpc[w] \notin {"requeue", "forget"}
      <4>1. PutBack(w) = 0
        BY <3>4, Zenon DEF PutBack
      <4> QED
        BY <4>1
    <3> QED
      BY <3>2, <3>3, <3>4
  <2> QED
    BY <2>1, <2>2
<1>2. /\ Occurs(r, waiting, Passed) \in Nat /\ Occurs(r, claim, 0) \in Nat
      /\ Occurs(r, done, 0) \in Nat /\ Occurs(r, pending, 0) \in Nat
      /\ Occurs(r, dwRun, 0) \in Nat /\ Occurs(r, cwWait, 0) \in Nat
  BY <1>1, OccursNat DEF TypeOK
<1>3. \A w \in Workers : /\ InPrefill(r)[w] = Occurs(r, batch[w], PutBack(w))
                         /\ InPrefill(r)[w] \in Nat
  <2> TAKE w \in Workers
  <2>1. batch[w] \in Seq(Requests) /\ PutBack(w) \in Nat
    BY <1>1 DEF TypeOK
  <2>2. InPrefill(r)[w] = Occurs(r, batch[w], PutBack(w))
    BY DEF InPrefill
  <2> QED
    BY <2>1, <2>2, OccursNat
<1>4. Sum(InPrefill(r), Workers) \in Nat
  BY <1>3, WorkersAssumption, SumNat
<1> QED
  BY <1>1, <1>2, <1>3, <1>4 DEF Numbers

LEMMA CountedAfter == TypeOK' => AllNumbers'
BY Counted, PTL

(* Their names, and their sum.                                             *)
Waiting(r) == Occurs(r, waiting, Passed)
Claimed(r) == Occurs(r, claim, 0)
Prefilling(r) == Sum(InPrefill(r), Workers)
Done(r) == Occurs(r, done, 0)
Pending(r) == Occurs(r, pending, 0)
Decoding(r) == Occurs(r, dwRun, 0)
CwWaiting(r) == Occurs(r, cwWait, 0)
CwRunning(r) == IF r \in cwRun THEN 1 ELSE 0

Total(r) ==
  /\ Places(r) = Waiting(r) + Claimed(r) + Prefilling(r) + Done(r) + Pending(r)
                 + Decoding(r) + CwWaiting(r) + CwRunning(r)
  /\ Waiting(r) \in Nat /\ Claimed(r) \in Nat /\ Prefilling(r) \in Nat
  /\ Done(r) \in Nat /\ Pending(r) \in Nat /\ Decoding(r) \in Nat
  /\ CwWaiting(r) \in Nat /\ CwRunning(r) \in Nat
AllTotals == \A r \in Requests : Total(r)

LEMMA Totals == TypeOK => AllTotals
<1> SUFFICES ASSUME TypeOK, NEW r \in Requests
             PROVE  Total(r)
  BY DEF AllTotals
<1>1. Places(r) = Waiting(r) + Claimed(r) + Prefilling(r) + Done(r) + Pending(r)
                  + Decoding(r) + CwWaiting(r) + CwRunning(r)
  BY DEF Places, Waiting, Claimed, Prefilling, Done, Pending, Decoding, CwWaiting, CwRunning
<1>2. /\ Waiting(r) \in Nat /\ Claimed(r) \in Nat /\ Prefilling(r) \in Nat
      /\ Done(r) \in Nat /\ Pending(r) \in Nat /\ Decoding(r) \in Nat
      /\ CwWaiting(r) \in Nat
  BY Counted DEF AllNumbers, Numbers, Waiting, Claimed, Prefilling, Done, Pending, Decoding,
                 CwWaiting
<1> QED
  BY <1>1, <1>2 DEF Total, CwRunning

LEMMA TotalsAfter == TypeOK' => AllTotals'
BY Totals, PTL

(* Parts that a step does not touch.                                       *)
LEMMA SameParts ==
  ASSUME NEW r
  PROVE  /\ UNCHANGED <<waiting, Passed>> => Waiting(r)' = Waiting(r)
         /\ UNCHANGED claim => Claimed(r)' = Claimed(r)
         /\ UNCHANGED <<batch, wpc, wpos>> => Prefilling(r)' = Prefilling(r)
         /\ UNCHANGED done => Done(r)' = Done(r)
         /\ UNCHANGED pending => Pending(r)' = Pending(r)
         /\ UNCHANGED dwRun => Decoding(r)' = Decoding(r)
         /\ UNCHANGED cwWait => CwWaiting(r)' = CwWaiting(r)
         /\ UNCHANGED cwRun => CwRunning(r)' = CwRunning(r)
BY DEF InPrefill, PutBack, Waiting, Claimed, Prefilling, Done, Pending, Decoding, CwWaiting,
       CwRunning

(* A step of prefill thread w, and of nobody else.                         *)
LEMMA OneThread ==
  ASSUME TypeOK, TypeOK', NEW r \in Requests, NEW w \in Workers,
         \A v \in Workers \ {w} : batch'[v] = batch[v] /\ wpc'[v] = wpc[v] /\ wpos'[v] = wpos[v]
  PROVE  Prefilling(r)' = Prefilling(r)
           - Occurs(r, batch[w], PutBack(w)) + Occurs(r, batch[w], PutBack(w))'
<1>1. Numbers(r) /\ Numbers(r)'
  BY Counted, CountedAfter DEF AllNumbers
<1> DEFINE f == InPrefill(r)
           g == InPrefill(r)'
<1>2. \A v \in Workers : f[v] \in Nat
  BY <1>1 DEF Numbers
<1>3. g[w] \in Nat
  BY <1>1 DEF Numbers
<1>4. \A v \in Workers \ {w} : g[v] = f[v]
  BY DEF InPrefill, PutBack
<1> HIDE DEF f, g
<1>5. Sum(g, Workers) = Sum(f, Workers) - f[w] + g[w]
  <2>1. ASSUME NEW F, NEW G, \A v \in Workers : F[v] \in Nat, G[w] \in Nat,
               \A v \in Workers \ {w} : G[v] = F[v]
        PROVE  /\ Sum(F, Workers) \in Nat /\ Sum(G, Workers) \in Nat
               /\ Sum(G, Workers) = Sum(F, Workers) - F[w] + G[w]
    BY <2>1, WorkersAssumption, SumUpdate
  <2> QED
    BY <1>2, <1>3, <1>4, <2>1
<1>6. /\ InPrefill(r)[w] = Occurs(r, batch[w], PutBack(w))
      /\ InPrefill(r)'[w] = Occurs(r, batch[w], PutBack(w))'
  BY <1>1 DEF Numbers
<1> QED
  BY <1>5, <1>6 DEF f, g, Prefilling, Sum, Things
-----------------------------------------------------------------------------
(* No step puts a request in a second place: what appears in one queue has *)
(* left another.  Only AddRequest makes places, of a request that had none.*)
Fewer == \A r \in Requests : Places(r)' <= Places(r)

LEMMA QuietFewer ==
  ASSUME TypeOK, TypeOK',
         UNCHANGED <<waiting, Passed, claim, batch, wpc, wpos, done, pending, dwRun, cwWait,
                     cwRun>>
  PROVE  Fewer
<1> SUFFICES ASSUME NEW r \in Requests
             PROVE  Places(r)' <= Places(r)
  BY DEF Fewer
<1>1. Total(r) /\ Total(r)'
  BY Totals, TotalsAfter DEF AllTotals
<1> QED
  BY <1>1, SameParts DEF Total

LEMMA RouteOneFewer ==
  ASSUME TypeOK, TypeOK', RouteOne
  PROVE  Fewer
<1> SUFFICES ASSUME NEW r \in Requests
             PROVE  Places(r)' <= Places(r)
  BY DEF Fewer
<1>1. Total(r) /\ Total(r)'
  BY Totals, TotalsAfter DEF AllTotals
<1> DEFINE e == waiting[pos]
           one == IF e = r THEN 1 ELSE 0
<1>2. /\ waiting \in Seq(Requests) /\ claim \in Seq(Requests) /\ cwWait \in Seq(Requests)
      /\ pos \in Nat \ {0} /\ pos <= Len(waiting) /\ Len(waiting) \in Nat
  BY DEF TypeOK, RouteOne
<1>3. e \in Requests
  BY <1>2
<1>4. Passed = pos - 1 /\ Passed' = pos /\ waiting' = waiting
  BY <1>2 DEF RouteOne, Passed
<1>5. Waiting(r)' = Waiting(r) - one
  <2>1. pos - 1 \in Nat /\ pos - 1 < Len(waiting) /\ pos - 1 + 1 = pos
    BY <1>2
  <2>2. Occurs(r, waiting, pos - 1 + 1)
          = Occurs(r, waiting, pos - 1) - (IF waiting[pos - 1 + 1] = r THEN 1 ELSE 0)
    BY <1>2, <2>1, OccursPassed
  <2> QED
    BY <1>4, <2>1, <2>2 DEF Waiting
<1>6. /\ Occurs(r, Append(claim, e), 0) <= Claimed(r) + one
      /\ Occurs(r, Append(cwWait, e), 0) <= CwWaiting(r) + one
  BY <1>2, <1>3, OccursAppend DEF Claimed, CwWaiting
<1>7. \/ Claimed(r)' = Claimed(r) /\ CwWaiting(r)' <= CwWaiting(r) + one
      \/ Claimed(r)' <= Claimed(r) + one /\ CwWaiting(r)' = CwWaiting(r)
  <2>1. \/ claim' = claim /\ cwWait' = Append(cwWait, e)
        \/ claim' = Append(claim, e) /\ cwWait' = cwWait
    BY DEF RouteOne
  <2> QED
    BY <1>6, <2>1 DEF Claimed, CwWaiting
<1>8. one \in {0, 1}
  OBVIOUS
<1>9. /\ Prefilling(r)' = Prefilling(r) /\ Done(r)' = Done(r)
      /\ Pending(r)' = Pending(r) /\ Decoding(r)' = Decoding(r)
      /\ CwRunning(r)' = CwRunning(r)
  BY SameParts DEF RouteOne, prefillVars, decodeVars
<1> HIDE DEF one
<1> QED
  BY <1>1, <1>5, <1>7, <1>8, <1>9 DEF Total

LEMMA ClearFewer ==
  ASSUME TypeOK, TypeOK', Clear
  PROVE  Fewer
<1> SUFFICES ASSUME NEW r \in Requests
             PROVE  Places(r)' <= Places(r)
  BY DEF Fewer
<1>1. Total(r) /\ Total(r)'
  BY Totals, TotalsAfter DEF AllTotals
<1>2. Waiting(r)' = 0
  BY OccursNone DEF Clear, Passed, Waiting
<1>3. /\ Claimed(r)' = Claimed(r) /\ Prefilling(r)' = Prefilling(r)
      /\ Done(r)' = Done(r) /\ Pending(r)' = Pending(r)
      /\ Decoding(r)' = Decoding(r) /\ CwWaiting(r)' = CwWaiting(r)
      /\ CwRunning(r)' = CwRunning(r)
  BY SameParts DEF Clear, prefillVars, decodeVars, collVars
<1> QED
  BY <1>1, <1>2, <1>3 DEF Total

LEMMA DispatchFewer ==
  ASSUME TypeOK, TypeOK', Dispatch
  PROVE  Fewer
<1> SUFFICES ASSUME NEW r \in Requests
             PROVE  Places(r)' <= Places(r)
  BY DEF Fewer
<1>1. Total(r) /\ Total(r)'
  BY Totals, TotalsAfter DEF AllTotals
<1>2. Waiting(r)' = Waiting(r)
  BY DEF Dispatch, Passed, Waiting
<1>3. Claimed(r)' = 0
  BY OccursNone DEF Dispatch, Claimed
<1>4. /\ Prefilling(r)' = Prefilling(r) /\ Done(r)' = Done(r)
      /\ Pending(r)' = Pending(r) /\ Decoding(r)' = Decoding(r)
      /\ CwWaiting(r)' = CwWaiting(r) /\ CwRunning(r)' = CwRunning(r)
  BY SameParts DEF Dispatch, prefillVars, decodeVars, collVars
<1> QED
  BY <1>1, <1>2, <1>3, <1>4 DEF Total

LEMMA RequeueFewer ==
  ASSUME TypeOK, TypeOK', Requeue
  PROVE  Fewer
<1> SUFFICES ASSUME NEW r \in Requests
             PROVE  Places(r)' <= Places(r)
  BY DEF Fewer
<1>1. Total(r) /\ Total(r)'
  BY Totals, TotalsAfter DEF AllTotals
<1>2. Claimed(r)' = 0
  BY OccursNone DEF Requeue, Claimed
<1>3. Occurs(r, waiting \o claim, 0) <= Occurs(r, waiting, 0) + Occurs(r, claim, 0)
  BY OccursConcat DEF TypeOK
<1>4. Waiting(r)' <= Waiting(r) + Claimed(r)
  BY <1>3 DEF Requeue, Passed, Waiting, Claimed
<1>5. /\ Prefilling(r)' = Prefilling(r) /\ Done(r)' = Done(r)
      /\ Pending(r)' = Pending(r) /\ Decoding(r)' = Decoding(r)
      /\ CwWaiting(r)' = CwWaiting(r) /\ CwRunning(r)' = CwRunning(r)
  BY SameParts DEF Requeue, prefillVars, decodeVars, collVars
<1> QED
  BY <1>1, <1>2, <1>4, <1>5 DEF Total

LEMMA FlushFewer ==
  ASSUME TypeOK, TypeOK', Flush
  PROVE  Fewer
<1> SUFFICES ASSUME NEW r \in Requests
             PROVE  Places(r)' <= Places(r)
  BY DEF Fewer
<1>1. Total(r) /\ Total(r)'
  BY Totals, TotalsAfter DEF AllTotals
<1>2. Waiting(r)' = Waiting(r)
  BY DEF Flush, Passed, Waiting
<1>3. Done(r)' = 0
  BY OccursNone DEF Flush, Done
<1>4. /\ pending \in Seq(Requests) /\ done \in Seq(Requests)
      /\ Keep(done, known) \in Seq(Requests)
      /\ Occurs(r, Keep(done, known), 0) <= Done(r)
  BY KeepSeq, OccursKeep DEF TypeOK, Done
<1>5. /\ Pending(r)' <= Pending(r) + Occurs(r, Keep(done, known), 0)
      /\ Occurs(r, Keep(done, known), 0) \in Nat
  BY <1>4, OccursConcat, OccursNat DEF Flush, Pending
<1>6. /\ Claimed(r)' = Claimed(r) /\ Prefilling(r)' = Prefilling(r)
      /\ Decoding(r)' = Decoding(r) /\ CwWaiting(r)' = CwWaiting(r)
      /\ CwRunning(r)' = CwRunning(r)
  BY SameParts DEF Flush
<1>7. Pending(r)' <= Pending(r) + Done(r)
  <2>1. Pending(r)' \in Nat /\ Pending(r) \in Nat /\ Done(r) \in Nat
    BY <1>1 DEF Total
  <2> QED
    BY <1>4, <1>5, <2>1
<1> QED
  BY <1>1, <1>2, <1>3, <1>6, <1>7 DEF Total

LEMMA Promoted ==
  ASSUME TypeOK, NEW r \in Requests
  PROVE  /\ Ready \in Seq(Requests) /\ NotReady \in Seq(Requests)
         /\ Occurs(r, Ready, 0) \in Nat /\ Occurs(r, NotReady, 0) \in Nat
         /\ Occurs(r, Ready, 0) + Occurs(r, NotReady, 0) <= Pending(r)
<1>1. /\ pending \in Seq(Requests)
      /\ Ready \in Seq(Requests) /\ NotReady \in Seq(Requests)
  BY KeepSeq DEF TypeOK, Ready, NotReady
<1>2. /\ Occurs(r, Ready, 0) \in Nat /\ Occurs(r, NotReady, 0) \in Nat
      /\ Pending(r) \in Nat
  BY <1>1, OccursNat DEF Pending
<1>3. /\ Occurs(r, Ready, 0) <= Pending(r) /\ Occurs(r, NotReady, 0) <= Pending(r)
      /\ r \notin copied => Occurs(r, Ready, 0) = 0
      /\ r \in copied => Occurs(r, NotReady, 0) = 0
  BY <1>1, OccursKeep DEF Ready, NotReady, Pending
<1> QED
  BY <1>1, <1>2, <1>3

LEMMA DecodeStartFewer ==
  ASSUME TypeOK, TypeOK', DecodeStart
  PROVE  Fewer
<1> SUFFICES ASSUME NEW r \in Requests
             PROVE  Places(r)' <= Places(r)
  BY DEF Fewer
<1>1. Total(r) /\ Total(r)'
  BY Totals, TotalsAfter DEF AllTotals
<1>2. dwRun \in Seq(Requests) /\ Ready \in Seq(Requests)
  BY Promoted DEF TypeOK
<1>3. Decoding(r)' <= Decoding(r) + Occurs(r, Ready, 0)
  BY <1>2, OccursConcat DEF DecodeStart, Decoding
<1>4. Pending(r)' = Occurs(r, NotReady, 0)
  BY DEF DecodeStart, Pending
<1>5. /\ Waiting(r)' = Waiting(r) /\ Claimed(r)' = Claimed(r)
      /\ Prefilling(r)' = Prefilling(r) /\ Done(r)' = Done(r)
      /\ CwWaiting(r)' = CwWaiting(r) /\ CwRunning(r)' = CwRunning(r)
  BY SameParts DEF DecodeStart, mainVars, Passed, prefillVars, collVars
<1>6. Pending(r)' + Decoding(r)' <= Pending(r) + Decoding(r)
  <2>1. /\ Pending(r) \in Nat /\ Decoding(r) \in Nat
        /\ Pending(r)' \in Nat /\ Decoding(r)' \in Nat
    BY <1>1 DEF Total
  <2>2. /\ Occurs(r, Ready, 0) \in Nat /\ Occurs(r, NotReady, 0) \in Nat
        /\ Occurs(r, Ready, 0) + Occurs(r, NotReady, 0) <= Pending(r)
    BY Promoted
  <2> QED
    BY <1>3, <1>4, <2>1, <2>2
<1> QED
  BY <1>1, <1>5, <1>6 DEF Total

LEMMA DecodeEvictFewer ==
  ASSUME TypeOK, TypeOK', DecodeEvict
  PROVE  Fewer
<1> SUFFICES ASSUME NEW r \in Requests
             PROVE  Places(r)' <= Places(r)
  BY DEF Fewer
<1>1. Total(r) /\ Total(r)'
  BY Totals, TotalsAfter DEF AllTotals
<1>2. dwRun' = Tail(dwRun) /\ dwRun \in Seq(Requests) /\ dwRun # <<>>
  BY DEF DecodeEvict, TypeOK
<1>3. Decoding(r)' <= Decoding(r) - (IF Head(dwRun) = r THEN 1 ELSE 0)
  BY <1>2, OccursTail DEF Decoding
<1>4. /\ Waiting(r)' = Waiting(r) /\ Claimed(r)' = Claimed(r)
      /\ Prefilling(r)' = Prefilling(r) /\ Done(r)' = Done(r)
      /\ Pending(r)' = Pending(r) /\ CwWaiting(r)' = CwWaiting(r)
      /\ CwRunning(r)' = CwRunning(r)
  BY SameParts DEF DecodeEvict, mainVars, Passed, prefillVars, collVars
<1> QED
  BY <1>1, <1>3, <1>4 DEF Total

LEMMA DecodeForwardFewer ==
  ASSUME TypeOK, TypeOK', DecodeForward
  PROVE  Fewer
<1> SUFFICES ASSUME NEW r \in Requests
             PROVE  Places(r)' <= Places(r)
  BY DEF Fewer
<1>1. Total(r) /\ Total(r)'
  BY Totals, TotalsAfter DEF AllTotals
<1>2. PICK eos \in SUBSET Range(dwRun) :
        \/ UNCHANGED pending /\ dwRun' = Keep(dwRun, Requests \ eos)
        \/ pending' = NotReady /\ dwRun' = Keep(dwRun, Requests \ eos) \o Ready
  BY DEF DecodeForward
<1> DEFINE stay == Keep(dwRun, Requests \ eos)
<1>3. /\ stay \in Seq(Requests) /\ Occurs(r, stay, 0) \in Nat
      /\ Occurs(r, stay, 0) <= Decoding(r)
  BY KeepSeq, OccursKeep, OccursNat DEF TypeOK, Decoding
<1> HIDE DEF stay
<1>4. Occurs(r, stay \o Ready, 0) <= Occurs(r, stay, 0) + Occurs(r, Ready, 0)
  BY <1>3, Promoted, OccursConcat
<1>5. /\ Waiting(r)' = Waiting(r) /\ Claimed(r)' = Claimed(r)
      /\ Prefilling(r)' = Prefilling(r) /\ Done(r)' = Done(r)
      /\ CwWaiting(r)' = CwWaiting(r) /\ CwRunning(r)' = CwRunning(r)
  BY SameParts DEF DecodeForward, mainVars, Passed, prefillVars, collVars
<1>6. CASE UNCHANGED pending /\ dwRun' = stay
  <2>1. Pending(r)' = Pending(r) /\ Decoding(r)' = Occurs(r, stay, 0)
    BY <1>6 DEF Pending, Decoding
  <2> QED
    BY <1>1, <1>3, <1>5, <2>1 DEF Total
<1>7. CASE pending' = NotReady /\ dwRun' = stay \o Ready
  <2>1. Pending(r)' = Occurs(r, NotReady, 0) /\ Decoding(r)' = Occurs(r, stay \o Ready, 0)
    BY <1>7 DEF Pending, Decoding
  <2>2. /\ Occurs(r, Ready, 0) \in Nat /\ Occurs(r, NotReady, 0) \in Nat
        /\ Occurs(r, Ready, 0) + Occurs(r, NotReady, 0) <= Pending(r)
    BY Promoted
  <2>3. /\ Pending(r) \in Nat /\ Decoding(r) \in Nat
        /\ Pending(r)' \in Nat /\ Decoding(r)' \in Nat
    BY <1>1 DEF Total
  <2>4. Pending(r)' + Decoding(r)' <= Pending(r) + Decoding(r)
    BY <1>3, <1>4, <2>1, <2>2, <2>3
  <2> QED
    BY <1>1, <1>5, <2>4 DEF Total
<1> QED
  BY <1>2, <1>6, <1>7 DEF stay

LEMMA EnforceFewer ==
  ASSUME TypeOK, TypeOK', NEW q \in Requests, EnforceDisaggregated(q)
  PROVE  Fewer
<1> SUFFICES ASSUME NEW r \in Requests
             PROVE  Places(r)' <= Places(r)
  BY DEF Fewer
<1>1. Total(r) /\ Total(r)'
  BY Totals, TotalsAfter DEF AllTotals
<1>2. dwRun' = dwRun \/ dwRun' = Keep(dwRun, Requests \ {q})
  BY DEF EnforceDisaggregated
<1>3. Occurs(r, Keep(dwRun, Requests \ {q}), 0) <= Decoding(r)
  BY OccursKeep DEF TypeOK, Decoding
<1>4. Decoding(r)' <= Decoding(r)
  BY <1>1, <1>2, <1>3 DEF Decoding, Total
<1>5. /\ Waiting(r)' = Waiting(r) /\ Claimed(r)' = Claimed(r)
      /\ Prefilling(r)' = Prefilling(r) /\ Done(r)' = Done(r)
      /\ Pending(r)' = Pending(r) /\ CwWaiting(r)' = CwWaiting(r)
      /\ CwRunning(r)' = CwRunning(r)
  BY SameParts DEF EnforceDisaggregated, Passed, prefillVars, collVars
<1> QED
  BY <1>1, <1>4, <1>5 DEF Total

LEMMA CollocatedFewer ==
  ASSUME TypeOK, TypeOK', CollocatedStep
  PROVE  Fewer
<1> SUFFICES ASSUME NEW r \in Requests
             PROVE  Places(r)' <= Places(r)
  BY DEF Fewer
<1>1. Total(r) /\ Total(r)'
  BY Totals, TotalsAfter DEF AllTotals
<1> DEFINE live == cwRun \ cwStop
<1>2. \/ cwWait' = cwWait /\ cwRun' = live
      \/ cwWait # <<>> /\ cwWait' = Tail(cwWait) /\ cwRun' = live \cup {Head(cwWait)}
  BY DEF CollocatedStep
<1>3. /\ Waiting(r)' = Waiting(r) /\ Claimed(r)' = Claimed(r)
      /\ Prefilling(r)' = Prefilling(r) /\ Done(r)' = Done(r)
      /\ Pending(r)' = Pending(r) /\ Decoding(r)' = Decoding(r)
  BY SameParts DEF CollocatedStep, mainVars, Passed, prefillVars, decodeVars
<1>4. CASE cwWait' = cwWait /\ cwRun' = live
  <2>1. CwWaiting(r)' = CwWaiting(r) /\ CwRunning(r)' <= CwRunning(r)
    BY <1>4 DEF CwWaiting, CwRunning
  <2> QED
    BY <1>1, <1>3, <2>1 DEF Total
<1>5. CASE cwWait # <<>> /\ cwWait' = Tail(cwWait) /\ cwRun' = live \cup {Head(cwWait)}
  <2>1. CwWaiting(r)' <= CwWaiting(r) - (IF Head(cwWait) = r THEN 1 ELSE 0)
    BY <1>5, OccursTail DEF TypeOK, CwWaiting
  <2>2. CwRunning(r)' <= CwRunning(r) + (IF Head(cwWait) = r THEN 1 ELSE 0)
    BY <1>5 DEF CwRunning
  <2>3. CASE Head(cwWait) = r
    BY <1>1, <1>3, <2>1, <2>2, <2>3 DEF Total
  <2>4. CASE Head(cwWait) # r
    BY <1>1, <1>3, <2>1, <2>2, <2>4 DEF Total
  <2> QED
    BY <2>3, <2>4
<1> QED
  BY <1>2, <1>4, <1>5

(* A prefill thread: its share of the places before and after its step.    *)
LEMMA Share ==
  ASSUME TypeOK, TypeOK', NEW r \in Requests, NEW w \in Workers,
         \A v \in Workers \ {w} : batch'[v] = batch[v] /\ wpc'[v] = wpc[v] /\ wpos'[v] = wpos[v]
  PROVE  /\ Occurs(r, batch[w], PutBack(w)) \in Nat
         /\ Occurs(r, batch[w], PutBack(w))' \in Nat
         /\ Prefilling(r)' = Prefilling(r) - Occurs(r, batch[w], PutBack(w))
                             + Occurs(r, batch[w], PutBack(w))'
<1>1. Numbers(r) /\ Numbers(r)'
  BY Counted, CountedAfter DEF AllNumbers
<1>2. /\ Occurs(r, batch[w], PutBack(w)) \in Nat
      /\ Occurs(r, batch[w], PutBack(w))' \in Nat
  BY <1>1 DEF Numbers
<1> QED
  BY <1>2, OneThread

LEMMA FireFewer ==
  ASSUME TypeOK, TypeOK', NEW w \in Workers, Fire(w)
  PROVE  Fewer
<1> SUFFICES ASSUME NEW r \in Requests
             PROVE  Places(r)' <= Places(r)
  BY DEF Fewer
<1>1. Total(r) /\ Total(r)'
  BY Totals, TotalsAfter DEF AllTotals
<1>2. \A v \in Workers \ {w} : batch'[v] = batch[v] /\ wpc'[v] = wpc[v] /\ wpos'[v] = wpos[v]
  BY DEF Fire, TypeOK
<1>3. batch'[w] = claim /\ PutBack(w)' = 0
  BY DEF Fire, TypeOK, PutBack
<1>4. Occurs(r, batch[w], PutBack(w))' = Claimed(r)
  BY <1>3 DEF Claimed
<1>5. Claimed(r)' = 0 /\ Waiting(r)' = Waiting(r)
  BY OccursNone DEF Fire, Claimed, Passed, Waiting
<1>6. /\ Done(r)' = Done(r) /\ Pending(r)' = Pending(r)
      /\ Decoding(r)' = Decoding(r) /\ CwWaiting(r)' = CwWaiting(r)
      /\ CwRunning(r)' = CwRunning(r)
  BY SameParts DEF Fire, decodeVars, collVars
<1>7. Prefilling(r)' <= Prefilling(r) + Claimed(r)
  BY <1>1, <1>2, <1>4, Share DEF Total
<1> QED
  BY <1>1, <1>5, <1>6, <1>7 DEF Total

LEMMA PrefillOOMFewer ==
  ASSUME TypeOK, TypeOK', NEW w \in Workers, PrefillOOM(w)
  PROVE  Fewer
<1> SUFFICES ASSUME NEW r \in Requests
             PROVE  Places(r)' <= Places(r)
  BY DEF Fewer
<1>1. Total(r) /\ Total(r)'
  BY Totals, TotalsAfter DEF AllTotals
<1>2. \A v \in Workers \ {w} : batch'[v] = batch[v] /\ wpc'[v] = wpc[v] /\ wpos'[v] = wpos[v]
  BY DEF PrefillOOM, TypeOK
<1>3. batch'[w] = <<>> /\ PutBack(w)' = 0
  BY DEF PrefillOOM, TypeOK, PutBack
<1>4. Occurs(r, batch[w], PutBack(w))' = 0
  BY <1>3, OccursNone
<1>5. Prefilling(r)' <= Prefilling(r)
  BY <1>1, <1>2, <1>4, Share DEF Total
<1>6. /\ Waiting(r)' = Waiting(r) /\ Claimed(r)' = Claimed(r)
      /\ Done(r)' = Done(r) /\ Pending(r)' = Pending(r)
      /\ Decoding(r)' = Decoding(r) /\ CwWaiting(r)' = CwWaiting(r)
      /\ CwRunning(r)' = CwRunning(r)
  BY SameParts DEF PrefillOOM, mainVars, Passed, decodeVars, collVars
<1> QED
  BY <1>1, <1>5, <1>6 DEF Total

LEMMA PrefillForwardFewer ==
  ASSUME TypeOK, TypeOK', NEW w \in Workers, PrefillForward(w)
  PROVE  Fewer
<1> SUFFICES ASSUME NEW r \in Requests
             PROVE  Places(r)' <= Places(r)
  BY DEF Fewer
<1>1. Total(r) /\ Total(r)'
  BY Totals, TotalsAfter DEF AllTotals
<1>2. \A v \in Workers \ {w} : batch'[v] = batch[v] /\ wpc'[v] = wpc[v] /\ wpos'[v] = wpos[v]
  BY DEF PrefillForward, TypeOK
<1>3. /\ batch'[w] = <<>> /\ PutBack(w)' = 0 /\ PutBack(w) = 0
      /\ done' = done \o batch[w] /\ batch[w] \in Seq(Requests) /\ done \in Seq(Requests)
  BY DEF PrefillForward, TypeOK, PutBack
<1>4. Occurs(r, batch[w], PutBack(w))' = 0
  BY <1>3, OccursNone
<1>5. Done(r)' <= Done(r) + Occurs(r, batch[w], PutBack(w))
  BY <1>3, OccursConcat DEF Done
<1>6. Prefilling(r)' + Done(r)' <= Prefilling(r) + Done(r)
  <2>1. /\ Prefilling(r) \in Nat /\ Done(r) \in Nat
        /\ Prefilling(r)' \in Nat /\ Done(r)' \in Nat
    BY <1>1 DEF Total
  <2>2. /\ Occurs(r, batch[w], PutBack(w)) \in Nat
        /\ Prefilling(r)' = Prefilling(r) - Occurs(r, batch[w], PutBack(w))
                            + Occurs(r, batch[w], PutBack(w))'
    BY <1>2, Share
  <2> QED
    BY <1>4, <1>5, <2>1, <2>2
<1>7. /\ Waiting(r)' = Waiting(r) /\ Claimed(r)' = Claimed(r)
      /\ Pending(r)' = Pending(r) /\ Decoding(r)' = Decoding(r)
      /\ CwWaiting(r)' = CwWaiting(r) /\ CwRunning(r)' = CwRunning(r)
  BY SameParts DEF PrefillForward, mainVars, Passed, collVars
<1> QED
  BY <1>1, <1>6, <1>7 DEF Total

-----------------------------------------------------------------------------
(* A prefill thread that works on a group has that group in its batch, and *)
(* there is something to fire.                                             *)
Grouped ==
  /\ \A w \in Workers :
       wpc[w] \in {"check", "pop", "requeue", "forget"} => wpos[w] <= Len(batch[w])
  /\ pc = "fire" => claim # <<>>

LEMMA GroupIn ==
  ASSUME TypeOK, Grouped, NEW w \in Workers, wpc[w] \in {"check", "pop", "requeue", "forget"}
  PROVE  /\ batch[w] \in Seq(Requests) /\ Len(batch[w]) \in Nat
         /\ wpos[w] \in Nat /\ 1 <= wpos[w] /\ wpos[w] <= Len(batch[w])
         /\ Group(w) \in Requests
<1>1. batch[w] \in Seq(Requests) /\ Len(batch[w]) \in Nat
  BY DEF TypeOK
<1>2. wpos \in [Workers -> Nat \ {0}]
  BY DEF TypeOK
<1>3. wpos[w] \in Nat /\ 1 <= wpos[w] /\ wpos[w] <= Len(batch[w])
  BY <1>2 DEF Grouped
<1> QED
  BY <1>1, <1>3 DEF Group

LEMMA PrefillCheckFewer ==
  ASSUME TypeOK, TypeOK', NEW w \in Workers, PrefillCheck(w)
  PROVE  Fewer
<1> SUFFICES ASSUME NEW r \in Requests
             PROVE  Places(r)' <= Places(r)
  BY DEF Fewer
<1>1. Total(r) /\ Total(r)'
  BY Totals, TotalsAfter DEF AllTotals
<1>2. \A v \in Workers \ {w} : batch'[v] = batch[v] /\ wpc'[v] = wpc[v] /\ wpos'[v] = wpos[v]
  BY DEF PrefillCheck, TypeOK
<1>3. batch'[w] = batch[w] /\ PutBack(w) = 0 /\ PutBack(w)' = 0
  <2>1. batch'[w] = batch[w] /\ PutBack(w) = 0
    BY DEF PrefillCheck, PutBack
  <2>2. \/ wpc'[w] = "pop"
        \/ wpc'[w] = "requeue" /\ wpos'[w] = 1
    BY DEF PrefillCheck, TypeOK
  <2> QED
    BY <2>1, <2>2 DEF PutBack
<1>4. Prefilling(r)' = Prefilling(r)
  BY <1>1, <1>2, <1>3, Share DEF Total
<1>5. /\ Waiting(r)' = Waiting(r) /\ Claimed(r)' = Claimed(r)
      /\ Done(r)' = Done(r) /\ Pending(r)' = Pending(r)
      /\ Decoding(r)' = Decoding(r) /\ CwWaiting(r)' = CwWaiting(r)
      /\ CwRunning(r)' = CwRunning(r)
  BY SameParts DEF PrefillCheck, mainVars, Passed, decodeVars, collVars
<1> QED
  BY <1>1, <1>4, <1>5 DEF Total

LEMMA PrefillTableFewer ==
  ASSUME TypeOK, TypeOK', NEW w \in Workers, PrefillTable(w)
  PROVE  Fewer
<1> SUFFICES ASSUME NEW r \in Requests
             PROVE  Places(r)' <= Places(r)
  BY DEF Fewer
<1>1. Total(r) /\ Total(r)'
  BY Totals, TotalsAfter DEF AllTotals
<1>2. \A v \in Workers \ {w} : batch'[v] = batch[v] /\ wpc'[v] = wpc[v] /\ wpos'[v] = wpos[v]
  BY DEF PrefillTable, TypeOK
<1>3. batch'[w] = batch[w] /\ PutBack(w) = 0 /\ PutBack(w)' = 0
  BY DEF PrefillTable, PutBack, TypeOK
<1>4. Prefilling(r)' = Prefilling(r)
  BY <1>1, <1>2, <1>3, Share DEF Total
<1>5. /\ Waiting(r)' = Waiting(r) /\ Claimed(r)' = Claimed(r)
      /\ Done(r)' = Done(r) /\ Pending(r)' = Pending(r)
      /\ Decoding(r)' = Decoding(r) /\ CwWaiting(r)' = CwWaiting(r)
      /\ CwRunning(r)' = CwRunning(r)
  BY SameParts DEF PrefillTable, mainVars, Passed, decodeVars, collVars
<1> QED
  BY <1>1, <1>4, <1>5 DEF Total

LEMMA PrefillRequeueFewer ==
  ASSUME TypeOK, TypeOK', Grouped, NEW w \in Workers, PrefillRequeue(w)
  PROVE  Fewer
<1> SUFFICES ASSUME NEW r \in Requests
             PROVE  Places(r)' <= Places(r)
  BY DEF Fewer
<1>1. Total(r) /\ Total(r)'
  BY Totals, TotalsAfter DEF AllTotals
<1>2. \A v \in Workers \ {w} : batch'[v] = batch[v] /\ wpc'[v] = wpc[v] /\ wpos'[v] = wpos[v]
  BY DEF PrefillRequeue, TypeOK
<1> DEFINE one == IF Group(w) = r THEN 1 ELSE 0
<1>3. /\ batch[w] \in Seq(Requests) /\ Len(batch[w]) \in Nat
      /\ wpos[w] \in Nat /\ 1 <= wpos[w] /\ wpos[w] <= Len(batch[w])
      /\ Group(w) \in Requests
  BY GroupIn DEF PrefillRequeue
<1>4. batch'[w] = batch[w] /\ PutBack(w) = wpos[w] - 1 /\ PutBack(w)' = wpos[w]
  BY DEF PrefillRequeue, PutBack, TypeOK
<1>5. Occurs(r, batch[w], PutBack(w))' = Occurs(r, batch[w], PutBack(w)) - one
  <2>1. wpos[w] - 1 \in Nat /\ wpos[w] - 1 < Len(batch[w]) /\ wpos[w] - 1 + 1 = wpos[w]
    BY <1>3
  <2>2. Occurs(r, batch[w], wpos[w] - 1 + 1) = Occurs(r, batch[w], wpos[w] - 1)
          - (IF batch[w][wpos[w] - 1 + 1] = r THEN 1 ELSE 0)
    BY <1>3, <2>1, OccursPassed
  <2> QED
    BY <1>4, <2>1, <2>2 DEF Group
<1>6. Waiting(r)' <= Waiting(r) + one
  <2>1. Passed \in Nat /\ Passed' = Passed /\ waiting \in Seq(Requests)
    BY Counted DEF AllNumbers, Numbers, PrefillRequeue, mainVars, Passed, TypeOK
  <2>2. Occurs(r, Append(waiting, Group(w)), Passed) <= Occurs(r, waiting, Passed) + one
    BY <1>3, <2>1, OccursAppend
  <2> QED
    BY <2>1, <2>2 DEF PrefillRequeue, Waiting
<1>7. one \in {0, 1}
  OBVIOUS
<1> HIDE DEF one
<1>8. Prefilling(r)' + Waiting(r)' <= Prefilling(r) + Waiting(r)
  <2>1. /\ Prefilling(r) \in Nat /\ Waiting(r) \in Nat
        /\ Prefilling(r)' \in Nat /\ Waiting(r)' \in Nat
    BY <1>1 DEF Total
  <2>2. /\ Occurs(r, batch[w], PutBack(w)) \in Nat
        /\ Prefilling(r)' = Prefilling(r) - Occurs(r, batch[w], PutBack(w))
                            + Occurs(r, batch[w], PutBack(w))'
    BY <1>2, Share
  <2> QED
    BY <1>5, <1>6, <1>7, <2>1, <2>2
<1>9. /\ Claimed(r)' = Claimed(r) /\ Done(r)' = Done(r)
      /\ Pending(r)' = Pending(r) /\ Decoding(r)' = Decoding(r)
      /\ CwWaiting(r)' = CwWaiting(r) /\ CwRunning(r)' = CwRunning(r)
  BY SameParts DEF PrefillRequeue, mainVars, decodeVars, collVars
<1> QED
  BY <1>1, <1>8, <1>9 DEF Total

LEMMA PrefillForgetFewer ==
  ASSUME TypeOK, TypeOK', Grouped, NEW w \in Workers, PrefillForget(w)
  PROVE  Fewer
<1> SUFFICES ASSUME NEW r \in Requests
             PROVE  Places(r)' <= Places(r)
  BY DEF Fewer
<1>1. Total(r) /\ Total(r)'
  BY Totals, TotalsAfter DEF AllTotals
<1>2. \A v \in Workers \ {w} : batch'[v] = batch[v] /\ wpc'[v] = wpc[v] /\ wpos'[v] = wpos[v]
  BY DEF PrefillForget, TypeOK
<1>3. \/ batch'[w] = batch[w] /\ PutBack(w)' = PutBack(w)
      \/ batch'[w] = <<>> /\ PutBack(w)' = 0
  <2>1. wpos[w] \in Nat /\ PutBack(w) = wpos[w]
    BY GroupIn DEF PrefillForget, PutBack
  <2>2. CASE wpos[w] = Len(batch[w])
    BY <2>2 DEF PrefillForget, TypeOK, PutBack
  <2>3. CASE wpos[w] # Len(batch[w])
    <3>1. batch'[w] = batch[w] /\ wpc'[w] = "requeue" /\ wpos'[w] = wpos[w] + 1
      BY <2>3 DEF PrefillForget, TypeOK
    <3>2. PutBack(w)' = wpos'[w] - 1
      BY <3>1, Zenon DEF PutBack
    <3> QED
      BY <2>1, <3>1, <3>2
  <2> QED
    BY <2>2, <2>3
<1>4. Occurs(r, batch[w], PutBack(w))' \in {0, Occurs(r, batch[w], PutBack(w))}
  BY <1>3, OccursNone
<1>5. Prefilling(r)' <= Prefilling(r)
  BY <1>1, <1>2, <1>4, Share DEF Total
<1>6. /\ Waiting(r)' = Waiting(r) /\ Claimed(r)' = Claimed(r)
      /\ Done(r)' = Done(r) /\ Pending(r)' = Pending(r)
      /\ Decoding(r)' = Decoding(r) /\ CwWaiting(r)' = CwWaiting(r)
      /\ CwRunning(r)' = CwRunning(r)
  BY SameParts DEF PrefillForget, mainVars, Passed, decodeVars, collVars
<1> QED
  BY <1>1, <1>5, <1>6 DEF Total

(* Steps that move nobody.                                                 *)
LEMMA QuietSteps ==
  ASSUME TypeOK, TypeOK',
         \/ CheckWaiting \/ CheckStates \/ CheckRest \/ RouteEnd \/ Join
         \/ (\E r \in Requests : EnforceCollocated(r) \/ CopyDone(r))
         \/ EnforceEnd \/ EnforceCrash \/ DecodeAppend
         \/ (\E w \in Workers : PrefillPop(w))
  PROVE  Fewer
<1>1. UNCHANGED <<waiting, Passed, claim, batch, wpc, wpos, done, pending, dwRun, cwWait,
                  cwRun>>
  <2>1. CASE CheckWaiting
    BY <2>1 DEF CheckWaiting, mainVars, Passed, prefillVars, decodeVars, collVars
  <2>2. CASE CheckStates
    BY <2>2 DEF CheckStates, mainVars, Passed, prefillVars, decodeVars, collVars
  <2>3. CASE CheckRest
    BY <2>3 DEF CheckRest, mainVars, Passed, prefillVars, decodeVars, collVars
  <2>4. CASE RouteEnd
    BY <2>4 DEF RouteEnd, mainVars, Passed, prefillVars, decodeVars, collVars
  <2>5. CASE Join
    BY <2>5 DEF Join, mainVars, Passed, prefillVars, decodeVars, collVars
  <2>6. CASE \E r \in Requests : EnforceCollocated(r)
    BY <2>6 DEF EnforceCollocated, mainVars, Passed, prefillVars, decodeVars, collVars
  <2>7. CASE \E r \in Requests : CopyDone(r)
    BY <2>7 DEF CopyDone, mainVars, Passed, prefillVars, decodeVars, collVars
  <2>8. CASE EnforceEnd
    BY <2>8 DEF EnforceEnd, mainVars, Passed, prefillVars, decodeVars, collVars
  <2>9. CASE EnforceCrash
    BY <2>9 DEF EnforceCrash, mainVars, Passed, prefillVars, decodeVars, collVars
  <2>10. CASE DecodeAppend
    BY <2>10 DEF DecodeAppend, mainVars, Passed, prefillVars, decodeVars, collVars
  <2>11. CASE \E w \in Workers : PrefillPop(w)
    BY <2>11 DEF PrefillPop, mainVars, Passed, prefillVars, decodeVars, collVars
  <2> QED
    BY <2>1, <2>2, <2>3, <2>4, <2>5, <2>6, <2>7, <2>8, <2>9, <2>10, <2>11
<1> QED
  BY <1>1, QuietFewer

-----------------------------------------------------------------------------
(* Each step keeps the pool, the batches' positions and the types.         *)
Pool == PoolInv(free, held, got)

LEMMA PoolStep ==
  ASSUME TypeOK, Grouped, Pool, Next
  PROVE  Pool'
<1> USE DEF Pool
<1>1. ASSUME NEW w \in Workers, PrefillPop(w)
      PROVE  Pool'
  BY <1>1, PoolPop DEF PrefillPop
<1>2. ASSUME NEW w \in Workers, PrefillOOM(w)
      PROVE  Pool'
  BY <1>2, PoolDrop DEF PrefillOOM, poolVars
<1>3. ASSUME NEW w \in Workers, PrefillTable(w)
      PROVE  Pool'
  <2>1. Group(w) \in Requests
    BY <1>3, GroupIn DEF PrefillTable
  <2> QED
    BY <1>3, <2>1, PoolTable DEF PrefillTable
<1>4. CASE DecodeAppend
  <2>1. CASE NeedsBlock(dwRun[dpos])
    <3>1. dwRun[dpos] \in Requests
      BY <1>4 DEF DecodeAppend, TypeOK
    <3> QED
      BY <1>4, <2>1, <3>1, PoolAppend DEF DecodeAppend, prefillVars
  <2>2. CASE ~ NeedsBlock(dwRun[dpos])
    BY <1>4, <2>2 DEF DecodeAppend, poolVars, prefillVars
  <2> QED
    BY <2>1, <2>2
<1>5. CASE DecodeEvict
  <2>1. Head(dwRun) \in Requests
    BY <1>5 DEF DecodeEvict, TypeOK
  <2> QED
    BY <1>5, <2>1, PoolFree DEF DecodeEvict, prefillVars
<1>6. CASE DecodeForward
  <2>1. PICK eos \in SUBSET Range(dwRun) : free' = FreeAfter(eos) /\ held' = HeldAfter(eos)
    BY <1>6 DEF DecodeForward
  <2>2. eos \in SUBSET Requests
    BY DEF TypeOK, Range
  <2> QED
    BY <1>6, <2>1, <2>2, PoolFree DEF DecodeForward, prefillVars
<1>7. ASSUME NEW r \in Requests, EnforceDisaggregated(r)
      PROVE  Pool'
  <2> DEFINE S == IF Leaves(r) THEN {r} ELSE {}
  <2>1. S \in SUBSET Requests /\ free' = FreeAfter(S) /\ held' = HeldAfter(S) /\ got' = got
    BY <1>7 DEF EnforceDisaggregated, prefillVars
  <2> QED
    BY <2>1, PoolFree
<1>8. CASE UNCHANGED <<free, held, got>>
  BY <1>8
<1>9. CASE \E r \in Requests : AddRequest(r) \/ CopyDone(r) \/ EnforceCollocated(r)
  BY <1>8, <1>9 DEF AddRequest, CopyDone, EnforceCollocated, poolVars, prefillVars
<1>10. CASE \/ CheckWaiting \/ CheckStates \/ CheckRest
            \/ Dispatch \/ RouteOne \/ RouteEnd \/ Clear
  BY <1>8, <1>10 DEF CheckWaiting, CheckStates, CheckRest, Dispatch, RouteOne, RouteEnd,
       Clear, poolVars, prefillVars
<1>11. CASE (\E w \in Workers : Fire(w)) \/ Requeue \/ Flush \/ Join
  BY <1>8, <1>11 DEF Fire, Requeue, Flush, Join, poolVars, prefillVars
<1>12. CASE EnforceEnd \/ EnforceCrash \/ DecodeStart \/ CollocatedStep
  BY <1>8, <1>12 DEF EnforceEnd, EnforceCrash, DecodeStart, CollocatedStep, poolVars,
       prefillVars
<1>13. CASE \E w \in Workers : \/ PrefillCheck(w) \/ PrefillForward(w)
                               \/ PrefillRequeue(w) \/ PrefillForget(w)
  BY <1>8, <1>13 DEF PrefillCheck, PrefillForward, PrefillRequeue, PrefillForget, poolVars
<1> QED
  BY <1>1, <1>2, <1>3, <1>4, <1>5, <1>6, <1>7, <1>9, <1>10, <1>11, <1>12, <1>13
     DEF Next, Main, Prefill, Decode

LEMMA GroupedStep ==
  ASSUME TypeOK, Grouped, Next
  PROVE  Grouped'
<1>1. ASSUME NEW w \in Workers, Prefill(w)
      PROVE  Grouped'
  <2>1. \A v \in Workers \ {w} : batch'[v] = batch[v] /\ wpc'[v] = wpc[v] /\ wpos'[v] = wpos[v]
    BY <1>1 DEF Prefill, PrefillCheck, PrefillPop, PrefillOOM, PrefillTable, PrefillForward,
         PrefillRequeue, PrefillForget, TypeOK
  <2>2. pc' = pc /\ claim' = claim
    BY <1>1 DEF Prefill, PrefillCheck, PrefillPop, PrefillOOM, PrefillTable, PrefillForward,
         PrefillRequeue, PrefillForget, mainVars
  <2>3. CASE wpc[w] \in {"check", "pop", "requeue", "forget"}
    <3>1. /\ Len(batch[w]) \in Nat
          /\ wpos[w] \in Nat /\ 1 <= wpos[w] /\ wpos[w] <= Len(batch[w])
      BY <2>3, GroupIn
    <3>2. \/ wpc'[w] \in {"idle", "forward"}
          \/ batch'[w] = batch[w] /\ wpos'[w] = wpos[w]
          \/ batch'[w] = batch[w] /\ wpos'[w] = 1
          \/ batch'[w] = batch[w] /\ wpos'[w] = wpos[w] + 1 /\ wpos[w] # Len(batch[w])
      <4>1. CASE PrefillCheck(w)
        BY <4>1 DEF PrefillCheck, TypeOK
      <4>2. CASE PrefillPop(w)
        BY <4>2 DEF PrefillPop, TypeOK
      <4>3. CASE PrefillOOM(w)
        BY <4>3 DEF PrefillOOM, TypeOK
      <4>4. CASE PrefillTable(w)
        BY <4>4 DEF PrefillTable, TypeOK
      <4>5. CASE PrefillForward(w)
        BY <4>5 DEF PrefillForward, TypeOK
      <4>6. CASE PrefillRequeue(w)
        BY <4>6 DEF PrefillRequeue, TypeOK
      <4>7. CASE PrefillForget(w)
        BY <4>7 DEF PrefillForget, TypeOK
      <4> QED
        BY <1>1, <4>1, <4>2, <4>3, <4>4, <4>5, <4>6, <4>7 DEF Prefill
    <3>3. wpc'[w] \in {"idle", "forward"} \/ wpos'[w] <= Len(batch'[w])
      BY <3>1, <3>2
    <3> QED
      BY <2>1, <2>2, <3>3 DEF Grouped
  <2>4. CASE wpc[w] \notin {"check", "pop", "requeue", "forget"}
    <3>1. PrefillForward(w)
      BY <1>1, <2>4 DEF Prefill, PrefillCheck, PrefillPop, PrefillOOM, PrefillTable,
           PrefillRequeue, PrefillForget
    <3>2. wpc'[w] = "idle"
      BY <3>1 DEF PrefillForward, TypeOK
    <3> QED
      BY <2>1, <2>2, <3>2 DEF Grouped
  <2> QED
    BY <2>3, <2>4
<1>2. ASSUME NEW w \in Workers, Fire(w)
      PROVE  Grouped'
  <2>1. /\ batch' = [batch EXCEPT ![w] = claim] /\ wpc' = [wpc EXCEPT ![w] = "check"]
        /\ wpos' = [wpos EXCEPT ![w] = 1] /\ pc' = "flush"
        /\ claim \in Seq(Requests) /\ claim # <<>>
    BY <1>2 DEF Fire, Grouped, TypeOK
  <2>2. 1 <= Len(claim)
    BY <2>1
  <2>3. \A v \in Workers \ {w} : batch'[v] = batch[v] /\ wpc'[v] = wpc[v] /\ wpos'[v] = wpos[v]
    BY <2>1 DEF TypeOK
  <2>4. batch'[w] = claim /\ wpos'[w] = 1
    BY <2>1 DEF TypeOK
  <2> QED
    BY <2>1, <2>2, <2>3, <2>4 DEF Grouped
<1>3. CASE UNCHANGED <<batch, wpc, wpos>> /\ (pc' = "fire" => claim' # <<>>)
  BY <1>3 DEF Grouped
<1>4. CASE \E r \in Requests : \/ AddRequest(r) \/ CopyDone(r)
                               \/ EnforceCollocated(r) \/ EnforceDisaggregated(r)
  BY <1>3, <1>4 DEF Grouped, AddRequest, CopyDone, EnforceCollocated, EnforceDisaggregated,
       mainVars, prefillVars
<1>5. CASE \/ CheckWaiting \/ CheckStates \/ CheckRest
           \/ Dispatch \/ RouteOne \/ RouteEnd \/ Clear
  BY <1>3, <1>5 DEF CheckWaiting, CheckStates, CheckRest, Dispatch, RouteOne, RouteEnd,
       Clear, prefillVars
<1>6. CASE Requeue \/ Flush \/ Join \/ EnforceEnd \/ EnforceCrash
  BY <1>3, <1>6 DEF Requeue, Flush, Join, EnforceEnd, EnforceCrash, prefillVars
<1>7. CASE Decode \/ CollocatedStep
  BY <1>3, <1>7 DEF Grouped, Decode, DecodeStart, DecodeAppend, DecodeEvict, DecodeForward,
       CollocatedStep, mainVars, prefillVars
<1> QED
  BY <1>1, <1>2, <1>4, <1>5, <1>6, <1>7 DEF Next, Main

(* The types, by the owner of the variables.                               *)
MainTyped ==
  /\ arrived \subseteq Requests
  /\ pc \in {"check", "check1", "check2", "dispatch", "route", "clear", "fire", "flush",
             "step", "enforce", "done", "crashed"}
  /\ waiting \in Seq(Requests) /\ claim \in Seq(Requests)
  /\ pos \in Nat \ {0}
  /\ seen \subseteq Requests /\ visit \subseteq Requests
StateTyped ==
  /\ known \subseteq Requests
  /\ path \in [Requests -> Paths]
  /\ out \in [Requests -> Nat]
  /\ fin \in [Requests -> BOOLEAN]
PrefillTyped ==
  /\ batch \in [Workers -> Seq(Requests)]
  /\ wpc \in [Workers -> {"idle", "check", "pop", "forward", "requeue", "forget"}]
  /\ wpos \in [Workers -> Nat \ {0}]
  /\ done \in Seq(Requests)
DecodeTyped ==
  /\ seqOut \in [Requests -> Nat]
  /\ pending \in Seq(Requests) /\ dwRun \in Seq(Requests)
  /\ copied \subseteq Range(pending)
  /\ dpc \in {"off", "start", "append"} /\ dpos \in Nat \ {0}
CollTyped ==
  /\ cpc \in {"off", "start"}
  /\ cwWait \in Seq(Requests)
  /\ cwRun \subseteq Requests /\ cwFin \subseteq Requests
  /\ cwStop \subseteq cwRun
  /\ cwOut \in [Requests -> Nat]

LEMMA SeqFacts ==
  ASSUME NEW T
  PROVE  /\ <<>> \in Seq(T)
         /\ \A q \in Seq(T) : q # <<>> => Tail(q) \in Seq(T)
         /\ \A q, t \in Seq(T) : q \o t \in Seq(T)
OBVIOUS

LEMMA Types ==
  TypeOK <=> /\ MainTyped /\ StateTyped /\ PrefillTyped /\ DecodeTyped /\ CollTyped
             /\ free \in 0 .. NumBlocks
             /\ held \in [Requests -> 0 .. NumBlocks]
             /\ got \in [Workers -> 0 .. NumBlocks]
BY Zenon DEF TypeOK, MainTyped, StateTyped, PrefillTyped, DecodeTyped, CollTyped

LEMMA MainStep ==
  ASSUME TypeOK, Grouped, Next
  PROVE  MainTyped'
<1> USE DEF MainTyped
<1>1. MainTyped
  BY Types
<1>2. CASE UNCHANGED <<mainVars, waiting>>
  BY <1>1, <1>2 DEF mainVars
<1>3. CASE \E r \in Requests : AddRequest(r)
  BY <1>1, <1>3 DEF AddRequest
<1>4. CASE CheckWaiting \/ CheckStates \/ CheckRest \/ Dispatch \/ RouteEnd \/ Clear
  <2>1. CASE CheckWaiting \/ CheckStates \/ CheckRest \/ RouteEnd
    BY <1>1, <2>1 DEF CheckWaiting, CheckStates, CheckRest, RouteEnd
  <2>2. CASE Dispatch
    BY <1>1, <2>2 DEF Dispatch
  <2>3. CASE Clear
    BY <1>1, <2>3 DEF Clear
  <2> QED
    BY <1>4, <2>1, <2>2, <2>3
<1>5. CASE RouteOne
  <2>1. waiting[pos] \in Requests
    BY <1>1, <1>5 DEF RouteOne
  <2>2. claim' = claim \/ claim' = Append(claim, waiting[pos])
    BY <1>5 DEF RouteOne
  <2>3. claim' \in Seq(Requests)
    BY <1>1, <2>1, <2>2
  <2>4. pos' \in Nat \ {0}
    BY <1>1, <1>5 DEF RouteOne
  <2> QED
    BY <1>1, <1>5, <2>3, <2>4 DEF RouteOne
<1>6. CASE (\E w \in Workers : Fire(w)) \/ Requeue \/ Flush
  <2>1. CASE \E w \in Workers : Fire(w)
    BY <1>1, <2>1 DEF Fire
  <2>2. CASE Requeue
    <3>1. waiting \o claim \in Seq(Requests)
      BY <1>1
    <3> QED
      BY <1>1, <2>2, <3>1 DEF Requeue
  <2>3. CASE Flush
    BY <1>1, <2>3 DEF Flush
  <2> QED
    BY <1>6, <2>1, <2>2, <2>3
<1>7. CASE Join \/ EnforceEnd \/ EnforceCrash
  BY <1>1, <1>7, Types DEF Join, EnforceEnd, EnforceCrash, StateTyped
<1>8. CASE \E r \in Requests : EnforceCollocated(r) \/ EnforceDisaggregated(r)
  BY <1>1, <1>8 DEF EnforceCollocated, EnforceDisaggregated
<1>9. ASSUME NEW w \in Workers, PrefillRequeue(w)
      PROVE  MainTyped'
  <2>1. Group(w) \in Requests
    BY <1>9, GroupIn DEF PrefillRequeue
  <2> QED
    BY <1>1, <1>9, <2>1 DEF PrefillRequeue, mainVars
<1>10. CASE \E w \in Workers : \/ PrefillCheck(w) \/ PrefillPop(w) \/ PrefillOOM(w)
                               \/ PrefillTable(w) \/ PrefillForward(w) \/ PrefillForget(w)
  BY <1>2, <1>10 DEF PrefillCheck, PrefillPop, PrefillOOM, PrefillTable, PrefillForward,
       PrefillForget
<1>11. CASE Decode \/ CollocatedStep \/ \E r \in Requests : CopyDone(r)
  BY <1>2, <1>11 DEF Decode, DecodeStart, DecodeAppend, DecodeEvict, DecodeForward,
       CollocatedStep, CopyDone
<1> QED
  BY <1>3, <1>4, <1>5, <1>6, <1>7, <1>8, <1>9, <1>10, <1>11 DEF Next, Main, Prefill

LEMMA StateStep ==
  ASSUME TypeOK, Grouped, Next
  PROVE  StateTyped'
<1> USE DEF StateTyped
<1>1. StateTyped
  BY Types
<1>2. CASE UNCHANGED stateVars
  BY <1>1, <1>2 DEF stateVars
<1>3. CASE RouteOne
  <2>1. waiting[pos] \in Requests
    BY <1>3, Types DEF RouteOne, MainTyped
  <2>2. PICK p \in AllowedPaths(waiting[pos]) :
          /\ known' = known \cup {waiting[pos]}
          /\ path' = [path EXCEPT ![waiting[pos]] = p]
          /\ out' = [out EXCEPT ![waiting[pos]] = 0]
          /\ fin' = [fin EXCEPT ![waiting[pos]] = FALSE]
    BY <1>3 DEF RouteOne
  <2>3. p \in Paths
    <3>1. AllowedPaths(waiting[pos]) \subseteq Paths
      BY <2>1, RoutesAssumption DEF AllowedPaths, Paths
    <3> QED
      BY <2>2, <3>1
  <2> QED
    BY <1>1, <2>1, <2>2, <2>3
<1>4. CASE Requeue \/ \E w \in Workers : PrefillForget(w)
  BY <1>1, <1>4 DEF Requeue, PrefillForget
<1>5. CASE Flush
  <2>1. /\ out' = [r \in Requests |->
             IF r \in Range(Keep(done, known)) THEN out[r] + 1 ELSE out[r]]
        /\ known' = known /\ path' = path /\ fin' = fin
    BY <1>5 DEF Flush
  <2> QED
    BY <1>1, <2>1
<1>6. ASSUME NEW r \in Requests, EnforceCollocated(r)
      PROVE  StateTyped'
  BY <1>1, <1>6, Types DEF EnforceCollocated, CollTyped
<1>7. ASSUME NEW r \in Requests, EnforceDisaggregated(r)
      PROVE  StateTyped'
  <2>1. AtLimit(r) \in BOOLEAN
    BY DEF AtLimit
  <2>2. fin' = [fin EXCEPT ![r] = @ \/ AtLimit(r)]
    BY <1>7 DEF EnforceDisaggregated
  <2>3. fin' \in [Requests -> BOOLEAN]
    BY <1>1, <2>2, Zenon
  <2> QED
    BY <1>1, <1>7, <2>3 DEF EnforceDisaggregated
<1>8. CASE DecodeEvict
  <2>1. fin' \in [Requests -> BOOLEAN]
    BY <1>8, Zenon DEF DecodeEvict, FinAfter
  <2> QED
    BY <1>1, <1>8, <2>1 DEF DecodeEvict
<1>9. CASE DecodeForward
  <2>1. fin' \in [Requests -> BOOLEAN]
    BY <1>9 DEF DecodeForward, FinAfter
  <2>2. out' \in [Requests -> Nat]
    <3>1. out' = [r \in Requests |->
             IF r \in Range(dwRun) \cap known THEN out[r] + 1 ELSE out[r]]
      BY <1>9 DEF DecodeForward
    <3> QED
      BY <1>1, <3>1
  <2> QED
    BY <1>1, <1>9, <2>1, <2>2 DEF DecodeForward
<1>10. CASE CollocatedStep
  <2> DEFINE new == (cwFin \cup (cwRun \cap cwStop)) \cap {r \in known : ~ fin[r]}
  <2>1. /\ out' = [r \in Requests |-> IF r \in new THEN cwOut[r] ELSE out[r]]
        /\ fin' = [r \in Requests |-> fin[r] \/ r \in new]
        /\ known' = known /\ path' = path
    BY <1>10 DEF CollocatedStep
  <2> HIDE DEF new
  <2>2. out' \in [Requests -> Nat]
    BY <1>1, <2>1, Types DEF CollTyped
  <2>3. fin' \in [Requests -> BOOLEAN]
    BY <2>1, Zenon
  <2> QED
    BY <1>1, <2>1, <2>2, <2>3
<1>11. CASE \E r \in Requests : AddRequest(r) \/ CopyDone(r)
  BY <1>2, <1>11 DEF AddRequest, CopyDone
<1>12. CASE CheckWaiting \/ CheckStates \/ CheckRest \/ Dispatch \/ RouteEnd \/ Clear
  BY <1>2, <1>12 DEF CheckWaiting, CheckStates, CheckRest, Dispatch, RouteEnd, Clear
<1>13. CASE Join \/ EnforceEnd \/ EnforceCrash \/ \E w \in Workers : Fire(w)
  BY <1>2, <1>13 DEF Join, EnforceEnd, EnforceCrash, Fire
<1>14. CASE \E w \in Workers : \/ PrefillCheck(w) \/ PrefillPop(w) \/ PrefillOOM(w)
                               \/ PrefillTable(w) \/ PrefillForward(w) \/ PrefillRequeue(w)
  BY <1>2, <1>14 DEF PrefillCheck, PrefillPop, PrefillOOM, PrefillTable, PrefillForward,
       PrefillRequeue
<1>15. CASE DecodeStart \/ DecodeAppend
  BY <1>2, <1>15 DEF DecodeStart, DecodeAppend
<1> QED
  BY <1>3, <1>4, <1>5, <1>6, <1>7, <1>8, <1>9, <1>10, <1>11, <1>12, <1>13, <1>14, <1>15
     DEF Next, Main, Prefill, Decode

LEMMA PrefillStep ==
  ASSUME TypeOK, Next
  PROVE  PrefillTyped'
<1> USE DEF PrefillTyped
<1>1. PrefillTyped
  BY Types
<1>2. CASE UNCHANGED prefillVars
  BY <1>1, <1>2 DEF prefillVars
<1>3. ASSUME NEW w \in Workers, Fire(w)
      PROVE  PrefillTyped'
  BY <1>1, <1>3, Types DEF Fire, MainTyped
<1>4. CASE Flush
  BY <1>1, <1>4 DEF Flush
<1>5. ASSUME NEW w \in Workers, PrefillCheck(w)
      PROVE  PrefillTyped'
  BY <1>1, <1>5 DEF PrefillCheck
<1>6. ASSUME NEW w \in Workers, PrefillPop(w) \/ PrefillOOM(w)
      PROVE  PrefillTyped'
  <2>1. \/ batch' = batch /\ wpc' = wpc
        \/ batch' = [batch EXCEPT ![w] = <<>>] /\ wpc' = [wpc EXCEPT ![w] = "idle"]
    BY <1>6 DEF PrefillPop, PrefillOOM
  <2>2. batch' \in [Workers -> Seq(Requests)]
    <3>1. \A v \in Workers : batch'[v] = batch[v] \/ batch'[v] = <<>>
      BY <1>1, <2>1
    <3>2. \A v \in Workers : batch'[v] \in Seq(Requests)
      BY <1>1, <3>1, SeqFacts, Zenon
    <3>3. batch' = [v \in Workers |-> batch'[v]]
      BY <1>1, <2>1
    <3> QED
      BY <3>2, <3>3
  <2>3. wpc' \in [Workers -> {"idle", "check", "pop", "forward", "requeue", "forget"}]
    BY <1>1, <2>1
  <2>4. wpos' = wpos /\ done' = done
    BY <1>6 DEF PrefillPop, PrefillOOM
  <2> QED
    BY <1>1, <2>2, <2>3, <2>4
<1>7. ASSUME NEW w \in Workers, PrefillTable(w)
      PROVE  PrefillTyped'
  <2>1. wpos' = [wpos EXCEPT ![w] = wpos[w] + 1] /\ wpos[w] + 1 \in Nat \ {0}
    BY <1>1, <1>7 DEF PrefillTable
  <2>2. /\ \/ wpc' = [wpc EXCEPT ![w] = "forward"]
           \/ wpc' = [wpc EXCEPT ![w] = "check"]
        /\ batch' = batch /\ done' = done
    BY <1>7 DEF PrefillTable
  <2> QED
    BY <1>1, <2>1, <2>2
<1>8. ASSUME NEW w \in Workers, PrefillForward(w)
      PROVE  PrefillTyped'
  <2>1. done' \in Seq(Requests)
    BY <1>1, <1>8 DEF PrefillForward
  <2> QED
    BY <1>1, <1>8, <2>1 DEF PrefillForward
<1>9. ASSUME NEW w \in Workers, PrefillRequeue(w)
      PROVE  PrefillTyped'
  BY <1>1, <1>9 DEF PrefillRequeue
<1>10. ASSUME NEW w \in Workers, PrefillForget(w)
       PROVE  PrefillTyped'
  <2>1. wpos' = [wpos EXCEPT ![w] = wpos[w] + 1] /\ wpos[w] + 1 \in Nat \ {0}
    BY <1>1, <1>10 DEF PrefillForget
  <2>2. /\ \/ wpc' = [wpc EXCEPT ![w] = "idle"] /\ batch' = [batch EXCEPT ![w] = <<>>]
           \/ wpc' = [wpc EXCEPT ![w] = "requeue"] /\ batch' = batch
        /\ done' = done
    BY <1>10 DEF PrefillForget
  <2>3. batch' \in [Workers -> Seq(Requests)]
    <3>1. \A v \in Workers : batch'[v] = batch[v] \/ batch'[v] = <<>>
      BY <1>1, <2>2
    <3>2. \A v \in Workers : batch'[v] \in Seq(Requests)
      BY <1>1, <3>1, SeqFacts, Zenon
    <3>3. batch' = [v \in Workers |-> batch'[v]]
      BY <1>1, <2>2
    <3> QED
      BY <3>2, <3>3
  <2>4. wpc' \in [Workers -> {"idle", "check", "pop", "forward", "requeue", "forget"}]
    BY <1>1, <2>2
  <2> QED
    BY <1>1, <2>1, <2>2, <2>3, <2>4
<1>11. CASE \E r \in Requests : \/ AddRequest(r) \/ CopyDone(r)
                                \/ EnforceCollocated(r) \/ EnforceDisaggregated(r)
  BY <1>2, <1>11 DEF AddRequest, CopyDone, EnforceCollocated, EnforceDisaggregated
<1>12. CASE \/ CheckWaiting \/ CheckStates \/ CheckRest \/ Dispatch \/ RouteOne
            \/ RouteEnd \/ Clear
  BY <1>2, <1>12 DEF CheckWaiting, CheckStates, CheckRest, Dispatch, RouteOne, RouteEnd, Clear
<1>13. CASE Requeue \/ Join \/ EnforceEnd \/ EnforceCrash
  BY <1>2, <1>13 DEF Requeue, Join, EnforceEnd, EnforceCrash
<1>14. CASE Decode \/ CollocatedStep
  BY <1>2, <1>14 DEF Decode, DecodeStart, DecodeAppend, DecodeEvict, DecodeForward,
       CollocatedStep
<1> QED
  BY <1>3, <1>4, <1>5, <1>6, <1>7, <1>8, <1>9, <1>10, <1>11, <1>12, <1>13, <1>14
     DEF Next, Main, Prefill

LEMMA DecodeStep ==
  ASSUME TypeOK, Next
  PROVE  DecodeTyped'
<1> USE DEF DecodeTyped
<1>1. DecodeTyped /\ done \in Seq(Requests)
  BY Types DEF PrefillTyped
<1>2. CASE UNCHANGED decodeVars
  BY <1>1, <1>2 DEF decodeVars
<1>3. CASE Flush
  <2> DEFINE live == Keep(done, known)
  <2>1. /\ pending' = pending \o live /\ live \in Seq(Requests) /\ dpc' = "start"
        /\ UNCHANGED <<seqOut, copied, dwRun, dpos>>
    BY <1>1, <1>3, KeepSeq DEF Flush
  <2> HIDE DEF live
  <2>2. /\ pending' \in Seq(Requests) /\ Len(pending') = Len(pending) + Len(live)
        /\ \A i \in 1 .. Len(pending) : pending'[i] = pending[i]
        /\ Len(pending) \in Nat /\ Len(live) \in Nat
    BY <1>1, <2>1
  <2>3. Range(pending) \subseteq Range(pending')
    <3>1. SUFFICES ASSUME NEW i \in DOMAIN pending
                   PROVE  pending[i] \in Range(pending')
      BY DEF Range
    <3>2. DOMAIN pending = 1 .. Len(pending) /\ DOMAIN pending' = 1 .. Len(pending')
      BY <1>1, <2>2
    <3>3. i \in DOMAIN pending' /\ pending'[i] = pending[i]
      BY <2>2, <3>2
    <3> QED
      BY <3>3 DEF Range
  <2> QED
    BY <1>1, <2>1, <2>2, <2>3
<1>4. ASSUME NEW r \in Requests, EnforceDisaggregated(r)
      PROVE  DecodeTyped'
  <2>1. dwRun' \in Seq(Requests)
    BY <1>1, <1>4, KeepSeq DEF EnforceDisaggregated
  <2> QED
    BY <1>1, <1>4, <2>1 DEF EnforceDisaggregated
<1>5. ASSUME NEW w \in Workers, PrefillForward(w)
      PROVE  DecodeTyped'
  <2>1. seqOut' = [r \in Requests |-> IF r \in Range(batch[w]) THEN 1 ELSE seqOut[r]]
    BY <1>5 DEF PrefillForward
  <2>2. seqOut' \in [Requests -> Nat]
    BY <1>1, <2>1
  <2> QED
    BY <1>1, <1>5, <2>2 DEF PrefillForward
<1>6. CASE \E r \in Requests : CopyDone(r)
  BY <1>1, <1>6 DEF CopyDone
<1>7. Ready \in Seq(Requests) /\ NotReady \in Seq(Requests)
  BY <1>1, KeepSeq DEF Ready, NotReady
<1>8. CASE DecodeStart
  <2>1. /\ dwRun' = dwRun \o Ready /\ pending' = NotReady /\ copied' = {}
        /\ dpos' = 1 /\ dpc' \in {"off", "append"} /\ seqOut' = seqOut
    BY <1>8 DEF DecodeStart
  <2>2. dwRun' \in Seq(Requests)
    BY <1>1, <1>7, <2>1
  <2> QED
    BY <1>1, <1>7, <2>1, <2>2
<1>9. CASE DecodeAppend
  <2>1. dpos' \in Nat \ {0}
    BY <1>1, <1>9 DEF DecodeAppend
  <2> QED
    BY <1>1, <1>9, <2>1 DEF DecodeAppend
<1>10. CASE DecodeEvict
  <2>1. dwRun' = Tail(dwRun) /\ dwRun \in Seq(Requests) /\ dwRun # <<>>
    BY <1>1, <1>10 DEF DecodeEvict
  <2>2. dwRun' \in Seq(Requests)
    BY <2>1, SeqFacts, Zenon
  <2> QED
    BY <1>1, <1>10, <2>2 DEF DecodeEvict
<1>11. CASE DecodeForward
  <2>1. PICK eos \in SUBSET Range(dwRun) :
          \/ UNCHANGED <<pending, copied>> /\ dwRun' = Keep(dwRun, Requests \ eos)
          \/ /\ pending' = NotReady /\ copied' = {}
             /\ dwRun' = Keep(dwRun, Requests \ eos) \o Ready
    BY <1>11 DEF DecodeForward
  <2> DEFINE stay == Keep(dwRun, Requests \ eos)
  <2>2. stay \in Seq(Requests)
    BY <1>1, KeepSeq
  <2>3. dwRun' = stay \/ dwRun' = stay \o Ready
    BY <2>1
  <2> HIDE DEF stay
  <2>4. dwRun' \in Seq(Requests)
    <3>1. stay \o Ready \in Seq(Requests)
      BY <1>7, <2>2, SeqFacts, Zenon
    <3> QED
      BY <2>2, <2>3, <3>1
  <2>5. pending' \in Seq(Requests) /\ copied' \subseteq Range(pending')
    BY <1>1, <1>7, <2>1
  <2>6. seqOut' = [r \in Requests |->
          IF r \in Range(dwRun) THEN seqOut[r] + 1 ELSE seqOut[r]]
    BY <1>11 DEF DecodeForward
  <2>7. seqOut' \in [Requests -> Nat]
    BY <1>1, <2>6
  <2> QED
    BY <1>1, <1>11, <2>4, <2>5, <2>7 DEF DecodeForward
<1>12. CASE \E r \in Requests : AddRequest(r) \/ EnforceCollocated(r)
  BY <1>2, <1>12 DEF AddRequest, EnforceCollocated
<1>13. CASE \/ CheckWaiting \/ CheckStates \/ CheckRest \/ Dispatch \/ RouteOne
            \/ RouteEnd \/ Clear
  BY <1>2, <1>13 DEF CheckWaiting, CheckStates, CheckRest, Dispatch, RouteOne, RouteEnd, Clear
<1>14. CASE (\E w \in Workers : Fire(w)) \/ Requeue \/ Join \/ EnforceEnd \/ EnforceCrash
  BY <1>2, <1>14 DEF Fire, Requeue, Join, EnforceEnd, EnforceCrash
<1>15. CASE \E w \in Workers : \/ PrefillCheck(w) \/ PrefillPop(w) \/ PrefillOOM(w)
                               \/ PrefillTable(w) \/ PrefillRequeue(w) \/ PrefillForget(w)
  BY <1>2, <1>15 DEF PrefillCheck, PrefillPop, PrefillOOM, PrefillTable, PrefillRequeue,
       PrefillForget
<1>16. CASE CollocatedStep
  BY <1>2, <1>16 DEF CollocatedStep
<1> QED
  BY <1>3, <1>4, <1>5, <1>6, <1>8, <1>9, <1>10, <1>11, <1>12, <1>13, <1>14, <1>15, <1>16
     DEF Next, Main, Prefill, Decode

LEMMA CollStep ==
  ASSUME TypeOK, Next
  PROVE  CollTyped'
<1> USE DEF CollTyped
<1>1. CollTyped
  BY Types
<1>2. CASE UNCHANGED collVars
  BY <1>1, <1>2 DEF collVars
<1>3. CASE RouteOne
  <2>1. waiting[pos] \in Requests
    BY <1>3, Types DEF RouteOne, MainTyped
  <2>2. cwWait' = cwWait \/ cwWait' = Append(cwWait, waiting[pos])
    BY <1>3 DEF RouteOne
  <2>3. cwWait' \in Seq(Requests)
    BY <1>1, <2>1, <2>2
  <2> QED
    BY <1>1, <1>3, <2>3 DEF RouteOne
<1>4. CASE Flush
  BY <1>1, <1>4 DEF Flush
<1>5. ASSUME NEW r \in Requests, EnforceCollocated(r)
      PROVE  CollTyped'
  <2>1. cwStop' \subseteq cwRun /\ UNCHANGED <<cpc, cwWait, cwRun, cwFin, cwOut>>
    BY <1>1, <1>5 DEF EnforceCollocated
  <2> QED
    BY <1>1, <2>1
<1>6. CASE CollocatedStep
  <2> DEFINE live == cwRun \ cwStop
  <2>1. PICK first \in SUBSET Requests, eos \in SUBSET live :
          /\ cwWait' = cwWait \/ (cwWait # <<>> /\ cwWait' = Tail(cwWait))
          /\ cwRun' = live \cup first
          /\ cwOut' = [r \in Requests |->
               IF r \in first THEN 1 ELSE IF r \in live THEN cwOut[r] + 1 ELSE cwOut[r]]
          /\ cwStop' = eos
    <3>1. cwWait # <<>> => {Head(cwWait)} \in SUBSET Requests
      BY <1>1
    <3>2. PICK first \in IF cwWait # <<>> /\ Cardinality(live) < MaxBatch
                         THEN {{Head(cwWait)}} ELSE {{}}, eos \in SUBSET live :
          /\ cwWait' = IF first = {} THEN cwWait ELSE Tail(cwWait)
          /\ cwRun' = live \cup first
          /\ cwOut' = [r \in Requests |->
               IF r \in first THEN 1 ELSE IF r \in live THEN cwOut[r] + 1 ELSE cwOut[r]]
          /\ cwStop' = eos
      BY <1>6 DEF CollocatedStep
    <3>3. first \in SUBSET Requests /\ (first # {} => cwWait # <<>>)
      BY <3>1, <3>2
    <3> QED
      BY <3>2, <3>3
  <2>2. cwWait' \in Seq(Requests)
    <3>1. cwWait # <<>> => Tail(cwWait) \in Seq(Requests)
      BY <1>1
    <3> QED
      BY <1>1, <2>1, <3>1
  <2>3. cwRun' \subseteq Requests /\ cwStop' \subseteq cwRun'
    BY <1>1, <2>1
  <2>4. cwOut' \in [Requests -> Nat]
    BY <1>1, <2>1
  <2>5. cwFin' \subseteq Requests /\ cpc' = "off"
    BY <1>1, <1>6 DEF CollocatedStep
  <2> QED
    BY <2>2, <2>3, <2>4, <2>5
<1>7. CASE \E r \in Requests : AddRequest(r) \/ CopyDone(r) \/ EnforceDisaggregated(r)
  BY <1>2, <1>7 DEF AddRequest, CopyDone, EnforceDisaggregated
<1>8. CASE CheckWaiting \/ CheckStates \/ CheckRest \/ Dispatch \/ RouteEnd \/ Clear
  BY <1>2, <1>8 DEF CheckWaiting, CheckStates, CheckRest, Dispatch, RouteEnd, Clear
<1>9. CASE (\E w \in Workers : Fire(w)) \/ Requeue \/ Join \/ EnforceEnd \/ EnforceCrash
  BY <1>2, <1>9 DEF Fire, Requeue, Join, EnforceEnd, EnforceCrash
<1>10. CASE \E w \in Workers : Prefill(w)
  BY <1>2, <1>10 DEF Prefill, PrefillCheck, PrefillPop, PrefillOOM, PrefillTable,
       PrefillForward, PrefillRequeue, PrefillForget
<1>11. CASE Decode
  BY <1>2, <1>11 DEF Decode, DecodeStart, DecodeAppend, DecodeEvict, DecodeForward
<1> QED
  BY <1>3, <1>4, <1>5, <1>6, <1>7, <1>8, <1>9, <1>10, <1>11 DEF Next, Main

LEMMA TypeStep ==
  ASSUME TypeOK, Grouped, Pool', Next
  PROVE  TypeOK'
<1>1. MainTyped' /\ StateTyped' /\ PrefillTyped' /\ DecodeTyped' /\ CollTyped'
  BY MainStep, StateStep, PrefillStep, DecodeStep, CollStep
<1>2. /\ free' \in 0 .. NumBlocks /\ held' \in [Requests -> 0 .. NumBlocks]
      /\ got' \in [Workers -> 0 .. NumBlocks]
  BY DEF Pool, PoolInv
<1> QED
  BY <1>1, <1>2
     DEF TypeOK, MainTyped, StateTyped, PrefillTyped, DecodeTyped, CollTyped
-----------------------------------------------------------------------------
(* A request that was not added is nowhere, and AddRequest puts it in one  *)
(* place.                                                                  *)
NotArrived == \A r \in Requests \ arrived : Places(r) = 0

LEMMA FewerStep ==
  ASSUME TypeOK, TypeOK', Grouped, Next
  PROVE  Fewer \/ \E r \in Requests : AddRequest(r)
<1>1. CASE \E r \in Requests : AddRequest(r)
  BY <1>1
<1>2. CASE \/ CheckWaiting \/ CheckStates \/ CheckRest \/ RouteEnd \/ Join
           \/ (\E r \in Requests : EnforceCollocated(r) \/ CopyDone(r))
           \/ EnforceEnd \/ EnforceCrash \/ DecodeAppend
           \/ (\E w \in Workers : PrefillPop(w))
  BY <1>2, QuietSteps
<1>3. CASE Dispatch \/ RouteOne \/ Clear \/ Requeue \/ Flush
  BY <1>3, DispatchFewer, RouteOneFewer, ClearFewer, RequeueFewer, FlushFewer
<1>4. CASE (\E w \in Workers : Fire(w)) \/ \E r \in Requests : EnforceDisaggregated(r)
  BY <1>4, FireFewer, EnforceFewer
<1>5. CASE \E w \in Workers : \/ PrefillCheck(w) \/ PrefillOOM(w) \/ PrefillTable(w)
                              \/ PrefillForward(w) \/ PrefillRequeue(w) \/ PrefillForget(w)
  BY <1>5, PrefillCheckFewer, PrefillOOMFewer, PrefillTableFewer, PrefillForwardFewer,
     PrefillRequeueFewer, PrefillForgetFewer
<1>6. CASE DecodeStart \/ DecodeEvict \/ DecodeForward \/ CollocatedStep
  BY <1>6, DecodeStartFewer, DecodeEvictFewer, DecodeForwardFewer, CollocatedFewer
<1> QED
  BY <1>1, <1>2, <1>3, <1>4, <1>5, <1>6 DEF Next, Main, Prefill, Decode

LEMMA AddStep ==
  ASSUME TypeOK, TypeOK', NEW q \in Requests, AddRequest(q), NEW r \in Requests
  PROVE  Places(r)' <= Places(r) + (IF r = q THEN 1 ELSE 0)
<1>1. Total(r) /\ Total(r)'
  BY Totals, TotalsAfter DEF AllTotals
<1>2. /\ Claimed(r)' = Claimed(r) /\ Prefilling(r)' = Prefilling(r)
      /\ Done(r)' = Done(r) /\ Pending(r)' = Pending(r)
      /\ Decoding(r)' = Decoding(r) /\ CwWaiting(r)' = CwWaiting(r)
      /\ CwRunning(r)' = CwRunning(r)
  BY SameParts DEF AddRequest, prefillVars, decodeVars, collVars
<1>3. waiting \in Seq(Requests) /\ Passed = 0 /\ Passed' = 0 /\ waiting' = Append(waiting, q)
  BY DEF TypeOK, AddRequest, Passed
<1>4. Occurs(r, Append(waiting, q), 0) <= Occurs(r, waiting, 0) + (IF q = r THEN 1 ELSE 0)
  BY <1>3, OccursAppend
<1>5. Waiting(r)' <= Waiting(r) + (IF r = q THEN 1 ELSE 0)
  BY <1>3, <1>4 DEF Waiting
<1>6. CASE r = q
  BY <1>1, <1>2, <1>5, <1>6 DEF Total
<1>7. CASE r # q
  BY <1>1, <1>2, <1>5, <1>7 DEF Total
<1> QED
  BY <1>6, <1>7

LEMMA PlacesNat == TypeOK => \A r \in Requests : Places(r) \in Nat
<1> SUFFICES ASSUME TypeOK, NEW r \in Requests
             PROVE  Places(r) \in Nat
  OBVIOUS
<1>1. Total(r)
  BY Totals DEF AllTotals
<1> QED
  BY <1>1 DEF Total

LEMMA PlacesNatAfter == TypeOK' => (\A r \in Requests : Places(r) \in Nat)'
BY PlacesNat, PTL

LEMMA ServedStep ==
  ASSUME TypeOK, TypeOK', Grouped, ServedOnce, NotArrived, Next
  PROVE  ServedOnce' /\ NotArrived'
<1>1. \A r \in Requests : Places(r) \in Nat /\ Places(r)' \in Nat
  BY PlacesNat, PlacesNatAfter
<1>2. arrived \subseteq arrived'
  BY DEF Next, Main, Prefill, Decode, AddRequest, CopyDone, CheckWaiting, CheckStates,
     CheckRest, Dispatch, RouteOne, RouteEnd, Clear, Fire, Requeue, Flush, Join,
     EnforceCollocated, EnforceDisaggregated, EnforceEnd, EnforceCrash, PrefillCheck,
     PrefillPop, PrefillOOM, PrefillTable, PrefillForward, PrefillRequeue, PrefillForget,
     DecodeStart, DecodeAppend, DecodeEvict, DecodeForward, CollocatedStep, mainVars
<1>3. CASE Fewer
  <2>1. ASSUME NEW r \in Requests
        PROVE  Places(r)' <= 1 /\ (r \notin arrived' => Places(r)' = 0)
    BY <1>1, <1>2, <1>3 DEF Fewer, ServedOnce, NotArrived
  <2> QED
    BY <2>1 DEF ServedOnce, NotArrived
<1>4. ASSUME NEW q \in Requests, AddRequest(q)
      PROVE  ServedOnce' /\ NotArrived'
  <2>1. q \notin arrived /\ arrived' = arrived \cup {q}
    BY <1>4 DEF AddRequest
  <2>2. ASSUME NEW r \in Requests
        PROVE  Places(r)' <= 1 /\ (r \notin arrived' => Places(r)' = 0)
    <3>1. Places(r)' <= Places(r) + (IF r = q THEN 1 ELSE 0)
      BY <1>4, AddStep
    <3>2. CASE r = q
      BY <1>1, <2>1, <3>1, <3>2 DEF NotArrived
    <3>3. CASE r # q
      BY <1>1, <2>1, <3>1, <3>3 DEF ServedOnce, NotArrived
    <3> QED
      BY <3>2, <3>3
  <2> QED
    BY <2>2 DEF ServedOnce, NotArrived
<1> QED
  BY <1>3, <1>4, FewerStep

(* The inductive invariant.                                                *)
Ind == TypeOK /\ Grouped /\ Pool /\ ServedOnce /\ NotArrived

LEMMA InitInd == Init => Ind
<1> SUFFICES ASSUME Init
             PROVE  Ind
  OBVIOUS
<1>1. TypeOK
  <2>1. /\ MainTyped /\ StateTyped /\ PrefillTyped /\ DecodeTyped /\ CollTyped
    BY DEF Init, MainTyped, StateTyped, PrefillTyped, DecodeTyped, CollTyped, Paths, Range
  <2>2. /\ free \in 0 .. NumBlocks /\ held \in [Requests -> 0 .. NumBlocks]
        /\ got \in [Workers -> 0 .. NumBlocks]
    BY SizesAssumption DEF Init
  <2> QED
    BY <2>1, <2>2, Types
<1>2. Grouped
  BY DEF Init, Grouped
<1>3. Pool
  <2>1. /\ free = NumBlocks /\ \A r \in Requests : held[r] = 0
        /\ \A w \in Workers : got[w] = 0
    BY DEF Init
  <2>2. Sum(held, Requests) = 0 /\ Sum(got, Workers) = 0
    BY <2>1, SumNone, Zenon
  <2>3. free \in Nat /\ held \in [Requests -> Nat] /\ got \in [Workers -> Nat]
    BY SizesAssumption DEF Init
  <2>4. free + Sum(held, Requests) + Sum(got, Workers) <= NumBlocks
    BY <2>1, <2>2, <2>3
  <2> QED
    BY <2>3, <2>4, PoolBound DEF Pool
<1>4. \A r \in Requests : Places(r) = 0
  <2> TAKE r \in Requests
  <2>1. /\ Waiting(r) = 0 /\ Claimed(r) = 0 /\ Done(r) = 0 /\ Pending(r) = 0
        /\ Decoding(r) = 0 /\ CwWaiting(r) = 0 /\ CwRunning(r) = 0
    BY OccursNone DEF Init, Passed, Waiting, Claimed, Done, Pending, Decoding, CwWaiting,
       CwRunning
  <2>2. ASSUME NEW w \in Workers
        PROVE  InPrefill(r)[w] = 0
    <3>1. batch[w] = <<>> /\ PutBack(w) = 0
      BY DEF Init, PutBack
    <3> QED
      BY <3>1, OccursNone DEF InPrefill
  <2>3. Prefilling(r) = 0
    BY <2>2, SumNone, Zenon DEF Prefilling
  <2>4. Total(r)
    BY <1>1, Totals DEF AllTotals
  <2> QED
    BY <2>1, <2>3, <2>4 DEF Total
<1> QED
  BY <1>1, <1>2, <1>3, <1>4 DEF Ind, ServedOnce, NotArrived

LEMMA NextInd == Ind /\ [Next]_vars => Ind'
<1> SUFFICES ASSUME Ind, [Next]_vars
             PROVE  Ind'
  OBVIOUS
<1>1. CASE Next
  <2>1. Pool'
    BY <1>1, PoolStep DEF Ind
  <2>2. Grouped'
    BY <1>1, GroupedStep DEF Ind
  <2>3. TypeOK'
    BY <1>1, <2>1, TypeStep DEF Ind
  <2>4. ServedOnce' /\ NotArrived'
    BY <1>1, <2>3, ServedStep DEF Ind
  <2> QED
    BY <2>1, <2>2, <2>3, <2>4 DEF Ind
<1>2. CASE UNCHANGED vars
  <2>1. TypeOK'
    BY <1>2 DEF Ind, TypeOK, vars, mainVars, stateVars, poolVars, prefillVars, decodeVars,
       collVars
  <2>2. Pool'
    BY <1>2 DEF Ind, Pool, vars, poolVars, prefillVars
  <2>3. Grouped'
    BY <1>2 DEF Ind, Grouped, vars, mainVars, prefillVars
  <2>4. Fewer
    BY <1>2, <2>1, QuietFewer DEF Ind, Passed, vars, mainVars, prefillVars, decodeVars,
       collVars
  <2>5. arrived' = arrived
    BY <1>2 DEF vars, mainVars
  <2>6. \A r \in Requests : Places(r) \in Nat /\ Places(r)' \in Nat
    BY <2>1, PlacesNat, PlacesNatAfter DEF Ind
  <2>7. ASSUME NEW r \in Requests
        PROVE  Places(r)' <= 1 /\ (r \notin arrived' => Places(r)' = 0)
    BY <2>4, <2>5, <2>6 DEF Fewer, Ind, ServedOnce, NotArrived
  <2> QED
    BY <2>1, <2>2, <2>3, <2>7 DEF Ind, ServedOnce, NotArrived
<1> QED
  BY <1>1, <1>2

LEMMA Inductive == Spec => []Ind
BY InitInd, NextInd, PTL DEF Spec

(* The variables keep their types, through every interleaving of the main  *)
(* thread, the prefill threads and the two threads of a step; in           *)
(* particular copy events have fired only for pending transfers.           *)
THEOREM TypeCorrect == Spec => []TypeOK
<1>1. Ind => TypeOK
  BY DEF Ind
<1> QED
  BY <1>1, Inductive, PTL

(* For any requests, workers and pool: whatever is freed by eviction, EOS  *)
(* and the length check, and whatever tables a requeued batch overwrites,  *)
(* no block is in the pool twice.                                          *)
THEOREM NoDoubleFree == Spec => []NeverFreedTwice
<1>1. Ind => NeverFreedTwice
  BY DEF Ind, Pool, PoolInv, NeverFreedTwice
<1> QED
  BY <1>1, Inductive, PTL

(* A request is never in two queues, batches or threads at once, whatever  *)
(* was requeued, cleared, evicted or dropped.                              *)
THEOREM OneService == Spec => []ServedOnce
<1>1. Ind => ServedOnce
  BY DEF Ind
<1> QED
  BY <1>1, Inductive, PTL
=============================================================================
