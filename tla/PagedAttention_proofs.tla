-------------------------- MODULE PagedAttention_proofs --------------------------
(***************************************************************************)
(* Theorems about the forward pass, for any batch whose tables are apart   *)
(* and long enough: every row of the flat batch meets its own sequence,    *)
(* when its key is stored, when it attends, and when it is sampled.        *)
(* And about its attention kernel, for any block size, number and size of  *)
(* warps and scores: with the warps in lockstep by their barriers, shared  *)
(* memory holds at every moment what the sequence's softmax needs of it.   *)
(***************************************************************************)
EXTENDS PagedAttention, FiniteSetTheorems, WellFoundedInduction, TLAPS

(* Every set of natural numbers but the empty one has a least element.     *)
LEMMA Least ==
  ASSUME NEW T \in SUBSET Nat, T # {}
  PROVE  \E n \in T : \A m \in T : n <= m
<1> DEFINE R == {ss \in Nat \X Nat : ss[1] < ss[2]}
<1>1. IsWellFoundedOn(R, Nat)
  BY NatLessThanWellFounded DEF OpToRel
<1>2. \E n \in T : \A m \in T : <<m, n>> \notin R
  <2> HIDE DEF R
  <2> QED
    BY <1>1, WFMin
<1>3. PICK n \in T : \A m \in T : <<m, n>> \notin R
  BY <1>2
<1>4. ASSUME NEW m \in T PROVE n <= m
  <2>1. m \in Nat /\ n \in Nat
    OBVIOUS
  <2>2. ~ m < n
    BY <1>3, <2>1
  <2> QED
    BY <2>1, <2>2
<1> QED
  BY <1>4
-----------------------------------------------------------------------------
(* Sums of lengths (token_offset, blk_offset, cumsum).                     *)
Sums(lens, n, g) == g = [i \in 0 .. n |-> IF i = 0 THEN 0 ELSE g[i - 1] + lens[i]]

LEMMA SumMeaning ==
  ASSUME NEW lens, NEW n
  PROVE  SumTo(lens, n) = (CHOOSE g : Sums(lens, n, g))[n]
  BY DEF SumTo, Sums

LEMMA SumsExist ==
  ASSUME NEW lens
  PROVE  \A n \in Nat : \E g : Sums(lens, n, g)
<1> DEFINE Fails == {n \in Nat : ~ \E g : Sums(lens, n, g)}
<1> SUFFICES ASSUME Fails # {} PROVE FALSE
  OBVIOUS
<1>1. PICK n \in Fails : \A m \in Fails : n <= m
  <2>1. Fails \in SUBSET Nat
    OBVIOUS
  <2> HIDE DEF Fails
  <2> QED
    BY <2>1, Least
<1>2. n \in Nat /\ ~ \E g : Sums(lens, n, g)
  OBVIOUS
<1>3. CASE n = 0
  <2> DEFINE g == [i \in 0 .. n |-> 0]
  <2>1. \A i \in 0 .. n : i = 0
    BY <1>3
  <2>2. g = [i \in 0 .. n |-> IF i = 0 THEN 0 ELSE g[i - 1] + lens[i]]
    BY <2>1
  <2>3. Sums(lens, n, g)
    BY <2>2 DEF Sums
  <2> QED
    BY <1>2, <2>3
<1>4. CASE n # 0
  <2>1. n - 1 \in Nat /\ n - 1 \notin Fails
    <3>1. n - 1 \in Nat /\ ~ n <= n - 1
      BY <1>2, <1>4
    <3> HIDE DEF Fails
    <3> QED
      BY <1>1, <3>1
  <2>2. PICK f : Sums(lens, n - 1, f)
    BY <2>1
  <2> DEFINE g == [i \in 0 .. n |-> IF i = 0 THEN 0 ELSE f[i - 1] + lens[i]]
  <2>3. ASSUME NEW i \in 0 .. n, i # 0
        PROVE  g[i - 1] = f[i - 1]
    <3>1. i - 1 \in 0 .. n - 1 /\ i - 1 \in 0 .. n
      BY <1>2, <2>3
    <3>2. f[i - 1] = IF i - 1 = 0 THEN 0 ELSE f[i - 1 - 1] + lens[i - 1]
      BY <2>2, <3>1, Zenon DEF Sums
    <3> QED
      BY <3>1, <3>2
  <2>4. g = [i \in 0 .. n |-> IF i = 0 THEN 0 ELSE g[i - 1] + lens[i]]
    <3>1. ASSUME NEW i \in 0 .. n
          PROVE  (IF i = 0 THEN 0 ELSE f[i - 1] + lens[i])
                   = (IF i = 0 THEN 0 ELSE g[i - 1] + lens[i])
      BY <2>3, Zenon
    <3> QED
      BY <3>1, Zenon
  <2> HIDE DEF g
  <2>5. Sums(lens, n, g)
    BY <2>4 DEF Sums
  <2> QED
    BY <1>2, <2>5
<1> QED
  BY <1>3, <1>4

LEMMA SumsAt ==
  ASSUME NEW lens, NEW n, NEW g, Sums(lens, n, g), NEW i \in 0 .. n
  PROVE  g[i] = IF i = 0 THEN 0 ELSE g[i - 1] + lens[i]
  BY Zenon DEF Sums

LEMMA SumsAgree ==
  ASSUME NEW lens, NEW n \in Nat, NEW m \in Nat, n <= m, NEW g, NEW h,
         Sums(lens, n, g), Sums(lens, m, h)
  PROVE  \A i \in 0 .. n : g[i] = h[i]
<1> DEFINE Fails == {i \in 0 .. n : g[i] # h[i]}
<1> SUFFICES ASSUME Fails # {} PROVE FALSE
  OBVIOUS
<1>1. PICK i \in Fails : \A k \in Fails : i <= k
  <2>1. Fails \in SUBSET Nat
    OBVIOUS
  <2> HIDE DEF Fails
  <2> QED
    BY <2>1, Least
<1>2. i \in 0 .. n /\ i \in 0 .. m /\ g[i] # h[i]
  OBVIOUS
<1>3. /\ g[i] = IF i = 0 THEN 0 ELSE g[i - 1] + lens[i]
      /\ h[i] = IF i = 0 THEN 0 ELSE h[i - 1] + lens[i]
  BY <1>2, SumsAt
<1>4. i # 0
  BY <1>2, <1>3
<1>5. i - 1 \in 0 .. n /\ ~ i <= i - 1
  BY <1>2, <1>4
<1>6. i - 1 \notin Fails
  <2> HIDE DEF Fails
  <2> QED
    BY <1>1, <1>5
<1>7. g[i - 1] = h[i - 1]
  BY <1>5, <1>6
<1> QED
  BY <1>2, <1>3, <1>4, <1>7

(* A sum is the one before and one more length.                            *)
LEMMA SumStep ==
  ASSUME NEW lens
  PROVE  /\ SumTo(lens, 0) = 0
         /\ \A n \in Nat : SumTo(lens, n + 1) = SumTo(lens, n) + lens[n + 1]
<1> DEFINE S(n) == CHOOSE g : Sums(lens, n, g)
<1>1. \A n \in Nat : Sums(lens, n, S(n)) /\ SumTo(lens, n) = S(n)[n]
  BY SumsExist, SumMeaning
<1> HIDE DEF S
<1>2. S(0)[0] = 0
  <2>1. Sums(lens, 0, S(0)) /\ 0 \in 0 .. 0
    BY <1>1
  <2> QED
    BY <2>1, Zenon DEF Sums
<1>3. ASSUME NEW n \in Nat
      PROVE  S(n + 1)[n + 1] = S(n)[n] + lens[n + 1]
  <2>1. n + 1 \in Nat /\ n <= n + 1 /\ n \in 0 .. n /\ n + 1 \in 0 .. n + 1
        /\ n + 1 # 0 /\ n + 1 - 1 = n
    OBVIOUS
  <2>2. Sums(lens, n, S(n)) /\ Sums(lens, n + 1, S(n + 1))
    BY <1>1, <2>1
  <2>3. S(n)[n] = S(n + 1)[n]
    BY <2>1, <2>2, SumsAgree
  <2>4. S(n + 1)[n + 1] = S(n + 1)[n + 1 - 1] + lens[n + 1]
    <3>1. S(n + 1)[n + 1] = IF n + 1 = 0 THEN 0 ELSE S(n + 1)[n + 1 - 1] + lens[n + 1]
      BY <2>1, <2>2, SumsAt
    <3> QED
      BY <2>1, <3>1, Zenon
  <2> QED
    BY <2>1, <2>3, <2>4, Zenon
<1>4. ASSUME NEW n \in Nat
      PROVE  SumTo(lens, n + 1) = SumTo(lens, n) + lens[n + 1]
  <2>1. n + 1 \in Nat
    OBVIOUS
  <2> QED
    BY <1>1, <1>3, <2>1
<1> QED
  BY <1>1, <1>2, <1>4

LEMMA SumType ==
  ASSUME NEW lens \in Seq(Nat)
  PROVE  \A n \in 0 .. Len(lens) : SumTo(lens, n) \in Nat
<1> DEFINE Fails == {n \in 0 .. Len(lens) : SumTo(lens, n) \notin Nat}
<1> SUFFICES ASSUME Fails # {} PROVE FALSE
  OBVIOUS
<1>1. PICK n \in Fails : \A m \in Fails : n <= m
  <2>1. Fails \in SUBSET Nat
    OBVIOUS
  <2> HIDE DEF Fails
  <2> QED
    BY <2>1, Least
<1>2. n \in 0 .. Len(lens) /\ SumTo(lens, n) \notin Nat
  OBVIOUS
<1>3. n # 0
  <2>1. SumTo(lens, 0) = 0
    BY SumStep, Zenon
  <2>2. 0 \in Nat
    OBVIOUS
  <2> HIDE DEF Fails
  <2> QED
    BY <1>2, <2>1, <2>2, Zenon
<1>4. n - 1 \in 0 .. Len(lens) /\ ~ n <= n - 1 /\ n - 1 \in Nat /\ n - 1 + 1 = n
  BY <1>2, <1>3
<1>5. SumTo(lens, n - 1) \in Nat
  <2>1. n - 1 \notin Fails
    <3> HIDE DEF Fails
    <3> QED
      BY <1>1, <1>4
  <2> QED
    BY <1>4, <2>1
<1>6. SumTo(lens, n) = SumTo(lens, n - 1) + lens[n]
  BY <1>4, SumStep
<1>7. lens[n] \in Nat
  BY <1>2, <1>3
<1> QED
  BY <1>2, <1>5, <1>6, <1>7

(* Sums grow by at least one length per step.                              *)
LEMMA SumMonotone ==
  ASSUME NEW lens \in Seq(Nat), NEW j \in 1 .. Len(lens)
  PROVE  \A n \in j .. Len(lens) : SumTo(lens, j - 1) + lens[j] <= SumTo(lens, n)
<1> DEFINE Fails == {n \in j .. Len(lens) : ~ SumTo(lens, j - 1) + lens[j] <= SumTo(lens, n)}
<1> SUFFICES ASSUME Fails # {} PROVE FALSE
  OBVIOUS
<1>1. PICK n \in Fails : \A m \in Fails : n <= m
  <2>1. Fails \in SUBSET Nat
    OBVIOUS
  <2> HIDE DEF Fails
  <2> QED
    BY <2>1, Least
<1>2. n \in j .. Len(lens) /\ ~ SumTo(lens, j - 1) + lens[j] <= SumTo(lens, n)
  OBVIOUS
<1>3. /\ n - 1 \in Nat /\ n - 1 \in 0 .. Len(lens) /\ n - 1 + 1 = n /\ n \in 1 .. Len(lens)
      /\ j - 1 \in 0 .. Len(lens) /\ n \in 0 .. Len(lens)
  BY <1>2
<1>4. SumTo(lens, n) = SumTo(lens, n - 1) + lens[n]
  BY <1>3, SumStep
<1>5. /\ SumTo(lens, n - 1) \in Nat /\ lens[n] \in Nat /\ lens[j] \in Nat
      /\ SumTo(lens, j - 1) \in Nat /\ SumTo(lens, n) \in Nat
  <2>1. lens[n] \in Nat /\ lens[j] \in Nat
    BY <1>3
  <2>2. \A k \in 0 .. Len(lens) : SumTo(lens, k) \in Nat
    BY SumType
  <2> QED
    BY <1>3, <2>1, <2>2
<1>6. n # j
  BY <1>2, <1>4, <1>5
<1>7. n - 1 \in j .. Len(lens) /\ ~ n <= n - 1
  BY <1>2, <1>6
<1>8. SumTo(lens, j - 1) + lens[j] <= SumTo(lens, n - 1)
  <2>1. n - 1 \notin Fails
    <3> HIDE DEF Fails
    <3> QED
      BY <1>1, <1>7
  <2> QED
    BY <1>7, <2>1
<1>9. \A a, d, e \in Nat : a <= d => a <= d + e
  OBVIOUS
<1>10. SumTo(lens, j - 1) + lens[j] \in Nat
  <2>1. \A a, d \in Nat : a + d \in Nat
    OBVIOUS
  <2> QED
    BY <1>5, <2>1, Zenon
<1>11. SumTo(lens, j - 1) + lens[j] <= SumTo(lens, n - 1) + lens[n]
  BY <1>5, <1>8, <1>9, <1>10
<1> QED
  BY <1>2, <1>4, <1>11
-----------------------------------------------------------------------------
(* Sequences put one after the other (the flat row, FlashInfer's indices). *)
Joins(seqs, n, g) == g = [i \in 1 .. n |-> IF i = 1 THEN seqs[i] ELSE g[i - 1] \o seqs[i]]

LEMMA ConcatType ==
  \A X : \A u, v \in Seq(X) : /\ u \o v \in Seq(X) /\ Len(u \o v) = Len(u) + Len(v)
                             /\ \A k \in 1 .. Len(u) : (u \o v)[k] = u[k]
  OBVIOUS

LEMMA ConcatAt ==
  \A X : \A u, v \in Seq(X) : \A k \in 1 .. Len(v) : (u \o v)[Len(u) + k] = v[k]
<1> SUFFICES ASSUME NEW X, NEW u \in Seq(X), NEW v \in Seq(X), NEW k \in 1 .. Len(v)
             PROVE  (u \o v)[Len(u) + k] = v[k]
  OBVIOUS
<1>1. /\ Len(u) \in Nat /\ Len(v) \in Nat /\ Len(u) + k \in 1 .. Len(u) + Len(v)
      /\ ~ Len(u) + k <= Len(u) /\ Len(u) + k - Len(u) = k
  OBVIOUS
<1>2. (u \o v)[Len(u) + k] = v[Len(u) + k - Len(u)]
  BY <1>1
<1> QED
  BY <1>1, <1>2, Zenon

LEMMA FlattenMeaning ==
  ASSUME NEW seqs, Len(seqs) # 0
  PROVE  FlattenSeq(seqs) = (CHOOSE g : Joins(seqs, Len(seqs), g))[Len(seqs)]
  BY DEF FlattenSeq, Joins

LEMMA JoinsExist ==
  ASSUME NEW seqs
  PROVE  \A n \in Nat : \E g : Joins(seqs, n, g)
<1> DEFINE Fails == {n \in Nat : ~ \E g : Joins(seqs, n, g)}
<1> SUFFICES ASSUME Fails # {} PROVE FALSE
  OBVIOUS
<1>1. PICK n \in Fails : \A m \in Fails : n <= m
  <2>1. Fails \in SUBSET Nat
    OBVIOUS
  <2> HIDE DEF Fails
  <2> QED
    BY <2>1, Least
<1>2. n \in Nat /\ ~ \E g : Joins(seqs, n, g)
  OBVIOUS
<1>3. CASE n = 0
  <2> DEFINE g == [i \in 1 .. n |-> 0]
  <2>1. 1 .. n = {}
    BY <1>3
  <2>2. g = [i \in 1 .. n |-> IF i = 1 THEN seqs[i] ELSE g[i - 1] \o seqs[i]]
    BY <2>1
  <2>3. Joins(seqs, n, g)
    BY <2>2 DEF Joins
  <2> QED
    BY <1>2, <2>3
<1>4. CASE n # 0
  <2>1. n - 1 \in Nat /\ n - 1 \notin Fails
    <3>1. n - 1 \in Nat /\ ~ n <= n - 1
      BY <1>2, <1>4
    <3> HIDE DEF Fails
    <3> QED
      BY <1>1, <3>1
  <2>2. PICK f : Joins(seqs, n - 1, f)
    BY <2>1
  <2> DEFINE g == [i \in 1 .. n |-> IF i = 1 THEN seqs[i] ELSE f[i - 1] \o seqs[i]]
  <2>3. ASSUME NEW i \in 1 .. n, i # 1
        PROVE  g[i - 1] = f[i - 1]
    <3>1. i - 1 \in 1 .. n - 1 /\ i - 1 \in 1 .. n
      BY <1>2, <2>3
    <3>2. f[i - 1] = IF i - 1 = 1 THEN seqs[i - 1] ELSE f[i - 1 - 1] \o seqs[i - 1]
      BY <2>2, <3>1, Zenon DEF Joins
    <3> QED
      BY <3>1, <3>2
  <2>4. g = [i \in 1 .. n |-> IF i = 1 THEN seqs[i] ELSE g[i - 1] \o seqs[i]]
    <3>1. ASSUME NEW i \in 1 .. n
          PROVE  (IF i = 1 THEN seqs[i] ELSE f[i - 1] \o seqs[i])
                   = (IF i = 1 THEN seqs[i] ELSE g[i - 1] \o seqs[i])
      BY <2>3, Zenon
    <3> QED
      BY <3>1, Zenon
  <2> HIDE DEF g
  <2>5. Joins(seqs, n, g)
    BY <2>4 DEF Joins
  <2> QED
    BY <1>2, <2>5
<1> QED
  BY <1>3, <1>4

(* Element k of the j-th sequence comes after all elements of the ones     *)
(* before.                                                                 *)
Joined(seqs, lens, i, u, X) ==
  /\ u \in Seq(X)
  /\ Len(u) = SumTo(lens, i)
  /\ \A j \in 1 .. i : \A k \in 1 .. lens[j] : u[SumTo(lens, j - 1) + k] = seqs[j][k]

LEMMA JoinedElements ==
  ASSUME NEW X, NEW seqs \in Seq(Seq(X)), NEW lens \in Seq(Nat), Len(lens) = Len(seqs),
         \A j \in 1 .. Len(seqs) : lens[j] = Len(seqs[j]),
         NEW g, Joins(seqs, Len(seqs), g)
  PROVE  \A i \in 1 .. Len(seqs) : Joined(seqs, lens, i, g[i], X)
<1> DEFINE Fails == {i \in 1 .. Len(seqs) : ~ Joined(seqs, lens, i, g[i], X)}
<1> SUFFICES ASSUME Fails # {} PROVE FALSE
  OBVIOUS
<1>1. PICK i \in Fails : \A k \in Fails : i <= k
  <2>1. Fails \in SUBSET Nat
    OBVIOUS
  <2> HIDE DEF Fails
  <2> QED
    BY <2>1, Least
<1>2. i \in 1 .. Len(seqs) /\ ~ Joined(seqs, lens, i, g[i], X)
  OBVIOUS
<1>3. g[i] = IF i = 1 THEN seqs[i] ELSE g[i - 1] \o seqs[i]
  BY <1>2, Zenon DEF Joins
<1>4. /\ i \in Nat /\ i - 1 \in Nat /\ i - 1 + 1 = i /\ i - 1 \in 0 .. Len(lens)
      /\ seqs[i] \in Seq(X) /\ lens[i] = Len(seqs[i]) /\ lens[i] \in Nat
  BY <1>2
<1>5. SumTo(lens, i) = SumTo(lens, i - 1) + lens[i] /\ SumTo(lens, i - 1) \in Nat
  BY <1>4, SumStep, SumType
<1>6. CASE i = 1
  <2>1. g[1] = seqs[1] /\ SumTo(lens, 0) = 0 /\ SumTo(lens, 1) = lens[1]
    <3>1. SumTo(lens, 0) = 0
      BY SumStep
    <3>2. SumTo(lens, 1) = 0 + lens[1]
      BY <1>5, <1>6, <3>1
    <3>3. lens[1] \in Nat
      BY <1>4, <1>6
    <3> QED
      BY <1>3, <1>6, <3>1, <3>2, <3>3
  <2>2. \A j \in 1 .. i : j = 1 /\ j - 1 = 0
    BY <1>6
  <2>3. \A k \in 1 .. lens[1] : 0 + k = k
    BY <1>4, <1>6
  <2>4. \A j \in 1 .. i : \A k \in 1 .. lens[j] : g[i][SumTo(lens, j - 1) + k] = seqs[j][k]
    BY <1>6, <2>1, <2>2, <2>3
  <2> QED
    BY <1>2, <1>4, <1>6, <2>1, <2>4 DEF Joined
<1>7. CASE i # 1
  <2>1. i - 1 \in 1 .. Len(seqs) /\ ~ i <= i - 1
    BY <1>2, <1>7
  <2>2. i - 1 \notin Fails
    <3> HIDE DEF Fails
    <3> QED
      BY <1>1, <2>1
  <2>3. Joined(seqs, lens, i - 1, g[i - 1], X)
    BY <2>1, <2>2
  <2> DEFINE u == g[i - 1]
             v == seqs[i]
             m == SumTo(lens, i - 1)
  <2>4. /\ g[i] = u \o v /\ u \in Seq(X) /\ v \in Seq(X) /\ Len(u) = m /\ m \in Nat
        /\ Len(v) = lens[i] /\ lens[i] \in Nat
    BY <1>3, <1>4, <1>5, <1>7, <2>3 DEF Joined
  <2> HIDE DEF u, v
  <2>5. g[i] \in Seq(X) /\ Len(g[i]) = m + lens[i]
    <3> HIDE DEF m, Fails
    <3>1. u \o v \in Seq(X) /\ Len(u \o v) = Len(u) + Len(v)
      <4>1. u \in Seq(X) /\ v \in Seq(X)
        BY <2>4, Zenon
      <4> QED
        BY <4>1, ConcatType, Zenon
    <3> QED
      BY <2>4, <3>1, Zenon
  <2>6. \A k \in 1 .. m : g[i][k] = u[k]
    <3> HIDE DEF m, Fails
    <3>1. \A k \in 1 .. Len(u) : (u \o v)[k] = u[k]
      <4>1. u \in Seq(X) /\ v \in Seq(X)
        BY <2>4, Zenon
      <4> QED
        BY <4>1, ConcatType, Zenon
    <3> QED
      BY <2>4, <3>1, Zenon
  <2>7. \A k \in 1 .. lens[i] : g[i][m + k] = v[k]
    <3> HIDE DEF m, Fails
    <3>1. \A k \in 1 .. Len(v) : (u \o v)[Len(u) + k] = v[k]
      <4>1. u \in Seq(X) /\ v \in Seq(X)
        BY <2>4, Zenon
      <4> QED
        BY <4>1, ConcatAt, Zenon
    <3> QED
      BY <2>4, <3>1, Zenon
  <2>8. ASSUME NEW j \in 1 .. i, NEW k \in 1 .. lens[j]
        PROVE  g[i][SumTo(lens, j - 1) + k] = seqs[j][k]
    <3>1. CASE j = i
      BY <2>7, <3>1 DEF v
    <3>2. CASE j # i
      <4>1. j \in 1 .. i - 1 /\ j \in 1 .. Len(lens) /\ i - 1 \in j .. Len(lens)
            /\ j - 1 \in 0 .. Len(lens)
        BY <1>2, <3>2
      <4>2. SumTo(lens, j - 1) + lens[j] <= m /\ SumTo(lens, j - 1) \in Nat /\ lens[j] \in Nat
        <5>1. SumTo(lens, j - 1) + lens[j] <= m
          BY <4>1, SumMonotone
        <5>2. SumTo(lens, j - 1) \in Nat
          BY <4>1, SumType
        <5>3. lens[j] \in Nat
          BY <4>1
        <5> QED
          BY <5>1, <5>2, <5>3
      <4>3. SumTo(lens, j - 1) + k \in 1 .. m
        <5>1. \A a, c, e \in Nat : \A d \in 1 .. c : a + c <= e => a + d \in 1 .. e
          OBVIOUS
        <5> HIDE DEF m
        <5> QED
          BY <2>4, <4>2, <5>1
      <4>4. u[SumTo(lens, j - 1) + k] = seqs[j][k]
        BY <2>3, <4>1 DEF Joined, u
      <4> QED
        BY <2>6, <4>3, <4>4
    <3> QED
      BY <3>1, <3>2
  <2> QED
    BY <1>2, <1>5, <2>5, <2>8 DEF Joined
<1> QED
  BY <1>6, <1>7

LEMMA FlattenElements ==
  ASSUME NEW X, NEW seqs \in Seq(Seq(X)), NEW lens \in Seq(Nat), Len(lens) = Len(seqs),
         \A j \in 1 .. Len(seqs) : lens[j] = Len(seqs[j])
  PROVE  Joined(seqs, lens, Len(seqs), FlattenSeq(seqs), X)
<1>1. Len(seqs) \in Nat
  OBVIOUS
<1>2. CASE Len(seqs) = 0
  <2>1. FlattenSeq(seqs) = <<>>
    BY <1>2 DEF FlattenSeq
  <2>2. <<>> \in Seq(X) /\ Len(<<>>) = 0 /\ \A j \in 1 .. Len(seqs) : FALSE
    BY <1>2
  <2> QED
    BY <1>2, <2>1, <2>2, SumStep DEF Joined
<1>3. CASE Len(seqs) # 0
  <2> DEFINE g == CHOOSE g : Joins(seqs, Len(seqs), g)
  <2>1. Joins(seqs, Len(seqs), g)
    BY <1>1, JoinsExist
  <2>2. FlattenSeq(seqs) = g[Len(seqs)]
    BY <1>3, FlattenMeaning
  <2>3. Len(seqs) \in 1 .. Len(seqs)
    BY <1>1, <1>3
  <2> HIDE DEF g
  <2> QED
    BY <2>1, <2>2, <2>3, JoinedElements
<1> QED
  BY <1>2, <1>3
-----------------------------------------------------------------------------
(* The rows of a batch.                                                    *)
LEMMA BatchFacts ==
  ASSUME NEW b, WellFormed(b)
  PROVE  /\ Len(b.prefills) \in Nat /\ DOMAIN b.prefills = 1 .. Len(b.prefills)
         /\ Len(b.decodes) \in Nat /\ DOMAIN b.decodes = 1 .. Len(b.decodes)
         /\ \A j \in DOMAIN b.prefills :
              /\ b.prefills[j].start \in Nat /\ b.prefills[j].num \in Nat \ {0}
              /\ b.prefills[j].table \in Seq(Blocks)
              /\ b.prefills[j].start + b.prefills[j].num <= Len(b.prefills[j].table) * BlockSize
         /\ \A i \in DOMAIN b.decodes :
              /\ b.decodes[i].pos \in Nat /\ b.decodes[i].table \in Seq(Blocks)
              /\ b.decodes[i].pos < Len(b.decodes[i].table) * BlockSize
<1>1. b.prefills \in Seq(Range(b.prefills)) /\ b.decodes \in Seq(Range(b.decodes))
  BY DEF WellFormed
<1>2. /\ Len(b.prefills) \in Nat /\ DOMAIN b.prefills = 1 .. Len(b.prefills)
      /\ Len(b.decodes) \in Nat /\ DOMAIN b.decodes = 1 .. Len(b.decodes)
  BY <1>1
<1>3. /\ \A j \in DOMAIN b.prefills : b.prefills[j] \in Range(b.prefills)
      /\ \A i \in DOMAIN b.decodes : b.decodes[i] \in Range(b.decodes)
  BY DEF Range
<1>4. ASSUME NEW j \in DOMAIN b.prefills
      PROVE  /\ b.prefills[j].start \in Nat /\ b.prefills[j].num \in Nat \ {0}
             /\ b.prefills[j].table \in Seq(Blocks)
             /\ b.prefills[j].start + b.prefills[j].num <= Len(b.prefills[j].table) * BlockSize
  BY <1>3, Zenon DEF WellFormed
<1>5. ASSUME NEW i \in DOMAIN b.decodes
      PROVE  /\ b.decodes[i].pos \in Nat /\ b.decodes[i].table \in Seq(Blocks)
             /\ b.decodes[i].pos < Len(b.decodes[i].table) * BlockSize
  BY <1>3, Zenon DEF WellFormed
<1> QED
  BY <1>2, <1>4, <1>5

LEMMA Lengths ==
  ASSUME NEW b, WellFormed(b)
  PROVE  /\ NumTokens(b) \in Seq(Nat) /\ Len(NumTokens(b)) = Len(b.prefills)
         /\ \A j \in DOMAIN b.prefills : NumTokens(b)[j] = b.prefills[j].num
<1> DEFINE n == Len(b.prefills)
           f == [j \in 1 .. n |-> b.prefills[j].num]
<1>1. n \in Nat /\ DOMAIN b.prefills = 1 .. n /\ \A j \in 1 .. n : b.prefills[j].num \in Nat
  BY BatchFacts
<1>2. NumTokens(b) = f
  BY <1>1 DEF NumTokens
<1>3. f \in Seq(Nat) /\ Len(f) = n
  <2> HIDE DEF n
  <2> QED
    BY <1>1
<1> QED
  BY <1>1, <1>2, <1>3

(* The prompts' squares of the mask, and their rows, follow one another.   *)
LEMMA Offsets ==
  ASSUME NEW b, WellFormed(b)
  PROVE  /\ NumPrefill(b) \in Nat
         /\ \A j \in DOMAIN b.prefills :
              /\ Offset(b, j) \in Nat
              /\ Offset(b, j) + b.prefills[j].num <= NumPrefill(b)
              /\ \A k \in DOMAIN b.prefills :
                   j < k => Offset(b, j) + b.prefills[j].num <= Offset(b, k)
<1> DEFINE n == Len(b.prefills)
           lens == NumTokens(b)
<1>1. /\ n \in Nat /\ DOMAIN b.prefills = 1 .. n /\ lens \in Seq(Nat) /\ Len(lens) = n
      /\ \A j \in 1 .. n : lens[j] = b.prefills[j].num
  BY BatchFacts, Lengths
<1>2. NumPrefill(b) = SumTo(lens, n) /\ \A j \in 1 .. n : Offset(b, j) = SumTo(lens, j - 1)
  BY DEF NumPrefill, Offset
<1> HIDE DEF n, lens
<1>3. NumPrefill(b) \in Nat
  <2>1. n \in 0 .. Len(lens)
    BY <1>1
  <2> QED
    BY <1>1, <1>2, <2>1, SumType
<1>4. ASSUME NEW j \in 1 .. n
      PROVE  /\ Offset(b, j) \in Nat
             /\ Offset(b, j) + b.prefills[j].num <= NumPrefill(b)
  <2>1. j - 1 \in 0 .. Len(lens) /\ n \in j .. Len(lens) /\ j \in 1 .. Len(lens)
    BY <1>1
  <2>2. SumTo(lens, j - 1) \in Nat
    BY <1>1, <2>1, SumType
  <2>3. SumTo(lens, j - 1) + lens[j] <= SumTo(lens, n)
    BY <1>1, <2>1, SumMonotone
  <2> QED
    BY <1>1, <1>2, <2>2, <2>3
<1>5. ASSUME NEW j \in 1 .. n, NEW k \in 1 .. n, j < k
      PROVE  Offset(b, j) + b.prefills[j].num <= Offset(b, k)
  <2>1. k - 1 \in j .. Len(lens) /\ j \in 1 .. Len(lens)
    BY <1>1, <1>5
  <2>2. SumTo(lens, j - 1) + lens[j] <= SumTo(lens, k - 1)
    BY <1>1, <2>1, SumMonotone
  <2> QED
    BY <1>1, <1>2, <2>2
<1> QED
  BY <1>1, <1>3, <1>4, <1>5

(* Row Offset(b, j) + i holds token i of chunk j, and the rows after the   *)
(* prompts the decoding sequences' last outputs.                           *)
LEMMA RowsPlaced ==
  ASSUME NEW b, WellFormed(b)
  PROVE  /\ \A j \in DOMAIN b.prefills : \A i \in 0 .. b.prefills[j].num - 1 :
              RowToken(b, Offset(b, j) + i) = <<b.prefills[j].seq, b.prefills[j].start + i>>
         /\ \A i \in DOMAIN b.decodes :
              RowToken(b, NumPrefill(b) + i - 1) = <<b.decodes[i].seq, b.decodes[i].pos>>
         /\ DOMAIN Rows(b) = 1 .. NumPrefill(b) + Len(b.decodes)
<1> DEFINE n == Len(b.prefills)
           d == Len(b.decodes)
           lens == NumTokens(b)
           X == ({b.prefills[j].seq : j \in 1 .. n} \cup {b.decodes[i].seq : i \in 1 .. d}) \X Nat
           chunks == [j \in 1 .. n |-> Chunk(b.prefills[j])]
           first == FlattenSeq(chunks)
           second == [i \in 1 .. d |-> <<b.decodes[i].seq, b.decodes[i].pos>>]
<1>1. /\ n \in Nat /\ DOMAIN b.prefills = 1 .. n /\ d \in Nat /\ DOMAIN b.decodes = 1 .. d
      /\ lens \in Seq(Nat) /\ Len(lens) = n
      /\ \A j \in 1 .. n : /\ lens[j] = b.prefills[j].num
                           /\ b.prefills[j].start \in Nat /\ b.prefills[j].num \in Nat \ {0}
      /\ \A i \in 1 .. d : b.decodes[i].pos \in Nat
  BY BatchFacts, Lengths
<1>2. Rows(b) = first \o second
  BY <1>1 DEF Rows
<1>3. second \in Seq(X) /\ Len(second) = d
  <2>1. \A i \in 1 .. d : <<b.decodes[i].seq, b.decodes[i].pos>> \in X
    BY <1>1
  <2> HIDE DEF X, d
  <2> QED
    BY <1>1, <2>1
<1>4. \A j \in 1 .. n : /\ Chunk(b.prefills[j]) \in Seq(X)
                        /\ Len(Chunk(b.prefills[j])) = lens[j]
                        /\ \A i \in 1 .. lens[j] : Chunk(b.prefills[j])[i]
                             = <<b.prefills[j].seq, b.prefills[j].start + i - 1>>
  <2> SUFFICES ASSUME NEW j \in 1 .. n
               PROVE  /\ Chunk(b.prefills[j]) \in Seq(X)
                      /\ Len(Chunk(b.prefills[j])) = lens[j]
                      /\ \A i \in 1 .. lens[j] : Chunk(b.prefills[j])[i]
                           = <<b.prefills[j].seq, b.prefills[j].start + i - 1>>
    OBVIOUS
  <2> DEFINE m == b.prefills[j].num
             at(i) == <<b.prefills[j].seq, b.prefills[j].start + i - 1>>
  <2>1. Chunk(b.prefills[j]) = [i \in 1 .. m |-> at(i)]
    BY DEF Chunk
  <2>2. m \in Nat /\ lens[j] = m /\ b.prefills[j].start \in Nat
    BY <1>1
  <2>3. \A i \in 1 .. m : at(i) \in X
    <3>1. b.prefills[j].seq \in {b.prefills[k].seq : k \in 1 .. n}
      OBVIOUS
    <3>2. \A i \in 1 .. m : b.prefills[j].start + i - 1 \in Nat
      BY <2>2
    <3> QED
      BY <3>1, <3>2
  <2> HIDE DEF X, m, at
  <2>4. [i \in 1 .. m |-> at(i)] \in Seq(X) /\ Len([i \in 1 .. m |-> at(i)]) = m
    BY <2>2, <2>3
  <2> QED
    BY <2>1, <2>2, <2>4 DEF at
<1>5. /\ chunks \in Seq(Seq(X)) /\ Len(chunks) = n
      /\ \A j \in 1 .. n : chunks[j] = Chunk(b.prefills[j])
  <2> HIDE DEF X, n
  <2> QED
    BY <1>1, <1>4
<1> HIDE DEF X, chunks, first, second, n, d, lens
<1>6. Joined(chunks, lens, n, first, X)
  BY <1>1, <1>4, <1>5, FlattenElements DEF first
<1>7. first \in Seq(X) /\ Len(first) = SumTo(lens, n) /\ Len(first) \in Nat
  BY <1>6 DEF Joined
<1>8. NumPrefill(b) = SumTo(lens, n) /\ \A j \in 1 .. n : Offset(b, j) = SumTo(lens, j - 1)
  BY DEF NumPrefill, Offset, n, lens
<1>9. ASSUME NEW j \in 1 .. n, NEW i \in 0 .. b.prefills[j].num - 1
      PROVE  RowToken(b, Offset(b, j) + i) = <<b.prefills[j].seq, b.prefills[j].start + i>>
  <2>1. /\ Offset(b, j) \in Nat /\ Offset(b, j) + b.prefills[j].num <= Len(first)
        /\ i + 1 \in 1 .. lens[j] /\ b.prefills[j].num \in Nat
    <3>1. Offset(b, j) \in Nat /\ Offset(b, j) + b.prefills[j].num <= NumPrefill(b)
      BY <1>1, Offsets, SMTT(40)
    <3>2. NumPrefill(b) = Len(first)
      BY <1>7, <1>8, Zenon
    <3>3. lens[j] = b.prefills[j].num /\ b.prefills[j].num \in Nat
      BY <1>1
    <3>4. \A m \in Nat : \A k \in 0 .. m - 1 : k + 1 \in 1 .. m
      OBVIOUS
    <3> QED
      BY <3>1, <3>2, <3>3, <3>4
  <2>2. Offset(b, j) + i + 1 \in 1 .. Len(first)
    BY <1>7, <2>1
  <2>3. RowToken(b, Offset(b, j) + i) = first[Offset(b, j) + i + 1]
    BY <1>2, <1>3, <1>7, <2>2 DEF RowToken
  <2>4. first[SumTo(lens, j - 1) + (i + 1)] = chunks[j][i + 1]
    BY <1>6, <2>1 DEF Joined
  <2>5. Offset(b, j) + i + 1 = SumTo(lens, j - 1) + (i + 1)
    BY <1>8, <2>1
  <2>6. chunks[j][i + 1] = <<b.prefills[j].seq, b.prefills[j].start + (i + 1) - 1>>
    BY <1>4, <1>5, <2>1
  <2>7. b.prefills[j].start + (i + 1) - 1 = b.prefills[j].start + i
    BY <1>1
  <2> QED
    BY <2>3, <2>4, <2>5, <2>6, <2>7, Zenon
<1>10. ASSUME NEW i \in 1 .. d
       PROVE  RowToken(b, NumPrefill(b) + i - 1) = <<b.decodes[i].seq, b.decodes[i].pos>>
  <2>1. NumPrefill(b) + i - 1 + 1 = Len(first) + i /\ i \in 1 .. Len(second)
    BY <1>1, <1>3, <1>7, <1>8
  <2>2. (first \o second)[Len(first) + i] = second[i]
    BY <1>3, <1>7, <2>1
  <2>3. second[i] = <<b.decodes[i].seq, b.decodes[i].pos>>
    BY DEF second
  <2> QED
    BY <1>2, <2>1, <2>2, <2>3 DEF RowToken
<1>11. DOMAIN Rows(b) = 1 .. NumPrefill(b) + Len(b.decodes)
  BY <1>2, <1>3, <1>7, <1>8 DEF d
<1> QED
  BY <1>1, <1>9, <1>10, <1>11

(* What a prompt's row sees: its prompt's rows up to itself.               *)
LEMMA VisibleRows ==
  ASSUME NEW b, WellFormed(b), NEW j \in DOMAIN b.prefills, NEW i \in 0 .. b.prefills[j].num - 1
  PROVE  Visible(b, Offset(b, j) + i) = {Offset(b, j) + q : q \in 0 .. i}
<1> DEFINE o == Offset(b, j)
           m == b.prefills[j].num
<1>1. /\ NumPrefill(b) \in Nat /\ o \in Nat /\ m \in Nat \ {0} /\ o + m <= NumPrefill(b)
      /\ i \in Nat /\ i < m
  <2>1. b.prefills[j].num \in Nat \ {0}
    BY BatchFacts
  <2> QED
    BY <2>1, Offsets
<1>2. ASSUME NEW col \in Visible(b, o + i)
      PROVE  col \in {o + q : q \in 0 .. i}
  <2>1. PICK k \in DOMAIN b.prefills :
          /\ {o + i, col} \subseteq Offset(b, k) .. Offset(b, k) + b.prefills[k].num - 1
          /\ col <= o + i
    BY DEF Visible
  <2>2. col \in 0 .. NumPrefill(b) - 1
    BY DEF Visible
  <2>3. /\ Offset(b, k) \in Nat /\ b.prefills[k].num \in Nat /\ k \in Nat /\ j \in Nat
        /\ j < k => o + m <= Offset(b, k)
        /\ k < j => Offset(b, k) + b.prefills[k].num <= o
    BY BatchFacts, Offsets
  <2>4. /\ Offset(b, k) <= o + i /\ o + i <= Offset(b, k) + b.prefills[k].num - 1
        /\ Offset(b, k) <= col /\ col \in Int
    BY <2>1, <2>2
  <2> HIDE DEF o, m
  <2>5. k = j
    BY <1>1, <2>3, <2>4
  <2>6. o <= col
    BY <2>4, <2>5 DEF o
  <2>7. col - o \in 0 .. i /\ o + (col - o) = col
    BY <1>1, <2>1, <2>4, <2>6
  <2> QED
    BY <2>7
<1>3. ASSUME NEW q \in 0 .. i
      PROVE  o + q \in Visible(b, o + i)
  <2>1. o + q \in 0 .. NumPrefill(b) - 1
    BY <1>1
  <2>2. {o + i, o + q} \subseteq o .. o + m - 1 /\ o + q <= o + i
    BY <1>1
  <2> QED
    BY <2>1, <2>2 DEF Visible
<1> QED
  BY <1>2, <1>3
-----------------------------------------------------------------------------
(* The batch of a pass stays the one it was called with.                   *)
LEMMA SameBatch == Spec => [](batch \in Batches)
<1>1. Init => batch \in Batches
  BY DEF Init
<1>2. batch \in Batches /\ [Next]_vars => (batch \in Batches)'
  BY DEF Next, vars, StorePrefill, AttendPrefill, StoreDecodes, RunFlashInfer, Launch, Dot, Fold,
         Weigh, Gather, Sync, passVars
<1> QED
  BY <1>1, <1>2, PTL DEF Spec

(* The logits sampled for a prompt are those of its last token, and those  *)
(* for a decoding sequence of the token fed to it, whatever lies around    *)
(* them in the batch (Engine.step, prefill_batch, DecodeWorker.step).      *)
THEOREM SampledRows == Spec => []SamplesLast
<1>1. batch \in Batches => SamplesLast
  <2> SUFFICES ASSUME batch \in Batches
               PROVE  SamplesLast
    OBVIOUS
  <2>1. WellFormed(batch)
    BY BatchesAssumption
  <2>2. ASSUME NEW j \in DOMAIN batch.prefills
        PROVE  RowToken(batch, PrefillSample(batch, j))
                 = <<batch.prefills[j].seq, batch.prefills[j].start + batch.prefills[j].num - 1>>
    <3> DEFINE m == batch.prefills[j].num
    <3>1. m \in Nat \ {0} /\ batch.prefills[j].start \in Nat
      BY <2>1, BatchFacts
    <3>2. Offset(batch, j) \in Nat
      BY <2>1, Offsets
    <3>3. m - 1 \in 0 .. m - 1 /\ Offset(batch, j) + m - 1 = Offset(batch, j) + (m - 1)
          /\ batch.prefills[j].start + m - 1 = batch.prefills[j].start + (m - 1)
      BY <3>1, <3>2
    <3>4. RowToken(batch, Offset(batch, j) + (m - 1))
            = <<batch.prefills[j].seq, batch.prefills[j].start + (m - 1)>>
      BY <2>1, <3>3, RowsPlaced
    <3> QED
      BY <3>3, <3>4 DEF PrefillSample
  <2>3. ASSUME NEW i \in DOMAIN batch.decodes
        PROVE  RowToken(batch, DecodeSample(batch, i))
                 = <<batch.decodes[i].seq, batch.decodes[i].pos>>
    BY <2>1, RowsPlaced DEF DecodeSample
  <2> QED
    BY <2>2, <2>3 DEF SamplesLast
<1> QED
  BY <1>1, SameBatch, PTL

(* A row of a prompt attends to the tokens of its own prompt up to itself, *)
(* all of them and nothing else, whatever else is in the batch (the mask   *)
(* of paged_forward).                                                      *)
THEOREM OwnPrompts == Spec => []PromptsAttendOwn
<1> DEFINE Masked == attend # <<>> => attend = [row \in 0 .. NumPrefill(batch) - 1 |->
                       {RowToken(batch, col) : col \in Visible(batch, row)}]
<1>1. Init => Masked
  BY DEF Init
<1>2. Masked /\ [Next]_vars => Masked'
  <2> SUFFICES ASSUME Masked, [Next]_vars
               PROVE  Masked'
    OBVIOUS
  <2>1. CASE AttendPrefill
    BY <2>1 DEF AttendPrefill
  <2>2. CASE UNCHANGED <<attend, batch>>
    BY <2>2
  <2>3. AttendPrefill \/ UNCHANGED <<attend, batch>>
    BY DEF Next, vars, StorePrefill, StoreDecodes, RunFlashInfer, Launch, Dot, Fold,
           Weigh, Gather, Sync, passVars
  <2> QED
    BY <2>1, <2>2, <2>3
<1>3. Masked /\ batch \in Batches => PromptsAttendOwn
  <2> SUFFICES ASSUME Masked, batch \in Batches, attend # <<>>,
                      NEW j \in DOMAIN batch.prefills,
                      NEW i \in 0 .. batch.prefills[j].num - 1
               PROVE  attend[Offset(batch, j) + i]
                        = {<<batch.prefills[j].seq, q>> :
                             q \in batch.prefills[j].start .. batch.prefills[j].start + i}
    BY DEF PromptsAttendOwn
  <2> DEFINE o == Offset(batch, j)
             x == batch.prefills[j]
  <2>1. WellFormed(batch)
    BY BatchesAssumption
  <2>2. o \in Nat /\ x.start \in Nat /\ x.num \in Nat /\ NumPrefill(batch) \in Nat
        /\ o + x.num <= NumPrefill(batch)
    BY <2>1, BatchFacts, Offsets
  <2>3. attend[o + i] = {RowToken(batch, col) : col \in Visible(batch, o + i)}
    <3>1. o + i \in 0 .. NumPrefill(batch) - 1
      <4> HIDE DEF o, x
      <4> QED
        BY <2>2 DEF x
    <3> HIDE DEF o
    <3> QED
      BY <3>1
  <2>4. Visible(batch, o + i) = {o + q : q \in 0 .. i}
    BY <2>1, VisibleRows
  <2>5. \A q \in 0 .. i : RowToken(batch, o + q) = <<x.seq, x.start + q>>
    <3>1. \A q \in 0 .. i : q \in 0 .. x.num - 1
      BY <2>2
    <3> QED
      BY <2>1, <3>1, RowsPlaced
  <2>6. {RowToken(batch, col) : col \in {o + q : q \in 0 .. i}} = {<<x.seq, x.start + q>> : q \in 0 .. i}
    <3> HIDE DEF o, x
    <3> QED
      BY <2>5
  <2>7. {<<x.seq, x.start + q>> : q \in 0 .. i} = {<<x.seq, q>> : q \in x.start .. x.start + i}
    <3> DEFINE s == x.seq
               a == x.start
    <3>1. a \in Nat /\ i \in Nat
      BY <2>2
    <3> HIDE DEF s, a
    <3>2. \A q \in 0 .. i : a + q \in a .. a + i
      BY <3>1
    <3>3. \A q \in a .. a + i : q - a \in 0 .. i /\ a + (q - a) = q
      BY <3>1
    <3>4. {<<s, a + q>> : q \in 0 .. i} = {<<s, q>> : q \in a .. a + i}
      BY <3>2, <3>3
    <3> QED
      BY <3>4 DEF s, a
  <2> QED
    BY <2>3, <2>4, <2>6, <2>7
<1> QED
  BY <1>1, <1>2, <1>3, SameBatch, PTL DEF Spec
-----------------------------------------------------------------------------
(* Cells.                                                                  *)
LEMMA DivMod ==
  ASSUME NEW p \in Nat
  PROVE  /\ p \div BlockSize \in Nat /\ p % BlockSize \in 0 .. BlockSize - 1
         /\ p = BlockSize * (p \div BlockSize) + (p % BlockSize)
  BY BlockSizeAssumption

LEMMA DivBelow ==
  ASSUME NEW p \in Nat, NEW n \in Nat, p < n * BlockSize
  PROVE  p \div BlockSize < n
<1> DEFINE d == p \div BlockSize
<1>1. d \in Nat /\ BlockSize * d <= p /\ BlockSize \in Nat \ {0} /\ BlockSize * d \in Nat
  BY DivMod, BlockSizeAssumption
<1> HIDE DEF d
<1>2. ASSUME d >= n PROVE FALSE
  <2>1. n * BlockSize <= BlockSize * d
    BY <1>1, <1>2
  <2>2. n * BlockSize \in Nat
    BY <1>1
  <2> QED
    BY <1>1, <2>1, <2>2
<1> QED
  BY <1>1, <1>2 DEF d

LEMMA CellIn ==
  ASSUME NEW t \in Seq(Blocks), NEW p \in Nat, p < Len(t) * BlockSize
  PROVE  /\ p \div BlockSize + 1 \in DOMAIN t
         /\ t[p \div BlockSize + 1] \in Range(t)
         /\ CellOf(t, p) \in Blocks \X (0 .. BlockSize - 1)
<1>1. Len(t) \in Nat /\ DOMAIN t = 1 .. Len(t)
  OBVIOUS
<1>2. p \div BlockSize \in Nat /\ p \div BlockSize < Len(t)
  BY <1>1, DivMod, DivBelow
<1>3. p \div BlockSize + 1 \in 1 .. Len(t)
  <2> DEFINE d == p \div BlockSize
  <2> HIDE DEF d
  <2>1. d \in Nat /\ d < Len(t)
    BY <1>2 DEF d
  <2>2. d + 1 \in 1 .. Len(t)
    BY <1>1, <2>1
  <2> QED
    BY <2>2 DEF d
<1>4. t[p \div BlockSize + 1] \in Blocks
  BY <1>3
<1>5. p % BlockSize \in 0 .. BlockSize - 1
  BY DivMod
<1> QED
  BY <1>1, <1>3, <1>4, <1>5 DEF CellOf, Range

LEMMA CellUnique ==
  ASSUME NEW t \in Seq(Blocks), IsInjective(t),
         NEW p \in Nat, p < Len(t) * BlockSize, NEW q \in Nat, q < Len(t) * BlockSize,
         CellOf(t, p) = CellOf(t, q)
  PROVE  p = q
<1>1. p \div BlockSize + 1 \in DOMAIN t /\ q \div BlockSize + 1 \in DOMAIN t
  BY CellIn
<1>2. t[p \div BlockSize + 1] = t[q \div BlockSize + 1] /\ p % BlockSize = q % BlockSize
  BY DEF CellOf
<1>3. p \div BlockSize + 1 = q \div BlockSize + 1
  BY <1>1, <1>2, Zenon DEF IsInjective
<1>4. p \div BlockSize = q \div BlockSize
  <2>1. \A d, e \in Nat : d + 1 = e + 1 => d = e
    OBVIOUS
  <2>2. p \div BlockSize \in Nat /\ q \div BlockSize \in Nat
    BY DivMod
  <2> QED
    BY <1>3, <2>1, <2>2, Zenon
<1>5. /\ p = BlockSize * (p \div BlockSize) + (p % BlockSize)
      /\ q = BlockSize * (q \div BlockSize) + (q % BlockSize)
  BY DivMod
<1> QED
  BY <1>2, <1>4, <1>5, Zenon

LEMMA CellsApart ==
  ASSUME NEW t \in Seq(Blocks), NEW u \in Seq(Blocks), Range(t) \cap Range(u) = {},
         NEW p \in Nat, p < Len(t) * BlockSize, NEW q \in Nat, q < Len(u) * BlockSize
  PROVE  CellOf(t, p) # CellOf(u, q)
<1>1. t[p \div BlockSize + 1] \in Range(t) /\ u[q \div BlockSize + 1] \in Range(u)
  BY CellIn
<1>2. CellOf(t, p) = CellOf(u, q) => t[p \div BlockSize + 1] = u[q \div BlockSize + 1]
  BY DEF CellOf
<1> QED
  BY <1>1, <1>2

(* The sequences of a batch, and how many positions of each its table has. *)
Entries(b) == Range(b.prefills) \cup Range(b.decodes)
Holds(x, n) == x.table \in Seq(Blocks) /\ n \in Nat /\ n <= Len(x.table) * BlockSize

LEMMA EntryFacts ==
  ASSUME NEW b, WellFormed(b)
  PROVE  /\ \A x \in Range(b.prefills) : /\ x.start \in Nat /\ x.num \in Nat \ {0}
                                         /\ Holds(x, x.start) /\ Holds(x, x.start + x.num)
         /\ \A x \in Range(b.decodes) : x.pos \in Nat /\ Holds(x, x.pos) /\ Holds(x, x.pos + 1)
         /\ \A x \in Entries(b) : x.table \in Seq(Blocks) /\ IsInjective(x.table)
         /\ \A x, y \in Entries(b) : x # y => Range(x.table) \cap Range(y.table) = {}
<1>1. \A x \in Entries(b) : x.table \in Seq(Blocks) /\ IsInjective(x.table)
  BY Zenon DEF WellFormed, Entries
<1>2. ASSUME NEW x \in Range(b.prefills)
      PROVE  /\ x.start \in Nat /\ x.num \in Nat \ {0}
             /\ Holds(x, x.start) /\ Holds(x, x.start + x.num)
  <2>1. /\ x.start \in Nat /\ x.num \in Nat \ {0}
        /\ x.start + x.num <= Len(x.table) * BlockSize
    BY Zenon DEF WellFormed
  <2>2. x.table \in Seq(Blocks) /\ Len(x.table) * BlockSize \in Nat
    BY <1>1, BlockSizeAssumption DEF Entries
  <2> QED
    BY <2>1, <2>2 DEF Holds
<1>3. ASSUME NEW x \in Range(b.decodes)
      PROVE  x.pos \in Nat /\ Holds(x, x.pos) /\ Holds(x, x.pos + 1)
  <2>1. x.pos \in Nat /\ x.pos < Len(x.table) * BlockSize
    BY Zenon DEF WellFormed
  <2>2. x.table \in Seq(Blocks) /\ Len(x.table) * BlockSize \in Nat
    BY <1>1, BlockSizeAssumption DEF Entries
  <2> QED
    BY <2>1, <2>2 DEF Holds
<1>4. ASSUME NEW x \in Entries(b), NEW y \in Entries(b), x # y
      PROVE  Range(x.table) \cap Range(y.table) = {}
  <2>1. CASE x \in Range(b.prefills) /\ y \in Range(b.prefills)
    <3>1. PICK i \in DOMAIN b.prefills, j \in DOMAIN b.prefills :
            x = b.prefills[i] /\ y = b.prefills[j]
      BY <2>1 DEF Range
    <3>2. i # j
      BY <1>4, <3>1
    <3> QED
      BY <3>1, <3>2, Zenon DEF WellFormed
  <2>2. CASE x \in Range(b.decodes) /\ y \in Range(b.decodes)
    <3>1. PICK i \in DOMAIN b.decodes, j \in DOMAIN b.decodes :
            x = b.decodes[i] /\ y = b.decodes[j]
      BY <2>2 DEF Range
    <3>2. i # j
      BY <1>4, <3>1
    <3> QED
      BY <3>1, <3>2, Zenon DEF WellFormed
  <2>3. CASE x \in Range(b.prefills) /\ y \in Range(b.decodes)
    BY <2>3, Zenon DEF WellFormed
  <2>4. CASE x \in Range(b.decodes) /\ y \in Range(b.prefills)
    <3>1. Range(y.table) \cap Range(x.table) = {}
      BY <2>4, Zenon DEF WellFormed
    <3> QED
      BY <3>1
  <2> QED
    BY <2>1, <2>2, <2>3, <2>4 DEF Entries
<1> QED
  BY <1>1, <1>2, <1>3, <1>4

(* Two positions of a batch's tables share a cell only if they are one.    *)
LEMMA OneCell ==
  ASSUME NEW b, WellFormed(b), NEW x \in Entries(b), NEW y \in Entries(b),
         NEW n, Holds(x, n), NEW p \in 0 .. n - 1, NEW m, Holds(y, m), NEW q \in 0 .. m - 1
  PROVE  /\ CellOf(x.table, p) \in Blocks \X (0 .. BlockSize - 1)
         /\ CellOf(x.table, p) = CellOf(y.table, q) => x = y /\ p = q
<1>1. /\ x.table \in Seq(Blocks) /\ y.table \in Seq(Blocks) /\ n \in Nat /\ m \in Nat
      /\ n <= Len(x.table) * BlockSize /\ m <= Len(y.table) * BlockSize
  BY DEF Holds
<1>2. /\ Len(x.table) * BlockSize \in Nat /\ Len(y.table) * BlockSize \in Nat
  BY <1>1, BlockSizeAssumption
<1>3. /\ p \in Nat /\ q \in Nat /\ p < Len(x.table) * BlockSize /\ q < Len(y.table) * BlockSize
  BY <1>1, <1>2
<1>4. CellOf(x.table, p) \in Blocks \X (0 .. BlockSize - 1)
  BY <1>1, <1>3, CellIn
<1>5. CASE x = y
  <2>1. IsInjective(x.table)
    BY EntryFacts
  <2>2. CellOf(x.table, p) = CellOf(x.table, q) => p = q
    BY <1>1, <1>3, <1>5, <2>1, CellUnique
  <2> QED
    BY <1>4, <1>5, <2>2
<1>6. CASE x # y
  <2>1. Range(x.table) \cap Range(y.table) = {}
    BY <1>6, EntryFacts
  <2>2. CellOf(x.table, p) # CellOf(y.table, q)
    BY <1>1, <1>3, <2>1, CellsApart
  <2> QED
    BY <1>4, <2>2
<1> QED
  BY <1>5, <1>6
-----------------------------------------------------------------------------
(* What the cache holds.                                                   *)
Cells == Blocks \X (0 .. BlockSize - 1)

(* The first n positions of entry x can be read through its table.         *)
Stored(x, n) == \A p \in 0 .. n - 1 : kv[CellOf(x.table, p)] = <<x.seq, p>>

LEMMA BeforeHolds ==
  ASSUME NEW b, WellFormed(b), NEW x \in Entries(b), NEW n,
         \/ x \in Range(b.prefills) /\ n = x.start
         \/ x \in Range(b.decodes) /\ n = x.pos,
         NEW q \in 0 .. n - 1
  PROVE  Before(b)[CellOf(x.table, q)] = <<x.seq, q>>
<1> DEFINE c == CellOf(x.table, q)
           old == {y \in Had(b) : CellOf(y[1].table, y[2]) = c}
<1>1. Holds(x, n)
  BY EntryFacts
<1>2. <<x, q>> \in Had(b)
  <2>1. CASE x \in Range(b.prefills) /\ n = x.start
    <3>1. <<x, q>> \in {<<x, r>> : r \in 0 .. x.start - 1}
      BY <2>1
    <3> QED
      BY <2>1, <3>1 DEF Had
  <2>2. CASE x \in Range(b.decodes) /\ n = x.pos
    <3>1. <<x, q>> \in {<<x, r>> : r \in 0 .. x.pos - 1}
      BY <2>2
    <3> QED
      BY <2>2, <3>1 DEF Had
  <2> QED
    BY <2>1, <2>2
<1>3. ASSUME NEW y \in Had(b), CellOf(y[1].table, y[2]) = c
      PROVE  y = <<x, q>>
  <2>1. \E z \in Entries(b) : \E m : Holds(z, m) /\ \E r \in 0 .. m - 1 : y = <<z, r>>
    <3>1. CASE \E z \in Range(b.prefills) : y \in {<<z, r>> : r \in 0 .. z.start - 1}
      <4>1. PICK z \in Range(b.prefills) : \E r \in 0 .. z.start - 1 : y = <<z, r>>
        BY <3>1
      <4>2. Holds(z, z.start) /\ z \in Entries(b)
        BY EntryFacts DEF Entries
      <4> QED
        BY <4>1, <4>2
    <3>2. CASE \E z \in Range(b.decodes) : y \in {<<z, r>> : r \in 0 .. z.pos - 1}
      <4>1. PICK z \in Range(b.decodes) : \E r \in 0 .. z.pos - 1 : y = <<z, r>>
        BY <3>2
      <4>2. Holds(z, z.pos) /\ z \in Entries(b)
        BY EntryFacts DEF Entries
      <4> QED
        BY <4>1, <4>2
    <3> QED
      BY <3>1, <3>2 DEF Had
  <2>2. PICK z \in Entries(b) : \E m : Holds(z, m) /\ \E r \in 0 .. m - 1 : y = <<z, r>>
    BY <2>1
  <2> PICK m : Holds(z, m) /\ \E r \in 0 .. m - 1 : y = <<z, r>>
    BY <2>2
  <2> PICK r \in 0 .. m - 1 : y = <<z, r>>
    OBVIOUS
  <2>3. CellOf(z.table, r) = CellOf(x.table, q)
    BY <1>3
  <2>4. z = x /\ r = q
    BY <1>1, <2>3, OneCell
  <2> QED
    BY <2>4
<1>4. old = {<<x, q>>}
  BY <1>2, <1>3
<1>5. c \in Blocks \X (0 .. BlockSize - 1)
  BY <1>1, OneCell
<1>6. Before(b)[c] = IF old = {} THEN Stale
                     ELSE <<(CHOOSE y \in old : TRUE)[1].seq, (CHOOSE y \in old : TRUE)[2]>>
  BY <1>5, Zenon DEF Before
<1> HIDE DEF old
<1>7. (CHOOSE y \in old : TRUE) = <<x, q>>
  BY <1>4
<1> QED
  BY <1>4, <1>6, <1>7

(* A cell written once gets its row's token, the others stay.              *)
LEMMA CellWritten ==
  ASSUME NEW S, NEW c \in DOMAIN kv, NEW row, <<c, row>> \in S,
         \A y \in S : y[1] = c => y[2] = row
  PROVE  AfterStore(S)[c] = RowToken(batch, row)
<1> DEFINE rows == {y[2] : y \in {z \in S : z[1] = c}}
<1>1. row \in rows
  <2>1. <<c, row>>[1] = c /\ <<c, row>>[2] = row
    OBVIOUS
  <2> QED
    BY <2>1
<1>2. rows = {row}
  BY <1>1
<1>3. AfterStore(S)[c] = IF rows = {} THEN kv[c] ELSE RowToken(batch, CHOOSE r \in rows : TRUE)
  BY Zenon DEF AfterStore
<1> HIDE DEF rows
<1>4. (CHOOSE r \in rows : TRUE) = row
  BY <1>2
<1> QED
  BY <1>2, <1>3, <1>4

LEMMA CellKept ==
  ASSUME NEW S, NEW c \in DOMAIN kv, \A y \in S : y[1] # c
  PROVE  AfterStore(S)[c] = kv[c]
<1> DEFINE rows == {y[2] : y \in {z \in S : z[1] = c}}
<1>1. rows = {}
  OBVIOUS
<1>2. AfterStore(S)[c] = IF rows = {} THEN kv[c] ELSE RowToken(batch, CHOOSE r \in rows : TRUE)
  BY Zenon DEF AfterStore
<1> QED
  BY <1>1, <1>2

(* The store of a prompt writes the tokens of its chunk to their places,   *)
(* and nothing in the way of other positions.                              *)
LEMMA PromptLands ==
  ASSUME WellFormed(batch), DOMAIN kv = Cells, NEW j \in DOMAIN batch.prefills,
         NEW x, x = batch.prefills[j], NEW k, k = AfterStore(PrefillStore(batch, j))
  PROVE  /\ \A i \in 0 .. x.num - 1 : k[CellOf(x.table, x.start + i)] = <<x.seq, x.start + i>>
         /\ \A y \in Entries(batch) : \A n : Holds(y, n) =>
              \A p \in 0 .. n - 1 : y # x \/ p < x.start =>
                k[CellOf(y.table, p)] = kv[CellOf(y.table, p)]
<1> DEFINE S == PrefillStore(batch, j)
           o == Offset(batch, j)
<1>1. /\ x \in Range(batch.prefills) /\ x \in Entries(batch)
      /\ x.start \in Nat /\ x.num \in Nat \ {0} /\ Holds(x, x.start + x.num)
  <2>1. x \in Range(batch.prefills)
    BY DEF Range
  <2> QED
    BY <2>1, EntryFacts DEF Entries
<1>2. S = {<<CellOf(x.table, x.start + i), o + i>> : i \in 0 .. x.num - 1}
  BY DEF PrefillStore
<1>3. o \in Nat
  BY Offsets
<1>4. \A i \in 0 .. x.num - 1 : x.start + i \in 0 .. x.start + x.num - 1 /\ i \in Nat
  BY <1>1
<1> HIDE DEF S, o
<1>5. ASSUME NEW i \in 0 .. x.num - 1
      PROVE  k[CellOf(x.table, x.start + i)] = <<x.seq, x.start + i>>
  <2> DEFINE c == CellOf(x.table, x.start + i)
  <2>1. c \in DOMAIN kv
    BY <1>1, <1>4, OneCell DEF Cells
  <2>2. <<c, o + i>> \in S
    BY <1>2
  <2>3. ASSUME NEW y \in S, y[1] = c
        PROVE  y[2] = o + i
    <3>1. PICK r \in 0 .. x.num - 1 : y = <<CellOf(x.table, x.start + r), o + r>>
      BY <1>2
    <3>2. CellOf(x.table, x.start + r) = CellOf(x.table, x.start + i)
      BY <2>3, <3>1
    <3>3. x.start + r = x.start + i
      BY <1>1, <1>4, <3>2, OneCell
    <3>4. r = i
      BY <1>1, <1>4, <3>3
    <3> QED
      BY <3>1, <3>4
  <2> HIDE DEF c
  <2>4. AfterStore(S)[c] = RowToken(batch, o + i)
    BY <2>1, <2>2, <2>3, CellWritten
  <2>5. RowToken(batch, o + i) = <<x.seq, x.start + i>>
    BY RowsPlaced DEF o
  <2> QED
    BY <2>4, <2>5 DEF S, c
<1>6. ASSUME NEW y \in Entries(batch), NEW n, Holds(y, n), NEW p \in 0 .. n - 1,
             y # x \/ p < x.start
      PROVE  k[CellOf(y.table, p)] = kv[CellOf(y.table, p)]
  <2> DEFINE c == CellOf(y.table, p)
  <2>1. c \in DOMAIN kv
    BY <1>6, OneCell DEF Cells
  <2>2. ASSUME NEW z \in S, z[1] = c
        PROVE  FALSE
    <3>1. PICK r \in 0 .. x.num - 1 : z = <<CellOf(x.table, x.start + r), o + r>>
      BY <1>2
    <3>2. CellOf(x.table, x.start + r) = CellOf(y.table, p)
      BY <2>2, <3>1
    <3>3. x = y /\ x.start + r = p
      BY <1>1, <1>4, <1>6, <3>2, OneCell
    <3> QED
      BY <1>1, <1>4, <1>6, <3>3
  <2> HIDE DEF c
  <2>3. AfterStore(S)[c] = kv[c]
    BY <2>1, <2>2, CellKept
  <2> QED
    BY <2>3 DEF S, c
<1> QED
  BY <1>5, <1>6

(* No table of a decoding sequence is longer than the padded ones, so the  *)
(* padding comes after its blocks.                                         *)
LEMMA PaddedTables ==
  ASSUME NEW b, WellFormed(b), NEW i \in DOMAIN b.decodes
  PROVE  /\ MaxBlocks(b) \in Nat /\ Len(b.decodes[i].table) <= MaxBlocks(b)
         /\ \A k \in DOMAIN b.decodes[i].table : BlockTables(b)[i][k] = b.decodes[i].table[k]
<1> DEFINE d == Len(b.decodes)
           lens == [h \in 1 .. d |-> Len(b.decodes[h].table)]
           L == {Len(b.decodes[h].table) : h \in DOMAIN b.decodes}
           U == {m \in Nat : \A h \in 1 .. d : lens[h] <= m}
<1>1. d \in Nat /\ DOMAIN b.decodes = 1 .. d /\ \A h \in 1 .. d : b.decodes[h].table \in Seq(Blocks)
  BY BatchFacts
<1>2. \A h \in 1 .. d : Len(b.decodes[h].table) \in Nat
  BY <1>1
<1>3. lens \in Seq(Nat) /\ Len(lens) = d /\ \A h \in 1 .. d : lens[h] = Len(b.decodes[h].table)
  <2> HIDE DEF d
  <2> QED
    BY <1>1, <1>2
<1> HIDE DEF d, lens
<1>4. SumTo(lens, d) \in U
  <2>1. SumTo(lens, d) \in Nat
    BY <1>1, <1>3, SumType
  <2>2. ASSUME NEW h \in 1 .. d
        PROVE  lens[h] <= SumTo(lens, d)
    <3>1. d \in h .. Len(lens) /\ h - 1 \in 0 .. Len(lens) /\ h \in 1 .. Len(lens)
      BY <1>1, <1>3
    <3>2. SumTo(lens, h - 1) + lens[h] <= SumTo(lens, d)
      BY <1>3, <3>1, SumMonotone
    <3>3. SumTo(lens, h - 1) \in Nat
      BY <1>3, <3>1, SumType
    <3>4. lens[h] \in Nat
      BY <1>3, <3>1
    <3> QED
      BY <2>1, <3>2, <3>3, <3>4
  <2> QED
    BY <2>1, <2>2
<1>5. PICK m \in U : \A r \in U : m <= r
  <2>1. U \in SUBSET Nat /\ U # {}
    BY <1>4
  <2> HIDE DEF U
  <2> QED
    BY <2>1, Least
<1>6. m \in Nat /\ \A h \in 1 .. d : lens[h] <= m
  OBVIOUS
<1>7. \E h \in 1 .. d : lens[h] = m
  <2> SUFFICES ASSUME \A h \in 1 .. d : lens[h] # m
               PROVE  FALSE
    OBVIOUS
  <2>1. \A h \in 1 .. d : lens[h] \in Nat /\ lens[h] <= m - 1
    BY <1>2, <1>3, <1>6
  <2>2. m - 1 \in Nat
    BY <1>1, <1>6, <2>1
  <2>3. m - 1 \in U
    BY <2>1, <2>2
  <2> HIDE DEF U
  <2> QED
    BY <1>5, <1>6, <2>3
<1>8. m \in L /\ \A h \in DOMAIN b.decodes : Len(b.decodes[h].table) <= m
  BY <1>1, <1>3, <1>6, <1>7
<1> HIDE DEF U
<1>9. /\ MaxBlocks(b) \in L
      /\ \A h \in DOMAIN b.decodes : Len(b.decodes[h].table) <= MaxBlocks(b)
  <2> DEFINE most == CHOOSE n \in L : \A h \in DOMAIN b.decodes : Len(b.decodes[h].table) <= n
  <2>1. MaxBlocks(b) = most
    BY DEF MaxBlocks
  <2> HIDE DEF L
  <2>2. most \in L /\ \A h \in DOMAIN b.decodes : Len(b.decodes[h].table) <= most
    BY <1>8
  <2> QED
    BY <2>1, <2>2
<1>10. MaxBlocks(b) \in Nat
  BY <1>1, <1>2, <1>9
<1>11. ASSUME NEW k \in DOMAIN b.decodes[i].table
       PROVE  BlockTables(b)[i][k] = b.decodes[i].table[k]
  <2>1. DOMAIN b.decodes[i].table = 1 .. Len(b.decodes[i].table) /\ Len(b.decodes[i].table) \in Nat
    BY <1>1
  <2>2. k \in 1 .. MaxBlocks(b) /\ k <= Len(b.decodes[i].table)
    BY <1>9, <1>10, <2>1
  <2>3. BlockTables(b)[i] = [r \in 1 .. MaxBlocks(b) |->
          IF r <= Len(b.decodes[i].table) THEN b.decodes[i].table[r] ELSE 0]
    BY Zenon DEF BlockTables
  <2> QED
    BY <2>2, <2>3
<1> QED
  BY <1>9, <1>10, <1>11

LEMMA PaddedCell ==
  ASSUME NEW b, WellFormed(b), NEW i \in DOMAIN b.decodes, NEW p \in 0 .. b.decodes[i].pos
  PROVE  CellOf(BlockTables(b)[i], p) = CellOf(b.decodes[i].table, p)
<1> DEFINE t == b.decodes[i].table
<1>1. t \in Seq(Blocks) /\ b.decodes[i].pos \in Nat /\ b.decodes[i].pos < Len(t) * BlockSize
  BY BatchFacts
<1>2. Len(t) * BlockSize \in Nat
  BY <1>1, BlockSizeAssumption
<1>3. p \in Nat /\ p < Len(t) * BlockSize
  BY <1>1, <1>2
<1>4. p \div BlockSize + 1 \in DOMAIN t
  BY <1>1, <1>3, CellIn
<1>5. BlockTables(b)[i][p \div BlockSize + 1] = t[p \div BlockSize + 1]
  BY <1>4, PaddedTables
<1> QED
  BY <1>5, Zenon DEF CellOf

(* The store of the decoding sequences.                                    *)
LEMMA DecodesLand ==
  ASSUME WellFormed(batch), DOMAIN kv = Cells, NEW k, k = AfterStore(DecodeStore(batch))
  PROVE  /\ \A x \in Range(batch.decodes) : k[CellOf(x.table, x.pos)] = <<x.seq, x.pos>>
         /\ \A y \in Entries(batch) : \A n : Holds(y, n) =>
              \A p \in 0 .. n - 1 : (y \in Range(batch.decodes) => p < y.pos) =>
                k[CellOf(y.table, p)] = kv[CellOf(y.table, p)]
<1> DEFINE S == DecodeStore(batch)
           at(i) == CellOf(batch.decodes[i].table, batch.decodes[i].pos)
<1>1. S = {<<at(i), NumPrefill(batch) + i - 1>> : i \in DOMAIN batch.decodes}
  <2>1. \A i \in DOMAIN batch.decodes : batch.decodes[i].pos \in 0 .. batch.decodes[i].pos
    BY BatchFacts
  <2>2. \A i \in DOMAIN batch.decodes :
          CellOf(BlockTables(batch)[i], batch.decodes[i].pos) = at(i)
    BY <2>1, PaddedCell
  <2> QED
    BY <2>2 DEF DecodeStore
<1>2. \A i \in DOMAIN batch.decodes :
        /\ batch.decodes[i] \in Range(batch.decodes) /\ batch.decodes[i] \in Entries(batch)
        /\ batch.decodes[i].pos \in 0 .. batch.decodes[i].pos + 1 - 1
        /\ Holds(batch.decodes[i], batch.decodes[i].pos + 1)
  <2>1. \A i \in DOMAIN batch.decodes : batch.decodes[i] \in Range(batch.decodes)
    BY DEF Range
  <2>2. \A x \in Range(batch.decodes) : x.pos \in 0 .. x.pos + 1 - 1
    BY EntryFacts
  <2> QED
    BY <2>1, <2>2, EntryFacts DEF Entries
<1> HIDE DEF S
<1>3. ASSUME NEW x \in Range(batch.decodes)
      PROVE  k[CellOf(x.table, x.pos)] = <<x.seq, x.pos>>
  <2>1. PICK i \in DOMAIN batch.decodes : x = batch.decodes[i]
    BY DEF Range
  <2> DEFINE row == NumPrefill(batch) + i - 1
  <2>2. at(i) \in DOMAIN kv
    BY <1>2, OneCell DEF Cells
  <2>3. <<at(i), row>> \in S
    BY <1>1
  <2>4. ASSUME NEW y \in S, y[1] = at(i)
        PROVE  y[2] = row
    <3>1. PICK r \in DOMAIN batch.decodes : y = <<at(r), NumPrefill(batch) + r - 1>>
      BY <1>1
    <3>2. at(r) = at(i)
      BY <2>4, <3>1
    <3>3. r = i
      <4> SUFFICES ASSUME r # i PROVE FALSE
        OBVIOUS
      <4>1. Range(batch.decodes[r].table) \cap Range(batch.decodes[i].table) = {}
        BY Zenon DEF WellFormed
      <4>2. /\ batch.decodes[r].table \in Seq(Blocks) /\ batch.decodes[i].table \in Seq(Blocks)
            /\ batch.decodes[r].pos \in Nat /\ batch.decodes[i].pos \in Nat
            /\ batch.decodes[r].pos < Len(batch.decodes[r].table) * BlockSize
            /\ batch.decodes[i].pos < Len(batch.decodes[i].table) * BlockSize
        BY BatchFacts
      <4> QED
        BY <3>2, <4>1, <4>2, CellsApart
    <3> QED
      BY <3>1, <3>3
  <2> HIDE DEF at, row
  <2>5. AfterStore(S)[at(i)] = RowToken(batch, row)
    BY <2>2, <2>3, <2>4, CellWritten
  <2>6. RowToken(batch, row) = <<x.seq, x.pos>>
    BY <2>1, RowsPlaced DEF row
  <2> QED
    BY <2>1, <2>5, <2>6 DEF S, at
<1>4. ASSUME NEW y \in Entries(batch), NEW n, Holds(y, n), NEW p \in 0 .. n - 1,
             y \in Range(batch.decodes) => p < y.pos
      PROVE  k[CellOf(y.table, p)] = kv[CellOf(y.table, p)]
  <2> DEFINE c == CellOf(y.table, p)
  <2>1. c \in DOMAIN kv
    BY <1>4, OneCell DEF Cells
  <2>2. ASSUME NEW z \in S, z[1] = c
        PROVE  FALSE
    <3>1. PICK r \in DOMAIN batch.decodes : z = <<at(r), NumPrefill(batch) + r - 1>>
      BY <1>1
    <3> DEFINE x == batch.decodes[r]
    <3>2. CellOf(x.table, x.pos) = CellOf(y.table, p)
      BY <2>2, <3>1
    <3>3. /\ x \in Range(batch.decodes) /\ x \in Entries(batch) /\ x.pos \in 0 .. x.pos + 1 - 1
          /\ Holds(x, x.pos + 1) /\ x.pos \in Nat
      BY <1>2, BatchFacts
    <3> HIDE DEF x
    <3>4. x = y /\ x.pos = p
      BY <1>4, <3>2, <3>3, OneCell
    <3> QED
      BY <1>4, <3>3, <3>4
  <2> HIDE DEF c
  <2>3. AfterStore(S)[c] = kv[c]
    BY <2>1, <2>2, CellKept
  <2> QED
    BY <2>3 DEF S, c
<1> QED
  BY <1>3, <1>4

(* Where the pass stands, and what can be read by then.                    *)
Early == pc \in {"store_prefill", "attend", "store_decodes"}
PassInv ==
  /\ DOMAIN kv = Cells
  /\ pc \in {"store_prefill", "attend", "store_decodes", "launch", "kernel", "end"}
  /\ Early \/ pc = "launch" => \A w \in Lanes : wpc[w] = "idle"
  /\ pc = "store_prefill" => next \in DOMAIN batch.prefills
  /\ \A j \in DOMAIN batch.prefills :
       Stored(batch.prefills[j],
              IF pc = "store_prefill" /\ next <= j THEN batch.prefills[j].start
              ELSE batch.prefills[j].start + batch.prefills[j].num)
  /\ \A x \in Range(batch.decodes) : Stored(x, IF Early THEN x.pos ELSE x.pos + 1)

LEMMA PassInit == batch \in Batches /\ Init => PassInv
<1> SUFFICES ASSUME batch \in Batches, Init
             PROVE  PassInv
  OBVIOUS
<1>1. WellFormed(batch)
  BY BatchesAssumption
<1>2. /\ kv = Before(batch) /\ next = 1
      /\ pc = IF batch.prefills = <<>> THEN "store_decodes" ELSE "store_prefill"
      /\ wpc = [w \in Lanes |-> "idle"]
  BY DEF Init
<1>3. DOMAIN kv = Cells
  BY <1>2 DEF Before, Cells
<1>4. /\ \A x \in Range(batch.prefills) : Stored(x, x.start)
      /\ \A x \in Range(batch.decodes) : Stored(x, x.pos)
  BY <1>1, <1>2, BeforeHolds DEF Stored, Entries
<1>5. DOMAIN batch.prefills = 1 .. Len(batch.prefills) /\ Len(batch.prefills) \in Nat
  BY <1>1, BatchFacts
<1>6. CASE batch.prefills = <<>>
  <2>1. DOMAIN batch.prefills = {}
    BY <1>6
  <2> QED
    BY <1>2, <1>3, <1>4, <1>6, <2>1 DEF PassInv, Early
<1>7. CASE batch.prefills # <<>>
  <2>1. Len(batch.prefills) # 0
    <3>1. batch.prefills \in Seq(Range(batch.prefills))
      BY <1>1 DEF WellFormed
    <3> QED
      BY <1>7, <3>1
  <2>2. 1 \in DOMAIN batch.prefills /\ \A j \in DOMAIN batch.prefills : 1 <= j
    BY <1>5, <2>1
  <2>3. \A j \in DOMAIN batch.prefills : batch.prefills[j] \in Range(batch.prefills)
    BY DEF Range
  <2> QED
    BY <1>2, <1>3, <1>4, <1>7, <2>2, <2>3 DEF PassInv, Early
<1> QED
  BY <1>6, <1>7

LEMMA PassStorePrefill ==
  ASSUME WellFormed(batch), PassInv, StorePrefill
  PROVE  PassInv'
<1> PICK x : x = batch.prefills[next]
  OBVIOUS
<1>1. /\ pc = "store_prefill" /\ next \in DOMAIN batch.prefills
      /\ kv' = AfterStore(PrefillStore(batch, next)) /\ next' = next + 1
      /\ pc' = IF next = Len(batch.prefills) THEN "attend" ELSE pc
      /\ UNCHANGED <<batch, wpc>>
  BY DEF StorePrefill, PassInv, warpVars
<1>2. /\ DOMAIN batch.prefills = 1 .. Len(batch.prefills) /\ Len(batch.prefills) \in Nat
      /\ next \in 1 .. Len(batch.prefills)
  BY <1>1, BatchFacts
<1>3. DOMAIN kv = Cells
  BY DEF PassInv
<1>4. DOMAIN kv' = Cells
  BY <1>1, <1>3, Zenon DEF AfterStore
<1>5. /\ x \in Range(batch.prefills) /\ x \in Entries(batch) /\ x.start \in Nat /\ x.num \in Nat
  <2>1. x \in Range(batch.prefills)
    BY <1>1 DEF Range
  <2> QED
    BY <2>1, EntryFacts DEF Entries
<1>6. /\ \A i \in 0 .. x.num - 1 : kv'[CellOf(x.table, x.start + i)] = <<x.seq, x.start + i>>
      /\ \A y \in Entries(batch) : \A n : Holds(y, n) =>
           \A p \in 0 .. n - 1 : y # x \/ p < x.start =>
             kv'[CellOf(y.table, p)] = kv[CellOf(y.table, p)]
  <2>1. ASSUME NEW k, k = AfterStore(PrefillStore(batch, next))
        PROVE  /\ \A i \in 0 .. x.num - 1 : k[CellOf(x.table, x.start + i)] = <<x.seq, x.start + i>>
               /\ \A y \in Entries(batch) : \A n : Holds(y, n) =>
                    \A p \in 0 .. n - 1 : y # x \/ p < x.start =>
                      k[CellOf(y.table, p)] = kv[CellOf(y.table, p)]
    <3>1. next \in DOMAIN batch.prefills
      BY <1>1
    <3> QED
      BY <1>3, <2>1, <3>1, PromptLands, SMTT(30)
  <2> QED
    BY <1>1, <2>1, Zenon
<1>7. /\ Stored(x, x.start)
      /\ \A j \in DOMAIN batch.prefills :
           j < next => Stored(batch.prefills[j], batch.prefills[j].start + batch.prefills[j].num)
      /\ \A j \in DOMAIN batch.prefills :
           next <= j => Stored(batch.prefills[j], batch.prefills[j].start)
      /\ \A y \in Range(batch.decodes) : Stored(y, y.pos)
  BY <1>1, <1>2 DEF PassInv, Early
<1>8. ASSUME NEW y \in Entries(batch), NEW n, Holds(y, n), Stored(y, n), y # x
      PROVE  Stored(y, n)'
  <2>1. \A p \in 0 .. n - 1 : kv'[CellOf(y.table, p)] = kv[CellOf(y.table, p)]
    BY <1>6, <1>8
  <2> QED
    BY <1>1, <1>8, <2>1 DEF Stored
<1>9. \A p \in 0 .. (x.start + x.num) - 1 : kv'[CellOf(x.table, p)] = <<x.seq, p>>
  <2> SUFFICES ASSUME NEW p \in 0 .. (x.start + x.num) - 1
               PROVE  kv'[CellOf(x.table, p)] = <<x.seq, p>>
    OBVIOUS
  <2>1. CASE p < x.start
    <3>1. p \in 0 .. x.start - 1 /\ Holds(x, x.start)
      BY <1>5, <2>1, EntryFacts
    <3>2. kv'[CellOf(x.table, p)] = kv[CellOf(x.table, p)]
      BY <1>5, <1>6, <2>1, <3>1
    <3> QED
      BY <1>7, <3>1, <3>2 DEF Stored
  <2>2. CASE ~ p < x.start
    <3>1. p - x.start \in 0 .. x.num - 1 /\ x.start + (p - x.start) = p
      BY <1>5, <2>2
    <3>2. kv'[CellOf(x.table, x.start + (p - x.start))] = <<x.seq, x.start + (p - x.start)>>
      BY <1>6, <3>1
    <3> QED
      BY <3>1, <3>2
  <2> QED
    BY <2>1, <2>2
<1>10. \A j \in DOMAIN batch.prefills : j # next => batch.prefills[j] # x
  <2> SUFFICES ASSUME NEW j \in DOMAIN batch.prefills, j # next, batch.prefills[j] = x
               PROVE  FALSE
    OBVIOUS
  <2>1. Range(batch.prefills[j].table) \cap Range(x.table) = {}
    BY <1>1, Zenon DEF WellFormed
  <2>2. 0 \div BlockSize + 1 \in DOMAIN x.table /\ x.table[0 \div BlockSize + 1] \in Range(x.table)
    <3>1. /\ x.table \in Seq(Blocks) /\ x.num \in Nat \ {0}
          /\ x.start + x.num <= Len(x.table) * BlockSize
      BY <1>1, BatchFacts
    <3>2. Len(x.table) * BlockSize \in Nat
      BY <3>1, BlockSizeAssumption
    <3>3. 0 < Len(x.table) * BlockSize
      BY <1>5, <3>1, <3>2
    <3> QED
      BY <3>1, <3>3, CellIn
  <2> QED
    BY <2>1, <2>2
<1>11. \A y \in Range(batch.decodes) : y # x
  <2> SUFFICES ASSUME NEW y \in Range(batch.decodes), y = x
               PROVE  FALSE
    OBVIOUS
  <2>1. Range(x.table) \cap Range(y.table) = {}
    BY <1>5, Zenon DEF WellFormed
  <2>2. y.pos \in Nat /\ Holds(y, y.pos + 1)
    BY EntryFacts
  <2>3. y.table \in Seq(Blocks) /\ 0 < Len(y.table) * BlockSize
    <3>1. y.table \in Seq(Blocks) /\ y.pos + 1 <= Len(y.table) * BlockSize
      BY <2>2 DEF Holds
    <3>2. Len(y.table) * BlockSize \in Nat
      BY <3>1, BlockSizeAssumption
    <3> QED
      BY <2>2, <3>1, <3>2
  <2>4. y.table[0 \div BlockSize + 1] \in Range(y.table)
    BY <2>3, CellIn
  <2> QED
    BY <2>1, <2>4
<1>12. ASSUME NEW j \in DOMAIN batch.prefills
       PROVE  Stored(batch.prefills[j],
                IF pc = "store_prefill" /\ next <= j THEN batch.prefills[j].start
                ELSE batch.prefills[j].start + batch.prefills[j].num)'
  <2> PICK y : y = batch.prefills[j]
    OBVIOUS
  <2>0. batch'.prefills[j] = y
    BY <1>1
  <2>1. /\ y \in Range(batch.prefills) /\ y \in Entries(batch)
        /\ Holds(y, y.start) /\ Holds(y, y.start + y.num)
    <3>1. y \in Range(batch.prefills)
      BY DEF Range
    <3> QED
      BY <3>1, EntryFacts DEF Entries
  <2>2. j \in Nat /\ next \in Nat /\ j <= Len(batch.prefills)
    BY <1>2
  <2>3. CASE j = next
    <3>1. ~ (pc' = "store_prefill" /\ next' <= j)
      BY <1>1, <2>2, <2>3
    <3>2. y = x
      BY <2>3
    <3>3. Stored(y, y.start + y.num)'
      BY <1>9, <3>2, Zenon DEF Stored
    <3> QED
      BY <2>0, <3>1, <3>3
  <2>4. CASE j < next
    <3>1. ~ (pc' = "store_prefill" /\ next' <= j)
      BY <1>1, <2>2, <2>4
    <3>2. Stored(y, y.start + y.num)'
      <4>1. y # x
        BY <1>10, <2>2, <2>4
      <4>2. Stored(y, y.start + y.num)
        BY <1>7, <2>4
      <4> QED
        BY <1>8, <2>1, <4>1, <4>2
    <3> QED
      BY <2>0, <3>1, <3>2
  <2>5. CASE next < j
    <3>1. pc' = "store_prefill" /\ next' <= j
      BY <1>1, <2>2, <2>5
    <3>2. Stored(y, y.start)'
      <4>1. y # x
        BY <1>10, <2>2, <2>5
      <4>2. Stored(y, y.start)
        BY <1>7, <2>2, <2>5
      <4> QED
        BY <1>8, <2>1, <4>1, <4>2
    <3> QED
      BY <2>0, <3>1, <3>2
  <2> QED
    BY <2>2, <2>3, <2>4, <2>5
<1>13. ASSUME NEW y \in Range(batch.decodes)
       PROVE  Stored(y, IF Early THEN y.pos ELSE y.pos + 1)'
  <2>1. y \in Entries(batch) /\ Holds(y, y.pos) /\ Stored(y, y.pos)
    BY <1>7, EntryFacts DEF Entries
  <2>2. Stored(y, y.pos)'
    BY <1>8, <1>11, <2>1
  <2>3. Early'
    BY <1>1 DEF Early
  <2> QED
    BY <1>1, <2>2, <2>3
<1>14. pc' = "store_prefill" => next' \in DOMAIN batch'.prefills
  BY <1>1, <1>2
<1>15. \A w \in Lanes : wpc'[w] = "idle"
  BY <1>1 DEF PassInv, Early
<1>16. pc' \in {"store_prefill", "attend"}
  BY <1>1
<1> QED
  BY <1>1, <1>4, <1>12, <1>13, <1>14, <1>15, <1>16 DEF PassInv

LEMMA PassStoreDecodes ==
  ASSUME WellFormed(batch), PassInv, StoreDecodes
  PROVE  PassInv'
<1>1. /\ pc = "store_decodes" /\ pc' = "launch" /\ kv' = AfterStore(DecodeStore(batch))
      /\ UNCHANGED <<batch, next, wpc>>
  BY DEF StoreDecodes, warpVars
<1>2. DOMAIN kv = Cells
  BY DEF PassInv
<1>3. DOMAIN kv' = Cells
  BY <1>1, <1>2, Zenon DEF AfterStore
<1>4. /\ \A x \in Range(batch.decodes) : kv'[CellOf(x.table, x.pos)] = <<x.seq, x.pos>>
      /\ \A y \in Entries(batch) : \A n : Holds(y, n) =>
           \A p \in 0 .. n - 1 : (y \in Range(batch.decodes) => p < y.pos) =>
             kv'[CellOf(y.table, p)] = kv[CellOf(y.table, p)]
  BY <1>1, <1>2, DecodesLand
<1>5. ASSUME NEW j \in DOMAIN batch.prefills
      PROVE  Stored(batch.prefills[j], batch.prefills[j].start + batch.prefills[j].num)'
  <2> DEFINE y == batch.prefills[j]
             n == y.start + y.num
  <2>1. y \in Range(batch.prefills) /\ y \in Entries(batch) /\ Holds(y, n) /\ Stored(y, n)
    <3>1. y \in Range(batch.prefills)
      BY DEF Range
    <3> QED
      BY <1>1, <3>1, EntryFacts DEF Entries, PassInv
  <2>2. y \notin Range(batch.decodes)
    <3> SUFFICES ASSUME y \in Range(batch.decodes)
                 PROVE  FALSE
      OBVIOUS
    <3>1. Range(y.table) \cap Range(y.table) = {}
      BY <2>1, Zenon DEF WellFormed
    <3>2. y.pos \in Nat /\ Holds(y, y.pos + 1)
      BY EntryFacts
    <3>3. y.table \in Seq(Blocks) /\ 0 < Len(y.table) * BlockSize
      <4>1. y.table \in Seq(Blocks) /\ y.pos + 1 <= Len(y.table) * BlockSize
        BY <3>2 DEF Holds
      <4>2. Len(y.table) * BlockSize \in Nat
        BY <4>1, BlockSizeAssumption
      <4> QED
        BY <3>2, <4>1, <4>2
    <3>4. y.table[0 \div BlockSize + 1] \in Range(y.table)
      BY <3>3, CellIn
    <3> QED
      BY <3>1, <3>4
  <2> HIDE DEF y, n
  <2>3. \A p \in 0 .. n - 1 : kv'[CellOf(y.table, p)] = kv[CellOf(y.table, p)]
    BY <1>4, <2>1, <2>2
  <2>4. \A p \in 0 .. n - 1 : kv'[CellOf(y.table, p)] = <<y.seq, p>>
    BY <2>1, <2>3 DEF Stored
  <2> QED
    BY <1>1, <2>4 DEF Stored, y, n
<1>6. ASSUME NEW x \in Range(batch.decodes)
      PROVE  Stored(x, x.pos + 1)'
  <2>1. x \in Entries(batch) /\ x.pos \in Nat /\ Holds(x, x.pos) /\ Stored(x, x.pos)
    BY <1>1, EntryFacts DEF Entries, PassInv, Early
  <2>2. ASSUME NEW p \in 0 .. (x.pos + 1) - 1
        PROVE  kv'[CellOf(x.table, p)] = <<x.seq, p>>
    <3>1. CASE p = x.pos
      BY <1>4, <3>1
    <3>2. CASE p # x.pos
      <4>1. p \in 0 .. x.pos - 1 /\ p < x.pos
        BY <2>1, <3>2
      <4>2. kv'[CellOf(x.table, p)] = kv[CellOf(x.table, p)]
        BY <1>4, <2>1, <4>1
      <4> QED
        BY <2>1, <4>1, <4>2 DEF Stored
    <3> QED
      BY <3>1, <3>2
  <2>3. Stored(x, x.pos + 1)'
    BY <2>2, Zenon DEF Stored
  <2> QED
    BY <2>3
<1>7. \A w \in Lanes : wpc'[w] = "idle"
  BY <1>1 DEF PassInv, Early
<1>8. ~ Early'
  BY <1>1 DEF Early
<1> QED
  BY <1>1, <1>3, <1>5, <1>6, <1>7, <1>8 DEF PassInv

LEMMA PassOther ==
  ASSUME PassInv, UNCHANGED <<batch, kv>>, WellFormed(batch),
         \/ AttendPrefill
         \/ pc \in {"launch", "kernel", "end"} /\ pc' \in {"kernel", "end"}
         \/ UNCHANGED <<pc, wpc, next>>
  PROVE  PassInv'
<1>1. CASE AttendPrefill
  <2>1. /\ pc = "attend" /\ pc' = IF batch.decodes = <<>> THEN "end" ELSE "store_decodes"
        /\ UNCHANGED wpc
    BY <1>1 DEF AttendPrefill, warpVars
  <2>2. batch.decodes = <<>> => Range(batch.decodes) = {}
    BY DEF Range
  <2>3. /\ DOMAIN kv' = Cells
        /\ pc' \in {"store_prefill", "attend", "store_decodes", "launch", "kernel", "end"}
        /\ Early' \/ pc' = "launch" => \A w \in Lanes : wpc'[w] = "idle"
        /\ ~ pc' = "store_prefill"
    BY <2>1 DEF PassInv, Early
  <2>4. \A j \in DOMAIN batch.prefills :
          Stored(batch.prefills[j], batch.prefills[j].start + batch.prefills[j].num)'
    BY <2>1 DEF PassInv, Stored
  <2>5. \A x \in Range(batch.decodes) : Stored(x, x.pos)' /\ Early'
    BY <2>1, <2>2 DEF PassInv, Stored, Early
  <2> QED
    BY <2>3, <2>4, <2>5 DEF PassInv
<1>2. CASE pc \in {"launch", "kernel", "end"} /\ pc' \in {"kernel", "end"}
  <2>1. ~ Early /\ ~ Early' /\ pc # "store_prefill" /\ pc' # "store_prefill" /\ pc' # "launch"
    BY <1>2 DEF Early
  <2>2. \A j \in DOMAIN batch.prefills :
          Stored(batch.prefills[j], batch.prefills[j].start + batch.prefills[j].num)'
    BY <2>1 DEF PassInv, Stored
  <2>3. \A x \in Range(batch.decodes) : Stored(x, x.pos + 1)'
    BY <2>1 DEF PassInv, Stored
  <2> QED
    BY <1>2, <2>1, <2>2, <2>3 DEF PassInv
<1>3. CASE UNCHANGED <<pc, wpc, next>>
  BY <1>3 DEF PassInv, Stored, Early
<1> QED
  BY <1>1, <1>2, <1>3

LEMMA PassNext == PassInv /\ batch \in Batches /\ [Next]_vars => PassInv'
<1> SUFFICES ASSUME PassInv, batch \in Batches, [Next]_vars
             PROVE  PassInv'
  OBVIOUS
<1>1. WellFormed(batch)
  BY BatchesAssumption
<1>2. 0 \in Lanes
  BY WarpsAssumption DEF Lanes
<1>3. CASE StorePrefill
  BY <1>1, <1>3, PassStorePrefill
<1>4. CASE AttendPrefill
  <2>1. UNCHANGED <<batch, kv>>
    BY <1>4 DEF AttendPrefill
  <2> QED
    BY <1>1, <1>4, <2>1, PassOther
<1>5. CASE StoreDecodes
  BY <1>1, <1>5, PassStoreDecodes
<1>6. CASE \E i \in DOMAIN batch.decodes : RunFlashInfer(i) \/ Launch(i)
  <2>1. pc = "launch" /\ pc' \in {"kernel", "end"} /\ UNCHANGED <<batch, kv>>
    BY <1>6 DEF RunFlashInfer, Launch, Query, passVars
  <2> QED
    BY <1>1, <2>1, PassOther
<1>7. CASE \E w \in Lanes : Dot(w) \/ Fold(w) \/ Weigh(w) \/ Gather(w)
  <2>1. PICK w \in Lanes : Dot(w) \/ Fold(w) \/ Weigh(w) \/ Gather(w)
    BY <1>7
  <2>2. wpc[w] # "idle"
    BY <2>1 DEF Dot, Fold, Weigh, Gather
  <2>3. pc \in {"kernel", "end"}
    BY <2>2 DEF PassInv, Early
  <2>4. UNCHANGED <<batch, kv>> /\ (pc' = pc \/ pc' = "end")
    BY <2>1 DEF Dot, Fold, Weigh, Gather, passVars
  <2> QED
    BY <1>1, <2>3, <2>4, PassOther
<1>8. CASE Sync
  <2>1. wpc[0] # "idle"
    BY <1>2, <1>8 DEF Sync, Meet
  <2>2. pc \in {"kernel", "end"}
    BY <1>2, <2>1 DEF PassInv, Early
  <2>3. UNCHANGED <<batch, kv, pc>>
    BY <1>8 DEF Sync, passVars
  <2> QED
    BY <1>1, <2>2, <2>3, PassOther
<1>9. CASE UNCHANGED vars
  <2>1. UNCHANGED <<batch, kv, pc, wpc, next>>
    BY <1>9 DEF vars, passVars, warpVars
  <2> QED
    BY <1>1, <2>1, PassOther
<1> QED
  BY <1>3, <1>4, <1>5, <1>6, <1>7, <1>8, <1>9 DEF Next

LEMMA Landed == batch \in Batches /\ PassInv => StoresLand
<1> SUFFICES ASSUME batch \in Batches, PassInv, pc \in {"launch", "kernel", "end"}
             PROVE  /\ \A x \in Range(batch.prefills) : \A p \in 0 .. x.start + x.num - 1 :
                         kv[CellOf(x.table, p)] = <<x.seq, p>>
                    /\ \A x \in Range(batch.decodes) : \A p \in 0 .. x.pos :
                         kv[CellOf(x.table, p)] = <<x.seq, p>>
  BY DEF StoresLand
<1>1. ~ Early /\ pc # "store_prefill"
  BY DEF Early
<1>2. \A x \in Range(batch.prefills) : Stored(x, x.start + x.num)
  BY <1>1 DEF PassInv, Range
<1>3. ASSUME NEW x \in Range(batch.decodes), NEW p \in 0 .. x.pos
      PROVE  kv[CellOf(x.table, p)] = <<x.seq, p>>
  <2>1. Stored(x, x.pos + 1)
    BY <1>1 DEF PassInv
  <2>2. x.pos \in Nat
    BY BatchesAssumption, EntryFacts
  <2>3. p \in 0 .. (x.pos + 1) - 1
    BY <2>2
  <2> QED
    BY <2>1, <2>3, Zenon DEF Stored
<1>4. ASSUME NEW x \in Range(batch.prefills), NEW p \in 0 .. x.start + x.num - 1
      PROVE  kv[CellOf(x.table, p)] = <<x.seq, p>>
  <2>1. x.start \in Nat /\ x.num \in Nat
    BY BatchesAssumption, EntryFacts
  <2>2. p \in 0 .. (x.start + x.num) - 1
    BY <2>1
  <2> QED
    BY <1>2, <2>2, Zenon DEF Stored
<1> QED
  BY <1>3, <1>4, Zenon

(* When a pass has stored, every sequence finds every position it has      *)
(* computed through its own block table: for any tables that are apart and *)
(* long enough, no store goes to another's block, into the padding or over *)
(* an older position (paged_forward, paged_kv_store).                      *)
THEOREM StoredInPlace == Spec => []StoresLand
<1>1. Init => PassInv
  BY PassInit DEF Init
<1> QED
  BY <1>1, Landed, PassNext, SameBatch, PTL DEF Spec
-----------------------------------------------------------------------------
(* Division.                                                               *)
LEMMA Division ==
  ASSUME NEW a \in Nat, NEW d \in Nat \ {0}
  PROVE  a \div d \in Nat /\ a % d \in 0 .. d - 1 /\ a = d * (a \div d) + (a % d)
  OBVIOUS

LEMMA Quotient ==
  ASSUME NEW a \in Int, NEW d \in Nat \ {0}, NEW q \in Int
  PROVE  a \div d = q <=> d * q <= a /\ a < d * q + d
<1> DEFINE e == a \div d
<1>1. e \in Int /\ d * e <= a /\ a < d * e + d
  OBVIOUS
<1> HIDE DEF e
<1>2. ASSUME d * q <= a, a < d * q + d
      PROVE  e = q
  <2>1. CASE e < q
    <3>1. d * (e + 1) <= d * q
      BY <1>1, <2>1
    <3>2. d * (e + 1) = d * e + d
      BY <1>1
    <3> QED
      BY <1>1, <1>2, <3>1, <3>2
  <2>2. CASE q < e
    <3>1. d * (q + 1) <= d * e
      BY <1>1, <2>2
    <3>2. d * (q + 1) = d * q + d
      OBVIOUS
    <3> QED
      BY <1>1, <1>2, <3>1, <3>2
  <2> QED
    BY <1>1, <2>1, <2>2
<1> QED
  BY <1>1, <1>2 DEF e

LEMMA TimesOrder ==
  ASSUME NEW a \in Nat, NEW b \in Nat, NEW d \in Nat \ {0}
  PROVE  a < b <=> a * d < b * d
<1>1. ASSUME a < b PROVE a * d < b * d
  <2>1. (a + 1) * d <= b * d
    BY <1>1
  <2>2. (a + 1) * d = a * d + d
    OBVIOUS
  <2> QED
    BY <2>1, <2>2
<1>2. ASSUME b <= a PROVE b * d <= a * d
  BY <1>2
<1>3. a < b \/ b <= a
  OBVIOUS
<1>4. a * d \in Nat /\ b * d \in Nat
  OBVIOUS
<1> QED
  BY <1>1, <1>2, <1>3, <1>4

(* What a warp weighs in a turn (the loop over blockDim.x).                *)
Owner(p) == (p \div WarpSize) % NumWarps
Turn(p) == (p \div WarpSize) \div NumWarps

LEMMA OwnerFacts ==
  ASSUME NEW p \in Nat
  PROVE  Owner(p) \in Lanes /\ Turn(p) \in Nat /\ Turn(p) * (NumWarps * WarpSize) <= p
<1> DEFINE a == p \div WarpSize
<1>1. a \in Nat /\ WarpSize * a <= p /\ WarpSize \in Nat \ {0} /\ NumWarps \in Nat \ {0}
  BY WarpsAssumption, Division
<1>2. Owner(p) = a % NumWarps /\ Turn(p) = a \div NumWarps
  BY DEF Owner, Turn
<1> HIDE DEF a
<1>3. /\ a \div NumWarps \in Nat /\ a % NumWarps \in 0 .. NumWarps - 1
      /\ a = NumWarps * (a \div NumWarps) + (a % NumWarps)
  BY <1>1, Division
<1>4. \A t, n, r, s \in Nat : \A q \in Nat : q = n * t + r /\ s * q <= p => t * (n * s) <= p
  <2> SUFFICES ASSUME NEW t \in Nat, NEW n \in Nat, NEW r \in Nat, NEW s \in Nat, NEW q \in Nat,
                      q = n * t + r, s * q <= p
               PROVE  t * (n * s) <= p
    OBVIOUS
  <2>1. s * q = t * (n * s) + s * r
    OBVIOUS
  <2>2. s * r \in Nat /\ t * (n * s) \in Nat
    OBVIOUS
  <2> QED
    BY <2>1, <2>2
<1>5. Turn(p) * (NumWarps * WarpSize) <= p
  BY <1>1, <1>2, <1>3, <1>4
<1> QED
  BY <1>2, <1>3, <1>5 DEF Lanes

LEMMA MineIs ==
  ASSUME NEW p \in Nat, NEW w \in Lanes, NEW t \in Nat
  PROVE  (p - t * (NumWarps * WarpSize)) \div WarpSize = w <=> Owner(p) = w /\ Turn(p) = t
<1> DEFINE a == p \div WarpSize
           n == NumWarps
           s == WarpSize
<1>1. n \in Nat \ {0} /\ s \in Nat \ {0} /\ w \in Nat /\ w < n /\ a \in Nat
  BY WarpsAssumption, Division DEF Lanes
<1>2. a = n * t + w <=> s * (n * t + w) <= p /\ p < s * (n * t + w) + s
  <2>1. n * t + w \in Int /\ p \in Int
    BY <1>1
  <2> QED
    BY <1>1, <2>1, Quotient
<1>3. (p - t * (n * s)) \div s = w <=> s * w <= p - t * (n * s) /\ p - t * (n * s) < s * w + s
  <2>1. p - t * (n * s) \in Int
    BY <1>1
  <2> QED
    BY <1>1, <2>1, Quotient
<1>4. s * (n * t + w) = t * (n * s) + s * w /\ t * (n * s) \in Nat /\ s * w \in Nat
  BY <1>1
<1>5. (p - t * (n * s)) \div s = w <=> a = n * t + w
  <2>1. \A A, B, C, r \in Nat : C = B + A =>
          (C <= p /\ p < C + r <=> A <= p - B /\ p - B < A + r)
    OBVIOUS
  <2>2. s * (n * t + w) \in Nat
    BY <1>4
  <2> HIDE DEF a, n, s
  <2>3. s * (n * t + w) <= p /\ p < s * (n * t + w) + s
          <=> s * w <= p - t * (n * s) /\ p - t * (n * s) < s * w + s
    BY <1>1, <1>4, <2>1, <2>2
  <2> QED
    BY <1>2, <1>3, <2>3, Zenon
<1>6. a \div n = t <=> n * t <= a /\ a < n * t + n
  <2>1. a \in Int /\ t \in Int /\ n \in Nat \ {0}
    BY <1>1
  <2> HIDE DEF a, n, s
  <2> QED
    BY <2>1, Quotient, Zenon
<1>7. a = n * (a \div n) + (a % n) /\ a \div n \in Nat /\ a % n \in 0 .. n - 1
  BY <1>1, Division
<1>8. a = n * t + w <=> a % n = w /\ a \div n = t
  <2>1. n * t \in Nat
    BY <1>1
  <2> DEFINE q == a \div n
             r == a % n
  <2> HIDE DEF n, s, a, q, r
  <2>2. ASSUME a = n * t + w PROVE q = t /\ r = w
    <3>1. q = t
      BY <1>1, <1>6, <2>1, <2>2 DEF q
    <3> QED
      BY <1>1, <1>7, <2>1, <2>2, <3>1 DEF q, r
  <2>3. ASSUME q = t, r = w PROVE a = n * t + w
    BY <1>7, <2>3 DEF q, r
  <2> QED
    BY <2>2, <2>3 DEF q, r
<1> QED
  BY <1>5, <1>8 DEF Owner, Turn

(* The windows cover the sequence.                                         *)
LEMMA WindowsCover ==
  ASSUME NEW n \in Nat \ {0}, NEW k, k = CeilDiv(n, BlockSize) * (BlockSize \div NumWarps)
  PROVE  k \in Nat \ {0} /\ n <= k * NumWarps
<1> DEFINE c == (n + BlockSize - 1) \div BlockSize
           b == BlockSize \div NumWarps
           s == BlockSize
           h == NumWarps
<1>1. s \in Nat \ {0} /\ h \in Nat \ {0} /\ s % h = 0
  BY BlockSizeAssumption, WarpsAssumption
<1>2. c \in Int /\ n + s - 1 < s * c + s
  <2>1. n + s - 1 \in Nat
    BY <1>1
  <2>2. c \in Nat
    BY <1>1, <2>1, Division
  <2>3. c \in Int /\ n + s - 1 \in Int
    BY <2>1, <2>2
  <2> QED
    BY <1>1, <2>3, Quotient
<1>3. b \in Nat /\ s = h * b
  <2>1. s \div h \in Nat /\ s = h * (s \div h) + (s % h)
    BY <1>1, Division
  <2> DEFINE q == s \div h
  <2> HIDE DEF q
  <2> QED
    BY <1>1, <2>1 DEF q
<1>4. k = c * b
  BY DEF CeilDiv
<1> HIDE DEF c, b, s, h
<1>5. n <= s * c
  BY <1>1, <1>2
<1>6. c > 0
  <2>1. ASSUME c <= 0 PROVE s * c <= 0
    BY <1>1, <1>2, <2>1
  <2>2. s * c \in Int
    BY <1>1, <1>2
  <2> QED
    BY <1>2, <1>5, <2>1, <2>2
<1>7. b # 0
  BY <1>1, <1>3
<1>8. c * b \in Nat \ {0}
  <2>1. c \in Nat \ {0} /\ b \in Nat \ {0}
    BY <1>2, <1>3, <1>6, <1>7
  <2> QED
    BY <2>1
<1>9. s * c = (c * b) * h
  BY <1>1, <1>2, <1>3
<1> QED
  BY <1>4, <1>5, <1>8, <1>9 DEF h
-----------------------------------------------------------------------------
(* FlashInfer's pages.                                                     *)
LEMMA PageCount ==
  ASSUME NEW n \in Nat \ {0}, NEW c, c = CeilDiv(n, BlockSize)
  PROVE  /\ c \in Nat \ {0} /\ n <= c * BlockSize
         /\ (c - 1) * BlockSize + LastPageLen(n) = n
         /\ \A m \in Nat : n <= m * BlockSize => c <= m
<1> DEFINE s == BlockSize
           q == n \div s
           r == n % s
<1>1. s \in Nat \ {0}
  BY BlockSizeAssumption
<1>2. q \in Nat /\ r \in 0 .. s - 1 /\ n = s * q + r
  BY <1>1, Division
<1>3. \A e \in Nat : c = e <=> s * e <= n + s - 1 /\ n + s - 1 < s * e + s
  <2> SUFFICES ASSUME NEW e \in Nat
               PROVE  c = e <=> s * e <= n + s - 1 /\ n + s - 1 < s * e + s
    OBVIOUS
  <2>1. e \in Int /\ n + s - 1 \in Int
    BY <1>1
  <2>2. c = (n + s - 1) \div s
    BY DEF CeilDiv
  <2> DEFINE a == n + s - 1
  <2> HIDE DEF a, s
  <2> QED
    BY <1>1, <2>1, <2>2, Quotient DEF a
<1>4. LastPageLen(n) = IF r = 0 THEN s ELSE r
  BY DEF LastPageLen
<1> HIDE DEF s, q, r
<1>5. s * q \in Nat /\ s * (q + 1) = s * q + s /\ q * s = s * q
  BY <1>1, <1>2
<1>6. CASE r = 0
  <2>1. q # 0
    BY <1>1, <1>2, <1>6
  <2>2. c = q
    BY <1>1, <1>2, <1>3, <1>5, <1>6
  <2>3. (q - 1) * s = s * q - s
    BY <1>1, <1>2
  <2>4. ASSUME NEW m \in Nat, n <= m * s
        PROVE  q <= m
    <3>1. m < q <=> m * s < q * s
      BY <1>1, <1>2, TimesOrder
    <3>2. m * s \in Nat
      BY <1>1
    <3> QED
      BY <1>2, <1>5, <1>6, <2>4, <3>1, <3>2
  <2> QED
    BY <1>1, <1>2, <1>4, <1>5, <1>6, <2>1, <2>2, <2>3, <2>4 DEF s
<1>7. CASE r # 0
  <2>1. c = q + 1
    BY <1>1, <1>2, <1>3, <1>5, <1>7
  <2>2. (q + 1) * s = s * q + s /\ (q + 1) - 1 = q
    BY <1>1, <1>2
  <2>3. ASSUME NEW m \in Nat, n <= m * s
        PROVE  q + 1 <= m
    <3>1. q < m <=> q * s < m * s
      BY <1>1, <1>2, TimesOrder
    <3>2. m * s \in Nat
      BY <1>1
    <3> QED
      BY <1>2, <1>5, <1>7, <2>3, <3>1, <3>2
  <2> QED
    BY <1>1, <1>2, <1>4, <1>5, <1>7, <2>1, <2>2, <2>3 DEF s
<1> QED
  BY <1>6, <1>7

LEMMA FirstBlocks ==
  ASSUME NEW X, NEW t \in Seq(X), NEW n \in Nat, n <= Len(t)
  PROVE  /\ SubSeq(t, 1, n) \in Seq(X) /\ Len(SubSeq(t, 1, n)) = n
         /\ \A k \in 1 .. n : SubSeq(t, 1, n)[k] = t[k]
  OBVIOUS

LEMMA Slice ==
  ASSUME NEW X, NEW t \in Seq(X), NEW a \in Nat, NEW n \in Nat, a + n <= Len(t)
  PROVE  /\ Len(SubSeq(t, a + 1, a + n)) = n
         /\ \A k \in 1 .. n : SubSeq(t, a + 1, a + n)[k] = t[a + k]
  OBVIOUS

(* The used pages of a decoding sequence, taken out of the list of all,    *)
(* are its blocks, and the cells on them its positions.                    *)
LEMMA PagesRead ==
  ASSUME NEW b, WellFormed(b), NEW i \in DOMAIN b.decodes
  PROVE  PageCells(PageMetadata(BlockTables(b), SeqLens(b)), i)
           = [p \in 0 .. b.decodes[i].pos |-> CellOf(b.decodes[i].table, p)]
<1> DEFINE d == Len(b.decodes)
           X == Blocks \cup {0}
           tables == BlockTables(b)
           lens == SeqLens(b)
           pages == [k \in 1 .. d |-> CeilDiv(lens[k], BlockSize)]
           parts == [k \in 1 .. d |-> SubSeq(tables[k], 1, pages[k])]
           all == FlattenSeq(parts)
           meta == PageMetadata(tables, lens)
           own == SubSeq(all, SumTo(pages, i - 1) + 1, SumTo(pages, i))
           pos == b.decodes[i].pos
           table == b.decodes[i].table
<1>1. /\ d \in Nat /\ DOMAIN b.decodes = 1 .. d
      /\ \A k \in 1 .. d : /\ b.decodes[k].pos \in Nat /\ b.decodes[k].table \in Seq(Blocks)
                           /\ b.decodes[k].pos < Len(b.decodes[k].table) * BlockSize
  BY BatchFacts
<1>2. DOMAIN lens = 1 .. d /\ Len(lens) = d /\ \A k \in 1 .. d : lens[k] = b.decodes[k].pos + 1
  <2>1. lens = [k \in 1 .. d |-> b.decodes[k].pos + 1]
    BY <1>1 DEF SeqLens
  <2> HIDE DEF lens, d
  <2> QED
    BY <1>1, <2>1
<1>3. ASSUME NEW k \in 1 .. d
      PROVE  /\ pages[k] \in Nat \ {0} /\ pages[k] <= Len(b.decodes[k].table)
             /\ lens[k] <= pages[k] * BlockSize
             /\ (pages[k] - 1) * BlockSize + LastPageLen(lens[k]) = lens[k]
  <2>1. lens[k] \in Nat \ {0} /\ pages[k] = CeilDiv(lens[k], BlockSize)
    BY <1>1, <1>2
  <2>2. Len(b.decodes[k].table) \in Nat /\ lens[k] <= Len(b.decodes[k].table) * BlockSize
    <3>1. Len(b.decodes[k].table) \in Nat
      BY <1>1
    <3>2. Len(b.decodes[k].table) * BlockSize \in Nat
      BY <3>1, BlockSizeAssumption
    <3> QED
      BY <1>1, <1>2, <3>1, <3>2
  <2> DEFINE n == lens[k]
             c == pages[k]
             m == Len(b.decodes[k].table)
  <2> HIDE DEF lens, pages, n, c, m
  <2>3. n \in Nat \ {0} /\ c = CeilDiv(n, BlockSize)
    BY <2>1 DEF n, c
  <2>4. /\ c \in Nat \ {0} /\ n <= c * BlockSize /\ (c - 1) * BlockSize + LastPageLen(n) = n
        /\ \A h \in Nat : n <= h * BlockSize => c <= h
    BY <2>3, PageCount
  <2>5. m \in Nat /\ n <= m * BlockSize
    BY <2>2 DEF n, m
  <2> QED
    BY <2>4, <2>5, Zenon DEF n, c, m
<1>4. ASSUME NEW k \in 1 .. d
      PROVE  /\ tables[k] \in Seq(X) /\ Len(b.decodes[k].table) <= Len(tables[k])
             /\ \A r \in 1 .. Len(b.decodes[k].table) : tables[k][r] = b.decodes[k].table[r]
  <2> DEFINE m == MaxBlocks(b)
             t == b.decodes[k].table
  <2>1. m \in Nat /\ Len(t) <= m /\ \A r \in DOMAIN t : tables[k][r] = t[r]
    BY <1>1, PaddedTables
  <2>2. tables[k] = [r \in 1 .. m |-> IF r <= Len(t) THEN t[r] ELSE 0]
    BY <1>1, Zenon DEF BlockTables
  <2>3. t \in Seq(Blocks) /\ DOMAIN t = 1 .. Len(t) /\ Len(t) \in Nat
    BY <1>1
  <2> HIDE DEF tables, m, t
  <2>4. \A r \in 1 .. m : (IF r <= Len(t) THEN t[r] ELSE 0) \in X
    BY <2>1, <2>3
  <2>5. tables[k] \in Seq(X) /\ Len(tables[k]) = m
    <3> HIDE DEF X
    <3> QED
      BY <2>1, <2>2, <2>4
  <2> QED
    BY <2>1, <2>3, <2>5 DEF t
<1>5. ASSUME NEW k \in 1 .. d
      PROVE  /\ parts[k] \in Seq(X) /\ Len(parts[k]) = pages[k]
             /\ \A r \in 1 .. pages[k] : parts[k][r] = b.decodes[k].table[r]
  <2> DEFINE t == b.decodes[k].table
             n == pages[k]
  <2>1. parts[k] = SubSeq(tables[k], 1, n)
    OBVIOUS
  <2>2. Len(t) \in Nat /\ n \in Nat /\ n <= Len(t)
    <3> HIDE DEF pages
    <3> QED
      BY <1>1, <1>3
  <2>3. /\ tables[k] \in Seq(X) /\ Len(t) <= Len(tables[k])
        /\ \A r \in 1 .. Len(t) : tables[k][r] = t[r]
    BY <1>4
  <2> HIDE DEF parts, tables, X, n, t
  <2>4. n <= Len(tables[k])
    <3>1. Len(tables[k]) \in Nat
      BY <2>3
    <3> QED
      BY <2>2, <2>3, <3>1
  <2>5. /\ SubSeq(tables[k], 1, n) \in Seq(X) /\ Len(SubSeq(tables[k], 1, n)) = n
        /\ \A r \in 1 .. n : SubSeq(tables[k], 1, n)[r] = tables[k][r]
    BY <2>2, <2>3, <2>4, FirstBlocks
  <2>6. \A r \in 1 .. n : r \in 1 .. Len(t)
    BY <2>2
  <2>7. \A r \in 1 .. n : parts[k][r] = t[r]
    BY <2>1, <2>3, <2>5, <2>6, Zenon
  <2> QED
    BY <2>1, <2>5, <2>7 DEF n, t
<1>6. pages \in Seq(Nat) /\ Len(pages) = d /\ DOMAIN pages = 1 .. d
  <2>1. \A k \in 1 .. d : CeilDiv(lens[k], BlockSize) \in Nat
    BY <1>3
  <2> HIDE DEF lens, d
  <2> QED
    BY <1>1, <2>1
<1>7. parts \in Seq(Seq(X)) /\ Len(parts) = d
  <2>1. \A k \in 1 .. d : SubSeq(tables[k], 1, pages[k]) \in Seq(X)
    BY <1>5
  <2> HIDE DEF tables, pages, d, X
  <2> QED
    BY <1>1, <2>1
<1> HIDE DEF parts, tables, X, pages
<1>8. Joined(parts, pages, d, all, X)
  BY <1>5, <1>6, <1>7, FlattenElements
<1>9. /\ meta.indices = all
      /\ meta.indptr[i] = SumTo(pages, i - 1) /\ meta.indptr[i + 1] = SumTo(pages, i)
      /\ meta.last_page_len[i] = LastPageLen(lens[i])
  <2>1. pages = [k \in DOMAIN lens |-> CeilDiv(lens[k], BlockSize)]
    BY <1>2 DEF pages
  <2>2. parts = [k \in DOMAIN lens |-> SubSeq(tables[k], 1, pages[k])]
    BY <1>2 DEF parts
  <2> HIDE DEF lens, d
  <2>3. meta = [indptr |-> [k \in 1 .. Len(lens) + 1 |-> SumTo(pages, k - 1)],
                indices |-> all,
                last_page_len |-> [k \in DOMAIN lens |-> LastPageLen(lens[k])]]
    BY <2>1, <2>2, Zenon DEF PageMetadata
  <2>4. i \in 1 .. Len(lens) + 1 /\ i + 1 \in 1 .. Len(lens) + 1 /\ i \in DOMAIN lens /\ i + 1 - 1 = i
    BY <1>1, <1>2
  <2> HIDE DEF all, meta
  <2> QED
    BY <2>3, <2>4
<1>10. PageCells(meta, i) = [p \in 0 .. ((Len(own) - 1) * BlockSize + LastPageLen(lens[i])) - 1
                               |-> CellOf(own, p)]
  <2> HIDE DEF meta, all, lens
  <2> QED
    BY <1>9 DEF PageCells
<1> HIDE DEF all, meta
<1>11. Len(own) = pages[i] /\ \A r \in 1 .. pages[i] : own[r] = table[r]
  <2> DEFINE a == SumTo(pages, i - 1)
             n == pages[i]
  <2>1. i \in 1 .. d /\ i \in 1 .. Len(pages) /\ d \in i .. Len(pages)
        /\ i - 1 \in 0 .. Len(pages) /\ i - 1 \in Nat /\ i - 1 + 1 = i
    BY <1>1, <1>6
  <2>2. a \in Nat
    BY <1>6, <2>1, SumType
  <2>3. n \in Nat
    BY <1>3, <2>1
  <2>4. SumTo(pages, i) = a + n
    BY <2>1, SumStep
  <2>5. a + n <= SumTo(pages, d)
    BY <1>6, <2>1, SumMonotone
  <2>6. all \in Seq(X) /\ Len(all) = SumTo(pages, d)
    BY <1>8 DEF Joined
  <2>7. \A r \in 1 .. n : all[a + r] = parts[i][r]
    BY <1>8, <2>1 DEF Joined
  <2> HIDE DEF a, n
  <2>8. own = SubSeq(all, a + 1, a + n)
    BY <2>4 DEF a
  <2> HIDE DEF own
  <2>9. Len(own) = n /\ \A r \in 1 .. n : own[r] = all[a + r]
    <3>1. a + n <= Len(all)
      BY <2>5, <2>6
    <3> QED
      BY <2>2, <2>3, <2>6, <2>8, <3>1, Slice
  <2>10. \A r \in 1 .. n : parts[i][r] = table[r]
    BY <1>5, <2>1 DEF n
  <2> QED
    BY <2>7, <2>9, <2>10 DEF n
<1>12. lens[i] = pos + 1 /\ pos \in Nat /\ (pages[i] - 1) * BlockSize + LastPageLen(lens[i]) = lens[i]
       /\ lens[i] <= pages[i] * BlockSize /\ pages[i] \in Nat
  BY <1>1, <1>2, <1>3
<1> HIDE DEF own, lens
<1>13. ((Len(own) - 1) * BlockSize + LastPageLen(lens[i])) - 1 = pos
  BY <1>11, <1>12
<1>14. ASSUME NEW p \in 0 .. pos
       PROVE  CellOf(own, p) = CellOf(table, p)
  <2>1. p \in Nat /\ p < pages[i] * BlockSize
    <3>1. pages[i] * BlockSize \in Nat
      BY <1>12, BlockSizeAssumption
    <3> QED
      BY <1>12, <3>1
  <2>2. p \div BlockSize \in Nat /\ p \div BlockSize < pages[i]
    BY <1>12, <2>1, DivMod, DivBelow
  <2> DEFINE q == p \div BlockSize
  <2> HIDE DEF q
  <2>3. q + 1 \in 1 .. pages[i]
    BY <1>12, <2>2 DEF q
  <2>4. own[q + 1] = table[q + 1]
    BY <1>11, <2>3
  <2> QED
    BY <2>4, Zenon DEF CellOf, q
<1> QED
  <2>1. PageCells(meta, i) = [p \in 0 .. pos |-> CellOf(own, p)]
    BY <1>10, <1>13, Zenon
  <2>2. [p \in 0 .. pos |-> CellOf(own, p)] = [p \in 0 .. pos |-> CellOf(table, p)]
    <3> HIDE DEF pos, table
    <3> QED
      BY <1>14
  <2> QED
    BY <2>1, <2>2, Zenon DEF meta, tables, lens
-----------------------------------------------------------------------------
(* The kernel.  Its query, and what it finds in the cache.                 *)
Asked ==
  /\ run \in DOMAIN batch.decodes
  /\ score \in [0 .. batch.decodes[run].pos -> 0 .. MaxScore - 1]
  /\ \A p \in 0 .. batch.decodes[run].pos : Found(p) = <<batch.decodes[run].seq, p>>
Weights == [k \in 1 .. len |-> Exp[score[k - 1]]]

(* All warps are in the same window, or between two of the same.           *)
Ending == {"weigh", "sync_weights", "gather", "done"}
Stage(w) ==
  \/ wpc[w] \in {"dot", "sync_scores"} /\ win[w] < Windows /\ idx[w] = 0
  \/ wpc[w] = "fold" /\ win[w] < Windows /\ idx[w] \in Lanes
  \/ /\ wpc[w] \in Ending /\ win[w] = Windows
     /\ \E t \in Nat : idx[w] = t * (NumWarps * WarpSize)
     /\ wpc[w] # "weigh" => len <= idx[w]
Round(w) == IF wpc[w] = "fold" THEN win[w] + 1 ELSE win[w]
Lockstep ==
  /\ wpc \in [Lanes -> {"dot", "sync_scores", "fold"} \cup Ending]
  /\ win \in [Lanes -> Nat] /\ idx \in [Lanes -> Nat]
  /\ \A w \in Lanes : Stage(w)
  /\ \A v, w \in Lanes : Round(v) = Round(w)
  /\ \A v, w \in Lanes : wpc[v] \in {"gather", "done"} => wpc[w] \in {"gather", "done"}

(* A warp's denominator is that of the positions it has folded.  In the    *)
(* race of the last window it is some number.                              *)
Seen(w) ==
  IF wpc[w] \in Ending \/ len < win[w] * NumWarps + idx[w] THEN len
  ELSE win[w] * NumWarps + idx[w]
Summed ==
  /\ l_max \in [Lanes -> -1 .. MaxScore] /\ m_sum \in [Lanes -> Nat]
  /\ \A w \in Lanes :
       /\ Seen(w) > 0 => l_max[w] >= 0 /\ m_sum[w] > 0
       /\ LastWindowEmpty => m_sum[w] = SumTo(Weights, Seen(w)) * Exp[MaxScore - l_max[w]]

(* A position's place in shared memory: nothing, its score from its        *)
(* window on, its weight once the warp it belongs to has come by.          *)
Dotted(p) ==
  LET w == p % NumWarps
  IN \/ p \div NumWarps < win[w]
     \/ p \div NumWarps = win[w] /\ wpc[w] \in {"sync_scores", "fold"}
Done(p) == wpc[Owner(p)] \in Ending /\ Turn(p) * (NumWarps * WarpSize) < idx[Owner(p)]
Weight(p) == <<Exp[MaxScore + score[p] - l_max[Owner(p)]], m_sum[Owner(p)]>>
Content(p) == IF ~Dotted(p) THEN <<>> ELSE IF Done(p) THEN Weight(p) ELSE <<score[p]>>
Shared == sdata = [p \in 0 .. len - 1 |-> Content(p)]

Results ==
  /\ DOMAIN result \subseteq Lanes
  /\ \A w \in Lanes : wpc[w] = "done" =>
       w \in DOMAIN result /\ result[w] = [p \in 0 .. len - 1 |-> <<Found(p)>> \o Weight(p)]

Kernel ==
  /\ Asked /\ Lockstep /\ Summed /\ Shared /\ Results
  /\ pc \in {"kernel", "end"}
  /\ pc = "end" => \A w \in Lanes : wpc[w] = "done"

LEMMA LanesFacts ==
  /\ NumWarps \in Nat \ {0} /\ WarpSize \in Nat \ {0}
  /\ \A w \in Lanes : w \in Nat /\ w < NumWarps
  /\ 0 \in Lanes
  BY WarpsAssumption DEF Lanes

LEMMA AskedFacts ==
  ASSUME WellFormed(batch), Asked
  PROVE  /\ len \in Nat \ {0} /\ len = batch.decodes[run].pos + 1
         /\ Windows \in Nat \ {0} /\ len <= Windows * NumWarps
         /\ \A p \in 0 .. len - 1 :
              /\ score[p] \in 0 .. MaxScore - 1
              /\ Found(p) = <<batch.decodes[run].seq, p>>
              /\ ScoreOf(score, run, Found(p)) = score[p]
<1> DEFINE pos == batch.decodes[run].pos
<1>1. run \in DOMAIN batch.decodes /\ pos \in Nat
  BY BatchFacts DEF Asked
<1>2. len = pos + 1
  BY <1>1 DEF len, SeqLens
<1>3. len \in Nat \ {0} /\ 0 .. len - 1 = 0 .. pos
  BY <1>1, <1>2
<1>4. Windows \in Nat \ {0} /\ len <= Windows * NumWarps
  BY <1>3, WindowsCover DEF Windows
<1>5. ASSUME NEW p \in 0 .. len - 1
      PROVE  /\ score[p] \in 0 .. MaxScore - 1
             /\ Found(p) = <<batch.decodes[run].seq, p>>
             /\ ScoreOf(score, run, Found(p)) = score[p]
  <2>1. p \in 0 .. pos /\ DOMAIN score = 0 .. pos
    BY <1>3 DEF Asked
  <2>2. score[p] \in 0 .. MaxScore - 1 /\ Found(p) = <<batch.decodes[run].seq, p>>
    BY <2>1 DEF Asked
  <2>3. <<batch.decodes[run].seq, p>> # Stale
    BY DEF Stale
  <2> QED
    BY <2>1, <2>2, <2>3 DEF ScoreOf
<1> QED
  BY <1>2, <1>3, <1>4, <1>5

LEMMA QueryKept ==
  ASSUME UNCHANGED <<batch, kv, run, score>>
  PROVE  /\ len' = len /\ Windows' = Windows /\ Weights' = Weights
         /\ LastWindowEmpty' = LastWindowEmpty /\ Asked' = Asked
         /\ \A p : Found(p)' = Found(p)
<1>1. len' = len /\ \A p : Found(p)' = Found(p)
  BY DEF len, Found
<1>2. Windows' = Windows /\ Weights' = Weights
  BY <1>1 DEF Windows, Weights
<1> QED
  BY <1>1, <1>2 DEF LastWindowEmpty, Asked

LEMMA WindowOf ==
  ASSUME NEW p \in Nat
  PROVE  /\ p \div NumWarps \in Nat /\ p % NumWarps \in Lanes
         /\ NumWarps * (p \div NumWarps) <= p
<1>1. /\ p \div NumWarps \in Nat /\ p % NumWarps \in 0 .. NumWarps - 1
      /\ p = NumWarps * (p \div NumWarps) + (p % NumWarps)
  BY LanesFacts, Division
<1> DEFINE a == NumWarps * (p \div NumWarps)
           r == p % NumWarps
<1>2. a \in Nat /\ r \in Nat /\ p = a + r
  BY <1>1, LanesFacts
<1> HIDE DEF a, r
<1>3. a <= p
  BY <1>2
<1> QED
  BY <1>1, <1>3 DEF a, Lanes

(* Whose turn a position was is over: its score is there.                  *)
LEMMA DottedBelow ==
  ASSUME Lockstep, NEW w \in Lanes, NEW p \in Nat, p \div NumWarps < Round(w)
  PROVE  Dotted(p)
<1> DEFINE v == p % NumWarps
           k == p \div NumWarps
<1>1. v \in Lanes /\ k \in Nat
  BY WindowOf
<1> HIDE DEF v, k
<1>2. k < Round(v)
  BY <1>1 DEF Lockstep, k
<1>3. win[v] \in Nat /\ Stage(v)
  BY <1>1 DEF Lockstep
<1>4. k < win[v] \/ (k = win[v] /\ wpc[v] = "fold")
  <2>1. \A a, c \in Nat : a < c + 1 => a < c \/ a = c
    OBVIOUS
  <2>2. CASE wpc[v] = "fold"
    <3>1. k < win[v] + 1
      BY <1>2, <2>2 DEF Round
    <3>2. k \in Nat /\ win[v] \in Nat
      BY <1>1, <1>3
    <3> QED
      BY <2>1, <2>2, <3>1, <3>2, Zenon
  <2>3. CASE wpc[v] # "fold"
    <3>1. Round(v) = win[v]
      BY <2>3, Zenon DEF Round
    <3> QED
      BY <1>2, <3>1, Zenon
  <2> QED
    BY <2>2, <2>3
<1> QED
  BY <1>4 DEF Dotted, v, k

LEMMA AllDotted ==
  ASSUME WellFormed(batch), Asked, Lockstep, NEW w \in Lanes, wpc[w] \in Ending,
         NEW p \in 0 .. len - 1
  PROVE  Dotted(p)
<1>1. len \in Nat /\ len <= Windows * NumWarps /\ Windows \in Nat
  BY AskedFacts
<1>2. Round(w) = Windows
  BY DEF Lockstep, Stage, Round, Ending
<1>3. p \div NumWarps < Windows
  <2> DEFINE k == p \div NumWarps
  <2>1. k \in Nat /\ NumWarps * k <= p /\ p < len
    <3>1. p \in Nat /\ p < len
      BY <1>1
    <3> QED
      BY <3>1, WindowOf
  <2> HIDE DEF k
  <2>2. k * NumWarps = NumWarps * k
    BY <2>1, LanesFacts
  <2>3. Windows * NumWarps \in Nat /\ k * NumWarps \in Nat
    BY <1>1, <2>1, LanesFacts
  <2>4. k * NumWarps < Windows * NumWarps
    BY <1>1, <2>1, <2>2, <2>3
  <2> QED
    BY <1>1, <2>1, <2>4, TimesOrder, LanesFacts DEF k
<1> QED
  BY <1>1, <1>2, <1>3, DottedBelow

LEMMA WindowIs ==
  ASSUME NEW p \in Nat, NEW w \in Lanes, NEW k \in Nat
  PROVE  p = k * NumWarps + w <=> p % NumWarps = w /\ p \div NumWarps = k
<1> DEFINE q == p \div NumWarps
           r == p % NumWarps
<1>1. q \in Nat /\ r \in 0 .. NumWarps - 1 /\ p = NumWarps * q + r
  BY LanesFacts, Division
<1>2. q = k <=> NumWarps * k <= p /\ p < NumWarps * k + NumWarps
  <2>1. p \in Int /\ k \in Int
    OBVIOUS
  <2> QED
    BY <2>1, LanesFacts, Quotient
<1>3. NumWarps * k \in Nat /\ k * NumWarps = NumWarps * k /\ w \in Nat /\ w < NumWarps
      /\ NumWarps \in Nat
  BY LanesFacts
<1> HIDE DEF q, r
<1>4. ASSUME p = NumWarps * k + w
      PROVE  r = w /\ q = k
  <2>1. q = k
    BY <1>2, <1>3, <1>4
  <2>2. NumWarps * k + w = NumWarps * k + r
    BY <1>1, <1>4, <2>1
  <2>3. \A a, c, e \in Nat : a + c = a + e => c = e
    OBVIOUS
  <2> QED
    BY <1>1, <1>3, <2>1, <2>2, <2>3
<1>5. ASSUME r = w, q = k
      PROVE  p = NumWarps * k + w
  BY <1>1, <1>5
<1> QED
  BY <1>3, <1>4, <1>5 DEF q, r
-----------------------------------------------------------------------------
(* While some warp is in a window, nobody weighs.                          *)
LEMMA NobodyEnds ==
  ASSUME WellFormed(batch), Asked, Lockstep, NEW w \in Lanes, Round(w) < Windows
  PROVE  \A v \in Lanes : wpc[v] \notin Ending
<1> SUFFICES ASSUME NEW v \in Lanes, wpc[v] \in Ending PROVE FALSE
  OBVIOUS
<1>1. Stage(v) /\ Round(v) = Round(w)
  BY DEF Lockstep
<1>2. win[v] = Windows /\ wpc[v] # "fold"
  BY <1>1 DEF Stage, Ending
<1>3. Round(w) = Windows
  BY <1>1, <1>2, Zenon DEF Round
<1>4. Windows \in Nat
  BY AskedFacts
<1> QED
  BY <1>3, <1>4

LEMMA NotOver ==
  ASSUME Kernel, NEW w \in Lanes, wpc[w] # "done"
  PROVE  pc = "kernel"
  BY DEF Kernel

LEMMA KernelDot ==
  ASSUME WellFormed(batch), Kernel, NEW w \in Lanes, Dot(w)
  PROVE  Kernel'
<1>0. PICK p : p = win[w] * NumWarps + w
  OBVIOUS
<1>1. /\ wpc[w] = "dot" /\ wpc' = [wpc EXCEPT ![w] = "sync_scores"]
      /\ UNCHANGED <<batch, kv, run, score, pc, win, idx, l_max, m_sum, result>>
      /\ sdata' = IF p < len THEN [sdata EXCEPT ![p] = <<ScoreOf(score, run, Found(p))>>] ELSE sdata
  BY <1>0 DEF Dot, Goto, passVars, launchVars
<1>2. Asked /\ Lockstep /\ Summed /\ Shared /\ Results /\ pc = "kernel"
  BY <1>1, NotOver DEF Kernel
<1>3. /\ len' = len /\ Windows' = Windows /\ Weights' = Weights
      /\ LastWindowEmpty' = LastWindowEmpty /\ Asked' = Asked /\ \A q : Found(q)' = Found(q)
  BY <1>1, QueryKept
<1>4. /\ len \in Nat \ {0} /\ Windows \in Nat
      /\ \A q \in 0 .. len - 1 : ScoreOf(score, run, Found(q)) = score[q]
  BY <1>2, AskedFacts
<1>5. \A v \in Lanes : wpc'[v] = IF v = w THEN "sync_scores" ELSE wpc[v]
  BY <1>1, <1>2 DEF Lockstep
<1>6. win[w] \in Nat /\ win[w] < Windows /\ idx[w] = 0 /\ Round(w) = win[w]
  BY <1>1, <1>2 DEF Lockstep, Stage, Round, Ending
<1>7. \A v \in Lanes : wpc[v] \notin Ending /\ wpc'[v] \notin Ending
  <2>1. \A v \in Lanes : wpc[v] \notin Ending
    BY <1>2, <1>6, NobodyEnds
  <2> QED
    BY <1>5, <2>1 DEF Ending
<1>8. Lockstep'
  <2>1. wpc' \in [Lanes -> {"dot", "sync_scores", "fold"} \cup Ending]
    BY <1>1, <1>2 DEF Lockstep
  <2>2. \A v \in Lanes : Stage(v)'
    <3>1. \A v \in Lanes : Stage(v)
      BY <1>2 DEF Lockstep
    <3>2. Stage(w)'
      BY <1>1, <1>3, <1>5, <1>6 DEF Stage
    <3>3. \A v \in Lanes : v # w => Stage(v)'
      BY <1>1, <1>3, <1>5, <3>1 DEF Stage
    <3> QED
      BY <3>2, <3>3
  <2>3. \A v \in Lanes : Round(v)' = Round(v)
    BY <1>1, <1>5 DEF Round
  <2>4. \A v \in Lanes : wpc'[v] \notin {"gather", "done"}
    BY <1>7 DEF Ending
  <2> QED
    BY <1>1, <1>2, <2>1, <2>2, <2>3, <2>4 DEF Lockstep
<1>9. Summed'
  <2>1. \A v \in Lanes : Seen(v)' = Seen(v)
    BY <1>1, <1>3, <1>7 DEF Seen
  <2> QED
    BY <1>1, <1>2, <1>3, <2>1 DEF Summed
<1>10. Shared'
  <2>1. \A q \in 0 .. len - 1 : Owner(q) \in Lanes /\ q % NumWarps \in Lanes /\ q \in Nat
    BY <1>4, OwnerFacts, WindowOf
  <2>2. \A q \in 0 .. len - 1 : ~ Done(q) /\ ~ Done(q)'
    BY <1>7, <2>1 DEF Done
  <2>3. \A q \in 0 .. len - 1 : q # p => (Dotted(q)' <=> Dotted(q))
    <3> SUFFICES ASSUME NEW q \in 0 .. len - 1, q # p
                 PROVE  Dotted(q)' <=> Dotted(q)
      OBVIOUS
    <3>1. CASE q % NumWarps = w
      <4>1. q \div NumWarps # win[w]
        BY <1>0, <1>6, <2>1, <3>1, WindowIs
      <4> QED
        BY <1>1, <3>1, <4>1 DEF Dotted
    <3>2. CASE q % NumWarps # w
      BY <1>1, <1>5, <2>1, <3>2 DEF Dotted
    <3> QED
      BY <3>1, <3>2
  <2>4. \A q \in 0 .. len - 1 : q # p => Content(q)' = Content(q)
    BY <1>1, <2>2, <2>3 DEF Content
  <2>5. sdata = [q \in 0 .. len - 1 |-> Content(q)]
    BY <1>2 DEF Shared
  <2>6. CASE p < len
    <3>1. p \in 0 .. len - 1 /\ p \in Nat
      BY <1>0, <1>4, <1>6, <2>6, LanesFacts
    <3>2. Dotted(p)'
      <4>1. p % NumWarps = w /\ p \div NumWarps = win[w]
        BY <1>0, <1>6, <3>1, WindowIs
      <4> QED
        BY <1>1, <1>5, <4>1 DEF Dotted
    <3>3. Content(p)' = <<score[p]>>
      BY <1>1, <2>2, <3>1, <3>2 DEF Content
    <3>4. sdata' = [sdata EXCEPT ![p] = <<score[p]>>]
      BY <1>1, <1>4, <2>6, <3>1
    <3>5. sdata' = [q \in 0 .. len - 1 |-> IF q = p THEN <<score[p]>> ELSE Content(q)]
      <4>1. \A D, e : \A x \in D : \A C : (e = [q \in D |-> C[q]]) =>
              [e EXCEPT ![x] = <<score[p]>>] = [q \in D |-> IF q = x THEN <<score[p]>> ELSE C[q]]
        OBVIOUS
      <4> DEFINE C == [q \in 0 .. len - 1 |-> Content(q)]
      <4>2. C = [q \in 0 .. len - 1 |-> C[q]]
        OBVIOUS
      <4> HIDE DEF C
      <4>3. sdata' = [q \in 0 .. len - 1 |-> IF q = p THEN <<score[p]>> ELSE C[q]]
        BY <2>5, <3>1, <3>4, <4>1, <4>2 DEF C
      <4>4. \A q \in 0 .. len - 1 : C[q] = Content(q)
        BY Zenon DEF C
      <4> QED
        BY <4>3, <4>4, Zenon
    <3>6. sdata' = [q \in 0 .. len - 1 |-> Content(q)']
      <4>1. \A q \in 0 .. len - 1 : (IF q = p THEN <<score[p]>> ELSE Content(q)) = Content(q)'
        BY <2>4, <3>3, Zenon
      <4> QED
        BY <3>5, <4>1, Zenon
    <3> QED
      BY <1>3, <3>6 DEF Shared
  <2>7. CASE ~ p < len
    <3>1. \A q \in 0 .. len - 1 : q # p
      BY <1>4, <2>7
    <3>2. sdata' = [q \in 0 .. len - 1 |-> Content(q)']
      BY <1>1, <2>4, <2>5, <2>7, <3>1
    <3> QED
      BY <1>3, <3>2 DEF Shared
  <2> QED
    BY <2>6, <2>7
<1>11. Results'
  BY <1>1, <1>2, <1>7 DEF Results, Ending
<1> QED
  BY <1>1, <1>2, <1>3, <1>8, <1>9, <1>10, <1>11 DEF Kernel

LEMMA KernelSync ==
  ASSUME WellFormed(batch), Kernel, Sync
  PROVE  Kernel'
<1>1. /\ UNCHANGED <<batch, kv, run, score, pc, sdata, win, idx, l_max, m_sum, result>>
      /\ \/ /\ \A v \in Lanes : wpc[v] = "sync_scores"
            /\ wpc' = [v \in Lanes |-> "fold"]
         \/ /\ \A v \in Lanes : wpc[v] = "sync_weights"
            /\ wpc' = [v \in Lanes |-> "gather"]
  BY DEF Sync, Meet, passVars, launchVars
<1>2. Asked /\ Lockstep /\ Summed /\ Shared /\ Results /\ pc = "kernel"
  BY <1>1, NotOver, LanesFacts DEF Kernel
<1>3. /\ len' = len /\ Windows' = Windows /\ Weights' = Weights
      /\ LastWindowEmpty' = LastWindowEmpty /\ Asked' = Asked /\ \A q : Found(q)' = Found(q)
  BY <1>1, QueryKept
<1>4. len \in Nat \ {0} /\ Windows \in Nat
  BY <1>2, AskedFacts
<1>5. \A v \in Lanes : /\ wpc'[v] \in Ending <=> wpc[v] \in Ending
                       /\ wpc'[v] \in {"sync_scores", "fold"} <=> wpc[v] \in {"sync_scores", "fold"}
                       /\ wpc'[v] # "done"
  BY <1>1 DEF Ending
<1>6. Lockstep'
  <2>1. win \in [Lanes -> Nat] /\ idx \in [Lanes -> Nat] /\ (\A v \in Lanes : Stage(v))
        /\ (\A u, w \in Lanes : Round(u) = Round(w))
    BY <1>2 DEF Lockstep
  <2>2. CASE (\A v \in Lanes : wpc[v] = "sync_scores") /\ wpc' = [u \in Lanes |-> "fold"]
    <3>1. \A v \in Lanes : win[v] < Windows /\ idx[v] = 0
      BY <2>1, <2>2 DEF Stage, Ending
    <3>2. \A v \in Lanes : Stage(v)'
      BY <1>1, <1>3, <2>2, <3>1, LanesFacts DEF Stage
    <3>3. \A v, w \in Lanes : win[v] = win[w]
      BY <2>1, <2>2 DEF Round
    <3>4. \A v, w \in Lanes : Round(v)' = Round(w)'
      BY <1>1, <2>2, <3>3 DEF Round
    <3>5. wpc' \in [Lanes -> {"dot", "sync_scores", "fold"} \cup Ending]
      BY <2>2, LanesFacts
    <3>6. \A v \in Lanes : wpc'[v] \notin {"gather", "done"}
      BY <2>2
    <3> QED
      BY <1>1, <2>1, <3>2, <3>4, <3>5, <3>6 DEF Lockstep
  <2>3. CASE (\A v \in Lanes : wpc[v] = "sync_weights") /\ wpc' = [u \in Lanes |-> "gather"]
    <3>1. \A v \in Lanes : /\ win[v] = Windows /\ len <= idx[v]
                           /\ \E t \in Nat : idx[v] = t * (NumWarps * WarpSize)
      BY <2>1, <2>3 DEF Stage, Ending
    <3>2. \A v \in Lanes : Stage(v)'
      BY <1>1, <1>3, <2>3, <3>1 DEF Stage, Ending
    <3>3. \A v, w \in Lanes : Round(v)' = Round(w)'
      BY <1>1, <2>3, <3>1 DEF Round
    <3>4. wpc' \in [Lanes -> {"dot", "sync_scores", "fold"} \cup Ending]
      BY <2>3, LanesFacts DEF Ending
    <3>5. \A v \in Lanes : wpc'[v] = "gather"
      BY <2>3
    <3> QED
      BY <1>1, <2>1, <3>2, <3>3, <3>4, <3>5 DEF Lockstep
  <2> QED
    BY <1>1, <2>2, <2>3, LanesFacts
<1>7. Summed'
  <2>1. \A v \in Lanes : Seen(v)' = Seen(v)
    BY <1>1, <1>3, <1>5 DEF Seen
  <2> QED
    BY <1>1, <1>2, <1>3, <2>1 DEF Summed
<1>8. Shared'
  <2>1. \A q \in 0 .. len - 1 : Owner(q) \in Lanes /\ q % NumWarps \in Lanes
    BY <1>4, OwnerFacts, WindowOf
  <2>2. ASSUME NEW q \in 0 .. len - 1
        PROVE  Content(q)' = Content(q)
    <3>1. Done(q)' <=> Done(q)
      BY <1>1, <1>5, <2>1 DEF Done
    <3>2. Dotted(q)' <=> Dotted(q)
      BY <1>1, <1>5, <2>1 DEF Dotted
    <3>3. Weight(q)' = Weight(q)
      BY <1>1 DEF Weight
    <3> QED
      BY <1>1, <3>1, <3>2, <3>3 DEF Content
  <2>3. sdata = [q \in 0 .. len - 1 |-> Content(q)]
    BY <1>2 DEF Shared
  <2> QED
    BY <1>1, <1>3, <2>2, <2>3 DEF Shared
<1>9. Results'
  BY <1>1, <1>2, <1>5 DEF Results
<1> QED
  BY <1>1, <1>2, <1>3, <1>6, <1>7, <1>8, <1>9 DEF Kernel
-----------------------------------------------------------------------------
(* The running maximum and denominator with one more score.                *)
LEMMA Exponents ==
  ASSUME NEW l \in -1 .. MaxScore, NEW s \in 0 .. MaxScore, NEW new,
         new = IF s > l THEN s ELSE l
  PROVE  /\ new \in 0 .. MaxScore /\ l <= new
         /\ MaxScore \in DOMAIN Exp /\ s \in DOMAIN Exp
         /\ new - l \in DOMAIN Exp /\ MaxScore - new \in DOMAIN Exp
         /\ MaxScore - l \in DOMAIN Exp /\ MaxScore + s - new \in DOMAIN Exp
         /\ MaxScore - l = (new - l) + (MaxScore - new)
         /\ MaxScore + s - new = s + (MaxScore - new)
<1>1. DOMAIN Exp = 0 .. 2 * MaxScore /\ MaxScore \in Nat \ {0}
  BY ExpAssumption, ScoreAssumption
<1>2. new \in 0 .. MaxScore /\ l <= new /\ s <= new
  BY <1>1
<1> QED
  BY <1>1, <1>2

LEMMA RescaleFits ==
  ASSUME NEW l \in -1 .. MaxScore, NEW s \in 0 .. MaxScore, NEW new,
         new = IF s > l THEN s ELSE l, NEW m \in Nat
  PROVE  Rescaled(m, l, new) + Exp[MaxScore + s - new] \in Nat \ {0}
<1>1. new - l \in DOMAIN Exp /\ MaxScore + s - new \in DOMAIN Exp
  BY Exponents
<1> DEFINE A == Exp[new - l]
           B == Exp[MaxScore + s - new]
<1>2. A \in Nat \ {0} /\ B \in Nat \ {0}
  BY <1>1, ExpAssumption
<1> HIDE DEF A, B
<1>3. m \div A \in Nat
  BY <1>2, Division
<1> QED
  BY <1>2, <1>3 DEF Rescaled, A, B

LEMMA RescaleExact ==
  ASSUME NEW l \in -1 .. MaxScore, NEW s \in 0 .. MaxScore, NEW new,
         new = IF s > l THEN s ELSE l, NEW S \in Nat, l = -1 => S = 0
  PROVE  Rescaled(S * Exp[MaxScore - l], l, new) + Exp[MaxScore + s - new]
           = (S + Exp[s]) * Exp[MaxScore - new]
<1> DEFINE A == Exp[new - l]
           B == Exp[MaxScore - new]
           C == Exp[s]
           L == Exp[MaxScore - l]
<1>1. A \in Nat \ {0} /\ B \in Nat \ {0} /\ C \in Nat \ {0} /\ L \in Nat \ {0}
  BY Exponents, ExpAssumption
<1>2. L = A * B /\ Exp[MaxScore + s - new] = C * B
  <2>1. \A m, n, x : m \in DOMAIN Exp /\ n \in DOMAIN Exp /\ x \in DOMAIN Exp /\ x = m + n =>
          Exp[x] = Exp[m] * Exp[n]
    BY ExpAssumption, Zenon
  <2> QED
    BY <2>1, Exponents
<1> HIDE DEF A, B, C, L
<1>3. (S * L) \div A = S * B
  <2>1. \A k \in Nat : (A * k) \div A = k
    <3> SUFFICES ASSUME NEW k \in Nat PROVE (A * k) \div A = k
      OBVIOUS
    <3>1. A * k \in Int /\ A * k < A * k + A
      BY <1>1
    <3> DEFINE x == A * k
    <3> HIDE DEF x
    <3> QED
      BY <1>1, <3>1, Quotient DEF x
  <2>2. S * (A * B) = A * (S * B) /\ S * B \in Nat
    BY <1>1
  <2> QED
    BY <1>2, <2>1, <2>2
<1>4. (S + C) * B = S * B + C * B
  BY <1>1
<1> QED
  BY <1>2, <1>3, <1>4 DEF Rescaled, A, B, C, L

LEMMA WeightsType ==
  ASSUME WellFormed(batch), Asked
  PROVE  /\ Weights \in Seq(Nat) /\ Len(Weights) = len
         /\ \A p \in 0 .. len - 1 : Weights[p + 1] = Exp[score[p]] /\ Exp[score[p]] \in Nat \ {0}
         /\ SumTo(Weights, 0) = 0
         /\ \A n \in 0 .. len : SumTo(Weights, n) \in Nat
         /\ \A p \in 0 .. len - 1 : SumTo(Weights, p + 1) = SumTo(Weights, p) + Exp[score[p]]
<1>1. len \in Nat \ {0} /\ \A p \in 0 .. len - 1 : score[p] \in 0 .. MaxScore - 1
  BY AskedFacts
<1>2. \A p \in 0 .. len - 1 : Exp[score[p]] \in Nat \ {0}
  <2>1. 0 .. MaxScore - 1 \subseteq 0 .. 2 * MaxScore
    BY ScoreAssumption
  <2> QED
    BY <1>1, <2>1, ExpAssumption
<1>3. \A p \in 0 .. len - 1 : Weights[p + 1] = Exp[score[p]]
  <2> SUFFICES ASSUME NEW p \in 0 .. len - 1 PROVE Weights[p + 1] = Exp[score[p]]
    OBVIOUS
  <2>1. p + 1 \in 1 .. len /\ p + 1 - 1 = p
    BY <1>1
  <2> QED
    BY <2>1 DEF Weights
<1>4. Weights \in Seq(Nat) /\ Len(Weights) = len
  <2>1. \A k \in 1 .. len : Exp[score[k - 1]] \in Nat
    <3>1. \A k \in 1 .. len : k - 1 \in 0 .. len - 1
      BY <1>1
    <3> QED
      BY <1>2, <3>1
  <2> QED
    BY <1>1, <2>1 DEF Weights
<1>5. \A n \in 0 .. len : SumTo(Weights, n) \in Nat
  BY <1>4, SumType
<1>6. SumTo(Weights, 0) = 0 /\ \A n \in Nat : SumTo(Weights, n + 1) = SumTo(Weights, n) + Weights[n + 1]
  BY SumStep, Zenon
<1>7. 0 .. len - 1 \subseteq Nat
  BY <1>1
<1> HIDE DEF Weights
<1> QED
  BY <1>2, <1>3, <1>4, <1>5, <1>6, <1>7

LEMMA KernelFold ==
  ASSUME WellFormed(batch), Kernel, NEW w \in Lanes, Fold(w)
  PROVE  Kernel'
<1>0. PICK p : p = win[w] * NumWarps + idx[w]
  OBVIOUS
<1> DEFINE last == idx[w] = NumWarps - 1
<1>1. /\ wpc[w] = "fold"
      /\ IF p < len
         THEN \E s \in Read(p) :
                LET new == IF s > l_max[w] THEN s ELSE l_max[w]
                IN /\ l_max' = [l_max EXCEPT ![w] = new]
                   /\ m_sum' = [m_sum EXCEPT ![w] =
                        Rescaled(m_sum[w], l_max[w], new) + Exp[MaxScore + s - new]]
         ELSE UNCHANGED <<l_max, m_sum>>
      /\ idx' = [idx EXCEPT ![w] = IF last THEN 0 ELSE idx[w] + 1]
      /\ win' = [win EXCEPT ![w] = IF last THEN win[w] + 1 ELSE win[w]]
      /\ UNCHANGED <<batch, kv, run, score, pc, sdata, result>>
  BY <1>0 DEF Fold, passVars, launchVars
<1>2. \/ ~ last /\ wpc' = wpc
      \/ last /\ win[w] + 1 < Windows /\ wpc' = [wpc EXCEPT ![w] = "dot"]
      \/ last /\ ~ win[w] + 1 < Windows /\ wpc' = [wpc EXCEPT ![w] = "weigh"]
  BY DEF Fold, Goto
<1>3. Asked /\ Lockstep /\ Summed /\ Shared /\ Results /\ pc = "kernel"
  BY <1>1, NotOver DEF Kernel
<1>4. /\ len' = len /\ Windows' = Windows /\ Weights' = Weights
      /\ LastWindowEmpty' = LastWindowEmpty /\ Asked' = Asked /\ \A q : Found(q)' = Found(q)
  BY <1>1, QueryKept
<1>5. len \in Nat \ {0} /\ Windows \in Nat \ {0} /\ len <= Windows * NumWarps
  BY <1>3, AskedFacts
<1>6. /\ win[w] \in Nat /\ win[w] < Windows /\ idx[w] \in Lanes
      /\ Round(w) = win[w] + 1
  BY <1>1, <1>3 DEF Lockstep, Stage, Round, Ending
<1>7. PICK k \in Nat, i \in Lanes : k = win[w] /\ i = idx[w]
  BY <1>6
<1>8. p \in Nat /\ p = k * NumWarps + i /\ p \div NumWarps = k /\ p % NumWarps = i
  <2>1. p \in Nat
    BY <1>0, <1>6, LanesFacts
  <2> QED
    BY <1>0, <1>7, <2>1, WindowIs
<1>9. win'[w] = (IF last THEN k + 1 ELSE k) /\ idx'[w] = (IF last THEN 0 ELSE i + 1)
      /\ \A v \in Lanes : v # w => win'[v] = win[v] /\ idx'[v] = idx[v] /\ wpc'[v] = wpc[v]
  BY <1>1, <1>2, <1>3, <1>7 DEF Lockstep
<1>10. wpc'[w] = IF ~ last THEN "fold" ELSE IF k + 1 < Windows THEN "dot" ELSE "weigh"
  BY <1>1, <1>2, <1>3, <1>7 DEF Lockstep
<1>11. \A v \in Lanes : wpc[v] \notin {"gather", "done"} /\ wpc'[v] \notin {"gather", "done"}
  <2>1. \A v \in Lanes : wpc[v] \in {"gather", "done"} => wpc[w] \in {"gather", "done"}
    BY <1>3 DEF Lockstep
  <2> QED
    BY <1>1, <1>9, <1>10, <2>1
<1>12. ~ last => i + 1 \in Lanes
  BY <1>7, LanesFacts DEF Lanes
<1>13. Lockstep'
  <2>1. wpc' \in [Lanes -> {"dot", "sync_scores", "fold"} \cup Ending]
    BY <1>2, <1>3 DEF Lockstep, Ending
  <2>2. win' \in [Lanes -> Nat] /\ idx' \in [Lanes -> Nat]
    <3>1. (IF last THEN k + 1 ELSE k) \in Nat /\ (IF last THEN 0 ELSE i + 1) \in Nat
      BY <1>7, LanesFacts
    <3> QED
      BY <1>1, <1>3, <1>7, <3>1 DEF Lockstep
  <2>3. Stage(w)'
    <3>1. CASE ~ last
      BY <1>4, <1>6, <1>7, <1>9, <1>10, <1>12, <3>1 DEF Stage
    <3>2. CASE last /\ k + 1 < Windows
      BY <1>4, <1>9, <1>10, <3>2 DEF Stage
    <3>3. CASE last /\ ~ k + 1 < Windows
      <4>1. k + 1 = Windows
        BY <1>5, <1>6, <1>7, <3>3
      <4>2. 0 = 0 * (NumWarps * WarpSize) /\ 0 \in Nat
        BY LanesFacts
      <4>3. wpc'[w] = "weigh" /\ win'[w] = Windows' /\ idx'[w] = 0
        BY <1>4, <1>9, <1>10, <3>3, <4>1
      <4>4. \E t \in Nat : idx'[w] = t * (NumWarps * WarpSize)
        BY <4>2, <4>3
      <4> QED
        BY <4>3, <4>4 DEF Stage, Ending
    <3> QED
      BY <3>1, <3>2, <3>3
  <2>4. \A v \in Lanes : Stage(v)'
    <3>1. ASSUME NEW v \in Lanes, v # w PROVE Stage(v)'
      <4>1. Stage(v)
        BY <1>3 DEF Lockstep
      <4>2. win'[v] = win[v] /\ idx'[v] = idx[v] /\ wpc'[v] = wpc[v]
        BY <1>9, <3>1
      <4> QED
        BY <1>4, <4>1, <4>2 DEF Stage
    <3> QED
      BY <2>3, <3>1
  <2>5. \A v \in Lanes : Round(v)' = Round(v)
    <3>1. Round(w)' = Round(w)
      BY <1>6, <1>7, <1>9, <1>10 DEF Round
    <3>2. \A v \in Lanes : v # w => Round(v)' = Round(v)
      BY <1>9 DEF Round
    <3> QED
      BY <3>1, <3>2
  <2>6. \A u, v \in Lanes : Round(u) = Round(v)
    BY <1>3 DEF Lockstep
  <2> HIDE DEF last
  <2> QED
    BY <1>11, <2>1, <2>2, <2>4, <2>5, <2>6 DEF Lockstep
<1>14. \A q \in 0 .. len - 1 : Owner(q) \in Lanes /\ q % NumWarps \in Lanes /\ q \in Nat
                               /\ q \div NumWarps \in Nat
  BY <1>5, OwnerFacts, WindowOf
<1>15. \A q \in 0 .. len - 1 : Dotted(q)' <=> Dotted(q)
  <2> SUFFICES ASSUME NEW q \in 0 .. len - 1 PROVE Dotted(q)' <=> Dotted(q)
    OBVIOUS
  <2>1. CASE q % NumWarps = w
    <3>1. PICK j \in Nat : j = q \div NumWarps
      BY <1>14
    <3>2. Dotted(q) <=> j <= k
      BY <1>1, <1>7, <2>1, <3>1 DEF Dotted
    <3>3. Dotted(q)' <=> j <= k
      BY <1>9, <1>10, <2>1, <3>1 DEF Dotted
    <3> QED
      BY <3>2, <3>3
  <2>2. CASE q % NumWarps # w
    BY <1>9, <1>14, <2>2 DEF Dotted
  <2> QED
    BY <2>1, <2>2
<1>16. \A q \in 0 .. len - 1 : /\ Done(q)' <=> Done(q)
                               /\ Done(q) => Owner(q) # w
  <2> SUFFICES ASSUME NEW q \in 0 .. len - 1
               PROVE  (Done(q)' <=> Done(q)) /\ (Done(q) => Owner(q) # w)
    OBVIOUS
  <2>1. CASE Owner(q) = w
    <3>1. ~ Done(q)
      BY <1>1, <2>1 DEF Done, Ending
    <3>2. PICK y \in Nat : y = Turn(q) * (NumWarps * WarpSize)
      <4>1. Turn(q) \in Nat
        BY <1>14, OwnerFacts
      <4> QED
        BY <4>1, LanesFacts
    <3>3. Done(q)' <=> wpc'[w] \in Ending /\ y < idx'[w]
      BY <2>1, <3>2 DEF Done, Owner, Turn
    <3>4. ~ Done(q)'
      BY <1>9, <1>10, <3>2, <3>3 DEF Ending
    <3> QED
      BY <3>1, <3>4
  <2>2. CASE Owner(q) # w
    BY <1>9, <1>14, <2>2 DEF Done
  <2> QED
    BY <2>1, <2>2
<1>17. \A v \in Lanes : v # w => l_max'[v] = l_max[v] /\ m_sum'[v] = m_sum[v]
  BY <1>1, <1>3 DEF Summed
<1>18. Shared'
  <2>1. ASSUME NEW q \in 0 .. len - 1
        PROVE  Content(q)' = Content(q)
    <3>1. Done(q) => Weight(q)' = Weight(q)
      BY <1>1, <1>14, <1>16, <1>17 DEF Weight
    <3> QED
      BY <1>1, <1>15, <1>16, <3>1 DEF Content
  <2>2. sdata = [q \in 0 .. len - 1 |-> Content(q)]
    BY <1>3 DEF Shared
  <2> QED
    BY <1>1, <1>4, <2>1, <2>2 DEF Shared
<1>19. Results'
  BY <1>1, <1>3, <1>11 DEF Results
<1>20. /\ Seen(w) = (IF len < p THEN len ELSE p)
       /\ Seen(w)' = (IF len < p + 1 THEN len ELSE p + 1)
       /\ \A v \in Lanes : v # w => Seen(v)' = Seen(v)
  <2>1. Seen(w) = IF len < p THEN len ELSE p
    BY <1>0, <1>1 DEF Seen, Ending
  <2>3. last => (k + 1) * NumWarps + 0 = p + 1
    <3> SUFFICES ASSUME last PROVE (k + 1) * NumWarps + 0 = p + 1
      OBVIOUS
    <3>1. i = NumWarps - 1 /\ NumWarps \in Nat
      BY <1>7, LanesFacts
    <3>2. (k + 1) * NumWarps = k * NumWarps + NumWarps /\ k * NumWarps \in Nat
      BY <3>1
    <3> QED
      BY <1>8, <3>1, <3>2
  <2>2. Seen(w)' = IF len < p + 1 THEN len ELSE p + 1
    <3>1. CASE ~ last
      <4>1. wpc'[w] = "fold" /\ win'[w] = k /\ idx'[w] = i + 1
        BY <1>9, <1>10, <3>1
      <4>2. k * NumWarps + (i + 1) = p + 1
        BY <1>7, <1>8, LanesFacts
      <4> QED
        BY <1>4, <4>1, <4>2 DEF Seen, Ending
    <3>2. CASE last /\ k + 1 < Windows
      <4>1. wpc'[w] = "dot" /\ win'[w] = k + 1 /\ idx'[w] = 0
        BY <1>9, <1>10, <3>2
      <4> QED
        BY <1>4, <2>3, <3>2, <4>1 DEF Seen, Ending
    <3>3. CASE last /\ ~ k + 1 < Windows
      <4>1. k + 1 = Windows
        BY <1>5, <1>6, <1>7, <3>3
      <4>2. wpc'[w] = "weigh"
        BY <1>10, <3>3
      <4>3. len <= p + 1
        <5>1. (k + 1) * NumWarps \in Nat
          BY LanesFacts
        <5> QED
          BY <1>5, <1>8, <2>3, <3>3, <4>1, <5>1
      <4>4. Seen(w)' = len
        BY <1>4, <4>2 DEF Seen, Ending
      <4> QED
        BY <1>5, <1>8, <4>3, <4>4
    <3> QED
      BY <3>1, <3>2, <3>3
  <2>4. \A v \in Lanes : v # w => Seen(v)' = Seen(v)
    BY <1>4, <1>9 DEF Seen
  <2> QED
    BY <2>1, <2>2, <2>4
<1>21. CASE ~ p < len
  <2>1. Seen(w) = len /\ Seen(w)' = len
    BY <1>5, <1>8, <1>20, <1>21
  <2>2. \A v \in Lanes : Seen(v)' = Seen(v)
    BY <1>20, <2>1
  <2>3. Summed'
    BY <1>1, <1>3, <1>4, <1>21, <2>2 DEF Summed
  <2> HIDE DEF last
  <2> QED
    BY <1>1, <1>3, <1>4, <1>13, <1>18, <1>19, <2>3 DEF Kernel
<1>22. CASE p < len
  <2>1. PICK s \in Read(p) :
          LET new == IF s > l_max[w] THEN s ELSE l_max[w]
          IN /\ l_max' = [l_max EXCEPT ![w] = new]
             /\ m_sum' = [m_sum EXCEPT ![w] =
                  Rescaled(m_sum[w], l_max[w], new) + Exp[MaxScore + s - new]]
    BY <1>1, <1>22
  <2>2. PICK l \in -1 .. MaxScore : l = l_max[w]
    BY <1>3 DEF Summed
  <2>3. PICK m \in Nat : m = m_sum[w]
    BY <1>3 DEF Summed
  <2>4. PICK new : new = IF s > l THEN s ELSE l
    OBVIOUS
  <2>5. PICK sum : sum = Rescaled(m, l, new) + Exp[MaxScore + s - new]
    OBVIOUS
  <2>6. l_max' = [l_max EXCEPT ![w] = new] /\ m_sum' = [m_sum EXCEPT ![w] = sum]
    BY <2>1, <2>2, <2>3, <2>4, <2>5
  <2>7. p \in 0 .. len - 1 /\ Dotted(p) /\ sdata[p] = Content(p)
    <3>1. p \in 0 .. len - 1
      BY <1>5, <1>8, <1>22
    <3>2. p \div NumWarps < Round(w)
      BY <1>6, <1>7, <1>8
    <3>3. Dotted(p)
      BY <1>3, <1>8, <3>2, DottedBelow
    <3>4. sdata[p] = Content(p)
      BY <1>3, <3>1 DEF Shared
    <3> QED
      BY <3>1, <3>3, <3>4
  <2>8. score[p] \in 0 .. MaxScore - 1
    BY <1>3, <2>7, AskedFacts
  <2>9. ~ Done(p) => s = score[p]
    <3> SUFFICES ASSUME ~ Done(p) PROVE s = score[p]
      OBVIOUS
    <3>1. sdata[p] = <<score[p]>>
      BY <2>7 DEF Content
    <3>2. Len(<<score[p]>>) = 1 /\ <<score[p]>>[1] = score[p]
      OBVIOUS
    <3> QED
      BY <3>1, <3>2 DEF Read
  <2>10. Done(p) => s \in {0, 1}
    <3> SUFFICES ASSUME Done(p) PROVE s \in {0, 1}
      OBVIOUS
    <3>1. sdata[p] = Weight(p)
      BY <2>7 DEF Content
    <3>2. Len(Weight(p)) = 2
      BY DEF Weight
    <3> QED
      BY <3>1, <3>2 DEF Read
  <2>11. s \in 0 .. MaxScore
    BY <2>8, <2>9, <2>10, ScoreAssumption
  <2>12. new \in 0 .. MaxScore /\ sum \in Nat \ {0}
    BY <2>4, <2>5, <2>11, Exponents, RescaleFits
  <2>13. Seen(w) = p /\ Seen(w)' = p + 1
    BY <1>5, <1>8, <1>20, <1>22
  <2>14. /\ \A n \in 0 .. len : SumTo(Weights, n) \in Nat
         /\ SumTo(Weights, 0) = 0
         /\ SumTo(Weights, p + 1) = SumTo(Weights, p) + Exp[score[p]]
    BY <1>3, <2>7, WeightsType
  <2>15. LastWindowEmpty => sum = SumTo(Weights, p + 1) * Exp[MaxScore - new]
    <3> SUFFICES ASSUME LastWindowEmpty
                 PROVE  sum = SumTo(Weights, p + 1) * Exp[MaxScore - new]
      OBVIOUS
    <3>1. k + 1 < Windows
      <4>1. k * NumWarps \in Nat /\ k * NumWarps <= p
        <5>1. k * NumWarps \in Nat /\ i \in Nat
          BY LanesFacts
        <5> QED
          BY <1>8, <5>1
      <4>2. (Windows - 1) * NumWarps \in Nat /\ Windows - 1 \in Nat
        BY <1>5, LanesFacts
      <4>3. k * NumWarps < (Windows - 1) * NumWarps
        BY <1>5, <1>8, <1>22, <4>1, <4>2 DEF LastWindowEmpty
      <4>4. k < Windows - 1
        BY <4>2, <4>3, LanesFacts, TimesOrder
      <4> QED
        BY <1>5, <4>4
    <3>2. ~ Done(p)
      <4>1. \A v \in Lanes : wpc[v] \notin Ending
        BY <1>3, <1>6, <1>7, <3>1, NobodyEnds
      <4> QED
        BY <1>14, <2>7, <4>1 DEF Done
    <3>3. s = score[p]
      BY <2>9, <3>2
    <3>4. PICK S \in Nat : S = SumTo(Weights, p)
      <4>1. p \in 0 .. len
        BY <1>5, <2>7
      <4> QED
        BY <2>14, <4>1
    <3>5. m = S * Exp[MaxScore - l]
      BY <1>3, <2>2, <2>3, <2>13, <3>4 DEF Summed
    <3>6. l = -1 => S = 0
      <4>1. p > 0 => l >= 0
        BY <1>3, <2>2, <2>13 DEF Summed
      <4>2. l = -1 => p = 0
        BY <1>8, <4>1
      <4> QED
        BY <2>14, <3>4, <4>2
    <3>7. Rescaled(S * Exp[MaxScore - l], l, new) + Exp[MaxScore + s - new]
            = (S + Exp[s]) * Exp[MaxScore - new]
      BY <2>4, <2>11, <3>6, RescaleExact
    <3> QED
      BY <2>5, <2>14, <3>3, <3>4, <3>5, <3>7
  <2>16. Summed'
    <3>1. l_max' \in [Lanes -> -1 .. MaxScore] /\ m_sum' \in [Lanes -> Nat]
      BY <1>3, <2>6, <2>12 DEF Summed
    <3>2. l_max'[w] = new /\ m_sum'[w] = sum
      BY <1>3, <2>6 DEF Summed
    <3> HIDE DEF last
    <3>3. /\ l_max'[w] >= 0 /\ m_sum'[w] > 0
          /\ LastWindowEmpty => m_sum'[w] = SumTo(Weights, Seen(w)') * Exp[MaxScore - l_max'[w]]
      BY <2>12, <2>13, <2>15, <3>2
    <3>4. \A v \in Lanes : v # w =>
            /\ Seen(v)' > 0 => l_max'[v] >= 0 /\ m_sum'[v] > 0
            /\ LastWindowEmpty => m_sum'[v] = SumTo(Weights, Seen(v)') * Exp[MaxScore - l_max'[v]]
      BY <1>3, <1>17, <1>20 DEF Summed
    <3> QED
      BY <1>4, <3>1, <3>3, <3>4 DEF Summed
  <2> HIDE DEF last
  <2> QED
    BY <1>1, <1>3, <1>4, <1>13, <1>18, <1>19, <2>16 DEF Kernel
<1> QED
  BY <1>21, <1>22

LEMMA KernelWeigh ==
  ASSUME WellFormed(batch), Kernel, NEW w \in Lanes, Weigh(w)
  PROVE  Kernel'
<1> DEFINE size == NumWarps * WarpSize
<1>1. /\ wpc[w] = "weigh"
      /\ sdata' = [p \in DOMAIN sdata |->
           IF p \in {q \in DOMAIN sdata : (q - idx[w]) \div WarpSize = w}
           THEN <<Exp[MaxScore + sdata[p][1] - l_max[w]], m_sum[w]>>
           ELSE sdata[p]]
      /\ idx' = [idx EXCEPT ![w] = idx[w] + size]
      /\ wpc' = IF idx'[w] < len THEN wpc ELSE [wpc EXCEPT ![w] = "sync_weights"]
      /\ UNCHANGED <<batch, kv, run, score, pc, win, l_max, m_sum, result>>
  BY DEF Weigh, Goto, MoreWeights, passVars, launchVars
<1>2. Asked /\ Lockstep /\ Summed /\ Shared /\ Results /\ pc = "kernel"
  BY <1>1, NotOver DEF Kernel
<1>3. /\ len' = len /\ Windows' = Windows /\ Weights' = Weights
      /\ LastWindowEmpty' = LastWindowEmpty /\ Asked' = Asked /\ \A q : Found(q)' = Found(q)
  BY <1>1, QueryKept
<1>4. len \in Nat \ {0} /\ Windows \in Nat \ {0}
  BY <1>2, AskedFacts
<1>5. PICK t \in Nat : idx[w] = t * size
  BY <1>1, <1>2 DEF Lockstep, Stage
<1>6. size \in Nat \ {0}
  BY LanesFacts
<1> HIDE DEF size
<1>7. idx[w] \in Nat /\ idx[w] + size = (t + 1) * size /\ (t + 1) * size \in Nat
  BY <1>5, <1>6
<1>8. /\ idx'[w] = (t + 1) * size
      /\ wpc'[w] = IF (t + 1) * size < len THEN "weigh" ELSE "sync_weights"
      /\ \A v \in Lanes : v # w => idx'[v] = idx[v] /\ wpc'[v] = wpc[v]
  BY <1>1, <1>2, <1>7 DEF Lockstep
<1>9. wpc[w] \in Ending /\ wpc'[w] \in Ending /\ win[w] = Windows
  BY <1>1, <1>2, <1>8 DEF Lockstep, Stage, Ending
<1>10. \A v \in Lanes : wpc[v] \notin {"gather", "done"} /\ wpc'[v] \notin {"gather", "done"}
  <2>1. \A v \in Lanes : wpc[v] \in {"gather", "done"} => wpc[w] \in {"gather", "done"}
    BY <1>2 DEF Lockstep
  <2> QED
    BY <1>1, <1>8, <2>1
<1>11. Lockstep'
  <2>1. wpc' \in [Lanes -> {"dot", "sync_scores", "fold"} \cup Ending]
    BY <1>1, <1>2 DEF Lockstep, Ending
  <2>2. idx' \in [Lanes -> Nat]
    BY <1>1, <1>2, <1>7 DEF Lockstep
  <2>3. Stage(w)'
    <3>1. t + 1 \in Nat /\ wpc'[w] # "dot" /\ wpc'[w] # "sync_scores" /\ wpc'[w] # "fold"
      BY <1>8
    <3>2. \E n \in Nat : idx'[w] = n * size
      BY <1>8, <3>1
    <3>3. wpc'[w] # "weigh" => len <= idx'[w]
      BY <1>4, <1>7, <1>8
    <3> QED
      BY <1>1, <1>3, <1>9, <3>2, <3>3 DEF Stage, size
  <2>4. \A v \in Lanes : Stage(v)'
    <3>1. ASSUME NEW v \in Lanes, v # w PROVE Stage(v)'
      <4>1. Stage(v)
        BY <1>2 DEF Lockstep
      <4>2. win'[v] = win[v] /\ idx'[v] = idx[v] /\ wpc'[v] = wpc[v]
        BY <1>1, <1>8, <3>1
      <4> QED
        BY <1>3, <4>1, <4>2 DEF Stage
    <3> QED
      BY <2>3, <3>1
  <2>5. \A v \in Lanes : Round(v)' = Round(v)
    <3>1. Round(w)' = Round(w)
      BY <1>1, <1>8 DEF Round
    <3>2. \A v \in Lanes : v # w => Round(v)' = Round(v)
      BY <1>1, <1>8 DEF Round
    <3> QED
      BY <3>1, <3>2
  <2>6. win' \in [Lanes -> Nat] /\ \A u, v \in Lanes : Round(u) = Round(v)
    BY <1>1, <1>2 DEF Lockstep
  <2> QED
    BY <1>10, <2>1, <2>2, <2>4, <2>5, <2>6 DEF Lockstep
<1>12. Summed'
  <2>1. \A v \in Lanes : Seen(v)' = Seen(v)
    <3>1. Seen(w)' = Seen(w)
      BY <1>3, <1>9 DEF Seen
    <3>2. \A v \in Lanes : v # w => Seen(v)' = Seen(v)
      BY <1>1, <1>3, <1>8 DEF Seen
    <3> QED
      BY <3>1, <3>2
  <2> QED
    BY <1>1, <1>2, <1>3, <2>1 DEF Summed
<1>13. Results'
  BY <1>1, <1>2, <1>10 DEF Results
<1>14. Shared'
  <2>1. sdata = [q \in 0 .. len - 1 |-> Content(q)] /\ DOMAIN sdata = 0 .. len - 1
    BY <1>2 DEF Shared
  <2>2. ASSUME NEW q \in 0 .. len - 1
        PROVE  sdata'[q] = Content(q)'
    <3>1. q \in Nat /\ Owner(q) \in Lanes /\ Turn(q) \in Nat /\ q % NumWarps \in Lanes
      BY <1>4, OwnerFacts, WindowOf
    <3>2. Dotted(q) /\ Dotted(q)'
      <4>1. Dotted(q)
        BY <1>2, <1>9, AllDotted
      <4>2. CASE q % NumWarps = w
        <5>1. q \div NumWarps < win[w]
          BY <1>1, <4>1, <4>2 DEF Dotted
        <5> QED
          BY <1>1, <4>2, <5>1 DEF Dotted
      <4>3. CASE q % NumWarps # w
        BY <1>1, <1>8, <3>1, <4>1, <4>3 DEF Dotted
      <4> QED
        BY <4>1, <4>2, <4>3
    <3>3. sdata[q] = IF Done(q) THEN Weight(q) ELSE <<score[q]>>
      BY <2>1, <3>2 DEF Content
    <3>4. Content(q)' = IF Done(q)' THEN Weight(q)' ELSE <<score[q]>>
      BY <1>1, <3>2 DEF Content
    <3>5. Weight(q)' = Weight(q)
      BY <1>1 DEF Weight
    <3>6. (q - idx[w]) \div WarpSize = w <=> Owner(q) = w /\ Turn(q) = t
      BY <1>5, <3>1, MineIs DEF size
    <3>7. CASE Owner(q) # w
      <4>1. Done(q)' <=> Done(q)
        BY <1>8, <3>1, <3>7 DEF Done
      <4>2. sdata'[q] = sdata[q]
        BY <1>1, <2>1, <3>6, <3>7
      <4> QED
        BY <3>3, <3>4, <3>5, <4>1, <4>2
    <3>8. CASE Owner(q) = w
      <4>1. PICK n \in Nat : n = Turn(q)
        BY <3>1
      <4>2. Done(q) <=> n < t
        <5>1. Done(q) <=> n * size < t * size
          BY <1>5, <1>9, <3>8, <4>1 DEF Done, size
        <5> QED
          BY <1>6, <5>1, TimesOrder
      <4>3. Done(q)' <=> n < t + 1
        <5>1. Done(q)' <=> n * size < (t + 1) * size
          BY <1>8, <1>9, <3>8, <4>1 DEF Done, size, Owner, Turn
        <5>2. t + 1 \in Nat
          OBVIOUS
        <5> QED
          BY <1>6, <5>1, <5>2, TimesOrder
      <4>4. CASE n = t
        <5>1. ~ Done(q) /\ Done(q)'
          BY <4>2, <4>3, <4>4
        <5>2. sdata[q] = <<score[q]>> /\ sdata[q][1] = score[q]
          BY <3>3, <5>1
        <5>3. sdata'[q] = <<Exp[MaxScore + sdata[q][1] - l_max[w]], m_sum[w]>>
          BY <1>1, <2>1, <3>6, <3>8, <4>1, <4>4
        <5>4. sdata'[q] = Weight(q)
          BY <3>8, <5>2, <5>3 DEF Weight
        <5> QED
          BY <3>4, <3>5, <5>1, <5>4
      <4>5. CASE n # t
        <5>1. Done(q)' <=> Done(q)
          BY <4>2, <4>3, <4>5
        <5>2. sdata'[q] = sdata[q]
          BY <1>1, <2>1, <3>6, <4>1, <4>5
        <5> QED
          BY <3>3, <3>4, <3>5, <5>1, <5>2
      <4> QED
        BY <4>4, <4>5
    <3> QED
      BY <3>7, <3>8
  <2>3. sdata' = [q \in 0 .. len - 1 |-> sdata'[q]]
    BY <1>1, <2>1
  <2>4. sdata' = [q \in 0 .. len - 1 |-> Content(q)']
    BY <2>2, <2>3, Zenon
  <2> QED
    BY <1>3, <2>4 DEF Shared
<1> QED
  BY <1>1, <1>2, <1>3, <1>11, <1>12, <1>13, <1>14 DEF Kernel

(* When warps add values up, everything has been weighed.                  *)
LEMMA AllDone ==
  ASSUME WellFormed(batch), Asked, Lockstep, NEW w \in Lanes, wpc[w] \in {"gather", "done"},
         NEW q \in 0 .. len - 1
  PROVE  Dotted(q) /\ Done(q)
<1>1. \A v \in Lanes : wpc[v] \in {"gather", "done"}
  BY DEF Lockstep
<1>2. \A v \in Lanes : len <= idx[v] /\ idx[v] \in Nat
  BY <1>1 DEF Lockstep, Stage
<1>3. len \in Nat
  BY AskedFacts
<1>4. Owner(q) \in Lanes /\ Turn(q) \in Nat /\ Turn(q) * (NumWarps * WarpSize) <= q
  BY <1>3, OwnerFacts
<1>5. Dotted(q)
  BY AllDotted DEF Ending
<1>6. PICK v \in Lanes : v = Owner(q)
  BY <1>4
<1>7. PICK y \in Nat : y = Turn(q) * (NumWarps * WarpSize)
  BY <1>4, LanesFacts
<1>8. y < idx[v]
  BY <1>2, <1>3, <1>4, <1>7
<1> QED
  BY <1>1, <1>5, <1>6, <1>7, <1>8 DEF Done, Ending, Owner, Turn

LEMMA KernelGather ==
  ASSUME WellFormed(batch), Kernel, NEW w \in Lanes, Gather(w)
  PROVE  Kernel'
<1>1. /\ wpc[w] = "gather" /\ wpc' = [wpc EXCEPT ![w] = "done"]
      /\ result' = [v \in DOMAIN result \cup {w} |->
           IF v = w THEN [p \in DOMAIN sdata |-> <<Found(p)>> \o sdata[p]] ELSE result[v]]
      /\ pc' = IF \A v \in Lanes : wpc'[v] = "done" THEN "end" ELSE pc
      /\ UNCHANGED <<batch, kv, run, score, sdata, win, idx, l_max, m_sum>>
  BY DEF Gather, Goto, passVars, launchVars
<1>2. Asked /\ Lockstep /\ Summed /\ Shared /\ Results /\ pc = "kernel"
  BY <1>1, NotOver DEF Kernel
<1>3. /\ len' = len /\ Windows' = Windows /\ Weights' = Weights
      /\ LastWindowEmpty' = LastWindowEmpty /\ Asked' = Asked /\ \A q : Found(q)' = Found(q)
  BY <1>1, QueryKept
<1>4. len \in Nat \ {0} /\ Windows \in Nat \ {0}
  BY <1>2, AskedFacts
<1>5. wpc'[w] = "done" /\ \A v \in Lanes : v # w => wpc'[v] = wpc[v]
  BY <1>1, <1>2 DEF Lockstep
<1>6. \A v \in Lanes : wpc[v] \in {"gather", "done"} /\ wpc'[v] \in {"gather", "done"}
  <2>1. \A v \in Lanes : wpc[v] \in {"gather", "done"}
    BY <1>1, <1>2 DEF Lockstep
  <2> QED
    BY <1>5, <2>1
<1>7. \A v \in Lanes : /\ wpc[v] \in Ending /\ wpc'[v] \in Ending
                       /\ win[v] = Windows /\ len <= idx[v]
                       /\ \E t \in Nat : idx[v] = t * (NumWarps * WarpSize)
  BY <1>2, <1>6 DEF Lockstep, Stage, Ending
<1>8. Lockstep'
  <2>1. wpc' \in [Lanes -> {"dot", "sync_scores", "fold"} \cup Ending]
    BY <1>1, <1>2 DEF Lockstep, Ending
  <2>2. \A v \in Lanes : Stage(v)'
    BY <1>1, <1>3, <1>7 DEF Stage
  <2>3. \A v \in Lanes : Round(v)' = Windows
    BY <1>1, <1>6, <1>7 DEF Round
  <2>4. win' \in [Lanes -> Nat] /\ idx' \in [Lanes -> Nat]
    BY <1>1, <1>2 DEF Lockstep
  <2> QED
    BY <1>6, <2>1, <2>2, <2>3, <2>4 DEF Lockstep
<1>9. Summed'
  <2>1. \A v \in Lanes : Seen(v)' = Seen(v)
    BY <1>3, <1>7 DEF Seen
  <2> QED
    BY <1>1, <1>2, <1>3, <2>1 DEF Summed
<1>10. ASSUME NEW q \in 0 .. len - 1
       PROVE  /\ Content(q)' = Content(q) /\ Content(q) = Weight(q) /\ Weight(q)' = Weight(q)
  <2>1. Dotted(q) /\ Done(q)
    BY <1>1, <1>2, AllDone
  <2>2. q % NumWarps \in Lanes /\ Owner(q) \in Lanes
    BY <1>4, OwnerFacts, WindowOf
  <2>3. Dotted(q)'
    <3>1. q \div NumWarps < win[q % NumWarps]
      BY <1>6, <2>1, <2>2 DEF Dotted
    <3> QED
      BY <1>1, <3>1 DEF Dotted
  <2>4. Done(q)'
    BY <1>1, <1>7, <2>1, <2>2 DEF Done
  <2>5. Weight(q)' = Weight(q)
    BY <1>1 DEF Weight
  <2> QED
    BY <1>1, <2>1, <2>3, <2>4, <2>5 DEF Content
<1>11. sdata = [q \in 0 .. len - 1 |-> Content(q)]
  BY <1>2 DEF Shared
<1>12. Shared'
  BY <1>1, <1>3, <1>10, <1>11 DEF Shared
<1>13. Results'
  <2>1. [p \in DOMAIN sdata |-> <<Found(p)>> \o sdata[p]]
          = [p \in 0 .. len - 1 |-> <<Found(p)>> \o Weight(p)]
    <3>1. DOMAIN sdata = 0 .. len - 1 /\ \A p \in 0 .. len - 1 : sdata[p] = Weight(p)
      BY <1>10, <1>11
    <3> QED
      BY <3>1
  <2>2. result'[w] = [p \in 0 .. len - 1 |-> <<Found(p)>> \o Weight(p)]
    BY <1>1, <2>1
  <2>3. \A v \in Lanes : wpc'[v] = "done" =>
          v \in DOMAIN result' /\ result'[v] = [p \in 0 .. len - 1 |-> <<Found(p)>> \o Weight(p)]
    <3>1. ASSUME NEW v \in Lanes, v # w, wpc'[v] = "done"
          PROVE  v \in DOMAIN result' /\ result'[v] = [p \in 0 .. len - 1 |-> <<Found(p)>> \o Weight(p)]
      <4>1. wpc[v] = "done"
        BY <1>5, <3>1
      <4>2. v \in DOMAIN result /\ result[v] = [p \in 0 .. len - 1 |-> <<Found(p)>> \o Weight(p)]
        BY <1>2, <4>1 DEF Results
      <4>3. result'[v] = result[v] /\ v \in DOMAIN result'
        BY <1>1, <3>1, <4>2
      <4> QED
        BY <4>2, <4>3
    <3>2. w \in DOMAIN result'
      BY <1>1
    <3> QED
      BY <2>2, <3>1, <3>2
  <2>4. [p \in 0 .. len - 1 |-> <<Found(p)>> \o Weight(p)]
          = [p \in 0 .. len - 1 |-> <<Found(p)'>> \o Weight(p)']
    BY <1>3, <1>10
  <2>5. DOMAIN result' \subseteq Lanes
    BY <1>1, <1>2 DEF Results
  <2> QED
    BY <1>3, <2>3, <2>4, <2>5 DEF Results
<1>14. pc' \in {"kernel", "end"} /\ (pc' = "end" => \A v \in Lanes : wpc'[v] = "done")
  BY <1>1, <1>2
<1> QED
  BY <1>2, <1>3, <1>8, <1>9, <1>12, <1>13, <1>14 DEF Kernel
-----------------------------------------------------------------------------
(* From the launch to the results.                                         *)
Unlaunched ==
  /\ sdata = <<>>
  /\ wpc = [w \in Lanes |-> "idle"]
  /\ win = [w \in Lanes |-> 0] /\ idx = [w \in Lanes |-> 0]
  /\ l_max = [w \in Lanes |-> -1] /\ m_sum = [w \in Lanes |-> 0]
Waiting == Unlaunched /\ pc # "kernel" /\ run = 0 /\ result = <<>>
Flashed ==
  /\ Unlaunched /\ pc = "end" /\ run \in DOMAIN batch.decodes
  /\ DOMAIN result = Lanes /\ \A w \in Lanes : IsSoftmax(result[w])

LEMMA QueryFinds ==
  ASSUME batch \in Batches, PassInv, NEW i \in DOMAIN batch.decodes, Query(i),
         NEW p \in 0 .. batch.decodes[i].pos
  PROVE  /\ kv[CellOf(batch.decodes[i].table, p)] = <<batch.decodes[i].seq, p>>
         /\ ScoreOf(score', i, <<batch.decodes[i].seq, p>>) = score'[p]
<1>1. pc = "launch" /\ score' \in [0 .. batch.decodes[i].pos -> 0 .. MaxScore - 1]
  BY DEF Query
<1>2. batch.decodes[i] \in Range(batch.decodes)
  BY DEF Range
<1>3. kv[CellOf(batch.decodes[i].table, p)] = <<batch.decodes[i].seq, p>>
  BY <1>1, <1>2, Landed DEF StoresLand
<1>4. <<batch.decodes[i].seq, p>> # Stale
  BY DEF Stale
<1> QED
  BY <1>1, <1>3, <1>4 DEF ScoreOf

LEMMA KernelLaunch ==
  ASSUME batch \in Batches, PassInv, Waiting, NEW i \in DOMAIN batch.decodes, Launch(i)
  PROVE  Kernel'
<1>1. WellFormed(batch)
  BY BatchesAssumption
<1>2. /\ Query(i) /\ run' = i /\ pc' = "kernel"
      /\ score' \in [0 .. batch.decodes[i].pos -> 0 .. MaxScore - 1]
      /\ sdata' = [p \in 0 .. SeqLens(batch)[i] - 1 |-> <<>>]
      /\ wpc' = [w \in Lanes |-> "dot"]
      /\ UNCHANGED <<batch, kv, win, idx, l_max, m_sum, result>>
  BY DEF Launch, Query, passVars
<1>3. /\ win' = [w \in Lanes |-> 0] /\ idx' = [w \in Lanes |-> 0]
      /\ l_max' = [w \in Lanes |-> -1] /\ m_sum' = [w \in Lanes |-> 0] /\ result' = <<>>
  BY <1>2 DEF Waiting, Unlaunched
<1>4. PICK pos \in Nat : pos = batch.decodes[i].pos
  BY <1>1, BatchFacts
<1>5. Asked'
  <2>1. ASSUME NEW p \in 0 .. pos
        PROVE  Found(p)' = <<batch.decodes[i].seq, p>>
    <3>1. Found(p)' = kv[CellOf(BlockTables(batch)[i], p)]
      BY <1>2 DEF Found
    <3>2. CellOf(BlockTables(batch)[i], p) = CellOf(batch.decodes[i].table, p)
      BY <1>1, <1>4, PaddedCell
    <3> QED
      BY <1>2, <1>4, <3>1, <3>2, QueryFinds
  <2> QED
    BY <1>2, <1>4, <2>1 DEF Asked
<1>6. len' = pos + 1 /\ SeqLens(batch)[i] = pos + 1
  BY <1>2, <1>4 DEF len, SeqLens
<1>7. len' \in Nat \ {0} /\ Windows' \in Nat \ {0}
  <2>1. len' \in Nat \ {0}
    BY <1>6
  <2>2. \A n \in Nat \ {0} : CeilDiv(n, BlockSize) * (BlockSize \div NumWarps) \in Nat \ {0}
    BY WindowsCover
  <2> QED
    BY <2>1, <2>2 DEF Windows
<1>8. Lockstep'
  <2>1. \A w \in Lanes : Stage(w)'
    BY <1>2, <1>3, <1>7 DEF Stage
  <2>2. \A w \in Lanes : Round(w)' = 0
    BY <1>2, <1>3 DEF Round
  <2> QED
    BY <1>2, <1>3, <2>1, <2>2 DEF Lockstep
<1>9. Summed'
  <2>1. \A w \in Lanes : Seen(w)' = 0
    <3>1. 0 * NumWarps + 0 = 0
      BY LanesFacts
    <3> QED
      BY <1>2, <1>3, <1>7, <3>1 DEF Seen, Ending
  <2>2. SumTo(Weights', 0) * Exp[MaxScore - (-1)] = 0
    <3>1. MaxScore - (-1) \in 0 .. 2 * MaxScore
      BY ScoreAssumption
    <3>2. Exp[MaxScore - (-1)] \in Nat
      BY <3>1, ExpAssumption
    <3> QED
      BY <3>2, SumStep
  <2>3. l_max' \in [Lanes -> -1 .. MaxScore] /\ m_sum' \in [Lanes -> Nat]
    BY <1>3, ScoreAssumption
  <2>4. \A w \in Lanes : l_max'[w] = -1 /\ m_sum'[w] = 0
    BY <1>3
  <2> HIDE DEF Weights
  <2> QED
    BY <2>1, <2>2, <2>3, <2>4 DEF Summed
<1>10. Shared'
  <2>1. ASSUME NEW p \in 0 .. pos
        PROVE  Content(p)' = <<>>
    <3>1. p \div NumWarps \in Nat /\ p % NumWarps \in Lanes
      BY WindowOf
    <3>2. ~ Dotted(p)'
      BY <1>2, <1>3, <3>1 DEF Dotted
    <3> QED
      BY <3>2 DEF Content
  <2>2. SeqLens(batch)[i] - 1 = pos /\ len' - 1 = pos
    BY <1>6
  <2> QED
    BY <1>2, <2>1, <2>2 DEF Shared
<1>11. Results'
  BY <1>2, <1>3 DEF Results
<1> QED
  BY <1>2, <1>5, <1>8, <1>9, <1>10, <1>11 DEF Kernel

LEMMA FlashRuns ==
  ASSUME batch \in Batches, PassInv, Waiting, NEW i \in DOMAIN batch.decodes, RunFlashInfer(i)
  PROVE  Flashed'
<1>1. WellFormed(batch)
  BY BatchesAssumption
<1>2. PICK x : x = batch.decodes[i]
  OBVIOUS
<1>3. x.pos \in Nat
  BY <1>1, <1>2, BatchFacts
<1> DEFINE cells == PageCells(PageMetadata(BlockTables(batch), SeqLens(batch)), i)
           n == Cardinality(DOMAIN cells)
           e == [p \in DOMAIN cells |-> Exp[ScoreOf(score', i, kv[cells[p]])]]
           sum == SumTo([k \in 1 .. n |-> e[k - 1]], n)
           all == SumTo([k \in 1 .. x.pos + 1 |-> Exp[score'[k - 1]]], x.pos + 1)
<1>4. /\ Query(i) /\ run' = i /\ pc' = "end"
      /\ result' = [w \in Lanes |-> [p \in DOMAIN cells |-> <<kv[cells[p]], e[p], sum>>]]
      /\ UNCHANGED <<batch, kv, sdata, wpc, win, idx, l_max, m_sum>>
  BY DEF RunFlashInfer, Query, passVars, warpVars
<1>5. cells = [p \in 0 .. x.pos |-> CellOf(x.table, p)]
  BY <1>1, <1>2, PagesRead
<1> HIDE DEF cells
<1>6. n = x.pos + 1
  <2>1. Cardinality(0 .. x.pos) = x.pos + 1
    BY <1>3, FS_Interval
  <2> QED
    BY <1>5, <2>1
<1>7. ASSUME NEW p \in 0 .. x.pos
      PROVE  kv[cells[p]] = <<x.seq, p>> /\ e[p] = Exp[score'[p]]
  <2>1. cells[p] = CellOf(x.table, p) /\ p \in DOMAIN cells
    BY <1>5
  <2>2. kv[cells[p]] = <<x.seq, p>> /\ ScoreOf(score', i, <<x.seq, p>>) = score'[p]
    BY <1>2, <1>4, <2>1, QueryFinds
  <2> QED
    BY <2>1, <2>2
<1> HIDE DEF n, e
<1>8. sum = all
  <2>1. \A k \in 1 .. x.pos + 1 : e[k - 1] = Exp[score'[k - 1]]
    <3>1. \A k \in 1 .. x.pos + 1 : k - 1 \in 0 .. x.pos
      BY <1>3
    <3> QED
      BY <1>7, <3>1
  <2>2. [k \in 1 .. n |-> e[k - 1]] = [k \in 1 .. x.pos + 1 |-> Exp[score'[k - 1]]]
    BY <1>6, <2>1
  <2> QED
    BY <1>6, <2>2, Zenon
<1> HIDE DEF sum, all
<1>9. ASSUME NEW w \in Lanes
      PROVE  IsSoftmax(result[w])'
  <2>1. DOMAIN cells = 0 .. x.pos
    BY <1>5
  <2>2. result'[w] = [p \in 0 .. x.pos |-> <<<<x.seq, p>>, Exp[score'[p]], all>>]
    <3>1. result'[w] = [p \in 0 .. x.pos |-> <<kv[cells[p]], e[p], sum>>]
      BY <1>4, <2>1
    <3> QED
      BY <1>7, <1>8, <3>1
  <2>3. batch'.decodes[run'] = x
    BY <1>2, <1>4
  <2>4. /\ DOMAIN (result'[w]) = 0 .. x.pos
        /\ \A p \in 0 .. x.pos : /\ result'[w][p][1] = <<x.seq, p>>
                                 /\ result'[w][p][2] = Exp[score'[p]]
                                 /\ result'[w][p][3] = all
    BY <2>2
  <2> QED
    BY <2>3, <2>4 DEF IsSoftmax, all
<1>10. DOMAIN result' = Lanes
  BY <1>4
<1>11. Unlaunched'
  BY <1>4 DEF Waiting, Unlaunched
<1> QED
  BY <1>2, <1>4, <1>9, <1>10, <1>11 DEF Flashed

(* The kernel's results, as far as its barriers go.                        *)
LEMMA Denominators ==
  ASSUME WellFormed(batch), Kernel, NEW v \in Lanes, wpc[v] \in Ending
  PROVE  /\ l_max[v] \in 0 .. MaxScore /\ m_sum[v] \in Nat \ {0}
         /\ LastWindowEmpty => m_sum[v] = SumTo(Weights, len) * Exp[MaxScore - l_max[v]]
<1>1. Asked /\ Summed
  BY DEF Kernel
<1>2. Seen(v) = len /\ len > 0
  BY <1>1, AskedFacts DEF Seen
<1>3. /\ l_max[v] \in -1 .. MaxScore /\ m_sum[v] \in Nat /\ l_max[v] >= 0 /\ m_sum[v] > 0
      /\ LastWindowEmpty => m_sum[v] = SumTo(Weights, len) * Exp[MaxScore - l_max[v]]
  BY <1>1, <1>2 DEF Summed
<1> QED
  BY <1>3, ScoreAssumption

LEMMA KernelExact ==
  ASSUME WellFormed(batch), Kernel, LastWindowEmpty, NEW w \in Lanes, wpc[w] = "done"
  PROVE  IsSoftmax(result[w])
<1>1. Asked /\ Lockstep /\ Summed /\ Results
  BY DEF Kernel
<1>2. PICK x : x = batch.decodes[run]
  OBVIOUS
<1>3. /\ len \in Nat \ {0} /\ len = x.pos + 1 /\ x.pos \in Nat /\ len - 1 = x.pos
      /\ \A p \in 0 .. len - 1 : score[p] \in 0 .. MaxScore - 1 /\ Found(p) = <<x.seq, p>>
  <2>1. x.pos \in Nat
    BY <1>1, <1>2, BatchFacts DEF Asked
  <2> QED
    BY <1>1, <1>2, <2>1, AskedFacts
<1>4. PICK sum \in Nat : sum = SumTo(Weights, len)
  <2>1. len \in 0 .. len
    BY <1>3
  <2> QED
    BY <1>1, <2>1, WeightsType
<1>5. result[w] = [p \in 0 .. x.pos |-> <<Found(p)>> \o Weight(p)]
  BY <1>1, <1>3 DEF Results
<1>6. \A a, b, c : LET t == <<a>> \o <<b, c>> IN t[1] = a /\ t[2] = b /\ t[3] = c
  OBVIOUS
<1>7. ASSUME NEW p \in 0 .. x.pos
      PROVE  /\ result[w][p][1] = <<x.seq, p>>
             /\ result[w][p][2] * sum = Exp[score[p]] * result[w][p][3]
  <2>1. PICK v \in Lanes : v = Owner(p)
    BY <1>3, OwnerFacts
  <2>2. wpc[v] \in Ending
    BY <1>1 DEF Lockstep, Ending
  <2>3. PICK l \in 0 .. MaxScore : l = l_max[v]
    BY <2>2, Denominators
  <2>4. m_sum[v] = sum * Exp[MaxScore - l]
    BY <1>4, <2>2, <2>3, Denominators
  <2>5. PICK s \in 0 .. MaxScore - 1 : s = score[p]
    BY <1>3
  <2>6. /\ result[w][p] = <<Found(p)>> \o <<Exp[MaxScore + s - l], m_sum[v]>>
    BY <1>5, <2>1, <2>3, <2>5 DEF Weight
  <2>7. /\ result[w][p][1] = <<x.seq, p>>
        /\ result[w][p][2] = Exp[MaxScore + s - l] /\ result[w][p][3] = m_sum[v]
    BY <1>3, <1>6, <2>6
  <2>8. Exp[MaxScore + s - l] = Exp[s] * Exp[MaxScore - l]
    <3>1. DOMAIN Exp = 0 .. 2 * MaxScore /\ MaxScore \in Nat
      BY ExpAssumption, ScoreAssumption
    <3>2. /\ s \in DOMAIN Exp /\ MaxScore - l \in DOMAIN Exp
          /\ MaxScore + s - l \in DOMAIN Exp /\ MaxScore + s - l = s + (MaxScore - l)
      BY <3>1
    <3>3. \A m, n, k : m \in DOMAIN Exp /\ n \in DOMAIN Exp /\ k \in DOMAIN Exp /\ k = m + n =>
            Exp[k] = Exp[m] * Exp[n]
      BY ExpAssumption, Zenon
    <3> QED
      BY <3>2, <3>3
  <2>9. Exp[s] \in Nat /\ Exp[MaxScore - l] \in Nat
    <3>1. s \in 0 .. 2 * MaxScore /\ MaxScore - l \in 0 .. 2 * MaxScore
      BY ScoreAssumption
    <3>2. \A m \in 0 .. 2 * MaxScore : Exp[m] \in Nat
      BY ExpAssumption
    <3> QED
      BY <3>1, <3>2, Zenon
  <2>10. \A a, b, c \in Nat : (a * b) * c = a * (c * b)
    OBVIOUS
  <2>11. PICK a \in Nat, b \in Nat : a = Exp[s] /\ b = Exp[MaxScore - l]
    BY <2>9
  <2>12. (a * b) * sum = a * (sum * b)
    BY <2>10, Zenon
  <2> QED
    BY <2>4, <2>5, <2>7, <2>8, <2>11, <2>12, Zenon
<1>8. sum = SumTo([k \in 1 .. x.pos + 1 |-> Exp[score[k - 1]]], x.pos + 1)
  BY <1>3, <1>4 DEF Weights
<1>9. DOMAIN (result[w]) = 0 .. x.pos
  BY <1>5
<1> QED
  BY <1>2, <1>7, <1>8, <1>9, Zenon DEF IsSoftmax

LEMMA KernelTypes ==
  ASSUME WellFormed(batch), Kernel
  PROVE  /\ run \in DOMAIN batch.decodes
         /\ \A p \in DOMAIN sdata : sdata[p] \in Seq(Nat) /\ Len(sdata[p]) <= 2
         /\ wpc \in [Lanes -> {"idle", "dot", "sync_scores", "fold"} \cup Ending]
         /\ win \in [Lanes -> Nat] /\ idx \in [Lanes -> Nat]
         /\ l_max \in [Lanes -> -1 .. MaxScore] /\ m_sum \in [Lanes -> Nat]
         /\ DOMAIN result \subseteq Lanes
         /\ \A w \in Lanes : wpc[w] \in Ending => m_sum[w] > 0
         /\ \A w \in Lanes, p \in DOMAIN sdata : wpc[w] = "gather" => Len(sdata[p]) = 2
<1>1. Asked /\ Lockstep /\ Summed /\ Shared /\ Results
  BY DEF Kernel
<1>2. len \in Nat /\ \A p \in 0 .. len - 1 : score[p] \in 0 .. MaxScore - 1
  BY <1>1, AskedFacts
<1>3. DOMAIN sdata = 0 .. len - 1 /\ \A p \in DOMAIN sdata : sdata[p] = Content(p)
  BY <1>1 DEF Shared
<1>4. \A a, b \in Nat : /\ <<>> \in Seq(Nat) /\ Len(<<>>) <= 2
                       /\ <<a>> \in Seq(Nat) /\ Len(<<a>>) <= 2
                       /\ <<a, b>> \in Seq(Nat) /\ Len(<<a, b>>) = 2
  OBVIOUS
<1>5. ASSUME NEW p \in DOMAIN sdata
      PROVE  Weight(p) \in Seq(Nat) /\ Len(Weight(p)) = 2
  <2>1. PICK v \in Lanes : v = Owner(p)
    BY <1>2, <1>3, OwnerFacts
  <2>2. PICK l \in -1 .. MaxScore : l = l_max[v]
    BY <1>1 DEF Summed
  <2>3. PICK s \in 0 .. MaxScore - 1 : s = score[p]
    BY <1>2, <1>3
  <2>4. MaxScore + s - l \in 0 .. 2 * MaxScore
    BY ScoreAssumption
  <2>5. Exp[MaxScore + s - l] \in Nat
    BY <2>4, ExpAssumption
  <2>6. m_sum[v] \in Nat
    BY <1>1 DEF Summed
  <2>7. Weight(p) = <<Exp[MaxScore + s - l], m_sum[v]>>
    BY <2>1, <2>2, <2>3 DEF Weight
  <2> QED
    BY <1>4, <2>5, <2>6, <2>7
<1>6. ASSUME NEW p \in DOMAIN sdata
      PROVE  sdata[p] \in Seq(Nat) /\ Len(sdata[p]) <= 2
  <2>1. score[p] \in Nat
    BY <1>2, <1>3
  <2>2. <<>> \in Seq(Nat) /\ Len(<<>>) <= 2 /\ <<score[p]>> \in Seq(Nat) /\ Len(<<score[p]>>) <= 2
    BY <1>4, <2>1
  <2>3. Weight(p) \in Seq(Nat) /\ Len(Weight(p)) <= 2
    <3>1. \A n : n = 2 => n <= 2
      OBVIOUS
    <3> QED
      BY <1>5, <3>1, Zenon
  <2>4. Content(p) \in {<<>>, <<score[p]>>, Weight(p)}
    BY DEF Content
  <2> QED
    BY <1>3, <2>2, <2>3, <2>4
<1>7. ASSUME NEW w \in Lanes, NEW p \in DOMAIN sdata, wpc[w] = "gather"
      PROVE  Len(sdata[p]) = 2
  <2>1. Dotted(p) /\ Done(p)
    BY <1>1, <1>3, <1>7, AllDone
  <2> QED
    BY <1>3, <1>5, <2>1 DEF Content
<1>8. \A w \in Lanes : wpc[w] \in Ending => m_sum[w] > 0
  BY Denominators
<1> QED
  BY <1>1, <1>6, <1>7, <1>8 DEF Asked, Lockstep, Summed, Results

LEMMA KernelRuns ==
  ASSUME batch \in Batches, PassInv, Waiting \/ Flashed \/ Kernel, [Next]_vars
  PROVE  (Waiting \/ Flashed \/ Kernel)'
<1>1. WellFormed(batch)
  BY BatchesAssumption
<1>2. Unlaunched => \A w \in Lanes : wpc[w] = "idle"
  BY DEF Unlaunched
<1>3. Kernel => pc \in {"kernel", "end"}
  BY DEF Kernel
<1>4. ASSUME StorePrefill \/ AttendPrefill \/ StoreDecodes
      PROVE  Waiting'
  <2>1. pc \notin {"kernel", "end"} /\ pc' # "kernel"
        /\ UNCHANGED <<run, sdata, wpc, win, idx, l_max, m_sum, result>>
    BY <1>4 DEF StorePrefill, AttendPrefill, StoreDecodes, launchVars, warpVars
  <2>2. Waiting
    BY <1>3, <2>1 DEF Flashed
  <2> QED
    BY <2>1, <2>2 DEF Waiting, Unlaunched
<1>5. ASSUME NEW i \in DOMAIN batch.decodes, RunFlashInfer(i) \/ Launch(i)
      PROVE  Flashed' \/ Kernel'
  <2>1. pc = "launch"
    BY <1>5 DEF RunFlashInfer, Launch, Query
  <2>2. Waiting
    BY <1>3, <2>1 DEF Flashed
  <2> QED
    BY <1>5, <2>2, FlashRuns, KernelLaunch
<1>6. ASSUME NEW w \in Lanes, Dot(w) \/ Fold(w) \/ Weigh(w) \/ Gather(w)
      PROVE  Kernel'
  <2>1. wpc[w] # "idle"
    BY <1>6 DEF Dot, Fold, Weigh, Gather
  <2>2. Kernel
    BY <1>2, <2>1 DEF Waiting, Flashed
  <2> QED
    BY <1>1, <1>6, <2>2, KernelDot, KernelFold, KernelWeigh, KernelGather
<1>7. ASSUME Sync
      PROVE  Kernel'
  <2>1. wpc[0] # "idle"
    BY <1>7, LanesFacts DEF Sync, Meet
  <2>2. Kernel
    BY <1>2, <2>1, LanesFacts DEF Waiting, Flashed
  <2> QED
    BY <1>1, <1>7, <2>2, KernelSync
<1>8. ASSUME UNCHANGED vars
      PROVE  (Waiting \/ Flashed \/ Kernel)'
  <2>1. UNCHANGED <<batch, kv, pc, run, score, sdata, wpc, win, idx, l_max, m_sum, result>>
    BY <1>8 DEF vars, passVars, launchVars, warpVars
  <2>2. Waiting => Waiting'
    BY <2>1 DEF Waiting, Unlaunched
  <2>3. Flashed => Flashed'
    BY <2>1 DEF Flashed, Unlaunched, IsSoftmax
  <2>4. Kernel => Kernel'
    <3>1. /\ len' = len /\ Windows' = Windows /\ Weights' = Weights
          /\ LastWindowEmpty' = LastWindowEmpty /\ Asked' = Asked /\ \A q : Found(q)' = Found(q)
      BY <2>1, QueryKept
    <3>2. Lockstep => Lockstep'
      BY <2>1, <3>1 DEF Lockstep, Stage, Round
    <3>3. Summed => Summed'
      BY <2>1, <3>1 DEF Summed, Seen
    <3>4. Shared => Shared'
      BY <2>1, <3>1 DEF Shared, Content, Dotted, Done, Weight
    <3>5. Results => Results'
      BY <2>1, <3>1 DEF Results, Weight
    <3> QED
      BY <2>1, <3>1, <3>2, <3>3, <3>4, <3>5 DEF Kernel
  <2> QED
    BY <2>2, <2>3, <2>4
<1> QED
  BY <1>4, <1>5, <1>6, <1>7, <1>8 DEF Next

(* The whole run: whichever backend the sequence gets, and however its     *)
(* warps are scheduled.                                                    *)
Running == Waiting \/ Flashed \/ Kernel

LEMMA RunningInit == Init => Running
  BY BatchesAssumption DEF Init, Running, Waiting, Unlaunched

(* A decoding sequence's attention is the softmax over its own positions,  *)
(* for any block size, number and size of warps, tables and lengths: over  *)
(* FlashInfer's pages, and in the kernel of the repository in every        *)
(* interleaving of its warps between barriers, unless the last window has  *)
(* tokens (run_kernel, _build_page_metadata, paged_attention_kernel).      *)
THEOREM AttentionExact == Spec => []DecodeExact
<1>1. batch \in Batches /\ Running => DecodeExact
  <2> SUFFICES ASSUME batch \in Batches, Running,
                      pc = "end", run # 0, KernelRan => LastWindowEmpty, NEW w \in Lanes
               PROVE  IsSoftmax(result[w])
    BY DEF DecodeExact
  <2>1. CASE Waiting
    BY <2>1 DEF Waiting
  <2>2. CASE Flashed
    BY <2>2 DEF Flashed
  <2>3. CASE Kernel
    <3>1. \A v \in Lanes : wpc[v] = "done"
      BY <2>3 DEF Kernel
    <3>2. LastWindowEmpty
      BY <3>1, LanesFacts DEF KernelRan
    <3> QED
      BY <2>3, <3>1, <3>2, BatchesAssumption, KernelExact
  <2> QED
    BY <2>1, <2>2, <2>3 DEF Running
<1>2. batch \in Batches /\ PassInv /\ Running /\ [Next]_vars => Running'
  BY KernelRuns DEF Running
<1>3. Init => PassInv
  BY PassInit DEF Init
<1> QED
  BY <1>1, <1>2, <1>3, RunningInit, PassNext, SameBatch, PTL DEF Spec
-----------------------------------------------------------------------------
(* Types: of the cache, and of the rest.                                   *)
Tokens == Range(Rows(batch)) \cup Range(Before(batch))
Filled ==
  /\ kv \in [Cells -> Tokens]
  /\ next \in 1 .. Len(batch.prefills) + 1

LEMMA TokensOnly ==
  ASSUME WellFormed(batch), Filled, NEW S,
         \A y \in S : y[2] + 1 \in 1 .. NumPrefill(batch) + Len(batch.decodes)
  PROVE  AfterStore(S) \in [Cells -> Tokens]
<1>1. \A y \in S : RowToken(batch, y[2]) \in Tokens
  <2>1. DOMAIN Rows(batch) = 1 .. NumPrefill(batch) + Len(batch.decodes)
    BY RowsPlaced
  <2> QED
    BY <2>1 DEF RowToken, Tokens, Range
<1>2. DOMAIN kv = Cells /\ \A c \in Cells : kv[c] \in Tokens
  BY DEF Filled
<1>3. ASSUME NEW c \in Cells
      PROVE  AfterStore(S)[c] \in Tokens
  <2> DEFINE rows == {y[2] : y \in {z \in S : z[1] = c}}
  <2>1. AfterStore(S)[c] = IF rows = {} THEN kv[c] ELSE RowToken(batch, CHOOSE r \in rows : TRUE)
    BY <1>2, Zenon DEF AfterStore
  <2>2. rows # {} => (CHOOSE r \in rows : TRUE) \in rows
    <3> HIDE DEF rows
    <3> QED
      OBVIOUS
  <2>3. \A r \in rows : RowToken(batch, r) \in Tokens
    BY <1>1
  <2> HIDE DEF rows
  <2> QED
    BY <1>2, <2>1, <2>2, <2>3
<1>4. AfterStore(S) = [c \in Cells |-> AfterStore(S)[c]]
  BY <1>2 DEF AfterStore
<1> QED
  BY <1>3, <1>4

LEMMA FilledNext == batch \in Batches /\ PassInv /\ Filled /\ [Next]_vars => Filled'
<1> SUFFICES ASSUME batch \in Batches, PassInv, Filled, [Next]_vars
             PROVE  Filled'
  OBVIOUS
<1>1. WellFormed(batch)
  BY BatchesAssumption
<1>2. /\ NumPrefill(batch) \in Nat /\ Len(batch.decodes) \in Nat
      /\ DOMAIN batch.decodes = 1 .. Len(batch.decodes)
      /\ Len(batch.prefills) \in Nat /\ DOMAIN batch.prefills = 1 .. Len(batch.prefills)
  BY <1>1, BatchFacts, Offsets
<1>3. CASE StorePrefill
  <2>1. /\ kv' = AfterStore(PrefillStore(batch, next)) /\ next' = next + 1 /\ batch' = batch
        /\ next \in DOMAIN batch.prefills
    BY <1>3 DEF StorePrefill, PassInv
  <2>2. ASSUME NEW y \in PrefillStore(batch, next)
        PROVE  y[2] + 1 \in 1 .. NumPrefill(batch) + Len(batch.decodes)
    <3>1. PICK i \in 0 .. batch.prefills[next].num - 1 : y[2] = Offset(batch, next) + i
      BY DEF PrefillStore
    <3>2. /\ Offset(batch, next) \in Nat /\ batch.prefills[next].num \in Nat
          /\ Offset(batch, next) + batch.prefills[next].num <= NumPrefill(batch)
      BY <1>1, <2>1, BatchFacts, Offsets
    <3>3. \A o, n, m, d \in Nat : \A h \in 0 .. n - 1 :
            o + n <= m => (o + h) + 1 \in 1 .. m + d
      OBVIOUS
    <3> QED
      BY <1>2, <3>1, <3>2, <3>3
  <2>3. AfterStore(PrefillStore(batch, next)) \in [Cells -> Tokens]
    BY <1>1, <2>2, TokensOnly
  <2>4. next' \in 1 .. Len(batch.prefills) + 1
    BY <1>2, <2>1
  <2> QED
    BY <2>1, <2>3, <2>4 DEF Filled, Tokens
<1>4. CASE StoreDecodes
  <2>1. kv' = AfterStore(DecodeStore(batch)) /\ next' = next /\ batch' = batch
    BY <1>4 DEF StoreDecodes
  <2>2. ASSUME NEW y \in DecodeStore(batch)
        PROVE  y[2] + 1 \in 1 .. NumPrefill(batch) + Len(batch.decodes)
    <3>1. PICK i \in DOMAIN batch.decodes : y[2] = NumPrefill(batch) + i - 1
      BY DEF DecodeStore
    <3> QED
      BY <1>2, <3>1
  <2>3. AfterStore(DecodeStore(batch)) \in [Cells -> Tokens]
    BY <1>1, <2>2, TokensOnly
  <2> QED
    BY <2>1, <2>3 DEF Filled, Tokens
<1>5. CASE UNCHANGED <<batch, kv, next>>
  BY <1>5 DEF Filled, Tokens
<1>6. \/ StorePrefill \/ StoreDecodes \/ UNCHANGED <<batch, kv, next>>
  BY DEF Next, AttendPrefill, RunFlashInfer, Launch, Dot, Fold, Weigh, Gather, Sync, passVars, vars
<1> QED
  BY <1>3, <1>4, <1>5, <1>6

(* Types of all variables.  A warp that has come to the weights divides by *)
(* a sum that is not zero, even in the race of the last window, and one    *)
(* that adds values up finds a weight at every position.                   *)
THEOREM TypeCorrect == Spec => []TypeOK
<1>1. batch \in Batches /\ PassInv /\ Filled /\ Running => TypeOK
  <2> SUFFICES ASSUME batch \in Batches, PassInv, Filled, Running
               PROVE  TypeOK
    OBVIOUS
  <2>1. WellFormed(batch)
    BY BatchesAssumption
  <2>2. /\ kv \in [Blocks \X (0 .. BlockSize - 1) -> Range(Rows(batch)) \cup Range(Before(batch))]
        /\ next \in 1 .. Len(batch.prefills) + 1
        /\ pc \in {"store_prefill", "attend", "store_decodes", "launch", "kernel", "end"}
    BY DEF Filled, Tokens, Cells, PassInv
  <2>3. DOMAIN batch.decodes = 1 .. Len(batch.decodes) /\ Len(batch.decodes) \in Nat
    BY <2>1, BatchFacts
  <2>4. CASE Unlaunched /\ run \in {0} \cup DOMAIN batch.decodes /\ DOMAIN result \subseteq Lanes
    <3>1. \A w \in Lanes : wpc[w] = "idle"
      BY <2>4 DEF Unlaunched
    <3>2. DOMAIN sdata = {}
      BY <2>4 DEF Unlaunched
    <3>3. /\ wpc \in [Lanes -> {"idle"}]
          /\ win \in [Lanes -> Nat] /\ idx \in [Lanes -> Nat]
          /\ l_max \in [Lanes -> -1 .. MaxScore] /\ m_sum \in [Lanes -> Nat]
      BY <2>4, ScoreAssumption DEF Unlaunched
    <3>4. wpc \in [Lanes -> {"idle", "dot", "sync_scores", "fold", "weigh", "sync_weights",
                             "gather", "done"}]
      BY <3>3
    <3>5. run \in 0 .. Len(batch.decodes)
      BY <2>3, <2>4
    <3> QED
      BY <2>2, <2>4, <3>1, <3>2, <3>3, <3>4, <3>5 DEF TypeOK
  <2>5. CASE Kernel
    <3>1. /\ run \in DOMAIN batch.decodes
          /\ \A p \in DOMAIN sdata : sdata[p] \in Seq(Nat) /\ Len(sdata[p]) <= 2
          /\ wpc \in [Lanes -> {"idle", "dot", "sync_scores", "fold"} \cup Ending]
          /\ win \in [Lanes -> Nat] /\ idx \in [Lanes -> Nat]
          /\ l_max \in [Lanes -> -1 .. MaxScore] /\ m_sum \in [Lanes -> Nat]
          /\ DOMAIN result \subseteq Lanes
          /\ \A w \in Lanes : wpc[w] \in Ending => m_sum[w] > 0
          /\ \A w \in Lanes, p \in DOMAIN sdata : wpc[w] = "gather" => Len(sdata[p]) = 2
      BY <2>1, <2>5, KernelTypes
    <3>2. run \in 0 .. Len(batch.decodes)
      BY <2>3, <3>1
    <3>3. {"idle", "dot", "sync_scores", "fold"} \cup Ending
            = {"idle", "dot", "sync_scores", "fold", "weigh", "sync_weights", "gather", "done"}
      BY DEF Ending
    <3> QED
      BY <2>2, <3>1, <3>2, <3>3, Zenon DEF TypeOK, Ending
  <2>6. Waiting \/ Flashed => Unlaunched /\ run \in {0} \cup DOMAIN batch.decodes
                              /\ DOMAIN result \subseteq Lanes
    BY DEF Waiting, Flashed
  <2> QED
    BY <2>4, <2>5, <2>6 DEF Running
<1>2. Init => PassInv /\ Filled
  <2> SUFFICES ASSUME Init PROVE PassInv /\ Filled
    OBVIOUS
  <2>1. WellFormed(batch) /\ kv = Before(batch) /\ next = 1 /\ batch \in Batches
    BY BatchesAssumption DEF Init
  <2>2. Len(batch.prefills) \in Nat
    BY <2>1, BatchFacts
  <2>3. Before(batch) \in [Cells -> Range(Before(batch))]
    <3> PICK f : f = Before(batch)
      OBVIOUS
    <3>1. DOMAIN f = Cells /\ f = [c \in Cells |-> f[c]]
      BY DEF Before, Cells
    <3>2. f \in [Cells -> Range(f)]
      BY <3>1 DEF Range
    <3> QED
      BY <3>2
  <2>4. kv \in [Cells -> Tokens]
    BY <2>1, <2>3 DEF Tokens
  <2> QED
    BY <2>1, <2>2, <2>4, PassInit DEF Filled
<1>3. batch \in Batches /\ PassInv /\ Running /\ [Next]_vars => Running'
  BY KernelRuns DEF Running
<1> QED
  BY <1>1, <1>2, <1>3, RunningInit, FilledNext, PassNext, SameBatch, PTL DEF Spec
=============================================================================
