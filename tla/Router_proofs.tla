---------------------------- MODULE Router_proofs ----------------------------
(***************************************************************************)
(* Theorems about Router: the windows keep their types and bounds, and the *)
(* cost comparison behaves on an idle system and under changing loads for  *)
(* all cost parameters, prompt lengths and predictions.                    *)
(***************************************************************************)
EXTENDS Router, FiniteSetTheorems, SequenceTheorems, WellFoundedInduction, TLAPS

(* Every prompt length has a bucket.                                       *)
LEMMA BucketType ==
  ASSUME NEW p \in Nat
  PROVE  BucketIdx(p) \in DOMAIN Buckets
<1> DEFINE below == {i \in DOMAIN Buckets : Buckets[i] < p}
<1>1. Len(Buckets) \in Nat /\ DOMAIN Buckets = 1 .. Len(Buckets) /\ Len(Buckets) > 0
  BY BucketsAssumption
<1>2. IsFiniteSet(1 .. Len(Buckets))
  BY <1>1, FS_Interval
<1>3. below \subseteq 1 .. Len(Buckets)
  BY <1>1
<1>4. Cardinality(below) \in Nat
  BY <1>2, <1>3, FS_Subset, FS_CardinalityType
<1> HIDE DEF below
<1>5. (IF Cardinality(below) < Len(Buckets) THEN Cardinality(below) + 1 ELSE Len(Buckets))
        \in 1 .. Len(Buckets)
  BY <1>1, <1>4
<1> QED
  BY <1>1, <1>5 DEF BucketIdx, below

(* A bounded deque stays within its bound.                                 *)
LEMMA PushType ==
  ASSUME NEW q \in Seq(Nat), NEW x \in Nat, NEW max \in Nat \ {0}, Len(q) <= max
  PROVE  Push(q, x, max) \in Seq(Nat) /\ Len(Push(q, x, max)) <= max
<1>1. CASE Len(q) < max
  BY <1>1 DEF Push
<1>2. CASE Len(q) = max
  <2>1. q # <<>>
    BY <1>2
  <2>2. Tail(q) \in Seq(Nat) /\ Len(Tail(q)) = Len(q) - 1
    BY <2>1
  <2> QED
    BY <1>2, <2>2 DEF Push
<1> QED
  BY <1>1, <1>2

(* Variables keep their types: no window outgrows its bound, whatever is   *)
(* fed back (OutputLengthPredictor.update).                                *)
THEOREM TypeCorrect == Spec => []TypeOK
<1>1. Init => TypeOK
  BY BucketsAssumption, PredictorAssumption DEF Init, TypeOK
<1>2. TypeOK /\ [Next]_vars => TypeOK'
  <2> SUFFICES ASSUME TypeOK, [Next]_vars
               PROVE  TypeOK'
    OBVIOUS
  <2>1. ASSUME NEW p \in PromptLens, NEW load \in 0 .. MaxLoad, NEW dbs \in 0 .. MaxLoad,
               Route(p, load, dbs)
        PROVE  TypeOK'
    BY <2>1 DEF Route, TypeOK
  <2>2. ASSUME NEW p \in PromptLens, NEW n \in OutputLens, Update(p, n)
        PROVE  TypeOK'
    <3>1. p \in Nat /\ n \in Nat
      BY InputsAssumption
    <3>2. BucketIdx(p) \in DOMAIN Buckets
      BY <3>1, BucketType
    <3>3. Window \in Nat \ {0} /\ Window * Len(Buckets) \in Nat \ {0}
      BY PredictorAssumption, BucketsAssumption
    <3>4. /\ globalData' \in Seq(Nat)
          /\ Len(globalData') <= Window * Len(Buckets)
      BY <2>2, <3>1, <3>3, PushType DEF Update, TypeOK
    <3> DEFINE b == BucketIdx(p)
               new == Push(bucketData[b], n, Window)
    <3>5. new \in Seq(Nat) /\ Len(new) <= Window
      BY <3>1, <3>2, <3>3, PushType DEF TypeOK
    <3>6. bucketData' = [bucketData EXCEPT ![b] = new]
      BY <2>2 DEF Update
    <3> HIDE DEF new, b
    <3>7. /\ bucketData' \in [DOMAIN Buckets -> Seq(Nat)]
          /\ \A c \in DOMAIN Buckets : Len(bucketData'[c]) <= Window
      BY <3>5, <3>6 DEF TypeOK
    <3> QED
      BY <3>4, <3>7 DEF TypeOK
  <2>3. CASE UNCHANGED vars
    BY <2>3 DEF vars, TypeOK
  <2> QED
    BY <2>1, <2>2, <2>3 DEF Next
<1> QED
  BY <1>1, <1>2, PTL DEF Spec

(* A decode step does not get shorter when the batch grows.                *)
LEMMA DecodeStepMonotone ==
  ASSUME NEW a \in Nat, NEW b \in Nat, a <= b
  PROVE  /\ DecodeStep(a) \in Nat /\ DecodeStep(b) \in Nat
         /\ DecodeStep(a) <= DecodeStep(b)
<1> DEFINE floor(c) == IF c <= BatchThresh THEN BatchThresh ELSE c
<1>1. \A c \in Nat : DecodeStep(c) = Beta * floor(c) /\ floor(c) \in Nat
  BY CostsAssumption DEF DecodeStep
<1>2. floor(a) <= floor(b)
  BY CostsAssumption
<1> HIDE DEF floor
<1>3. \A x, y, z \in Nat : y <= z => x * y \in Nat /\ x * z \in Nat /\ x * y <= x * z
  OBVIOUS
<1> QED
  BY <1>1, <1>2, <1>3, CostsAssumption

(* At system_load 0 no request is sent to the disaggregated path, for any  *)
(* costs, prompt, prediction and decode batch (AnalyticalCostModel.route;  *)
(* docs 04, load = 0).                                                     *)
THEOREM IdleNeverTransfers ==
  ASSUME NEW p \in Nat, NEW n \in Nat, NEW dbs \in Nat
  PROVE  Decision(p, n, 0, dbs) = "collocated"
<1> DEFINE one == DecodeStep(1)  many == DecodeStep(dbs + 1)
<1>1. one \in Nat /\ many \in Nat /\ one <= many
  BY DecodeStepMonotone
<1> HIDE DEF one, many
<1>2. one * n \in Nat /\ many * n \in Nat /\ one * n <= many * n
  BY <1>1
<1>3. Interference(p, 0) = 0
  BY CostsAssumption DEF Interference
<1>4. PrefillTime(p) \in Nat /\ TransferTime(p) \in Nat
  BY CostsAssumption DEF PrefillTime, TransferTime
<1>5. Collocated(p, n, 0) = PrefillTime(p) + one * n + 0
  BY <1>3 DEF Collocated, one
<1>6. Disaggregated(p, n, dbs) = PrefillTime(p) + TransferTime(p) + many * n
  BY DEF Disaggregated, many
<1> QED
  BY <1>2, <1>4, <1>5, <1>6 DEF Decision

(* The decision follows the loads, for any costs, prompt and prediction: a *)
(* request sent to the decode worker would be sent there under any higher  *)
(* system_load and any smaller decode batch (AnalyticalCostModel.route).   *)
THEOREM FollowsLoads ==
  ASSUME NEW p \in Nat, NEW n \in Nat,
         NEW load \in Nat, NEW more \in Nat, load <= more,
         NEW dbs \in Nat, NEW fewer \in Nat, fewer <= dbs,
         Decision(p, n, load, dbs) = "disaggregated"
  PROVE  Decision(p, n, more, fewer) = "disaggregated"
<1> DEFINE atLeastOne(c) == IF c < 1 THEN 1 ELSE c
           cappedAt(c) == IF c < BatchThresh THEN c ELSE BatchThresh
<1>1. \A x, y, z \in Nat : y <= z => /\ x * y \in Nat /\ x * z \in Nat /\ x * y <= x * z
                                   /\ y * x <= z * x /\ y * x \in Nat /\ z * x \in Nat
  OBVIOUS
<1>2. /\ DecodeStep(fewer + 1) * n \in Nat /\ DecodeStep(dbs + 1) * n \in Nat
      /\ DecodeStep(fewer + 1) * n <= DecodeStep(dbs + 1) * n
  <2>1. /\ DecodeStep(fewer + 1) \in Nat /\ DecodeStep(dbs + 1) \in Nat
        /\ DecodeStep(fewer + 1) <= DecodeStep(dbs + 1)
    BY DecodeStepMonotone
  <2> QED
    BY <1>1, <2>1
<1>3. /\ DecodeStep(atLeastOne(load)) * n \in Nat /\ DecodeStep(atLeastOne(more)) * n \in Nat
      /\ DecodeStep(atLeastOne(load)) * n <= DecodeStep(atLeastOne(more)) * n
  <2>1. /\ DecodeStep(atLeastOne(load)) \in Nat /\ DecodeStep(atLeastOne(more)) \in Nat
        /\ DecodeStep(atLeastOne(load)) <= DecodeStep(atLeastOne(more))
    <3>1. atLeastOne(load) \in Nat /\ atLeastOne(more) \in Nat
      OBVIOUS
    <3>2. atLeastOne(load) <= atLeastOne(more)
      OBVIOUS
    <3> HIDE DEF atLeastOne
    <3> QED
      BY <3>1, <3>2, DecodeStepMonotone
  <2> HIDE DEF atLeastOne
  <2> QED
    BY <1>1, <2>1
<1>4. /\ Interference(p, load) \in Nat /\ Interference(p, more) \in Nat
      /\ Interference(p, load) <= Interference(p, more)
  <2>1. cappedAt(load) \in Nat /\ cappedAt(more) \in Nat /\ cappedAt(load) <= cappedAt(more)
    BY CostsAssumption
  <2>2. /\ Interference(p, load) = (Gamma * p) * cappedAt(load)
        /\ Interference(p, more) = (Gamma * p) * cappedAt(more)
    BY DEF Interference
  <2>3. Gamma * p \in Nat
    BY CostsAssumption
  <2> HIDE DEF cappedAt
  <2> QED
    BY <1>1, <2>1, <2>2, <2>3
<1>5. PrefillTime(p) \in Nat /\ TransferTime(p) \in Nat
  BY CostsAssumption DEF PrefillTime, TransferTime
<1>6. \A l \in {load, more} : Collocated(p, n, l) =
        PrefillTime(p) + DecodeStep(atLeastOne(l)) * n + Interference(p, l)
  BY DEF Collocated
<1>7. \A d \in {dbs, fewer} : Disaggregated(p, n, d) =
        PrefillTime(p) + TransferTime(p) + DecodeStep(d + 1) * n
  BY DEF Disaggregated
<1> HIDE DEF atLeastOne
<1>8. Disaggregated(p, n, dbs) < Collocated(p, n, load)
  BY DEF Decision
<1>9. Disaggregated(p, n, fewer) < Collocated(p, n, more)
  <2>1. Disaggregated(p, n, fewer) <= Disaggregated(p, n, dbs)
    BY <1>2, <1>5, <1>7
  <2>2. Collocated(p, n, load) <= Collocated(p, n, more)
    BY <1>3, <1>4, <1>5, <1>6
  <2>3. /\ Disaggregated(p, n, fewer) \in Nat /\ Disaggregated(p, n, dbs) \in Nat
        /\ Collocated(p, n, load) \in Nat /\ Collocated(p, n, more) \in Nat
    BY <1>2, <1>3, <1>4, <1>5, <1>6, <1>7
  <2> QED
    BY <1>8, <2>1, <2>2, <2>3
<1> QED
  BY <1>9 DEF Decision
-----------------------------------------------------------------------------
(* The bucket of a prompt is the one whose edges it lies between.          *)
LEMMA BucketMeaning ==
  ASSUME NEW p \in Nat, NEW b \in DOMAIN Buckets
  PROVE  InBucket(p, b) <=> b = BucketIdx(p)
<1> DEFINE N == Len(Buckets)
           below == {i \in DOMAIN Buckets : Buckets[i] < p}
<1>1. /\ N \in Nat /\ N > 0 /\ DOMAIN Buckets = 1 .. N
      /\ \A i \in 1 .. N : Buckets[i] \in Nat
      /\ \A i, j \in 1 .. N : i < j => Buckets[i] < Buckets[j]
  BY BucketsAssumption
<1>2. \A k \in 0 .. N : IsFiniteSet(1 .. k) /\ Cardinality(1 .. k) = k
  BY <1>1, FS_Interval
<1>3. below \subseteq 1 .. N /\ IsFiniteSet(below) /\ Cardinality(below) \in 0 .. N
  <2>1. below \subseteq 1 .. N /\ IsFiniteSet(1 .. N) /\ Cardinality(1 .. N) = N
    BY <1>1, <1>2
  <2> HIDE DEF below
  <2>2. IsFiniteSet(below) /\ Cardinality(below) <= N /\ Cardinality(below) \in Nat
    BY <2>1, FS_Subset, FS_CardinalityType
  <2> QED
    BY <1>1, <2>1, <2>2
<1>4. BucketIdx(p) = IF Cardinality(below) < N THEN Cardinality(below) + 1 ELSE N
  BY DEF BucketIdx
<1>5. ASSUME InBucket(p, b) PROVE b = BucketIdx(p)
  <2>1. CASE p <= Buckets[b]
    <3>1. below = 1 .. b - 1
      <4>1. ASSUME NEW i \in 1 .. b - 1 PROVE Buckets[i] < p
        <5>1. b # 1 /\ b - 1 \in 1 .. N /\ i \in 1 .. N /\ (i = b - 1 \/ i < b - 1)
          BY <1>1
        <5>2. Buckets[b - 1] < p
          BY <1>5, <5>1 DEF InBucket
        <5> QED
          BY <1>1, <5>1, <5>2
      <4>2. ASSUME NEW i \in 1 .. N, Buckets[i] < p PROVE i \in 1 .. b - 1
        BY <1>1, <2>1, <4>2
      <4> QED
        BY <1>1, <4>1, <4>2
    <3>2. Cardinality(below) = b - 1 /\ b - 1 < N
      <4>1. b - 1 \in 0 .. N /\ b - 1 < N
        BY <1>1
      <4> HIDE DEF below
      <4> QED
        BY <1>2, <3>1, <4>1
    <3> HIDE DEF below
    <3> QED
      BY <1>1, <1>4, <3>2
  <2>2. CASE b = N /\ ~ (p <= Buckets[b])
    <3>1. below = 1 .. N
      BY <1>1, <2>2
    <3> HIDE DEF below
    <3>2. Cardinality(below) = N
      BY <1>1, <1>2, <3>1
    <3>3. ~ (Cardinality(below) < N)
      BY <1>1, <3>2
    <3> QED
      BY <1>4, <2>2, <3>3, Zenon
  <2>3. b = N \/ p <= Buckets[b]
    BY <1>5 DEF InBucket
  <2> QED
    BY <2>1, <2>2, <2>3
<1>6. ASSUME b = BucketIdx(p) PROVE InBucket(p, b)
  <2> DEFINE k == Cardinality(below)
  <2>1. below = 1 .. k
    <3>1. ASSUME NEW x \in below PROVE x <= k
      <4>1. x \in 0 .. N /\ 1 .. x \subseteq below
        BY <1>1
      <4>2. Cardinality(1 .. x) = x
        BY <1>2, <4>1
      <4> HIDE DEF below
      <4> QED
        BY <1>3, <4>1, <4>2, FS_Subset
    <3>2. below \subseteq 1 .. k
      <4> HIDE DEF k
      <4> QED
        BY <1>1, <3>1
    <3>3. IsFiniteSet(1 .. k) /\ Cardinality(1 .. k) = Cardinality(below)
      BY <1>2, <1>3
    <3> HIDE DEF below
    <3> QED
      BY <3>2, <3>3, FS_Subset
  <2> HIDE DEF k
  <2>2. k \in 0 .. N /\ b = IF k < N THEN k + 1 ELSE N
    BY <1>3, <1>4, <1>6 DEF k
  <2>3. \A i \in 1 .. N : Buckets[i] < p <=> i <= k
    BY <1>1, <2>1, <2>2
  <2>4. b = 1 \/ Buckets[b - 1] < p
    BY <1>1, <2>2, <2>3
  <2>5. b = N \/ p <= Buckets[b]
    <3>1. CASE k < N
      <4>1. k + 1 \in 1 .. N /\ ~ (k + 1 <= k) /\ b = k + 1
        BY <1>1, <2>2, <3>1
      <4>2. ~ (Buckets[k + 1] < p) /\ Buckets[k + 1] \in Nat
        BY <1>1, <2>3, <4>1
      <4> QED
        BY <4>1, <4>2
    <3>2. CASE ~ (k < N)
      BY <2>2, <3>2
    <3> QED
      BY <3>1, <3>2
  <2> QED
    BY <2>4, <2>5 DEF InBucket
<1> QED
  BY <1>5, <1>6

(* Pushing on the newest elements of a sequence gives the newest elements  *)
(* of the longer sequence.                                                 *)
LEMMA NewestPush ==
  ASSUME NEW q \in Seq(Nat), NEW x \in Nat, NEW max \in Nat \ {0}
  PROVE  Push(Newest(q, max), x, max) = Newest(Append(q, x), max)
<1> DEFINE m == Len(q)
           w == Append(q, x)
<1>1. /\ m \in Nat /\ w \in Seq(Nat) /\ Len(w) = m + 1 /\ w[m + 1] = x
      /\ \A i \in 1 .. m : w[i] = q[i]
  OBVIOUS
<1>2. CASE m < max
  <2>1. Newest(q, max) = q
    <3>1. Newest(q, max) = SubSeq(q, 1, m)
      <4>1. ~ (Len(q) > max)
        BY <1>1, <1>2
      <4> QED
        BY <4>1, Zenon DEF Newest
    <3> QED
      BY <3>1, SubSeqFull
  <2>2. Newest(w, max) = w
    <3>1. Newest(w, max) = SubSeq(w, 1, Len(w))
      <4>1. ~ (Len(w) > max)
        BY <1>1, <1>2
      <4> HIDE DEF w
      <4> QED
        BY <4>1, Zenon DEF Newest
    <3> HIDE DEF w
    <3> QED
      BY <3>1, <1>1, SubSeqFull
  <2> QED
    BY <1>2, <2>1, <2>2 DEF Push
<1>3. CASE m >= max
  <2> DEFINE a == m - max + 1
             u == SubSeq(q, a, m)
             v == SubSeq(w, a + 1, m + 1)
  <2>1. a \in 1 .. m /\ m - a + 1 = max
    BY <1>1, <1>3
  <2>2. Newest(q, max) = u /\ Newest(w, max) = v
    <3>1. Newest(q, max) = u
      <4>1. a = IF Len(q) > max THEN Len(q) - max + 1 ELSE 1
        BY <1>1, <1>3
      <4> HIDE DEF a
      <4> QED
        BY <4>1, Zenon DEF Newest
    <3>2. Newest(w, max) = SubSeq(w, Len(w) - max + 1, Len(w))
      <4>1. Len(w) > max
        BY <1>1, <1>3
      <4> HIDE DEF w
      <4> QED
        BY <4>1, Zenon DEF Newest
    <3>3. Len(w) - max + 1 = a + 1
      BY <1>1
    <3> QED
      BY <1>1, <3>1, <3>2, <3>3
  <2>3. /\ u \in Seq(Nat) /\ Len(u) = max
        /\ \A i \in 1 .. max : u[i] = q[a + i - 1]
    <3>1. \A i \in a .. m : q[i] \in Nat
      BY <2>1
    <3> HIDE DEF a
    <3> QED
      BY <1>1, <2>1, <3>1, SubSeqProperties
  <2>4. /\ v \in Seq(Nat) /\ Len(v) = max
        /\ \A i \in 1 .. max : v[i] = w[a + i]
    <3>1. \A i \in a + 1 .. m + 1 : w[i] \in Nat
      BY <1>1, <2>1
    <3> HIDE DEF a, w
    <3> QED
      BY <1>1, <2>1, <3>1, SubSeqProperties
  <2> HIDE DEF u, v
  <2>5. /\ Tail(u) \in Seq(Nat) /\ Len(Tail(u)) = max - 1
        /\ \A i \in 1 .. max - 1 : Tail(u)[i] = u[i + 1]
    BY <2>3
  <2> DEFINE z == Append(Tail(u), x)
  <2>6. Push(u, x, max) = z
    BY <2>3 DEF Push
  <2>7. /\ z \in Seq(Nat) /\ Len(z) = max /\ z[max] = x
        /\ \A i \in 1 .. max - 1 : z[i] = Tail(u)[i]
    BY <2>5
  <2>8. \A i \in 1 .. max : z[i] = v[i]
    <3> SUFFICES ASSUME NEW i \in 1 .. max PROVE z[i] = v[i]
      OBVIOUS
    <3>1. CASE i = max
      <4>1. a + i = m + 1
        BY <1>1, <3>1
      <4> HIDE DEF z, w, a
      <4> QED
        BY <1>1, <2>4, <2>7, <3>1, <4>1, Zenon
    <3>2. CASE i # max
      <4>1. i \in 1 .. max - 1 /\ i + 1 \in 1 .. max /\ a + i \in 1 .. m /\ a + (i + 1) - 1 = a + i
        BY <1>1, <2>1, <3>2
      <4> HIDE DEF z, w, a
      <4>2. z[i] = u[i + 1] /\ u[i + 1] = q[a + (i + 1) - 1]
        BY <2>3, <2>5, <2>7, <4>1, Zenon
      <4>3. v[i] = w[a + i] /\ w[a + i] = q[a + i]
        BY <1>1, <2>4, <4>1, Zenon
      <4> QED
        BY <4>1, <4>2, <4>3, Zenon
    <3> QED
      BY <3>1, <3>2
  <2> HIDE DEF z
  <2>9. z = v
    BY <2>4, <2>7, <2>8, SeqEqual
  <2> QED
    BY <2>2, <2>6, <2>9
<1> QED
  BY <1>1, <1>2, <1>3

LEMMA NewestEmpty == ASSUME NEW max \in Nat \ {0} PROVE Newest(<<>>, max) = <<>>
BY SubSeqEmpty DEF Newest

PastType ==
  past \in Seq(Nat) /\ pastIn \in [DOMAIN Buckets -> Seq(Nat)]

(* The windows hold exactly the newest outputs of the prompts between a    *)
(* bucket's edges, and of all prompts: bisect_left sends each prompt to    *)
(* one bucket, and a full deque drops its oldest entry only (_bucket_idx,  *)
(* update).                                                                *)
THEOREM WindowsRecent == Spec => []RecentOnly
<1>1. Init => PastType /\ RecentOnly
  <2> SUFFICES ASSUME Init PROVE PastType /\ RecentOnly
    OBVIOUS
  <2>1. Window \in Nat \ {0} /\ Window * Len(Buckets) \in Nat \ {0}
    BY PredictorAssumption, BucketsAssumption
  <2> QED
    BY <2>1, NewestEmpty DEF Init, PastType, RecentOnly
<1>2. TypeOK /\ PastType /\ RecentOnly /\ [Next]_vars => PastType' /\ RecentOnly'
  <2> SUFFICES ASSUME TypeOK, PastType, RecentOnly, [Next]_vars
               PROVE  PastType' /\ RecentOnly'
    OBVIOUS
  <2>1. ASSUME NEW p \in PromptLens, NEW n \in OutputLens, Update(p, n)
        PROVE  PastType' /\ RecentOnly'
    <3>1. p \in Nat /\ n \in Nat
      BY InputsAssumption
    <3>2. Window \in Nat \ {0} /\ Window * Len(Buckets) \in Nat \ {0}
      BY PredictorAssumption, BucketsAssumption
    <3>3. /\ globalData' = Push(globalData, n, Window * Len(Buckets))
          /\ past' = Append(past, n)
          /\ bucketData' = [bucketData EXCEPT ![BucketIdx(p)] =
                              Push(bucketData[BucketIdx(p)], n, Window)]
          /\ pastIn' = [b \in DOMAIN Buckets |->
                          IF InBucket(p, b) THEN Append(pastIn[b], n) ELSE pastIn[b]]
      BY <2>1 DEF Update
    <3>4. PastType'
      BY <3>1, <3>3 DEF PastType
    <3>5. globalData' = Newest(past', Window * Len(Buckets))
      BY <3>1, <3>2, <3>3, NewestPush DEF PastType, RecentOnly
    <3>6. ASSUME NEW b \in DOMAIN Buckets
          PROVE  bucketData'[b] = Newest(pastIn'[b], Window)
      <4>1. InBucket(p, b) <=> b = BucketIdx(p)
        BY <3>1, BucketMeaning
      <4>2. bucketData[b] = Newest(pastIn[b], Window) /\ pastIn[b] \in Seq(Nat)
        BY DEF RecentOnly, PastType
      <4>3. CASE b = BucketIdx(p)
        <5>1. bucketData'[b] = Push(bucketData[b], n, Window)
          BY <3>3, <4>3 DEF TypeOK
        <5>2. pastIn'[b] = Append(pastIn[b], n)
          BY <3>3, <4>1, <4>3
        <5>3. Push(Newest(pastIn[b], Window), n, Window) = Newest(Append(pastIn[b], n), Window)
          BY <3>1, <3>2, <4>2, NewestPush
        <5> QED
          BY <4>2, <5>1, <5>2, <5>3
      <4>4. CASE b # BucketIdx(p)
        BY <3>3, <4>1, <4>2, <4>4 DEF TypeOK
      <4> QED
        BY <4>3, <4>4
    <3> QED
      BY <3>4, <3>5, <3>6 DEF RecentOnly
  <2>2. ASSUME NEW p \in PromptLens, NEW load \in 0 .. MaxLoad, NEW dbs \in 0 .. MaxLoad,
               Route(p, load, dbs)
        PROVE  PastType' /\ RecentOnly'
    BY <2>2 DEF Route, PastType, RecentOnly
  <2>3. CASE UNCHANGED vars
    BY <2>3 DEF vars, PastType, RecentOnly
  <2> QED
    BY <2>1, <2>2, <2>3 DEF Next
<1> QED
  BY <1>1, <1>2, TypeCorrect, PTL DEF Spec
-----------------------------------------------------------------------------
(* Every set of natural numbers but the empty one has a least element.     *)
LEMMA Least ==
  ASSUME NEW T \in SUBSET Nat, T # {}
  PROVE  \E n \in T : \A m \in T : n <= m
<1> DEFINE R == {ss \in Nat \X Nat : ss[1] < ss[2]}
<1>1. IsWellFoundedOn(R, Nat)
  BY NatLessThanWellFounded DEF OpToRel
<1>2. \E n \in T : \A m \in T : <<m, n>> \notin R
  <2> HIDE DEF R
  <2> QED
    BY <1>1, WFMin
<1>3. PICK n \in T : \A m \in T : <<m, n>> \notin R
  BY <1>2
<1>4. ASSUME NEW m \in T PROVE n <= m
  <2>1. m \in Nat /\ n \in Nat
    OBVIOUS
  <2>2. ~ m < n
    BY <1>3, <2>1
  <2> QED
    BY <2>1, <2>2
<1> QED
  BY <1>4

(***************************************************************************)
(* The sum of a window.  FoldSeq picks a function on the sets of indices   *)
(* that fits its recursion; that one exists, and that each one yields      *)
(* natural numbers, follows from a least counterexample.                   *)
(***************************************************************************)
Total(q) == FoldSeq(LAMBDA x, s : x + s, 0, q)

(* The index the recursion takes next, and one step of it.                 *)
Picked(s) == CHOOSE x \in s : TRUE
SumOf(q, g, s) == IF s = {} THEN 0 ELSE q[Picked(s)] + g[s \ {Picked(s)}]

(* The sets of at most n indices.                                          *)
Upto(D, n) == {s \in SUBSET D : Cardinality(s) <= n}

(* The fold, expanded: a function that fits the recursion, at all indices. *)
LEMMA TotalMeaning ==
  ASSUME NEW q
  PROVE  Total(q) = (CHOOSE g : g = [s \in SUBSET DOMAIN q |-> SumOf(q, g, s)])[DOMAIN q]
  BY DEF Total, FoldSeq, FoldFunction, FoldFunctionOnSet, MapThenFoldSet, SumOf, Picked

(* The recursion goes on to a smaller set.                                 *)
LEMMA Smaller ==
  ASSUME NEW D, IsFiniteSet(D), NEW n \in Nat, NEW s \in Upto(D, n), s # {}
  PROVE  /\ n # 0 /\ Picked(s) \in s /\ Picked(s) \in D
         /\ s \ {Picked(s)} \in Upto(D, n - 1)
<1>1. Picked(s) \in s
  BY DEF Picked
<1>2. s \subseteq D /\ Cardinality(s) <= n
  BY DEF Upto
<1>3. IsFiniteSet(s) /\ Cardinality(s) \in Nat
  BY <1>2, FS_Subset, FS_CardinalityType
<1>4. Cardinality(s \ {Picked(s)}) = Cardinality(s) - 1
  BY <1>1, <1>3, FS_RemoveElement
<1>5. Cardinality(s \ {Picked(s)}) \in Nat
  BY <1>3, FS_RemoveElement, FS_CardinalityType
<1> HIDE DEF Picked
<1>6. Cardinality(s \ {Picked(s)}) <= n - 1 /\ n # 0
  BY <1>2, <1>3, <1>4, <1>5
<1>7. s \ {Picked(s)} \in SUBSET D /\ Picked(s) \in D
  BY <1>1, <1>2
<1> QED
  BY <1>1, <1>6, <1>7 DEF Upto

(* Some function fits the recursion on the sets of at most n indices.      *)
LEMMA SumExists ==
  ASSUME NEW q, NEW D, D = DOMAIN q, IsFiniteSet(D), \A i \in D : q[i] \in Nat
  PROVE  \A n \in Nat : \E g : g = [s \in Upto(D, n) |-> SumOf(q, g, s)]
<1> DEFINE Fails == {n \in Nat : ~ \E g : g = [s \in Upto(D, n) |-> SumOf(q, g, s)]}
<1> SUFFICES ASSUME Fails # {} PROVE FALSE
  OBVIOUS
<1>1. PICK n \in Fails : \A m \in Fails : n <= m
  <2>1. Fails \in SUBSET Nat
    OBVIOUS
  <2> HIDE DEF Fails
  <2> QED
    BY <2>1, Least
<1>2. n \in Nat /\ ~ \E g : g = [s \in Upto(D, n) |-> SumOf(q, g, s)]
  BY <1>1
<1>3. CASE n = 0
  <2>1. \A s \in Upto(D, n) : s = {}
    BY <1>2, <1>3, Smaller
  <2> DEFINE g == [s \in Upto(D, n) |-> 0]
  <2>2. g = [s \in Upto(D, n) |-> SumOf(q, g, s)]
    BY <2>1 DEF SumOf
  <2> QED
    BY <1>2, <2>2
<1>4. CASE n # 0
  <2>1. n - 1 \in Nat /\ n - 1 \notin Fails
    BY <1>1, <1>2, <1>4
  <2>2. PICK f : f = [s \in Upto(D, n - 1) |-> SumOf(q, f, s)]
    BY <2>1
  <2> DEFINE g == [s \in Upto(D, n) |-> SumOf(q, f, s)]
  <2>3. ASSUME NEW s \in Upto(D, n)
        PROVE  SumOf(q, f, s) = SumOf(q, g, s)
    <3>1. CASE s = {}
      BY <3>1 DEF SumOf
    <3>2. CASE s # {}
      <4> DEFINE t == s \ {Picked(s)}
      <4>1. t \in Upto(D, n - 1)
        BY <1>2, <3>2, Smaller
      <4>2. t \in Upto(D, n)
        <5>1. t \in SUBSET D /\ Cardinality(t) <= n - 1
          BY <4>1 DEF Upto
        <5>2. Cardinality(t) \in Nat
          BY <5>1, FS_Subset, FS_CardinalityType
        <5> HIDE DEF t
        <5>3. Cardinality(t) <= n
          BY <1>2, <5>1, <5>2
        <5> QED
          BY <5>1, <5>3 DEF Upto
      <4> HIDE DEF t
      <4>3. f[t] = SumOf(q, f, t)
        BY <2>2, <4>1, Zenon
      <4>4. g[t] = SumOf(q, f, t)
        BY <4>2
      <4>5. f[t] = g[t]
        BY <4>3, <4>4
      <4> HIDE DEF g
      <4> QED
        BY <3>2, <4>5 DEF SumOf, t
    <3> QED
      BY <3>1, <3>2
  <2>4. g = [s \in Upto(D, n) |-> SumOf(q, g, s)]
    BY <2>3, Zenon
  <2> HIDE DEF g
  <2> QED
    BY <1>2, <2>4
<1> QED
  BY <1>3, <1>4

(* Whichever function fits it, its value at all indices is a number.       *)
LEMMA SumType ==
  ASSUME NEW q, NEW D, D = DOMAIN q, IsFiniteSet(D), \A i \in D : q[i] \in Nat,
         NEW g, g = [s \in SUBSET D |-> SumOf(q, g, s)]
  PROVE  g[D] \in Nat
<1> DEFINE Fails == {n \in Nat : \E s \in Upto(D, n) : g[s] \notin Nat}
<1>1. Fails = {}
  <2> SUFFICES ASSUME Fails # {} PROVE FALSE
    OBVIOUS
  <2>1. PICK n \in Fails : \A m \in Fails : n <= m
    <3>1. Fails \in SUBSET Nat
      OBVIOUS
    <3> HIDE DEF Fails
    <3> QED
      BY <3>1, Least
  <2>2. PICK s \in Upto(D, n) : g[s] \notin Nat
    BY <2>1
  <2>3. n \in Nat
    BY <2>1
  <2>4. g[s] = SumOf(q, g, s)
    <3>1. s \in SUBSET D
      BY DEF Upto
    <3> QED
      BY <3>1, Zenon
  <2>5. s # {}
    BY <2>2, <2>4 DEF SumOf
  <2>6. /\ n # 0 /\ Picked(s) \in D
        /\ s \ {Picked(s)} \in Upto(D, n - 1)
    BY <2>3, <2>5, Smaller
  <2>7. n - 1 \in Nat /\ n - 1 \notin Fails
    <3>1. n - 1 \in Nat /\ ~ n <= n - 1
      BY <2>3, <2>6
    <3> HIDE DEF Fails
    <3> QED
      BY <2>1, <3>1
  <2>8. g[s \ {Picked(s)}] \in Nat
    BY <2>6, <2>7
  <2>9. q[Picked(s)] \in Nat
    BY <2>6
  <2> QED
    BY <2>2, <2>4, <2>5, <2>8, <2>9 DEF SumOf
<1>2. Cardinality(D) \in Nat
  BY FS_CardinalityType
<1>3. D \in Upto(D, Cardinality(D))
  BY <1>2 DEF Upto
<1> QED
  BY <1>1, <1>2, <1>3

(* The sum of a sequence of natural numbers is a natural number.           *)
LEMMA TotalType ==
  ASSUME NEW q \in Seq(Nat)
  PROVE  Total(q) \in Nat
<1> DEFINE D == DOMAIN q
           isSum(g) == g = [s \in SUBSET DOMAIN q |-> SumOf(q, g, s)]
<1>1. IsFiniteSet(D) /\ \A i \in D : q[i] \in Nat
  <2>1. DOMAIN q = 1 .. Len(q) /\ Len(q) \in Nat
    OBVIOUS
  <2>2. IsFiniteSet(1 .. Len(q))
    BY <2>1, FS_Interval
  <2> QED
    BY <2>1, <2>2
<1>2. \A s \in SUBSET D : s \in Upto(D, Cardinality(D))
  <2>1. ASSUME NEW s \in SUBSET D PROVE Cardinality(s) <= Cardinality(D)
    BY <1>1, FS_Subset
  <2> QED
    BY <2>1 DEF Upto
<1>3. Upto(D, Cardinality(D)) = SUBSET D
  BY <1>2 DEF Upto
<1>4. Cardinality(D) \in Nat
  BY <1>1, FS_CardinalityType
<1>5. \E g : g = [s \in Upto(D, Cardinality(D)) |-> SumOf(q, g, s)]
  BY <1>1, <1>4, SumExists
<1>6. \E g : isSum(g)
  BY <1>3, <1>5, Zenon
<1>7. isSum(CHOOSE g : isSum(g))
  <2> HIDE DEF isSum
  <2> QED
    BY <1>6
<1>8. (CHOOSE g : isSum(g))[D] \in Nat
  BY <1>1, <1>7, SumType
<1> QED
  BY <1>8, TotalMeaning

(* The rounded mean of a window that is not empty is a natural number.     *)
LEMMA MeanType ==
  ASSUME NEW q \in Seq(Nat), Len(q) # 0
  PROVE  Mean(q) \in Nat
<1>1. Total(q) \in Nat /\ Len(q) \in Nat \ {0}
  BY TotalType
<1>2. ASSUME NEW s \in Nat, NEW n \in Nat \ {0}
      PROVE  RoundDiv(s, n) \in Nat
  <2>1. s \div n \in Nat
    BY <1>2
  <2> QED
    BY <2>1 DEF RoundDiv
<1>3. RoundDiv(Total(q), Len(q)) \in Nat
  BY <1>1, <1>2
<1> QED
  BY <1>3 DEF Mean, Total

(* A prediction is a natural number.                                       *)
LEMMA PredictType ==
  ASSUME TypeOK, NEW p \in Nat
  PROVE  Predict(p) \in Nat
<1>1. BucketIdx(p) \in DOMAIN Buckets
  BY BucketType
<1>2. bucketData[BucketIdx(p)] \in Seq(Nat) /\ globalData \in Seq(Nat)
  BY <1>1 DEF TypeOK
<1>3. Len(bucketData[BucketIdx(p)]) >= MinSamples => Mean(bucketData[BucketIdx(p)]) \in Nat
  BY <1>2, MeanType, PredictorAssumption
<1>4. globalData # <<>> => Mean(globalData) \in Nat
  BY <1>2, MeanType
<1>5. \A n \in Nat : AtLeastOne(n) \in Nat
  BY DEF AtLeastOne
<1> QED
  BY <1>3, <1>4, <1>5, PredictorAssumption DEF Predict

(* The comparison follows the loads in every reachable state: whatever     *)
(* the predictor has learned, a request sent to the decode worker would be *)
(* sent there under a higher system_load and under a smaller decode batch  *)
(* as well (route).                                                        *)
THEOREM LoadOrder == Spec => []LoadMonotone
<1>1. TypeOK => LoadMonotone
  <2> SUFFICES ASSUME TypeOK, NEW p \in PromptLens,
                      NEW load \in 0 .. MaxLoad, NEW dbs \in 0 .. MaxLoad,
                      Decision(p, Predict(p), load, dbs + 1) = "disaggregated"
               PROVE  /\ Decision(p, Predict(p), load, dbs) = "disaggregated"
                      /\ Decision(p, Predict(p), load + 1, dbs) = "disaggregated"
    BY DEF LoadMonotone
  <2>1. p \in Nat /\ load \in Nat /\ dbs \in Nat
    BY InputsAssumption
  <2>2. Predict(p) \in Nat
    BY <2>1, PredictType
  <2>3. /\ load + 1 \in Nat /\ dbs + 1 \in Nat
        /\ load <= load /\ load <= load + 1 /\ dbs <= dbs + 1
    BY <2>1
  <2>4. Decision(p, Predict(p), load, dbs) = "disaggregated"
    BY <2>1, <2>2, <2>3, FollowsLoads
  <2>5. Decision(p, Predict(p), load + 1, dbs) = "disaggregated"
    BY <2>1, <2>2, <2>3, FollowsLoads
  <2> QED
    BY <2>4, <2>5
<1> QED
  BY <1>1, TypeCorrect, PTL
=============================================================================
