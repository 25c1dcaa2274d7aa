-------------------------------- MODULE Router --------------------------------
(***************************************************************************)
(* The router: an output-length predictor that learns from finished        *)
(* requests, and the cost comparison that turns a prediction and the loads *)
(* into a path.  Milliseconds are multiples of a common unit divided by    *)
(* BatchThresh, so that both sides of the comparison are whole numbers.    *)
(***************************************************************************)
EXTENDS Integers, Sequences, FiniteSets, SequencesExt

CONSTANTS
  Buckets,      \* upper edges of the prompt-length buckets, ascending
  Window,       \* recent outputs kept per bucket
  Default,      \* prediction without any data
  MinSamples,   \* outputs a bucket needs to be trusted
  Transfer,     \* transfer time per prompt token
  Alpha,        \* prefill time per prompt token
  Beta,         \* time of a decode step in the memory-bound regime
  BatchThresh,  \* batch size at which decode steps grow longer
  Gamma,        \* interference of a prompt token with a decode step
  PromptLens,   \* prompt lengths of the requests
  OutputLens,   \* their output lengths
  MaxLoad,      \* bound on system_load and decode_batch_size
  MaxUpdates    \* bound on the number of updates

ASSUME BucketsAssumption ==
  /\ Buckets \in Seq(Nat) /\ Len(Buckets) > 0
  /\ \A i, j \in DOMAIN Buckets : i < j => Buckets[i] < Buckets[j]
ASSUME PredictorAssumption ==
  Window \in Nat \ {0} /\ Default \in Nat /\ MinSamples \in Nat \ {0}
ASSUME CostsAssumption ==
  /\ Transfer \in Nat /\ Alpha \in Nat /\ Beta \in Nat /\ Gamma \in Nat
  /\ BatchThresh \in Nat \ {0}
ASSUME InputsAssumption ==
  /\ PromptLens \subseteq Nat \ {0} /\ OutputLens \subseteq Nat
  /\ MaxLoad \in Nat /\ MaxUpdates \in Nat

VARIABLES
  bucketData,   \* OutputLengthPredictor._bucket_data
  globalData,   \* OutputLengthPredictor._global_data
  last,         \* the newest entry of Router._history
  past,         \* ghost: all outputs fed back, oldest first
  pastIn        \* ghost: pastIn[b]: those of prompts between the edges of bucket b

vars == <<bucketData, globalData, last, past, pastIn>>

BucketIdx_Right(p) ==
  LET below == Cardinality({i \in DOMAIN Buckets : Buckets[i] <= p})
  IN IF below < Len(Buckets) THEN below + 1 ELSE Len(Buckets)

(* bisect_left, and the last bucket for what is longer than all edges.     *)
BucketIdx(p) ==
  LET below == Cardinality({i \in DOMAIN Buckets : Buckets[i] < p})
  IN IF below < Len(Buckets) THEN below + 1 ELSE Len(Buckets)

(* append to a deque of bounded length.                                    *)
Push_Unbounded(q, x, max) == Append(q, x)
Push(q, x, max) == IF Len(q) < max THEN Append(q, x) ELSE Append(Tail(q), x)

(* round(sum / n): to the nearest number, halves to the even one.          *)
RoundDiv(s, n) ==
  LET q == s \div n
      twice == 2 * (s % n)
  IN IF twice < n \/ (twice = n /\ q % 2 = 0) THEN q ELSE q + 1

AtLeastOne(n) == IF n < 1 THEN 1 ELSE n
Mean(q) == RoundDiv(FoldSeq(LAMBDA x, s : x + s, 0, q), Len(q))

Predict(p) ==
  IF Len(bucketData[BucketIdx(p)]) >= MinSamples
  THEN AtLeastOne(Mean(bucketData[BucketIdx(p)]))
  ELSE IF globalData # <<>> THEN AtLeastOne(Mean(globalData)) ELSE Default
-----------------------------------------------------------------------------
(* Cost terms, times BatchThresh.                                          *)

DecodeStep_Inverted(b) ==
  IF b <= BatchThresh THEN Beta * BatchThresh ELSE (Beta * BatchThresh) \div b
DecodeStep(b) == IF b <= BatchThresh THEN Beta * BatchThresh ELSE Beta * b

Interference(p, load) == Gamma * p * (IF load < BatchThresh THEN load ELSE BatchThresh)

PrefillTime(p) == Alpha * p * BatchThresh
TransferTime(p) == Transfer * p * BatchThresh

Collocated(p, n, load) ==
  PrefillTime(p) + DecodeStep(IF load < 1 THEN 1 ELSE load) * n + Interference(p, load)

Disaggregated(p, n, dbs) == PrefillTime(p) + TransferTime(p) + DecodeStep(dbs + 1) * n

(* AnalyticalCostModel.route: the disaggregated path must be cheaper.      *)
Decision(p, n, load, dbs) ==
  IF Disaggregated(p, n, dbs) < Collocated(p, n, load)
  THEN "disaggregated" ELSE "collocated"
-----------------------------------------------------------------------------
Init ==
  /\ bucketData = [b \in DOMAIN Buckets |-> <<>>]
  /\ globalData = <<>>
  /\ last = <<>>
  /\ past = <<>>
  /\ pastIn = [b \in DOMAIN Buckets |-> <<>>]

Route(p, load, dbs) ==
  /\ LET n == Predict(p) IN last' = <<p, n, Decision(p, n, load, dbs)>>
  /\ UNCHANGED <<bucketData, globalData, past, pastIn>>

(* The prompt lengths a bucket is for.                                     *)
InBucket(p, b) ==
  /\ b = 1 \/ Buckets[b - 1] < p
  /\ b = Len(Buckets) \/ p <= Buckets[b]

Update(p, n) ==
  /\ Len(past) < MaxUpdates
  /\ bucketData' = [bucketData EXCEPT ![BucketIdx(p)] = Push(@, n, Window)]
  /\ globalData' = Push(globalData, n, Window * Len(Buckets))
  /\ past' = Append(past, n)
  /\ pastIn' = [b \in DOMAIN Buckets |->
                  IF InBucket(p, b) THEN Append(pastIn[b], n) ELSE pastIn[b]]
  /\ UNCHANGED last

Next ==
  \E p \in PromptLens :
    \/ \E load, dbs \in 0 .. MaxLoad : Route(p, load, dbs)
    \/ \E n \in OutputLens : Update(p, n)

Spec == Init /\ [][Next]_vars
-----------------------------------------------------------------------------
(* Types of all variables.                                                 *)
TypeOK ==
  /\ bucketData \in [DOMAIN Buckets -> Seq(Nat)]
  /\ globalData \in Seq(Nat)
  /\ \A b \in DOMAIN Buckets : Len(bucketData[b]) <= Window
  /\ Len(globalData) <= Window * Len(Buckets)

(* The windows hold the newest outputs and nothing else: those of the      *)
(* prompts between the bucket's edges, and for the global window those of  *)
(* all prompts, however they were mixed (_bucket_idx, update).             *)
Newest(q, max) ==
  SubSeq(q, IF Len(q) > max THEN Len(q) - max + 1 ELSE 1, Len(q))
RecentOnly ==
  /\ globalData = Newest(past, Window * Len(Buckets))
  /\ \A b \in DOMAIN Buckets : bucketData[b] = Newest(pastIn[b], Window)

(* The comparison follows the loads: a request sent to the decode worker   *)
(* would be sent there under a system_load higher by one and with one      *)
(* request less in the decode batch as well (route).                       *)
LoadMonotone ==
  \A p \in PromptLens : LET n == Predict(p) IN
    \A load, dbs \in 0 .. MaxLoad :
      Decision(p, n, load, dbs + 1) = "disaggregated" =>
        /\ Decision(p, n, load, dbs) = "disaggregated"
        /\ Decision(p, n, load + 1, dbs) = "disaggregated"
=============================================================================
