------------------------- MODULE ResultPipelineProofs -------------------------
(***************************************************************************)
(* Proofs about ResultPipeline, for any finite set of tests, any sizes of  *)
(* the channels and of the batches, and any number of results and rounds.  *)
(*                                                                         *)
(* The number of a test's requests in a channel or a batch is a sum over a *)
(* sequence (Weigh of Sums); the first lemmas say what Append, Tail and    *)
(* Head do to it, and that a round of metrics has exactly the requests of  *)
(* the buffers it takes over, in whatever order the map is walked.  Then   *)
(* each step moves requests from one place to another one: Conserved is    *)
(* inductive together with Sound, by which metrics are under way only      *)
(* while m.mu is held, and it gives the bounds of TypeOK: no place holds   *)
(* more requests of a test than were made.                                 *)
(***************************************************************************)
EXTENDS ResultPipeline, Sums

ResultWeight(t) == [r \in Result |-> IF r.test = t THEN 1 ELSE 0]

MetricWeight(t) ==
  [m \in Metric |-> IF m.name = "requests_total" /\ m.test = t
                    THEN m.requests ELSE 0]

LEMMA ResultsWeigh ==
  ASSUME NEW t, NEW results \in Seq(Result)
  PROVE  /\ ResultWeight(t) \in [Result -> Nat]
         /\ ResultsOf(t, results) = Weigh(ResultWeight(t), results)
<1>1. \A i \in DOMAIN results : results[i] \in Result
  BY LenProperties, ElementOfSeq
<1>2. [i \in DOMAIN results |-> IF results[i].test = t THEN 1 ELSE 0]
        = [i \in DOMAIN results |-> ResultWeight(t)[results[i]]]
  BY <1>1 DEF ResultWeight
<1>3. ResultWeight(t) \in [Result -> Nat]
  BY DEF ResultWeight
<1> QED BY <1>2, <1>3, Zenon DEF ResultsOf, Weigh

LEMMA MetricsWeigh ==
  ASSUME NEW t, NEW metrics \in Seq(Metric)
  PROVE  /\ MetricWeight(t) \in [Metric -> Nat]
         /\ RequestsIn(t, metrics) = Weigh(MetricWeight(t), metrics)
<1>1. \A i \in DOMAIN metrics : metrics[i] \in Metric
  BY LenProperties, ElementOfSeq
<1>2. [i \in DOMAIN metrics |->
         IF metrics[i].name = "requests_total" /\ metrics[i].test = t
         THEN metrics[i].requests ELSE 0]
        = [i \in DOMAIN metrics |-> MetricWeight(t)[metrics[i]]]
  BY <1>1 DEF MetricWeight
<1>3. MetricWeight(t) \in [Metric -> Nat]
  BY BoundsAssumption DEF MetricWeight, Metric
<1> QED BY <1>2, <1>3, Zenon DEF RequestsIn, Weigh

(* What the steps that move results and metrics do to the counts.          *)
LEMMA ResultsOne ==
  ASSUME NEW t, NEW r \in Result
  PROVE  ResultsOf(t, <<r>>) = IF r.test = t THEN 1 ELSE 0
<1>1. <<>> \in Seq(Result) /\ <<r>> \in Seq(Result) /\ <<r>> = Append(<<>>, r)
  OBVIOUS
<1>2. Weigh(ResultWeight(t), <<r>>)
        = Weigh(ResultWeight(t), <<>>) + ResultWeight(t)[r]
  BY <1>1, ResultsWeigh, WeighAppend
<1>3. ResultsOf(t, <<r>>) = Weigh(ResultWeight(t), <<r>>)
  BY <1>1, ResultsWeigh
<1>4. Weigh(ResultWeight(t), <<>>) = 0
  BY WeighEmpty
<1>5. ResultWeight(t)[r] = IF r.test = t THEN 1 ELSE 0
  BY DEF ResultWeight
<1> QED BY <1>2, <1>3, <1>4, <1>5

LEMMA ResultsEmpty ==
  ASSUME NEW t
  PROVE  ResultsOf(t, <<>>) = 0
<1>1. <<>> \in Seq(Result)
  OBVIOUS
<1> QED BY <1>1, ResultsWeigh, WeighEmpty

LEMMA ResultsNat ==
  ASSUME NEW t, NEW results \in Seq(Result)
  PROVE  ResultsOf(t, results) \in Nat
BY ResultsWeigh, WeighNat

LEMMA ResultsAppend ==
  ASSUME NEW t, NEW results \in Seq(Result), NEW r \in Result
  PROVE  ResultsOf(t, Append(results, r)) =
           ResultsOf(t, results) + ResultsOf(t, <<r>>)
<1>1. Append(results, r) \in Seq(Result)
  OBVIOUS
<1>2. Weigh(ResultWeight(t), Append(results, r))
        = Weigh(ResultWeight(t), results) + ResultWeight(t)[r]
  BY ResultsWeigh, WeighAppend
<1>3. ResultWeight(t)[r] = ResultsOf(t, <<r>>)
  BY ResultsOne DEF ResultWeight
<1> QED BY <1>1, <1>2, <1>3, ResultsWeigh

LEMMA ResultsTail ==
  ASSUME NEW t, NEW results \in Seq(Result), results # <<>>
  PROVE  ResultsOf(t, results) =
           ResultsOf(t, <<Head(results)>>) + ResultsOf(t, Tail(results))
<1>1. Head(results) \in Result /\ Tail(results) \in Seq(Result)
  BY HeadTailProperties
<1>2. Weigh(ResultWeight(t), results)
        = ResultWeight(t)[Head(results)]
            + Weigh(ResultWeight(t), Tail(results))
  BY ResultsWeigh, WeighTail
<1>3. ResultWeight(t)[Head(results)] = ResultsOf(t, <<Head(results)>>)
  BY <1>1, ResultsOne DEF ResultWeight
<1> QED BY <1>1, <1>2, <1>3, ResultsWeigh

LEMMA RequestsOne ==
  ASSUME NEW t, NEW m \in Metric
  PROVE  RequestsIn(t, <<m>>) = MetricWeight(t)[m]
<1>1. <<>> \in Seq(Metric) /\ <<m>> \in Seq(Metric) /\ <<m>> = Append(<<>>, m)
  OBVIOUS
<1>2. Weigh(MetricWeight(t), <<m>>)
        = Weigh(MetricWeight(t), <<>>) + MetricWeight(t)[m]
  BY <1>1, MetricsWeigh, WeighAppend
<1>3. MetricWeight(t)[m] \in Nat
  BY <1>1, MetricsWeigh
<1>4. RequestsIn(t, <<m>>) = Weigh(MetricWeight(t), <<m>>)
  BY <1>1, MetricsWeigh
<1>5. Weigh(MetricWeight(t), <<>>) = 0
  BY WeighEmpty
<1> QED BY <1>2, <1>3, <1>4, <1>5

LEMMA RequestsEmpty ==
  ASSUME NEW t
  PROVE  RequestsIn(t, <<>>) = 0
<1>1. <<>> \in Seq(Metric)
  OBVIOUS
<1> QED BY <1>1, MetricsWeigh, WeighEmpty

LEMMA RequestsNat ==
  ASSUME NEW t, NEW metrics \in Seq(Metric)
  PROVE  RequestsIn(t, metrics) \in Nat
BY MetricsWeigh, WeighNat

LEMMA RequestsAppend ==
  ASSUME NEW t, NEW metrics \in Seq(Metric), NEW m \in Metric
  PROVE  RequestsIn(t, Append(metrics, m)) =
           RequestsIn(t, metrics) + RequestsIn(t, <<m>>)
<1>1. Append(metrics, m) \in Seq(Metric)
  OBVIOUS
<1>2. Weigh(MetricWeight(t), Append(metrics, m))
        = Weigh(MetricWeight(t), metrics) + MetricWeight(t)[m]
  BY MetricsWeigh, WeighAppend
<1> QED BY <1>1, <1>2, RequestsOne, MetricsWeigh

LEMMA RequestsTail ==
  ASSUME NEW t, NEW metrics \in Seq(Metric), metrics # <<>>
  PROVE  RequestsIn(t, metrics) =
           RequestsIn(t, <<Head(metrics)>>) + RequestsIn(t, Tail(metrics))
<1>1. Head(metrics) \in Metric /\ Tail(metrics) \in Seq(Metric)
  BY HeadTailProperties
<1>2. Weigh(MetricWeight(t), metrics)
        = MetricWeight(t)[Head(metrics)]
            + Weigh(MetricWeight(t), Tail(metrics))
  BY MetricsWeigh, WeighTail
<1> QED BY <1>1, <1>2, RequestsOne, MetricsWeigh
-----------------------------------------------------------------------------
ErrorsFit(metrics) ==
  \A i \in DOMAIN metrics : metrics[i].errors <= metrics[i].requests

(* What the invariants of the runs rest on: how much was made at most,     *)
(* that metrics are under way only while m.mu is held, and that errors are *)
(* counted among requests from the buffers on.                             *)
Sound ==
  /\ SumFunction(made) <= MaxResults
  /\ round # <<>> => locked
  /\ \A t \in DOMAIN buffers : buffers[t].errors <= buffers[t].requests
  /\ ErrorsFit(round) /\ ErrorsFit(metricsCh)

Inv == TypeOK /\ Conserved /\ Sound

(* The metrics of a round have the requests of the buffers, and no others. *)
LEMMA RoundsTakeOver ==
  ASSUME TypeOK, Sound, NEW metrics \in Rounds
  PROVE  /\ metrics \in Seq(Metric)
         /\ ErrorsFit(metrics)
         /\ \A t \in TestIDs :
              RequestsIn(t, metrics) =
                IF t \in DOMAIN buffers THEN buffers[t].requests ELSE 0
<1> DEFINE n == Cardinality(DOMAIN buffers)
           m == 3 * n
           place(i) == ((i - 1) \div 3) + 1
           kind(i) == ((i - 1) % 3) + 1
<1>1. PICK order \in Bijection(1..n, DOMAIN buffers) :
        metrics = [i \in 1..m |-> MetricOf(order[place(i)], kind(i))]
  BY DEF Rounds
<1>2. n \in Nat
  <2>1. IsFiniteSet(DOMAIN buffers)
    BY TestIDsAssumption, FS_Subset DEF TypeOK
  <2> QED BY <2>1, FS_CardinalityType
<1>3. /\ \A k \in 1..n : order[k] \in DOMAIN buffers
      /\ \A j, k \in 1..n : order[j] = order[k] => j = k
      /\ \A t \in DOMAIN buffers : \E k \in 1..n : order[k] = t
  BY DEF Bijection, Injection, Surjection, IsInjective
<1> HIDE DEF n
<1>4. \A i \in 1..m : place(i) \in 1..n /\ kind(i) \in 1..3
  BY <1>2
<1>5. ASSUME NEW i \in 1..m
      PROVE  /\ metrics[i] = MetricOf(order[place(i)], kind(i))
             /\ order[place(i)] \in DOMAIN buffers
             /\ metrics[i] \in Metric
             /\ metrics[i].errors <= metrics[i].requests
  <2> DEFINE t == order[place(i)]
             j == kind(i)
  <2>1. metrics[i] = MetricOf(t, j)
    BY <1>1
  <2>2. t \in DOMAIN buffers /\ j \in 1..3
    BY <1>3, <1>4
  <2> HIDE DEF t, j, m
  <2>3. /\ buffers[t] \in [requests : 1..MaxResults, errors : 0..MaxResults]
        /\ buffers[t].errors <= buffers[t].requests
        /\ t \in TestIDs
    BY <2>2 DEF TypeOK, Sound
  <2>4. <<"requests_total", "errors_total", "error_rate">>[j]
          \in {"requests_total", "errors_total", "error_rate"}
    BY <2>2
  <2>5. MetricOf(t, j) \in Metric
    BY <2>3, <2>4, BoundsAssumption DEF MetricOf, Metric
  <2>6. MetricOf(t, j).errors <= MetricOf(t, j).requests
    BY <2>3 DEF MetricOf
  <2> QED BY <2>1, <2>2, <2>5, <2>6 DEF t, j
<1>6. metrics \in Seq(Metric)
  <2>1. m \in Nat /\ DOMAIN metrics = 1..m
    BY <1>1, <1>2
  <2>2. metrics = [i \in 1..m |-> metrics[i]]
    BY <1>1
  <2>3. metrics \in [1..m -> Metric]
    BY <1>5, <2>2
  <2> QED BY <2>1, <2>3
<1>7. ErrorsFit(metrics)
  BY <1>1, <1>5 DEF ErrorsFit
<1>8. ASSUME NEW t \in TestIDs
      PROVE  RequestsIn(t, metrics) =
               IF t \in DOMAIN buffers THEN buffers[t].requests ELSE 0
  <2> DEFINE f == [i \in DOMAIN metrics |->
                     IF metrics[i].name = "requests_total" /\ metrics[i].test = t
                     THEN metrics[i].requests ELSE 0]
  <2>1. RequestsIn(t, metrics) = SumFunctionOnSet(f, 1..m)
    BY <1>1 DEF RequestsIn, SumFunction
  <2>2. IsFiniteSet(1..m)
    BY <1>2, FS_Interval
  <2>3. \A i \in 1..m :
          f[i] = IF kind(i) = 1 /\ order[place(i)] = t
                 THEN buffers[t].requests ELSE 0
    <3> TAKE i \in 1..m
    <3>1. metrics[i] = MetricOf(order[place(i)], kind(i)) /\ i \in DOMAIN metrics
      BY <1>1, <1>5
    <3>2. kind(i) \in 1..3
      BY <1>4
    <3> DEFINE p == order[place(i)]
               j == kind(i)
    <3>3. MetricOf(p, j).name = "requests_total" <=> j = 1
      <4> HIDE DEF p, j
      <4> QED BY <3>2 DEF MetricOf, j
    <3> QED BY <3>1, <3>3 DEF MetricOf
  <2>4. \A i \in 1..m : f[i] \in Int
    <3>1. \A i \in 1..m : metrics[i].requests \in Int /\ i \in DOMAIN metrics
      BY <1>1, <1>5, BoundsAssumption DEF Metric
    <3> QED BY <3>1
  <2>5. CASE t \notin DOMAIN buffers
    <3>1. \A i \in 1..m : f[i] = 0
      BY <1>5, <2>3, <2>5
    <3>2. SumFunctionOnSet(f, 1..m) = SumFunctionOnSet(f, {})
      <4> HIDE DEF f, m
      <4> QED BY <2>2, <2>4, <3>1, SumZeros
    <3> QED BY <2>1, <2>5, <3>2, SumEmpty
  <2>6. CASE t \in DOMAIN buffers
    <3>1. PICK k \in 1..n : order[k] = t
      BY <1>3, <2>6
    <3> DEFINE z == 3 * k - 2
    <3>2. z \in 1..m /\ place(z) = k /\ kind(z) = 1
      BY <1>2
    <3>3. \A i \in 1..m : i # z => ~ (kind(i) = 1 /\ place(i) = k)
      BY <1>2
    <3>4. \A i \in (1..m) \ {z} : f[i] = 0
      <4> TAKE i \in (1..m) \ {z}
      <4>1. ~ (kind(i) = 1 /\ place(i) = k)
        BY <3>3
      <4>2. place(i) = k \/ order[place(i)] # t
        BY <1>3, <1>4, <3>1
      <4> QED BY <2>3, <4>1, <4>2
    <3>5. f[z] = buffers[t].requests /\ f[z] \in Int
      BY <2>3, <2>4, <3>1, <3>2
    <3>6. SumFunctionOnSet(f, 1..m) = f[z] + SumFunctionOnSet(f, {})
      <4> DEFINE D == 1..m
      <4>0. IsFiniteSet(D) /\ z \in D
        BY <2>2, <3>2
      <4>1. \A i \in D : f[i] \in Int
        BY <2>4
      <4>2. \A i \in D \ {z} : f[i] = 0
        BY <3>4
      <4> HIDE DEF f, m, z, D
      <4>3. SumFunctionOnSet(f, D) = f[z] + SumFunctionOnSet(f, D \ {z})
        BY <4>0, <4>1, SumRemove
      <4>4. IsFiniteSet(D \ {z})
        BY <4>0, FS_Subset
      <4>5. SumFunctionOnSet(f, D \ {z}) = SumFunctionOnSet(f, {})
        BY <4>1, <4>2, <4>4, SumZeros
      <4> QED BY <4>3, <4>5 DEF D
    <3> HIDE DEF f, z
    <3> QED BY <2>1, <2>6, <3>5, <3>6, SumEmpty
  <2> QED BY <2>5, <2>6
<1> QED BY <1>6, <1>7, <1>8

(* One test of Conserved.                                                  *)
Balanced(t) ==
  made[t] = InChannels(t) + InCollector(t) + InBatches(t)
              + dropped[t] + reported[t]

(* The requests of test t in each place, as numbers.                       *)
PartsAreNat(t) ==
  /\ ResultsOf(t, resultsCh) \in Nat
  /\ ResultsOf(t, received) \in Nat
  /\ RequestsIn(t, metricsCh) \in Nat
  /\ RequestsIn(t, round) \in Nat
  /\ InCollector(t) \in Nat
  /\ ResultsOf(t, resultBatch) \in Nat
  /\ RequestsIn(t, metricBatch) \in Nat
  /\ made[t] \in 0..MaxResults
  /\ dropped[t] \in 0..MaxResults
  /\ reported[t] \in 0..MaxResults

LEMMA PartsNat ==
  ASSUME TypeOK, NEW t \in TestIDs
  PROVE  PartsAreNat(t)
<1>1. /\ ResultsOf(t, resultsCh) \in Nat
      /\ ResultsOf(t, received) \in Nat
      /\ ResultsOf(t, resultBatch) \in Nat
  BY ResultsNat DEF TypeOK
<1>2. /\ RequestsIn(t, metricsCh) \in Nat
      /\ RequestsIn(t, round) \in Nat
      /\ RequestsIn(t, metricBatch) \in Nat
  BY RequestsNat DEF TypeOK
<1>3. InCollector(t) \in Nat
  BY <1>2, BoundsAssumption DEF TypeOK, InCollector
<1>4. /\ made[t] \in 0..MaxResults
      /\ dropped[t] \in 0..MaxResults
      /\ reported[t] \in 0..MaxResults
  BY DEF TypeOK
<1> QED BY <1>1, <1>2, <1>3, <1>4 DEF PartsAreNat

LEMMA InitInv == Init => Inv
<1> SUFFICES ASSUME Init PROVE Inv
  OBVIOUS
<1>1. /\ made = [t \in TestIDs |-> 0] /\ reported = made /\ dropped = made
      /\ DOMAIN buffers = {}
  BY DEF Init
<1>2. SumFunction(made) = 0
  <2>1. \A t \in TestIDs \ {} : made[t] = 0
    BY <1>1
  <2>2. SumFunctionOnSet(made, TestIDs) = SumFunctionOnSet(made, {})
    BY <1>1, <2>1, TestIDsAssumption, SumZeros
  <2> QED BY <1>1, <2>2, SumEmpty DEF SumFunction
<1>3. TypeOK
  <2>1. /\ <<>> \in Seq(Result) /\ <<>> \in Seq(Metric)
        /\ Len(<<>>) = 0
    OBVIOUS
  <2>2. made \in [TestIDs -> 0..MaxResults]
    BY <1>1, BoundsAssumption
  <2>3. running = Goroutine /\ up = TRUE /\ panicked = FALSE /\ rounds = 0
    BY DEF Init
  <2>4. /\ resultsCh = <<>> /\ received = <<>> /\ round = <<>>
        /\ metricsCh = <<>> /\ metricBatch = <<>> /\ resultBatch = <<>>
        /\ locked = FALSE
    BY DEF Init
  <2>5. /\ 0 <= ResultsSize /\ 0 <= MetricsSize /\ 0 < BatchSize
        /\ 0 \in 0..MaxRounds
    BY SizesAssumption, BatchSizeAssumption, BoundsAssumption
  <2>6. /\ resultsCh \in Seq(Result) /\ Len(resultsCh) <= ResultsSize
        /\ received \in Seq(Result) /\ Len(received) <= 1
        /\ round \in Seq(Metric)
        /\ metricsCh \in Seq(Metric) /\ Len(metricsCh) <= MetricsSize
        /\ metricBatch \in Seq(Metric) /\ Len(metricBatch) < BatchSize
        /\ resultBatch \in Seq(Result) /\ Len(resultBatch) < BatchSize
    BY <2>1, <2>4, <2>5
  <2>7. {reported, dropped, made} \subseteq [TestIDs -> 0..MaxResults]
    BY <1>1, <2>2
  <2> QED BY <1>1, <2>3, <2>4, <2>5, <2>6, <2>7 DEF TypeOK
<1>4. Sound
  BY <1>1, <1>2, BoundsAssumption DEF Init, Sound, ErrorsFit
<1>5. Conserved
  BY <1>1, ResultsEmpty, RequestsEmpty
     DEF Init, Conserved, InChannels, InCollector, InBatches
<1> QED BY <1>3, <1>4, <1>5 DEF Inv

LEMMA SendResultInv ==
  ASSUME Inv, ~ panicked, NEW r \in Result, SendResult(r)
  PROVE  Inv'
<1> USE DEF Inv
<1>1. /\ SumFunction(made) < MaxResults
      /\ Len(resultsCh) < ResultsSize
      /\ resultsCh' = Append(resultsCh, r)
      /\ made' = [made EXCEPT ![r.test] = @ + 1]
      /\ UNCHANGED <<received, buffers, round, locked, dropped, metricsCh,
                     metricBatch, resultBatch, reported, running, up, panicked,
                     rounds>>
  BY DEF SendResult, collector, batches, lives
<1>2. r.test \in TestIDs
  BY DEF Result
<1>3. \A t \in TestIDs : made'[t] = made[t] + ResultsOf(t, <<r>>)
  BY <1>1, ResultsOne DEF TypeOK
<1>4. \A t \in TestIDs : made[t] \in Nat /\ made'[t] \in Nat
  BY <1>1, BoundsAssumption DEF TypeOK
<1>5. DOMAIN made = TestIDs /\ DOMAIN made' = TestIDs
  BY <1>1 DEF TypeOK
<1>6. SumFunction(made') = SumFunction(made) + 1
  <2>1. \A t \in TestIDs \ {r.test} : made[t] = made'[t]
    BY <1>1 DEF TypeOK
  <2>2. made'[r.test] = made[r.test] + 1
    BY <1>1, <1>2, <1>5
  <2>3. \A t \in TestIDs : made[t] \in Int /\ made'[t] \in Int
    BY <1>4
  <2>4. SumFunctionOnSet(made', TestIDs) =
          SumFunctionOnSet(made, TestIDs) + (made'[r.test] - made[r.test])
    BY <1>2, <2>1, <2>3, TestIDsAssumption, SumChange
  <2>5. SumFunctionOnSet(made, TestIDs) \in Nat
    BY <1>4, TestIDsAssumption, SumNat
  <2> QED BY <1>2, <1>4, <1>5, <2>2, <2>4, <2>5 DEF SumFunction
<1>7. SumFunction(made') <= MaxResults
  <2>1. SumFunctionOnSet(made, TestIDs) \in Nat
    BY <1>4, TestIDsAssumption, SumNat
  <2> QED BY <1>1, <1>5, <1>6, <2>1, BoundsAssumption DEF SumFunction
<1>8. made' \in [TestIDs -> 0..MaxResults]
  <2>1. \A t \in TestIDs : made'[t] <= SumFunctionOnSet(made', TestIDs)
    BY <1>4, TestIDsAssumption, SumBound
  <2>2. SumFunctionOnSet(made', TestIDs) \in Nat
    BY <1>4, TestIDsAssumption, SumNat
  <2>3. \A t \in TestIDs : made'[t] \in 0..MaxResults
    BY <1>4, <1>5, <1>7, <2>1, <2>2, BoundsAssumption DEF SumFunction
  <2> QED BY <1>1, <2>3 DEF TypeOK
<1>9. resultsCh' \in Seq(Result) /\ Len(resultsCh') <= ResultsSize
  BY <1>1, SizesAssumption DEF TypeOK
<1>10. TypeOK'
  BY <1>1, <1>8, <1>9 DEF TypeOK
<1>11. ASSUME NEW t \in TestIDs PROVE Balanced(t)'
  <2>1. ResultsOf(t, resultsCh') = ResultsOf(t, resultsCh) + ResultsOf(t, <<r>>)
    BY <1>1, ResultsAppend DEF TypeOK
  <2>2. Balanced(t)
    BY DEF Conserved, Balanced
  <2>3. InCollector(t)' = InCollector(t) /\ InBatches(t)' = InBatches(t)
    BY <1>1 DEF InCollector, InBatches
  <2>4. ResultsOf(t, <<r>>) \in Nat
    BY ResultsOne
  <2>5. PartsAreNat(t)
    BY PartsNat
  <2>6. made'[t] = made[t] + ResultsOf(t, <<r>>)
    BY <1>3
  <2>7. InChannels(t)' = InChannels(t) + ResultsOf(t, <<r>>)
    BY <1>1, <2>1, <2>4, <2>5 DEF InChannels, PartsAreNat
  <2>8. InChannels(t) \in Nat /\ InBatches(t) \in Nat
    BY <2>5 DEF InChannels, InBatches, PartsAreNat
  <2>9. dropped'[t] = dropped[t] /\ reported'[t] = reported[t]
    BY <1>1
  <2> QED BY <2>2, <2>3, <2>4, <2>5, <2>6, <2>7, <2>8, <2>9,
             BoundsAssumption DEF Balanced, PartsAreNat
<1>12. Sound'
  BY <1>1, <1>7 DEF Sound, ErrorsFit
<1> QED BY <1>10, <1>11, <1>12 DEF Conserved, Balanced

LEMMA ReceiveResultInv ==
  ASSUME Inv, ~ panicked, ReceiveResult
  PROVE  Inv'
<1> USE DEF Inv
<1>1. /\ received = <<>> /\ resultsCh # <<>>
      /\ received' = <<Head(resultsCh)>>
      /\ resultsCh' = Tail(resultsCh)
      /\ UNCHANGED <<buffers, round, locked, dropped, metricsCh, metricBatch,
                     resultBatch, reported, running, up, panicked, made,
                     rounds>>
  BY DEF ReceiveResult, collector, batches, lives
<1>2. /\ Head(resultsCh) \in Result /\ Tail(resultsCh) \in Seq(Result)
      /\ Len(Tail(resultsCh)) <= ResultsSize
  BY <1>1, HeadTailProperties, LenProperties, SizesAssumption DEF TypeOK
<1>3. TypeOK'
  BY <1>1, <1>2 DEF TypeOK
<1>4. ASSUME NEW t \in TestIDs PROVE Balanced(t)'
  <2>1. ResultsOf(t, resultsCh) = ResultsOf(t, received') + ResultsOf(t, resultsCh')
    BY <1>1, ResultsTail DEF TypeOK
  <2>2. ResultsOf(t, received) = 0
    BY <1>1, ResultsEmpty
  <2>3. Balanced(t)
    BY DEF Conserved, Balanced
  <2>4. InCollector(t)' = InCollector(t) /\ InBatches(t)' = InBatches(t)
    BY <1>1 DEF InCollector, InBatches
  <2>5. ResultsOf(t, received') \in Nat /\ ResultsOf(t, resultsCh') \in Nat
    BY <1>3, ResultsNat DEF TypeOK
  <2> QED BY <1>1, <2>1, <2>2, <2>3, <2>4, <2>5, PartsNat
          DEF Balanced, InChannels, InBatches, PartsAreNat
<1>5. Sound'
  BY <1>1 DEF Sound, ErrorsFit
<1> QED BY <1>3, <1>4, <1>5 DEF Conserved, Balanced

(* The lock is free, so what the collector holds is in the buffers, and    *)
(* the result joins it there.                                              *)
LEMMA ProcessResultInv ==
  ASSUME Inv, ~ panicked, ProcessResult
  PROVE  Inv'
<1> USE DEF Inv
<1> DEFINE r == Head(received)
<1>1. /\ received # <<>> /\ ~ locked
      /\ buffers' = Counted(r)
      /\ received' = <<>>
      /\ UNCHANGED <<resultsCh, round, locked, dropped, metricsCh, metricBatch,
                     resultBatch, reported, running, up, panicked, made,
                     rounds>>
  BY DEF ProcessResult, batches, lives
<1>2. r \in Result /\ received = <<r>> /\ r.test \in TestIDs
  <2>1. received \in Seq(Result) /\ Len(received) <= 1
    BY DEF TypeOK
  <2>2. r \in Result /\ received = <<r>>
    BY <1>1, <2>1, OneElement
  <2> QED BY <2>2 DEF Result
<1> HIDE DEF r
<1>3. /\ DOMAIN buffers' = DOMAIN buffers \cup {r.test}
      /\ \A t \in DOMAIN buffers : t # r.test => buffers'[t] = buffers[t]
  BY <1>1 DEF Counted
<1>4. /\ buffers'[r.test] \in [requests : Nat, errors : Nat]
      /\ buffers'[r.test].requests =
           1 + IF r.test \in DOMAIN buffers THEN buffers[r.test].requests ELSE 0
      /\ buffers'[r.test].errors <= buffers'[r.test].requests
  <2> DEFINE old == IF r.test \in DOMAIN buffers THEN buffers[r.test]
                    ELSE [requests |-> 0, errors |-> 0]
             new == [requests |-> old.requests + 1,
                     errors |-> old.errors + (IF r.failed THEN 1 ELSE 0)]
  <2>1. /\ old \in [requests : Nat, errors : Nat]
        /\ old.errors <= old.requests
    BY BoundsAssumption DEF TypeOK, Sound
  <2>2. buffers'[r.test] = new
    BY <1>1 DEF Counted
  <2>3. old.requests =
          IF r.test \in DOMAIN buffers THEN buffers[r.test].requests ELSE 0
    OBVIOUS
  <2> HIDE DEF old
  <2> QED BY <2>1, <2>2, <2>3
<1>5. ASSUME NEW t \in TestIDs
      PROVE  InCollector(t)' = InCollector(t) + ResultsOf(t, received)
  <2>1. ResultsOf(t, received) = IF r.test = t THEN 1 ELSE 0
    BY <1>2, ResultsOne
  <2>2. InCollector(t) = IF t \in DOMAIN buffers THEN buffers[t].requests ELSE 0
    BY <1>1 DEF InCollector
  <2>3. InCollector(t)' =
          IF t \in DOMAIN buffers' THEN buffers'[t].requests ELSE 0
    BY <1>1 DEF InCollector
  <2>4. InCollector(t) \in Nat
    BY PartsNat DEF PartsAreNat
  <2>5. CASE t = r.test
    BY <1>3, <1>4, <2>1, <2>2, <2>3, <2>4, <2>5
  <2>6. CASE t # r.test
    BY <1>3, <2>1, <2>2, <2>3, <2>4, <2>6
  <2> QED BY <2>5, <2>6
<1>6. ASSUME NEW t \in TestIDs PROVE Balanced(t)'
  <2>1. Balanced(t)
    BY DEF Conserved, Balanced
  <2>2. InBatches(t)' = InBatches(t)
    BY <1>1 DEF InBatches
  <2>3. ResultsOf(t, received') = 0
    BY <1>1, ResultsEmpty
  <2> QED BY <1>1, <1>5, <2>1, <2>2, <2>3, PartsNat
          DEF Balanced, InChannels, InBatches, PartsAreNat
<1>7. ASSUME NEW t \in DOMAIN buffers'
      PROVE  /\ t \in TestIDs
             /\ buffers'[t] \in [requests : 1..MaxResults,
                                 errors : 0..MaxResults]
             /\ buffers'[t].errors <= buffers'[t].requests
  <2>1. CASE t # r.test
    BY <1>3, <2>1 DEF TypeOK, Sound
  <2>2. CASE t = r.test
    <3>1. t \in TestIDs
      BY <1>2, <2>2
    <3>2. InCollector(t)' = buffers'[t].requests
      BY <1>1 DEF InCollector
    <3>3. InCollector(t) + ResultsOf(t, received) <= made[t]
      <4>1. Balanced(t)
        BY <3>1 DEF Conserved, Balanced
      <4> QED BY <3>1, <4>1, PartsNat, BoundsAssumption
              DEF Balanced, InChannels, InBatches, PartsAreNat
    <3>4. buffers'[t].requests <= MaxResults
      BY <1>5, <3>1, <3>2, <3>3, PartsNat, BoundsAssumption
       DEF PartsAreNat
    <3>5. buffers'[t].requests >= 1
      BY <1>4, <2>2, BoundsAssumption DEF TypeOK
    <3> QED BY <1>4, <2>2, <3>1, <3>4, <3>5, BoundsAssumption
  <2> QED BY <2>1, <2>2
<1>8. TypeOK'
  BY <1>1, <1>7 DEF TypeOK
<1>9. Sound'
  BY <1>1, <1>7 DEF Sound, ErrorsFit
<1> QED BY <1>6, <1>8, <1>9 DEF Conserved, Balanced

LEMMA StartRoundInv ==
  ASSUME Inv, ~ panicked, StartRound
  PROVE  Inv'
<1> USE DEF Inv
<1>1. /\ ~ locked /\ locked' = TRUE
      /\ rounds < MaxRounds /\ rounds' = rounds + 1
      /\ round' \in Rounds
      /\ UNCHANGED <<resultsCh, received, buffers, dropped, metricsCh,
                     metricBatch, resultBatch, reported, running, up, panicked,
                     made>>
  BY DEF StartRound, batches, lives
<1>2. /\ round' \in Seq(Metric) /\ ErrorsFit(round')
      /\ \A t \in TestIDs :
           RequestsIn(t, round') =
             IF t \in DOMAIN buffers THEN buffers[t].requests ELSE 0
  BY <1>1, RoundsTakeOver
<1>3. TypeOK'
  BY <1>1, <1>2, BoundsAssumption DEF TypeOK
<1>4. ASSUME NEW t \in TestIDs PROVE Balanced(t)'
  <2>1. Balanced(t)
    BY DEF Conserved, Balanced
  <2>2. InCollector(t)' = InCollector(t)
    BY <1>1, <1>2 DEF InCollector
  <2>3. InChannels(t)' = InChannels(t) /\ InBatches(t)' = InBatches(t)
    BY <1>1 DEF InChannels, InBatches
  <2> QED BY <1>1, <2>1, <2>2, <2>3 DEF Balanced
<1>5. Sound'
  BY <1>1, <1>2 DEF Sound, ErrorsFit
<1> QED BY <1>3, <1>4, <1>5 DEF Conserved, Balanced

(* Taking the head of a list of metrics, and adding a metric to one.       *)
LEMMA FitTail ==
  ASSUME NEW metrics \in Seq(Metric), metrics # <<>>, ErrorsFit(metrics)
  PROVE  /\ Head(metrics) \in Metric
         /\ Head(metrics).errors <= Head(metrics).requests
         /\ Tail(metrics) \in Seq(Metric)
         /\ Len(Tail(metrics)) = Len(metrics) - 1
         /\ ErrorsFit(Tail(metrics))
<1>1. /\ Head(metrics) \in Metric /\ Head(metrics) = metrics[1]
      /\ Tail(metrics) \in Seq(Metric)
      /\ Len(Tail(metrics)) = Len(metrics) - 1
      /\ \A i \in 1..Len(Tail(metrics)) : Tail(metrics)[i] = metrics[i + 1]
  BY HeadTailProperties
<1>2. /\ Len(metrics) \in Nat \ {0} /\ DOMAIN metrics = 1..Len(metrics)
      /\ DOMAIN Tail(metrics) = 1..Len(Tail(metrics))
  BY <1>1, EmptySeq, LenProperties
<1> QED BY <1>1, <1>2 DEF ErrorsFit

LEMMA FitAppend ==
  ASSUME NEW metrics \in Seq(Metric), ErrorsFit(metrics), NEW m \in Metric,
         m.errors <= m.requests
  PROVE  ErrorsFit(Append(metrics, m))
<1>1. /\ Append(metrics, m) \in Seq(Metric)
      /\ Len(Append(metrics, m)) = Len(metrics) + 1
      /\ \A i \in 1..Len(metrics) : Append(metrics, m)[i] = metrics[i]
      /\ Append(metrics, m)[Len(metrics) + 1] = m
  BY AppendProperties
<1>2. /\ Len(metrics) \in Nat /\ DOMAIN metrics = 1..Len(metrics)
      /\ DOMAIN Append(metrics, m) = 1..Len(Append(metrics, m))
  BY <1>1, LenProperties
<1> QED BY <1>1, <1>2 DEF ErrorsFit

(* A metric leaves the round for the channel, or to be counted as dropped. *)
LEMMA SendMetricInv ==
  ASSUME Inv, ~ panicked, SendMetric
  PROVE  Inv'
<1> USE DEF Inv
<1> DEFINE m == Head(round)
<1>1. /\ round # <<>> /\ round' = Tail(round)
      /\ \/ /\ Len(metricsCh) < MetricsSize
            /\ metricsCh' = Append(metricsCh, m) /\ dropped' = dropped
         \/ /\ dropped' = [t \in TestIDs |->
                             dropped[t] + RequestsIn(t, <<m>>)]
            /\ metricsCh' = metricsCh
      /\ UNCHANGED <<resultsCh, received, buffers, locked, metricBatch,
                     resultBatch, reported, running, up, panicked, made,
                     rounds>>
  BY DEF SendMetric, batches, lives
<1>2. locked
  BY <1>1 DEF Sound
<1>3. /\ m \in Metric /\ m.errors <= m.requests
      /\ round' \in Seq(Metric) /\ ErrorsFit(round')
  BY <1>1, FitTail DEF TypeOK, Sound
<1> HIDE DEF m
<1>4. /\ metricsCh' \in Seq(Metric) /\ Len(metricsCh') <= MetricsSize
      /\ ErrorsFit(metricsCh')
  <2>1. metricsCh \in Seq(Metric) /\ Len(metricsCh) <= MetricsSize
    BY DEF TypeOK
  <2>2. ErrorsFit(metricsCh)
    BY DEF Sound
  <2>3. CASE Len(metricsCh) < MetricsSize /\ metricsCh' = Append(metricsCh, m)
    <3>1. metricsCh' \in Seq(Metric) /\ Len(metricsCh') = Len(metricsCh) + 1
      BY <1>3, <2>1, <2>3, AppendProperties
    <3>2. ErrorsFit(metricsCh')
      BY <1>3, <2>1, <2>2, <2>3, FitAppend
    <3>3. Len(metricsCh) \in Nat
      BY <2>1, LenProperties
    <3> QED BY <2>3, <3>1, <3>2, <3>3, SizesAssumption
  <2> QED BY <1>1, <2>1, <2>2, <2>3
<1>5. ASSUME NEW t \in TestIDs
      PROVE  /\ InCollector(t) = RequestsIn(t, <<m>>) + InCollector(t)'
             /\ RequestsIn(t, metricsCh') + dropped'[t] =
                  RequestsIn(t, metricsCh) + dropped[t] + RequestsIn(t, <<m>>)
             /\ dropped'[t] \in Nat
             /\ RequestsIn(t, <<m>>) \in Nat
             /\ InCollector(t)' \in Nat
             /\ RequestsIn(t, metricsCh') \in Nat
  <2>1. RequestsIn(t, round) = RequestsIn(t, <<m>>) + RequestsIn(t, round')
    BY <1>1, RequestsTail DEF TypeOK, m
  <2>2. InCollector(t) = RequestsIn(t, round)
    BY <1>2 DEF InCollector
  <2>3. InCollector(t)' = RequestsIn(t, round')
    BY <1>1, <1>2 DEF InCollector
  <2>4. <<m>> \in Seq(Metric)
    BY <1>3
  <2>5. /\ RequestsIn(t, <<m>>) \in Nat /\ RequestsIn(t, round') \in Nat
        /\ RequestsIn(t, metricsCh) \in Nat
        /\ RequestsIn(t, metricsCh') \in Nat
    BY <1>3, <1>4, <2>4, RequestsNat DEF TypeOK
  <2>6. dropped[t] \in Nat
    BY BoundsAssumption DEF TypeOK
  <2>7. CASE metricsCh' = Append(metricsCh, m) /\ dropped' = dropped
    <3>1. RequestsIn(t, metricsCh') =
            RequestsIn(t, metricsCh) + RequestsIn(t, <<m>>)
      BY <1>3, <2>7, RequestsAppend DEF TypeOK
    <3> QED BY <2>1, <2>2, <2>3, <2>5, <2>6, <2>7, <3>1
  <2>8. CASE /\ dropped' = [s \in TestIDs |->
                              dropped[s] + RequestsIn(s, <<m>>)]
             /\ metricsCh' = metricsCh
    <3>1. dropped'[t] = dropped[t] + RequestsIn(t, <<m>>)
      BY <2>8
    <3> QED BY <2>1, <2>2, <2>3, <2>5, <2>6, <2>8, <3>1
  <2> QED BY <1>1, <2>7, <2>8
<1>6. ASSUME NEW t \in TestIDs
      PROVE  Balanced(t)' /\ dropped'[t] \in 0..MaxResults
  <2>1. Balanced(t) /\ made[t] <= MaxResults
    BY BoundsAssumption DEF Conserved, Balanced, TypeOK
  <2>2. InBatches(t)' = InBatches(t)
    BY <1>1 DEF InBatches
  <2>3. /\ ResultsOf(t, resultsCh') = ResultsOf(t, resultsCh)
        /\ ResultsOf(t, received') = ResultsOf(t, received)
        /\ made'[t] = made[t] /\ reported'[t] = reported[t]
    BY <1>1
  <2>4. PartsAreNat(t)
    BY PartsNat
  <2>5. InBatches(t) \in Nat
    BY <2>4 DEF PartsAreNat, InBatches
  <2>6. Balanced(t)'
    BY <1>5, <2>1, <2>2, <2>3, <2>4, <2>5, BoundsAssumption
       DEF Balanced, InChannels, PartsAreNat
  <2>7. dropped'[t] <= made[t]
    BY <1>5, <2>2, <2>3, <2>4, <2>5, <2>6, BoundsAssumption
       DEF Balanced, InChannels, PartsAreNat
  <2> QED BY <1>5, <2>1, <2>4, <2>6, <2>7, BoundsAssumption DEF PartsAreNat
<1>7. dropped' \in [TestIDs -> 0..MaxResults]
  <2>1. \A t \in TestIDs : dropped'[t] \in 0..MaxResults
    BY <1>6
  <2> QED BY <1>1, <2>1 DEF TypeOK
<1>8. TypeOK'
  BY <1>1, <1>3, <1>4, <1>7 DEF TypeOK
<1>9. Sound'
  BY <1>1, <1>2, <1>3, <1>4 DEF Sound
<1> QED BY <1>6, <1>8, <1>9 DEF Conserved, Balanced

LEMMA EndRoundInv ==
  ASSUME Inv, ~ panicked, EndRound
  PROVE  Inv'
<1> USE DEF Inv
<1>1. /\ locked /\ round = <<>> /\ locked' = FALSE
      /\ buffers' = [t \in {} |-> <<>>]
      /\ UNCHANGED <<resultsCh, received, round, dropped, metricsCh,
                     metricBatch, resultBatch, reported, running, up, panicked,
                     made, rounds>>
  BY DEF EndRound, batches, lives
<1>2. DOMAIN buffers' = {}
  BY <1>1
<1>3. TypeOK'
  BY <1>1, <1>2 DEF TypeOK
<1>4. ASSUME NEW t \in TestIDs PROVE Balanced(t)'
  <2>1. Balanced(t)
    BY DEF Conserved, Balanced
  <2>2. InCollector(t) = 0 /\ InCollector(t)' = 0
    BY <1>1, <1>2, RequestsEmpty DEF InCollector
  <2>3. InChannels(t)' = InChannels(t) /\ InBatches(t)' = InBatches(t)
    BY <1>1 DEF InChannels, InBatches
  <2> QED BY <1>1, <2>1, <2>2, <2>3 DEF Balanced
<1>5. Sound'
  BY <1>1, <1>2 DEF Sound, ErrorsFit
<1> QED BY <1>3, <1>4, <1>5 DEF Conserved, Balanced

(* Requests that a report takes out of the channels and the batches keep   *)
(* the balance, and with it the bound on what is reported.                 *)
LEMMA Report ==
  ASSUME Inv, NEW t \in TestIDs, Balanced(t), NEW sent \in Nat,
         UNCHANGED <<made, dropped, InCollector(t)>>,
         reported'[t] = reported[t] + sent,
         InChannels(t)' \in Nat, InBatches(t)' \in Nat,
         InChannels(t)' + InBatches(t)' + sent = InChannels(t) + InBatches(t)
  PROVE  Balanced(t)' /\ reported'[t] \in 0..MaxResults
<1>1. PartsAreNat(t)
  BY PartsNat DEF Inv
<1>2. InChannels(t) \in Nat /\ InBatches(t) \in Nat
  BY <1>1 DEF InChannels, InBatches, PartsAreNat
<1>3. made[t] <= MaxResults
  BY BoundsAssumption DEF Inv, TypeOK
<1>4. Balanced(t)'
  BY <1>1, <1>2, BoundsAssumption DEF Balanced, PartsAreNat
<1>5. reported'[t] <= made[t]
  BY <1>1, <1>2, <1>4, BoundsAssumption DEF Balanced, PartsAreNat
<1> QED BY <1>1, <1>3, <1>4, <1>5, BoundsAssumption DEF PartsAreNat

LEMMA BatchMetricInv ==
  ASSUME Inv, ~ panicked, BatchMetric
  PROVE  Inv'
<1> USE DEF Inv
<1> DEFINE m == Head(metricsCh)
           batch == Append(metricBatch, m)
<1>1. /\ metricsCh # <<>> /\ metricsCh' = Tail(metricsCh)
      /\ \/ /\ Len(batch) >= BatchSize
            /\ reported' = [t \in TestIDs |->
                              reported[t] + RequestsIn(t, batch)]
            /\ metricBatch' = <<>>
         \/ /\ ~ (Len(batch) >= BatchSize)
            /\ metricBatch' = batch /\ reported' = reported
      /\ UNCHANGED <<resultsCh, received, buffers, round, locked, dropped,
                     resultBatch, running, up, panicked, made, rounds>>
  BY DEF BatchMetric, ReportMetrics, collector, lives
<1>2. /\ m \in Metric
      /\ metricsCh' \in Seq(Metric) /\ ErrorsFit(metricsCh')
      /\ Len(metricsCh') <= MetricsSize
  <2>1. /\ metricsCh \in Seq(Metric) /\ ErrorsFit(metricsCh)
        /\ Len(metricsCh) <= MetricsSize
    BY DEF TypeOK, Sound
  <2>2. Len(metricsCh) \in Nat
    BY <2>1, LenProperties
  <2> QED BY <1>1, <2>1, <2>2, FitTail, SizesAssumption
<1>3. /\ batch \in Seq(Metric) /\ Len(batch) \in Nat
      /\ Len(<<>>) < BatchSize /\ <<>> \in Seq(Metric)
  BY <1>2, BatchSizeAssumption DEF TypeOK
<1> HIDE DEF m
<1>4. metricBatch' \in Seq(Metric) /\ Len(metricBatch') < BatchSize
  <2> HIDE DEF batch
  <2>1. \/ metricBatch' = <<>>
        \/ metricBatch' = batch /\ ~ (Len(batch) >= BatchSize)
    BY <1>1
  <2>2. ~ (Len(batch) >= BatchSize) => Len(batch) < BatchSize
    BY <1>3, BatchSizeAssumption
  <2> QED BY <1>3, <2>1, <2>2
<1>5. ASSUME NEW t \in TestIDs
      PROVE  Balanced(t)' /\ reported'[t] \in 0..MaxResults
  <2>1. Balanced(t) /\ PartsAreNat(t)
    BY PartsNat DEF Conserved, Balanced
  <2>2. RequestsIn(t, metricsCh) =
          RequestsIn(t, <<m>>) + RequestsIn(t, metricsCh')
    BY <1>1, RequestsTail DEF TypeOK, m
  <2>3. RequestsIn(t, batch) = RequestsIn(t, metricBatch) + RequestsIn(t, <<m>>)
    BY <1>2, RequestsAppend DEF TypeOK
  <2>4. /\ RequestsIn(t, <<m>>) \in Nat /\ RequestsIn(t, metricsCh') \in Nat
        /\ RequestsIn(t, batch) \in Nat
    <3>1. <<m>> \in Seq(Metric)
      BY <1>2
    <3> QED BY <1>2, <1>3, <3>1, RequestsNat
  <2>5. InCollector(t)' = InCollector(t)
    BY <1>1 DEF InCollector
  <2>6. /\ InChannels(t) = InChannels(t)' + RequestsIn(t, <<m>>)
        /\ InChannels(t)' \in Nat
    <3>1. InChannels(t)' = ResultsOf(t, resultsCh) + ResultsOf(t, received)
                             + RequestsIn(t, metricsCh')
      BY <1>1 DEF InChannels
    <3> QED BY <2>1, <2>2, <2>4, <3>1 DEF InChannels, PartsAreNat
  <2>7. /\ InBatches(t)' = ResultsOf(t, resultBatch) + RequestsIn(t, metricBatch')
        /\ ResultsOf(t, resultBatch) \in Nat
        /\ InBatches(t) = ResultsOf(t, resultBatch) + RequestsIn(t, metricBatch)
        /\ RequestsIn(t, metricBatch) \in Nat
    BY <1>1, <2>1 DEF InBatches, PartsAreNat
  <2> DEFINE sent == IF Len(batch) >= BatchSize THEN RequestsIn(t, batch) ELSE 0
  <2>8. /\ sent \in Nat
        /\ reported'[t] = reported[t] + sent
        /\ RequestsIn(t, metricBatch') + sent = RequestsIn(t, batch)
        /\ RequestsIn(t, metricBatch') \in Nat
    <3>1. reported[t] \in Nat
      BY BoundsAssumption DEF TypeOK
    <3>2. CASE Len(batch) >= BatchSize
      <4>1. /\ reported' = [s \in TestIDs |->
                              reported[s] + RequestsIn(s, batch)]
            /\ metricBatch' = <<>>
        BY <1>1, <3>2
      <4>2. RequestsIn(t, metricBatch') = 0
        BY <4>1, RequestsEmpty
      <4> HIDE DEF batch
      <4> QED BY <2>4, <3>2, <4>1, <4>2
    <3>3. CASE ~ (Len(batch) >= BatchSize)
      <4>1. metricBatch' = batch /\ reported' = reported
        BY <1>1, <3>3
      <4> HIDE DEF batch
      <4> QED BY <2>4, <3>1, <3>3, <4>1
    <3> QED BY <3>2, <3>3
  <2> HIDE DEF sent, batch
  <2>9. /\ InBatches(t)' \in Nat
        /\ InChannels(t)' + InBatches(t)' + sent = InChannels(t) + InBatches(t)
    BY <2>3, <2>4, <2>6, <2>7, <2>8
  <2>10. UNCHANGED <<made, dropped, InCollector(t)>>
    BY <1>1, <2>5
  <2> QED BY <2>1, <2>6, <2>8, <2>9, <2>10, Report
<1>6. reported' \in [TestIDs -> 0..MaxResults]
  <2>1. \A t \in TestIDs : reported'[t] \in 0..MaxResults
    BY <1>5
  <2> QED BY <1>1, <2>1 DEF TypeOK
<1>7. TypeOK'
  BY <1>1, <1>2, <1>4, <1>6 DEF TypeOK
<1>8. Sound'
  BY <1>1, <1>2 DEF Sound
<1> QED BY <1>5, <1>7, <1>8 DEF Conserved, Balanced

LEMMA FlushMetricsInv ==
  ASSUME Inv, ~ panicked, FlushMetrics
  PROVE  Inv'
<1> USE DEF Inv
<1>1. /\ running' \subseteq running
      /\ reported' = [t \in TestIDs |->
                        reported[t] + RequestsIn(t, metricBatch)]
      /\ metricBatch' = <<>>
      /\ UNCHANGED <<resultsCh, received, buffers, round, locked, dropped,
                     metricsCh, resultBatch, up, panicked, made, rounds>>
  BY DEF FlushMetrics, ReportMetrics, collector
<1>2. ASSUME NEW t \in TestIDs
      PROVE  Balanced(t)' /\ reported'[t] \in 0..MaxResults
  <2>1. Balanced(t) /\ PartsAreNat(t)
    BY PartsNat DEF Conserved, Balanced
  <2>2. InCollector(t)' = InCollector(t) /\ InChannels(t)' = InChannels(t)
    BY <1>1 DEF InCollector, InChannels
  <2>3. InChannels(t) \in Nat
    BY <2>1 DEF InChannels, PartsAreNat
  <2>4. RequestsIn(t, metricBatch') = 0
    BY <1>1, RequestsEmpty
  <2>5. /\ InBatches(t)' = ResultsOf(t, resultBatch)
        /\ InBatches(t) = InBatches(t)' + RequestsIn(t, metricBatch)
        /\ InBatches(t)' \in Nat /\ RequestsIn(t, metricBatch) \in Nat
    BY <1>1, <2>1, <2>4 DEF InBatches, PartsAreNat
  <2>6. reported'[t] = reported[t] + RequestsIn(t, metricBatch)
    BY <1>1
  <2>7. UNCHANGED <<made, dropped, InCollector(t)>>
    BY <1>1, <2>2
  <2>8. InChannels(t)' + InBatches(t)' + RequestsIn(t, metricBatch)
          = InChannels(t) + InBatches(t)
    BY <2>2, <2>3, <2>5
  <2>9. InChannels(t)' \in Nat
    BY <2>2, <2>3
  <2> QED BY <2>1, <2>5, <2>6, <2>7, <2>8, <2>9, Report
<1>3. reported' \in [TestIDs -> 0..MaxResults]
  <2>1. \A t \in TestIDs : reported'[t] \in 0..MaxResults
    BY <1>2
  <2> QED BY <1>1, <2>1
<1>4. metricBatch' \in Seq(Metric) /\ Len(metricBatch') < BatchSize
  BY <1>1, BatchSizeAssumption
<1>5. TypeOK'
  BY <1>1, <1>3, <1>4 DEF TypeOK
<1>6. Sound'
  BY <1>1 DEF Sound, ErrorsFit
<1> QED BY <1>2, <1>5, <1>6 DEF Conserved, Balanced

(* A report of results that does not panic adds the batch to what is       *)
(* reported; one that does ends the process and reports nothing.           *)
LEMMA BatchResultInv ==
  ASSUME Inv, ~ panicked, BatchResult
  PROVE  Inv'
<1> USE DEF Inv
<1> DEFINE r == Head(resultsCh)
           batch == Append(resultBatch, r)
<1>1. /\ resultsCh # <<>> /\ resultsCh' = Tail(resultsCh)
      /\ \/ /\ Len(batch) >= BatchSize
            /\ reported' = [t \in TestIDs |->
                              reported[t] + ResultsOf(t, batch)]
            /\ panicked' = panicked /\ resultBatch' = <<>>
         \/ /\ panicked' = TRUE /\ reported' = reported /\ resultBatch' = <<>>
         \/ /\ ~ (Len(batch) >= BatchSize)
            /\ resultBatch' = batch
            /\ reported' = reported /\ panicked' = panicked
      /\ UNCHANGED <<received, buffers, round, locked, dropped, metricsCh,
                     metricBatch, running, up, made, rounds>>
  BY DEF BatchResult, ReportResults, collector
<1>2. /\ r \in Result
      /\ resultsCh' \in Seq(Result) /\ Len(resultsCh') <= ResultsSize
  <2>1. resultsCh \in Seq(Result) /\ Len(resultsCh) <= ResultsSize
    BY DEF TypeOK
  <2>2. /\ r \in Result /\ resultsCh' \in Seq(Result)
        /\ Len(resultsCh') = Len(resultsCh) - 1
    BY <1>1, <2>1, HeadTailProperties
  <2>3. Len(resultsCh) \in Nat
    BY <2>1, LenProperties
  <2> QED BY <2>1, <2>2, <2>3, SizesAssumption
<1>3. /\ batch \in Seq(Result) /\ Len(batch) \in Nat
      /\ Len(<<>>) < BatchSize /\ <<>> \in Seq(Result)
  BY <1>2, BatchSizeAssumption DEF TypeOK
<1> HIDE DEF r
<1>4. resultBatch' \in Seq(Result) /\ Len(resultBatch') < BatchSize
  <2> HIDE DEF batch
  <2>1. \/ resultBatch' = <<>>
        \/ resultBatch' = batch /\ ~ (Len(batch) >= BatchSize)
    BY <1>1
  <2>2. ~ (Len(batch) >= BatchSize) => Len(batch) < BatchSize
    BY <1>3, BatchSizeAssumption
  <2> QED BY <1>3, <2>1, <2>2
<1>5. ASSUME ~ panicked', NEW t \in TestIDs
      PROVE  Balanced(t)' /\ reported'[t] \in 0..MaxResults
  <2>1. Balanced(t) /\ PartsAreNat(t)
    BY PartsNat DEF Conserved, Balanced
  <2>2. ResultsOf(t, resultsCh) =
          ResultsOf(t, <<r>>) + ResultsOf(t, resultsCh')
    BY <1>1, ResultsTail DEF TypeOK, r
  <2>3. ResultsOf(t, batch) = ResultsOf(t, resultBatch) + ResultsOf(t, <<r>>)
    BY <1>2, ResultsAppend DEF TypeOK
  <2>4. /\ ResultsOf(t, <<r>>) \in Nat /\ ResultsOf(t, resultsCh') \in Nat
        /\ ResultsOf(t, batch) \in Nat
    <3>1. <<r>> \in Seq(Result)
      BY <1>2
    <3> QED BY <1>2, <1>3, <3>1, ResultsNat
  <2>5. InCollector(t)' = InCollector(t)
    BY <1>1 DEF InCollector
  <2>6. /\ InChannels(t) = InChannels(t)' + ResultsOf(t, <<r>>)
        /\ InChannels(t)' \in Nat
    <3>1. InChannels(t)' = ResultsOf(t, resultsCh') + ResultsOf(t, received)
                             + RequestsIn(t, metricsCh)
      BY <1>1 DEF InChannels
    <3> QED BY <2>1, <2>2, <2>4, <3>1 DEF InChannels, PartsAreNat
  <2>7. /\ InBatches(t)' = ResultsOf(t, resultBatch') + RequestsIn(t, metricBatch)
        /\ ResultsOf(t, resultBatch) \in Nat
        /\ InBatches(t) = ResultsOf(t, resultBatch) + RequestsIn(t, metricBatch)
        /\ RequestsIn(t, metricBatch) \in Nat
    BY <1>1, <2>1 DEF InBatches, PartsAreNat
  <2> DEFINE sent == IF Len(batch) >= BatchSize THEN ResultsOf(t, batch) ELSE 0
  <2>8. /\ sent \in Nat
        /\ reported'[t] = reported[t] + sent
        /\ ResultsOf(t, resultBatch') + sent = ResultsOf(t, batch)
        /\ ResultsOf(t, resultBatch') \in Nat
    <3>1. reported[t] \in Nat
      BY BoundsAssumption DEF TypeOK
    <3>2. CASE Len(batch) >= BatchSize
      <4>1. /\ reported' = [s \in TestIDs |->
                              reported[s] + ResultsOf(s, batch)]
            /\ resultBatch' = <<>>
        BY <1>1, <1>5, <3>2
      <4>2. ResultsOf(t, resultBatch') = 0
        BY <4>1, ResultsEmpty
      <4> HIDE DEF batch
      <4> QED BY <2>4, <3>2, <4>1, <4>2
    <3>3. CASE ~ (Len(batch) >= BatchSize)
      <4>1. resultBatch' = batch /\ reported' = reported
        BY <1>1, <1>5, <3>3
      <4> HIDE DEF batch
      <4> QED BY <2>4, <3>1, <3>3, <4>1
    <3> QED BY <3>2, <3>3
  <2> HIDE DEF sent, batch
  <2>9. /\ InBatches(t)' \in Nat
        /\ InChannels(t)' + InBatches(t)' + sent = InChannels(t) + InBatches(t)
    BY <2>3, <2>4, <2>6, <2>7, <2>8
  <2>10. UNCHANGED <<made, dropped, InCollector(t)>>
    BY <1>1, <2>5
  <2> QED BY <2>1, <2>6, <2>8, <2>9, <2>10, Report
<1>6. reported' \in [TestIDs -> 0..MaxResults]
  <2>1. CASE panicked'
    BY <1>1, <2>1 DEF TypeOK
  <2>2. CASE ~ panicked'
    <3>1. \A t \in TestIDs : reported'[t] \in 0..MaxResults
      BY <1>5, <2>2
    <3> QED BY <1>1, <3>1 DEF TypeOK
  <2> QED BY <2>1, <2>2
<1>7. panicked' \in BOOLEAN
  BY <1>1 DEF TypeOK
<1>8. TypeOK'
  BY <1>1, <1>2, <1>4, <1>6, <1>7 DEF TypeOK
<1>9. Sound'
  BY <1>1 DEF Sound, ErrorsFit
<1>10. Conserved'
  BY <1>5, Zenon DEF Conserved, Balanced
<1> QED BY <1>8, <1>9, <1>10

LEMMA FlushResultsInv ==
  ASSUME Inv, ~ panicked, FlushResults
  PROVE  Inv'
<1> USE DEF Inv
<1>1. /\ running' \subseteq running
      /\ \/ /\ reported' = [t \in TestIDs |->
                              reported[t] + ResultsOf(t, resultBatch)]
            /\ panicked' = panicked
         \/ panicked' = TRUE /\ reported' = reported
      /\ resultBatch' = <<>>
      /\ UNCHANGED <<resultsCh, received, buffers, round, locked, dropped,
                     metricsCh, metricBatch, up, made, rounds>>
  BY DEF FlushResults, ReportResults, collector
<1>2. ASSUME ~ panicked', NEW t \in TestIDs
      PROVE  Balanced(t)' /\ reported'[t] \in 0..MaxResults
  <2>1. Balanced(t) /\ PartsAreNat(t)
    BY PartsNat DEF Conserved, Balanced
  <2>2. InCollector(t)' = InCollector(t) /\ InChannels(t)' = InChannels(t)
    BY <1>1 DEF InCollector, InChannels
  <2>3. InChannels(t) \in Nat
    BY <2>1 DEF InChannels, PartsAreNat
  <2>4. ResultsOf(t, resultBatch') = 0
    BY <1>1, ResultsEmpty
  <2>5. /\ InBatches(t)' = RequestsIn(t, metricBatch)
        /\ InBatches(t) = InBatches(t)' + ResultsOf(t, resultBatch)
        /\ InBatches(t)' \in Nat /\ ResultsOf(t, resultBatch) \in Nat
    BY <1>1, <2>1, <2>4 DEF InBatches, PartsAreNat
  <2>6. reported'[t] = reported[t] + ResultsOf(t, resultBatch)
    BY <1>1, <1>2
  <2>7. UNCHANGED <<made, dropped, InCollector(t)>>
    BY <1>1, <2>2
  <2>8. InChannels(t)' + InBatches(t)' + ResultsOf(t, resultBatch)
          = InChannels(t) + InBatches(t)
    BY <2>2, <2>3, <2>5
  <2>9. InChannels(t)' \in Nat
    BY <2>2, <2>3
  <2> QED BY <2>1, <2>5, <2>6, <2>7, <2>8, <2>9, Report
<1>3. reported' \in [TestIDs -> 0..MaxResults]
  <2>1. CASE panicked'
    BY <1>1, <2>1 DEF TypeOK
  <2>2. CASE ~ panicked'
    <3>1. \A t \in TestIDs : reported'[t] \in 0..MaxResults
      BY <1>2, <2>2
    <3> QED BY <1>1, <2>2, <3>1
  <2> QED BY <2>1, <2>2
<1>4. resultBatch' \in Seq(Result) /\ Len(resultBatch') < BatchSize
  BY <1>1, BatchSizeAssumption
<1>5. TypeOK'
  <2>1. panicked' \in BOOLEAN
    BY <1>1 DEF TypeOK
  <2> QED BY <1>1, <1>3, <1>4, <2>1 DEF TypeOK
<1>6. Sound'
  BY <1>1 DEF Sound, ErrorsFit
<1>7. Conserved'
  BY <1>2, Zenon DEF Conserved, Balanced
<1> QED BY <1>5, <1>6, <1>7

(* Goroutines that return, and the end of the context, move no requests.   *)
LEMMA EndsInv ==
  ASSUME Inv, ~ panicked, running' \subseteq running, up' \in BOOLEAN,
         UNCHANGED <<resultsCh, received, collector, metricsCh, batches,
                     panicked, made, rounds>>
  PROVE  Inv'
<1> USE DEF Inv
<1>1. UNCHANGED <<resultsCh, received, buffers, round, locked, dropped,
                  metricsCh, metricBatch, resultBatch, reported, panicked,
                  made, rounds>>
  BY DEF collector, batches
<1>2. TypeOK'
  BY <1>1 DEF TypeOK
<1>3. Sound'
  BY <1>1 DEF Sound, ErrorsFit
<1>4. Conserved'
  BY <1>1 DEF Conserved, InChannels, InCollector, InBatches
<1> QED BY <1>2, <1>3, <1>4

(* One step of the worker, or a stuttering step.                           *)
LEMMA NextInv == Inv /\ [Next]_vars => Inv'
<1> SUFFICES ASSUME Inv, [Next]_vars PROVE Inv'
  OBVIOUS
<1>1. CASE UNCHANGED vars
  BY <1>1 DEF vars, collector, batches, lives, Inv, TypeOK, Sound, ErrorsFit,
              Conserved, InChannels, InCollector, InBatches
<1>2. CASE Next
  <2>0. ~ panicked
    BY <1>2 DEF Next
  <2>1. ASSUME NEW r \in Result, SendResult(r) PROVE Inv'
    BY <2>0, <2>1, SendResultInv
  <2>2. CASE Processing
    <3>1. CASE ProcessorReturns
      BY <2>0, <3>1, EndsInv DEF ProcessorReturns, Return, Inv, TypeOK
    <3> QED BY <2>0, <2>2, <3>1, ReceiveResultInv, ProcessResultInv
            DEF Processing
  <2>3. CASE StartRound
    BY <2>0, <2>3, StartRoundInv
  <2>4. CASE Collecting
    <3>1. CASE CollectorReturns
      BY <2>0, <3>1, EndsInv DEF CollectorReturns, Return, Inv, TypeOK
    <3> QED BY <2>0, <2>4, <3>1, SendMetricInv, EndRoundInv DEF Collecting
  <2>5. CASE BatchMetric
    BY <2>0, <2>5, BatchMetricInv
  <2>6. CASE FlushMetrics
    BY <2>0, <2>6, FlushMetricsInv
  <2>7. CASE BatchResult
    BY <2>0, <2>7, BatchResultInv
  <2>8. CASE FlushResults
    BY <2>0, <2>8, FlushResultsInv
  <2>9. CASE Cancel
    BY <2>0, <2>9, EndsInv DEF Cancel
  <2>10. CASE StartReturns
    BY <2>0, <2>10, EndsInv DEF StartReturns, Return, Inv, TypeOK
  <2> QED BY <1>2, <2>1, <2>2, <2>3, <2>4, <2>5, <2>6, <2>7, <2>8, <2>9, <2>10
          DEF Next
<1> QED BY <1>1, <1>2

LEMMA SpecInv == Spec => []Inv
BY InitInv, NextInv, PTL DEF Spec

(* The channels and the batches keep to their sizes, and every count to    *)
(* the results that were made.                                             *)
THEOREM TypeCorrect == Spec => []TypeOK
<1>1. Inv => TypeOK
  BY DEF Inv
<1> QED BY <1>1, SpecInv, PTL

(* While the process lives no request is lost but in a metric that found   *)
(* its channel full, and none is reported twice.                           *)
THEOREM RequestsAreConserved == Spec => []Conserved
<1>1. Inv => Conserved
  BY DEF Inv
<1> QED BY <1>1, SpecInv, PTL

(* Every error rate on its way has at most as many errors as requests.     *)
THEOREM RatesAreSound == Spec => []RatesAreRates
<1>1. Inv => RatesAreRates
  BY DEF Inv, Sound, ErrorsFit, RatesAreRates
<1> QED BY <1>1, SpecInv, PTL
=============================================================================
