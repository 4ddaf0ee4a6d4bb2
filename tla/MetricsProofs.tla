---------------------------- MODULE MetricsProofs ----------------------------
(***************************************************************************)
(* Proofs about the parts of MCMetrics, for any numbers of aggregators,    *)
(* merges, recorders, responses and resets, any keys and any channel.      *)
(*                                                                         *)
(* Aggregators: that no value is forgotten.  TypeOK and NoLostUpdate are   *)
(* inductive, the latter given the types.                                  *)
(*                                                                         *)
(* Collector: that every response is counted, and its error never before   *)
(* its request.  For the former the invariant says where the metrics of    *)
(* the responses are (Complete): in a counter, in hand, in the channel, or *)
(* with a recorder that still has to send them.  For the latter it says    *)
(* what a snapshot would show after any number of the metrics in the       *)
(* channel were received (Balanced), and that a recorder that sends an     *)
(* error next has sent the request just before (InOrder).                  *)
(***************************************************************************)
EXTENDS MCMetrics, Sums

Inv == TypeOK /\ NoLostUpdate

LEMMA InitInv == Init => Inv
BY ManyAssumption, MaxMergesAssumption DEF Init, Inv, TypeOK, NoLostUpdate

LEMMA CappedType == \A n \in Nat : Capped(n) \in 0..Many
BY ManyAssumption DEF Capped

(* The lists a merge is started with.                                      *)
LEMMA OthersType ==
  \A others \in SetToAllKPermutations(Aggregators) : others \in Seq(Aggregators)
<1> SUFFICES ASSUME NEW S \in SUBSET Aggregators, NEW others \in SetToSeqs(S)
             PROVE  others \in Seq(Aggregators)
  BY DEF SetToAllKPermutations
<1>1. Cardinality(S) \in Nat
  BY AggregatorsAssumption, FS_Subset, FS_CardinalityType
<1>2. others \in [1..Cardinality(S) -> Aggregators]
  BY DEF SetToSeqs
<1>3. others \in UNION {[1..n -> Aggregators] : n \in Nat}
  BY <1>1, <1>2
<1> QED BY <1>3, SeqDef, Zenon

LEMMA UseInv ==
  ASSUME Inv, NEW a \in Aggregators, Use(a)
  PROVE  Inv'
<1> USE DEF Inv, TypeOK, NoLostUpdate
<1>0. \A b \in Aggregators, k \in Keys : metrics[b][k] \in 0..Many
  OBVIOUS
<1>1. ASSUME NEW k \in Keys, AddMetric(a, k) PROVE Inv'
  <2>1. Capped(metrics[a][k] + 1) \in 0..Many
    <3>1. metrics[a][k] + 1 \in Nat
      BY <1>0
    <3> QED BY <3>1, CappedType
  <2>2. metrics' \in [Aggregators -> [Keys -> 0..Many]]
    BY <1>1, <2>1 DEF AddMetric
  <2>3. ASSUME NEW b \in Aggregators, NEW l \in Keys, metrics'[b][l] > 0
        PROVE  b \in updateCh' \cup locked' \/ loop'[b] = "aggregate"
    <3>1. CASE b = a /\ l = k
      BY <1>1, <3>1 DEF AddMetric
    <3>2. CASE ~ (b = a /\ l = k)
      <4>1. metrics'[b][l] = metrics[b][l]
        BY <1>1, <3>2 DEF AddMetric
      <4> QED BY <1>1, <2>3, <4>1 DEF AddMetric
    <3> QED BY <3>1, <3>2
  <2> QED BY <1>1, <2>2, <2>3 DEF AddMetric
<1>2. CASE Update(a)
  BY <1>2 DEF Update, Goto
<1>3. CASE Tick(a)
  BY <1>3 DEF Tick, Goto
<1>4. CASE Aggregate(a)
  <2>1. metrics' \in [Aggregators -> [Keys -> 0..Many]]
    BY <1>4, ManyAssumption DEF Aggregate
  <2>2. aggregations' \in [Aggregators -> SUBSET Keys]
    BY <1>4 DEF Aggregate
  <2>3. ASSUME NEW b \in Aggregators, NEW l \in Keys, metrics'[b][l] > 0
        PROVE  b \in updateCh' \cup locked' \/ loop'[b] = "aggregate"
    BY <1>4, <2>3 DEF Aggregate, Goto
  <2> QED BY <1>4, <2>1, <2>2, <2>3 DEF Aggregate, Goto
<1>5. CASE ClearOldMetrics(a)
  BY <1>5 DEF ClearOldMetrics
<1>6. CASE Reset(a)
  <2>1. metrics' \in [Aggregators -> [Keys -> 0..Many]]
    BY <1>6, ManyAssumption DEF Reset
  <2>2. ASSUME NEW b \in Aggregators, NEW l \in Keys, metrics'[b][l] > 0
        PROVE  b \in updateCh' \cup locked' \/ loop'[b] = "aggregate"
    BY <1>6, <2>2 DEF Reset
  <2> QED BY <1>6, <2>1, <2>2 DEF Reset
<1>7. CASE MergeOne(a)
  <2> DEFINE b == Head(sources[a])
  <2>1. b \in Aggregators /\ Tail(sources[a]) \in Seq(Aggregators)
    BY <1>7 DEF MergeOne
  <2>2. \A k \in Keys : Capped(metrics[a][k] + metrics[b][k]) \in 0..Many
    <3>1. \A k \in Keys : metrics[a][k] + metrics[b][k] \in Nat
      BY <1>0, <2>1
    <3> QED BY <3>1, CappedType
  <2>3. metrics' \in [Aggregators -> [Keys -> 0..Many]]
    BY <1>7, <2>2 DEF MergeOne
  <2>4. ASSUME NEW c \in Aggregators, NEW k \in Keys, metrics'[c][k] > 0
        PROVE  c \in updateCh' \cup locked' \/ loop'[c] = "aggregate"
    BY <1>7, <2>4 DEF MergeOne
  <2> QED BY <1>7, <2>1, <2>3, <2>4 DEF MergeOne
<1>8. CASE MergeEnd(a)
  BY <1>8 DEF MergeEnd
<1>9. CASE Start(a) \/ Return(a)
  BY <1>9 DEF Start, Return, Goto
<1> QED
  BY <1>1, <1>2, <1>3, <1>4, <1>5, <1>6, <1>7, <1>8, <1>9 DEF Use, Merging

LEMMA MergeInv ==
  ASSUME Inv, NEW a \in Aggregators, NEW others \in Seq(Aggregators),
         Merge(a, others)
  PROVE  Inv'
BY MaxMergesAssumption
   DEF Inv, TypeOK, NoLostUpdate, Merge

LEMMA NextInv == Inv /\ [Next]_vars => Inv'
<1> SUFFICES ASSUME Inv, [Next]_vars PROVE Inv'
  OBVIOUS
<1>1. ASSUME NEW a \in Aggregators, Use(a) PROVE Inv'
  BY <1>1, UseInv
<1>2. ASSUME NEW a \in Aggregators, MergeSome(a) PROVE Inv'
  BY <1>2, OthersType, MergeInv DEF MergeSome
<1>3. CASE UNCHANGED vars
  BY <1>3 DEF vars, Inv, TypeOK, NoLostUpdate
<1> QED BY <1>1, <1>2, <1>3 DEF Next

(* The aggregators' state is well-typed; in particular an aggregator that  *)
(* still has sources to read has its mutex.                                *)
THEOREM TypeCorrect == Spec => []TypeOK
<1>1. Inv => TypeOK
  BY DEF Inv
<1> QED BY <1>1, InitInv, NextInv, PTL DEF Spec

(* Whatever values come, and whatever is merged, reset or cleared, an      *)
(* aggregator with values has a wake-up on its way.                        *)
THEOREM NothingLost == Spec => []NoLostUpdate
<1>1. Inv => NoLostUpdate
  BY DEF Inv
<1> QED BY <1>1, InitInv, NextInv, PTL DEF Spec
-----------------------------------------------------------------------------
(* The exporter, over the aggregations of Root.                            *)
LEMMA ExporterInit == TypeOK /\ E!Init => E!TypeOK
BY RootAssumption DEF TypeOK, E!Init, E!TypeOK

LEMMA ExporterNextInv ==
  ASSUME TypeOK, TypeOK', E!TypeOK, E!Next \/ UNCHANGED exporterVars
  PROVE  E!TypeOK'
<1>1. aggregations[Root] \subseteq Keys /\ aggregations'[Root] \subseteq Keys
  BY RootAssumption DEF TypeOK
<1>2. CASE UNCHANGED exporterVars
  BY <1>1, <1>2 DEF exporterVars, E!TypeOK
<1>3. CASE E!Next
  <2> USE DEF E!TypeOK
  <2>1. CASE E!Start
    BY <1>1, <2>1 DEF E!Start
  <2>2. CASE E!Tick
    BY <1>1, <2>2 DEF E!Tick
  <2>3. CASE E!ExportJSON \/ E!ExportInfluxDB
    BY <1>1, <2>3 DEF E!ExportJSON, E!ExportInfluxDB, E!Sent
  <2>4. CASE E!UpdatePrometheusMetrics
    BY <1>1, <2>4 DEF E!UpdatePrometheusMetrics
  <2>5. ASSUME NEW f \in E!Format, E!SetExportFormat(f) PROVE E!TypeOK'
    BY <1>1, <2>5 DEF E!SetExportFormat
  <2>6. CASE E!Return
    BY <1>1, <2>6 DEF E!Return
  <2> QED BY <1>3, <2>1, <2>2, <2>3, <2>4, <2>5, <2>6
          DEF E!Next, E!Exporting
<1> QED BY <1>2, <1>3
-----------------------------------------------------------------------------
(* The operators the collector's instance brings along are those of Sums.  *)
LEMMA SameSums ==
  ASSUME NEW f, NEW S
  PROVE  C!SumFunctionOnSet(f, S) = SumFunctionOnSet(f, S)
BY DEF C!SumFunctionOnSet, C!FoldFunctionOnSet, C!MapThenFoldSet,
       SumFunctionOnSet, FoldFunctionOnSet, MapThenFoldSet

LEMMA UpdatedIs ==
  ASSUME NEW key
  PROVE  C!Updated(key) =
           [k \in DOMAIN updates \cup {key} |->
              (IF k \in DOMAIN updates THEN updates[k] ELSE 0)
              + (IF k = key THEN 1 ELSE 0)]
BY DEF C!Updated, C!(+), C!SetToBag

LEMMA EmptyIs == DOMAIN C!EmptyBag = {}
BY DEF C!EmptyBag, C!SetToBag

LEMMA MetricsAround ==
  ASSUME NEW e \in Seq(C!Name)
  PROVE  LET s == <<"response_time", "requests_total">> \o e
                    \o <<"bytes_sent", "bytes_received">>
         IN  /\ s \in Seq(C!Name) /\ Len(s) = Len(e) + 4
             /\ s[1] = "response_time" /\ s[2] = "requests_total"
             /\ \A i \in 1..Len(e) : s[i + 2] = e[i]
             /\ s[Len(e) + 3] = "bytes_sent"
             /\ s[Len(e) + 4] = "bytes_received"
<1> DEFINE a == <<"response_time", "requests_total">>
           z == <<"bytes_sent", "bytes_received">>
           b == a \o e
           s == b \o z
<1>1. /\ a \in Seq(C!Name) /\ Len(a) = 2
      /\ a[1] = "response_time" /\ a[2] = "requests_total"
  BY DEF C!Name
<1>2. /\ z \in Seq(C!Name) /\ Len(z) = 2
      /\ z[1] = "bytes_sent" /\ z[2] = "bytes_received"
  BY DEF C!Name
<1>3. Len(e) \in Nat
  BY LenProperties
<1> HIDE DEF a, z
<1>4. /\ b \in Seq(C!Name) /\ Len(b) = 2 + Len(e)
      /\ \A i \in 1..(2 + Len(e)) : b[i] = IF i <= 2 THEN a[i] ELSE e[i - 2]
  <2>1. /\ a \o e \in Seq(C!Name) /\ Len(a \o e) = Len(a) + Len(e)
        /\ \A i \in 1..(Len(a) + Len(e)) :
             (a \o e)[i] = IF i <= Len(a) THEN a[i] ELSE e[i - Len(a)]
    BY <1>1, ConcatProperties
  <2> QED BY <1>1, <2>1
<1>5. b[1] = a[1] /\ b[2] = a[2] /\ \A i \in 1..Len(e) : b[i + 2] = e[i]
  BY <1>3, <1>4
<1> HIDE DEF b
<1>6. /\ s \in Seq(C!Name) /\ Len(s) = Len(b) + 2
      /\ \A i \in 1..(Len(b) + 2) :
           s[i] = IF i <= Len(b) THEN b[i] ELSE z[i - Len(b)]
  <2>1. /\ b \o z \in Seq(C!Name) /\ Len(b \o z) = Len(b) + Len(z)
        /\ \A i \in 1..(Len(b) + Len(z)) :
             (b \o z)[i] = IF i <= Len(b) THEN b[i] ELSE z[i - Len(b)]
    BY <1>2, <1>4, ConcatProperties
  <2> QED BY <1>2, <2>1
<1> HIDE DEF s
<1>7. s[1] = b[1] /\ s[2] = b[2] /\ \A i \in 1..Len(e) : s[i + 2] = b[i + 2]
  BY <1>3, <1>4, <1>6
<1>8. s[Len(e) + 3] = z[1] /\ s[Len(e) + 4] = z[2]
  BY <1>3, <1>4, <1>6
<1>9. /\ s \in Seq(C!Name) /\ Len(s) = Len(e) + 4
      /\ s[1] = "response_time" /\ s[2] = "requests_total"
      /\ \A i \in 1..Len(e) : s[i + 2] = e[i]
      /\ s[Len(e) + 3] = "bytes_sent"
      /\ s[Len(e) + 4] = "bytes_received"
  BY <1>1, <1>2, <1>3, <1>4, <1>5, <1>6, <1>7, <1>8
<1> QED BY <1>9 DEF s, b, a, z

LEMMA MetricsOfFailed ==
  LET s == C!MetricsOf(TRUE)
  IN  /\ s \in Seq(C!Name) /\ Len(s) = 5
      /\ s[1] = "response_time" /\ s[2] = "requests_total"
      /\ s[3] = "errors_total" /\ s[4] = "bytes_sent"
      /\ s[5] = "bytes_received"
<1> DEFINE e == <<"errors_total">>
           s == <<"response_time", "requests_total">> \o e
                  \o <<"bytes_sent", "bytes_received">>
<1>1. e \in Seq(C!Name) /\ Len(e) = 1 /\ e[1] = "errors_total"
  BY DEF C!Name
<1>2. C!MetricsOf(TRUE) = s
  BY DEF C!MetricsOf
<1> HIDE DEF e
<1>3. /\ s \in Seq(C!Name) /\ Len(s) = Len(e) + 4
      /\ s[1] = "response_time" /\ s[2] = "requests_total"
      /\ \A i \in 1..Len(e) : s[i + 2] = e[i]
      /\ s[Len(e) + 3] = "bytes_sent"
      /\ s[Len(e) + 4] = "bytes_received"
  BY <1>1, MetricsAround
<1> HIDE DEF s
<1>4. s[1 + 2] = e[1] /\ 1 + 2 = 3
  BY <1>1, <1>3
<1>5. Len(e) + 3 = 4 /\ Len(e) + 4 = 5
  BY <1>1
<1>6. /\ Len(s) = 5 /\ s[3] = e[1]
      /\ s[4] = "bytes_sent" /\ s[5] = "bytes_received"
  BY <1>3, <1>4, <1>5
<1> QED BY <1>1, <1>2, <1>3, <1>6

LEMMA MetricsOfServed ==
  LET s == C!MetricsOf(FALSE)
  IN  /\ s \in Seq(C!Name) /\ Len(s) = 4
      /\ s[1] = "response_time" /\ s[2] = "requests_total"
      /\ s[3] = "bytes_sent" /\ s[4] = "bytes_received"
<1> DEFINE e == <<>>
           s == <<"response_time", "requests_total">> \o e
                  \o <<"bytes_sent", "bytes_received">>
<1>1. e \in Seq(C!Name) /\ Len(e) = 0
  OBVIOUS
<1>2. C!MetricsOf(FALSE) = s
  BY DEF C!MetricsOf
<1> HIDE DEF e
<1>3. /\ s \in Seq(C!Name) /\ Len(s) = Len(e) + 4
      /\ s[1] = "response_time" /\ s[2] = "requests_total"
      /\ s[Len(e) + 3] = "bytes_sent"
      /\ s[Len(e) + 4] = "bytes_received"
  BY <1>1, MetricsAround
<1> HIDE DEF s
<1>4. Len(e) + 3 = 3 /\ Len(e) + 4 = 4
  BY <1>1
<1>5. Len(s) = 4 /\ s[3] = "bytes_sent" /\ s[4] = "bytes_received"
  BY <1>3, <1>4
<1> QED BY <1>2, <1>3, <1>5

-----------------------------------------------------------------------------
(* How often a name is among some metrics: Weigh with these weights.       *)
Counted(name) == [m \in C!Name |-> IF m = name THEN 1 ELSE 0]

Waiting(name) == Weigh(Counted(name), metricsChan)

Unsent(name) ==
  SumFunctionOnSet([r \in Recorders |-> Weigh(Counted(name), sending[r])],
                   Recorders)

Prefix(s, k) == [i \in 1..k |-> s[i]]

Received(name) == C!Total(name) + Weigh(Counted(name), inHand)

(* What a snapshot says of a metric once k more have been received and all *)
(* that were received are counted.                                         *)
Seen(name, k) == Received(name) + Weigh(Counted(name), Prefix(metricsChan, k))

Owes(s) == IF s # <<>> /\ s[1] = "errors_total" THEN 1 ELSE 0

Owed == SumFunctionOnSet([r \in Recorders |-> Owes(sending[r])], Recorders)

InOrder(s) ==
  \A i \in 2..Len(s) : s[i] = "errors_total" => s[i - 1] = "requests_total"

Complete ==
  \A name \in C!Name :
    Received(name) + Waiting(name) + Unsent(name) = C!Expected(name)

Balanced ==
  /\ C!Total("errors_total") <= C!Total("requests_total")
  /\ \A k \in 0..Len(metricsChan) :
       Seen("errors_total", k) <= Seen("requests_total", k)
  /\ Seen("errors_total", Len(metricsChan)) + Owed
       <= Seen("requests_total", Len(metricsChan))

CollectorInv ==
  /\ C!TypeOK /\ IsFiniteSet(DOMAIN updates)
  /\ recorded.failures <= recorded.responses
  /\ \A r \in Recorders : InOrder(sending[r])
  /\ resets = 0 => Complete /\ Balanced

LEMMA CountedType ==
  ASSUME NEW name
  PROVE  /\ Counted(name) \in [C!Name -> Nat]
         /\ \A m \in C!Name : Counted(name)[m] = IF m = name THEN 1 ELSE 0
BY DEF Counted

LEMMA PrefixType ==
  ASSUME NEW S, NEW s \in Seq(S), NEW k \in 0..Len(s)
  PROVE  /\ Prefix(s, k) \in Seq(S) /\ Len(Prefix(s, k)) = k
         /\ \A i \in 1..k : Prefix(s, k)[i] = s[i]
<1>1. Len(s) \in Nat /\ \A i \in 1..Len(s) : s[i] \in S
  BY LenProperties, ElementOfSeq
<1>2. k \in Nat /\ \A i \in 1..k : s[i] \in S
  BY <1>1
<1>3. Prefix(s, k) \in [1..k -> S]
  BY <1>2 DEF Prefix
<1> QED BY <1>2, <1>3 DEF Prefix

LEMMA PrefixAll ==
  ASSUME NEW S, NEW s \in Seq(S)
  PROVE  Prefix(s, Len(s)) = s
<1>1. s = [i \in 1..Len(s) |-> s[i]]
  BY LenProperties
<1> QED BY <1>1 DEF Prefix

LEMMA PrefixAppend ==
  ASSUME NEW S, NEW s \in Seq(S), NEW x \in S, NEW k \in 0..Len(s)
  PROVE  Prefix(Append(s, x), k) = Prefix(s, k)
<1>1. \A i \in 1..Len(s) : Append(s, x)[i] = s[i]
  BY AppendProperties
<1>2. \A i \in 1..k : i \in 1..Len(s)
  BY LenProperties
<1> QED BY <1>1, <1>2 DEF Prefix

LEMMA PrefixTail ==
  ASSUME NEW S, NEW s \in Seq(S), s # <<>>, NEW k \in 0..(Len(s) - 1)
  PROVE  /\ Prefix(s, k + 1) # <<>>
         /\ Head(Prefix(s, k + 1)) = Head(s)
         /\ Tail(Prefix(s, k + 1)) = Prefix(Tail(s), k)
<1> DEFINE p == Prefix(s, k + 1)
           q == Prefix(Tail(s), k)
<1>1. /\ Len(s) \in Nat \ {0}
      /\ Tail(s) \in Seq(S) /\ Len(Tail(s)) = Len(s) - 1
      /\ \A i \in 1..Len(Tail(s)) : Tail(s)[i] = s[i + 1]
  BY EmptySeq, LenProperties, HeadTailProperties
<1>2. /\ p \in Seq(S) /\ Len(p) = k + 1 /\ k \in Nat
      /\ \A i \in 1..(k + 1) : p[i] = s[i]
  BY <1>1, PrefixType
<1>3. /\ q \in Seq(S) /\ Len(q) = k
      /\ \A i \in 1..k : q[i] = Tail(s)[i]
  <2>1. k \in 0..Len(Tail(s))
    BY <1>1
  <2> QED BY <1>1, <2>1, PrefixType
<1> HIDE DEF p, q
<1>4. p # <<>>
  BY <1>2
<1>5. Head(p) = Head(s)
  BY <1>1, <1>2, <1>4
<1>6. /\ Tail(p) \in Seq(S) /\ Len(Tail(p)) = k
      /\ \A i \in 1..k : Tail(p)[i] = p[i + 1]
  BY <1>2, <1>4, HeadTailProperties
<1>7. \A i \in 1..k : Tail(p)[i] = q[i]
  <2> TAKE i \in 1..k
  <2>1. i + 1 \in 1..(k + 1) /\ i \in 1..Len(Tail(s))
    BY <1>1, <1>2
  <2> QED BY <1>1, <1>2, <1>3, <1>6, <2>1
<1>8. Tail(p) = q
  BY <1>3, <1>6, <1>7, SeqEqual
<1> QED BY <1>4, <1>5, <1>8 DEF p, q

(* A name that is among some metrics once.                                 *)
LEMMA CountedOnce ==
  ASSUME NEW name, NEW s \in Seq(C!Name), NEW i \in 1..Len(s),
         \A j \in 1..Len(s) : s[j] = name <=> j = i
  PROVE  Weigh(Counted(name), s) = 1
<1> DEFINE f == [j \in DOMAIN s |-> Counted(name)[s[j]]]
           D == 1..Len(s)
           R == {i}
<1>1. DOMAIN s = D /\ IsFiniteSet(D) /\ R \in SUBSET D
  BY LenProperties, FS_Interval
<1>2. \A j \in D : f[j] = IF j = i THEN 1 ELSE 0
  <2> TAKE j \in D
  <2>1. s[j] \in C!Name
    BY ElementOfSeq
  <2> QED BY <1>1, <2>1, CountedType
<1>3. SumFunctionOnSet(f, D) = SumFunctionOnSet(f, R)
  <2>1. \A j \in D \ R : j # i
    OBVIOUS
  <2> HIDE DEF f, D, R
  <2>2. (\A j \in D : f[j] \in Int) /\ \A j \in D \ R : f[j] = 0
    BY <1>2, <2>1
  <2> QED BY <1>1, <2>2, SumZeros
<1>4. SumFunctionOnSet(f, R) = 1
  <2>1. IsFiniteSet(R) /\ R \ {i} = {} /\ i \in R
    BY FS_Singleton
  <2>2. (\A j \in R : f[j] \in Int) /\ f[i] = 1
    BY <1>2
  <2> HIDE DEF f, R
  <2>3. SumFunctionOnSet(f, R) = f[i] + SumFunctionOnSet(f, R \ {i})
    BY <2>1, <2>2, SumRemove
  <2>4. SumFunctionOnSet(f, R \ {i}) = 0
    BY <2>1, SumEmpty
  <2> QED BY <2>2, <2>3, <2>4
<1>5. Weigh(Counted(name), s) = SumFunctionOnSet(f, D)
  BY <1>1 DEF Weigh, SumFunction
<1> QED BY <1>3, <1>4, <1>5

LEMMA CountedNever ==
  ASSUME NEW name, NEW s \in Seq(C!Name),
         \A j \in 1..Len(s) : s[j] # name
  PROVE  Weigh(Counted(name), s) = 0
<1> DEFINE f == [j \in DOMAIN s |-> Counted(name)[s[j]]]
           D == 1..Len(s)
           R == {}
<1>1. DOMAIN s = D /\ IsFiniteSet(D) /\ R \in SUBSET D
  BY LenProperties, FS_Interval
<1>2. \A j \in D : f[j] = 0
  <2> TAKE j \in D
  <2>1. s[j] \in C!Name
    BY ElementOfSeq
  <2> QED BY <1>1, <2>1, CountedType
<1>3. SumFunctionOnSet(f, D) = SumFunctionOnSet(f, R)
  <2> HIDE DEF f, D, R
  <2>1. (\A j \in D : f[j] \in Int) /\ \A j \in D \ R : f[j] = 0
    BY <1>2
  <2> QED BY <1>1, <2>1, SumZeros
<1>4. Weigh(Counted(name), s) = SumFunctionOnSet(f, D)
  BY <1>1 DEF Weigh, SumFunction
<1> QED BY <1>3, <1>4, SumEmpty

Counts(failed, name) == IF failed \/ name # "errors_total" THEN 1 ELSE 0

(* A response is one metric of each name, and of errors if it failed.      *)
LEMMA MetricsOfCount ==
  ASSUME NEW failed \in BOOLEAN, NEW name \in C!Name
  PROVE  Weigh(Counted(name), C!MetricsOf(failed)) = Counts(failed, name)
<1> DEFINE s == C!MetricsOf(failed)
<1>1. CASE failed = TRUE
  <2>1. /\ s \in Seq(C!Name) /\ Len(s) = 5
        /\ s[1] = "response_time" /\ s[2] = "requests_total"
        /\ s[3] = "errors_total" /\ s[4] = "bytes_sent"
        /\ s[5] = "bytes_received"
    BY <1>1, MetricsOfFailed
  <2> HIDE DEF s
  <2>2. \E i \in 1..Len(s) : \A j \in 1..Len(s) : s[j] = name <=> j = i
    <3>1. \A j \in 1..Len(s) : j = 1 \/ j = 2 \/ j = 3 \/ j = 4 \/ j = 5
      BY <2>1
    <3>2. CASE name = "response_time"
      <4>1. 1 \in 1..Len(s) /\ \A j \in 1..Len(s) : s[j] = name <=> j = 1
        BY <2>1, <3>1, <3>2
      <4> QED BY <4>1
    <3>3. CASE name = "requests_total"
      <4>1. 2 \in 1..Len(s) /\ \A j \in 1..Len(s) : s[j] = name <=> j = 2
        BY <2>1, <3>1, <3>3
      <4> QED BY <4>1
    <3>4. CASE name = "bytes_sent"
      <4>1. 4 \in 1..Len(s) /\ \A j \in 1..Len(s) : s[j] = name <=> j = 4
        BY <2>1, <3>1, <3>4
      <4> QED BY <4>1
    <3>5. CASE name = "bytes_received"
      <4>1. 5 \in 1..Len(s) /\ \A j \in 1..Len(s) : s[j] = name <=> j = 5
        BY <2>1, <3>1, <3>5
      <4> QED BY <4>1
    <3>6. CASE name = "errors_total"
      <4>1. 3 \in 1..Len(s) /\ \A j \in 1..Len(s) : s[j] = name <=> j = 3
        BY <2>1, <3>1, <3>6
      <4> QED BY <4>1
    <3> QED BY <3>2, <3>3, <3>4, <3>5, <3>6 DEF C!Name
  <2>3. Weigh(Counted(name), s) = 1
    BY <2>1, <2>2, CountedOnce
  <2> QED BY <1>1, <2>3 DEF s, Counts
<1>2. CASE failed = FALSE
  <2>1. /\ s \in Seq(C!Name) /\ Len(s) = 4
        /\ s[1] = "response_time" /\ s[2] = "requests_total"
        /\ s[3] = "bytes_sent" /\ s[4] = "bytes_received"
    BY <1>2, MetricsOfServed
  <2> HIDE DEF s
  <2>0. \A j \in 1..Len(s) : j = 1 \/ j = 2 \/ j = 3 \/ j = 4
    BY <2>1
  <2>2. ASSUME name # "errors_total"
        PROVE  \E i \in 1..Len(s) : \A j \in 1..Len(s) : s[j] = name <=> j = i
    <3>1. \A j \in 1..Len(s) : j = 1 \/ j = 2 \/ j = 3 \/ j = 4
      BY <2>0
    <3>2. CASE name = "response_time"
      <4>1. 1 \in 1..Len(s) /\ \A j \in 1..Len(s) : s[j] = name <=> j = 1
        BY <2>1, <3>1, <3>2
      <4> QED BY <4>1
    <3>3. CASE name = "requests_total"
      <4>1. 2 \in 1..Len(s) /\ \A j \in 1..Len(s) : s[j] = name <=> j = 2
        BY <2>1, <3>1, <3>3
      <4> QED BY <4>1
    <3>4. CASE name = "bytes_sent"
      <4>1. 3 \in 1..Len(s) /\ \A j \in 1..Len(s) : s[j] = name <=> j = 3
        BY <2>1, <3>1, <3>4
      <4> QED BY <4>1
    <3>5. CASE name = "bytes_received"
      <4>1. 4 \in 1..Len(s) /\ \A j \in 1..Len(s) : s[j] = name <=> j = 4
        BY <2>1, <3>1, <3>5
      <4> QED BY <4>1
    <3> QED BY <2>2, <3>2, <3>3, <3>4, <3>5 DEF C!Name
  <2>3. CASE name = "errors_total"
    <3>1. \A j \in 1..Len(s) : s[j] # name
      BY <2>0, <2>1, <2>3
    <3>2. Weigh(Counted(name), s) = 0
      BY <2>1, <3>1, CountedNever
    <3> QED BY <1>2, <2>3, <3>2 DEF s, Counts
  <2>4. CASE name # "errors_total"
    <3>1. Weigh(Counted(name), s) = 1
      BY <2>1, <2>2, <2>4, CountedOnce
    <3> QED BY <2>4, <3>1 DEF s, Counts
  <2> QED BY <2>3, <2>4
<1> QED BY <1>1, <1>2

LEMMA MetricsOfOrder ==
  ASSUME NEW failed \in BOOLEAN
  PROVE  LET s == C!MetricsOf(failed)
         IN  s \in Seq(C!Name) /\ InOrder(s) /\ Owes(s) = 0
<1> DEFINE s == C!MetricsOf(failed)
<1>1. s \in Seq(C!Name) /\ s[1] = "response_time" /\ s[2] = "requests_total"
  <2>1. failed = TRUE \/ failed = FALSE
    OBVIOUS
  <2> QED BY <2>1, MetricsOfFailed, MetricsOfServed
<1>2. CASE failed = TRUE
  <2>1. Len(s) = 5 /\ s[4] = "bytes_sent" /\ s[5] = "bytes_received"
    BY <1>2, MetricsOfFailed
  <2> HIDE DEF s
  <2>2. InOrder(s)
    <3> SUFFICES ASSUME NEW i \in 2..Len(s), s[i] = "errors_total"
                 PROVE  s[i - 1] = "requests_total"
      BY DEF InOrder
    <3>1. i = 2 \/ i = 3 \/ i = 4 \/ i = 5
      BY <2>1
    <3>2. i = 3 /\ i - 1 = 2
      BY <1>1, <2>1, <3>1
    <3> QED BY <1>1, <3>2
  <2> QED BY <1>1, <2>2 DEF Owes, s
<1>3. CASE failed = FALSE
  <2>1. Len(s) = 4 /\ s[3] = "bytes_sent" /\ s[4] = "bytes_received"
    BY <1>3, MetricsOfServed
  <2> HIDE DEF s
  <2>2. InOrder(s)
    <3> SUFFICES ASSUME NEW i \in 2..Len(s), s[i] = "errors_total"
                 PROVE  FALSE
      BY DEF InOrder
    <3>1. i = 2 \/ i = 3 \/ i = 4
      BY <2>1
    <3> QED BY <1>1, <2>1, <3>1
  <2> QED BY <1>1, <2>2 DEF Owes, s
<1> QED BY <1>2, <1>3
-----------------------------------------------------------------------------
(* What the steps do to the counts.                                        *)
LEMMA TotalUpdated ==
  ASSUME C!TypeOK, IsFiniteSet(DOMAIN updates),
         NEW x \in C!Name, NEW order \in Orders,
         updates' = C!Updated(<<x, order>>)
  PROVE  /\ C!IsABag(updates)' /\ (C!BagToSet(updates) \subseteq C!Key)'
         /\ IsFiniteSet(DOMAIN updates')
         /\ \A name \in C!Name :
              C!Total(name)' = C!Total(name) + IF x = name THEN 1 ELSE 0
<1> DEFINE key == <<x, order>>
           b == updates'
<1>1. b = [k \in DOMAIN updates \cup {key} |->
             (IF k \in DOMAIN updates THEN updates[k] ELSE 0)
             + (IF k = key THEN 1 ELSE 0)]
  BY UpdatedIs
<1>2. /\ DOMAIN updates \subseteq C!Key
      /\ \A k \in DOMAIN updates : updates[k] \in Nat /\ updates[k] > 0
  BY DEF C!TypeOK, C!IsABag, C!BagToSet
<1>3. key \in C!Key /\ key[1] = x
  BY DEF C!Key
<1> HIDE DEF key
<1>4. /\ DOMAIN b = DOMAIN updates \cup {key}
      /\ \A k \in DOMAIN updates \ {key} : b[k] = updates[k]
      /\ key \in DOMAIN updates => b[key] = updates[key] + 1
      /\ key \notin DOMAIN updates => b[key] = 1
  BY <1>1, <1>2
<1>5. \A k \in DOMAIN b : b[k] \in Nat /\ b[k] > 0
  BY <1>2, <1>4
<1>6. C!IsABag(updates)' /\ (C!BagToSet(updates) \subseteq C!Key)'
  <2>1. b = [k \in DOMAIN b |-> b[k]]
    BY <1>1
  <2> QED BY <1>2, <1>3, <1>4, <1>5, <2>1 DEF C!IsABag, C!BagToSet
<1>7. IsFiniteSet(DOMAIN b)
  BY <1>4, FS_AddElement
<1>8. ASSUME NEW name \in C!Name
      PROVE  C!Total(name)' = C!Total(name) + IF x = name THEN 1 ELSE 0
  <2> DEFINE D == {k \in DOMAIN updates : k[1] = name}
             F == {k \in DOMAIN b : k[1] = name}
  <2>1. C!Total(name) = SumFunctionOnSet(updates, D)
    BY SameSums DEF C!Total
  <2>2. C!Total(name)' = SumFunctionOnSet(b, F)
    BY SameSums DEF C!Total
  <2>3. IsFiniteSet(D) /\ \A k \in D : updates[k] \in Int /\ b[k] \in Int
    <3>1. D \subseteq DOMAIN updates
      OBVIOUS
    <3>2. \A k \in D : updates[k] \in Nat /\ b[k] \in Nat
      BY <1>2, <1>4, <1>5
    <3> QED BY <3>1, <3>2, FS_Subset
  <2>4. SumFunctionOnSet(updates, D) \in Int
    <3> HIDE DEF D
    <3> QED BY <2>3, SumInt
  <2>5. CASE x # name
    <3>1. F = D /\ key \notin D
      BY <1>3, <1>4, <2>5
    <3>2. \A k \in D : updates[k] = b[k]
      BY <1>4, <3>1
    <3> HIDE DEF D, F
    <3>3. SumFunctionOnSet(updates, D) = SumFunctionOnSet(b, D)
      BY <2>3, <3>2, SumSame
    <3> QED BY <2>1, <2>2, <2>4, <2>5, <3>1, <3>3
  <2>6. CASE x = name /\ key \in DOMAIN updates
    <3>1. F = D /\ key \in D
      BY <1>3, <1>4, <2>6
    <3>2. \A k \in D \ {key} : updates[k] = b[k]
      BY <1>4, <3>1
    <3> HIDE DEF D, F
    <3>3. SumFunctionOnSet(b, D)
            = SumFunctionOnSet(updates, D) + (b[key] - updates[key])
      BY <2>3, <3>1, <3>2, SumChange
    <3>4. b[key] - updates[key] = 1
      BY <1>2, <1>4, <2>6
    <3> QED BY <2>1, <2>2, <2>4, <2>6, <3>1, <3>3, <3>4
  <2>7. CASE x = name /\ key \notin DOMAIN updates
    <3>1. F = D \cup {key} /\ key \notin D
      BY <1>3, <1>4, <2>7
    <3>2. \A k \in D : updates[k] = b[k]
      BY <1>4, <3>1
    <3>3. b[key] = 1
      BY <1>4, <2>7
    <3> HIDE DEF D, F
    <3>4. SumFunctionOnSet(updates, D) = SumFunctionOnSet(b, D)
      BY <2>3, <3>2, SumSame
    <3>5. SumFunctionOnSet(b, D \cup {key}) = b[key] + SumFunctionOnSet(b, D)
      BY <2>3, <3>1, <3>3, SumAdd
    <3> QED BY <2>1, <2>2, <2>4, <2>7, <3>1, <3>3, <3>4, <3>5
  <2> QED BY <2>5, <2>6, <2>7
<1> QED BY <1>6, <1>7, <1>8

LEMMA TotalNat ==
  ASSUME C!TypeOK, IsFiniteSet(DOMAIN updates), NEW name
  PROVE  C!Total(name) \in Nat
<1> DEFINE D == {k \in DOMAIN updates : k[1] = name}
<1>1. C!Total(name) = SumFunctionOnSet(updates, D)
  BY SameSums DEF C!Total
<1>2. D \subseteq DOMAIN updates /\ \A k \in D : updates[k] \in Nat
  BY DEF C!TypeOK, C!IsABag
<1>3. IsFiniteSet(D)
  BY <1>2, FS_Subset
<1> HIDE DEF D
<1> QED BY <1>1, <1>2, <1>3, SumNat

(* A step of one recorder, that has then t still to send.                  *)
LEMMA SendingChanged ==
  ASSUME sending \in [Recorders -> Seq(C!Name)], NEW r \in Recorders,
         NEW t \in Seq(C!Name), sending' = [sending EXCEPT ![r] = t]
  PROVE  /\ sending' \in [Recorders -> Seq(C!Name)]
         /\ Owed \in Nat /\ Owed' = Owed + (Owes(t) - Owes(sending[r]))
         /\ \A name \in C!Name :
              /\ Unsent(name) \in Nat
              /\ Unsent(name)' =
                   Unsent(name) + (Weigh(Counted(name), t)
                                   - Weigh(Counted(name), sending[r]))
<1>1. sending' \in [Recorders -> Seq(C!Name)]
  OBVIOUS
<1>2. \A q \in Recorders : sending'[q] = IF q = r THEN t ELSE sending[q]
  OBVIOUS
<1>3. IsFiniteSet(Recorders)
  BY CollectorAssumption
<1>4. Owed \in Nat /\ Owed' = Owed + (Owes(t) - Owes(sending[r]))
  <2> DEFINE f == [q \in Recorders |-> Owes(sending[q])]
             g == [q \in Recorders |-> Owes(sending'[q])]
  <2>1. Owed = SumFunctionOnSet(f, Recorders)
    BY DEF Owed
  <2>2. Owed' = SumFunctionOnSet(g, Recorders)
    BY DEF Owed, Owes
  <2>3. \A q \in Recorders : f[q] \in Nat /\ g[q] \in Nat
    BY DEF Owes
  <2>4. /\ \A q \in Recorders \ {r} : f[q] = g[q]
        /\ f[r] = Owes(sending[r]) /\ g[r] = Owes(t)
    BY <1>2
  <2> HIDE DEF f, g
  <2>5. /\ SumFunctionOnSet(f, Recorders) \in Nat
        /\ SumFunctionOnSet(g, Recorders) =
             SumFunctionOnSet(f, Recorders) + (g[r] - f[r])
    <3>1. \A q \in Recorders : f[q] \in Int /\ g[q] \in Int
      BY <2>3
    <3> QED BY <1>3, <2>3, <2>4, <3>1, SumNat, SumChange
  <2> QED BY <2>1, <2>2, <2>4, <2>5
<1>5. ASSUME NEW name \in C!Name
      PROVE  /\ Unsent(name) \in Nat
             /\ Unsent(name)' =
                  Unsent(name) + (Weigh(Counted(name), t)
                                  - Weigh(Counted(name), sending[r]))
  <2> DEFINE f == [q \in Recorders |-> Weigh(Counted(name), sending[q])]
             g == [q \in Recorders |-> Weigh(Counted(name), sending'[q])]
  <2>1. Unsent(name) = SumFunctionOnSet(f, Recorders)
    BY DEF Unsent
  <2>2. Unsent(name)' = SumFunctionOnSet(g, Recorders)
    BY DEF Unsent, Weigh, Counted
  <2>3. \A q \in Recorders : f[q] \in Nat /\ g[q] \in Nat
    <3> TAKE q \in Recorders
    <3>1. sending[q] \in Seq(C!Name) /\ sending'[q] \in Seq(C!Name)
      BY <1>1
    <3>2. Counted(name) \in [C!Name -> Nat]
      BY CountedType
    <3>3. /\ Weigh(Counted(name), sending[q]) \in Nat
          /\ Weigh(Counted(name), sending'[q]) \in Nat
      BY <3>1, <3>2, WeighNat
    <3> QED BY <3>3
  <2>4. /\ \A q \in Recorders \ {r} : f[q] = g[q]
        /\ f[r] = Weigh(Counted(name), sending[r])
        /\ g[r] = Weigh(Counted(name), t)
    BY <1>2
  <2> HIDE DEF f, g
  <2>5. /\ SumFunctionOnSet(f, Recorders) \in Nat
        /\ SumFunctionOnSet(g, Recorders) =
             SumFunctionOnSet(f, Recorders) + (g[r] - f[r])
    <3>1. \A q \in Recorders : f[q] \in Int /\ g[q] \in Int
      BY <2>3
    <3> QED BY <1>3, <2>3, <2>4, <3>1, SumNat, SumChange
  <2> QED BY <2>1, <2>2, <2>4, <2>5
<1> QED BY <1>1, <1>4, <1>5
-----------------------------------------------------------------------------
LEMMA CollectorInit == C!Init => CollectorInv
<1> SUFFICES ASSUME C!Init PROVE CollectorInv
  OBVIOUS
<1>1. /\ sending = [r \in Recorders |-> <<>>] /\ metricsChan = <<>>
      /\ inHand = <<>> /\ DOMAIN updates = {} /\ collecting = TRUE
      /\ recorded = [responses |-> 0, failures |-> 0] /\ resets = 0
  BY EmptyIs DEF C!Init
<1>2. IsFiniteSet(DOMAIN updates)
  BY <1>1, FS_EmptySet
<1>3. C!TypeOK
  <2>1. sending \in [Recorders -> Seq(C!Name)]
    BY <1>1
  <2>2. /\ metricsChan \in Seq(C!Name) /\ Len(metricsChan) <= ChannelSize
        /\ inHand \in Seq(C!Name) /\ Len(inHand) <= 1
    BY <1>1, CollectorAssumption
  <2>3. C!IsABag(updates) /\ C!BagToSet(updates) \subseteq C!Key
    <3>1. updates = [e \in {} |-> 1]
      BY DEF C!Init, C!EmptyBag, C!SetToBag
    <3> QED BY <3>1 DEF C!IsABag, C!BagToSet
  <2> QED BY <1>1, <2>1, <2>2, <2>3, CollectorAssumption DEF C!TypeOK
<1>4. \A name : C!Total(name) = 0
  <2> TAKE name
  <2> DEFINE D == {k \in DOMAIN updates : k[1] = name}
  <2>1. D = {}
    BY <1>1
  <2> QED BY <2>1, SameSums, SumEmpty DEF C!Total
<1>5. \A name : Weigh(Counted(name), <<>>) = 0
  BY WeighEmpty
<1>6. IsFiniteSet(Recorders)
  BY CollectorAssumption
<1>7. \A name \in C!Name : Unsent(name) = 0
  <2> TAKE name \in C!Name
  <2> DEFINE f == [r \in Recorders |-> Weigh(Counted(name), sending[r])]
             R == {}
  <2>1. \A r \in Recorders : f[r] = 0
    BY <1>1, <1>5
  <2>2. SumFunctionOnSet(f, Recorders) = SumFunctionOnSet(f, R)
    <3>1. (\A r \in Recorders : f[r] \in Int) /\ R \in SUBSET Recorders
      BY <2>1
    <3> HIDE DEF f, R
    <3> QED BY <1>6, <2>1, <3>1, SumZeros
  <2> QED BY <2>2, SumEmpty DEF Unsent
<1>8. Owed = 0
  <2> DEFINE f == [r \in Recorders |-> Owes(sending[r])]
             R == {}
  <2>1. \A r \in Recorders : f[r] = 0
    BY <1>1 DEF Owes
  <2>2. SumFunctionOnSet(f, Recorders) = SumFunctionOnSet(f, R)
    <3>1. (\A r \in Recorders : f[r] \in Int) /\ R \in SUBSET Recorders
      BY <2>1
    <3> HIDE DEF f, R
    <3> QED BY <1>6, <2>1, <3>1, SumZeros
  <2> QED BY <2>2, SumEmpty DEF Owed
<1>9. \A r \in Recorders : InOrder(sending[r])
  BY <1>1 DEF InOrder
<1>10. Complete
  <2>1. \A name : C!Expected(name) = 0
    BY <1>1 DEF C!Expected
  <2> QED BY <1>1, <1>4, <1>5, <1>7, <2>1 DEF Complete, Waiting, Received
<1>11. Balanced
  <2>1. Len(metricsChan) = 0
    BY <1>1
  <2>2. Prefix(metricsChan, 0) = <<>>
    BY <1>1 DEF Prefix
  <2>3. \A name : Seen(name, 0) = 0
    BY <1>1, <1>4, <1>5, <2>2 DEF Seen, Received
  <2> QED BY <1>4, <1>8, <2>1, <2>3 DEF Balanced
<1> QED BY <1>1, <1>2, <1>3, <1>9, <1>10, <1>11 DEF CollectorInv

LEMMA CollectorTypes ==
  ASSUME CollectorInv
  PROVE  /\ metricsChan \in Seq(C!Name) /\ Len(metricsChan) \in Nat
         /\ sending \in [Recorders -> Seq(C!Name)] /\ Owed \in Nat
         /\ \A name \in C!Name :
              /\ C!Total(name) \in Nat /\ Received(name) \in Nat
              /\ Waiting(name) \in Nat /\ Unsent(name) \in Nat
              /\ Seen(name, Len(metricsChan)) = Received(name) + Waiting(name)
              /\ \A k \in 0..Len(metricsChan) : Seen(name, k) \in Nat
<1>1. /\ metricsChan \in Seq(C!Name) /\ Len(metricsChan) \in Nat
      /\ sending \in [Recorders -> Seq(C!Name)]
  BY LenProperties DEF CollectorInv, C!TypeOK
<1>2. IsFiniteSet(Recorders)
  BY CollectorAssumption
<1>3. Owed \in Nat
  <2> DEFINE f == [q \in Recorders |-> Owes(sending[q])]
  <2>1. \A q \in Recorders : f[q] \in Nat
    BY DEF Owes
  <2> HIDE DEF f
  <2>2. SumFunctionOnSet(f, Recorders) \in Nat
    BY <1>2, <2>1, SumNat
  <2> QED BY <2>2 DEF Owed, f
<1>4. ASSUME NEW name \in C!Name
      PROVE  /\ C!Total(name) \in Nat /\ Received(name) \in Nat
             /\ Waiting(name) \in Nat /\ Unsent(name) \in Nat
             /\ Seen(name, Len(metricsChan)) = Received(name) + Waiting(name)
             /\ \A k \in 0..Len(metricsChan) : Seen(name, k) \in Nat
  <2>1. C!Total(name) \in Nat
    BY TotalNat DEF CollectorInv
  <2>2. Counted(name) \in [C!Name -> Nat]
    BY CountedType
  <2>3. Waiting(name) \in Nat
    BY <1>1, <2>2, WeighNat DEF Waiting
  <2>4. Unsent(name) \in Nat
    <3> DEFINE f == [q \in Recorders |-> Weigh(Counted(name), sending[q])]
    <3>1. \A q \in Recorders : f[q] \in Nat
      BY <1>1, <2>2, WeighNat
    <3> HIDE DEF f
    <3>2. SumFunctionOnSet(f, Recorders) \in Nat
      BY <1>2, <3>1, SumNat
    <3> QED BY <3>2 DEF Unsent, f
  <2>5. Received(name) \in Nat
    <3>1. Weigh(Counted(name), inHand) \in Nat
      BY <2>2, WeighNat DEF CollectorInv, C!TypeOK
    <3> QED BY <2>1, <3>1 DEF Received
  <2>6. Seen(name, Len(metricsChan)) = Received(name) + Waiting(name)
    BY <1>1, PrefixAll DEF Seen, Waiting
  <2>7. ASSUME NEW k \in 0..Len(metricsChan) PROVE Seen(name, k) \in Nat
    <3>1. Prefix(metricsChan, k) \in Seq(C!Name)
      BY <1>1, PrefixType
    <3>2. Weigh(Counted(name), Prefix(metricsChan, k)) \in Nat
      BY <2>2, <3>1, WeighNat
    <3> QED BY <2>5, <3>2 DEF Seen
  <2> QED BY <2>1, <2>3, <2>4, <2>7, <2>6, <2>5
<1> QED BY <1>1, <1>3, <1>4

LEMMA RecordResponseInv ==
  ASSUME CollectorInv, NEW r \in Recorders, NEW failed \in BOOLEAN,
         C!RecordResponse(r, failed)
  PROVE  CollectorInv'
<1> DEFINE t == C!MetricsOf(failed)
<1>1. t \in Seq(C!Name) /\ InOrder(t) /\ Owes(t) = 0
  BY MetricsOfOrder
<1>2. /\ sending \in [Recorders -> Seq(C!Name)] /\ sending[r] = <<>>
      /\ sending' = [sending EXCEPT ![r] = t]
      /\ recorded' = [responses |-> recorded.responses + 1,
                      failures |-> recorded.failures + (IF failed THEN 1 ELSE 0)]
      /\ recorded.responses < MaxResponses
      /\ UNCHANGED <<metricsChan, inHand, updates, collecting, resets>>
  BY DEF C!RecordResponse, CollectorInv, C!TypeOK
<1> HIDE DEF t
<1>3. /\ sending' \in [Recorders -> Seq(C!Name)]
      /\ Owed' = Owed + (Owes(t) - Owes(sending[r]))
      /\ \A name \in C!Name :
           Unsent(name)' = Unsent(name) + (Weigh(Counted(name), t)
                                           - Weigh(Counted(name), sending[r]))
  BY <1>1, <1>2, SendingChanged
<1>4. /\ Owed \in Nat
      /\ \A name \in C!Name : /\ Received(name) \in Nat /\ Waiting(name) \in Nat
                              /\ Unsent(name) \in Nat
  BY CollectorTypes
<1>5. Owed' = Owed
  BY <1>1, <1>2, <1>3, <1>4 DEF Owes
<1>6. /\ recorded' \in
           [responses : 0..MaxResponses, failures : 0..MaxResponses]
      /\ recorded'.failures <= recorded'.responses
      /\ \A name : C!Expected(name) \in Nat
      /\ \A name : C!Expected(name)' = C!Expected(name) + Counts(failed, name)
  <2>1. /\ recorded \in
             [responses : 0..MaxResponses, failures : 0..MaxResponses]
        /\ recorded.failures <= recorded.responses
    BY DEF CollectorInv, C!TypeOK
  <2>2. PICK more \in 0..1 : more = IF failed THEN 1 ELSE 0
    OBVIOUS
  <2>3. recorded' = [responses |-> recorded.responses + 1,
                     failures |-> recorded.failures + more]
    BY <1>2, <2>2
  <2>4. \A name : Counts(failed, name) =
                    IF name = "errors_total" THEN more ELSE 1
    BY <2>2 DEF Counts
  <2> QED BY <1>2, <2>1, <2>3, <2>4, CollectorAssumption DEF C!Expected
<1>7. C!TypeOK'
  BY <1>2, <1>3, <1>6 DEF CollectorInv, C!TypeOK, C!IsABag, C!BagToSet
<1>8. \A q \in Recorders : InOrder(sending'[q])
  BY <1>1, <1>2 DEF CollectorInv
<1>9. ASSUME Complete, NEW name \in C!Name
      PROVE  Received(name)' + Waiting(name)' + Unsent(name)' = C!Expected(name)'
  <2>1. /\ Weigh(Counted(name), t) = Counts(failed, name)
        /\ Weigh(Counted(name), sending[r]) = 0
        /\ Counts(failed, name) \in Nat
    BY <1>2, MetricsOfCount, WeighEmpty DEF t, Counts
  <2>2. Unsent(name)' = Unsent(name) + Counts(failed, name)
    BY <1>3, <1>4, <2>1
  <2>3. Received(name)' = Received(name) /\ Waiting(name)' = Waiting(name)
    BY <1>2 DEF Received, C!Total, Waiting, Weigh, Counted
  <2>4. Received(name) + Waiting(name) + Unsent(name) = C!Expected(name)
    BY <1>9 DEF Complete
  <2>5. C!Expected(name)' = C!Expected(name) + Counts(failed, name)
    BY <1>6
  <2> QED BY <1>4, <1>6, <2>1, <2>2, <2>3, <2>4, <2>5
<1>10. Balanced => Balanced'
  <2>1. \A name, k : Seen(name, k)' = Seen(name, k)
    BY <1>2 DEF Seen, Received, C!Total, Prefix, Weigh, Counted
  <2>2. \A name : C!Total(name)' = C!Total(name)
    BY <1>2 DEF C!Total
  <2> QED BY <1>2, <1>5, <2>1, <2>2 DEF Balanced
<1>11. (resets = 0 => Complete /\ Balanced)'
  BY <1>2, <1>9, <1>10 DEF CollectorInv, Complete
<1> QED BY <1>2, <1>6, <1>7, <1>8, <1>11 DEF CollectorInv

LEMMA SendInv ==
  ASSUME CollectorInv, NEW r \in Recorders, C!Send(r)
  PROVE  CollectorInv'
<1> DEFINE s == sending[r]
           x == Head(s)
           t == Tail(s)
           One(name) == IF x = name THEN 1 ELSE 0
<1>0. PICK n : n = Len(metricsChan)
  OBVIOUS
<1>1. /\ sending \in [Recorders -> Seq(C!Name)] /\ s \in Seq(C!Name)
      /\ metricsChan \in Seq(C!Name) /\ n \in Nat
  BY <1>0, LenProperties DEF CollectorInv, C!TypeOK
<1>2. /\ s # <<>> /\ n < ChannelSize
      /\ metricsChan' = Append(metricsChan, x)
      /\ sending' = [sending EXCEPT ![r] = t]
      /\ UNCHANGED <<inHand, updates, collecting, recorded, resets>>
  BY <1>0 DEF C!Send
<1>3. /\ x \in C!Name /\ t \in Seq(C!Name) /\ x = s[1]
      /\ Len(s) \in Nat \ {0} /\ Len(t) = Len(s) - 1
      /\ \A i \in 1..Len(t) : t[i] = s[i + 1]
  BY <1>1, <1>2, EmptySeq, LenProperties, HeadTailProperties
<1>4. \A name : Weigh(Counted(name), s)
                  = One(name) + Weigh(Counted(name), t)
  <2> TAKE name
  <2>1. Counted(name) \in [C!Name -> Nat] /\ Counted(name)[x] = One(name)
    BY <1>3, CountedType
  <2> HIDE DEF x, t, One, s
  <2>2. Weigh(Counted(name), s)
          = Counted(name)[Head(s)] + Weigh(Counted(name), Tail(s))
    BY <1>1, <1>2, <2>1, WeighTail
  <2> QED BY <2>1, <2>2 DEF x, t
<1>5. \A name : Weigh(Counted(name), t) \in Nat
  BY <1>3, CountedType, WeighNat
<1>6. InOrder(t)
  <2> SUFFICES ASSUME NEW i \in 2..Len(t), t[i] = "errors_total"
               PROVE  t[i - 1] = "requests_total"
    BY DEF InOrder
  <2>1. /\ i + 1 \in 2..Len(s) /\ (i + 1) - 1 = i /\ (i - 1) + 1 = i
        /\ i \in 1..Len(t) /\ i - 1 \in 1..Len(t)
    BY <1>3
  <2>2. s[i + 1] = "errors_total"
    BY <1>3, <2>1
  <2>3. s[i] = "requests_total"
    BY <2>1, <2>2 DEF CollectorInv, InOrder
  <2> QED BY <1>3, <2>1, <2>3
<1>7. /\ Owes(s) = One("errors_total")
      /\ Owes(t) \in 0..1
      /\ Owes(t) = 1 => x = "requests_total"
  <2>1. Owes(s) = One("errors_total") /\ Owes(t) \in 0..1
    BY <1>2, <1>3 DEF Owes
  <2>2. ASSUME Owes(t) = 1 PROVE x = "requests_total"
    <3>1. t # <<>> /\ t[1] = "errors_total"
      BY <2>2 DEF Owes
    <3>2. Len(t) \in Nat \ {0}
      BY <1>3, <3>1, EmptySeq, LenProperties
    <3> HIDE DEF s, x, t
    <3>3. 1 \in 1..Len(t) /\ 2 \in 2..Len(s) /\ 1 + 1 = 2 /\ 2 - 1 = 1
      BY <1>3, <3>2
    <3>4. s[2] = "errors_total"
      BY <1>3, <3>1, <3>3
    <3>5. s[1] = "requests_total"
      <4>1. InOrder(s)
        BY DEF CollectorInv, s
      <4> QED BY <3>3, <3>4, <4>1 DEF InOrder
    <3> QED BY <1>3, <3>5
  <2> QED BY <2>1, <2>2
<1> HIDE DEF s, x, t
<1>8. /\ sending' \in [Recorders -> Seq(C!Name)]
      /\ Owed \in Nat /\ Owed' = Owed + (Owes(t) - Owes(s))
      /\ \A name \in C!Name :
           /\ Unsent(name) \in Nat
           /\ Unsent(name)' = Unsent(name) + (Weigh(Counted(name), t)
                                              - Weigh(Counted(name), s))
  BY <1>1, <1>2, <1>3, SendingChanged DEF s
<1>9. /\ metricsChan' \in Seq(C!Name) /\ Len(metricsChan') = n + 1
      /\ n + 1 <= ChannelSize
  BY <1>0, <1>1, <1>2, <1>3, AppendProperties, CollectorAssumption
<1>10. C!TypeOK'
  BY <1>2, <1>8, <1>9 DEF CollectorInv, C!TypeOK, C!IsABag, C!BagToSet
<1>11. \A q \in Recorders : InOrder(sending'[q])
  BY <1>1, <1>2, <1>6 DEF CollectorInv
<1>12. \A name : /\ C!Total(name)' = C!Total(name)
                 /\ Received(name)' = Received(name)
  BY <1>2 DEF C!Total, Received, Weigh, Counted
<1>13. \A name : Weigh(Counted(name), metricsChan')
                   = Weigh(Counted(name), metricsChan) + One(name)
  <2> TAKE name
  <2>1. Counted(name) \in [C!Name -> Nat] /\ Counted(name)[x] = One(name)
    BY <1>3, CountedType
  <2> HIDE DEF One
  <2>2. Weigh(Counted(name), Append(metricsChan, x))
          = Weigh(Counted(name), metricsChan) + Counted(name)[x]
    BY <1>1, <1>3, <2>1, WeighAppend
  <2> QED BY <1>2, <2>1, <2>2
<1>14. \A name : \A k \in 0..n : Seen(name, k)' = Seen(name, k)
  <2> TAKE name
  <2> TAKE k \in 0..n
  <2>1. Prefix(metricsChan', k) = Prefix(metricsChan, k)
    BY <1>0, <1>1, <1>2, <1>3, PrefixAppend
  <2>2. Seen(name, k)' = Received(name)'
                         + Weigh(Counted(name), Prefix(metricsChan', k))
    BY DEF Seen, Weigh, Counted, Prefix
  <2> QED BY <1>12, <2>1, <2>2 DEF Seen
<1>15. ASSUME NEW name \in C!Name
       PROVE  /\ Received(name) \in Nat /\ Waiting(name) \in Nat
              /\ Seen(name, n) = Received(name) + Waiting(name)
              /\ Seen(name, n) \in Nat
              /\ Waiting(name)' = Waiting(name) + One(name)
              /\ Seen(name, n + 1)' = Seen(name, n) + One(name)
  <2>1. /\ Received(name) \in Nat /\ Waiting(name) \in Nat
        /\ Seen(name, n) = Received(name) + Waiting(name)
    BY <1>0, CollectorTypes
  <2>2. Waiting(name)' = Weigh(Counted(name), metricsChan')
    BY DEF Waiting, Weigh, Counted
  <2>3. Waiting(name)' = Waiting(name) + One(name)
    BY <1>13, <2>2 DEF Waiting
  <2>4. Prefix(metricsChan', n + 1) = metricsChan'
    BY <1>9, PrefixAll
  <2>5. Seen(name, n + 1)' =
          Received(name)' + Weigh(Counted(name), Prefix(metricsChan', n + 1))
    BY <1>9 DEF Seen, Weigh, Counted, Prefix
  <2>6. Seen(name, n + 1)' = Received(name) + Waiting(name)'
    BY <1>12, <2>2, <2>4, <2>5
  <2> QED BY <2>1, <2>3, <2>6
<1>16. ASSUME Complete, NEW name \in C!Name
       PROVE  Received(name)' + Waiting(name)' + Unsent(name)' = C!Expected(name)'
  <2>1. /\ Unsent(name) \in Nat
        /\ Unsent(name)' = Unsent(name) - One(name)
    BY <1>4, <1>5, <1>8
  <2>2. Received(name) + Waiting(name) + Unsent(name) = C!Expected(name)
    BY <1>16 DEF Complete
  <2>3. C!Expected(name)' = C!Expected(name)
    BY <1>2 DEF C!Expected
  <2> QED BY <1>12, <1>15, <2>1, <2>2, <2>3
<1>17. ASSUME Balanced PROVE Balanced'
  <2> DEFINE Errors(k) == Seen("errors_total", k)
             Requests(k) == Seen("requests_total", k)
  <2>1. /\ \A k \in 0..n : Errors(k) <= Requests(k)
        /\ Errors(n) + Owed <= Requests(n)
    BY <1>0, <1>17 DEF Balanced
  <2>2. /\ Errors(n + 1)' = Errors(n) + One("errors_total")
        /\ Requests(n + 1)' = Requests(n) + One("requests_total")
        /\ Errors(n) \in Nat /\ Requests(n) \in Nat
    BY <1>15 DEF C!Name
  <2>3. \A k \in 0..n : Errors(k)' <= Requests(k)'
    BY <1>14, <2>1
  <2>4. Errors(n + 1)' + Owed' <= Requests(n + 1)' /\ Owed' \in Nat
    <3>1. Owed' = Owed + Owes(t) - One("errors_total")
      BY <1>7, <1>8
    <3>2. Owes(t) <= One("requests_total")
      BY <1>7
    <3>3. Owed' \in Int /\ Errors(n + 1)' + Owed' <= Requests(n + 1)'
      BY <1>7, <1>8, <2>1, <2>2, <3>1, <3>2
    <3>4. Owed' \in Nat
      <4> DEFINE f == [q \in Recorders |-> Owes(sending'[q])]
      <4>1. \A q \in Recorders : f[q] \in Nat
        BY DEF Owes
      <4> HIDE DEF f
      <4>2. SumFunctionOnSet(f, Recorders) \in Nat
        BY <4>1, SumNat, CollectorAssumption
      <4>3. Owed' = SumFunctionOnSet(f, Recorders)
        BY DEF Owed, Owes, f
      <4> QED BY <4>2, <4>3
    <3> QED BY <3>3, <3>4
  <2>5. Errors(n + 1)' <= Requests(n + 1)'
    BY <2>2, <2>4
  <2> HIDE DEF Errors, Requests
  <2>6. \A k \in 0..(n + 1) : Errors(k)' <= Requests(k)'
    <3> TAKE k \in 0..(n + 1)
    <3>1. k \in 0..n \/ k = n + 1
      BY <1>1
    <3> QED BY <2>3, <2>5, <3>1
  <2>7. (C!Total("errors_total") <= C!Total("requests_total"))'
    BY <1>12, <1>17 DEF Balanced
  <2> QED BY <1>9, <2>4, <2>6, <2>7 DEF Balanced, Errors, Requests
<1>18. (resets = 0 => Complete /\ Balanced)'
  BY <1>2, <1>16, <1>17 DEF CollectorInv, Complete
<1> QED BY <1>2, <1>10, <1>11, <1>18 DEF CollectorInv

LEMMA ReceiveMetricInv ==
  ASSUME CollectorInv, C!ReceiveMetric
  PROVE  CollectorInv'
<1> DEFINE x == Head(metricsChan)
           One(name) == IF x = name THEN 1 ELSE 0
<1>0. PICK n : n = Len(metricsChan)
  OBVIOUS
<1>1. /\ metricsChan # <<>> /\ metricsChan' = Tail(metricsChan)
      /\ inHand = <<>> /\ inHand' = <<x>>
      /\ UNCHANGED <<sending, updates, collecting, recorded, resets>>
  BY DEF C!ReceiveMetric
<1>2. /\ metricsChan \in Seq(C!Name) /\ n \in Nat \ {0} /\ n <= ChannelSize
      /\ x \in C!Name
      /\ metricsChan' \in Seq(C!Name) /\ Len(metricsChan') = n - 1
  BY <1>0, <1>1, EmptySeq, LenProperties, HeadTailProperties
     DEF CollectorInv, C!TypeOK
<1> HIDE DEF x
<1>3. ASSUME NEW name \in C!Name
      PROVE  /\ C!Total(name)' = C!Total(name)
             /\ Received(name)' = Received(name) + One(name)
  <2>1. C!Total(name)' = C!Total(name)
    BY <1>1 DEF C!Total
  <2>2. /\ Weigh(Counted(name), inHand) = 0
        /\ Weigh(Counted(name), inHand') = One(name)
    <3>1. Counted(name) \in [C!Name -> Nat] /\ Counted(name)[x] = One(name)
      BY <1>2, CountedType
    <3> QED BY <1>1, <1>2, <3>1, WeighEmpty, WeighOne
  <2>3. Received(name)' = C!Total(name)' + Weigh(Counted(name), inHand')
    BY DEF Received, Weigh, Counted
  <2>4. C!Total(name) \in Nat
    BY CollectorTypes
  <2> QED BY <2>1, <2>2, <2>3, <2>4 DEF Received
<1>4. C!TypeOK'
  <2>1. inHand' \in Seq(C!Name) /\ Len(inHand') <= 1
    BY <1>1, <1>2
  <2> QED BY <1>1, <1>2, <2>1, CollectorAssumption
          DEF CollectorInv, C!TypeOK, C!IsABag, C!BagToSet
<1>5. \A r \in Recorders : InOrder(sending'[r])
  BY <1>1 DEF CollectorInv
<1>6. Owed' = Owed /\ \A name : Unsent(name)' = Unsent(name)
  BY <1>1 DEF Owed, Owes, Unsent, Weigh, Counted
(* What has left the channel is received, and seen all the same.           *)
<1>7. ASSUME NEW name \in C!Name, NEW k \in 0..(n - 1)
      PROVE  Seen(name, k)' = Seen(name, k + 1)
  <2>1. /\ Prefix(metricsChan, k + 1) # <<>>
        /\ Head(Prefix(metricsChan, k + 1)) = x
        /\ Tail(Prefix(metricsChan, k + 1)) = Prefix(metricsChan', k)
    BY <1>0, <1>1, <1>2, PrefixTail DEF x
  <2>2. /\ Prefix(metricsChan, k + 1) \in Seq(C!Name)
        /\ Prefix(metricsChan', k) \in Seq(C!Name)
    <3>1. k + 1 \in 0..Len(metricsChan) /\ k \in 0..Len(metricsChan')
      BY <1>0, <1>2
    <3> QED BY <1>2, <3>1, PrefixType
  <2>3. Counted(name) \in [C!Name -> Nat] /\ Counted(name)[x] = One(name)
    BY <1>2, CountedType
  <2>4. Weigh(Counted(name), Prefix(metricsChan, k + 1))
          = One(name) + Weigh(Counted(name), Prefix(metricsChan', k))
    <3> DEFINE p == Prefix(metricsChan, k + 1)
    <3>1. p \in Seq(C!Name) /\ p # <<>>
      BY <2>1, <2>2
    <3> HIDE DEF p
    <3>2. Weigh(Counted(name), p)
            = Counted(name)[Head(p)] + Weigh(Counted(name), Tail(p))
      BY <2>3, <3>1, WeighTail
    <3> QED BY <2>1, <2>3, <3>2 DEF p
  <2>5. Seen(name, k)' = Received(name)'
                         + Weigh(Counted(name), Prefix(metricsChan', k))
    BY DEF Seen, Weigh, Counted, Prefix
  <2>6. Weigh(Counted(name), Prefix(metricsChan', k)) \in Nat
    BY <2>2, <2>3, WeighNat
  <2>7. Received(name) \in Nat
    BY CollectorTypes
  <2> QED BY <1>3, <2>4, <2>5, <2>6, <2>7 DEF Seen
<1>8. ASSUME NEW name \in C!Name
      PROVE  Received(name)' + Waiting(name)' = Received(name) + Waiting(name)
  <2>1. Seen(name, n - 1)' = Seen(name, n)
    <3>1. n - 1 \in 0..(n - 1) /\ (n - 1) + 1 = n
      BY <1>2
    <3>2. Seen(name, n - 1)' = Seen(name, (n - 1) + 1)
      BY <1>7, <3>1
    <3> QED BY <3>1, <3>2
  <2>2. Seen(name, n) = Received(name) + Waiting(name)
    BY <1>0, CollectorTypes
  <2>3. Prefix(metricsChan', n - 1) = metricsChan'
    BY <1>2, PrefixAll
  <2>4. Seen(name, n - 1)' =
          Received(name)' + Weigh(Counted(name), Prefix(metricsChan', n - 1))
    BY DEF Seen, Weigh, Counted, Prefix
  <2>5. Waiting(name)' = Weigh(Counted(name), metricsChan')
    BY DEF Waiting, Weigh, Counted
  <2> QED BY <2>1, <2>2, <2>3, <2>4, <2>5
<1>9. ASSUME Complete, NEW name \in C!Name
       PROVE  Received(name)' + Waiting(name)' + Unsent(name)' = C!Expected(name)'
  <2>1. Received(name) + Waiting(name) + Unsent(name) = C!Expected(name)
    BY <1>9 DEF Complete
  <2>2. C!Expected(name)' = C!Expected(name)
    BY <1>1 DEF C!Expected
  <2> QED BY <1>6, <1>8, <2>1, <2>2
<1>10. ASSUME Balanced PROVE Balanced'
  <2>1. /\ \A k \in 0..n : Seen("errors_total", k) <= Seen("requests_total", k)
        /\ Seen("errors_total", n) + Owed <= Seen("requests_total", n)
    BY <1>0, <1>10 DEF Balanced
  <2>2. "errors_total" \in C!Name /\ "requests_total" \in C!Name
    BY DEF C!Name
  <2>3. \A k \in 0..(n - 1) :
          Seen("errors_total", k)' <= Seen("requests_total", k)'
    <3> TAKE k \in 0..(n - 1)
    <3>1. k + 1 \in 0..n
      BY <1>2
    <3>2. Seen("errors_total", k + 1) <= Seen("requests_total", k + 1)
      BY <2>1, <3>1
    <3> QED BY <1>7, <2>2, <3>2
  <2>4. n - 1 \in 0..(n - 1) /\ (n - 1) + 1 = n
    BY <1>2
  <2>5. /\ Seen("errors_total", n - 1)' = Seen("errors_total", n)
        /\ Seen("requests_total", n - 1)' = Seen("requests_total", n)
    <3>1. /\ Seen("errors_total", n - 1)' = Seen("errors_total", (n - 1) + 1)
          /\ Seen("requests_total", n - 1)'
               = Seen("requests_total", (n - 1) + 1)
      BY <1>7, <2>2, <2>4
    <3> QED BY <2>4, <3>1
  <2>6. Seen("errors_total", n - 1)' + Owed' <= Seen("requests_total", n - 1)'
    BY <1>6, <2>1, <2>5
  <2>7. (C!Total("errors_total") <= C!Total("requests_total"))'
    BY <1>3, <1>10, <2>2 DEF Balanced
  <2> QED BY <1>2, <2>3, <2>6, <2>7 DEF Balanced
<1>11. (resets = 0 => Complete /\ Balanced)'
  BY <1>1, <1>9, <1>10 DEF CollectorInv, Complete
<1> QED BY <1>1, <1>4, <1>5, <1>11 DEF CollectorInv

LEMMA ProcessMetricInv ==
  ASSUME CollectorInv, C!ProcessMetric
  PROVE  CollectorInv'
<1> DEFINE x == Head(inHand)
           One(name) == IF x = name THEN 1 ELSE 0
<1>1. PICK order \in Orders : updates' = C!Updated(<<x, order>>)
  BY DEF C!ProcessMetric
<1>2. /\ inHand # <<>> /\ inHand' = <<>>
      /\ UNCHANGED <<sending, metricsChan, collecting, recorded, resets>>
  BY DEF C!ProcessMetric
<1>3. x \in C!Name /\ inHand = <<x>>
  <2>1. inHand \in Seq(C!Name) /\ Len(inHand) <= 1
    BY DEF CollectorInv, C!TypeOK
  <2> QED BY <1>2, <2>1, OneElement
<1> HIDE DEF x
<1>4. /\ C!IsABag(updates)' /\ (C!BagToSet(updates) \subseteq C!Key)'
      /\ IsFiniteSet(DOMAIN updates')
      /\ \A name \in C!Name :
           C!Total(name)' = C!Total(name) + IF x = name THEN 1 ELSE 0
  BY <1>1, <1>3, TotalUpdated DEF CollectorInv
<1>5. C!TypeOK'
  BY <1>2, <1>4, CollectorAssumption DEF CollectorInv, C!TypeOK
<1>6. ASSUME NEW name \in C!Name
      PROVE  /\ C!Total(name) \in Nat /\ C!Total(name)' = Received(name)
             /\ Received(name)' = Received(name)
  <2>1. Counted(name) \in [C!Name -> Nat] /\ Counted(name)[x] = One(name)
    BY <1>3, CountedType
  <2>2. Weigh(Counted(name), inHand) = One(name)
    BY <1>3, <2>1, WeighOne
  <2>3. Weigh(Counted(name), <<>>) = 0
    BY WeighEmpty
  <2>4. Received(name)' = C!Total(name)' + Weigh(Counted(name), <<>>)
    BY <1>2 DEF Received, Weigh, Counted
  <2>5. C!Total(name) \in Nat
    BY CollectorTypes
  <2> QED BY <1>4, <2>2, <2>3, <2>4, <2>5 DEF Received
<1>7. ASSUME NEW name \in C!Name
      PROVE  /\ Waiting(name)' = Waiting(name) /\ Unsent(name)' = Unsent(name)
             /\ C!Expected(name)' = C!Expected(name)
             /\ \A k : Seen(name, k)' = Seen(name, k)
  <2>1. /\ Waiting(name)' = Waiting(name) /\ Unsent(name)' = Unsent(name)
        /\ C!Expected(name)' = C!Expected(name)
    BY <1>2 DEF Waiting, Unsent, Weigh, Counted, C!Expected
  <2>2. ASSUME NEW k PROVE Seen(name, k)' = Seen(name, k)
    <3>1. Seen(name, k)' = Received(name)'
                           + Weigh(Counted(name), Prefix(metricsChan, k))
      BY <1>2 DEF Seen, Weigh, Counted, Prefix
    <3> QED BY <1>6, <3>1 DEF Seen
  <2> QED BY <2>1, <2>2
<1>8. \A r \in Recorders : InOrder(sending'[r])
  BY <1>2 DEF CollectorInv
<1>9. ASSUME Complete PROVE Complete'
  <2>1. \A name \in C!Name :
          Received(name)' + Waiting(name)' + Unsent(name)' = C!Expected(name)'
    BY <1>6, <1>7, <1>9 DEF Complete
  <2> QED BY <2>1 DEF Complete
(* What a snapshot shows now is what was received before.                  *)
<1>10. ASSUME Balanced PROVE Balanced'
  <2>1. "errors_total" \in C!Name /\ "requests_total" \in C!Name
    BY DEF C!Name
  <2>2. /\ Seen("errors_total", 0) = Received("errors_total")
        /\ Seen("requests_total", 0) = Received("requests_total")
    <3>1. Prefix(metricsChan, 0) = <<>>
      BY DEF Prefix
    <3>2. \A name : Weigh(Counted(name), Prefix(metricsChan, 0)) = 0
      BY <3>1, WeighEmpty
    <3>3. /\ Received("errors_total") \in Nat
          /\ Received("requests_total") \in Nat
      BY <2>1, CollectorTypes
    <3> QED BY <3>2, <3>3 DEF Seen
  <2>3. 0 \in 0..Len(metricsChan)
    BY CollectorTypes
  <2>4. Seen("errors_total", 0) <= Seen("requests_total", 0)
    BY <1>10, <2>3 DEF Balanced
  <2>5. (C!Total("errors_total") <= C!Total("requests_total"))'
    BY <1>6, <2>1, <2>2, <2>4
  <2>6. Owed' = Owed /\ Len(metricsChan') = Len(metricsChan)
    BY <1>2 DEF Owed, Owes
  <2> QED BY <1>7, <1>10, <2>1, <2>5, <2>6 DEF Balanced
<1>11. (resets = 0 => Complete /\ Balanced)'
  BY <1>2, <1>9, <1>10 DEF CollectorInv
<1> QED BY <1>2, <1>4, <1>5, <1>8, <1>11 DEF CollectorInv

LEMMA CollectorResetInv ==
  ASSUME CollectorInv, C!Reset
  PROVE  CollectorInv'
<1>1. /\ updates' = [e \in {} |-> 1] /\ resets' = resets + 1
      /\ resets' \in 0..MaxResets /\ resets \in Nat
      /\ UNCHANGED <<sending, metricsChan, inHand, collecting, recorded>>
  BY CollectorAssumption
     DEF C!Reset, C!EmptyBag, C!SetToBag, CollectorInv, C!TypeOK
<1>2. C!IsABag(updates)' /\ (C!BagToSet(updates) \subseteq C!Key)'
  BY <1>1 DEF C!IsABag, C!BagToSet
<1>3. IsFiniteSet(DOMAIN updates')
  BY <1>1, FS_EmptySet
<1> QED BY <1>1, <1>2, <1>3 DEF CollectorInv, C!TypeOK

LEMMA CollectorNextInv ==
  CollectorInv /\ (C!Next \/ UNCHANGED collectorVars) => CollectorInv'
<1> SUFFICES ASSUME CollectorInv, C!Next \/ UNCHANGED collectorVars
             PROVE  CollectorInv'
  OBVIOUS
<1>1. ASSUME NEW r \in Recorders, C!Send(r) PROVE CollectorInv'
  BY <1>1, SendInv
<1>2. ASSUME NEW r \in Recorders, NEW failed \in BOOLEAN,
             C!RecordResponse(r, failed)
      PROVE  CollectorInv'
  BY <1>2, RecordResponseInv
<1>3. CASE C!ReceiveMetric
  BY <1>3, ReceiveMetricInv
<1>4. CASE C!ProcessMetric
  BY <1>4, ProcessMetricInv
<1>5. CASE C!Reset
  BY <1>5, CollectorResetInv
<1>6. ASSUME UNCHANGED <<sending, metricsChan, inHand, updates, recorded, resets>>,
             collecting' \in BOOLEAN
      PROVE  CollectorInv'
  <2>1. C!TypeOK'
    BY <1>6 DEF CollectorInv, C!TypeOK, C!IsABag, C!BagToSet
  <2>2. /\ \A name : C!Total(name)' = C!Total(name)
        /\ \A name : Received(name)' = Received(name)
        /\ \A name : C!Expected(name)' = C!Expected(name)
        /\ \A name : Waiting(name)' = Waiting(name)
        /\ \A name : Unsent(name)' = Unsent(name)
        /\ Owed' = Owed
    BY <1>6 DEF C!Total, Received, C!Expected, Waiting, Unsent, Weigh, Counted, Owed, Owes
  <2>3. \A name, k : Seen(name, k)' = Seen(name, k)
    BY <1>6 DEF Seen, Received, C!Total, Prefix, Weigh, Counted
  <2>4. Complete => Complete'
    BY <1>6, <2>2 DEF Complete
  <2>5. Balanced => Balanced'
    BY <1>6, <2>2, <2>3 DEF Balanced
  <2> QED BY <1>6, <2>1, <2>4, <2>5 DEF CollectorInv
<1>7. CASE C!Return
  BY <1>6, <1>7 DEF C!Return
<1>8. CASE UNCHANGED collectorVars
  BY <1>6, <1>8 DEF collectorVars, CollectorInv, C!TypeOK
<1> QED BY <1>1, <1>2, <1>3, <1>4, <1>5, <1>7, <1>8 DEF C!Next

LEMMA ErrorsAreCounted == CollectorInv => C!ErrorsAmongRequests
BY DEF CollectorInv, Balanced, C!ErrorsAmongRequests

LEMMA NamesWeigh ==
  ASSUME NEW name, NEW line \in Seq(C!Name)
  PROVE  C!NamesIn(name, line) = Weigh(Counted(name), line)
<1>1. \A i \in DOMAIN line : line[i] \in C!Name
  BY LenProperties, ElementOfSeq
<1>2. [i \in DOMAIN line |-> IF line[i] = name THEN 1 ELSE 0]
        = [i \in DOMAIN line |-> Counted(name)[line[i]]]
  BY <1>1 DEF Counted
<1>3. C!NamesIn(name, line)
        = SumFunction([i \in DOMAIN line |->
                         IF line[i] = name THEN 1 ELSE 0])
  BY SameSums DEF C!NamesIn, C!SumFunction, SumFunction
<1> QED BY <1>2, <1>3, Zenon DEF Weigh

LEMMA AllAreCounted == CollectorInv => C!AllCounted
<1> SUFFICES ASSUME CollectorInv, resets = 0, NEW name \in C!Name
             PROVE  C!Total(name) + C!OnItsWay(name) = C!Expected(name)
  BY DEF C!AllCounted
<1>1. Received(name) + Waiting(name) + Unsent(name) = C!Expected(name)
  BY DEF CollectorInv, Complete
<1>2. /\ C!NamesIn(name, inHand) = Weigh(Counted(name), inHand)
      /\ C!NamesIn(name, metricsChan) = Waiting(name)
  BY NamesWeigh DEF CollectorInv, C!TypeOK, Waiting
<1>3. C!SumFunction([r \in Recorders |-> C!NamesIn(name, sending[r])])
        = Unsent(name)
  <2>1. \A r \in Recorders :
          C!NamesIn(name, sending[r]) = Weigh(Counted(name), sending[r])
    BY NamesWeigh DEF CollectorInv, C!TypeOK
  <2>2. [r \in Recorders |-> C!NamesIn(name, sending[r])]
          = [r \in Recorders |-> Weigh(Counted(name), sending[r])]
    BY <2>1
  <2> QED BY <2>2, SameSums DEF C!SumFunction, Unsent
<1>4. /\ C!Total(name) \in Nat /\ Waiting(name) \in Nat
      /\ Unsent(name) \in Nat
      /\ Weigh(Counted(name), inHand) \in Nat
  <2>1. Weigh(Counted(name), inHand) \in Nat
    BY CountedType, WeighNat DEF CollectorInv, C!TypeOK
  <2> QED BY <2>1, CollectorTypes
<1> QED BY <1>1, <1>2, <1>3, <1>4 DEF C!OnItsWay, Received
-----------------------------------------------------------------------------
(* The parts side by side.                                                 *)
PartsInv == Inv /\ E!TypeOK /\ CollectorInv

LEMMA PartsInit == InitParts => PartsInv
BY InitInv, ExporterInit, CollectorInit DEF InitParts, PartsInv, Inv

LEMMA PartsNextInv == PartsInv /\ [NextPart]_allVars => PartsInv'
<1> SUFFICES ASSUME PartsInv, [NextPart]_allVars PROVE PartsInv'
  OBVIOUS
<1>1. /\ Next \/ Use(Root) \/ UNCHANGED vars
      /\ E!Next \/ UNCHANGED exporterVars
      /\ C!Next \/ UNCHANGED collectorVars
  BY DEF NextPart, AggregatorsNext, ExporterNext, CollectorNext, allVars
<1>2. Use(Root) => Next
  BY RootAssumption DEF Next
<1>3. Inv'
  BY <1>1, <1>2, NextInv DEF PartsInv
<1>4. E!TypeOK'
  BY <1>1, <1>3, ExporterNextInv DEF PartsInv, Inv
<1>5. CollectorInv'
  BY <1>1, CollectorNextInv DEF PartsInv
<1> QED BY <1>3, <1>4, <1>5 DEF PartsInv

LEMMA PartsSpecInv == SpecParts => []PartsInv
BY PartsInit, PartsNextInv, PTL DEF SpecParts

(* The aggregators, the exporter and the collector keep their types; the    *)
(* channel of the collector keeps to its size, and what it counts are      *)
(* metrics.                                                                *)
THEOREM TypesCorrect == SpecParts => []TypesOK
<1>1. PartsInv => TypesOK
  BY DEF PartsInv, Inv, CollectorInv, TypesOK
<1> QED BY <1>1, PartsSpecInv, PTL

(* Until a first Reset, no snapshot of the collector shows more errors     *)
(* than requests: RecordResponse of collector.go sends the request first,  *)
(* and metricsChan keeps the order.                                        *)
THEOREM ErrorsHaveRequests == SpecParts => []ErrorsAmongRequests
<1>1. PartsInv => ErrorsAmongRequests
  BY ErrorsAreCounted DEF PartsInv, ErrorsAmongRequests
<1> QED BY <1>1, PartsSpecInv, PTL

(* Until a first Reset, a snapshot of the collector and what is on its way *)
(* account for every response: a metric that RecordResponse has to send is *)
(* with the recorder, in the channel, in processMetric's hand or counted   *)
(* under one of its keys, in one of these places and once, at any time.    *)
THEOREM ResponsesAreCounted == SpecParts => []AllCounted
<1>1. PartsInv => AllCounted
  BY AllAreCounted DEF PartsInv, AllCounted
<1> QED BY <1>1, PartsSpecInv, PTL
=============================================================================
