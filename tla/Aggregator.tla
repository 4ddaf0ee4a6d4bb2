----------------------------- MODULE Aggregator -----------------------------
(***************************************************************************)
(* Metric aggregators, pkg/metrics/aggregator.go.  Each has a loop (Start) *)
(* that aggregates the values collected since the last time: on a tick of  *)
(* its window, or at once when a key gets its first value, of which it is  *)
(* told through the one-place channel updateCh.  When its context is done  *)
(* the loop returns, and what comes later is collected all the same.       *)
(*                                                                         *)
(* All methods hold a.mu throughout, so each is one step, except for       *)
(* MergeAggregations: with its own mutex taken it waits for those of the   *)
(* aggregators it reads, one after the other, and nothing keeps two merges *)
(* from waiting for each other.  Of the values of a key only their number  *)
(* is kept, up to Many; what is computed from them is in Statistics.       *)
(***************************************************************************)
EXTENDS Naturals, SequencesExt, FiniteSets

CONSTANTS
  Aggregators,  \* the aggregators
  Keys,         \* the keys of the metrics
  Many,         \* bound: this many values of a key, or more
  MaxMerges     \* bound: how many merges are started

ASSUME AggregatorsAssumption == IsFiniteSet(Aggregators)
ASSUME ManyAssumption == Many \in Nat \ {0}
ASSUME MaxMergesAssumption == MaxMerges \in Nat

VARIABLES
  metrics,      \* a.metrics: the number of values by key, 0 for no key
  aggregations, \* a.aggregations: the keys in it
  updateCh,     \* is there a message in a.updateCh?
  loop,         \* what Start is at: "aggregate" once it has received
  locked,       \* the aggregators whose mutex a merge has taken
  sources,      \* what each such merge is still to read
  merges        \* how many merges were started

vars == <<metrics, aggregations, updateCh, loop, locked, sources, merges>>

TypeOK ==
  /\ metrics \in [Aggregators -> [Keys -> 0..Many]]
  /\ aggregations \in [Aggregators -> SUBSET Keys]
  /\ updateCh \subseteq Aggregators
  /\ loop \in [Aggregators -> {"new", "waiting", "aggregate", "returned"}]
  /\ locked \subseteq Aggregators
  /\ sources \in [Aggregators -> Seq(Aggregators)]
  /\ \A a \in Aggregators : sources[a] # <<>> => a \in locked
  /\ merges \in 0..MaxMerges

Init ==
  /\ metrics = [a \in Aggregators |-> [k \in Keys |-> 0]]
  /\ aggregations = [a \in Aggregators |-> {}]
  /\ updateCh = {} /\ loop = [a \in Aggregators |-> "new"]
  /\ locked = {} /\ sources = [a \in Aggregators |-> <<>>]
  /\ merges = 0
-----------------------------------------------------------------------------
Capped(n) == IF n < Many THEN n ELSE Many

(* Mutant: the loop is told of the second value of a key.                  *)
AddMetric_Second(a, k) ==
  /\ a \notin locked
  /\ metrics' = [metrics EXCEPT ![a][k] = Capped(@ + 1)]
  /\ updateCh' = IF metrics[a][k] = 1 THEN updateCh \cup {a} ELSE updateCh
  /\ UNCHANGED <<aggregations, loop, locked, sources, merges>>

(* The send to updateCh does not wait if there is a message already.       *)
AddMetric(a, k) ==
  /\ a \notin locked
  /\ metrics' = [metrics EXCEPT ![a][k] = Capped(@ + 1)]
  /\ updateCh' = IF metrics[a][k] = 0 THEN updateCh \cup {a} ELSE updateCh
  /\ UNCHANGED <<aggregations, loop, locked, sources, merges>>

Goto(a, from, to) == loop[a] = from /\ loop' = [loop EXCEPT ![a] = to]

Start(a) ==
  /\ Goto(a, "new", "waiting")
  /\ UNCHANGED <<metrics, aggregations, updateCh, locked, sources, merges>>

(* The loop receives from updateCh, or from the ticker, ...                *)
Update(a) ==
  /\ Goto(a, "waiting", "aggregate")
  /\ a \in updateCh
  /\ updateCh' = updateCh \ {a}
  /\ UNCHANGED <<metrics, aggregations, locked, sources, merges>>

Tick(a) ==
  /\ Goto(a, "waiting", "aggregate")
  /\ UNCHANGED <<metrics, aggregations, updateCh, locked, sources, merges>>

(* ... or its context is done, and it may return though a message waits.   *)
Return(a) ==
  /\ Goto(a, "waiting", "returned")
  /\ UNCHANGED <<metrics, aggregations, updateCh, locked, sources, merges>>

(* aggregate: keys without new values keep their last aggregation.         *)
Aggregate(a) ==
  /\ Goto(a, "aggregate", "waiting")
  /\ a \notin locked
  /\ aggregations' = [aggregations EXCEPT ![a] =
                        @ \cup {k \in Keys : metrics[a][k] > 0}]
  /\ metrics' = [metrics EXCEPT ![a] = [k \in Keys |-> 0]]
  /\ UNCHANGED <<updateCh, locked, sources, merges>>

(* Any of the aggregations may be too old by now.                          *)
ClearOldMetrics(a) ==
  /\ a \notin locked
  /\ \E old \in SUBSET aggregations[a] :
       aggregations' = [aggregations EXCEPT ![a] = @ \ old]
  /\ UNCHANGED <<metrics, updateCh, loop, locked, sources, merges>>

Reset(a) ==
  /\ a \notin locked
  /\ metrics' = [metrics EXCEPT ![a] = [k \in Keys |-> 0]]
  /\ aggregations' = [aggregations EXCEPT ![a] = {}]
  /\ UNCHANGED <<updateCh, loop, locked, sources, merges>>
-----------------------------------------------------------------------------
(* MergeAggregations: a.mu is taken ...                                    *)
Merge(a, others) ==
  /\ a \notin locked /\ merges < MaxMerges
  /\ locked' = locked \cup {a}
  /\ sources' = [sources EXCEPT ![a] = others]
  /\ merges' = merges + 1
  /\ UNCHANGED <<metrics, aggregations, updateCh, loop>>

(* ... the raw values of the others are copied, which takes their mutex ...*)
MergeOne(a) ==
  /\ a \in locked /\ sources[a] # <<>>
  /\ LET b == Head(sources[a])
     IN  /\ b \notin locked
         /\ metrics' = [metrics EXCEPT ![a] =
                          [k \in Keys |->
                             Capped(metrics[a][k] + metrics[b][k])]]
  /\ sources' = [sources EXCEPT ![a] = Tail(@)]
  /\ UNCHANGED <<aggregations, updateCh, loop, locked, merges>>

(* Mutants: a.mu is not released; the loop is not told.                    *)
MergeEnd_Locked(a) ==
  /\ a \in locked /\ sources[a] = <<>>
  /\ updateCh' = updateCh \cup {a}
  /\ UNCHANGED <<metrics, aggregations, loop, locked, sources, merges>>

MergeEnd_NoUpdate(a) ==
  /\ a \in locked /\ sources[a] = <<>>
  /\ locked' = locked \ {a}
  /\ UNCHANGED <<metrics, aggregations, updateCh, loop, sources, merges>>

(* ... the loop is told, and a.mu is released.                             *)
MergeEnd(a) ==
  /\ a \in locked /\ sources[a] = <<>>
  /\ updateCh' = updateCh \cup {a}
  /\ locked' = locked \ {a}
  /\ UNCHANGED <<metrics, aggregations, loop, sources, merges>>

Merging(a) == MergeOne(a) \/ MergeEnd(a)

(* All that is done to an aggregator but starting a merge.                 *)
Use(a) ==
  \/ \E k \in Keys : AddMetric(a, k)
  \/ Start(a) \/ Update(a) \/ Tick(a) \/ Aggregate(a) \/ Return(a)
  \/ ClearOldMetrics(a) \/ Reset(a)
  \/ Merging(a)

(* Any aggregator merges any others, itself included, while others do.     *)
MergeSome(a) ==
  \E others \in SetToAllKPermutations(Aggregators) : Merge(a, others)

Next == \E a \in Aggregators : Use(a) \/ MergeSome(a)

(* Go runs every goroutine that can run.  Nothing is asked of the tickers: *)
(* their windows may be as long as one likes, nor of those who start the   *)
(* loops and end them.                                                     *)
Fairness ==
  \A a \in Aggregators :
    /\ WF_vars(Update(a)) /\ WF_vars(Aggregate(a)) /\ WF_vars(Merging(a))

Spec == Init /\ [][Next]_vars /\ Fairness
-----------------------------------------------------------------------------
(* The loop is told of every value: while an aggregator has values, either *)
(* a message waits for its loop, or the loop is about to aggregate, or the *)
(* merge that brought the values is still to send the message.             *)
NoLostUpdate ==
  \A a \in Aggregators, k \in Keys :
    metrics[a][k] > 0 =>
      a \in updateCh \cup locked \/ loop[a] = "aggregate"

(* The aggregators whose merges wait for each other, in a circle, and the  *)
(* ones whose merges wait for these: no mutex of theirs will be free.      *)
Deadlocked ==
  UNION {S \in SUBSET locked :
           \A a \in S : sources[a] # <<>> /\ Head(sources[a]) \in S}

(* Values are aggregated without waiting for a tick of the window, as long *)
(* as the loop runs.  What is added when it returns stays, and so does     *)
(* what an aggregator has whose merge never returns.                       *)
AllAggregated ==
  \A a \in Aggregators, k \in Keys :
    loop[a] # "new" /\ metrics[a][k] > 0
      ~> metrics[a][k] = 0 \/ loop[a] = "returned" \/ a \in Deadlocked

(* A merge returns, however many run and whoever uses the aggregators it   *)
(* reads, unless it gets into a circle of merges, or to one.               *)
MergesReturn ==
  \A a \in Aggregators : a \in locked ~> a \notin locked \/ a \in Deadlocked

(* "MergeAggregations combines aggregations from multiple sources", so     *)
(* that it comes to an end, whatever the sources.                          *)
AlwaysReturns == \A a \in Aggregators : a \in locked ~> a \notin locked
=============================================================================
