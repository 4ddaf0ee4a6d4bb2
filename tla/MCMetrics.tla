----------------------------- MODULE MCMetrics -----------------------------
(***************************************************************************)
(* The parts of pkg/metrics: aggregators that merge each other, an         *)
(* exporter on top of one aggregator, and a collector.  The exporter reads *)
(* what its aggregator has, so these two move together.  For the rest the  *)
(* parts share no state, and their steps side by side would show nothing   *)
(* that their own behaviours do not: every behaviour is of one part.       *)
(***************************************************************************)
EXTENDS Aggregator

CONSTANTS
  Root,         \* the aggregator of the exporter
  MergedKeys,   \* bound: the keys of the aggregators that merge each other
  Recorders, Orders, ChannelSize, MaxResponses, MaxResets  \* of Collector

ASSUME RootAssumption == Root \in Aggregators
ASSUME CollectorAssumption ==
  /\ IsFiniteSet(Recorders)
  /\ ChannelSize \in Nat /\ MaxResponses \in Nat /\ MaxResets \in Nat

VARIABLES
  part,         \* which of the parts this behaviour is of
  names, format, exporting, snapshot, gauges, panicked,
  sending, metricsChan, inHand, updates, collecting, recorded, resets

exporterVars == <<names, format, exporting, snapshot, gauges, panicked>>
collectorVars ==
  <<sending, metricsChan, inHand, updates, collecting, recorded, resets>>
allVars == <<part, vars, exporterVars, collectorVars>>

E == INSTANCE Exporter WITH aggregations <- aggregations[Root]
C == INSTANCE Collector

(* An exporter that is not started has all of these.                       *)
AnyExporter == CHOOSE v \in E!Naming : TRUE

InitParts ==
  /\ part \in {"aggregators", "exporter", "collector"}
  /\ Init /\ C!Init /\ E!Init
  /\ part # "exporter" => names = AnyExporter /\ format = "json"

AggregatorsNext ==
  /\ part = "aggregators" /\ Next
  /\ \A a \in Aggregators, k \in Keys \ MergedKeys : metrics'[a][k] = 0
  /\ UNCHANGED <<exporterVars, collectorVars>>

ExporterNext ==
  /\ part = "exporter" /\ ~ panicked
  /\ \/ Use(Root) /\ UNCHANGED exporterVars
     \/ E!Next /\ UNCHANGED vars
  /\ UNCHANGED collectorVars

CollectorNext ==
  /\ part = "collector" /\ C!Next
  /\ UNCHANGED <<vars, exporterVars>>

NextPart ==
  UNCHANGED part /\ (AggregatorsNext \/ ExporterNext \/ CollectorNext)

(* The fairness of Aggregator, for the behaviours that are about it.       *)
AggregatorsFairness ==
  \A a \in Aggregators :
    /\ WF_vars(part = "aggregators" /\ Update(a))
    /\ WF_vars(part = "aggregators" /\ Aggregate(a))
    /\ WF_vars(part = "aggregators" /\ Merging(a))

SpecParts ==
  /\ InitParts /\ [][NextPart]_allVars
  /\ AggregatorsFairness /\ E!Fairness /\ C!Fairness
-----------------------------------------------------------------------------
(* The types of all parts.                                                 *)
TypesOK == TypeOK /\ E!TypeOK /\ C!TypeOK

(* AllAggregated and MergesReturn of Aggregator, of the behaviours that    *)
(* are about aggregators.                                                  *)
AggregatorsAggregate == part = "aggregators" => AllAggregated
AggregatorsMerge == part = "aggregators" => MergesReturn

(* The collector's and the exporter's properties, stated where they are    *)
(* defined.                                                                *)
ErrorsAmongRequests == C!ErrorsAmongRequests
AllCounted == C!AllCounted
RecordReturns == C!RecordReturns
Exported == E!Exported
=============================================================================
