----------------------------- MODULE Collector -----------------------------
(***************************************************************************)
(* The metric collector, pkg/metrics/collector.go.  RecordResponse turns a *)
(* response into four or five metrics, which it sends one by one to a      *)
(* bounded channel; processMetrics receives them one by one and, once it   *)
(* has c.mu, updates the counter or timer of the metric's key.             *)
(*                                                                         *)
(* A key is a name with labels appended in the order of a map iteration:   *)
(* the same metric may be updated under several keys.  What a metric is    *)
(* worth is left out: updates are counted.  The registry of go-metrics     *)
(* repeats the maps and is left out; the getters change nothing.           *)
(***************************************************************************)
EXTENDS Naturals, Sequences, SequencesExt, FiniteSetsExt, Functions, Bags

CONSTANTS
  Recorders,    \* the goroutines that call RecordResponse
  Orders,       \* the orders in which a map iteration may list the labels
  ChannelSize,  \* the capacity of metricsChan (10000)
  MaxResponses, \* bound: how many responses are recorded
  MaxResets     \* bound: how often the collector is reset

VARIABLES
  sending,      \* what each recorder has still to send of a response
  metricsChan,  \* the names of the metrics waiting, oldest first
  inHand,       \* <<the metric processMetric is about to count>>, or <<>>
  updates,      \* the bag of the keys updated
  collecting,   \* is processMetrics still running?
  recorded,     \* how many responses were recorded, and failed ones of them
  resets        \* how often Reset was called

vars ==
  <<sending, metricsChan, inHand, updates, collecting, recorded, resets>>

Name == {"response_time", "requests_total", "errors_total", "bytes_sent",
         "bytes_received"}

Key == Name \X Orders

TypeOK ==
  /\ sending \in [Recorders -> Seq(Name)]
  /\ metricsChan \in Seq(Name) /\ Len(metricsChan) <= ChannelSize
  /\ inHand \in Seq(Name) /\ Len(inHand) <= 1
  /\ IsABag(updates) /\ BagToSet(updates) \subseteq Key
  /\ collecting \in BOOLEAN
  /\ recorded \in [responses : 0..MaxResponses, failures : 0..MaxResponses]
  /\ resets \in 0..MaxResets

Init ==
  /\ sending = [r \in Recorders |-> <<>>]
  /\ metricsChan = <<>> /\ inHand = <<>>
  /\ updates = EmptyBag
  /\ collecting = TRUE
  /\ recorded = [responses |-> 0, failures |-> 0] /\ resets = 0
-----------------------------------------------------------------------------
(* Mutant: the error comes before the request it belongs to.               *)
MetricsOf_ErrorFirst(failed) ==
  (IF failed THEN <<"errors_total">> ELSE <<>>)
    \o <<"response_time", "requests_total", "bytes_sent", "bytes_received">>

(* The metrics of a response.                                              *)
MetricsOf(failed) ==
  <<"response_time", "requests_total">>
    \o (IF failed THEN <<"errors_total">> ELSE <<>>)
    \o <<"bytes_sent", "bytes_received">>

(* RecordResponse is called ...                                            *)
RecordResponse(r, failed) ==
  /\ sending[r] = <<>>
  /\ recorded.responses < MaxResponses
  /\ recorded' =
       [responses |-> recorded.responses + 1,
        failures |-> recorded.failures + (IF failed THEN 1 ELSE 0)]
  /\ sending' = [sending EXCEPT ![r] = MetricsOf(failed)]
  /\ UNCHANGED <<metricsChan, inHand, updates, collecting, resets>>

(* Mutant: the send does not wait for room.                                *)
Send_NoWait(r) ==
  /\ sending[r] # <<>>
  /\ metricsChan' = Append(metricsChan, Head(sending[r]))
  /\ sending' = [sending EXCEPT ![r] = Tail(@)]
  /\ UNCHANGED <<inHand, updates, collecting, recorded, resets>>

(* ... and sends a metric once the channel has room, whatever became of    *)
(* the one who receives; after the last it returns.                        *)
Send(r) ==
  /\ sending[r] # <<>>
  /\ Len(metricsChan) < ChannelSize
  /\ metricsChan' = Append(metricsChan, Head(sending[r]))
  /\ sending' = [sending EXCEPT ![r] = Tail(@)]
  /\ UNCHANGED <<inHand, updates, collecting, recorded, resets>>

(* Mutant: a key replaces the other keys of the same metric.               *)
Updated_Replaces(key) ==
  [k \in {k \in DOMAIN updates : k[1] # key[1] \/ k = key} |-> updates[k]]
    (+) SetToBag({key})

(* The counter or timer of a key is updated, and created first if it is    *)
(* new: getOrCreateTimer, getOrCreateCounter.                              *)
Updated(key) == updates (+) SetToBag({key})

(* processMetrics receives a metric ...                                    *)
ReceiveMetric ==
  /\ collecting /\ inHand = <<>> /\ metricsChan # <<>>
  /\ inHand' = <<Head(metricsChan)>>
  /\ metricsChan' = Tail(metricsChan)
  /\ UNCHANGED <<sending, updates, collecting, recorded, resets>>

(* Mutant: RecordResponse holds c.mu while it sends.                       *)
ProcessMetric_Locked ==
  /\ inHand # <<>>
  /\ \A r \in Recorders : sending[r] = <<>>
  /\ \E order \in Orders : updates' = Updated(<<Head(inHand), order>>)
  /\ inHand' = <<>>
  /\ UNCHANGED <<sending, metricsChan, collecting, recorded, resets>>

(* ... and has processMetric update its key, which lists the labels in any *)
(* order, with c.mu taken: a Reset or a snapshot may come in between.      *)
ProcessMetric ==
  /\ inHand # <<>>
  /\ \E order \in Orders : updates' = Updated(<<Head(inHand), order>>)
  /\ inHand' = <<>>
  /\ UNCHANGED <<sending, metricsChan, collecting, recorded, resets>>

(* Reset starts anew, whatever is on its way.                              *)
Reset ==
  /\ resets < MaxResets
  /\ resets' = resets + 1
  /\ updates' = EmptyBag
  /\ UNCHANGED <<sending, metricsChan, inHand, collecting, recorded>>

(* The context of Start is done, and processMetrics returns.               *)
Return ==
  /\ collecting /\ inHand = <<>>
  /\ collecting' = FALSE
  /\ UNCHANGED <<sending, metricsChan, inHand, updates, recorded, resets>>

Next ==
  \/ \E r \in Recorders :
       Send(r) \/ \E failed \in BOOLEAN : RecordResponse(r, failed)
  \/ ReceiveMetric \/ ProcessMetric \/ Reset \/ Return

(* Go runs every goroutine that can run, and senders that wait at a full   *)
(* channel are served in the order in which they came.                     *)
Fairness ==
  /\ \A r \in Recorders : SF_vars(Send(r))
  /\ WF_vars(ReceiveMetric) /\ WF_vars(ProcessMetric)

Spec == Init /\ [][Next]_vars /\ Fairness
-----------------------------------------------------------------------------
(* What a snapshot says of a metric, all its keys taken together.          *)
Total(name) ==
  SumFunctionOnSet(updates, {key \in DOMAIN updates : key[1] = name})

(* Until a first Reset, a snapshot never shows more errors than requests,  *)
(* though the two are counted one after the other, for several responses   *)
(* at once and under any keys.  (A Reset between the two breaks this.)     *)
ErrorsAmongRequests ==
  resets = 0 => Total("errors_total") <= Total("requests_total")

(* The metrics of a name that were recorded and are in no snapshot yet.    *)
NamesIn(name, metrics) ==
  SumFunction([i \in DOMAIN metrics |-> IF metrics[i] = name THEN 1 ELSE 0])

OnItsWay(name) ==
  NamesIn(name, inHand) + NamesIn(name, metricsChan)
    + SumFunction([r \in Recorders |-> NamesIn(name, sending[r])])

Expected(name) ==
  IF name = "errors_total" THEN recorded.failures ELSE recorded.responses

(* Until a first Reset, a snapshot lacks of the responses recorded only    *)
(* what is on its way: each is counted once by each of its metrics, all    *)
(* keys of a metric taken together, and a failed one as an error as well.  *)
AllCounted ==
  resets = 0 => \A name \in Name : Total(name) + OnItsWay(name) = Expected(name)

(* RecordResponse returns while the collector is running, though it waits  *)
(* for room without a way out; after that it may wait for ever.            *)
RecordReturns ==
  \A r \in Recorders : sending[r] # <<>> ~> sending[r] = <<>> \/ ~ collecting
=============================================================================
