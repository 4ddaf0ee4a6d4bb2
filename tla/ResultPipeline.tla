--------------------------- MODULE ResultPipeline ---------------------------
(***************************************************************************)
(* What a worker does with the results of its virtual users:               *)
(* pkg/worker/worker.go, metrics.go and reporter.go.  Five goroutines      *)
(* share two bounded channels:                                             *)
(*                                                                         *)
(*   executor --> resultsCh --> processResults --> buffers of the          *)
(*                    |             (ProcessResult)     collector          *)
(*                    |                                     |              *)
(*                    |                    collectAndSendMetrics           *)
(*                    v                                     v              *)
(*              reportResults                     metricsCh (lossy)        *)
(*                    |                                     v              *)
(*                    +----------> master <---------- reportMetrics        *)
(*                                                                         *)
(* processResults and reportResults receive from the same channel, so each *)
(* result goes one way or the other.  A step is what lies between two      *)
(* channel operations; the collector's mutex m.mu is held while it sends a *)
(* round of metrics, but the reporter takes them off the channel meanwhile.*)
(* The client the reporter calls is a stub that takes every batch; a panic *)
(* in any goroutine ends the process.                                      *)
(***************************************************************************)
EXTENDS Integers, Sequences, FiniteSets, Functions

CONSTANTS
  TestIDs,      \* the tests the results belong to
  ResultsSize,  \* the capacity of resultsCh (10000)
  MetricsSize,  \* the capacity of metricsCh (1000)
  BatchSize,    \* the reporter's batchSize (100)
  MaxResults,   \* bound: how many results the executor sends
  MaxRounds     \* bound: how many rounds the collector starts

ASSUME TestIDsAssumption == IsFiniteSet(TestIDs)
ASSUME SizesAssumption == ResultsSize \in Nat /\ MetricsSize \in Nat
ASSUME BatchSizeAssumption == BatchSize \in Nat \ {0}
ASSUME BoundsAssumption == MaxResults \in Nat /\ MaxRounds \in Nat

VARIABLES
  resultsCh,    \* the results waiting, oldest first
  received,     \* <<the result processResults is about to process>>, or <<>>
  buffers,      \* the collector's counts by test, since the last round
  round,        \* the metrics the collector is still to send in this round
  locked,       \* is a round under way, and m.mu taken?
  metricsCh,    \* the metrics waiting, oldest first
  dropped,      \* the requests in metrics that found metricsCh full, by test
  metricBatch,  \* reportMetrics' batch
  resultBatch,  \* reportResults' batch
  reported,     \* the requests the master was told of, by test
  running,      \* the goroutines that have not returned
  up,           \* is the context of Start not done yet?
  panicked,     \* did a goroutine panic, and end the process?
  made,         \* the results sent by the executor, by test
  rounds        \* how many rounds were started

collector == <<buffers, round, locked, dropped>>
batches == <<metricBatch, resultBatch, reported>>
lives == <<running, up, panicked>>
vars == <<resultsCh, received, collector, metricsCh, batches, lives, made,
          rounds>>

Goroutine ==
  {"start", "processor", "collector", "metricsReporter", "resultsReporter"}

(* common.RequestResult: its test, and whether its Error is set.           *)
Result == [test : TestIDs, failed : BOOLEAN]

(* common.Metric: its name and test, and the counts its value is made of.  *)
(* Response times, bytes and the system metrics are left out: they travel  *)
(* the same way.                                                           *)
Metric == [name : {"requests_total", "errors_total", "error_rate"},
           test : TestIDs, requests : 0..MaxResults, errors : 0..MaxResults]

TypeOK ==
  /\ resultsCh \in Seq(Result) /\ Len(resultsCh) <= ResultsSize
  /\ received \in Seq(Result) /\ Len(received) <= 1
  /\ DOMAIN buffers \subseteq TestIDs
  /\ \A t \in DOMAIN buffers :
       buffers[t] \in [requests : 1..MaxResults, errors : 0..MaxResults]
  /\ round \in Seq(Metric) /\ locked \in BOOLEAN
  /\ metricsCh \in Seq(Metric) /\ Len(metricsCh) <= MetricsSize
  /\ metricBatch \in Seq(Metric) /\ Len(metricBatch) < BatchSize
  /\ resultBatch \in Seq(Result) /\ Len(resultBatch) < BatchSize
  /\ {reported, dropped, made} \subseteq [TestIDs -> 0..MaxResults]
  /\ running \subseteq Goroutine /\ {up, panicked} \subseteq BOOLEAN
  /\ rounds \in 0..MaxRounds

Init ==
  /\ resultsCh = <<>> /\ received = <<>>
  /\ buffers = [t \in {} |-> <<>>]
  /\ round = <<>> /\ locked = FALSE /\ metricsCh = <<>>
  /\ metricBatch = <<>> /\ resultBatch = <<>>
  /\ made = [t \in TestIDs |-> 0] /\ reported = made /\ dropped = made
  /\ running = Goroutine /\ up = TRUE /\ panicked = FALSE
  /\ rounds = 0
-----------------------------------------------------------------------------
(* The requests of test t in a sequence of results; in one of metrics.     *)
ResultsOf(t, results) ==
  SumFunction([i \in DOMAIN results |->
                 IF results[i].test = t THEN 1 ELSE 0])

RequestsIn(t, metrics) ==
  SumFunction([i \in DOMAIN metrics |->
                 IF metrics[i].name = "requests_total" /\ metrics[i].test = t
                 THEN metrics[i].requests ELSE 0])

(* A virtual user of the executor sends a result.                          *)
SendResult(r) ==
  /\ SumFunction(made) < MaxResults
  /\ Len(resultsCh) < ResultsSize
  /\ resultsCh' = Append(resultsCh, r)
  /\ made' = [made EXCEPT ![r.test] = @ + 1]
  /\ UNCHANGED <<received, collector, metricsCh, batches, lives, rounds>>

(* processResults receives a result ...                                    *)
ReceiveResult ==
  /\ "processor" \in running
  /\ received = <<>> /\ resultsCh # <<>>
  /\ received' = <<Head(resultsCh)>>
  /\ resultsCh' = Tail(resultsCh)
  /\ UNCHANGED <<collector, metricsCh, batches, lives, made, rounds>>

(* The buffers after result r.                                             *)
Counted(r) ==
  LET old == IF r.test \in DOMAIN buffers THEN buffers[r.test]
             ELSE [requests |-> 0, errors |-> 0]
      new == [requests |-> old.requests + 1,
              errors |-> old.errors + (IF r.failed THEN 1 ELSE 0)]
  IN  [t \in DOMAIN buffers \cup {r.test} |->
         IF t = r.test THEN new ELSE buffers[t]]

(* Mutant: ProcessResult does not wait for m.mu.                           *)
ProcessResult_Unlocked ==
  /\ "processor" \in running /\ received # <<>>
  /\ buffers' = Counted(Head(received))
  /\ received' = <<>>
  /\ UNCHANGED <<resultsCh, round, locked, dropped, metricsCh, batches, lives,
                 made, rounds>>

(* ... and has ProcessResult count it, once no round is under way.         *)
ProcessResult ==
  /\ "processor" \in running /\ received # <<>>
  /\ ~ locked
  /\ buffers' = Counted(Head(received))
  /\ received' = <<>>
  /\ UNCHANGED <<resultsCh, round, locked, dropped, metricsCh, batches, lives,
                 made, rounds>>
-----------------------------------------------------------------------------
(* The j-th metric of test t.                                              *)
MetricOf(t, j) ==
  [name |-> <<"requests_total", "errors_total", "error_rate">>[j],
   test |-> t, requests |-> buffers[t].requests, errors |-> buffers[t].errors]

(* The metrics of a round, three for each test: the tests come in the      *)
(* order of a map iteration, which is any order.                           *)
Rounds ==
  LET n == Cardinality(DOMAIN buffers)
  IN  {[i \in 1..3*n |->
          MetricOf(order[((i - 1) \div 3) + 1], ((i - 1) % 3) + 1)] :
         order \in Bijection(1..n, DOMAIN buffers)}

(* collectAndSendMetrics takes m.mu ...                                    *)
StartRound ==
  /\ "collector" \in running /\ ~ locked
  /\ rounds < MaxRounds
  /\ rounds' = rounds + 1
  /\ locked' = TRUE
  /\ round' \in Rounds
  /\ UNCHANGED <<resultsCh, received, buffers, dropped, metricsCh, batches,
                 lives, made>>

(* Mutants: the collector waits for room in metricsCh; the channel is      *)
(* taken to have room.                                                     *)
SendMetric_Blocking ==
  /\ round # <<>>
  /\ Len(metricsCh) < MetricsSize
  /\ metricsCh' = Append(metricsCh, Head(round))
  /\ round' = Tail(round)
  /\ UNCHANGED <<resultsCh, received, buffers, locked, dropped, batches,
                 lives, made, rounds>>

SendMetric_Unbounded ==
  /\ round # <<>>
  /\ metricsCh' = Append(metricsCh, Head(round))
  /\ round' = Tail(round)
  /\ UNCHANGED <<resultsCh, received, buffers, locked, dropped, batches,
                 lives, made, rounds>>

(* ... sends one metric after the other, or drops it for want of room ...  *)
SendMetric ==
  /\ round # <<>>
  /\ IF Len(metricsCh) < MetricsSize
     THEN metricsCh' = Append(metricsCh, Head(round)) /\ UNCHANGED dropped
     ELSE /\ dropped' = [t \in TestIDs |->
                           dropped[t] + RequestsIn(t, <<Head(round)>>)]
          /\ UNCHANGED metricsCh
  /\ round' = Tail(round)
  /\ UNCHANGED <<resultsCh, received, buffers, locked, batches, lives, made,
                 rounds>>

(* Mutant: the errors are not reset.                                       *)
EndRound_KeepsErrors ==
  /\ locked /\ round = <<>>
  /\ locked' = FALSE
  /\ buffers' = [t \in DOMAIN buffers |-> [buffers[t] EXCEPT !.requests = 0]]
  /\ UNCHANGED <<resultsCh, received, round, dropped, metricsCh, batches,
                 lives, made, rounds>>

(* ... and resets the buffers, whatever became of the metrics.             *)
EndRound ==
  /\ locked /\ round = <<>>
  /\ locked' = FALSE
  /\ buffers' = [t \in {} |-> <<>>]
  /\ UNCHANGED <<resultsCh, received, round, dropped, metricsCh, batches,
                 lives, made, rounds>>
-----------------------------------------------------------------------------
(* sendMetricsBatch.                                                       *)
ReportMetrics(batch) ==
  reported' = [t \in TestIDs |-> reported[t] + RequestsIn(t, batch)]

(* reportMetrics receives a metric; a full batch is sent.                  *)
BatchMetric ==
  /\ "metricsReporter" \in running /\ metricsCh # <<>>
  /\ metricsCh' = Tail(metricsCh)
  /\ LET batch == Append(metricBatch, Head(metricsCh))
     IN  IF Len(batch) >= BatchSize
         THEN ReportMetrics(batch) /\ metricBatch' = <<>>
         ELSE metricBatch' = batch /\ UNCHANGED reported
  /\ UNCHANGED <<resultsCh, received, collector, resultBatch, lives, made,
                 rounds>>

(* Its ticker fires; or its context is done, and it returns.               *)
FlushMetrics ==
  /\ "metricsReporter" \in running
  /\ \/ metricBatch # <<>> /\ UNCHANGED running
     \/ ~ up /\ running' = running \ {"metricsReporter"}
  /\ ReportMetrics(metricBatch)
  /\ metricBatch' = <<>>
  /\ UNCHANGED <<resultsCh, received, collector, metricsCh, resultBatch, up,
                 panicked, made, rounds>>

(* sendResultsBatch: the conversion asks every result for the text of its  *)
(* error and panics if there is none.                                      *)
ReportResults(batch) ==
  IF \A i \in DOMAIN batch : batch[i].failed
  THEN /\ reported' = [t \in TestIDs |-> reported[t] + ResultsOf(t, batch)]
       /\ UNCHANGED panicked
  ELSE panicked' = TRUE /\ UNCHANGED reported

(* reportResults receives a result; a full batch is sent.                  *)
BatchResult ==
  /\ "resultsReporter" \in running /\ resultsCh # <<>>
  /\ resultsCh' = Tail(resultsCh)
  /\ LET batch == Append(resultBatch, Head(resultsCh))
     IN  IF Len(batch) >= BatchSize
         THEN ReportResults(batch) /\ resultBatch' = <<>>
         ELSE resultBatch' = batch /\ UNCHANGED <<reported, panicked>>
  /\ UNCHANGED <<received, collector, metricsCh, metricBatch, running, up,
                 made, rounds>>

(* Mutant: the ticker of reportResults is forgotten.                       *)
FlushResults_NoTick ==
  /\ "resultsReporter" \in running
  /\ ~ up /\ running' = running \ {"resultsReporter"}
  /\ ReportResults(resultBatch)
  /\ resultBatch' = <<>>
  /\ UNCHANGED <<resultsCh, received, collector, metricsCh, metricBatch, up,
                 made, rounds>>

(* Its ticker fires; or its context is done, and it returns.               *)
FlushResults ==
  /\ "resultsReporter" \in running
  /\ \/ resultBatch # <<>> /\ UNCHANGED running
     \/ ~ up /\ running' = running \ {"resultsReporter"}
  /\ ReportResults(resultBatch)
  /\ resultBatch' = <<>>
  /\ UNCHANGED <<resultsCh, received, collector, metricsCh, metricBatch, up,
                 made, rounds>>
-----------------------------------------------------------------------------
Return(goroutine) ==
  /\ goroutine \in running
  /\ running' = running \ {goroutine}
  /\ UNCHANGED <<resultsCh, received, collector, metricsCh, batches, up,
                 panicked, made, rounds>>

(* The context of Start is done.                                           *)
Cancel ==
  /\ up
  /\ up' = FALSE
  /\ UNCHANGED <<resultsCh, received, collector, metricsCh, batches, running,
                 panicked, made, rounds>>

(* Both select loops return between two of their other steps.              *)
ProcessorReturns == ~ up /\ received = <<>> /\ Return("processor")

CollectorReturns == ~ up /\ ~ locked /\ Return("collector")

(* Start returns after wg.Wait, which waits for processResults only.       *)
StartReturns == ~ up /\ "processor" \notin running /\ Return("start")

(* Once Start has returned, workerCmd returns and the process exits: what  *)
(* still runs may go on for a while, and nothing has to.                   *)
Alive == ~ panicked /\ "start" \in running

Processing == ReceiveResult \/ ProcessResult \/ ProcessorReturns

Collecting == SendMetric \/ EndRound \/ CollectorReturns

Next ==
  /\ ~ panicked
  /\ \/ \E r \in Result : SendResult(r)
     \/ Processing \/ StartRound \/ Collecting
     \/ BatchMetric \/ FlushMetrics \/ BatchResult \/ FlushResults
     \/ Cancel \/ StartReturns

(* While the process is alive, Go runs every goroutine that can run, and   *)
(* tickers go on firing.                                                   *)
Fairness ==
  /\ WF_vars(Alive /\ Processing)
  /\ WF_vars(Alive /\ Collecting)
  /\ WF_vars(Alive /\ (BatchMetric \/ FlushMetrics))
  /\ WF_vars(Alive /\ FlushResults)
  /\ WF_vars(Alive /\ StartReturns)

Spec == Init /\ [][Next]_vars /\ Fairness
-----------------------------------------------------------------------------
(* Where the requests of test t are: a round has taken over the buffers    *)
(* while it is under way.                                                  *)
InChannels(t) ==
  ResultsOf(t, resultsCh) + ResultsOf(t, received) + RequestsIn(t, metricsCh)

InCollector(t) ==
  IF locked THEN RequestsIn(t, round)
  ELSE IF t \in DOMAIN buffers THEN buffers[t].requests ELSE 0

InBatches(t) == ResultsOf(t, resultBatch) + RequestsIn(t, metricBatch)

(* No request is told to the master twice, and none is lost on the way but *)
(* in a metric that found its channel full: while a round is under way no  *)
(* result slips into the buffers it is about to reset, and no batch is     *)
(* sent again.                                                             *)
Conserved ==
  ~ panicked =>
    \A t \in TestIDs :
      made[t] = InChannels(t) + InCollector(t) + InBatches(t)
                  + dropped[t] + reported[t]

(* An error rate is between 0 and 100 percent: the requests and the errors *)
(* it is made of were counted over the same period.                        *)
RatesAreRates ==
  \A i \in DOMAIN metricsCh :
    metricsCh[i].name = "error_rate" =>
      metricsCh[i].errors <= metricsCh[i].requests

(* What a worker holds back in a batch it reports in the end, without      *)
(* waiting for the batch to fill up or for the worker to be stopped.  When *)
(* Start has returned it may be lost: nobody waits for the reporter.       *)
BatchesSent ==
  resultBatch # <<>> ~> resultBatch = <<>> \/ ~ Alive

(* Once its context is done, Start returns: neither a round of metrics nor *)
(* a full channel keeps processResults from seeing the end.                *)
ShutsDown == ~ up ~> "start" \notin running \/ panicked

(* "processResults processes test results and forwards them to metrics     *)
(* collector": a result that leaves the channel is on its way there.       *)
ForwardsAll ==
  [][Len(resultsCh') < Len(resultsCh) => received' = <<Head(resultsCh)>>]_vars
=============================================================================
