---------------------------- MODULE Orchestrator ----------------------------
(***************************************************************************)
(* The master's registry of workers and tests, pkg/master/orchestrator.go, *)
(* together with the availability test of pkg/master/scheduler.go.  Every  *)
(* method of common.OrchestrationMethods that changes state is an action:  *)
(* each holds o.Mu from its first line to its last, so it is one step.  A  *)
(* call that returns an error changes nothing; it is a stuttering step.    *)
(*                                                                         *)
(* The master never completes a test and never ends one by its Duration: a *)
(* test leaves RUNNING only by StopTest or by RemoveWorker.                *)
(***************************************************************************)
EXTENDS Scheduler

CONSTANTS
  WorkerIDs,    \* the IDs workers register under
  TestIDs,      \* the IDs tests are started under
  NoTest,       \* the empty ID, ""; it is in TestIDs if clients leave it out
  Capacities,   \* the capacities workers declare (nothing validates them)
  UserCounts,   \* the VirtualUsers of the tests that pass Validate
  MaxWorkers    \* MasterConfig.MaxWorkers

ASSUME WorkerIDsAssumption == IsFiniteSet(WorkerIDs)
ASSUME CapacitiesAssumption == Capacities \subseteq Int
ASSUME UserCountsAssumption == UserCounts \subseteq Nat \ {0}
ASSUME MaxWorkersAssumption == MaxWorkers \in Nat \ {0}

VARIABLES
  workers,      \* o.Workers: the registered workers
  tests         \* o.Tests: the tests ever started

vars == <<workers, tests>>

(* common.WorkerState.  fresh: the last heartbeat is at most 30 s old.     *)
(* overloaded: Info.Resources shows more than 80% of CPU or of memory.     *)
Worker ==
  [status : {"ready", "idle", "running"}, activeUsers : Nat,
   currentTestID : TestIDs \cup {NoTest},
   capacity : Capacities, fresh : BOOLEAN, overloaded : BOOLEAN]

(* The copy of a WorkerState that a test keeps for each of its workers.    *)
Entry == [status : {"idle", "running"}, activeUsers : Nat]

(* common.Test.  COMPLETED is declared and assigned nowhere; PENDING does  *)
(* not outlive the critical section that starts the test.                  *)
TestOver(W) ==
  [state : {"RUNNING", "CANCELLED", "FAILED"}, users : UserCounts,
   workers : [W -> Entry]]

TypeOK ==
  /\ DOMAIN workers \subseteq WorkerIDs
  /\ \A w \in DOMAIN workers : workers[w] \in Worker
  /\ DOMAIN tests \subseteq TestIDs
  /\ \A t \in DOMAIN tests :
       \E W \in SUBSET WorkerIDs : tests[t] \in TestOver(W)
  /\ workers = [w \in DOMAIN workers |-> workers[w]]
  /\ tests = [t \in DOMAIN tests |-> tests[t]]

Init ==
  /\ workers = [w \in {} |-> NoTest]
  /\ tests = [t \in {} |-> NoTest]
-----------------------------------------------------------------------------
(* Mutant: a worker that runs a test is available too.                     *)
Available_AnyStatus(w) ==
  /\ workers[w].fresh
  /\ workers[w].activeUsers < workers[w].capacity
  /\ ~ workers[w].overloaded

(* isWorkerAvailable, and the workers that pass it.                        *)
Available(w) ==
  /\ workers[w].status \in {"idle", "ready"}
  /\ workers[w].fresh
  /\ workers[w].activeUsers < workers[w].capacity
  /\ ~ workers[w].overloaded

AvailableWorkers == {w \in DOMAIN workers : Available(w)}

(* Mutant: Status is left to its zero value.                               *)
Registered_NoStatus(c, overloaded) ==
  [status |-> "", activeUsers |-> 0, currentTestID |-> NoTest,
   capacity |-> c, fresh |-> TRUE, overloaded |-> overloaded]

(* The state of a worker that has just registered.                         *)
Registered(c, overloaded) ==
  [status |-> "ready", activeUsers |-> 0, currentTestID |-> NoTest,
   capacity |-> c, fresh |-> TRUE, overloaded |-> overloaded]

(* Mutant: the load is not reset.                                          *)
Idled_KeepsLoad(worker) ==
  [worker EXCEPT !.status = "idle", !.currentTestID = NoTest]

(* What StopTest makes of a worker, whatever it was doing.                 *)
Idled(worker) ==
  [worker EXCEPT !.status = "idle", !.activeUsers = 0,
                 !.currentTestID = NoTest]
-----------------------------------------------------------------------------
(***************************************************************************)
(* StartTest: allocate workers for the u users of test t, mark each as     *)
(* running its share, and file the test under its ID, replacing whatever   *)
(* was filed there before.                                                 *)
(***************************************************************************)
StartTest(t, u) ==
  \E allocation \in
       AllocateWorkers(AvailableWorkers,
                       [w \in DOMAIN workers |-> workers[w].capacity], u) :
    /\ workers' =
         [w \in DOMAIN workers |->
            IF w \in DOMAIN allocation
            THEN [workers[w] EXCEPT !.status = "running",
                                    !.activeUsers = allocation[w],
                                    !.currentTestID = t]
            ELSE workers[w]]
    /\ tests' =
         [s \in DOMAIN tests \cup {t} |->
            IF s = t
            THEN [state |-> "RUNNING", users |-> u,
                  workers |-> [w \in DOMAIN allocation |->
                                 [status |-> "running",
                                  activeUsers |-> allocation[w]]]]
            ELSE tests[s]]

(* The workers of test t after it stopped.                                 *)
IdleEntries(t) ==
  [w \in DOMAIN tests[t].workers |-> [status |-> "idle", activeUsers |-> 0]]

(* Mutants: the state of the test is not set; every worker is made idle;   *)
(* the workers of the registry are forgotten.                              *)
StopTest_KeepsState(t) ==
  /\ t \in DOMAIN tests
  /\ workers' = [w \in DOMAIN workers |->
                   IF w \in DOMAIN tests[t].workers THEN Idled(workers[w])
                                                    ELSE workers[w]]
  /\ tests' = [tests EXCEPT ![t].workers = IdleEntries(t)]

StopTest_IdlesAll(t) ==
  /\ t \in DOMAIN tests
  /\ workers' = [w \in DOMAIN workers |-> Idled(workers[w])]
  /\ tests' = [tests EXCEPT ![t].state = "CANCELLED",
                            ![t].workers = IdleEntries(t)]

StopTest_KeepsWorkers(t) ==
  /\ t \in DOMAIN tests
  /\ tests' = [tests EXCEPT ![t].state = "CANCELLED",
                            ![t].workers = IdleEntries(t)]
  /\ UNCHANGED workers

(***************************************************************************)
(* StopTest: whatever state the test is in, it becomes CANCELLED, and the  *)
(* workers on its list that are still registered become idle.              *)
(***************************************************************************)
StopTest(t) ==
  /\ t \in DOMAIN tests
  /\ workers' =
       [w \in DOMAIN workers |->
          IF w \in DOMAIN tests[t].workers THEN Idled(workers[w])
                                           ELSE workers[w]]
  /\ tests' = [tests EXCEPT ![t].state = "CANCELLED",
                            ![t].workers = IdleEntries(t)]

(* The registration of w, new or not: its previous state is forgotten.     *)
PutWorker(w, c, overloaded) ==
  /\ workers' = [v \in DOMAIN workers \cup {w} |->
                   IF v = w THEN Registered(c, overloaded) ELSE workers[v]]
  /\ UNCHANGED tests

(* RegisterWorker: refused once MaxWorkers are registered.                 *)
RegisterWorker(w, c, overloaded) ==
  /\ Cardinality(DOMAIN workers) < MaxWorkers
  /\ PutWorker(w, c, overloaded)

(* UpdateWorkerHeartbeat.                                                  *)
UpdateWorkerHeartbeat(w, overloaded) ==
  /\ w \in DOMAIN workers
  /\ workers' = [workers EXCEPT ![w].fresh = TRUE,
                                ![w].overloaded = overloaded]
  /\ UNCHANGED tests

(* Mutants: the test is not told; every test that lists w is failed.       *)
RemoveWorker_KeepsTest(w) ==
  /\ w \in DOMAIN workers
  /\ workers' = [v \in DOMAIN workers \ {w} |-> workers[v]]
  /\ UNCHANGED tests

RemoveWorker_FailsAll(w) ==
  /\ w \in DOMAIN workers
  /\ workers' = [v \in DOMAIN workers \ {w} |-> workers[v]]
  /\ tests' = [t \in DOMAIN tests |->
                 IF w \in DOMAIN tests[t].workers
                 THEN [tests[t] EXCEPT !.state = "FAILED"] ELSE tests[t]]

(* RemoveWorker: the test the worker runs, if it has one, becomes FAILED;  *)
(* the other workers of that test keep running it.                         *)
RemoveWorker(w) ==
  /\ w \in DOMAIN workers
  /\ LET t == workers[w].currentTestID
     IN  tests' = IF t # NoTest /\ t \in DOMAIN tests
                  THEN [tests EXCEPT ![t].state = "FAILED"] ELSE tests
  /\ workers' = [v \in DOMAIN workers \ {w} |-> workers[v]]

(* 30 seconds pass with no heartbeat of w.                                 *)
Expire(w) ==
  /\ w \in DOMAIN workers
  /\ workers[w].fresh
  /\ workers' = [workers EXCEPT ![w].fresh = FALSE]
  /\ UNCHANGED tests

Next ==
  \/ \E t \in TestIDs, u \in UserCounts : StartTest(t, u)
  \/ \E t \in TestIDs : StopTest(t)
  \/ \E w \in WorkerIDs, c \in Capacities, o \in BOOLEAN :
       RegisterWorker(w, c, o)
  \/ \E w \in WorkerIDs, o \in BOOLEAN : UpdateWorkerHeartbeat(w, o)
  \/ \E w \in WorkerIDs : RemoveWorker(w)
  \/ \E w \in WorkerIDs : Expire(w)

Spec == Init /\ [][Next]_vars
-----------------------------------------------------------------------------
(* What w is doing, as the registry of workers has it.                     *)
Runs(w, t) ==
  /\ w \in DOMAIN workers
  /\ workers[w].status = "running"
  /\ workers[w].currentTestID = t

(* A running test has workers for exactly the users it was asked for: the  *)
(* counts the scheduler handed out add up to VirtualUsers, however the     *)
(* integer divisions of its two passes round and whichever workers were    *)
(* busy, silent, overloaded or too small when it ran.                      *)
Staffed ==
  \A t \in DOMAIN tests :
    tests[t].state = "RUNNING" =>
      SumFunction([w \in DOMAIN tests[t].workers |->
                     tests[t].workers[w].activeUsers]) = tests[t].users

(* No worker is given more users than the capacity it declared, and a      *)
(* worker has users exactly while it runs a test that is on file: after    *)
(* any mix of starts, stops, replacements and removals there is neither a  *)
(* busy worker with no load nor load on a worker that could be allocated.  *)
LoadFitsStatus ==
  \A w \in DOMAIN workers :
    IF workers[w].status = "running"
    THEN /\ workers[w].activeUsers \in 1..workers[w].capacity
         /\ workers[w].currentTestID \in DOMAIN tests
    ELSE /\ workers[w].activeUsers = 0
         /\ workers[w].currentTestID = NoTest

(* "If worker is running a test, mark it as failed": a step that takes a   *)
(* running worker off the registry leaves its test FAILED.                 *)
RemovalFailsTest ==
  [][\A w \in WorkerIDs, t \in TestIDs :
       Runs(w, t) /\ w \notin DOMAIN workers' => tests'[t].state = "FAILED"]_vars

(* A worker that runs a test is allocated to no other one: it leaves the   *)
(* test by becoming idle, by registering anew or by being removed, never   *)
(* by a second allocation on top of the first.                             *)
NeverReassigned ==
  [][\A w \in WorkerIDs, t \in TestIDs :
       Runs(w, t) /\ w \in DOMAIN workers' /\ workers'[w].status = "running"
         => /\ workers'[w].currentTestID = t
            /\ workers'[w].activeUsers = workers[w].activeUsers]_vars

(* While nobody touches a running test, the workers that run it go on      *)
(* doing so: stopping or starting other tests, or registering workers,     *)
(* does not take them away.                                                *)
Undisturbed ==
  [][\A w \in WorkerIDs, t \in DOMAIN tests :
       /\ Runs(w, t)
       /\ tests[t].state = "RUNNING"
       /\ tests'[t] = tests[t]
       => /\ Runs(w, t)'
          /\ workers'[w].activeUsers = workers[w].activeUsers]_vars
=============================================================================
