------------------------------- MODULE Master -------------------------------
(***************************************************************************)
(* The master as its clients see it: the operations of pkg/master/api.go   *)
(* that change state, over the orchestrator.  Each holds m.mu throughout,  *)
(* so it is one step.  Tests go through the orchestrator; workers do not:  *)
(* the master writes the registry itself, and offers no way to remove one. *)
(*                                                                         *)
(* MasterNext lets the clients call anything in any order.  The weaker     *)
(* specifications below it restrict the clients, never the master, to      *)
(* show which of its promises depend on how it is called:                  *)
(*   - fresh test IDs, as cmd/root.go draws them (uuid.New);               *)
(*   - one StopTest per test, while it runs, as cmd/root.go does on a      *)
(*     signal;                                                             *)
(*   - one registration per worker ID.                                     *)
(***************************************************************************)
EXTENDS Orchestrator

(* Master.RegisterWorker does not ask how many workers there are.          *)
APIRegisterWorker(w, c, overloaded) == PutWorker(w, c, overloaded)

UpdateWorkerStatus(w, overloaded) == UpdateWorkerHeartbeat(w, overloaded)

(* Calls and delays that every client may produce.                         *)
Upkeep ==
  \/ \E w \in WorkerIDs, o \in BOOLEAN : UpdateWorkerStatus(w, o)
  \/ \E w \in WorkerIDs : Expire(w)

AnyRegistration ==
  \E w \in WorkerIDs, c \in Capacities, o \in BOOLEAN :
    APIRegisterWorker(w, c, o)

MasterNext ==
  \/ \E t \in TestIDs, u \in UserCounts : StartTest(t, u)
  \/ \E t \in TestIDs : StopTest(t)
  \/ AnyRegistration
  \/ Upkeep

MasterSpec == Init /\ [][MasterNext]_vars
-----------------------------------------------------------------------------
(* The restrictions on clients.                                            *)
FreshStart == \E t \in TestIDs \ DOMAIN tests, u \in UserCounts :
                StartTest(t, u)

FirstRegistration ==
  \E w \in WorkerIDs \ DOMAIN workers, c \in Capacities, o \in BOOLEAN :
    APIRegisterWorker(w, c, o)

StopRunning == \E t \in DOMAIN tests :
                 tests[t].state = "RUNNING" /\ StopTest(t)

(* Everything the master and the orchestrator offer, under fresh test IDs. *)
FreshNext ==
  \/ FreshStart
  \/ \E t \in TestIDs : StopTest(t)
  \/ AnyRegistration
  \/ \E w \in WorkerIDs : RemoveWorker(w)
  \/ Upkeep

FreshSpec == Init /\ [][FreshNext]_vars

(* The client of cmd/root.go: all three restrictions.                      *)
CarefulNext ==
  \/ FreshStart
  \/ StopRunning
  \/ FirstRegistration
  \/ Upkeep

CarefulSpec == Init /\ [][CarefulNext]_vars

(* A careful client, except that a test may be stopped again.              *)
RestopSpec ==
  Init /\ [][CarefulNext \/ \E t \in TestIDs : StopTest(t)]_vars
-----------------------------------------------------------------------------
(* Under fresh IDs, what a worker is doing is on file: the test it runs is *)
(* RUNNING, or FAILED by the loss of another worker and not stopped yet,   *)
(* and lists the worker with the same number of users.  Repeated stops,    *)
(* re-registrations and removals do not break this.                        *)
WorkerBacked ==
  \A w \in DOMAIN workers :
    LET t == workers[w].currentTestID
    IN  workers[w].status = "running" =>
          /\ t \in DOMAIN tests
          /\ tests[t].state \in {"RUNNING", "FAILED"}
          /\ w \in DOMAIN tests[t].workers
          /\ tests[t].workers[w] =
               [status |-> "running", activeUsers |-> workers[w].activeUsers]

(* Under fresh IDs a test that has ended never runs again, and a stopped   *)
(* one is never reported as failed by the later loss of a worker.          *)
NoRevival ==
  [][\A t \in DOMAIN tests :
       /\ tests[t].state = "CANCELLED" => tests'[t].state = "CANCELLED"
       /\ tests[t].state = "FAILED" => tests'[t].state # "RUNNING"]_vars

(* With careful clients, what is on file of a running test is true: each   *)
(* worker on its list is registered and runs it with the users the list    *)
(* says.  With Staffed: a running test has all its users, all the time.    *)
TestBacked ==
  \A t \in DOMAIN tests :
    tests[t].state = "RUNNING" =>
      \A w \in DOMAIN tests[t].workers :
        /\ Runs(w, t)
        /\ workers[w].activeUsers = tests[t].workers[w].activeUsers
-----------------------------------------------------------------------------
(* The master as a lease manager: the registry's view of who runs what,    *)
(* with removed or unknown workers holding nothing.                        *)
Leases == INSTANCE TestLeases WITH
  Workers <- WorkerIDs,
  Tests   <- TestIDs,
  Demands <- UserCounts,
  None    <- NoTest,
  holder  <- [w \in WorkerIDs |-> IF w \in DOMAIN workers
                                  THEN workers[w].currentTestID ELSE NoTest],
  load    <- [w \in WorkerIDs |-> IF w \in DOMAIN workers
                                  THEN workers[w].activeUsers ELSE 0],
  phase   <- [t \in TestIDs |-> IF t \notin DOMAIN tests THEN "new"
                                ELSE IF tests[t].state = "RUNNING"
                                     THEN "held" ELSE "over"]

(* With careful clients the master implements the lease manager: a test    *)
(* gets all its users in one step, from free workers, keeps exactly these  *)
(* and gives all of them back in one step.                                 *)
KeepsLeases == Leases!Spec
=============================================================================
