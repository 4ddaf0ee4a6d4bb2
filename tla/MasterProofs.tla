---------------------------- MODULE MasterProofs ----------------------------
(***************************************************************************)
(* Proofs about Orchestrator and Master, for any finite set of worker IDs, *)
(* any test IDs, capacities and user counts.  Each action has a lemma of   *)
(* its own, for the clients of the master take the same steps as those of  *)
(* the orchestrator, under other restrictions.                             *)
(*                                                                         *)
(* The first part is the registry under any calls.  TypeOK together with   *)
(* LoadFitsStatus is inductive, and so is Staffed beside them: that the    *)
(* load of a running worker fits its capacity, and that a running test has *)
(* all its users, rest on the theorems of AllocationProofs.                *)
(*                                                                         *)
(* The second part is the master under clients that draw fresh test IDs.   *)
(* The inductive invariant has WorkerBacked as well, and NoRevival follows *)
(* from it: a removed worker with a current test is running it             *)
(* (LoadFitsStatus), so that test is not CANCELLED (WorkerBacked).         *)
(*                                                                         *)
(* The third part is the master under careful clients, where TestBacked    *)
(* joins the invariant: a running test and its workers then name each      *)
(* other, so that stopping one test disturbs no other one (Undisturbed),   *)
(* and the master implements TestLeases, step by step.                     *)
(***************************************************************************)
EXTENDS Master, AllocationProofs

Inv == TypeOK /\ LoadFitsStatus

(* One worker of LoadFitsStatus.                                           *)
Fits(worker, onFile) ==
  IF worker.status = "running"
  THEN worker.activeUsers \in 1..worker.capacity
       /\ worker.currentTestID \in onFile
  ELSE worker.activeUsers = 0 /\ worker.currentTestID = NoTest

LEMMA InitInv == Init => Inv
<1> SUFFICES ASSUME Init PROVE Inv
  OBVIOUS
<1>1. DOMAIN workers = {} /\ DOMAIN tests = {}
  BY DEF Init
<1>2. workers = [w \in DOMAIN workers |-> workers[w]]
  BY DEF Init
<1>3. tests = [t \in DOMAIN tests |-> tests[t]]
  BY DEF Init
<1> QED BY <1>1, <1>2, <1>3 DEF Inv, TypeOK, LoadFitsStatus

(* What an allocation is when StartTest asks for one.                      *)
LEMMA StartTestAllocation ==
  ASSUME TypeOK, NEW u \in UserCounts,
         NEW allocation \in
           AllocateWorkers(AvailableWorkers,
                           [w \in DOMAIN workers |-> workers[w].capacity], u)
  PROVE  /\ DOMAIN allocation \subseteq AvailableWorkers
         /\ \A w \in DOMAIN allocation :
              allocation[w] \in 1..workers[w].capacity
         /\ SumFunctionOnSet(allocation, DOMAIN allocation) = u
<1> DEFINE capacity == [w \in DOMAIN workers |-> workers[w].capacity]
<1>1. IsFiniteSet(AvailableWorkers)
  <2>1. AvailableWorkers \subseteq WorkerIDs
    BY DEF TypeOK, AvailableWorkers
  <2> QED BY <2>1, WorkerIDsAssumption, FS_Subset
<1>2. \A w \in AvailableWorkers : capacity[w] \in Nat \ {0}
  <2> TAKE w \in AvailableWorkers
  <2>1. /\ w \in DOMAIN workers
        /\ workers[w].activeUsers < workers[w].capacity
    BY DEF AvailableWorkers, Available
  <2>2. workers[w].activeUsers \in Nat /\ workers[w].capacity \in Int
    BY <2>1, CapacitiesAssumption DEF TypeOK, Worker
  <2> QED BY <2>1, <2>2
<1>3. u \in Nat
  BY UserCountsAssumption
<1>4. /\ DOMAIN allocation \subseteq AvailableWorkers
      /\ \A w \in DOMAIN allocation : allocation[w] \in 1..capacity[w]
  <2> HIDE DEF capacity
  <2> QED BY <1>1, <1>2, <1>3, AllocationContract DEF capacity
<1>5. SumFunction(allocation) = u
  <2> HIDE DEF capacity
  <2> QED BY <1>1, <1>2, <1>3, AllocationServesAll DEF capacity
<1> QED BY <1>4, <1>5 DEF AvailableWorkers, SumFunction

LEMMA StartTestInv ==
  ASSUME Inv, NEW t \in TestIDs, NEW u \in UserCounts, StartTest(t, u)
  PROVE  Inv'
<1>1. PICK allocation \in
             AllocateWorkers(AvailableWorkers,
                             [w \in DOMAIN workers |-> workers[w].capacity], u) :
        /\ workers' =
             [w \in DOMAIN workers |->
                IF w \in DOMAIN allocation
                THEN [workers[w] EXCEPT !.status = "running",
                                        !.activeUsers = allocation[w],
                                        !.currentTestID = t]
                ELSE workers[w]]
        /\ tests' =
             [s \in DOMAIN tests \cup {t} |->
                IF s = t
                THEN [state |-> "RUNNING", users |-> u,
                      workers |-> [w \in DOMAIN allocation |->
                                     [status |-> "running",
                                      activeUsers |-> allocation[w]]]]
                ELSE tests[s]]
  BY DEF StartTest
<1>2. /\ DOMAIN allocation \subseteq AvailableWorkers
      /\ \A w \in DOMAIN allocation : allocation[w] \in 1..workers[w].capacity
  BY StartTestAllocation DEF Inv
<1>3. \A w \in DOMAIN workers :
        workers[w] \in Worker /\ workers[w].capacity \in Int
  BY CapacitiesAssumption DEF Inv, TypeOK, Worker
<1>4. \A w \in DOMAIN workers : Fits(workers[w], DOMAIN tests)
  BY DEF Inv, LoadFitsStatus, Fits
<1>5. DOMAIN workers' = DOMAIN workers /\ DOMAIN tests' = DOMAIN tests \cup {t}
  BY <1>1
<1>6. ASSUME NEW w \in DOMAIN workers
      PROVE  /\ workers'[w] \in Worker
             /\ Fits(workers'[w], DOMAIN tests')
  <2>1. CASE w \in DOMAIN allocation
    <3>1. workers'[w] = [workers[w] EXCEPT !.status = "running",
                                           !.activeUsers = allocation[w],
                                           !.currentTestID = t]
      BY <1>1, <2>1
    <3>2. allocation[w] \in Nat /\ allocation[w] \in 1..workers[w].capacity
      BY <1>2, <1>3, <2>1
    <3> QED BY <1>3, <1>5, <3>1, <3>2 DEF Worker, Fits
  <2>2. CASE w \notin DOMAIN allocation
    BY <1>1, <1>3, <1>4, <1>5, <2>2 DEF Fits
  <2> QED BY <2>1, <2>2
<1>7. ASSUME NEW s \in DOMAIN tests'
      PROVE  \E W \in SUBSET WorkerIDs : tests'[s] \in TestOver(W)
  <2>1. CASE s = t
    <3>1. DOMAIN allocation \in SUBSET WorkerIDs
      BY <1>2 DEF AvailableWorkers, Inv, TypeOK
    <3>2. \A w \in DOMAIN allocation : allocation[w] \in Nat
      BY <1>2, <1>3 DEF AvailableWorkers
    <3>3. tests'[s] \in TestOver(DOMAIN allocation)
      BY <1>1, <2>1, <3>2 DEF TestOver, Entry
    <3> QED BY <3>1, <3>3
  <2>2. CASE s # t
    BY <1>1, <1>5, <2>2 DEF Inv, TypeOK
  <2> QED BY <2>1, <2>2
<1>8. TypeOK'
  BY <1>1, <1>5, <1>6, <1>7 DEF Inv, TypeOK
<1>9. LoadFitsStatus'
  BY <1>5, <1>6 DEF LoadFitsStatus, Fits
<1> QED BY <1>8, <1>9 DEF Inv

(* What StopTest makes of a worker is a worker without a load.             *)
LEMMA IdledWorker ==
  ASSUME NEW worker \in Worker
  PROVE  /\ Idled(worker) \in Worker
         /\ Idled(worker).status = "idle"
         /\ Idled(worker).activeUsers = 0
         /\ Idled(worker).currentTestID = NoTest
<1>1. Idled(worker) \in Worker
  BY DEF Idled, Worker
<1>2. /\ Idled(worker).status = "idle"
      /\ Idled(worker).activeUsers = 0
      /\ Idled(worker).currentTestID = NoTest
  BY DEF Idled, Worker
<1> QED BY <1>1, <1>2

LEMMA StopTestInv ==
  ASSUME Inv, NEW t \in TestIDs, StopTest(t)
  PROVE  Inv'
<1>1. /\ t \in DOMAIN tests
      /\ workers' = [w \in DOMAIN workers |->
                       IF w \in DOMAIN tests[t].workers THEN Idled(workers[w])
                                                        ELSE workers[w]]
      /\ tests' = [tests EXCEPT ![t].state = "CANCELLED",
                                ![t].workers = IdleEntries(t)]
  BY DEF StopTest
<1>2. DOMAIN workers' = DOMAIN workers /\ DOMAIN tests' = DOMAIN tests
  BY <1>1
<1>3. ASSUME NEW w \in DOMAIN workers
      PROVE  workers'[w] \in Worker /\ Fits(workers'[w], DOMAIN tests')
  <2>1. workers[w] \in Worker
    BY DEF Inv, TypeOK
  <2>4. Fits(workers[w], DOMAIN tests)
    BY DEF Inv, LoadFitsStatus, Fits
  <2>2. CASE w \notin DOMAIN tests[t].workers
    <3>1. workers'[w] = workers[w]
      BY <1>1, <2>2
    <3> QED BY <1>2, <2>1, <2>4, <3>1, Zenon
  <2>3. CASE w \in DOMAIN tests[t].workers
    <3>1. workers'[w] = Idled(workers[w])
      BY <1>1, <2>3
    <3>2. workers'[w] \in Worker
      BY <2>1, <3>1, IdledWorker, Zenon
    <3>3. /\ workers'[w].status = "idle"
          /\ workers'[w].activeUsers = 0
          /\ workers'[w].currentTestID = NoTest
      BY <2>1, <3>1, IdledWorker, Zenon
    <3> QED BY <3>2, <3>3 DEF Fits
  <2> QED BY <2>2, <2>3
<1>4. ASSUME NEW s \in DOMAIN tests
      PROVE  \E W \in SUBSET WorkerIDs : tests'[s] \in TestOver(W)
  <2>1. PICK W \in SUBSET WorkerIDs : tests[s] \in TestOver(W)
    BY DEF Inv, TypeOK
  <2>2. CASE s = t
    <3>1. tests'[t] = [tests[t] EXCEPT !.state = "CANCELLED",
                                       !.workers = IdleEntries(t)]
      BY <1>1
    <3>2. DOMAIN tests[t].workers = W
      BY <2>1, <2>2 DEF TestOver
    <3>3. IdleEntries(t) \in [W -> Entry]
      BY <3>2 DEF IdleEntries, Entry
    <3>4. tests'[t] \in TestOver(W)
      BY <2>1, <2>2, <3>1, <3>3 DEF TestOver
    <3> QED BY <2>2, <3>4
  <2>3. CASE s # t
    BY <1>1, <2>1, <2>3
  <2> QED BY <2>2, <2>3
<1>5. TypeOK'
  <2>1. tests' = [s \in DOMAIN tests' |-> tests'[s]]
    BY <1>1 DEF Inv, TypeOK
  <2>2. workers' = [w \in DOMAIN workers' |-> workers'[w]]
    BY <1>1
  <2> QED BY <1>2, <1>3, <1>4, <2>1, <2>2 DEF Inv, TypeOK
<1>6. LoadFitsStatus'
  BY <1>2, <1>3 DEF LoadFitsStatus, Fits
<1> QED BY <1>5, <1>6 DEF Inv

LEMMA PutWorkerInv ==
  ASSUME Inv, NEW w \in WorkerIDs, NEW c \in Capacities, NEW o \in BOOLEAN,
         PutWorker(w, c, o)
  PROVE  Inv'
<1>1. /\ workers' = [v \in DOMAIN workers \cup {w} |->
                       IF v = w THEN Registered(c, o) ELSE workers[v]]
      /\ tests' = tests
  BY DEF PutWorker
<1>2. DOMAIN workers' = DOMAIN workers \cup {w}
  BY <1>1
<1>3. ASSUME NEW v \in DOMAIN workers'
      PROVE  workers'[v] \in Worker /\ Fits(workers'[v], DOMAIN tests)
  <2>1. CASE v = w
    BY <1>1, <2>1 DEF Registered, Worker, Fits
  <2>2. CASE v # w
    BY <1>1, <1>2, <2>2 DEF Inv, TypeOK, LoadFitsStatus, Fits
  <2> QED BY <2>1, <2>2
<1>4. TypeOK'
  BY <1>1, <1>2, <1>3 DEF Inv, TypeOK
<1>5. LoadFitsStatus'
  BY <1>1, <1>2, <1>3 DEF LoadFitsStatus, Fits
<1> QED BY <1>4, <1>5 DEF Inv

(* Heartbeats and silence change neither load nor status.                  *)
LEMMA SignalInv ==
  ASSUME Inv, NEW w \in DOMAIN workers, NEW f \in BOOLEAN, NEW o \in BOOLEAN,
         workers' = [workers EXCEPT ![w].fresh = f, ![w].overloaded = o],
         UNCHANGED tests
  PROVE  Inv'
<1>1. DOMAIN workers' = DOMAIN workers
  OBVIOUS
<1>2. ASSUME NEW v \in DOMAIN workers
      PROVE  workers'[v] \in Worker /\ Fits(workers'[v], DOMAIN tests)
  <2>1. workers[v] \in Worker /\ Fits(workers[v], DOMAIN tests)
    BY DEF Inv, TypeOK, LoadFitsStatus, Fits
  <2>2. \/ workers'[v] = workers[v]
        \/ workers'[v] = [workers[v] EXCEPT !.fresh = f, !.overloaded = o]
    BY DEF Inv, TypeOK
  <2> QED BY <2>1, <2>2 DEF Worker, Fits
<1>3. workers' = [v \in DOMAIN workers' |-> workers'[v]]
  BY DEF Inv, TypeOK
<1>4. TypeOK'
  BY <1>1, <1>2, <1>3 DEF Inv, TypeOK
<1>5. LoadFitsStatus'
  BY <1>1, <1>2 DEF LoadFitsStatus, Fits
<1> QED BY <1>4, <1>5 DEF Inv

LEMMA HeartbeatInv ==
  ASSUME Inv, NEW w \in WorkerIDs, NEW o \in BOOLEAN,
         UpdateWorkerHeartbeat(w, o)
  PROVE  Inv'
BY SignalInv DEF UpdateWorkerHeartbeat

LEMMA ExpireInv ==
  ASSUME Inv, NEW w \in WorkerIDs, Expire(w)
  PROVE  Inv'
<1>1. w \in DOMAIN workers /\ workers[w] \in Worker
  BY DEF Expire, Inv, TypeOK
<1>2. workers' = [workers EXCEPT ![w].fresh = FALSE,
                                 ![w].overloaded = workers[w].overloaded]
  BY <1>1 DEF Expire, Worker, Inv, TypeOK
<1> QED BY <1>1, <1>2, SignalInv DEF Expire, Worker

LEMMA RemoveWorkerInv ==
  ASSUME Inv, NEW w \in WorkerIDs, RemoveWorker(w)
  PROVE  Inv'
<1> DEFINE t == workers[w].currentTestID
<1>1. /\ w \in DOMAIN workers
      /\ tests' = IF t # NoTest /\ t \in DOMAIN tests
                  THEN [tests EXCEPT ![t].state = "FAILED"] ELSE tests
      /\ workers' = [v \in DOMAIN workers \ {w} |-> workers[v]]
  BY DEF RemoveWorker
<1> HIDE DEF t
<1>2. DOMAIN tests' = DOMAIN tests /\ DOMAIN workers' = DOMAIN workers \ {w}
  BY <1>1
<1>3. tests' = [s \in DOMAIN tests' |-> tests'[s]]
  BY <1>1 DEF Inv, TypeOK
<1>4. ASSUME NEW s \in DOMAIN tests
      PROVE  \E W \in SUBSET WorkerIDs : tests'[s] \in TestOver(W)
  <2>1. PICK W \in SUBSET WorkerIDs : tests[s] \in TestOver(W)
    BY DEF Inv, TypeOK
  <2>2. \/ tests'[s] = tests[s]
        \/ tests'[s] = [tests[s] EXCEPT !.state = "FAILED"]
    BY <1>1
  <2>3. tests'[s] \in TestOver(W)
    BY <2>1, <2>2 DEF TestOver
  <2> QED BY <2>3
<1>5. TypeOK'
  BY <1>1, <1>2, <1>3, <1>4 DEF Inv, TypeOK
<1>6. LoadFitsStatus'
  BY <1>1, <1>2 DEF Inv, LoadFitsStatus
<1> QED BY <1>5, <1>6 DEF Inv

(* One step of the orchestrator, or a stuttering step.                     *)
LEMMA NextInv == Inv /\ [Next]_vars => Inv'
<1> SUFFICES ASSUME Inv, [Next]_vars PROVE Inv'
  OBVIOUS
<1>1. ASSUME NEW t \in TestIDs, NEW u \in UserCounts, StartTest(t, u)
      PROVE  Inv'
  BY <1>1, StartTestInv
<1>2. ASSUME NEW t \in TestIDs, StopTest(t) PROVE Inv'
  BY <1>2, StopTestInv
<1>3. ASSUME NEW w \in WorkerIDs, NEW c \in Capacities, NEW o \in BOOLEAN,
             RegisterWorker(w, c, o)
      PROVE  Inv'
  BY <1>3, PutWorkerInv DEF RegisterWorker
<1>4. ASSUME NEW w \in WorkerIDs, NEW o \in BOOLEAN,
             UpdateWorkerHeartbeat(w, o)
      PROVE  Inv'
  BY <1>4, HeartbeatInv
<1>5. ASSUME NEW w \in WorkerIDs, RemoveWorker(w) PROVE Inv'
  BY <1>5, RemoveWorkerInv
<1>6. ASSUME NEW w \in WorkerIDs, Expire(w) PROVE Inv'
  BY <1>6, ExpireInv
<1>7. CASE UNCHANGED vars
  BY <1>7 DEF vars, Inv, TypeOK, LoadFitsStatus, Worker, TestOver, Entry
<1> QED BY <1>1, <1>2, <1>3, <1>4, <1>5, <1>6, <1>7 DEF Next

(* Workers and tests keep their types under any calls.                     *)
THEOREM TypeCorrect == Spec => []TypeOK
<1>1. Inv => TypeOK
  BY DEF Inv
<1> QED BY <1>1, InitInv, NextInv, PTL DEF Spec

(* No allocation overloads a worker, and busy workers are exactly those    *)
(* with a load and a test on file, whatever clients and workers do.        *)
THEOREM LoadsFit == Spec => []LoadFitsStatus
<1>1. Inv => LoadFitsStatus
  BY DEF Inv
<1> QED BY <1>1, InitInv, NextInv, PTL DEF Spec

(* One test of Staffed.                                                    *)
HasItsUsers(test) ==
  test.state = "RUNNING" =>
    SumFunction([w \in DOMAIN test.workers |-> test.workers[w].activeUsers])
      = test.users

(* A test that StartTest files has the users the scheduler handed out, and *)
(* the tests filed before are as they were.                                *)
LEMMA StartTestStaffed ==
  ASSUME Inv, Staffed, NEW t \in TestIDs, NEW u \in UserCounts,
         StartTest(t, u)
  PROVE  Staffed'
<1>1. PICK allocation \in
             AllocateWorkers(AvailableWorkers,
                             [w \in DOMAIN workers |-> workers[w].capacity], u) :
        tests' =
          [s \in DOMAIN tests \cup {t} |->
             IF s = t
             THEN [state |-> "RUNNING", users |-> u,
                   workers |-> [w \in DOMAIN allocation |->
                                  [status |-> "running",
                                   activeUsers |-> allocation[w]]]]
             ELSE tests[s]]
  BY DEF StartTest
<1>2. SumFunctionOnSet(allocation, DOMAIN allocation) = u
  BY StartTestAllocation DEF Inv
<1>3. IsFiniteSet(DOMAIN allocation)
  <2>1. DOMAIN allocation \subseteq WorkerIDs
    BY StartTestAllocation DEF Inv, TypeOK, AvailableWorkers
  <2> QED BY <2>1, WorkerIDsAssumption, FS_Subset
<1> DEFINE users == [w \in DOMAIN tests'[t].workers |->
                       tests'[t].workers[w].activeUsers]
<1>4. /\ DOMAIN users = DOMAIN allocation
      /\ \A w \in DOMAIN allocation : users[w] = allocation[w]
  BY <1>1
<1>5. SumFunction(users) = u
  <2> HIDE DEF users
  <2>1. SumFunctionOnSet(users, DOMAIN allocation) =
          SumFunctionOnSet(allocation, DOMAIN allocation)
    BY <1>3, <1>4, SumSame
  <2> QED BY <1>2, <1>4, <2>1 DEF SumFunction
<1>6. HasItsUsers(tests'[t])
  <2>1. tests'[t].users = u
    BY <1>1
  <2> QED BY <1>5, <2>1 DEF HasItsUsers
<1>7. \A s \in DOMAIN tests' \ {t} : HasItsUsers(tests'[s])
  <2>1. \A s \in DOMAIN tests : HasItsUsers(tests[s])
    BY DEF Staffed, HasItsUsers
  <2> QED BY <1>1, <2>1
<1> QED BY <1>6, <1>7, Zenon DEF Staffed, HasItsUsers

(* The other steps leave a test as it is, or end it.                       *)
LEMMA NoStartStaffed ==
  ASSUME Inv, Staffed,
         \/ \E t \in TestIDs : StopTest(t)
         \/ \E w \in WorkerIDs : RemoveWorker(w)
         \/ UNCHANGED tests
  PROVE  Staffed'
<1>1. DOMAIN tests' = DOMAIN tests
  BY DEF StopTest, RemoveWorker
<1>2. ASSUME NEW s \in DOMAIN tests
      PROVE  tests'[s] = tests[s] \/ tests'[s].state # "RUNNING"
  <2>1. PICK W \in SUBSET WorkerIDs : tests[s] \in TestOver(W)
    BY DEF Inv, TypeOK
  <2>2. ASSUME NEW t \in TestIDs, StopTest(t)
        PROVE  tests'[s] = tests[s] \/ tests'[s].state # "RUNNING"
    <3>1. \/ tests'[s] = tests[s]
          \/ tests'[s] = [tests[s] EXCEPT !.state = "CANCELLED",
                                          !.workers = IdleEntries(t)]
      BY <2>2 DEF StopTest
    <3> QED BY <2>1, <3>1 DEF TestOver
  <2>3. ASSUME NEW w \in WorkerIDs, RemoveWorker(w)
        PROVE  tests'[s] = tests[s] \/ tests'[s].state # "RUNNING"
    <3>1. \/ tests'[s] = tests[s]
          \/ tests'[s] = [tests[s] EXCEPT !.state = "FAILED"]
      BY <2>3 DEF RemoveWorker
    <3> QED BY <2>1, <3>1 DEF TestOver
  <2> QED BY <2>2, <2>3
<1>3. \A s \in DOMAIN tests : HasItsUsers(tests[s])
  BY DEF Staffed, HasItsUsers
<1>4. \A s \in DOMAIN tests' : HasItsUsers(tests'[s])
  BY <1>1, <1>2, <1>3 DEF HasItsUsers
<1> QED BY <1>4, Zenon DEF Staffed, HasItsUsers

LEMMA NextStaffed == Inv /\ Staffed /\ [Next]_vars => Staffed'
<1> SUFFICES ASSUME Inv, Staffed, [Next]_vars PROVE Staffed'
  OBVIOUS
<1>1. ASSUME NEW t \in TestIDs, NEW u \in UserCounts, StartTest(t, u)
      PROVE  Staffed'
  BY <1>1, StartTestStaffed
<1>2. ASSUME NEW t \in TestIDs, StopTest(t) PROVE Staffed'
  BY <1>2, NoStartStaffed
<1>3. ASSUME NEW w \in WorkerIDs, RemoveWorker(w) PROVE Staffed'
  BY <1>3, NoStartStaffed
<1>4. ASSUME UNCHANGED tests PROVE Staffed'
  BY <1>4, NoStartStaffed
<1> QED BY <1>1, <1>2, <1>3, <1>4
        DEF Next, vars, RegisterWorker, PutWorker, UpdateWorkerHeartbeat,
            Expire

(* A running test has workers for exactly the users it was asked for.      *)
THEOREM RunningIsStaffed == Spec => []Staffed
<1>1. Init => Staffed
  BY DEF Init, Staffed
<1> QED BY <1>1, InitInv, NextInv, NextStaffed, PTL DEF Spec

(* What a step does to the worker w that runs t.                           *)
KeepsTest(w, t) ==
  Runs(w, t) /\ w \in DOMAIN workers' /\ workers'[w].status = "running"
    => /\ workers'[w].currentTestID = t
       /\ workers'[w].activeUsers = workers[w].activeUsers

(* No step gives a running worker another test: StartTest asks only for    *)
(* available workers, and the other steps give no worker a test.           *)
LEMMA NextKeepsTest ==
  ASSUME Inv, Next, NEW w \in WorkerIDs, NEW t \in TestIDs
  PROVE  KeepsTest(w, t)
<1> SUFFICES ASSUME w \in DOMAIN workers, workers[w].status = "running",
                    workers[w].currentTestID = t, w \in DOMAIN workers',
                    workers'[w].status = "running"
             PROVE  /\ workers'[w].currentTestID = t
                    /\ workers'[w].activeUsers = workers[w].activeUsers
  BY DEF KeepsTest, Runs
<1>0. workers[w] \in Worker
  BY DEF Inv, TypeOK
<1>1. ASSUME NEW s \in TestIDs, NEW u \in UserCounts, StartTest(s, u)
      PROVE  workers'[w] = workers[w]
  <2>1. PICK allocation \in
               AllocateWorkers(AvailableWorkers,
                               [v \in DOMAIN workers |-> workers[v].capacity],
                               u) :
          workers' = [v \in DOMAIN workers |->
                        IF v \in DOMAIN allocation
                        THEN [workers[v] EXCEPT !.status = "running",
                                                !.activeUsers = allocation[v],
                                                !.currentTestID = s]
                        ELSE workers[v]]
    BY <1>1 DEF StartTest
  <2>2. DOMAIN allocation \subseteq AvailableWorkers
    BY StartTestAllocation DEF Inv
  <2>3. w \notin DOMAIN allocation
    BY <2>2 DEF AvailableWorkers, Available
  <2> QED BY <2>1, <2>3
<1>2. ASSUME NEW s \in TestIDs, StopTest(s)
      PROVE  workers'[w] = workers[w]
  <2>1. workers'[w] = Idled(workers[w]) \/ workers'[w] = workers[w]
    BY <1>2 DEF StopTest
  <2>2. Idled(workers[w]).status # "running"
    BY <1>0, IdledWorker
  <2> QED BY <2>1, <2>2
<1>3. ASSUME NEW v \in WorkerIDs, NEW c \in Capacities, NEW o \in BOOLEAN,
             RegisterWorker(v, c, o)
      PROVE  workers'[w] = workers[w]
  <2>1. workers'[w] = IF w = v THEN Registered(c, o) ELSE workers[w]
    BY <1>3 DEF RegisterWorker, PutWorker
  <2>2. Registered(c, o).status # "running"
    BY DEF Registered
  <2> QED BY <2>1, <2>2
<1>4. ASSUME NEW v \in WorkerIDs, RemoveWorker(v)
      PROVE  workers'[w] = workers[w]
  BY <1>4 DEF RemoveWorker
<1>5. ASSUME NEW v \in WorkerIDs, NEW o \in BOOLEAN,
             UpdateWorkerHeartbeat(v, o)
      PROVE  /\ workers'[w].currentTestID = t
             /\ workers'[w].activeUsers = workers[w].activeUsers
  <2>1. \/ workers'[w] = workers[w]
        \/ workers'[w] = [workers[w] EXCEPT !.fresh = TRUE, !.overloaded = o]
    BY <1>5 DEF UpdateWorkerHeartbeat
  <2> QED BY <1>0, <2>1 DEF Worker
<1>6. ASSUME NEW v \in WorkerIDs, Expire(v)
      PROVE  /\ workers'[w].currentTestID = t
             /\ workers'[w].activeUsers = workers[w].activeUsers
  <2>1. \/ workers'[w] = workers[w]
        \/ workers'[w] = [workers[w] EXCEPT !.fresh = FALSE]
    BY <1>6 DEF Expire
  <2> QED BY <1>0, <2>1 DEF Worker
<1> QED BY <1>1, <1>2, <1>3, <1>4, <1>5, <1>6 DEF Next

(* A worker that runs a test is given to no other one.                     *)
THEOREM NotReassigned == Spec => NeverReassigned
<1>1. Inv /\ [Next]_vars =>
        [\A w \in WorkerIDs, t \in TestIDs : KeepsTest(w, t)]_vars
  BY NextKeepsTest
<1>2. [\A w \in WorkerIDs, t \in TestIDs : KeepsTest(w, t)]_vars <=>
      [\A w \in WorkerIDs, t \in TestIDs :
         Runs(w, t) /\ w \in DOMAIN workers' /\ workers'[w].status = "running"
           => /\ workers'[w].currentTestID = t
              /\ workers'[w].activeUsers = workers[w].activeUsers]_vars
  BY DEF KeepsTest
<1> QED BY <1>1, <1>2, InitInv, NextInv, PTL DEF Spec, NeverReassigned

(* What a step does to the test t of a worker w it takes off the registry. *)
ReportsLoss(w, t) ==
  Runs(w, t) /\ w \notin DOMAIN workers' => tests'[t].state = "FAILED"

(* Only RemoveWorker takes a worker away, and the test it looks up is the  *)
(* one the worker runs, which is on file.                                  *)
LEMMA NextReportsLoss ==
  ASSUME NoTest \notin TestIDs, Inv, Next, NEW w \in WorkerIDs,
         NEW t \in TestIDs
  PROVE  ReportsLoss(w, t)
<1> SUFFICES ASSUME w \in DOMAIN workers, workers[w].status = "running",
                    workers[w].currentTestID = t, w \notin DOMAIN workers'
             PROVE  tests'[t].state = "FAILED"
  BY DEF ReportsLoss, Runs
<1>1. ~ (DOMAIN workers \subseteq DOMAIN workers')
  OBVIOUS
<1>2. PICK v \in WorkerIDs : RemoveWorker(v)
  BY <1>1 DEF Next, StartTest, StopTest, RegisterWorker, PutWorker,
              UpdateWorkerHeartbeat, Expire
<1>3. v = w
  BY <1>2 DEF RemoveWorker
<1>4. t \in DOMAIN tests /\ t # NoTest
  BY DEF Inv, LoadFitsStatus
<1>5. tests' = [tests EXCEPT ![t].state = "FAILED"]
  BY <1>2, <1>3, <1>4 DEF RemoveWorker
<1>6. PICK W \in SUBSET WorkerIDs : tests[t] \in TestOver(W)
  BY <1>4 DEF Inv, TypeOK
<1>7. tests'[t] = [tests[t] EXCEPT !.state = "FAILED"]
  BY <1>4, <1>5
<1> QED BY <1>6, <1>7 DEF TestOver

(* The test of a running worker that is removed becomes FAILED, if clients *)
(* give their tests IDs: RemoveWorker takes the empty one for "no test".   *)
THEOREM LossIsReported ==
  NoTest \notin TestIDs => (Spec => RemovalFailsTest)
<1> SUFFICES ASSUME NoTest \notin TestIDs
             PROVE  Spec => RemovalFailsTest
  OBVIOUS
<1>1. Inv /\ [Next]_vars =>
        [\A w \in WorkerIDs, t \in TestIDs : ReportsLoss(w, t)]_vars
  BY NextReportsLoss
<1>2. [\A w \in WorkerIDs, t \in TestIDs : ReportsLoss(w, t)]_vars <=>
      [\A w \in WorkerIDs, t \in TestIDs :
         Runs(w, t) /\ w \notin DOMAIN workers'
           => tests'[t].state = "FAILED"]_vars
  BY DEF ReportsLoss
<1> QED BY <1>1, <1>2, InitInv, NextInv, PTL DEF Spec, RemovalFailsTest
-----------------------------------------------------------------------------
(* Under any client the invariant of the orchestrator is inductive still:  *)
(* a registration the limit does not stop changes nothing but the worker.  *)
LEMMA MasterNextInv == Inv /\ [MasterNext]_vars => Inv'
<1> SUFFICES ASSUME Inv, [MasterNext]_vars PROVE Inv'
  OBVIOUS
<1>1. ASSUME NEW t \in TestIDs, NEW u \in UserCounts, StartTest(t, u)
      PROVE  Inv'
  BY <1>1, StartTestInv
<1>2. ASSUME NEW t \in TestIDs, StopTest(t) PROVE Inv'
  BY <1>2, StopTestInv
<1>3. CASE AnyRegistration
  BY <1>3, PutWorkerInv DEF AnyRegistration, APIRegisterWorker
<1>4. CASE Upkeep
  BY <1>4, HeartbeatInv, ExpireInv DEF Upkeep, UpdateWorkerStatus
<1>5. CASE UNCHANGED vars
  BY <1>5, NextInv
<1> QED BY <1>1, <1>2, <1>3, <1>4, <1>5 DEF MasterNext

(* Whatever the clients of the master call, in any order, no worker is     *)
(* given more than its capacity, and load, status and test of a worker     *)
(* agree.                                                                  *)
THEOREM MasterLoadsFit == MasterSpec => []LoadFitsStatus
<1>1. Inv => LoadFitsStatus
  BY DEF Inv
<1> QED BY <1>1, InitInv, MasterNextInv, PTL DEF MasterSpec

FreshInv == Inv /\ WorkerBacked

(* One worker of WorkerBacked.                                             *)
Backed(worker, w, onFile) ==
  worker.status = "running" =>
    /\ worker.currentTestID \in DOMAIN onFile
    /\ onFile[worker.currentTestID].state \in {"RUNNING", "FAILED"}
    /\ w \in DOMAIN onFile[worker.currentTestID].workers
    /\ onFile[worker.currentTestID].workers[w] =
         [status |-> "running", activeUsers |-> worker.activeUsers]

LEMMA BackedWorkers ==
  WorkerBacked <=> \A w \in DOMAIN workers : Backed(workers[w], w, tests)
BY DEF WorkerBacked, Backed

LEMMA BackedWorkersNext ==
  WorkerBacked' <=> \A w \in DOMAIN workers' : Backed(workers'[w], w, tests')
BY DEF WorkerBacked, Backed

LEMMA FreshStartBacked ==
  ASSUME FreshInv, NEW t \in TestIDs \ DOMAIN tests, NEW u \in UserCounts,
         StartTest(t, u)
  PROVE  WorkerBacked'
<1>1. PICK allocation \in
             AllocateWorkers(AvailableWorkers,
                             [w \in DOMAIN workers |-> workers[w].capacity], u) :
        /\ workers' =
             [w \in DOMAIN workers |->
                IF w \in DOMAIN allocation
                THEN [workers[w] EXCEPT !.status = "running",
                                        !.activeUsers = allocation[w],
                                        !.currentTestID = t]
                ELSE workers[w]]
        /\ tests' =
             [s \in DOMAIN tests \cup {t} |->
                IF s = t
                THEN [state |-> "RUNNING", users |-> u,
                      workers |-> [w \in DOMAIN allocation |->
                                     [status |-> "running",
                                      activeUsers |-> allocation[w]]]]
                ELSE tests[s]]
  BY DEF StartTest
<1>2. ASSUME NEW w \in DOMAIN workers
      PROVE  Backed(workers'[w], w, tests')
  <2>1. CASE w \in DOMAIN allocation
    <3>1. workers[w] \in Worker
      BY DEF FreshInv, Inv, TypeOK
    <3>2. workers'[w] = [workers[w] EXCEPT !.status = "running",
                                           !.activeUsers = allocation[w],
                                           !.currentTestID = t]
      BY <1>1, <2>1
    <3>3. /\ workers'[w].activeUsers = allocation[w]
          /\ workers'[w].currentTestID = t
      BY <3>1, <3>2 DEF Worker
    <3>4. t \in DOMAIN tests' /\ tests'[t].state = "RUNNING"
      BY <1>1
    <3>5. /\ w \in DOMAIN tests'[t].workers
          /\ tests'[t].workers[w] = [status |-> "running",
                                     activeUsers |-> allocation[w]]
      BY <1>1, <2>1
    <3> QED BY <3>3, <3>4, <3>5 DEF Backed
  <2>2. CASE w \notin DOMAIN allocation
    <3>1. workers'[w] = workers[w]
      BY <1>1, <2>2
    <3>2. Backed(workers[w], w, tests)
      BY BackedWorkers DEF FreshInv
    <3>3. \A s \in DOMAIN tests : s \in DOMAIN tests' /\ tests'[s] = tests[s]
      BY <1>1
    <3> QED BY <3>1, <3>2, <3>3 DEF Backed
  <2> QED BY <2>1, <2>2
<1>3. DOMAIN workers' = DOMAIN workers
  BY <1>1
<1> QED BY <1>2, <1>3, BackedWorkersNext

LEMMA StopTestBacked ==
  ASSUME FreshInv, NEW t \in TestIDs, StopTest(t)
  PROVE  WorkerBacked'
<1>1. /\ t \in DOMAIN tests
      /\ workers' = [w \in DOMAIN workers |->
                       IF w \in DOMAIN tests[t].workers THEN Idled(workers[w])
                                                        ELSE workers[w]]
      /\ tests' = [tests EXCEPT ![t].state = "CANCELLED",
                                ![t].workers = IdleEntries(t)]
  BY DEF StopTest
<1>2. ASSUME NEW w \in DOMAIN workers
      PROVE  Backed(workers'[w], w, tests')
  <2>1. workers[w] \in Worker
    BY DEF FreshInv, Inv, TypeOK
  <2>2. Backed(workers[w], w, tests)
    BY BackedWorkers DEF FreshInv
  <2>3. CASE w \in DOMAIN tests[t].workers
    <3>1. workers'[w] = Idled(workers[w])
      BY <1>1, <2>3
    <3>2. workers'[w].status # "running"
      BY <2>1, <3>1, IdledWorker
    <3> QED BY <3>2 DEF Backed
  <2>4. CASE w \notin DOMAIN tests[t].workers
    <3>1. workers'[w] = workers[w]
      BY <1>1, <2>4
    <3>2. workers[w].status = "running" => workers[w].currentTestID # t
      BY <2>2, <2>4 DEF Backed
    <3>3. \A s \in DOMAIN tests : s # t => s \in DOMAIN tests' /\ tests'[s] = tests[s]
      BY <1>1
    <3> QED BY <2>2, <3>1, <3>2, <3>3 DEF Backed
  <2> QED BY <2>3, <2>4
<1>3. DOMAIN workers' = DOMAIN workers
  BY <1>1
<1> QED BY <1>2, <1>3, BackedWorkersNext

LEMMA PutWorkerBacked ==
  ASSUME FreshInv, NEW w \in WorkerIDs, NEW c \in Capacities, NEW o \in BOOLEAN,
         PutWorker(w, c, o)
  PROVE  WorkerBacked'
<1>1. /\ workers' = [v \in DOMAIN workers \cup {w} |->
                       IF v = w THEN Registered(c, o) ELSE workers[v]]
      /\ tests' = tests
  BY DEF PutWorker
<1>2. ASSUME NEW v \in DOMAIN workers'
      PROVE  Backed(workers'[v], v, tests')
  <2>1. CASE v = w
    <3>1. workers'[v].status # "running"
      BY <1>1, <2>1 DEF Registered
    <3> QED BY <3>1 DEF Backed
  <2>2. CASE v # w
    <3>1. v \in DOMAIN workers /\ workers'[v] = workers[v]
      BY <1>1, <2>2
    <3>2. Backed(workers[v], v, tests)
      BY <3>1, BackedWorkers DEF FreshInv
    <3> QED BY <1>1, <3>1, <3>2 DEF Backed
  <2> QED BY <2>1, <2>2
<1> QED BY <1>2, BackedWorkersNext

(* Heartbeats and silence change neither load nor status.                  *)
LEMMA SignalBacked ==
  ASSUME FreshInv, NEW w \in DOMAIN workers, UNCHANGED tests,
         \/ \E o \in BOOLEAN : workers' = [workers EXCEPT ![w].fresh = TRUE,
                                                         ![w].overloaded = o]
         \/ workers' = [workers EXCEPT ![w].fresh = FALSE]
  PROVE  WorkerBacked'
<1>1. ASSUME NEW v \in DOMAIN workers'
      PROVE  Backed(workers'[v], v, tests')
  <2>1. v \in DOMAIN workers /\ workers[v] \in Worker
    BY DEF FreshInv, Inv, TypeOK
  <2>2. Backed(workers[v], v, tests)
    BY <2>1, BackedWorkers DEF FreshInv
  <2>3. /\ workers'[v].status = workers[v].status
        /\ workers'[v].activeUsers = workers[v].activeUsers
        /\ workers'[v].currentTestID = workers[v].currentTestID
    <3>1. CASE v # w
      BY <2>1, <3>1
    <3>2. CASE v = w
      <4>1. \/ \E o \in BOOLEAN :
                 workers'[v] = [workers[v] EXCEPT !.fresh = TRUE,
                                                  !.overloaded = o]
            \/ workers'[v] = [workers[v] EXCEPT !.fresh = FALSE]
        BY <2>1, <3>2
      <4> QED BY <2>1, <4>1 DEF Worker
    <3> QED BY <3>1, <3>2
  <2> QED BY <2>2, <2>3 DEF Backed
<1> QED BY <1>1, BackedWorkersNext

LEMMA RemoveWorkerBacked ==
  ASSUME FreshInv, NEW w \in WorkerIDs, RemoveWorker(w)
  PROVE  WorkerBacked'
<1> DEFINE t == workers[w].currentTestID
<1>1. /\ w \in DOMAIN workers
      /\ tests' = IF t # NoTest /\ t \in DOMAIN tests
                  THEN [tests EXCEPT ![t].state = "FAILED"] ELSE tests
      /\ workers' = [v \in DOMAIN workers \ {w} |-> workers[v]]
  BY DEF RemoveWorker
<1> HIDE DEF t
<1>2. ASSUME NEW s \in DOMAIN tests
      PROVE  /\ s \in DOMAIN tests'
             /\ tests'[s].workers = tests[s].workers
             /\ tests'[s].state \in {tests[s].state, "FAILED"}
  <2>1. PICK W \in SUBSET WorkerIDs : tests[s] \in TestOver(W)
    BY DEF FreshInv, Inv, TypeOK
  <2>2. \/ tests'[s] = tests[s]
        \/ tests'[s] = [tests[s] EXCEPT !.state = "FAILED"]
    BY <1>1
  <2> QED BY <1>1, <2>1, <2>2 DEF TestOver
<1>3. ASSUME NEW v \in DOMAIN workers'
      PROVE  Backed(workers'[v], v, tests')
  <2>1. v \in DOMAIN workers /\ workers'[v] = workers[v]
    BY <1>1
  <2>2. Backed(workers[v], v, tests)
    BY <2>1, BackedWorkers DEF FreshInv
  <2> QED BY <1>2, <2>1, <2>2 DEF Backed
<1> QED BY <1>3, BackedWorkersNext

LEMMA FreshInit == Init => FreshInv
BY InitInv DEF Init, FreshInv, WorkerBacked

(* One step of the master with fresh test IDs, or a stuttering step.       *)
LEMMA FreshNextInv == FreshInv /\ [FreshNext]_vars => FreshInv'
<1> SUFFICES ASSUME FreshInv, [FreshNext]_vars PROVE FreshInv'
  OBVIOUS
<1>0. Inv
  BY DEF FreshInv
<1>1. CASE FreshStart
  <2>1. PICK t \in TestIDs \ DOMAIN tests, u \in UserCounts : StartTest(t, u)
    BY <1>1 DEF FreshStart
  <2> QED BY <1>0, <2>1, StartTestInv, FreshStartBacked DEF FreshInv
<1>2. ASSUME NEW t \in TestIDs, StopTest(t) PROVE FreshInv'
  BY <1>0, <1>2, StopTestInv, StopTestBacked DEF FreshInv
<1>3. CASE AnyRegistration
  <2>1. PICK w \in WorkerIDs, c \in Capacities, o \in BOOLEAN :
          PutWorker(w, c, o)
    BY <1>3 DEF AnyRegistration, APIRegisterWorker
  <2> QED BY <1>0, <2>1, PutWorkerInv, PutWorkerBacked DEF FreshInv
<1>4. ASSUME NEW w \in WorkerIDs, RemoveWorker(w) PROVE FreshInv'
  BY <1>0, <1>4, RemoveWorkerInv, RemoveWorkerBacked DEF FreshInv
<1>5. ASSUME NEW w \in WorkerIDs, NEW o \in BOOLEAN, UpdateWorkerStatus(w, o)
      PROVE  FreshInv'
  <2>1. UpdateWorkerHeartbeat(w, o)
    BY <1>5 DEF UpdateWorkerStatus
  <2>2. WorkerBacked'
    BY <2>1, SignalBacked DEF UpdateWorkerHeartbeat
  <2> QED BY <1>0, <2>1, <2>2, HeartbeatInv DEF FreshInv
<1>6. ASSUME NEW w \in WorkerIDs, Expire(w) PROVE FreshInv'
  <2>1. WorkerBacked'
    BY <1>6, SignalBacked DEF Expire
  <2> QED BY <1>0, <1>6, <2>1, ExpireInv DEF FreshInv
<1>7. CASE UNCHANGED vars
  <2>1. Inv'
    BY <1>0, <1>7, NextInv
  <2> QED BY <1>7, <2>1 DEF vars, FreshInv, WorkerBacked
<1> QED BY <1>1, <1>2, <1>3, <1>4, <1>5, <1>6, <1>7 DEF FreshNext, Upkeep

(* Whatever a worker is said to run is on file, with the same users, and   *)
(* has not been stopped.                                                   *)
THEOREM RunningIsOnFile == FreshSpec => []WorkerBacked
<1>1. FreshInv => WorkerBacked
  BY DEF FreshInv
<1> QED BY <1>1, FreshInit, FreshNextInv, PTL DEF FreshSpec

(* The states a step may not leave.                                        *)
StaysOver ==
  \A t \in DOMAIN tests :
    /\ tests[t].state = "CANCELLED" => tests'[t].state = "CANCELLED"
    /\ tests[t].state = "FAILED" => tests'[t].state # "RUNNING"

LEMMA RemovalStaysOver ==
  ASSUME FreshInv, NEW w \in WorkerIDs, RemoveWorker(w)
  PROVE  StaysOver
<1> DEFINE s == workers[w].currentTestID
<1>1. /\ w \in DOMAIN workers
      /\ tests' = IF s # NoTest /\ s \in DOMAIN tests
                  THEN [tests EXCEPT ![s].state = "FAILED"] ELSE tests
  BY DEF RemoveWorker
<1>2. s # NoTest => /\ workers[w].status = "running"
                    /\ tests[s].state # "CANCELLED"
  BY <1>1 DEF FreshInv, Inv, LoadFitsStatus, WorkerBacked
<1> HIDE DEF s
<1>3. SUFFICES ASSUME NEW t \in DOMAIN tests
               PROVE  \/ tests'[t].state = tests[t].state
                      \/ t = s /\ s # NoTest /\ tests'[t].state = "FAILED"
  BY <1>2, Zenon DEF StaysOver
<1>4. PICK W \in SUBSET WorkerIDs : tests[t] \in TestOver(W)
  BY DEF FreshInv, Inv, TypeOK
<1>5. CASE t = s /\ s # NoTest
  BY <1>1, <1>4, <1>5 DEF TestOver
<1>6. CASE ~ (t = s /\ s # NoTest)
  BY <1>1, <1>6
<1> QED BY <1>5, <1>6

LEMMA StopStaysOver ==
  ASSUME FreshInv, NEW s \in TestIDs, StopTest(s)
  PROVE  StaysOver
<1>1. SUFFICES ASSUME NEW t \in DOMAIN tests
               PROVE  tests'[t].state \in {tests[t].state, "CANCELLED"}
  BY DEF StaysOver
<1>2. PICK W \in SUBSET WorkerIDs : tests[t] \in TestOver(W)
  BY DEF FreshInv, Inv, TypeOK
<1>3. \/ tests'[t] = tests[t]
      \/ tests'[t] = [tests[t] EXCEPT !.state = "CANCELLED",
                                      !.workers = IdleEntries(t)]
  BY DEF StopTest
<1> QED BY <1>2, <1>3 DEF TestOver

LEMMA FreshNextStaysOver == FreshInv /\ [FreshNext]_vars => [StaysOver]_vars
<1> SUFFICES ASSUME FreshInv, FreshNext PROVE StaysOver
  BY DEF StaysOver, vars
<1>1. CASE FreshStart
  <2>1. \A t \in DOMAIN tests : tests'[t] = tests[t]
    BY <1>1 DEF FreshStart, StartTest
  <2> QED BY <2>1 DEF StaysOver
<1>2. ASSUME NEW t \in TestIDs, StopTest(t) PROVE StaysOver
  BY <1>2, StopStaysOver
<1>3. ASSUME NEW w \in WorkerIDs, RemoveWorker(w) PROVE StaysOver
  BY <1>3, RemovalStaysOver
<1>4. ASSUME UNCHANGED tests PROVE StaysOver
  BY <1>4 DEF StaysOver
<1>5. AnyRegistration \/ Upkeep => UNCHANGED tests
  BY DEF AnyRegistration, APIRegisterWorker, PutWorker, Upkeep,
         UpdateWorkerStatus, UpdateWorkerHeartbeat, Expire
<1> QED BY <1>1, <1>2, <1>3, <1>4, <1>5 DEF FreshNext

(* A test that is over stays over, and one that was stopped is not         *)
(* reported as failed afterwards.                                          *)
THEOREM OverForGood == FreshSpec => NoRevival
<1>1. [StaysOver]_vars <=>
      [\A t \in DOMAIN tests :
         /\ tests[t].state = "CANCELLED" => tests'[t].state = "CANCELLED"
         /\ tests[t].state = "FAILED" => tests'[t].state # "RUNNING"]_vars
  BY DEF StaysOver
<1> QED BY <1>1, FreshInit, FreshNextInv, FreshNextStaysOver, PTL
        DEF FreshSpec, NoRevival
-----------------------------------------------------------------------------
CarefulInv == FreshInv /\ TestBacked

(* What TestBacked says of the entry of w in the file of the running t.    *)
Serves(w, t) ==
  /\ Runs(w, t)
  /\ workers[w].activeUsers = tests[t].workers[w].activeUsers

(* The steps of careful clients are steps of clients with fresh IDs.       *)
LEMMA CarefulIsFresh == Inv /\ [CarefulNext]_vars => [FreshNext]_vars
<1> SUFFICES ASSUME Inv, CarefulNext PROVE FreshNext
  OBVIOUS
<1>1. CASE StopRunning
  <2>1. DOMAIN tests \subseteq TestIDs
    BY DEF Inv, TypeOK
  <2> QED BY <1>1, <2>1 DEF StopRunning, FreshNext
<1>2. CASE FirstRegistration
  BY <1>2 DEF FirstRegistration, AnyRegistration, FreshNext
<1> QED BY <1>1, <1>2 DEF CarefulNext, FreshNext

(* A running test that the step leaves alone keeps the workers the step    *)
(* leaves alone.                                                           *)
LEMMA KeptServes ==
  ASSUME NEW w, NEW t, Serves(w, t), w \in DOMAIN workers',
         workers'[w].status = workers[w].status,
         workers'[w].currentTestID = workers[w].currentTestID,
         workers'[w].activeUsers = workers[w].activeUsers,
         tests'[t] = tests[t]
  PROVE  Serves(w, t)'
BY DEF Serves, Runs

(* A test that starts has only workers that were available: no running one *)
(* loses a worker, and each worker of the new one runs it.                 *)
LEMMA FreshStartTestBacked ==
  ASSUME CarefulInv, NEW t \in TestIDs \ DOMAIN tests, NEW u \in UserCounts,
         StartTest(t, u)
  PROVE  TestBacked'
<1>1. PICK allocation \in
             AllocateWorkers(AvailableWorkers,
                             [w \in DOMAIN workers |-> workers[w].capacity], u) :
        /\ workers' =
             [w \in DOMAIN workers |->
                IF w \in DOMAIN allocation
                THEN [workers[w] EXCEPT !.status = "running",
                                        !.activeUsers = allocation[w],
                                        !.currentTestID = t]
                ELSE workers[w]]
        /\ tests' =
             [s \in DOMAIN tests \cup {t} |->
                IF s = t
                THEN [state |-> "RUNNING", users |-> u,
                      workers |-> [w \in DOMAIN allocation |->
                                     [status |-> "running",
                                      activeUsers |-> allocation[w]]]]
                ELSE tests[s]]
  BY DEF StartTest
<1>2. DOMAIN allocation \subseteq AvailableWorkers
  BY StartTestAllocation DEF CarefulInv, FreshInv, Inv
<1>3. SUFFICES ASSUME NEW s \in DOMAIN tests', tests'[s].state = "RUNNING",
                      NEW w \in DOMAIN tests'[s].workers
               PROVE  Serves(w, s)'
  BY DEF TestBacked, Serves
<1>4. CASE s = t
  <2>1. /\ tests'[t].workers[w].activeUsers = allocation[w]
        /\ w \in DOMAIN allocation
    BY <1>1, <1>3, <1>4
  <2>2. w \in DOMAIN workers /\ workers[w] \in Worker
    BY <1>2, <2>1 DEF AvailableWorkers, CarefulInv, FreshInv, Inv, TypeOK
  <2>3. workers'[w] = [workers[w] EXCEPT !.status = "running",
                                         !.activeUsers = allocation[w],
                                         !.currentTestID = t]
    BY <1>1, <2>1, <2>2
  <2>4. w \in DOMAIN workers'
    BY <1>1, <2>2
  <2> QED BY <1>4, <2>1, <2>2, <2>3, <2>4 DEF Serves, Runs, Worker
<1>5. CASE s # t
  <2>1. s \in DOMAIN tests /\ tests'[s] = tests[s]
    BY <1>1, <1>5
  <2>2. Serves(w, s)
    BY <1>3, <2>1 DEF CarefulInv, TestBacked, Serves
  <2>3. w \in DOMAIN workers /\ w \notin DOMAIN allocation
    BY <1>2, <2>2 DEF Serves, Runs, AvailableWorkers, Available
  <2>4. workers'[w] = workers[w] /\ w \in DOMAIN workers'
    BY <1>1, <2>3
  <2> QED BY <2>1, <2>2, <2>4, KeptServes
<1> QED BY <1>4, <1>5

(* A worker listed by two running tests would run both: the test that      *)
(* stops takes no worker from another one.                                 *)
LEMMA StopRunningTestBacked ==
  ASSUME CarefulInv, NEW t \in DOMAIN tests, tests[t].state = "RUNNING",
         StopTest(t)
  PROVE  TestBacked'
<1>1. /\ workers' = [w \in DOMAIN workers |->
                       IF w \in DOMAIN tests[t].workers THEN Idled(workers[w])
                                                        ELSE workers[w]]
      /\ tests' = [tests EXCEPT ![t].state = "CANCELLED",
                                ![t].workers = IdleEntries(t)]
  BY DEF StopTest
<1>2. SUFFICES ASSUME NEW s \in DOMAIN tests', tests'[s].state = "RUNNING",
                      NEW w \in DOMAIN tests'[s].workers
               PROVE  Serves(w, s)'
  BY DEF TestBacked, Serves
<1>3. s # t
  <2>1. PICK W \in SUBSET WorkerIDs : tests[t] \in TestOver(W)
    BY DEF CarefulInv, FreshInv, Inv, TypeOK
  <2>2. tests'[t] = [tests[t] EXCEPT !.state = "CANCELLED",
                                     !.workers = IdleEntries(t)]
    BY <1>1
  <2> QED BY <1>2, <2>1, <2>2 DEF TestOver
<1>4. s \in DOMAIN tests /\ tests'[s] = tests[s]
  BY <1>1, <1>3
<1>5. Serves(w, s)
  BY <1>2, <1>4 DEF CarefulInv, TestBacked, Serves
<1>6. w \notin DOMAIN tests[t].workers
  <2>1. \A v \in DOMAIN tests[t].workers : workers[v].currentTestID = t
    BY DEF CarefulInv, TestBacked, Runs
  <2> QED BY <1>3, <1>5, <2>1 DEF Serves, Runs
<1>7. w \in DOMAIN workers /\ workers'[w] = workers[w] /\ w \in DOMAIN workers'
  BY <1>1, <1>5, <1>6 DEF Serves, Runs
<1> QED BY <1>4, <1>5, <1>7, KeptServes

LEMMA FirstRegistrationTestBacked ==
  ASSUME CarefulInv, NEW v \in WorkerIDs \ DOMAIN workers,
         NEW c \in Capacities, NEW o \in BOOLEAN, PutWorker(v, c, o)
  PROVE  TestBacked'
<1>1. /\ workers' = [w \in DOMAIN workers \cup {v} |->
                       IF w = v THEN Registered(c, o) ELSE workers[w]]
      /\ tests' = tests
  BY DEF PutWorker
<1>2. SUFFICES ASSUME NEW s \in DOMAIN tests, tests[s].state = "RUNNING",
                      NEW w \in DOMAIN tests[s].workers
               PROVE  Serves(w, s)'
  BY <1>1 DEF TestBacked, Serves
<1>3. Serves(w, s)
  BY <1>2 DEF CarefulInv, TestBacked, Serves
<1>4. w \in DOMAIN workers
  BY <1>3 DEF Serves, Runs
<1>5. workers'[w] = workers[w] /\ w \in DOMAIN workers'
  BY <1>1, <1>4
<1> QED BY <1>1, <1>3, <1>5, KeptServes

(* Heartbeats and silence change neither load nor status.                  *)
LEMMA UpkeepKeeps ==
  ASSUME TypeOK, Upkeep
  PROVE  /\ UNCHANGED tests
         /\ DOMAIN workers' = DOMAIN workers
         /\ \A w \in DOMAIN workers :
              /\ workers'[w].status = workers[w].status
              /\ workers'[w].currentTestID = workers[w].currentTestID
              /\ workers'[w].activeUsers = workers[w].activeUsers
<1>1. UNCHANGED tests /\ DOMAIN workers' = DOMAIN workers
  BY DEF Upkeep, UpdateWorkerStatus, UpdateWorkerHeartbeat, Expire
<1>2. ASSUME NEW w \in DOMAIN workers
      PROVE  /\ workers'[w].status = workers[w].status
             /\ workers'[w].currentTestID = workers[w].currentTestID
             /\ workers'[w].activeUsers = workers[w].activeUsers
  <2>1. workers[w] \in Worker
    BY DEF TypeOK
  <2>2. \/ workers'[w] = workers[w]
        \/ \E o \in BOOLEAN :
             workers'[w] = [workers[w] EXCEPT !.fresh = TRUE, !.overloaded = o]
        \/ workers'[w] = [workers[w] EXCEPT !.fresh = FALSE]
    BY DEF Upkeep, UpdateWorkerStatus, UpdateWorkerHeartbeat, Expire
  <2> QED BY <2>1, <2>2 DEF Worker
<1> QED BY <1>1, <1>2

LEMMA UpkeepTestBacked ==
  ASSUME CarefulInv, Upkeep
  PROVE  TestBacked'
<1>1. UNCHANGED tests
  BY UpkeepKeeps DEF CarefulInv, FreshInv, Inv
<1>2. SUFFICES ASSUME NEW s \in DOMAIN tests, tests[s].state = "RUNNING",
                      NEW w \in DOMAIN tests[s].workers
               PROVE  Serves(w, s)'
  BY <1>1 DEF TestBacked, Serves
<1>3. Serves(w, s)
  BY <1>2 DEF CarefulInv, TestBacked, Serves
<1>4. w \in DOMAIN workers
  BY <1>3 DEF Serves, Runs
<1>5. /\ workers'[w].status = workers[w].status
      /\ workers'[w].currentTestID = workers[w].currentTestID
      /\ workers'[w].activeUsers = workers[w].activeUsers
      /\ w \in DOMAIN workers'
  BY <1>4, UpkeepKeeps DEF CarefulInv, FreshInv, Inv
<1> QED BY <1>1, <1>3, <1>5, KeptServes

(* One step of a careful client, or a stuttering step.                     *)
LEMMA CarefulNextInv == CarefulInv /\ [CarefulNext]_vars => CarefulInv'
<1> SUFFICES ASSUME CarefulInv, [CarefulNext]_vars PROVE CarefulInv'
  OBVIOUS
<1>0. FreshInv'
  BY CarefulIsFresh, FreshNextInv DEF CarefulInv, FreshInv
<1>1. CASE FreshStart
  <2>1. PICK t \in TestIDs \ DOMAIN tests, u \in UserCounts : StartTest(t, u)
    BY <1>1 DEF FreshStart
  <2> QED BY <1>0, <2>1, FreshStartTestBacked DEF CarefulInv
<1>2. CASE StopRunning
  BY <1>0, <1>2, StopRunningTestBacked DEF CarefulInv, StopRunning
<1>3. CASE FirstRegistration
  <2>1. PICK w \in WorkerIDs \ DOMAIN workers, c \in Capacities,
             o \in BOOLEAN : PutWorker(w, c, o)
    BY <1>3 DEF FirstRegistration, APIRegisterWorker
  <2> QED BY <1>0, <2>1, FirstRegistrationTestBacked DEF CarefulInv
<1>4. CASE Upkeep
  BY <1>0, <1>4, UpkeepTestBacked DEF CarefulInv
<1>5. CASE UNCHANGED vars
  BY <1>0, <1>5 DEF vars, CarefulInv, TestBacked, Runs
<1> QED BY <1>1, <1>2, <1>3, <1>4, <1>5 DEF CarefulNext

LEMMA CarefulInit == Init => CarefulInv
BY FreshInit DEF Init, CarefulInv, TestBacked

(* What is on file of a running test is true, under careful clients.       *)
THEOREM RunningIsBacked == CarefulSpec => []TestBacked
<1>1. CarefulInv => TestBacked
  BY DEF CarefulInv
<1> QED BY <1>1, CarefulInit, CarefulNextInv, PTL DEF CarefulSpec

(* The running test t, which a step leaves alone, keeps its worker w.      *)
LeavesAlone(w, t) ==
  Runs(w, t) /\ tests[t].state = "RUNNING" /\ tests'[t] = tests[t]
    => Runs(w, t)' /\ workers'[w].activeUsers = workers[w].activeUsers

(* The worker is on the list of its test before the step (WorkerBacked),   *)
(* so it is after the step, and then it runs that test (TestBacked).       *)
LEMMA CarefulLeavesAlone ==
  ASSUME CarefulInv, CarefulInv', [CarefulNext]_vars,
         NEW w, NEW t \in DOMAIN tests
  PROVE  LeavesAlone(w, t)
<1> SUFFICES ASSUME Runs(w, t), tests[t].state = "RUNNING",
                    tests'[t] = tests[t]
             PROVE  /\ Runs(w, t)'
                    /\ workers'[w].activeUsers = workers[w].activeUsers
  BY DEF LeavesAlone
<1>1. t \in DOMAIN tests'
  BY DEF CarefulNext, FreshStart, StartTest, StopRunning, StopTest,
         FirstRegistration, APIRegisterWorker, PutWorker, Upkeep,
         UpdateWorkerStatus, UpdateWorkerHeartbeat, Expire, vars
<1>2. w \in DOMAIN tests[t].workers
  BY DEF CarefulInv, FreshInv, WorkerBacked, Runs
<1>3. Serves(w, t)
  BY <1>2 DEF CarefulInv, TestBacked, Serves
<1>4. Serves(w, t)'
  BY <1>1, <1>2 DEF CarefulInv, TestBacked, Serves
<1> QED BY <1>3, <1>4 DEF Serves

(* A running test that a step does not touch keeps its workers and their   *)
(* users, under careful clients.                                           *)
THEOREM LeftAlone == CarefulSpec => Undisturbed
<1>1. CarefulInv /\ CarefulInv' /\ [CarefulNext]_vars =>
        [\A w \in WorkerIDs, t \in DOMAIN tests : LeavesAlone(w, t)]_vars
  BY CarefulLeavesAlone
<1>2. [\A w \in WorkerIDs, t \in DOMAIN tests : LeavesAlone(w, t)]_vars <=>
      [\A w \in WorkerIDs, t \in DOMAIN tests :
         /\ Runs(w, t)
         /\ tests[t].state = "RUNNING"
         /\ tests'[t] = tests[t]
         => /\ Runs(w, t)'
            /\ workers'[w].activeUsers = workers[w].activeUsers]_vars
  BY DEF LeavesAlone
<1> QED BY <1>1, <1>2, CarefulInit, CarefulNextInv, PTL
        DEF CarefulSpec, Undisturbed
-----------------------------------------------------------------------------
(* The registry as the lease manager sees it.                              *)
Holder == [w \in WorkerIDs |-> IF w \in DOMAIN workers
                               THEN workers[w].currentTestID ELSE NoTest]
Load   == [w \in WorkerIDs |-> IF w \in DOMAIN workers
                               THEN workers[w].activeUsers ELSE 0]
Phase  == [t \in TestIDs |-> IF t \notin DOMAIN tests THEN "new"
                             ELSE IF tests[t].state = "RUNNING"
                                  THEN "held" ELSE "over"]

(* The library's sum means the same in the module of the leases.           *)
LEMMA LeasesSum ==
  ASSUME NEW f
  PROVE  Leases!SumFunction(f) = SumFunction(f)
BY DEF SumFunction, SumFunctionOnSet, FoldFunctionOnSet, MapThenFoldSet,
       Leases!SumFunction, Leases!SumFunctionOnSet, Leases!FoldFunctionOnSet,
       Leases!MapThenFoldSet

(* StartTest grants a new test users on workers that hold nothing.         *)
LEMMA StartIsGrant ==
  ASSUME CarefulInv, NEW t \in TestIDs \ DOMAIN tests, NEW u \in UserCounts,
         StartTest(t, u)
  PROVE  Leases!Grant(t, u)
<1>1. PICK allocation \in
             AllocateWorkers(AvailableWorkers,
                             [w \in DOMAIN workers |-> workers[w].capacity], u) :
        /\ workers' =
             [w \in DOMAIN workers |->
                IF w \in DOMAIN allocation
                THEN [workers[w] EXCEPT !.status = "running",
                                        !.activeUsers = allocation[w],
                                        !.currentTestID = t]
                ELSE workers[w]]
        /\ tests' =
             [s \in DOMAIN tests \cup {t} |->
                IF s = t
                THEN [state |-> "RUNNING", users |-> u,
                      workers |-> [w \in DOMAIN allocation |->
                                     [status |-> "running",
                                      activeUsers |-> allocation[w]]]]
                ELSE tests[s]]
  BY DEF StartTest
<1> DEFINE S == DOMAIN allocation
           share == [w \in S |-> allocation[w]]
<1>2. TypeOK /\ LoadFitsStatus
  BY DEF CarefulInv, FreshInv, Inv
<1>3. /\ S \subseteq AvailableWorkers
      /\ \A w \in S : allocation[w] \in 1..workers[w].capacity
      /\ SumFunctionOnSet(allocation, S) = u
  BY <1>2, StartTestAllocation
<1>4. /\ S \subseteq DOMAIN workers
      /\ S \subseteq {w \in WorkerIDs : Holder[w] = NoTest}
  BY <1>2, <1>3
     DEF TypeOK, LoadFitsStatus, AvailableWorkers, Available, Holder
<1>5. IsFiniteSet(S)
  BY <1>4, WorkerIDsAssumption, FS_Subset
<1>6. \A w \in S : allocation[w] \in Nat /\ allocation[w] >= 1
  <2>1. \A w \in S : workers[w].capacity \in Int
    BY <1>2, <1>4, CapacitiesAssumption DEF TypeOK, Worker
  <2> QED BY <1>3, <2>1
<1>7. share \in [S -> 1..u]
  <2>1. \A w \in S : allocation[w] <= u
    BY <1>3, <1>5, <1>6, SumBound
  <2>2. u \in Nat
    BY UserCountsAssumption
  <2> QED BY <1>6, <2>1, <2>2
<1>8. SumFunction(share) = u
  <2>1. SumFunctionOnSet(share, S) = SumFunctionOnSet(allocation, S)
    <3>1. \A w \in S : share[w] = allocation[w]
      OBVIOUS
    <3> HIDE DEF share, S
    <3> QED BY <1>5, <3>1, SumSame
  <2> QED BY <1>3, <2>1 DEF SumFunction
<1>9. /\ DOMAIN workers' = DOMAIN workers
      /\ DOMAIN workers \subseteq WorkerIDs
      /\ \A w \in DOMAIN workers :
           /\ workers'[w].currentTestID =
                IF w \in S THEN t ELSE workers[w].currentTestID
           /\ workers'[w].activeUsers =
                IF w \in S THEN allocation[w] ELSE workers[w].activeUsers
  <2>1. \A w \in DOMAIN workers : workers[w] \in Worker
    BY <1>2 DEF TypeOK
  <2> QED BY <1>1, <1>2, <2>1 DEF TypeOK, Worker
<1>10. Holder' = [w \in WorkerIDs |-> IF w \in S THEN t ELSE Holder[w]]
  BY <1>4, <1>9 DEF Holder
<1>11. Load' = [w \in WorkerIDs |-> IF w \in S THEN share[w] ELSE Load[w]]
  BY <1>4, <1>9 DEF Load
<1>12. Phase[t] = "new" /\ Phase' = [Phase EXCEPT ![t] = "held"]
  <2>1. /\ DOMAIN tests' = DOMAIN tests \cup {t}
        /\ tests'[t].state = "RUNNING"
        /\ \A s \in DOMAIN tests : tests'[s] = tests[s]
    BY <1>1
  <2> QED BY <2>1 DEF Phase
<1> HIDE DEF S, share
<1>13. Leases!SumFunction(share) = u
  BY <1>8, LeasesSum
<1>14. \E T \in SUBSET {w \in WorkerIDs : Holder[w] = NoTest} :
         \E given \in [T -> 1..u] :
           /\ Leases!SumFunction(given) = u
           /\ Holder' = [w \in WorkerIDs |-> IF w \in T THEN t ELSE Holder[w]]
           /\ Load' = [w \in WorkerIDs |->
                         IF w \in T THEN given[w] ELSE Load[w]]
  <2>1. S \in SUBSET {w \in WorkerIDs : Holder[w] = NoTest}
    BY <1>4
  <2> QED BY <2>1, <1>7, <1>10, <1>11, <1>13, Zenon
<1> QED BY <1>12, <1>14, Zenon DEF Leases!Grant, Holder, Load, Phase

(* StopTest takes back what the running test t holds: the workers on its   *)
(* list run it, and no other worker does.                                  *)
LEMMA StopIsGiveBack ==
  ASSUME CarefulInv, NEW t \in DOMAIN tests, tests[t].state = "RUNNING",
         StopTest(t)
  PROVE  Leases!GiveBack(t)
<1>1. /\ workers' = [w \in DOMAIN workers |->
                       IF w \in DOMAIN tests[t].workers THEN Idled(workers[w])
                                                        ELSE workers[w]]
      /\ tests' = [tests EXCEPT ![t].state = "CANCELLED",
                                ![t].workers = IdleEntries(t)]
  BY DEF StopTest
<1>2. TypeOK /\ LoadFitsStatus
  BY DEF CarefulInv, FreshInv, Inv
<1>3. t \in TestIDs /\ DOMAIN workers \subseteq WorkerIDs
  BY <1>2 DEF TypeOK
<1>4. ASSUME NEW w \in DOMAIN workers
      PROVE  /\ workers'[w].currentTestID =
                  IF workers[w].currentTestID = t
                  THEN NoTest ELSE workers[w].currentTestID
             /\ workers'[w].activeUsers =
                  IF workers[w].currentTestID = t
                  THEN 0 ELSE workers[w].activeUsers
  <2>1. workers[w] \in Worker
    BY <1>2 DEF TypeOK
  <2>2. CASE w \in DOMAIN tests[t].workers
    <3>1. workers[w].currentTestID = t
      BY <2>2 DEF CarefulInv, TestBacked, Runs
    <3>2. workers'[w] = Idled(workers[w])
      BY <1>1, <2>2
    <3> QED BY <2>1, <3>1, <3>2, IdledWorker
  <2>3. CASE w \notin DOMAIN tests[t].workers
    <3>1. workers'[w] = workers[w]
      BY <1>1, <2>3
    <3>2. workers[w].status = "running" => workers[w].currentTestID # t
      BY <2>3 DEF CarefulInv, FreshInv, WorkerBacked
    <3>3. workers[w].status # "running" =>
            workers[w].currentTestID = NoTest /\ workers[w].activeUsers = 0
      BY <1>2 DEF LoadFitsStatus
    <3> QED BY <3>1, <3>2, <3>3
  <2> QED BY <2>2, <2>3
<1>5. DOMAIN workers' = DOMAIN workers
  BY <1>1
<1>6. Holder' = [w \in WorkerIDs |->
                   IF Holder[w] = t THEN NoTest ELSE Holder[w]]
  BY <1>3, <1>4, <1>5 DEF Holder
<1>7. Load' = [w \in WorkerIDs |-> IF Holder[w] = t THEN 0 ELSE Load[w]]
  BY <1>3, <1>4, <1>5 DEF Holder, Load
<1>8. Phase[t] = "held" /\ Phase' = [Phase EXCEPT ![t] = "over"]
  <2>1. PICK W \in SUBSET WorkerIDs : tests[t] \in TestOver(W)
    BY <1>2 DEF TypeOK
  <2>2. /\ DOMAIN tests' = DOMAIN tests
        /\ tests'[t] = [tests[t] EXCEPT !.state = "CANCELLED",
                                        !.workers = IdleEntries(t)]
        /\ \A s \in DOMAIN tests : s # t => tests'[s] = tests[s]
    BY <1>1
  <2>3. tests'[t].state = "CANCELLED"
    BY <2>1, <2>2 DEF TestOver
  <2> QED BY <1>3, <2>2, <2>3 DEF Phase
<1> QED BY <1>6, <1>7, <1>8 DEF Leases!GiveBack, Holder, Load, Phase

(* A registration, a heartbeat or a silence is no step of the leases.      *)
LEMMA RegistrationStutters ==
  ASSUME CarefulInv, NEW v \in WorkerIDs \ DOMAIN workers,
         NEW c \in Capacities, NEW o \in BOOLEAN, PutWorker(v, c, o)
  PROVE  UNCHANGED <<Holder, Load, Phase>>
<1>1. /\ workers' = [w \in DOMAIN workers \cup {v} |->
                       IF w = v THEN Registered(c, o) ELSE workers[w]]
      /\ tests' = tests
  BY DEF PutWorker
<1>2. /\ workers'[v].currentTestID = NoTest
      /\ workers'[v].activeUsers = 0
  BY <1>1 DEF Registered
<1>3. UNCHANGED Holder /\ UNCHANGED Load
  BY <1>1, <1>2 DEF Holder, Load
<1> QED BY <1>1, <1>3 DEF Phase

LEMMA UpkeepStutters ==
  ASSUME CarefulInv, Upkeep
  PROVE  UNCHANGED <<Holder, Load, Phase>>
<1>1. /\ UNCHANGED tests
      /\ DOMAIN workers' = DOMAIN workers
      /\ \A w \in DOMAIN workers :
           /\ workers'[w].currentTestID = workers[w].currentTestID
           /\ workers'[w].activeUsers = workers[w].activeUsers
  BY UpkeepKeeps DEF CarefulInv, FreshInv, Inv
<1> QED BY <1>1 DEF Holder, Load, Phase

LEMMA CarefulStepIsLeaseStep ==
  CarefulInv /\ [CarefulNext]_vars => [Leases!Next]_(Leases!leaseVars)
<1> SUFFICES ASSUME CarefulInv, [CarefulNext]_vars
             PROVE  Leases!Next \/ UNCHANGED <<Holder, Load, Phase>>
  BY DEF Leases!leaseVars, Holder, Load, Phase
<1>1. CASE FreshStart
  <2>1. PICK t \in TestIDs \ DOMAIN tests, u \in UserCounts : StartTest(t, u)
    BY <1>1 DEF FreshStart
  <2>2. Leases!Grant(t, u)
    BY <2>1, StartIsGrant
  <2> QED BY <2>2 DEF Leases!Next
<1>2. CASE StopRunning
  <2>1. PICK t \in DOMAIN tests : tests[t].state = "RUNNING" /\ StopTest(t)
    BY <1>2 DEF StopRunning
  <2>2. Leases!GiveBack(t) /\ t \in TestIDs
    BY <2>1, StopIsGiveBack DEF CarefulInv, FreshInv, Inv, TypeOK
  <2> QED BY <2>2 DEF Leases!Next
<1>3. CASE FirstRegistration
  <2>1. PICK w \in WorkerIDs \ DOMAIN workers, c \in Capacities,
             o \in BOOLEAN : PutWorker(w, c, o)
    BY <1>3 DEF FirstRegistration, APIRegisterWorker
  <2> QED BY <2>1, RegistrationStutters
<1>4. CASE Upkeep
  BY <1>4, UpkeepStutters
<1>5. CASE UNCHANGED vars
  BY <1>5 DEF vars, Holder, Load, Phase
<1> QED BY <1>1, <1>2, <1>3, <1>4, <1>5 DEF CarefulNext

LEMMA InitIsLeaseInit == Init => Leases!Init
BY DEF Init, Leases!Init

(* The master implements the lease manager, under careful clients.         *)
THEOREM ImplementsLeases == CarefulSpec => KeepsLeases
BY InitIsLeaseInit, CarefulInit, CarefulNextInv, CarefulStepIsLeaseStep, PTL
   DEF CarefulSpec, KeepsLeases, Leases!Spec
=============================================================================
