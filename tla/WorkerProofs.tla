---------------------------- MODULE WorkerProofs ----------------------------
(***************************************************************************)
(* That a worker's executor and its WebSocket client keep their promises,  *)
(* for any tests, users, scenarios and URLs, whatever clients start and    *)
(* stop and however test IDs are used again.                               *)
(*                                                                         *)
(* CleanupPending and Reachable are about what a monitor finds under its   *)
(* test ID; both need to know that an entry leads to an execution of its   *)
(* own test (Listed), so that no two entries lead to the same one, and     *)
(* that an execution under way has its monitor (Monitored).                *)
(*                                                                         *)
(* What is said of the client is proved in WSClientProofs, and carried     *)
(* over to the worker, where the client's users are only some of them.     *)
(***************************************************************************)
EXTENDS MCWorker, TLAPS, SequenceTheorems


Place ==
  [pc : {"loop", "request", "hung", "send", "sendError", "think", "returned"},
   step : 1..StepCount]

Listed == \A t \in DOMAIN activeTests : executions[activeTests[t]] = t

Monitored == Execution \ done \subseteq monitoring

(* The part of the invariant that no virtual user touches.                 *)
EntryInv == CleanupPending /\ Reachable /\ Listed /\ Monitored

Inv == TypeOK /\ EntryInv

LEMMA InitInv == Init => Inv
BY MaxExecutionsAssumption, ChannelSizeAssumption
   DEF Init, Inv, TypeOK, EntryInv, CleanupPending, Reachable, Listed,
       Monitored, Execution
-----------------------------------------------------------------------------
(* Virtual users change their own places and the queue, nothing else.      *)
LEMMA PlaceOfUser ==
  ASSUME TypeOK, NEW e \in Execution, NEW v \in Users
  PROVE  users[e][v] \in Place
BY DEF TypeOK, Execution, Place

LEMMA AfterStepPlace ==
  ASSUME TypeOK, NEW e \in Execution, NEW v \in Users
  PROVE  AfterStep(e, v) \in Place
<1>1. users[e][v] \in Place
  BY PlaceOfUser
<1>2. users[e][v].step \in 1..StepCount
  BY <1>1 DEF Place
<1> QED BY <1>2, StepCountAssumption DEF AfterStep, At, Place

LEMMA GotoType ==
  ASSUME TypeOK, NEW e \in Execution, NEW v \in Users,
         NEW place \in Place, Goto(e, v, place)
  PROVE  users' \in Seq([Users -> Place]) /\ Len(users') = Len(users)
<1>1. users \in Seq([Users -> Place]) /\ e \in 1..Len(users)
  BY DEF TypeOK, Execution, Place
<1> DEFINE row == [users[e] EXCEPT ![v] = place]
<1>2. row \in [Users -> Place]
  BY <1>1
<1>3. users' = [users EXCEPT ![e] = row]
  BY DEF Goto
<1> HIDE DEF row
<1> QED BY <1>1, <1>2, <1>3, ExceptSeq

LEMMA UserStepType ==
  ASSUME TypeOK, NEW e \in Execution, NEW v \in Users, UserStep(e, v)
  PROVE  TypeOK'
<1>1. users[e][v] \in Place /\ AfterStep(e, v) \in Place
  BY PlaceOfUser, AfterStepPlace
<1>2. At("returned", 1) \in Place /\ At("request", 1) \in Place
  BY StepCountAssumption DEF At, Place
<1>3. \A pc \in {"think", "sendError"} :
        At(pc, users[e][v].step) \in Place
  BY <1>1 DEF At, Place
<1>4. \A pc \in {"send", "sendError"} :
        [users[e][v] EXCEPT !.pc = pc] \in Place
  BY <1>1 DEF Place
<1>5. /\ \E place \in Place : Goto(e, v, place)
      /\ queued' \in 0..ChannelSize
  <2>1. CASE Loop(e, v)
    BY <2>1, <1>2 DEF Loop, TypeOK
  <2>2. CASE Request(e, v)
    BY <2>2, <1>4 DEF Request, TypeOK
  <2>3. CASE Send(e, v)
    BY <2>3, <1>1, <1>3, ChannelSizeAssumption DEF Send, TypeOK
  <2>4. CASE SendError(e, v)
    BY <2>4, <1>1, ChannelSizeAssumption DEF SendError, TypeOK
  <2>5. CASE Think(e, v)
    BY <2>5, <1>1, <1>2 DEF Think, TypeOK
  <2> QED BY <2>1, <2>2, <2>3, <2>4, <2>5 DEF UserStep
<1>6. users' \in Seq([Users -> Place]) /\ Len(users') = Len(users)
  BY <1>5, GotoType
<1> QED BY <1>5, <1>6 DEF UserStep, TypeOK, Execution, Place

LEMMA HangType ==
  ASSUME TypeOK, NEW e \in Execution, NEW v \in Users, Hang(e, v)
  PROVE  TypeOK'
<1> DEFINE place == [users[e][v] EXCEPT !.pc = "hung"]
<1>1. place \in Place
  BY PlaceOfUser DEF Place
<1>2. Goto(e, v, place)
  BY DEF Hang
<1>3. users' \in Seq([Users -> Place]) /\ Len(users') = Len(users)
  <2> HIDE DEF place
  <2> QED BY <1>1, <1>2, GotoType
<1> QED BY <1>3 DEF Hang, TypeOK, Execution, Place
-----------------------------------------------------------------------------
(* Steps that leave executions, contexts, monitors and entries alone.      *)
LEMMA EntriesUntouched ==
  EntryInv /\ UNCHANGED <<executions, done, monitoring, activeTests>>
    => EntryInv'
BY DEF EntryInv, CleanupPending, Reachable, Listed, Monitored, Execution

(* The cancelling of a test, by StopTest or by a monitor that returns.     *)
LEMMA CancelLatestInv ==
  ASSUME TypeOK, EntryInv, NEW t \in TestIDs, CancelLatest(t),
         UNCHANGED executions, monitoring' \subseteq monitoring,
         \A f \in monitoring \ monitoring' : executions[f] = t /\ f \in done
  PROVE  EntryInv'
<1> USE DEF EntryInv
<1>1. /\ DOMAIN activeTests' = DOMAIN activeTests \ {t}
      /\ \A s \in DOMAIN activeTests' : activeTests'[s] = activeTests[s]
  BY DEF CancelLatest
<1>2. /\ done \subseteq done'
      /\ \A f \in done' \ done : executions[f] = t
      /\ t \in DOMAIN activeTests => activeTests[t] \in done'
  BY DEF CancelLatest, Listed
<1>3. Execution' = Execution
  BY DEF Execution
<1>4. Listed'
  BY <1>1 DEF Listed
<1>5. CleanupPending'
  <2> SUFFICES ASSUME NEW s \in DOMAIN activeTests', activeTests'[s] \in done'
               PROVE  activeTests'[s] \in monitoring'
    BY DEF CleanupPending
  <2>1. activeTests'[s] = activeTests[s] /\ executions[activeTests[s]] # t
    BY <1>1 DEF Listed
  <2>2. activeTests[s] \in monitoring
    BY <1>1, <1>2, <2>1 DEF CleanupPending
  <2> QED BY <2>1, <2>2
<1>6. Reachable'
  <2> SUFFICES ASSUME NEW e \in Execution \ done',
                      \A f \in Execution :
                        executions[f] = executions[e] => f <= e
               PROVE  /\ executions[e] \in DOMAIN activeTests'
                      /\ activeTests'[executions[e]] = e
    BY <1>3 DEF Reachable
  <2>1. executions[e] \in DOMAIN activeTests /\ activeTests[executions[e]] = e
    BY <1>2 DEF Reachable
  <2>2. executions[e] # t
    BY <1>2, <2>1
  <2> QED BY <1>1, <2>1, <2>2
<1>7. Monitored'
  BY <1>2, <1>3 DEF Monitored
<1> QED BY <1>4, <1>5, <1>6, <1>7

LEMMA CancelLatestType ==
  ASSUME TypeOK, NEW t \in TestIDs, CancelLatest(t), UNCHANGED executions
  PROVE  /\ done' \subseteq Execution'
         /\ DOMAIN activeTests' \subseteq TestIDs
         /\ \A s \in DOMAIN activeTests' : activeTests'[s] \in Execution'
BY DEF TypeOK, CancelLatest, Execution

LEMMA MonitorInv ==
  ASSUME Inv, NEW e \in Execution, Monitor(e)
  PROVE  Inv'
<1>1. executions[e] \in TestIDs
  BY DEF Inv, TypeOK, Execution
<1>2. CancelLatest(executions[e]) /\ UNCHANGED executions
  BY DEF Monitor
<1>3. EntryInv'
  BY <1>1, CancelLatestInv DEF Monitor, Inv
<1>4. TypeOK'
  BY <1>1, <1>2, CancelLatestType DEF Monitor, Inv, TypeOK, Execution
<1> QED BY <1>3, <1>4 DEF Inv

LEMMA StopTestInv ==
  ASSUME Inv, NEW t \in TestIDs, StopTest(t)
  PROVE  Inv'
<1>1. CancelLatest(t) /\ UNCHANGED executions
  BY DEF StopTest
<1>2. EntryInv'
  BY CancelLatestInv DEF StopTest, Inv
<1>3. TypeOK'
  BY <1>1, CancelLatestType DEF StopTest, Inv, TypeOK, Execution
<1> QED BY <1>2, <1>3 DEF Inv

LEMMA ExpireInv ==
  ASSUME Inv, NEW e \in Execution, Expire(e)
  PROVE  Inv'
<1>1. TypeOK'
  BY DEF Inv, TypeOK, Expire, Execution
<1>2. EntryInv'
  BY DEF Inv, TypeOK, EntryInv, CleanupPending, Reachable, Listed, Monitored,
         Expire, Execution
<1> QED BY <1>1, <1>2 DEF Inv

(* A new execution is the latest of its test, and takes its entry; those   *)
(* whose entry it takes are not the latest any more.                       *)
LEMMA StartTestInv ==
  ASSUME Inv, NEW t \in TestIDs, StartTest(t)
  PROVE  Inv'
<1> DEFINE e == Len(executions) + 1
<1>1. /\ executions \in Seq(TestIDs) /\ Len(executions) \in Nat
      /\ done \subseteq Execution /\ monitoring \subseteq Execution
      /\ \A s \in DOMAIN activeTests : activeTests[s] \in Execution
  BY DEF Inv, TypeOK
<1>2. /\ executions' \in Seq(TestIDs) /\ Len(executions') = e
      /\ \A f \in Execution : executions'[f] = executions[f]
      /\ executions'[e] = t
  <2>1. executions' = Append(executions, t)
    BY DEF StartTest
  <2> QED BY <1>1, <2>1, AppendProperties DEF Execution
<1>3. Execution' = Execution \cup {e} /\ e \notin Execution
  BY <1>1, <1>2 DEF Execution
<1>4. /\ monitoring' = monitoring \cup {e} /\ done' = done
      /\ DOMAIN activeTests' = DOMAIN activeTests \cup {t}
      /\ activeTests'[t] = e
      /\ \A s \in DOMAIN activeTests \ {t} : activeTests'[s] = activeTests[s]
  BY DEF StartTest
<1>5. TypeOK'
  <2> DEFINE row == [v \in Users |-> At("loop", 1)]
  <2>1. row \in [Users -> Place]
    BY StepCountAssumption DEF At, Place
  <2>2. users \in Seq([Users -> Place]) /\ users' = Append(users, row)
    BY DEF StartTest, Inv, TypeOK, Place
  <2>3. users' \in Seq([Users -> Place]) /\ Len(users') = Len(users) + 1
    <3> HIDE DEF row
    <3> QED BY <2>1, <2>2, AppendProperties
  <2>4. e <= MaxExecutions /\ UNCHANGED <<queued, up>>
    BY DEF StartTest
  <2>5. DOMAIN activeTests' \subseteq TestIDs
    BY <1>4 DEF Inv, TypeOK
  <2>6. \A s \in DOMAIN activeTests' : activeTests'[s] \in Execution'
    BY <1>1, <1>3, <1>4
  <2> QED BY <1>1, <1>2, <1>3, <1>4, <2>3, <2>4, <2>5, <2>6
          DEF Inv, TypeOK, Place
<1>6. CleanupPending'
  BY <1>1, <1>3, <1>4 DEF Inv, EntryInv, CleanupPending
<1>7. Listed'
  BY <1>1, <1>2, <1>4 DEF Inv, EntryInv, Listed
<1>8. Monitored'
  BY <1>3, <1>4 DEF Inv, EntryInv, Monitored
<1>9. Reachable'
  <2> SUFFICES ASSUME NEW f \in Execution' \ done',
                      \A g \in Execution' :
                        executions'[g] = executions'[f] => g <= f
               PROVE  /\ executions'[f] \in DOMAIN activeTests'
                      /\ activeTests'[executions'[f]] = f
    BY DEF Reachable
  <2>1. CASE f = e
    BY <1>2, <1>4, <2>1
  <2>2. CASE f \in Execution
    <3>1. executions'[f] = executions[f] /\ executions[f] # t
      BY <1>1, <1>2, <1>3, <2>2 DEF Execution
    <3>2. \A g \in Execution : executions[g] = executions[f] => g <= f
      BY <1>2, <1>3, <2>2
    <3>3. /\ executions[f] \in DOMAIN activeTests
          /\ activeTests[executions[f]] = f
      BY <1>4, <2>2, <3>2 DEF Inv, EntryInv, Reachable
    <3> QED BY <1>4, <3>1, <3>3
  <2> QED BY <1>3, <2>1, <2>2
<1> QED BY <1>5, <1>6, <1>7, <1>8, <1>9 DEF Inv, EntryInv
-----------------------------------------------------------------------------
LEMMA NextInv == Inv /\ [Next]_vars => Inv'
<1> SUFFICES ASSUME Inv, [Next]_vars PROVE Inv'
  OBVIOUS
<1>1. ASSUME NEW t \in TestIDs, StartTest(t) PROVE Inv'
  BY <1>1, StartTestInv
<1>2. ASSUME NEW t \in TestIDs, StopTest(t) PROVE Inv'
  BY <1>2, StopTestInv
<1>3. ASSUME NEW e \in Execution, Expire(e) PROVE Inv'
  BY <1>3, ExpireInv
<1>4. ASSUME NEW e \in Execution, Monitor(e) PROVE Inv'
  BY <1>4, MonitorInv
<1>5. ASSUME NEW e \in Execution, NEW v \in Users, UserStep(e, v)
      PROVE  Inv'
  <2>1. UNCHANGED <<executions, done, monitoring, activeTests>>
    BY <1>5 DEF UserStep
  <2> QED BY <1>5, <2>1, UserStepType, EntriesUntouched DEF Inv
<1>6. ASSUME NEW e \in Execution, NEW v \in Users, Hang(e, v)
      PROVE  Inv'
  <2>1. UNCHANGED <<executions, done, monitoring, activeTests>>
    BY <1>6 DEF Hang
  <2> QED BY <1>6, <2>1, HangType, EntriesUntouched DEF Inv
<1>7. CASE Drain
  <2>1. TypeOK'
    BY <1>7, ChannelSizeAssumption DEF Drain, Inv, TypeOK, Execution
  <2> QED BY <1>7, <2>1, EntriesUntouched DEF Drain, Inv
<1>8. CASE Shutdown
  <2>1. TypeOK'
    BY <1>8 DEF Shutdown, Inv, TypeOK, Execution
  <2> QED BY <1>8, <2>1, EntriesUntouched DEF Shutdown, Inv
<1>9. CASE UNCHANGED vars
  <2>1. TypeOK'
    BY <1>9 DEF vars, Inv, TypeOK, Execution
  <2> QED BY <1>9, <2>1, EntriesUntouched DEF vars, Inv
<1> QED BY <1>1, <1>2, <1>3, <1>4, <1>5, <1>6, <1>7, <1>8, <1>9
        DEF Next, Goroutines

LEMMA StepsInv == Init /\ [][Next]_vars => []Inv
BY InitInv, NextInv, PTL

LEMMA MonitorsSafe == Init /\ [][Next]_vars => RunsItsTime
<1> DEFINE Alone(e) == /\ \A f \in Execution : executions[f] = executions[e]
                                                => f = e
                       /\ Monitor(e)
           EndsNothing == \A e \in Execution : Alone(e) => done' = done
<1>1. Inv => EndsNothing
  <2> SUFFICES ASSUME Inv, NEW e \in Execution, Alone(e)
               PROVE  done' = done
    OBVIOUS
  <2>1. CASE executions[e] \notin DOMAIN activeTests
    BY <2>1 DEF Monitor, CancelLatest
  <2>2. CASE executions[e] \in DOMAIN activeTests
    <3>1. activeTests[executions[e]] = e
      BY <2>2 DEF Inv, TypeOK, EntryInv, Listed
    <3> QED BY <2>2, <3>1 DEF Monitor, CancelLatest
  <2> QED BY <2>1, <2>2
<1>2. Inv /\ [Next]_vars => [EndsNothing]_vars
  BY <1>1
<1>3. Init /\ [][Next]_vars => [][EndsNothing]_vars
  <2> HIDE DEF EndsNothing
  <2> QED BY <1>2, InitInv, NextInv, PTL
<1>4. QED
  BY <1>3 DEF RunsItsTime

(* The executor's state is well-typed, with any scenario and any number of *)
(* virtual users; in particular the channel never holds more than it may.  *)
THEOREM TypeCorrect == Spec => []TypeOK
<1>1. Inv => TypeOK
  BY DEF Inv
<1> QED BY <1>1, StepsInv, PTL DEF Spec

(* Whoever stops what, an entry of activeTests that names an execution     *)
(* whose context is done has a monitor on its way that will remove it.     *)
THEOREM EntriesAreCleanedUp == Spec => []CleanupPending
<1>1. Inv => CleanupPending
  BY DEF Inv, EntryInv
<1> QED BY <1>1, StepsInv, PTL DEF Spec

(* The latest execution of a test can be stopped for as long as it is      *)
(* under way, whatever else is started, stopped or over.                   *)
THEOREM LatestIsReachable == Spec => []Reachable
<1>1. Inv => Reachable
  BY DEF Inv, EntryInv
<1> QED BY <1>1, StepsInv, PTL DEF Spec

(* A monitor whose test ID no other execution has ends no execution: what  *)
(* its entry leads to, if it is still there, is its own.                   *)
THEOREM MonitorsEndNothingElse == Spec => RunsItsTime
BY MonitorsSafe, PTL DEF Spec
-----------------------------------------------------------------------------
(* The worker: each of its behaviours is one of the executor and one of    *)
(* the client.  WS and WSP are the client twice, once as MCWorker has it   *)
(* and once with what is proved about it.                                  *)
WSP == INSTANCE WSClientProofs WITH Users <- Clients

LEMMA IsExecutor == WorkerSpec => Init /\ [][Next]_vars
<1>1. WorkerInit => Init
  BY DEF WorkerInit
<1>2. [WorkerNext]_workerVars => [Next]_vars
  BY DEF WorkerNext, workerVars
<1> QED BY <1>1, <1>2, PTL DEF WorkerSpec

LEMMA SameInit == WS!Init <=> WSP!Init
BY DEF WS!Init, WSP!Init, WS!Idle, WSP!Idle

LEMMA SameNext == WS!Next <=> WSP!Next
BY DEF WS!Next, WSP!Next, WS!Execute, WSP!Execute, WS!UserStep,
       WSP!UserStep, WS!Lock, WSP!Lock, WS!PingOK, WSP!PingOK,
       WS!PingFails, WSP!PingFails, WS!Dial, WSP!Dial, WS!DialFails,
       WSP!DialFails, WS!SendNothing, WSP!SendNothing, WS!BeginWrite,
       WSP!BeginWrite, WS!EndWrite, WSP!EndWrite, WS!Abandon,
       WSP!Abandon, WS!TakeMessage, WSP!TakeMessage, WS!TakeError,
       WSP!TakeError, WS!ReaderStep, WSP!ReaderStep, WS!ReaderLoop,
       WSP!ReaderLoop, WS!ReadMessage, WSP!ReadMessage, WS!ReadFails,
       WSP!ReadFails, WS!GiveUp, WSP!GiveUp, WS!Pong, WSP!Pong,
       WS!Close, WSP!Close, WS!Cancel, WSP!Cancel, WS!Expire,
       WSP!Expire, WS!Receive, WSP!Receive, WS!Lose, WSP!Lose,
       WS!Conns, WSP!Conns, WS!Goto, WSP!Goto, WS!Return, WSP!Return,
       WS!Delete, WSP!Delete, WS!Store, WSP!Store, WS!Writing,
       WSP!Writing, WS!MayCrash, WSP!MayCrash, WS!StartReader,
       WSP!StartReader, WS!WithDeadline, WSP!WithDeadline, WS!Own,
       WSP!Own, WS!ReaderGoto, WSP!ReaderGoto, WS!SharedRead,
       WSP!SharedRead, WS!ReadMayFail, WSP!ReadMayFail, WS!Ping, WSP!Ping, WS!Alive,
       WSP!Alive, WS!Disturbed, WSP!Disturbed, WS!WriteMayFail,
       WSP!WriteMayFail, WS!PeerStep, WSP!PeerStep, WS!Stall,
       WSP!Stall, WS!Resume, WSP!Resume, WS!Idle,
       WSP!Idle, WS!Dialled, WSP!Dialled, WS!ClosedConn,
       WSP!ClosedConn

LEMMA ClientInv == WorkerSpec => [](WSP!Inv /\ WSP!Attended)
<1>1. WSP!Bounds
  BY ClientsAssumption DEF WSP!Bounds
<1>2. WorkerInit => WSP!Inv /\ WSP!Attended
  BY <1>1, SameInit, WSP!InitInv, WSP!InitAttended DEF WorkerInit
<1>3. WSP!Inv /\ WSP!Attended /\ [WorkerNext]_workerVars
        => (WSP!Inv /\ WSP!Attended)'
  <2>1. [WorkerNext]_workerVars => [WSP!Next]_(WSP!vars)
    BY SameNext DEF WorkerNext, workerVars, clientVars, WSP!vars
  <2> QED BY <1>1, <2>1, WSP!NextInv, WSP!NextAttended
<1> QED BY <1>2, <1>3, PTL DEF WorkerSpec

(* The state of a worker is well-typed, the executor's and the client's.   *)
THEOREM WorkerTypesCorrect == WorkerSpec => []TypesOK
<1>1. Inv => TypeOK
  BY DEF Inv
<1>2. WSP!Inv => WS!TypeOK
  BY DEF WSP!Inv, WSP!TypeOK, WS!TypeOK, WSP!Conns, WS!Conns, WSP!ConnState,
         WS!ConnState, WSP!Request, WS!Request, WSP!Reader, WS!Reader
<1> QED BY <1>1, <1>2, IsExecutor, StepsInv, ClientInv, PTL DEF TypesOK

(* What is proved of the executor holds in the worker: entries are cleaned *)
(* up, the latest execution of a test can be stopped, and the monitor of a *)
(* test ID that is not used again ends nothing else.                       *)
THEOREM ExecutorInWorker ==
  WorkerSpec => []CleanupPending /\ []Reachable /\ RunsItsTime
<1>1. Inv => CleanupPending /\ Reachable
  BY DEF Inv, EntryInv
<1> QED BY <1>1, IsExecutor, StepsInv, MonitorsSafe, PTL

(* The client of a worker loses no connection: what it has not closed is   *)
(* in its table, and what it has closed is not (ws.go, under c.mu).        *)
THEOREM ClientLosesNone == WorkerSpec => []OpenAreListed
<1>1. WSP!Inv => OpenAreListed
  BY DEF WSP!Inv, WSP!TableInv, WSP!OpenAreListed, OpenAreListed,
         WS!OpenAreListed, WSP!Conns, WS!Conns
<1> QED BY <1>1, ClientInv, PTL

(* No virtual user of a worker waits for a reader that has returned while  *)
(* its context is not done (the select of Execute in ws.go).               *)
THEOREM NoneWaitsAlone == WorkerSpec => []Attended
<1>1. WSP!Attended => Attended
  BY DEF WSP!Attended, Attended, WS!Attended, WSP!Own, WS!Own
<1> QED BY <1>1, ClientInv, PTL
=============================================================================
