------------------------------ MODULE Executor ------------------------------
(***************************************************************************)
(* A worker's executor, pkg/worker/executor.go: tests run as executions,   *)
(* each a set of virtual users (goroutines) under one context, and one     *)
(* monitor goroutine that cleans up when the context is done.  The users   *)
(* report to a bounded channel, drained by the worker while it is up.      *)
(*                                                                         *)
(* activeTests is keyed by test ID, executions are not: a test ID that is  *)
(* started again leads to two executions with one entry between them.      *)
(*                                                                         *)
(* A step of a virtual user is what lies between two operations others can *)
(* see: reading the context, sending a result, waiting.  StartTest and     *)
(* stopTest hold e.mu throughout and are one step each.                    *)
(***************************************************************************)
EXTENDS Naturals, Sequences

CONSTANTS
  TestIDs,      \* the IDs of the tests
  Users,        \* the virtual users of one execution
  StepCount,    \* the number of steps of the scenario
  Thinking,     \* the steps with a ThinkTime
  Asserting,    \* the steps with assertions
  Supported,    \* the tests with a protocol the executor knows
  WebSocket,    \* of these, the ones with WebSocket requests
  ChannelSize,  \* the capacity of resultsCh (10000 in worker.go)
  MaxExecutions \* bound: how many executions are started

ASSUME StepCountAssumption == StepCount \in Nat \ {0}
ASSUME StepsAssumption ==
  Thinking \subseteq 1..StepCount /\ Asserting \subseteq 1..StepCount
ASSUME SupportedAssumption ==
  Supported \subseteq TestIDs /\ WebSocket \subseteq Supported
ASSUME ChannelSizeAssumption == ChannelSize \in Nat \ {0}
ASSUME MaxExecutionsAssumption == MaxExecutions \in Nat

VARIABLES
  executions,   \* the test ID of each execution, oldest first
  done,         \* the executions whose context is done
  monitoring,   \* the executions whose monitor goroutine has not returned
  activeTests,  \* e.activeTests: test ID -> execution
  users,        \* the state of each virtual user of each execution
  queued,       \* the number of results in resultsCh
  up            \* is the worker's own context alive, and so its consumers?

vars == <<executions, done, monitoring, activeTests, users, queued, up>>

Execution == 1..Len(executions)

At(pc, step) == [pc |-> pc, step |-> step]

TypeOK ==
  /\ executions \in Seq(TestIDs) /\ Len(executions) <= MaxExecutions
  /\ done \subseteq Execution /\ monitoring \subseteq Execution
  /\ DOMAIN activeTests \subseteq TestIDs
  /\ \A t \in DOMAIN activeTests : activeTests[t] \in Execution
  /\ users \in
       Seq([Users -> [pc : {"loop", "request", "hung", "send", "sendError",
                            "think", "returned"}, step : 1..StepCount]])
  /\ Len(users) = Len(executions)
  /\ queued \in 0..ChannelSize
  /\ up \in BOOLEAN

Init ==
  /\ executions = <<>> /\ users = <<>>
  /\ done = {} /\ monitoring = {}
  /\ activeTests = [t \in {} |-> 0]
  /\ queued = 0
  /\ up = TRUE
-----------------------------------------------------------------------------
(* Mutant: the entry of activeTests is forgotten.                          *)
StartTest_NoEntry(t) ==
  /\ Len(executions) < MaxExecutions
  /\ executions' = Append(executions, t)
  /\ users' = Append(users, [v \in Users |-> At("loop", 1)])
  /\ monitoring' = monitoring \cup {Len(executions) + 1}
  /\ UNCHANGED <<done, activeTests, queued, up>>

(* StartTest: nothing is asked about a previous execution of the test; its *)
(* entry in activeTests is overwritten.                                    *)
StartTest(t) ==
  LET e == Len(executions) + 1
  IN  /\ e <= MaxExecutions
      /\ executions' = Append(executions, t)
      /\ users' = Append(users, [v \in Users |-> At("loop", 1)])
      /\ monitoring' = monitoring \cup {e}
      /\ activeTests' = [s \in DOMAIN activeTests \cup {t} |->
                           IF s = t THEN e ELSE activeTests[s]]
      /\ UNCHANGED <<done, queued, up>>

(* What stopTest does to the contexts and the entries: cancel the latest   *)
(* execution of the test, if it is still listed, and delete its entry.     *)
CancelLatest(t) ==
  IF t \in DOMAIN activeTests
  THEN /\ done' = done \cup {activeTests[t]}
       /\ activeTests' = [s \in DOMAIN activeTests \ {t} |-> activeTests[s]]
  ELSE UNCHANGED <<done, activeTests>>

(* Worker.StopTest; for a test that is not active it is an error.          *)
StopTest(t) ==
  /\ t \in DOMAIN activeTests
  /\ CancelLatest(t)
  /\ UNCHANGED <<executions, monitoring, users, queued, up>>

(* The Duration of an execution is over, or its parent context is done.    *)
Expire(e) ==
  /\ e \notin done
  /\ done' = done \cup {e}
  /\ UNCHANGED <<executions, monitoring, activeTests, users, queued, up>>

(* Mutants: the monitor does not clean up; it does not wait.               *)
Monitor_NoStop(e) ==
  /\ e \in monitoring /\ e \in done
  /\ monitoring' = monitoring \ {e}
  /\ UNCHANGED <<executions, done, activeTests, users, queued, up>>

Monitor_Early(e) ==
  /\ e \in monitoring
  /\ CancelLatest(executions[e])
  /\ monitoring' = monitoring \ {e}
  /\ UNCHANGED <<executions, users, queued, up>>

(* The monitor of e wakes up and calls stopTest with the ID of its test.   *)
Monitor(e) ==
  /\ e \in monitoring /\ e \in done
  /\ CancelLatest(executions[e])
  /\ monitoring' = monitoring \ {e}
  /\ UNCHANGED <<executions, users, queued, up>>
-----------------------------------------------------------------------------
Goto(e, v, place) == users' = [users EXCEPT ![e][v] = place]

(* Where a user goes from its current step.                                *)
AfterStep(e, v) ==
  LET k == users[e][v].step
  IN  IF k < StepCount THEN At("request", k + 1) ELSE At("loop", 1)

Loop_NoCheck(e, v) ==  \* mutant: the context is not read
  /\ users[e][v].pc = "loop"
  /\ Goto(e, v, At("request", 1))
  /\ UNCHANGED queued

Loop(e, v) ==
  /\ users[e][v].pc = "loop"
  /\ Goto(e, v, IF e \in done THEN At("returned", 1) ELSE At("request", 1))
  /\ UNCHANGED queued

(* executeStep up to its result; an unknown protocol has none.  A request  *)
(* under a context that is done is still made, and fails.                  *)
Request(e, v) ==
  /\ users[e][v].pc = "request"
  /\ Goto(e, v, [users[e][v] EXCEPT !.pc =
                   IF executions[e] \in Supported THEN "send" ELSE "sendError"])
  /\ UNCHANGED queued

(* A WebSocket request may never return (see ExecuteReturns of WSClient).   *)
Hang(e, v) ==
  /\ users[e][v].pc = "request" /\ executions[e] \in WebSocket
  /\ Goto(e, v, [users[e][v] EXCEPT !.pc = "hung"])
  /\ UNCHANGED <<executions, done, monitoring, activeTests, queued, up>>

(* The send blocks while the channel is full, whatever the context.  Then  *)
(* the assertions are checked: on a failure a second result follows.       *)
Send(e, v) ==
  LET k == users[e][v].step
  IN  /\ users[e][v].pc = "send"
      /\ queued < ChannelSize
      /\ queued' = queued + 1
      /\ \/ Goto(e, v, IF k \in Thinking THEN At("think", k)
                                         ELSE AfterStep(e, v))
         \/ k \in Asserting /\ Goto(e, v, At("sendError", k))

(* Mutant: the send does not wait for room.                                *)
SendError_NoWait(e, v) ==
  /\ users[e][v].pc = "sendError"
  /\ queued' = queued + 1
  /\ Goto(e, v, AfterStep(e, v))

(* The result for the error; the think time is skipped.                    *)
SendError(e, v) ==
  /\ users[e][v].pc = "sendError"
  /\ queued < ChannelSize
  /\ queued' = queued + 1
  /\ Goto(e, v, AfterStep(e, v))

Think(e, v) ==
  /\ users[e][v].pc = "think"
  /\ \/ e \in done /\ Goto(e, v, At("returned", 1))
     \/ Goto(e, v, AfterStep(e, v))
  /\ UNCHANGED queued

UserStep(e, v) ==
  /\ \/ Loop(e, v) \/ Request(e, v) \/ Send(e, v)
     \/ SendError(e, v) \/ Think(e, v)
  /\ UNCHANGED <<executions, done, monitoring, activeTests, up>>

(* processResults or reportResults receives a result.                      *)
Drain ==
  /\ up /\ queued > 0
  /\ queued' = queued - 1
  /\ UNCHANGED <<executions, done, monitoring, activeTests, users, up>>

(* The context of Worker.Start is done: both consumers return.             *)
Shutdown ==
  /\ up
  /\ up' = FALSE
  /\ UNCHANGED <<executions, done, monitoring, activeTests, users, queued>>
-----------------------------------------------------------------------------
Goroutines ==
  \/ \E e \in Execution : Expire(e) \/ Monitor(e)
  \/ \E e \in Execution, v \in Users : UserStep(e, v) \/ Hang(e, v)
  \/ Drain

(* Clients may start and stop tests in any order, under any IDs, as long   *)
(* as the process lives, which is longer than its consumers do.            *)
Next ==
  \/ Goroutines
  \/ \E t \in TestIDs : StartTest(t) \/ StopTest(t)
  \/ Shutdown

(* Contexts expire, requests return unless they hang, and Go runs every    *)
(* goroutine that can run.                                                 *)
Fairness ==
  /\ \A e \in 1..MaxExecutions :
       /\ WF_vars(e \in Execution /\ Expire(e))
       /\ WF_vars(e \in Execution /\ Monitor(e))
       /\ \A v \in Users : WF_vars(e \in Execution /\ UserStep(e, v))
  /\ WF_vars(Drain)

Spec == Init /\ [][Next]_vars /\ Fairness
-----------------------------------------------------------------------------
(* Every user of e has returned, or waits for a request that never does.   *)
Over(e) ==
  \A v \in Users :
    \/ users[e][v].pc = "returned"
    \/ users[e][v].pc = "hung" /\ executions[e] \in WebSocket

(* An entry of activeTests is never left behind: while it names an         *)
(* execution whose context is done, that execution's monitor is still to   *)
(* run.  Holds for any client, whatever stale monitors do.                 *)
CleanupPending ==
  \A t \in DOMAIN activeTests :
    activeTests[t] \in done => activeTests[t] \in monitoring

(* Of the executions of a test the latest is the one its ID leads to, for  *)
(* as long as it is under way, so that StopTest can reach it: neither the  *)
(* start of another test nor the monitor of an earlier execution takes its *)
(* entry away without ending it.                                           *)
Reachable ==
  \A e \in Execution \ done :
    (\A f \in Execution : executions[f] = executions[e] => f <= e)
      => /\ executions[e] \in DOMAIN activeTests
         /\ activeTests[executions[e]] = e

(* The monitor of an execution whose test ID no other has ends nothing: it *)
(* comes when its own context is done, and touches no other one.           *)
RunsItsTime ==
  [][\A e \in Execution :
       /\ \A f \in Execution : executions[f] = executions[e] => f = e
       /\ Monitor(e)
       => done' = done]_vars

(* While the worker stays up, every execution comes to its end: all its    *)
(* virtual users return, though they may have to wait for room in the      *)
(* channel, and whether the test was stopped, ran out of time, or shares   *)
(* its ID with another one.  Only a user of a WebSocket test may be held   *)
(* up by a request for ever; nobody waits for it, whatever is full.        *)
AllReturn ==
  []up => \A e \in 1..MaxExecutions :
            e \in Execution ~> e \in Execution /\ Over(e)

(* "StopTest stops all virtual users for a test": when the entry of a test *)
(* goes, the contexts of all its executions are done.                      *)
StopsAllUsers ==
  [][\A t \in TestIDs :
       t \in DOMAIN activeTests /\ t \notin DOMAIN activeTests' =>
         \A e \in Execution : executions[e] = t => e \in done']_vars
=============================================================================
