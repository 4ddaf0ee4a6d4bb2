------------------------------ MODULE MCWorker ------------------------------
(***************************************************************************)
(* The parts of a worker that run its tests: the executor, and the         *)
(* WebSocket client its virtual users share.  To the executor a request    *)
(* returns or hangs, whatever the client is at, and to the client it is    *)
(* the context that matters, whoever ends it.  Neither reads the state of  *)
(* the other, so that a behaviour is one of the executor or one of the     *)
(* client.                                                                 *)
(***************************************************************************)
EXTENDS Executor

CONSTANTS
  Clients,      \* the virtual users whose requests are WebSocket requests
  URLs, MaxRequests, MaxDials, MaxInbox  \* of WSClient

ASSUME ClientsAssumption ==
  URLs # {} /\ MaxRequests \in Nat /\ MaxDials \in Nat /\ MaxInbox \in Nat

VARIABLES
  subject,      \* what this behaviour is of
  connections, mu, conns, requests, readers, ended, expired, crashed

clientVars ==
  <<connections, mu, conns, requests, readers, ended, expired, crashed>>
workerVars == <<subject, vars, clientVars>>

WS == INSTANCE WSClient WITH Users <- Clients

WorkerInit ==
  /\ subject \in {"executor", "client"}
  /\ Init /\ WS!Init

WorkerNext ==
  /\ UNCHANGED subject
  /\ \/ subject = "executor" /\ Next /\ UNCHANGED clientVars
     \/ subject = "client" /\ WS!Next /\ UNCHANGED vars

WorkerSpec ==
  WorkerInit /\ [][WorkerNext]_workerVars /\ Fairness /\ WS!Fairness
-----------------------------------------------------------------------------
(* The types of both.                                                      *)
TypesOK == TypeOK /\ WS!TypeOK

(* The client's properties, stated where they are defined.                 *)
OpenAreListed == WS!OpenAreListed
Attended == WS!Attended
ExecuteReturns == WS!ExecuteReturns
=============================================================================
