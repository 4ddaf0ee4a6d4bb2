---------------------------- MODULE MCAlgorithms ----------------------------
(***************************************************************************)
(* The pure algorithms on all small inputs: AllocateWorkers is called once *)
(* (MCScheduler), or values come and are summed up (MCStatistics).         *)
(***************************************************************************)
EXTENDS MCScheduler, MCStatistics

VARIABLE subject  \* which of the algorithms this behaviour is about

AlgorithmsInit ==
  /\ NoValues
  /\ \/ subject = "allocation" /\ Init
     \/ /\ subject = "statistics"
        /\ available = {} /\ capacity = [w \in Workers |-> 1] /\ users = 1
        /\ outcome = "pending" /\ allocation = <<>>

AlgorithmsNext ==
  /\ UNCHANGED subject
  /\ \/ subject = "allocation" /\ Call /\ UNCHANGED values
     \/ subject = "statistics" /\ AddMetric /\ UNCHANGED vars

AlgorithmsSpec ==
  AlgorithmsInit /\ [][AlgorithmsNext]_<<subject, vars, values>>
=============================================================================
