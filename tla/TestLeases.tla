----------------------------- MODULE TestLeases -----------------------------
(***************************************************************************)
(* What the master promises about workers and tests, with no registry, no  *)
(* heartbeats and no scheduling: a test is granted, in one step, users on  *)
(* workers that are free, as many as it asked for in all; it holds them    *)
(* all, and only they hold it, until one step gives them all back; and it  *)
(* is granted users once.                                                  *)
(***************************************************************************)
EXTENDS Naturals, Functions

CONSTANTS
  Workers,      \* the workers there may be
  Tests,        \* the tests there may be
  Demands,      \* how many users a test may ask for
  None          \* held by a worker that serves no test

VARIABLES
  holder,       \* the test each worker serves, or None
  load,         \* the users each worker serves
  phase         \* "new", "held" or "over", for each test

leaseVars == <<holder, load, phase>>

Init ==
  /\ holder = [w \in Workers |-> None]
  /\ load = [w \in Workers |-> 0]
  /\ phase = [t \in Tests |-> "new"]

Grant(t, u) ==
  /\ phase[t] = "new"
  /\ \E S \in SUBSET {w \in Workers : holder[w] = None} :
       \E share \in [S -> 1..u] :
         /\ SumFunction(share) = u
         /\ holder' = [w \in Workers |-> IF w \in S THEN t ELSE holder[w]]
         /\ load' = [w \in Workers |-> IF w \in S THEN share[w] ELSE load[w]]
  /\ phase' = [phase EXCEPT ![t] = "held"]

GiveBack(t) ==
  /\ phase[t] = "held"
  /\ holder' = [w \in Workers |-> IF holder[w] = t THEN None ELSE holder[w]]
  /\ load' = [w \in Workers |-> IF holder[w] = t THEN 0 ELSE load[w]]
  /\ phase' = [phase EXCEPT ![t] = "over"]

Next == \E t \in Tests : GiveBack(t) \/ \E u \in Demands : Grant(t, u)

Spec == Init /\ [][Next]_leaseVars
=============================================================================
