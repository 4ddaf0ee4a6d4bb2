---------------------------- MODULE MCScheduler ----------------------------
(***************************************************************************)
(* AllocateWorkers called once on every small input: any set of available  *)
(* workers with any capacities, any number of users.                       *)
(***************************************************************************)
EXTENDS Scheduler

CONSTANTS
  Workers,      \* the workers there are
  MaxCapacity   \* bound: capacities are 1..MaxCapacity

ASSUME InputsAssumption ==
  IsFiniteSet(Workers) /\ MaxCapacity \in Nat \ {0}

VARIABLES
  available, capacity, users,   \* the inputs
  outcome,                      \* "pending", "error" or "allocated"
  allocation                    \* the map returned with "allocated"

vars == <<available, capacity, users, outcome, allocation>>

Total(S) == SumFunctionOnSet(capacity, S)

Init ==
  /\ available \in SUBSET Workers
  /\ capacity \in [Workers -> 1..MaxCapacity]
  /\ users \in 1..(Cardinality(Workers) * MaxCapacity)
  /\ outcome = "pending"
  /\ allocation = <<>>

Call ==
  /\ outcome = "pending"
  /\ LET allocations == AllocateWorkers(available, capacity, users)
     IN  \/ /\ allocations = {}
            /\ outcome' = "error"
            /\ UNCHANGED allocation
         \/ /\ outcome' = "allocated"
            /\ allocation' \in allocations
  /\ UNCHANGED <<available, capacity, users>>

Spec == Init /\ [][Call]_vars
-----------------------------------------------------------------------------
Allocated == outcome = "allocated"

Got(w) == IF w \in DOMAIN allocation THEN allocation[w] ELSE 0

(* AllocateWorkers fails only when the available workers together are too  *)
(* small, and otherwise places every user: what the two passes leave over  *)
(* is always nothing, so ignoring the final remainingUsers is safe.        *)
AllServed ==
  /\ outcome = "error" => available = {} \/ Total(available) < users
  /\ Allocated => SumFunction(allocation) = users

(* No available worker gets more than its capacity, and no other worker    *)
(* gets anything; the second pass never overfills what the first filled.   *)
WithinCapacity ==
  Allocated => /\ DOMAIN allocation \subseteq available
               /\ \A w \in DOMAIN allocation : allocation[w] \in 1..capacity[w]

(* "distribute users proportionally to capacity": however the roundings    *)
(* fall, no worker ends a whole user below its exact share, which is       *)
(* users * capacity / total.  (Above it, there is no such bound: what the  *)
(* roundings take from many large workers piles up on the last ones.)      *)
Proportional ==
  Allocated =>
    \A w \in available :
      users * capacity[w] < (Got(w) + 1) * Total(available)

(* Workers of the same capacity end up within one user of each other,      *)
(* wherever the unstable sort puts them.                                   *)
Fair ==
  Allocated =>
    \A v, w \in available :
      capacity[v] = capacity[w] => Got(v) - Got(w) \in -1..1
=============================================================================
