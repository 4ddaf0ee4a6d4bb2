----------------------------- MODULE Scheduler -----------------------------
(***************************************************************************)
(* The load distribution of pkg/master/scheduler.go: how AllocateWorkers   *)
(* splits the virtual users of a test among the available workers.  It is  *)
(* one critical section of s.mu and reads nothing that changes under it,   *)
(* so it is modelled as operators, not as a state machine; the state       *)
(* machines that call it are Orchestrator and Master.                      *)
(*                                                                         *)
(* The recursion is over the positions of a sorted list, and is written    *)
(* with recursive functions so that AllocationProofs can reason about it.  *)
(***************************************************************************)
EXTENDS Integers, FiniteSets, Functions

(***************************************************************************)
(* The lists the sort may produce from the workers S.  sort.Slice is not   *)
(* stable and the list is filled from a map, in random order: workers of   *)
(* the same capacity may come in any order.                                *)
(***************************************************************************)
Orders(S, capacity) ==
  {order \in Bijection(1..Cardinality(S), S) :
     \A i, j \in 1..Cardinality(S) :
       i < j => capacity[order[i]] >= capacity[order[j]]}

(* The value of totalCapacity after k workers have been added to it.       *)
CapacitySums(caps, n) ==
  LET sum[k \in 0..n] == IF k = 0 THEN 0 ELSE sum[k-1] + caps[k]
  IN  sum

(* Mutant of the first pass: totalCapacity is left alone.                  *)
FirstPass_KeepsTotal(caps, n, users) ==
  LET total == CapacitySums(caps, n)[n]
      left[k \in 0..n] ==
        [users |-> IF k = 0 THEN users
                   ELSE left[k-1].users - (caps[k] * left[k-1].users) \div total,
         capacity |-> total]
  IN  left

(***************************************************************************)
(* remainingUsers and totalCapacity as the first pass leaves them after k  *)
(* workers.  A worker with no share leaves both alone.                     *)
(***************************************************************************)
FirstPass(caps, n, users) ==
  LET left[k \in 0..n] ==
        IF k = 0
        THEN [users |-> users, capacity |-> CapacitySums(caps, n)[n]]
        ELSE LET share == (caps[k] * left[k-1].users) \div left[k-1].capacity
             IN  IF share > 0
                 THEN [users    |-> left[k-1].users - share,
                       capacity |-> left[k-1].capacity - caps[k]]
                 ELSE left[k-1]
  IN  left

(* What the first pass gives to the k-th worker.                           *)
Share(left, k) == left[k-1].users - left[k].users

(***************************************************************************)
(* The second pass walks the list once and gives one user to each worker   *)
(* with room, until none is left: the k-th worker gets one if it has room  *)
(* and fewer workers before it had room than there were users left.        *)
(***************************************************************************)
HasRoom(caps, left, k) == caps[k] > Share(left, k)

Extra_None(caps, n, left, k) == 0  \* mutant: no second pass

(* Mutant: the first worker with room takes all that is left.              *)
Extra_Greedy(caps, n, left, k) ==
  IF /\ HasRoom(caps, left, k)
     /\ \A j \in 1..(k-1) : ~ HasRoom(caps, left, j)
  THEN left[n].users ELSE 0

Extra(caps, n, left, k) ==
  IF /\ HasRoom(caps, left, k)
     /\ Cardinality({j \in 1..(k-1) : HasRoom(caps, left, j)}) < left[n].users
  THEN 1 ELSE 0

(* The users of the k-th worker when both passes are over.                 *)
Count(caps, n, users, k) ==
  LET left == FirstPass(caps, n, users)
  IN  Share(left, k) + Extra(caps, n, left, k)

(* The allocation map: only workers with a positive count have an entry.   *)
Allocation(order, capacity, n, users) ==
  LET caps  == [k \in 1..n |-> capacity[order[k]]]
      count == [k \in 1..n |-> Count(caps, n, users, k)]
  IN  [w \in {order[k] : k \in {j \in 1..n : count[j] > 0}} |->
         count[CHOOSE k \in 1..n : order[k] = w]]

(* Mutant of AllocateWorkers: the total capacity is not checked.           *)
AllocateWorkers_AnyTotal(S, capacity, users) ==
  {Allocation(order, capacity, Cardinality(S), users) :
     order \in {o \in Orders(S, capacity) : S # {}}}

(***************************************************************************)
(* The allocations AllocateWorkers may return for the available workers S; *)
(* the empty set stands for its errors, "no workers available" and         *)
(* "insufficient worker capacity".                                         *)
(***************************************************************************)
AllocateWorkers(S, capacity, users) ==
  LET n == Cardinality(S)
      total(order) == CapacitySums([k \in 1..n |-> capacity[order[k]]], n)[n]
  IN  {Allocation(order, capacity, n, users) :
         order \in {o \in Orders(S, capacity) : n > 0 /\ total(o) >= users}}
=============================================================================
