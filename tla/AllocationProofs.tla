------------------------- MODULE AllocationProofs -------------------------
(***************************************************************************)
(* Proofs about the operators of Scheduler, for any number of workers, any *)
(* capacities and any number of users.                                     *)
(*                                                                         *)
(* The two recursive functions of Scheduler run over the positions of a    *)
(* list.  What they compute is proved by looking at the least position at  *)
(* which a claim fails (LeastNat, UpTo).                                   *)
(***************************************************************************)
EXTENDS Scheduler, Sums

(* The recursive definition of the capacity sums holds of them.            *)
LEMMA SumsDef ==
  ASSUME NEW n \in Nat, NEW caps
  PROVE  CapacitySums(caps, n) =
           [k \in 0..n |-> IF k = 0 THEN 0 ELSE CapacitySums(caps, n)[k-1] + caps[k]]
<1> DEFINE Is(g, m) == g = [k \in 0..m |-> IF k = 0 THEN 0 ELSE g[k-1] + caps[k]]
           T == {m \in 0..n : \E g : Is(g, m)}
<1>1. 0 \in T
  <2> DEFINE g == [k \in 0..0 |-> 0]
  <2>1. Is(g, 0)
    OBVIOUS
  <2> HIDE DEF g, Is
  <2>2. \E f : Is(f, 0)
    BY <2>1
  <2> QED BY <2>2
<1>2. ASSUME NEW m \in 1..n, m - 1 \in T
      PROVE  m \in T
  <2>1. PICK g : Is(g, m - 1)
    BY <1>2
  <2> DEFINE h == [k \in 0..m |-> IF k = m THEN g[m-1] + caps[m] ELSE g[k]]
  <2>2. ASSUME NEW k \in 0..m
        PROVE  h[k] = IF k = 0 THEN 0 ELSE h[k-1] + caps[k]
    <3>1. CASE k = m
      BY <3>1
    <3>2. CASE k # m
      <4>1. k \in 0..(m-1) /\ (k # 0 => k - 1 \in 0..m /\ k - 1 # m)
        BY <3>2
      <4>2. g[k] = IF k = 0 THEN 0 ELSE g[k-1] + caps[k]
        BY <2>1, <4>1
      <4> QED BY <4>1, <4>2, <3>2
    <3> QED BY <3>1, <3>2
  <2>3. h = [k \in 0..m |-> h[k]]
    OBVIOUS
  <2> HIDE DEF h
  <2>4. Is(h, m)
    BY <2>2, <2>3
  <2> QED BY <2>4
<1>3. n \in T
  <2> HIDE DEF T
  <2> QED BY <1>1, <1>2, UpTo
<1>4. \E g : Is(g, n)
  BY <1>3
<1>5. CapacitySums(caps, n) = CHOOSE g : Is(g, n)
  BY DEF CapacitySums
<1> QED BY <1>4, <1>5

(* The sums of capacities grow along the list.                             *)
LEMMA SumsGrow ==
  ASSUME NEW n \in Nat, NEW caps \in [1..n -> Nat]
  PROVE  LET sum == CapacitySums(caps, n)
         IN  /\ sum[0] = 0
             /\ \A k \in 1..n : sum[k] = sum[k-1] + caps[k]
             /\ \A k \in 0..n : sum[k] \in Nat /\ sum[k] <= sum[n]
<1> DEFINE sum == CapacitySums(caps, n)
<1>1. /\ sum[0] = 0
      /\ \A k \in 1..n : sum[k] = sum[k-1] + caps[k]
  <2>1. sum = [k \in 0..n |-> IF k = 0 THEN 0 ELSE sum[k-1] + caps[k]]
    BY SumsDef
  <2> HIDE DEF sum
  <2> QED BY <2>1
<1> HIDE DEF sum
<1>2. \A k \in 0..n : sum[k] \in Nat
  <2> DEFINE T == {k \in 0..n : sum[k] \in Nat}
  <2>1. 0 \in T
    BY <1>1
  <2>2. \A k \in 1..n : k - 1 \in T => k \in T
    BY <1>1
  <2> HIDE DEF T
  <2>3. 0..n \subseteq T
    BY <2>1, <2>2, UpTo
  <2> QED BY <2>3 DEF T
<1>3. ASSUME NEW k \in 0..n
      PROVE  sum[k] <= sum[n]
  <2> DEFINE T == {j \in 0..n : j < k \/ sum[k] <= sum[j]}
  <2>1. 0 \in T
    BY <1>2
  <2>2. \A j \in 1..n : j - 1 \in T => j \in T
    <3> TAKE j \in 1..n
    <3> HAVE j - 1 \in T
    <3>1. CASE j < k
      BY <3>1
    <3>2. CASE j = k
      BY <3>2, <1>2
    <3>3. CASE j > k
      <4>1. j - 1 \in 0..n /\ ~ (j - 1 < k)
        BY <3>3
      <4>2. sum[k] <= sum[j-1]
        BY <4>1
      <4>3. sum[j] = sum[j-1] + caps[j] /\ caps[j] \in Nat
        BY <1>1
      <4>4. sum[k] \in Nat /\ sum[j-1] \in Nat
        BY <1>2, <4>1
      <4> QED BY <4>2, <4>3, <4>4
    <3> QED BY <3>1, <3>2, <3>3
  <2> HIDE DEF T
  <2>3. 0..n \subseteq T
    BY <2>1, <2>2, UpTo
  <2>4. n \in T
    BY <2>3
  <2> QED BY <2>4 DEF T
<1> QED BY <1>1, <1>2, <1>3 DEF sum

(* What the first pass leaves after one more worker.                       *)
Served(cap, prev) ==
  LET share == (cap * prev.users) \div prev.capacity
  IN  IF share > 0
      THEN [users |-> prev.users - share, capacity |-> prev.capacity - cap]
      ELSE prev

(* The recursive definition of the first pass holds of it.                 *)
LEMMA FirstPassDef ==
  ASSUME NEW n \in Nat, NEW caps, NEW users
  PROVE  FirstPass(caps, n, users) =
           [k \in 0..n |->
              IF k = 0
              THEN [users |-> users, capacity |-> CapacitySums(caps, n)[n]]
              ELSE Served(caps[k], FirstPass(caps, n, users)[k-1])]
<1> DEFINE start == [users |-> users, capacity |-> CapacitySums(caps, n)[n]]
           Is(g, m) == g = [k \in 0..m |-> IF k = 0 THEN start
                                          ELSE Served(caps[k], g[k-1])]
           T == {m \in 0..n : \E g : Is(g, m)}
<1>1. FirstPass(caps, n, users) = CHOOSE g : Is(g, n)
  BY DEF FirstPass, Served
<1> HIDE DEF start
<1>2. 0 \in T
  <2> DEFINE g == [k \in 0..0 |-> start]
  <2>1. Is(g, 0)
    OBVIOUS
  <2> HIDE DEF g, Is
  <2>2. \E f : Is(f, 0)
    BY <2>1
  <2> QED BY <2>2
<1>3. ASSUME NEW m \in 1..n, m - 1 \in T
      PROVE  m \in T
  <2>1. PICK g : Is(g, m - 1)
    BY <1>3
  <2> DEFINE h == [k \in 0..m |-> IF k = m THEN Served(caps[m], g[m-1])
                                          ELSE g[k]]
  <2>2. ASSUME NEW k \in 0..m
        PROVE  h[k] = IF k = 0 THEN start ELSE Served(caps[k], h[k-1])
    <3>1. CASE k = m
      BY <3>1
    <3>2. CASE k # m
      <4>1. k \in 0..(m-1) /\ (k # 0 => k - 1 \in 0..m /\ k - 1 # m)
        BY <3>2
      <4>2. g[k] = IF k = 0 THEN start ELSE Served(caps[k], g[k-1])
        BY <2>1, <4>1
      <4> QED BY <4>1, <4>2, <3>2
    <3> QED BY <3>1, <3>2
  <2>3. h = [k \in 0..m |-> h[k]]
    OBVIOUS
  <2> HIDE DEF h
  <2>4. Is(h, m)
    BY <2>2, <2>3
  <2> QED BY <2>4
<1>4. n \in T
  <2> HIDE DEF T
  <2> QED BY <1>2, <1>3, UpTo
<1>5. PICK g : Is(g, n)
  BY <1>4
<1>6. Is(FirstPass(caps, n, users), n)
  <2> HIDE DEF Is
  <2> QED BY <1>1, <1>5
<1> HIDE DEF T
<1> QED BY <1>6 DEF start

LEMMA FirstPassStart ==
  ASSUME NEW n \in Nat, NEW caps, NEW users
  PROVE  FirstPass(caps, n, users)[0] =
           [users |-> users, capacity |-> CapacitySums(caps, n)[n]]
BY FirstPassDef

LEMMA FirstPassStep ==
  ASSUME NEW n \in Nat, NEW caps \in [1..n -> Nat \ {0}], NEW users,
         NEW k \in 1..n
  PROVE  FirstPass(caps, n, users)[k] =
           Served(caps[k], FirstPass(caps, n, users)[k-1])
BY FirstPassDef

(* One proportional share of u users, c out of C units of capacity: it is  *)
(* at most c, at most u, and leaves no more users than capacity.           *)
LEMMA ShareBounds ==
  ASSUME NEW c \in Nat, NEW u \in Nat, NEW C \in Nat,
         0 < C, c <= C, u <= C
  PROVE  LET q == (c * u) \div C
         IN  /\ q \in Nat
             /\ q <= c
             /\ q <= u
             /\ u - q <= C - c
<1> DEFINE q == (c * u) \div C
<1>1. c * u \in Nat
  OBVIOUS
<1>2. q \in Nat /\ q * C <= c * u /\ c * u < (q + 1) * C
  BY <1>1
<1> HIDE DEF q
<1>3. q <= c
  BY <1>2
<1>4. q <= u
  BY <1>2
<1>5. u - q <= C - c
  BY <1>2
<1> QED BY <1>2, <1>3, <1>4, <1>5 DEF q

(* C units cover the capacities from a to b; take the first, c, of them.   *)
LEMMA Cover ==
  \A a, b, c, C \in Nat :
    b - a <= C /\ a + c <= b =>
      /\ c <= C
      /\ b - (a + c) <= C - c
      /\ b - (a + c) <= C
OBVIOUS

(* The invariant of the first pass: no more users are left than capacity,  *)
(* and the capacity left covers every worker still to come; so the division *)
(* is never by zero, and no worker's share exceeds its capacity.           *)
LEMMA FirstPassInvariant ==
  ASSUME NEW n \in Nat, NEW caps \in [1..n -> Nat \ {0}],
         NEW users \in Nat, users <= CapacitySums(caps, n)[n]
  PROVE  LET left == FirstPass(caps, n, users)
         IN  /\ \A k \in 0..n : /\ left[k].users \in Nat
                                /\ left[k].capacity \in Nat
                                /\ left[k].users <= left[k].capacity
             /\ \A k \in 1..n : /\ Share(left, k) \in 0..caps[k]
                                /\ caps[k] <= left[k-1].capacity
<1> DEFINE sum == CapacitySums(caps, n)
           left == FirstPass(caps, n, users)
           Good(k) == /\ left[k].users \in Nat
                      /\ left[k].capacity \in Nat
                      /\ left[k].users <= left[k].capacity
                      /\ sum[n] - sum[k] <= left[k].capacity
           Step(k) == left[k-1].users - left[k].users \in 0..caps[k]
           T == {k \in 0..n : Good(k) /\ (k > 0 => Step(k))}
<1>1. /\ sum[0] = 0
      /\ \A k \in 1..n : sum[k] = sum[k-1] + caps[k]
      /\ \A k \in 0..n : sum[k] \in Nat /\ sum[k] <= sum[n]
  <2>1. caps \in [1..n -> Nat]
    OBVIOUS
  <2> QED BY <2>1, SumsGrow
<1>2. /\ left[0] = [users |-> users, capacity |-> sum[n]]
      /\ \A k \in 1..n : left[k] = Served(caps[k], left[k-1])
  <2>1. left[0] = [users |-> users, capacity |-> sum[n]]
    BY FirstPassStart
  <2>2. ASSUME NEW k \in 1..n
        PROVE  left[k] = Served(caps[k], left[k-1])
    BY FirstPassStep
  <2> HIDE DEF left, sum
  <2> QED BY <2>1, <2>2
<1>3. users <= sum[n]
  OBVIOUS
<1> HIDE DEF sum, left
<1>4. 0 \in T
  BY <1>1, <1>2, <1>3
<1>5. ASSUME NEW k \in 1..n, k - 1 \in T
      PROVE  k \in T
  <2> DEFINE u == left[k-1].users
             C == left[k-1].capacity
             c == caps[k]
             q == (c * u) \div C
  <2>1. k - 1 \in 0..n /\ Good(k-1)
    BY <1>5
  <2>2. c \in Nat /\ 0 < c /\ u \in Nat /\ C \in Nat /\ u <= C
    BY <2>1
  <2>3. /\ c <= C
        /\ sum[n] - sum[k] <= C - c
        /\ sum[n] - sum[k] <= C
    <3>1. /\ sum[n] - sum[k-1] <= C
          /\ sum[k] = sum[k-1] + c
          /\ sum[k-1] + c <= sum[n]
      BY <1>1, <2>1
    <3>2. sum[k-1] \in Nat /\ sum[n] \in Nat
      BY <1>1, <2>1
    <3> HIDE DEF c, C
    <3> QED BY <3>1, <3>2, <2>2, Cover
  <2>4. q \in Nat /\ q <= c /\ q <= u /\ u - q <= C - c
    <3> HIDE DEF u, C, c
    <3>1. 0 < C
      BY <2>2, <2>3
    <3> QED BY <2>2, <2>3, <3>1, ShareBounds
  <2>5. left[k] = IF q > 0 THEN [users |-> u - q, capacity |-> C - c]
                           ELSE left[k-1]
    BY <1>2 DEF Served
  <2> HIDE DEF q, c
  <2>6. CASE q > 0
    <3>1. left[k].users = u - q /\ left[k].capacity = C - c
      BY <2>5, <2>6
    <3> HIDE DEF u, C
    <3>2. left[k].users \in Nat /\ left[k].capacity \in Nat
      BY <3>1, <2>2, <2>3, <2>4
    <3>3. left[k].users <= left[k].capacity
      BY <3>1, <2>4
    <3>4. sum[n] - sum[k] <= left[k].capacity
      BY <3>1, <2>3
    <3>5. left[k-1].users - left[k].users \in 0..caps[k]
      BY <3>1, <2>2, <2>4 DEF u, c
    <3> QED BY <3>2, <3>3, <3>4, <3>5
  <2>7. CASE ~ (q > 0)
    <3>1. left[k] = left[k-1]
      BY <2>5, <2>7
    <3>2. sum[n] - sum[k] <= left[k].capacity
      BY <3>1, <2>3
    <3>3. left[k-1].users - left[k].users \in 0..caps[k]
      BY <3>1, <2>2 DEF c
    <3> QED BY <3>1, <3>2, <3>3, <2>1
  <2> QED BY <2>6, <2>7
<1>6. 0..n \subseteq T
  <2> HIDE DEF T
  <2> QED BY <1>4, <1>5, UpTo
<1>7. \A k \in 0..n : Good(k)
  BY <1>6
<1>8. \A k \in 1..n : Share(left, k) \in 0..caps[k]
  BY <1>6 DEF Share
<1>9. ASSUME NEW k \in 1..n
      PROVE  caps[k] <= left[k-1].capacity
  <2>1. /\ k - 1 \in 0..n
        /\ sum[n] - sum[k-1] <= left[k-1].capacity
        /\ left[k-1].capacity \in Nat
    BY <1>7
  <2>2. /\ sum[k] = sum[k-1] + caps[k] /\ sum[k] <= sum[n]
        /\ sum[k-1] \in Nat /\ sum[n] \in Nat /\ caps[k] \in Nat
    BY <1>1, <2>1
  <2> QED BY <2>1, <2>2
<1> QED BY <1>7, <1>8, <1>9 DEF left

(* One step of the first pass, as a division with its remainder.           *)
Divides(caps, left, k) ==
  LET u == left[k-1].users
      C == left[k-1].capacity
      q == Share(left, k)
  IN  /\ u \in Nat /\ C \in Nat /\ q \in Nat
      /\ 0 < caps[k] /\ caps[k] <= C /\ u <= C
      /\ q * C <= caps[k] * u /\ caps[k] * u < (q + 1) * C
      /\ left[k].users = u - q /\ left[k].users \in Nat
      /\ left[k].capacity = IF q > 0 THEN C - caps[k] ELSE C

LEMMA FirstPassShares ==
  ASSUME NEW n \in Nat, NEW caps \in [1..n -> Nat \ {0}],
         NEW users \in Nat, users <= CapacitySums(caps, n)[n],
         NEW k \in 1..n
  PROVE  Divides(caps, FirstPass(caps, n, users), k)
<1> DEFINE left == FirstPass(caps, n, users)
           u == left[k-1].users
           C == left[k-1].capacity
           c == caps[k]
           d == (c * u) \div C
<1>1. /\ k - 1 \in 0..n /\ k \in 0..n
      /\ left[k-1].users \in Nat /\ left[k-1].capacity \in Nat
      /\ left[k-1].users <= left[k-1].capacity
      /\ left[k].users \in Nat
      /\ caps[k] <= left[k-1].capacity
  <2>1. k - 1 \in 0..n /\ k \in 0..n
    OBVIOUS
  <2> QED BY <2>1, FirstPassInvariant
<1>2. left[k] = Served(caps[k], left[k-1])
  BY FirstPassStep
<1> HIDE DEF left
<1>3. c \in Nat /\ 0 < c /\ u \in Nat /\ C \in Nat /\ c <= C /\ 0 < C /\ u <= C
  BY <1>1
<1>4. left[k] = IF d > 0 THEN [users |-> u - d, capacity |-> C - c]
                         ELSE left[k-1]
  BY <1>2 DEF Served
<1>5. left[k-1].users = u /\ left[k-1].capacity = C
  OBVIOUS
<1> HIDE DEF u, C, c
<1>6. c * u \in Nat
  BY <1>3
<1>7. d \in Nat /\ d * C <= c * u /\ c * u < (d + 1) * C
  BY <1>3, <1>6
<1> HIDE DEF d
<1>8. left[k].users = u - d /\ left[k].capacity = IF d > 0 THEN C - c ELSE C
  <2>1. CASE d > 0
    <3>1. left[k] = [users |-> u - d, capacity |-> C - c]
      BY <1>4, <2>1
    <3> QED BY <2>1, <3>1
  <2>2. CASE d = 0
    <3>1. left[k] = left[k-1]
      BY <1>4, <2>2
    <3>2. u - d = u /\ ~ (d > 0)
      BY <1>3, <2>2
    <3> QED BY <1>5, <3>1, <3>2
  <2> QED BY <1>7, <2>1, <2>2
<1>9. Share(left, k) = d
  BY <1>3, <1>5, <1>7, <1>8 DEF Share
<1>10. left[k].users \in Nat
  BY <1>1
<1> QED BY <1>3, <1>7, <1>8, <1>9, <1>10 DEF Divides, left, u, C, c

(* Products of naturals keep and reflect the order.                        *)
LEMMA Times ==
  /\ \A a, b, c \in Nat : a <= b => a * c <= b * c
  /\ \A a, b, c \in Nat : 0 < c /\ a * c <= b * c => a <= b
  /\ \A a, b, c \in Nat : 0 < c /\ a * c < b * c => a < b
  /\ \A a, b \in Nat : a * b \in Nat /\ a * b = b * a
  /\ \A a, b, c \in Nat : (a * b) * c = a * (b * c)
<1>1. \A a, b, c \in Nat : a <= b => a * c <= b * c
  OBVIOUS
<1>2. \A a, b, c \in Nat : 0 < c /\ a * c <= b * c => a <= b
  OBVIOUS
<1>3. \A a, b, c \in Nat : 0 < c /\ a * c < b * c => a < b
  OBVIOUS
<1>4. \A a, b \in Nat : a * b \in Nat /\ a * b = b * a
  OBVIOUS
<1>5. \A a, b, c \in Nat : (a * b) * c = a * (b * c)
  OBVIOUS
<1> QED BY <1>1, <1>2, <1>3, <1>4, <1>5

(* Both passes together give a worker at most its capacity.                *)
LEMMA CountBounds ==
  ASSUME NEW n \in Nat, NEW caps \in [1..n -> Nat \ {0}],
         NEW users \in Nat, users <= CapacitySums(caps, n)[n],
         NEW k \in 1..n
  PROVE  Count(caps, n, users, k) \in 0..caps[k]
<1> DEFINE left == FirstPass(caps, n, users)
           share == Share(left, k)
           extra == Extra(caps, n, left, k)
<1>1. share \in 0..caps[k]
  BY FirstPassInvariant
<1>2. extra \in {0, 1} /\ (extra = 1 => caps[k] > share)
  BY DEF Extra, HasRoom
<1>3. Count(caps, n, users, k) = share + extra
  BY DEF Count
<1> HIDE DEF share, extra
<1>4. caps[k] \in Nat
  OBVIOUS
<1> QED BY <1>1, <1>2, <1>3, <1>4

(* Taking q users and c units away, with q no more than the proportional   *)
(* part of c, leaves at least as many users for each unit.                 *)
LEMMA Ratio ==
  ASSUME NEW u \in Nat, NEW C \in Nat, NEW U \in Nat, NEW S \in Nat,
         NEW c \in Nat, NEW q \in Nat,
         0 < C, c <= C, q <= u, q * C <= c * u, U * C <= u * S
  PROVE  U * (C - c) <= (u - q) * S
<1>1. C - c \in Nat /\ u - q \in Nat
  OBVIOUS
<1>2. PICK D \in Nat : D = C - c
  BY <1>1
<1>3. PICK v \in Nat : v = u - q
  BY <1>1
<1>4. u * D <= v * C
  <2>1. u * D = u * C - c * u /\ v * C = u * C - q * C
    BY <1>2, <1>3
  <2>2. u * C \in Nat /\ c * u \in Nat /\ q * C \in Nat
    OBVIOUS
  <2> QED BY <2>1, <2>2
<1>5. (U * C) * D <= (u * S) * D
  BY Times
<1>6. (u * D) * S <= (v * C) * S
  BY <1>4, Times
<1>7. (U * D) * C = (U * C) * D /\ (u * S) * D = (u * D) * S
      /\ (v * C) * S = (v * S) * C
  OBVIOUS
<1>8. (U * D) * C <= (v * S) * C
  <2>1. (U * C) * D \in Nat /\ (u * D) * S \in Nat /\ (v * C) * S \in Nat
    BY Times
  <2> QED BY <1>5, <1>6, <1>7, <2>1
<1>9. U * D <= v * S
  BY <1>8, Times
<1> QED BY <1>2, <1>3, <1>9

(* The first pass never lowers the users left for each unit of capacity.   *)
LEMMA RatioGrows ==
  ASSUME NEW n \in Nat, NEW caps \in [1..n -> Nat \ {0}],
         NEW users \in Nat, users <= CapacitySums(caps, n)[n]
  PROVE  \A k \in 0..n :
           users * FirstPass(caps, n, users)[k].capacity
             <= FirstPass(caps, n, users)[k].users * CapacitySums(caps, n)[n]
<1> DEFINE left == FirstPass(caps, n, users)
           S == CapacitySums(caps, n)[n]
           T == {k \in 0..n : users * left[k].capacity <= left[k].users * S}
<1>1. S \in Nat
  BY SumsGrow
<1>2. left[0].users = users /\ left[0].capacity = S
  <2>1. left[0] = [users |-> users, capacity |-> S]
    BY FirstPassStart
  <2> HIDE DEF left, S
  <2> QED BY <2>1
<1>3. \A k \in 1..n : Divides(caps, left, k)
  BY FirstPassShares
<1> HIDE DEF left, S
<1>5. 0 \in T
  BY <1>1, <1>2
<1>6. ASSUME NEW k \in 1..n, k - 1 \in T
      PROVE  k \in T
  <2>1. PICK u \in Nat, C \in Nat, q \in Nat, c \in Nat :
          /\ u = left[k-1].users /\ C = left[k-1].capacity
          /\ q = Share(left, k) /\ c = caps[k]
    BY <1>3 DEF Divides
  <2>2. /\ 0 < c /\ c <= C /\ u <= C /\ q * C <= c * u
        /\ left[k].users = u - q /\ left[k].users \in Nat
        /\ left[k].capacity = IF q > 0 THEN C - c ELSE C
    BY <1>3, <2>1 DEF Divides
  <2>3. users * C <= u * S
    BY <1>6, <2>1
  <2>4. q <= u
    BY <2>2
  <2>5. CASE q > 0
    <3>1. users * (C - c) <= (u - q) * S
      <4>1. 0 < C
        BY <2>2
      <4> QED BY <1>1, <2>2, <2>3, <2>4, <4>1, Ratio
    <3>2. left[k].capacity = C - c /\ left[k].users = u - q
      BY <2>2, <2>5
    <3> QED BY <3>1, <3>2
  <2>6. CASE q = 0
    <3>1. left[k].capacity = C /\ left[k].users = u
      BY <2>2, <2>6
    <3> QED BY <2>3, <3>1
  <2> QED BY <2>5, <2>6
<1>7. 0..n \subseteq T
  <2> HIDE DEF T
  <2> QED BY <1>5, <1>6, UpTo
<1> QED BY <1>7 DEF left, S

(* No worker ends a whole user below its exact share of the users.         *)
LEMMA CountIsFair ==
  ASSUME NEW n \in Nat, NEW caps \in [1..n -> Nat \ {0}],
         NEW users \in Nat, users <= CapacitySums(caps, n)[n],
         NEW k \in 1..n
  PROVE  users * caps[k] < (Count(caps, n, users, k) + 1) * CapacitySums(caps, n)[n]
<1> DEFINE left == FirstPass(caps, n, users)
           share == Share(left, k)
           extra == Extra(caps, n, left, k)
           total == CapacitySums(caps, n)[n]
<1>1. PICK u \in Nat, C \in Nat, q \in Nat :
        /\ u = left[k-1].users /\ C = left[k-1].capacity /\ q = share
  BY FirstPassShares DEF Divides
<1>2. 0 < caps[k] /\ caps[k] <= C /\ caps[k] * u < (q + 1) * C
  BY <1>1, FirstPassShares DEF Divides
<1>3. users * C <= u * total
  <2>1. k - 1 \in 0..n
    OBVIOUS
  <2> QED BY <1>1, <2>1, RatioGrows
<1>4. extra \in Nat
  BY DEF Extra
<1>5. PICK e \in Nat : e = extra
  BY <1>4
<1>6. Count(caps, n, users, k) = q + e
  BY <1>1, <1>5 DEF Count
<1>7. total \in Nat /\ caps[k] \in Nat /\ caps[k] <= total
  <2>1. caps \in [1..n -> Nat]
    OBVIOUS
  <2>2. LET sum == CapacitySums(caps, n)
        IN  /\ sum[k] = sum[k-1] + caps[k] /\ sum[k] <= sum[n]
            /\ sum[k-1] \in Nat /\ sum[k] \in Nat /\ sum[n] \in Nat
    <3>1. k \in 0..n /\ k - 1 \in 0..n /\ n \in 0..n
      OBVIOUS
    <3> QED BY <2>1, <3>1, SumsGrow
  <2> QED BY <2>1, <2>2
<1> HIDE DEF total
<1>8. PICK S \in Nat, c \in Nat : S = total /\ c = caps[k]
  BY <1>7
<1>9. users * c < (q + 1) * S
  <2>1. (users * C) * c <= (u * S) * c
    BY <1>3, <1>8, Times
  <2>2. (c * u) * S < ((q + 1) * C) * S
    BY <1>2, <1>7, <1>8
  <2>3. (users * C) * c = (users * c) * C /\ (u * S) * c = (c * u) * S
        /\ ((q + 1) * C) * S = ((q + 1) * S) * C
    OBVIOUS
  <2>4. (users * c) * C < ((q + 1) * S) * C
    <3>1. (users * C) * c \in Nat /\ (c * u) * S \in Nat
      BY Times
    <3> QED BY <2>1, <2>2, <2>3, <3>1
  <2>5. q + 1 \in Nat /\ (q + 1) * S \in Nat /\ users * c \in Nat
    OBVIOUS
  <2> HIDE <2>1, <2>2, <2>3
  <2> QED BY <1>2, <1>8, <2>4, <2>5, Times
<1>10. (q + 1) * S <= (q + e + 1) * S
  BY Times
<1>11. users * c < (q + e + 1) * S
  <2>1. users * c \in Nat /\ (q + 1) * S \in Nat /\ (q + e + 1) * S \in Nat
    BY Times
  <2> QED BY <1>9, <1>10, <2>1
<1> QED BY <1>6, <1>8, <1>11 DEF total

(* Capacities from the largest down, as the sort leaves them.              *)
Descending(caps, n) == \A i, j \in 1..n : i < j => caps[i] >= caps[j]

(* In a sorted list, the capacity from position m on is at most that of    *)
(* the m-th worker times the workers there are.                            *)
LEMMA SortedSums ==
  ASSUME NEW n \in Nat, NEW caps \in [1..n -> Nat \ {0}], Descending(caps, n),
         NEW m \in 1..n
  PROVE  LET sum == CapacitySums(caps, n)
         IN  sum[n] - sum[m-1] <= (n - m + 1) * caps[m]
<1> DEFINE sum == CapacitySums(caps, n)
           T == {k \in 0..n : k < m \/ sum[k] - sum[m-1] <= (k - m + 1) * caps[m]}
<1>1. /\ \A k \in 1..n : sum[k] = sum[k-1] + caps[k]
      /\ \A k \in 0..n : sum[k] \in Nat
  <2>1. caps \in [1..n -> Nat]
    OBVIOUS
  <2> QED BY <2>1, SumsGrow
<1> HIDE DEF sum
<1>2. 0 \in T
  OBVIOUS
<1>3. ASSUME NEW k \in 1..n, k - 1 \in T
      PROVE  k \in T
  <2>1. CASE k < m
    BY <2>1
  <2>2. CASE k = m
    <3>1. sum[m] = sum[m-1] + caps[m] /\ sum[m-1] \in Nat /\ caps[m] \in Nat
      BY <1>1
    <3>2. (m - m + 1) * caps[m] = caps[m]
      BY <3>1
    <3>3. sum[m] - sum[m-1] <= (m - m + 1) * caps[m]
      BY <3>1, <3>2
    <3> QED BY <2>2, <3>3
  <2>3. CASE k > m
    <3>1. sum[k-1] - sum[m-1] <= (k - 1 - m + 1) * caps[m]
      BY <1>3, <2>3
    <3>2. caps[k] <= caps[m] /\ caps[k] \in Nat /\ caps[m] \in Nat
      BY <2>3 DEF Descending
    <3>3. /\ sum[k] = sum[k-1] + caps[k]
          /\ sum[k-1] \in Nat /\ sum[m-1] \in Nat
      BY <1>1
    <3>4. PICK d \in Nat : d = k - m
      BY <2>3
    <3>5. d * caps[m] \in Nat /\ (d + 1) * caps[m] = d * caps[m] + caps[m]
      BY <3>2
    <3>6. k - 1 - m + 1 = d /\ k - m + 1 = d + 1
      BY <3>4
    <3>7. sum[k-1] - sum[m-1] <= d * caps[m]
      BY <3>1, <3>6
    <3>8. sum[k] - sum[m-1] <= (d + 1) * caps[m]
      <4>1. PICK p \in Nat : /\ p = d * caps[m]
                             /\ p + caps[m] = (d + 1) * caps[m]
        BY <3>5
      <4>2. sum[k-1] - sum[m-1] <= p
        BY <3>7, <4>1
      <4>3. sum[k] - sum[m-1] <= p + caps[m]
        BY <3>2, <3>3, <4>2
      <4> QED BY <4>1, <4>3
    <3>9. sum[k] - sum[m-1] <= (k - m + 1) * caps[m]
      BY <3>6, <3>8
    <3> QED BY <3>9
  <2> QED BY <2>1, <2>2, <2>3
<1>4. 0..n \subseteq T
  <2> HIDE DEF T
  <2> QED BY <1>2, <1>3, UpTo
<1>5. n \in 0..n /\ ~ (n < m)
  OBVIOUS
<1> QED BY <1>4, <1>5 DEF sum

(* The first pass either takes every worker so far out of the total, or it *)
(* has met one too small for a share, and since the list is sorted nobody  *)
(* after that one gets a share either.                                     *)
LEMMA SharesThenNone ==
  ASSUME NEW n \in Nat, NEW caps \in [1..n -> Nat \ {0}], Descending(caps, n),
         NEW users \in Nat, users <= CapacitySums(caps, n)[n]
  PROVE  LET left == FirstPass(caps, n, users)
             sum  == CapacitySums(caps, n)
         IN  \/ left[n].capacity = 0
             \/ \E m \in 1..n : /\ left[n].capacity = sum[n] - sum[m-1]
                               /\ caps[m] * left[n].users < left[n].capacity
                               /\ \A j \in m..n : Share(left, j) = 0
<1> DEFINE left == FirstPass(caps, n, users)
           sum  == CapacitySums(caps, n)
           All(k) == left[k].capacity = sum[n] - sum[k]
           From(k, m) == /\ left[k].capacity = sum[n] - sum[m-1]
                         /\ caps[m] * left[k].users < left[k].capacity
                         /\ \A j \in m..k : Share(left, j) = 0
           T == {k \in 0..n : All(k) \/ \E m \in 1..k : From(k, m)}
<1>1. /\ sum[0] = 0
      /\ \A k \in 1..n : sum[k] = sum[k-1] + caps[k]
      /\ \A k \in 0..n : sum[k] \in Nat
  <2>1. caps \in [1..n -> Nat]
    OBVIOUS
  <2> QED BY <2>1, SumsGrow
<1>2. left[0].capacity = sum[n]
  <2>1. left[0] = [users |-> users, capacity |-> sum[n]]
    BY FirstPassStart
  <2> HIDE DEF left, sum
  <2> QED BY <2>1
<1>3. \A k \in 1..n : Divides(caps, left, k)
  BY FirstPassShares
<1> HIDE DEF left, sum
<1>4. 0 \in T
  <2>1. All(0)
    BY <1>1, <1>2
  <2> QED BY <2>1
<1>5. ASSUME NEW k \in 1..n, k - 1 \in T
      PROVE  k \in T
  <2>1. PICK u \in Nat, C \in Nat, q \in Nat, c \in Nat :
          /\ u = left[k-1].users /\ C = left[k-1].capacity
          /\ q = Share(left, k) /\ c = caps[k]
    BY <1>3 DEF Divides
  <2>2. /\ 0 < c /\ c <= C /\ u <= C /\ q * C <= c * u
        /\ c * u < (q + 1) * C
        /\ left[k].users = u - q
        /\ left[k].capacity = IF q > 0 THEN C - c ELSE C
    BY <1>3, <2>1 DEF Divides
  <2>3. CASE All(k-1)
    <3>1. C = sum[n] - sum[k-1] /\ sum[k] = sum[k-1] + c
      BY <1>1, <2>1, <2>3
    <3>2. CASE q > 0
      <4>1. left[k].capacity = C - c
        BY <2>2, <3>2
      <4>2. sum[n] \in Nat /\ sum[k-1] \in Nat
        BY <1>1
      <4>3. C - c = sum[n] - sum[k]
        BY <3>1, <4>2
      <4> QED BY <4>1, <4>3
    <3>3. CASE q = 0
      <4>1. left[k].capacity = C /\ left[k].users = u /\ c * u < C
        BY <2>2, <3>3
      <4>2. \A j \in k..k : Share(left, j) = 0
        <5>1. \A j \in k..k : j = k
          OBVIOUS
        <5> QED BY <2>1, <3>3, <5>1
      <4>3. From(k, k)
        BY <2>1, <3>1, <4>1, <4>2
      <4>4. k \in 1..k
        OBVIOUS
      <4> HIDE DEF From
      <4> QED BY <4>3, <4>4
    <3> QED BY <3>2, <3>3
  <2>4. ASSUME NEW m \in 1..(k-1), From(k-1, m)
        PROVE  From(k, m)
    <3>1. caps[m] * u < C /\ C = sum[n] - sum[m-1]
      BY <2>1, <2>4
    <3>2. c <= caps[m] /\ caps[m] \in Nat
      BY <2>1 DEF Descending
    <3>3. q = 0
      <4>1. c * u <= caps[m] * u
        BY <3>2, Times
      <4>2. c * u \in Nat /\ caps[m] * u \in Nat /\ q * C \in Nat
        BY <3>2, Times
      <4>3. q * C < C
        <5>1. q * C <= c * u
          BY <2>2
        <5> QED BY <3>1, <4>1, <4>2, <5>1
      <4>4. q * C < 1 * C /\ 0 < C
        BY <2>2, <4>3
      <4>5. q < 1
        BY <4>4, Times
      <4> QED BY <4>5
    <3>4. left[k].capacity = C /\ left[k].users = u
      BY <2>2, <3>3
    <3>5. \A j \in m..k : Share(left, j) = 0
      <4>1. \A j \in m..k : j = k \/ j \in m..(k-1)
        OBVIOUS
      <4> QED BY <2>1, <2>4, <3>3, <4>1
    <3> QED BY <3>1, <3>4, <3>5
  <2>5. CASE \E m \in 1..(k-1) : From(k-1, m)
    <3>1. PICK m \in 1..(k-1) : From(k-1, m)
      BY <2>5
    <3>2. From(k, m)
      <4> HIDE DEF From
      <4> QED BY <2>4, <3>1
    <3>3. m \in 1..k
      OBVIOUS
    <3> HIDE DEF From
    <3> QED BY <3>2, <3>3
  <2> HIDE DEF All, From
  <2> QED BY <1>5, <2>3, <2>5
<1>6. n \in T
  <2>1. 0..n \subseteq T
    <3> HIDE DEF T
    <3> QED BY <1>4, <1>5, UpTo
  <2> QED BY <2>1
<1>7. sum[n] - sum[n] = 0
  BY <1>1
<1>8. All(n) => left[n].capacity = 0
  BY <1>7
<1> HIDE DEF All
<1>9. left[n].capacity = 0 \/ \E m \in 1..n : From(n, m)
  BY <1>6, <1>8
<1> QED BY <1>9 DEF left, sum

(* What the first pass leaves over fits in the room it leaves: there are   *)
(* at least as many workers with room as users without a place.            *)
LEMMA LeftOverFits ==
  ASSUME NEW n \in Nat, NEW caps \in [1..n -> Nat \ {0}], Descending(caps, n),
         NEW users \in Nat, users <= CapacitySums(caps, n)[n]
  PROVE  LET left == FirstPass(caps, n, users)
         IN  left[n].users <= Cardinality({j \in 1..n : HasRoom(caps, left, j)})
<1> DEFINE left == FirstPass(caps, n, users)
           sum  == CapacitySums(caps, n)
           H    == {j \in 1..n : HasRoom(caps, left, j)}
<1>1. left[n].users \in Nat /\ left[n].users <= left[n].capacity
  <2>1. n \in 0..n
    OBVIOUS
  <2> QED BY <2>1, FirstPassInvariant
<1>2. IsFiniteSet(H) /\ Cardinality(H) \in Nat
  <2>1. IsFiniteSet(1..n) /\ H \subseteq 1..n
    BY FS_Interval
  <2> HIDE DEF H
  <2> QED BY <2>1, FS_Subset, FS_CardinalityType
<1>3. CASE left[n].capacity = 0
  <2> HIDE DEF H, left
  <2> QED BY <1>1, <1>2, <1>3 DEF H, left
<1>4. ASSUME NEW m \in 1..n,
             left[n].capacity = sum[n] - sum[m-1],
             caps[m] * left[n].users < left[n].capacity,
             \A j \in m..n : Share(left, j) = 0
      PROVE  left[n].users <= Cardinality(H)
  <2>1. sum[n] - sum[m-1] <= (n - m + 1) * caps[m]
    BY SortedSums
  <2>2. sum[n] \in Nat /\ sum[m-1] \in Nat
    <3>1. caps \in [1..n -> Nat] /\ n \in 0..n /\ m - 1 \in 0..n
      OBVIOUS
    <3> QED BY <3>1, SumsGrow
  <2>3. m..n \subseteq H
    <3>1. ASSUME NEW j \in m..n
          PROVE  j \in 1..n /\ caps[j] > Share(left, j)
      <4>1. j \in 1..n /\ Share(left, j) = 0
        BY <1>4
      <4>2. caps[j] \in Nat /\ caps[j] > 0
        BY <4>1
      <4> QED BY <4>1, <4>2
    <3> QED BY <3>1 DEF HasRoom
  <2> HIDE DEF left, sum, H
  <2>4. PICK c \in Nat, u \in Nat, d \in Nat, s \in Int :
          /\ c = caps[m] /\ u = left[n].users /\ d = n - m + 1
          /\ s = sum[n] - sum[m-1]
    <3>1. /\ caps[m] \in Nat /\ left[n].users \in Nat /\ n - m + 1 \in Nat
          /\ sum[n] - sum[m-1] \in Int
      BY <1>1, <2>2
    <3> QED BY <3>1
  <2>5. c * u < s /\ s <= d * c /\ 0 < c
    BY <1>4, <2>1, <2>4
  <2>6. u < d
    <3>1. c * u = u * c /\ c * u \in Nat /\ d * c \in Nat
      BY Times
    <3>2. u * c < d * c
      BY <2>5, <3>1
    <3> QED BY <2>5, <3>2, Times
  <2>7. Cardinality(m..n) = d
    BY <2>4, FS_Interval
  <2>8. Cardinality(m..n) <= Cardinality(H)
    BY <1>2, <2>3, FS_Subset
  <2> QED BY <1>2, <2>4, <2>6, <2>7, <2>8
<1>5. \/ left[n].capacity = 0
      \/ \E m \in 1..n : /\ left[n].capacity = sum[n] - sum[m-1]
                        /\ caps[m] * left[n].users < left[n].capacity
                        /\ \A j \in m..n : Share(left, j) = 0
  BY SharesThenNone
<1> HIDE DEF left, sum, H
<1> QED BY <1>3, <1>4, <1>5 DEF left, H

(* The two passes place every user.                                        *)
LEMMA AllPlaced ==
  ASSUME NEW n \in Nat, NEW caps \in [1..n -> Nat \ {0}], Descending(caps, n),
         NEW users \in Nat, users <= CapacitySums(caps, n)[n]
  PROVE  SumFunctionOnSet([k \in 1..n |-> Count(caps, n, users, k)], 1..n) = users
<1> DEFINE left  == FirstPass(caps, n, users)
           rest  == left[n].users
           count == [k \in 1..n |-> Count(caps, n, users, k)]
           H(k)  == {j \in 1..k : HasRoom(caps, left, j)}
           Least(a, b) == IF a <= b THEN a ELSE b
           T == {k \in 0..n : SumFunctionOnSet(count, 1..k) =
                   users - left[k].users + Least(Cardinality(H(k)), rest)}
<1>1. \A k \in 0..n : left[k].users \in Nat
  BY FirstPassInvariant
<1>2. left[0].users = users
  <2>1. left[0] = [users |-> users, capacity |-> CapacitySums(caps, n)[n]]
    BY FirstPassStart
  <2> HIDE DEF left
  <2> QED BY <2>1
<1>3. rest <= Cardinality(H(n))
  BY LeftOverFits
<1>4. \A k \in 1..n : /\ count[k] = Share(left, k) + Extra(caps, n, left, k)
                     /\ Share(left, k) = left[k-1].users - left[k].users
  BY DEF Count, Share
<1>5. \A k \in 1..n : Extra(caps, n, left, k) =
        IF /\ HasRoom(caps, left, k)
           /\ Cardinality(H(k-1)) < rest THEN 1 ELSE 0
  BY DEF Extra
<1>6. rest \in Nat
  BY <1>1
<1>7. \A k \in 0..n : IsFiniteSet(H(k)) /\ Cardinality(H(k)) \in Nat
  <2> TAKE k \in 0..n
  <2>1. IsFiniteSet(1..k) /\ H(k) \subseteq 1..k
    BY FS_Interval
  <2> HIDE DEF H
  <2> QED BY <2>1, FS_Subset, FS_CardinalityType
<1>8. ASSUME NEW k \in 1..n
      PROVE  Cardinality(H(k)) = IF HasRoom(caps, left, k)
                                 THEN Cardinality(H(k-1)) + 1
                                 ELSE Cardinality(H(k-1))
  <2>1. IsFiniteSet(H(k-1)) /\ k \notin H(k-1)
    BY <1>7
  <2>2. H(k) = IF HasRoom(caps, left, k) THEN H(k-1) \cup {k} ELSE H(k-1)
    OBVIOUS
  <2> HIDE DEF H
  <2> QED BY <2>1, <2>2, FS_AddElement
<1>9. Cardinality(H(0)) = 0
  <2>1. H(0) = {}
    OBVIOUS
  <2> HIDE DEF H
  <2> QED BY <2>1, FS_EmptySet
<1> HIDE DEF left, H, rest, count
<1>10. 0 \in T
  <2>1. 1..0 = {}
    OBVIOUS
  <2>2. SumFunctionOnSet(count, 1..0) = 0
    BY <2>1, SumEmpty
  <2> QED BY <1>2, <1>6, <1>9, <2>2
<1>11. ASSUME NEW k \in 1..n, k - 1 \in T
       PROVE  k \in T
  <2>1. /\ left[k-1].users \in Nat /\ left[k].users \in Nat
        /\ Cardinality(H(k-1)) \in Nat
    BY <1>1, <1>7
  <2>2. PICK e \in {0, 1} :
          /\ e = IF HasRoom(caps, left, k) /\ Cardinality(H(k-1)) < rest
                 THEN 1 ELSE 0
          /\ count[k] = left[k-1].users - left[k].users + e
    BY <1>4, <1>5
  <2>3. SumFunctionOnSet(count, 1..k) =
          count[k] + SumFunctionOnSet(count, 1..(k-1))
    <3>1. 1..k = (1..(k-1)) \cup {k} /\ k \notin 1..(k-1)
      OBVIOUS
    <3>2. \A j \in 1..n : count[j] \in Int
      <4> TAKE j \in 1..n
      <4>1. left[j-1].users \in Nat /\ left[j].users \in Nat
        BY <1>1
      <4>2. Extra(caps, n, left, j) \in {0, 1}
        BY <1>5
      <4> QED BY <1>4, <4>1, <4>2
    <3>3. (\A j \in 1..(k-1) : count[j] \in Int) /\ count[k] \in Int
      BY <3>2
    <3>4. IsFiniteSet(1..(k-1))
      BY FS_Interval
    <3> QED BY <3>1, <3>3, <3>4, SumAdd
  <2>4. SumFunctionOnSet(count, 1..(k-1)) =
          users - left[k-1].users + Least(Cardinality(H(k-1)), rest)
    BY <1>11
  <2>5. Least(Cardinality(H(k)), rest) = Least(Cardinality(H(k-1)), rest) + e
    BY <1>6, <1>8, <2>1, <2>2
  <2>6. Least(Cardinality(H(k-1)), rest) \in Nat
    BY <1>6, <2>1
  <2> HIDE DEF Least
  <2>7. SumFunctionOnSet(count, 1..k) =
          users - left[k].users + Least(Cardinality(H(k)), rest)
    <3>1. PICK a \in Nat, b \in Nat, l \in Nat :
            /\ a = left[k-1].users /\ b = left[k].users
            /\ l = Least(Cardinality(H(k-1)), rest)
      BY <2>1, <2>6
    <3>2. SumFunctionOnSet(count, 1..k) = (a - b + e) + (users - a + l)
      BY <2>2, <2>3, <2>4, <3>1
    <3>3. (a - b + e) + (users - a + l) = users - b + (l + e)
      OBVIOUS
    <3> QED BY <2>5, <3>1, <3>2, <3>3
  <2> QED BY <2>7
<1>12. n \in T
  <2> HIDE DEF T
  <2>1. \A k \in 1..n : k - 1 \in T => k \in T
    BY <1>11
  <2>2. 0..n \subseteq T
    BY <1>10, <2>1, UpTo
  <2> QED BY <2>2
<1>13. SumFunctionOnSet(count, 1..n) = users - rest + Least(Cardinality(H(n)), rest)
  BY <1>12 DEF rest
<1>14. Cardinality(H(n)) \in Nat
  BY <1>7
<1> QED BY <1>3, <1>6, <1>13, <1>14 DEF count

(* Among workers of the same capacity c, once one of them got q users in   *)
(* the first pass, the next gets q or q + 1, and the quotient stays where  *)
(* it cannot reach q + 2.                                                  *)
LEMMA SameQuotient ==
  ASSUME NEW u \in Nat, NEW C \in Nat, NEW c \in Nat, NEW q \in Nat, NEW p \in Nat,
         0 < c, c <= C, p <= u,
         q * C <= c * u, c * u < (q + 1) * C + c,
         p * C <= c * u, c * u < (p + 1) * C
  PROVE  /\ p \in {q, q + 1}
         /\ q * (C - c) <= c * (u - p)
         /\ c * (u - p) < (q + 1) * (C - c) + c
<1>1. PICK x \in Nat : x = c * u
  OBVIOUS
<1>2. q * C < (p + 1) * C
  BY <1>1
<1>3. q < p + 1
  BY <1>2, Times
<1>4. p * C < (q + 2) * C
  <2>1. (q + 1) * C + c <= (q + 2) * C
    <3>1. (q + 2) * C = (q + 1) * C + C
      OBVIOUS
    <3> QED BY <3>1
  <2>2. (q + 1) * C + c \in Nat /\ (q + 2) * C \in Nat /\ p * C \in Nat
    OBVIOUS
  <2>3. p * C <= x /\ x < (q + 1) * C + c
    BY <1>1
  <2> QED BY <2>1, <2>2, <2>3
<1>5. p < q + 2
  BY <1>4, Times
<1>6. p \in {q, q + 1}
  BY <1>3, <1>5
<1>7. PICK D \in Nat : D = C - c
  OBVIOUS
<1>8. C = D + c
  BY <1>7
<1>9. c * (u - p) = x - c * p /\ c * p \in Nat
  BY <1>1
<1>10. /\ q * C = q * D + c * q
       /\ (q + 1) * C = (q + 1) * D + c * q + c
       /\ c * (q + 1) = c * q + c
       /\ (q + 1) * D = q * D + D
       /\ q * D \in Nat /\ c * q \in Nat
  BY <1>8
<1>11. CASE p = q
  <2>1. q * D + c * q <= x /\ x < (q + 1) * D + c * q + c
    BY <1>1, <1>10, <1>11
  <2>2. c * (u - p) = x - c * q
    BY <1>9, <1>11
  <2>3. q * D <= x - c * q /\ x - c * q < (q + 1) * D + c
    BY <1>10, <2>1
  <2> QED BY <1>6, <1>7, <2>2, <2>3
<1>12. CASE p = q + 1
  <2>1. (q + 1) * D + c * q + c <= x /\ x < (q + 1) * D + c * q + c + c
    BY <1>1, <1>10, <1>12
  <2>2. c * (u - p) = x - (c * q + c)
    BY <1>9, <1>10, <1>12
  <2>3. /\ q * D <= x - (c * q + c)
        /\ x - (c * q + c) < (q + 1) * D + c
    BY <1>10, <2>1
  <2> QED BY <1>6, <1>7, <2>2, <2>3
<1> QED BY <1>6, <1>11, <1>12

(* The first pass gives workers of the same capacity shares one apart.     *)
LEMMA SharesOneApart ==
  ASSUME NEW n \in Nat, NEW caps \in [1..n -> Nat \ {0}], Descending(caps, n),
         NEW users \in Nat, users <= CapacitySums(caps, n)[n],
         NEW i \in 1..n, NEW j \in 1..n, i < j, caps[i] = caps[j]
  PROVE  LET left == FirstPass(caps, n, users)
         IN  Share(left, j) \in {Share(left, i), Share(left, i) + 1}
<1> DEFINE left == FirstPass(caps, n, users)
           c == caps[i]
           q == Share(left, i)
           Near(k) == /\ q * left[k-1].capacity <= c * left[k-1].users
                      /\ c * left[k-1].users < (q + 1) * left[k-1].capacity + c
           T == {d \in 0..(j-i) : Near(i + d)}
<1>1. \A k \in 1..n : Divides(caps, left, k)
  BY FirstPassShares
<1> HIDE DEF left
<1>2. c \in Nat /\ 0 < c /\ q \in Nat
  BY <1>1 DEF Divides
<1>3. \A k \in 1..n : i <= k /\ k <= j => caps[k] = c
  <2> TAKE k \in 1..n
  <2> HAVE i <= k /\ k <= j
  <2>1. (i < k => caps[k] <= caps[i]) /\ (k < j => caps[j] <= caps[k])
    BY DEF Descending
  <2>2. caps[i] \in Nat /\ caps[j] \in Nat /\ caps[k] \in Nat
    OBVIOUS
  <2> QED BY <2>1, <2>2
<1> HIDE DEF c, q
<1>4. 0 \in T
  <2>1. Divides(caps, left, i)
    BY <1>1
  <2>2. PICK u \in Nat, C \in Nat : u = left[i-1].users /\ C = left[i-1].capacity
    BY <2>1 DEF Divides
  <2>3. q * C <= c * u /\ c * u < (q + 1) * C
    BY <2>1, <2>2 DEF Divides, q, c
  <2>4. c * u < (q + 1) * C + c
    <3>1. c * u \in Nat /\ (q + 1) * C \in Nat
      BY <1>2
    <3> QED BY <1>2, <2>3, <3>1
  <2>5. i + 0 = i /\ 0 \in 0..(j - i)
    OBVIOUS
  <2>6. Near(i)
    BY <2>2, <2>3, <2>4
  <2> HIDE DEF Near
  <2> QED BY <2>5, <2>6
<1>5. ASSUME NEW k \in i..j, Near(k)
      PROVE  Share(left, k) \in {q, q + 1} /\ (k < j => Near(k + 1))
  <2>1. k \in 1..n /\ caps[k] = c
    BY <1>3
  <2>2. Divides(caps, left, k)
    BY <1>1, <2>1
  <2>3. PICK u \in Nat, C \in Nat, p \in Nat :
          /\ u = left[k-1].users /\ C = left[k-1].capacity
          /\ p = Share(left, k)
    BY <2>2 DEF Divides
  <2>4. /\ c <= C /\ p * C <= c * u /\ c * u < (p + 1) * C
        /\ left[k].users = u - p /\ left[k].users \in Nat
        /\ left[k].capacity = IF p > 0 THEN C - c ELSE C
    BY <2>1, <2>2, <2>3 DEF Divides
  <2>5. q * C <= c * u /\ c * u < (q + 1) * C + c
    BY <1>5, <2>3
  <2>6. p <= u
    BY <2>4
  <2>7. /\ p \in {q, q + 1}
        /\ q * (C - c) <= c * (u - p)
        /\ c * (u - p) < (q + 1) * (C - c) + c
    BY <1>2, <2>4, <2>5, <2>6, SameQuotient
  <2>8. k + 1 - 1 = k
    OBVIOUS
  <2>9. CASE p > 0
    <3>1. left[k].capacity = C - c /\ left[k].users = u - p
      BY <2>4, <2>9
    <3>2. Near(k + 1)
      BY <2>7, <2>8, <3>1
    <3> QED BY <2>3, <2>7, <3>2
  <2>10. CASE p = 0
    <3>1. left[k].capacity = C /\ left[k].users = u
      BY <2>4, <2>10
    <3>2. Near(k + 1)
      BY <2>5, <2>8, <3>1
    <3> QED BY <2>3, <2>7, <3>2
  <2> QED BY <2>9, <2>10
<1>6. ASSUME NEW d \in 1..(j-i), d - 1 \in T
      PROVE  d \in T
  <2>1. PICK k \in i..j : k = i + (d - 1) /\ k < j /\ k + 1 = i + d
    OBVIOUS
  <2>2. Near(i + (d - 1))
    BY <1>6
  <2> HIDE DEF Near
  <2>3. Near(k + 1)
    BY <1>5, <2>1, <2>2
  <2> QED BY <2>1, <2>3
<1>7. j - i \in T
  <2>1. j - i \in Nat
    OBVIOUS
  <2> HIDE DEF T
  <2>2. \A d \in 1..(j-i) : d - 1 \in T => d \in T
    BY <1>6
  <2>3. 0..(j-i) \subseteq T
    BY <1>4, <2>1, <2>2, UpTo
  <2> QED BY <2>1, <2>3
<1>8. i + (j - i) = j /\ j \in i..j
  OBVIOUS
<1> HIDE DEF Near
<1>9. Near(j)
  BY <1>7, <1>8
<1> QED BY <1>5, <1>8, <1>9 DEF q, left

(* The second pass serves the earlier of two workers first, so that both   *)
(* passes together leave workers of the same capacity one user apart.      *)
LEMMA CountsOneApart ==
  ASSUME NEW n \in Nat, NEW caps \in [1..n -> Nat \ {0}], Descending(caps, n),
         NEW users \in Nat, users <= CapacitySums(caps, n)[n],
         NEW i \in 1..n, NEW j \in 1..n, i < j, caps[i] = caps[j]
  PROVE  Count(caps, n, users, j) - Count(caps, n, users, i) \in -1..1
<1> DEFINE left == FirstPass(caps, n, users)
           H(k) == {m \in 1..(k-1) : HasRoom(caps, left, m)}
           e(k) == Extra(caps, n, left, k)
<1>1. Share(left, j) \in {Share(left, i), Share(left, i) + 1}
  BY SharesOneApart
<1>2. Share(left, i) \in Nat
  BY FirstPassShares DEF Divides
<1>3. /\ e(i) \in {0, 1} /\ e(j) \in {0, 1}
      /\ e(i) = 1 <=> HasRoom(caps, left, i) /\ Cardinality(H(i)) < left[n].users
      /\ e(j) = 1 <=> HasRoom(caps, left, j) /\ Cardinality(H(j)) < left[n].users
  BY DEF Extra
<1>4. left[n].users \in Nat
  <2>1. n \in 0..n
    OBVIOUS
  <2> QED BY <2>1, FirstPassInvariant
<1>5. Count(caps, n, users, i) = Share(left, i) + e(i)
      /\ Count(caps, n, users, j) = Share(left, j) + e(j)
  BY DEF Count
<1>6. /\ Cardinality(H(i)) \in Nat /\ Cardinality(H(j)) \in Nat
      /\ Cardinality(H(i)) <= Cardinality(H(j))
  <2>1. IsFiniteSet(1..(j-1))
    BY FS_Interval
  <2>2. H(j) \subseteq 1..(j-1) /\ H(i) \subseteq H(j)
    OBVIOUS
  <2> HIDE DEF H
  <2> QED BY <2>1, <2>2, FS_Subset, FS_CardinalityType
<1>7. HasRoom(caps, left, j) => HasRoom(caps, left, i)
  BY <1>1, <1>2 DEF HasRoom
<1> HIDE DEF left, H, e
<1>8. e(j) = 1 => e(i) = 1
  BY <1>3, <1>4, <1>6, <1>7
<1> QED BY <1>1, <1>2, <1>3, <1>5, <1>8

(* The list AllocateWorkers works on, for one outcome of its sort: every   *)
(* worker once, with the capacities from the largest down.                 *)
Lists(order, caps, n, S, capacity) ==
  /\ n \in Nat
  /\ order \in [1..n -> S]
  /\ \A i, j \in 1..n : order[i] = order[j] => i = j
  /\ S = {order[k] : k \in 1..n}
  /\ caps \in [1..n -> Nat \ {0}]
  /\ \A k \in 1..n : caps[k] = capacity[order[k]]
  /\ Descending(caps, n)

LEMMA OrderLists ==
  ASSUME NEW S, IsFiniteSet(S),
         NEW capacity, \A w \in S : capacity[w] \in Nat \ {0},
         NEW order \in Orders(S, capacity)
  PROVE  LET n == Cardinality(S)
         IN  Lists(order, [k \in 1..n |-> capacity[order[k]]], n, S, capacity)
<1>1. Cardinality(S) \in Nat
  BY FS_CardinalityType
<1>2. PICK n \in Nat : n = Cardinality(S)
  BY <1>1
<1>3. /\ order \in [1..n -> S]
      /\ \A i, j \in 1..n : order[i] = order[j] => i = j
      /\ \A w \in S : \E k \in 1..n : order[k] = w
      /\ \A i, j \in 1..n : i < j => capacity[order[i]] >= capacity[order[j]]
  BY <1>2 DEF Orders, Bijection, Injection, Surjection, IsInjective
<1>4. S = {order[k] : k \in 1..n}
  BY <1>3
<1>5. PICK caps : caps = [k \in 1..n |-> capacity[order[k]]]
  OBVIOUS
<1>6. caps \in [1..n -> Nat \ {0}] /\ \A k \in 1..n : caps[k] = capacity[order[k]]
  BY <1>3, <1>5
<1>7. Descending(caps, n)
  BY <1>3, <1>6 DEF Descending
<1>8. Lists(order, caps, n, S, capacity)
  BY <1>3, <1>4, <1>6, <1>7 DEF Lists
<1> QED BY <1>2, <1>5, <1>8

(* What a worker has in an allocation.                                     *)
Given(allocation, w) == IF w \in DOMAIN allocation THEN allocation[w] ELSE 0

(* The total capacity of the list is that of the workers in it.            *)
LEMMA TotalCapacity ==
  ASSUME NEW S, NEW capacity, NEW order, NEW caps, NEW n \in Nat,
         Lists(order, caps, n, S, capacity)
  PROVE  CapacitySums(caps, n)[n] = SumFunctionOnSet(capacity, S)
<1> DEFINE sum == CapacitySums(caps, n)
           T == {k \in 0..n : SumFunctionOnSet(caps, 1..k) = sum[k]}
<1>1. /\ order \in [1..n -> S]
      /\ \A i, j \in 1..n : order[i] = order[j] => i = j
      /\ S = {order[k] : k \in 1..n}
      /\ caps \in [1..n -> Nat]
      /\ \A k \in 1..n : caps[k] = capacity[order[k]]
  BY DEF Lists
<1>3. /\ sum[0] = 0
      /\ \A k \in 1..n : sum[k] = sum[k-1] + caps[k]
      /\ \A k \in 0..n : sum[k] \in Nat
  BY <1>1, SumsGrow
<1> HIDE DEF sum
<1>4. 0 \in T
  <2>1. 1..0 = {}
    OBVIOUS
  <2> QED BY <1>3, <2>1, SumEmpty
<1>5. ASSUME NEW k \in 1..n, k - 1 \in T
      PROVE  k \in T
  <2>1. 1..k = (1..(k-1)) \cup {k} /\ k \notin 1..(k-1)
    OBVIOUS
  <2>2. (\A j \in 1..(k-1) : caps[j] \in Int) /\ caps[k] \in Int
    BY <1>1
  <2>3. IsFiniteSet(1..(k-1))
    BY FS_Interval
  <2>4. SumFunctionOnSet(caps, 1..k) = caps[k] + SumFunctionOnSet(caps, 1..(k-1))
    BY <2>1, <2>2, <2>3, SumAdd
  <2>5. /\ sum[k] = sum[k-1] + caps[k] /\ sum[k-1] \in Nat
        /\ SumFunctionOnSet(caps, 1..(k-1)) = sum[k-1]
    BY <1>3, <1>5
  <2>6. SumFunctionOnSet(caps, 1..k) = sum[k]
    BY <2>2, <2>4, <2>5
  <2> QED BY <2>6
<1>6. SumFunctionOnSet(caps, 1..n) = sum[n]
  <2> HIDE DEF T
  <2>1. \A k \in 1..n : k - 1 \in T => k \in T
    BY <1>5
  <2>2. 0..n \subseteq T
    BY <1>4, <2>1, UpTo
  <2>3. n \in T
    BY <2>2
  <2> QED BY <2>3 DEF T
<1>7. SumFunctionOnSet(capacity, S) = SumFunctionOnSet(caps, 1..n)
  <2>1. IsFiniteSet(1..n)
    BY FS_Interval
  <2>2. \A k \in 1..n : caps[k] \in Int /\ capacity[order[k]] = caps[k]
    BY <1>1
  <2>3. Renames(order, caps, 1..n, capacity, S)
    BY <1>1, <2>2 DEF Renames
  <2> HIDE DEF T
  <2> QED BY <2>1, <2>3, SumRenamed
<1> QED BY <1>6, <1>7 DEF sum

(* An allocation gives the worker at each position of the list its count,  *)
(* and nothing to anybody else.                                            *)
Gives(allocation, order, count, n) ==
  /\ DOMAIN allocation = {order[k] : k \in {j \in 1..n : count[j] > 0}}
  /\ \A k \in 1..n : count[k] > 0 => allocation[order[k]] = count[k]
  /\ \A k \in 1..n : Given(allocation, order[k]) = count[k]

LEMMA AllocationIsCount ==
  ASSUME NEW S, NEW n \in Nat, NEW order \in [1..n -> S],
         \A i, j \in 1..n : order[i] = order[j] => i = j,
         NEW capacity, NEW users,
         NEW count, count = [k \in 1..n |->
           Count([i \in 1..n |-> capacity[order[i]]], n, users, k)],
         \A k \in 1..n : count[k] \in Nat
  PROVE  Gives(Allocation(order, capacity, n, users), order, count, n)
<1> DEFINE place(w) == CHOOSE k \in 1..n : order[k] = w
           given == {order[k] : k \in {j \in 1..n : count[j] > 0}}
           allocation == Allocation(order, capacity, n, users)
<1>1. allocation = [w \in given |-> count[place(w)]]
  BY DEF Allocation
<1>2. ASSUME NEW k \in 1..n
      PROVE  place(order[k]) = k
  <2>1. place(order[k]) \in 1..n /\ order[place(order[k])] = order[k]
    OBVIOUS
  <2> HIDE DEF place
  <2> QED BY <2>1
<1>3. \A k \in 1..n : order[k] \in given <=> count[k] > 0
  OBVIOUS
<1> HIDE DEF place, allocation
<1>4. DOMAIN allocation = given
  BY <1>1
<1>5. \A k \in 1..n : count[k] > 0 => allocation[order[k]] = count[k]
  BY <1>1, <1>2, <1>3
<1>6. ASSUME NEW k \in 1..n
      PROVE  Given(allocation, order[k]) = count[k]
  <2> HIDE DEF given
  <2>1. CASE count[k] > 0
    BY <1>3, <1>4, <1>5, <2>1 DEF Given
  <2>2. CASE count[k] = 0
    BY <1>3, <1>4, <2>2 DEF Given
  <2> QED BY <2>1, <2>2
<1> QED BY <1>4, <1>5, <1>6 DEF allocation, Gives

(* What is known of every allocation AllocateWorkers returns: it gives     *)
(* each worker of some sorted list its count.                              *)
LEMMA AllocationGives ==
  ASSUME NEW S, IsFiniteSet(S),
         NEW capacity, \A w \in S : capacity[w] \in Nat \ {0},
         NEW users \in Nat,
         NEW allocation \in AllocateWorkers(S, capacity, users)
  PROVE  \E n, order, caps, count :
           /\ n \in Nat \ {0}
           /\ Lists(order, caps, n, S, capacity)
           /\ users <= CapacitySums(caps, n)[n]
           /\ count = [k \in 1..n |-> Count(caps, n, users, k)]
           /\ count \in [1..n -> Nat]
           /\ Gives(allocation, order, count, n)
<1>1. PICK n \in Nat : n = Cardinality(S)
  BY FS_CardinalityType
<1>2. PICK order \in Orders(S, capacity) :
        /\ n > 0
        /\ CapacitySums([k \in 1..n |-> capacity[order[k]]], n)[n] >= users
        /\ allocation = Allocation(order, capacity, n, users)
  BY <1>1 DEF AllocateWorkers
<1>3. PICK caps : caps = [k \in 1..n |-> capacity[order[k]]]
  OBVIOUS
<1>4. Lists(order, caps, n, S, capacity)
  BY <1>1, <1>3, OrderLists
<1>5. /\ caps \in [1..n -> Nat \ {0}] /\ caps \in [1..n -> Nat]
      /\ order \in [1..n -> S]
      /\ \A i, j \in 1..n : order[i] = order[j] => i = j
  BY <1>4 DEF Lists
<1>6. users <= CapacitySums(caps, n)[n]
  <2>1. CapacitySums(caps, n)[n] \in Nat
    BY <1>5, SumsGrow
  <2> QED BY <1>2, <1>3, <2>1
<1>7. PICK count : count = [k \in 1..n |-> Count(caps, n, users, k)]
  OBVIOUS
<1>8. \A k \in 1..n : count[k] \in Nat
  <2> TAKE k \in 1..n
  <2>1. Count(caps, n, users, k) \in 0..caps[k] /\ caps[k] \in Nat
    BY <1>5, <1>6, CountBounds
  <2> QED BY <1>7, <2>1
<1>9. count \in [1..n -> Nat]
  BY <1>7, <1>8
<1>10. Gives(allocation, order, count, n)
  <2>1. count = [k \in 1..n |->
                   Count([i \in 1..n |-> capacity[order[i]]], n, users, k)]
    BY <1>3, <1>7
  <2> QED BY <1>2, <1>5, <1>8, <2>1, AllocationIsCount
<1> QED BY <1>2, <1>4, <1>6, <1>7, <1>9, <1>10

(* What AllocateWorkers promises to the orchestrator, for any workers and  *)
(* any number of users: entries for available workers only, each of a      *)
(* positive number of users that is at most the worker's capacity.         *)
THEOREM AllocationContract ==
  ASSUME NEW S, IsFiniteSet(S),
         NEW capacity, \A w \in S : capacity[w] \in Nat \ {0},
         NEW users \in Nat,
         NEW allocation \in AllocateWorkers(S, capacity, users)
  PROVE  /\ DOMAIN allocation \subseteq S
         /\ \A w \in DOMAIN allocation : allocation[w] \in 1..capacity[w]
<1>1. PICK n, order, caps, count :
        /\ n \in Nat
        /\ Lists(order, caps, n, S, capacity)
        /\ users <= CapacitySums(caps, n)[n]
        /\ count = [k \in 1..n |-> Count(caps, n, users, k)]
        /\ Gives(allocation, order, count, n)
  BY AllocationGives
<1>2. /\ caps \in [1..n -> Nat \ {0}] /\ order \in [1..n -> S]
      /\ \A k \in 1..n : caps[k] = capacity[order[k]]
  BY <1>1 DEF Lists
<1>3. \A k \in 1..n : count[k] \in 0..caps[k]
  <2> TAKE k \in 1..n
  <2>1. Count(caps, n, users, k) \in 0..caps[k]
    BY <1>1, <1>2, CountBounds
  <2> QED BY <1>1, <2>1
<1>4. ASSUME NEW w \in DOMAIN allocation
      PROVE  w \in S /\ allocation[w] \in 1..capacity[w]
  <2>1. PICK k \in 1..n : w = order[k] /\ count[k] > 0
    BY <1>1 DEF Gives
  <2>2. allocation[w] = count[k]
    BY <1>1, <2>1 DEF Gives
  <2>3. count[k] \in 0..capacity[w] /\ capacity[w] \in Nat /\ w \in S
    BY <1>2, <1>3, <2>1
  <2>4. count[k] \in 1..capacity[w]
    BY <2>1, <2>3
  <2> QED BY <2>2, <2>3, <2>4
<1> QED BY <1>4

(* An allocation places every user of the test: the second pass always     *)
(* finds room for what the roundings of the first leave over, so that the  *)
(* code may ignore remainingUsers after it.                                *)
THEOREM AllocationServesAll ==
  ASSUME NEW S, IsFiniteSet(S),
         NEW capacity, \A w \in S : capacity[w] \in Nat \ {0},
         NEW users \in Nat,
         NEW allocation \in AllocateWorkers(S, capacity, users)
  PROVE  SumFunction(allocation) = users
<1>1. PICK n, order, caps, count :
        /\ n \in Nat
        /\ Lists(order, caps, n, S, capacity)
        /\ users <= CapacitySums(caps, n)[n]
        /\ count = [k \in 1..n |-> Count(caps, n, users, k)]
        /\ count \in [1..n -> Nat]
        /\ Gives(allocation, order, count, n)
  BY AllocationGives
<1>2. /\ caps \in [1..n -> Nat \ {0}] /\ order \in [1..n -> S]
      /\ \A i, j \in 1..n : order[i] = order[j] => i = j
      /\ Descending(caps, n)
  BY <1>1 DEF Lists
<1>3. SumFunctionOnSet(count, 1..n) = users
  BY <1>1, <1>2, AllPlaced
<1> DEFINE P == {j \in 1..n : count[j] > 0}
<1>4. SumFunctionOnSet(count, 1..n) = SumFunctionOnSet(count, P)
  <2>1. IsFiniteSet(1..n)
    BY <1>1, FS_Interval
  <2>2. /\ P \in SUBSET (1..n)
        /\ \A x \in 1..n : count[x] \in Int
        /\ \A x \in (1..n) \ P : count[x] = 0
    BY <1>1
  <2> HIDE DEF P
  <2> QED BY <2>1, <2>2, SumZeros
<1>5. Renames(order, count, P, allocation, DOMAIN allocation)
  <2>1. /\ DOMAIN allocation = {order[k] : k \in P}
        /\ \A k \in P : allocation[order[k]] = count[k] /\ count[k] \in Int
    BY <1>1 DEF Gives
  <2>2. P \subseteq 1..n
    OBVIOUS
  <2> HIDE DEF P
  <2> QED BY <1>2, <2>1, <2>2 DEF Renames
<1>6. IsFiniteSet(P)
  <2>1. IsFiniteSet(1..n) /\ P \subseteq 1..n
    BY <1>1, FS_Interval
  <2> HIDE DEF P
  <2> QED BY <2>1, FS_Subset
<1> HIDE DEF P
<1>7. SumFunctionOnSet(allocation, DOMAIN allocation) = SumFunctionOnSet(count, P)
  BY <1>5, <1>6, SumRenamed
<1> QED BY <1>3, <1>4, <1>7 DEF SumFunction

(* "distribute users proportionally to capacity", as far as it holds for   *)
(* any number of workers: no worker ends a whole user below its exact      *)
(* share, users * capacity / total.                                        *)
THEOREM AllocationProportional ==
  ASSUME NEW S, IsFiniteSet(S),
         NEW capacity, \A w \in S : capacity[w] \in Nat \ {0},
         NEW users \in Nat,
         NEW allocation \in AllocateWorkers(S, capacity, users),
         NEW w \in S
  PROVE  users * capacity[w]
           < (Given(allocation, w) + 1) * SumFunctionOnSet(capacity, S)
<1>1. PICK n, order, caps, count :
        /\ n \in Nat
        /\ Lists(order, caps, n, S, capacity)
        /\ users <= CapacitySums(caps, n)[n]
        /\ count = [k \in 1..n |-> Count(caps, n, users, k)]
        /\ Gives(allocation, order, count, n)
  BY AllocationGives
<1>2. /\ caps \in [1..n -> Nat \ {0}]
      /\ S = {order[k] : k \in 1..n}
      /\ \A k \in 1..n : caps[k] = capacity[order[k]]
  BY <1>1 DEF Lists
<1>3. PICK k \in 1..n : w = order[k]
  BY <1>2
<1>4. users * caps[k] < (Count(caps, n, users, k) + 1) * CapacitySums(caps, n)[n]
  BY <1>1, <1>2, CountIsFair
<1>5. CapacitySums(caps, n)[n] = SumFunctionOnSet(capacity, S)
  BY <1>1, TotalCapacity
<1>6. Given(allocation, w) = Count(caps, n, users, k) /\ capacity[w] = caps[k]
  BY <1>1, <1>2, <1>3 DEF Gives
<1> QED BY <1>4, <1>5, <1>6

(* Workers of the same capacity end within one user of each other, in      *)
(* whatever order the unstable sort puts them.                             *)
THEOREM AllocationFair ==
  ASSUME NEW S, IsFiniteSet(S),
         NEW capacity, \A w \in S : capacity[w] \in Nat \ {0},
         NEW users \in Nat,
         NEW allocation \in AllocateWorkers(S, capacity, users),
         NEW v \in S, NEW w \in S, capacity[v] = capacity[w]
  PROVE  Given(allocation, v) - Given(allocation, w) \in -1..1
<1>1. PICK n, order, caps, count :
        /\ n \in Nat
        /\ Lists(order, caps, n, S, capacity)
        /\ users <= CapacitySums(caps, n)[n]
        /\ count = [k \in 1..n |-> Count(caps, n, users, k)]
        /\ count \in [1..n -> Nat]
        /\ Gives(allocation, order, count, n)
  BY AllocationGives
<1>2. /\ caps \in [1..n -> Nat \ {0}] /\ Descending(caps, n)
      /\ S = {order[k] : k \in 1..n}
      /\ \A k \in 1..n : caps[k] = capacity[order[k]]
  BY <1>1 DEF Lists
<1>3. PICK i \in 1..n, j \in 1..n : v = order[i] /\ w = order[j]
  BY <1>2
<1>4. /\ Given(allocation, v) = count[i] /\ Given(allocation, w) = count[j]
      /\ count[i] \in Nat /\ count[j] \in Nat
      /\ caps[i] = caps[j]
  BY <1>1, <1>2, <1>3 DEF Gives
<1>5. i < j => count[j] - count[i] \in -1..1
  BY <1>1, <1>2, <1>4, CountsOneApart
<1>6. j < i => count[i] - count[j] \in -1..1
  BY <1>1, <1>2, <1>4, CountsOneApart
<1> QED BY <1>4, <1>5, <1>6

(* The sort has an outcome: every finite set of workers can be listed with *)
(* the largest capacities first.                                           *)
LEMMA OrderExists ==
  ASSUME NEW S, IsFiniteSet(S),
         NEW capacity, \A w \in S : capacity[w] \in Nat
  PROVE  Orders(S, capacity) # {}
<1> DEFINE T == {s \in SUBSET S : Orders(s, capacity) # {}}
<1>1. ASSUME NEW s \in SUBSET S, \A x \in s : s \ {x} \in T
      PROVE  Orders(s, capacity) # {}
  <2>1. PICK n \in Nat : n = Cardinality(s)
    BY FS_Subset, FS_CardinalityType
  <2>2. CASE s = {}
    <3>1. n = 0 /\ 1..0 = {}
      BY <2>1, <2>2, FS_EmptySet
    <3> DEFINE order == [k \in 1..0 |-> k]
    <3>2. order \in Orders(s, capacity)
      BY <2>1, <2>2, <3>1 DEF Orders, Bijection, Injection, Surjection, IsInjective
    <3> QED BY <3>2
  <2>3. CASE s # {}
    <3>1. {capacity[x] : x \in s} \in SUBSET Nat /\ {capacity[x] : x \in s} # {}
      BY <2>3
    <3>2. PICK x \in s : \A y \in s : capacity[x] <= capacity[y]
      <4>1. PICK A \in SUBSET Nat : A = {capacity[x] : x \in s}
        BY <3>1
      <4>2. PICK c \in A : \A d \in A : c <= d
        BY <3>1, <4>1, LeastNat
      <4> QED BY <4>1, <4>2
    <3>3. n > 0 /\ Cardinality(s \ {x}) = n - 1
      BY <2>1, FS_Subset, FS_RemoveElement, FS_EmptySet, <2>3
    <3>4. PICK before \in Orders(s \ {x}, capacity) : TRUE
      BY <1>1, <3>2
    <3>5. /\ before \in [1..(n-1) -> s \ {x}]
          /\ \A i, j \in 1..(n-1) : before[i] = before[j] => i = j
          /\ \A w \in s \ {x} : \E k \in 1..(n-1) : before[k] = w
          /\ \A i, j \in 1..(n-1) :
               i < j => capacity[before[i]] >= capacity[before[j]]
      BY <3>3 DEF Orders, Bijection, Injection, Surjection, IsInjective
    <3> DEFINE order == [k \in 1..n |-> IF k = n THEN x ELSE before[k]]
    <3>6. /\ order \in [1..n -> s]
          /\ \A k \in 1..(n-1) : k \in 1..n /\ order[k] = before[k]
          /\ order[n] = x /\ n \in 1..n
          /\ \A k \in 1..n : k = n \/ k \in 1..(n-1)
      BY <3>2, <3>3, <3>5
    <3> HIDE DEF order
    <3>7. \A i, j \in 1..n : order[i] = order[j] => i = j
      BY <3>5, <3>6
    <3>8. \A w \in s : \E k \in 1..n : order[k] = w
      BY <3>5, <3>6
    <3>9. \A i, j \in 1..n : i < j => capacity[order[i]] >= capacity[order[j]]
      <4> TAKE i, j \in 1..n
      <4> HAVE i < j
      <4>1. i \in 1..(n-1) /\ i # n
        OBVIOUS
      <4>2. CASE j = n
        <5>1. order[j] = x /\ order[i] \in s
          BY <3>6, <4>2
        <5>2. capacity[x] <= capacity[order[i]]
          BY <3>2, <5>1
        <5>3. capacity[x] \in Nat /\ capacity[order[i]] \in Nat
          BY <5>1
        <5> QED BY <5>1, <5>2, <5>3
      <4>3. CASE j # n
        BY <3>5, <3>6, <4>1, <4>3
      <4> QED BY <4>2, <4>3
    <3>10. order \in Orders(s, capacity)
      BY <2>1, <3>6, <3>7, <3>8, <3>9
         DEF Orders, Bijection, Injection, Surjection, IsInjective
    <3> QED BY <3>10
  <2> QED BY <2>2, <2>3
<1>2. \A s \in SUBSET S : (\A x \in s : s \ {x} \in T) => s \in T
  BY <1>1
<1> HIDE DEF T
<1>3. SUBSET S \subseteq T
  BY <1>2, Subsets
<1> QED BY <1>3 DEF T

(* AllocateWorkers returns an error only when there is no worker or the    *)
(* workers together are too small for the test.                            *)
THEOREM AllocationExists ==
  ASSUME NEW S, IsFiniteSet(S), S # {},
         NEW capacity, \A w \in S : capacity[w] \in Nat \ {0},
         NEW users \in Nat, users <= SumFunctionOnSet(capacity, S)
  PROVE  AllocateWorkers(S, capacity, users) # {}
<1>1. PICK order \in Orders(S, capacity) : TRUE
  BY OrderExists
<1>2. PICK n \in Nat : n = Cardinality(S) /\ n > 0
  BY FS_CardinalityType, FS_EmptySet
<1>3. PICK caps : caps = [k \in 1..n |-> capacity[order[k]]]
  OBVIOUS
<1>4. Lists(order, caps, n, S, capacity)
  BY <1>2, <1>3, OrderLists
<1>5. CapacitySums(caps, n)[n] = SumFunctionOnSet(capacity, S)
  BY <1>4, TotalCapacity
<1>6. SumFunctionOnSet(capacity, S) \in Nat
  BY SumNat
<1>7. CapacitySums([k \in 1..n |-> capacity[order[k]]], n)[n] >= users
  BY <1>3, <1>5, <1>6
<1>8. Allocation(order, capacity, n, users) \in AllocateWorkers(S, capacity, users)
  BY <1>2, <1>7 DEF AllocateWorkers
<1> QED BY <1>8
=============================================================================
