-------------------------- MODULE AlgorithmProofs --------------------------
(***************************************************************************)
(* The properties of MCAlgorithms, for any workers, capacities and numbers *)
(* of users and any number of any values: those of AllocateWorkers from    *)
(* the theorems of AllocationProofs, then those of the statistics.         *)
(*                                                                         *)
(* The exchange sort orders the values, and what sort.Float64s promises of *)
(* an order leaves no other (SortedIsSorted).  A percentile of ordered     *)
(* values is between those at two neighbouring positions (Between), which  *)
(* gives each of the three properties.                                     *)
(***************************************************************************)
EXTENDS MCAlgorithms, AllocationProofs

(* What stays true of the one call: the inputs, and where its result came  *)
(* from.                                                                   *)
Called ==
  /\ available \in SUBSET Workers
  /\ capacity \in [Workers -> 1..MaxCapacity]
  /\ users \in Nat
  /\ outcome = "error" => AllocateWorkers(available, capacity, users) = {}
  /\ Allocated => allocation \in AllocateWorkers(available, capacity, users)

LEMMA CalledInvariant == AlgorithmsSpec => []Called
<1>1. AlgorithmsInit => Called
  <2>1. Cardinality(Workers) * MaxCapacity \in Nat
    <3>1. Cardinality(Workers) \in Nat /\ MaxCapacity \in Nat
      BY InputsAssumption, FS_CardinalityType
    <3> QED BY <3>1
  <2>2. ASSUME Init PROVE Called
    <3>1. users \in Nat
      BY <2>1, <2>2 DEF Init
    <3> QED BY <2>2, <3>1 DEF Init, Called, Allocated
  <2>3. ASSUME available = {}, capacity = [w \in Workers |-> 1], users = 1,
               outcome = "pending"
        PROVE  Called
    BY <2>3, InputsAssumption DEF Called, Allocated
  <2> QED BY <2>2, <2>3 DEF AlgorithmsInit
<1>2. Called /\ [AlgorithmsNext]_<<subject, vars, values>> => Called'
  <2> SUFFICES ASSUME Called, [AlgorithmsNext]_<<subject, vars, values>>
               PROVE  Called'
    OBVIOUS
  <2>1. CASE Call
    BY <2>1 DEF Call, Called, Allocated
  <2>2. CASE UNCHANGED vars
    BY <2>2 DEF vars, Called, Allocated
  <2> QED BY <2>1, <2>2 DEF AlgorithmsNext
<1> QED BY <1>1, <1>2, PTL DEF AlgorithmsSpec

(* The inputs are as the theorems of AllocationProofs want them.           *)
LEMMA CalledInputs ==
  ASSUME Called
  PROVE  /\ IsFiniteSet(available)
         /\ \A w \in available : capacity[w] \in Nat \ {0}
         /\ users \in Nat
  BY InputsAssumption, FS_Subset DEF Called

(* AllocateWorkers fails only when the available workers are too small for *)
(* the test, and otherwise places every user of it.                        *)
THEOREM PlacesAllUsers == AlgorithmsSpec => []AllServed
<1>1. Called => AllServed
  <2> SUFFICES ASSUME Called PROVE AllServed
    OBVIOUS
  <2>1. /\ IsFiniteSet(available)
        /\ \A w \in available : capacity[w] \in Nat \ {0}
        /\ users \in Nat
    BY CalledInputs
  <2>2. Allocated => SumFunction(allocation) = users
    BY <2>1, AllocationServesAll DEF Called
  <2>3. Total(available) \in Nat
    BY <2>1, SumNat DEF Total
  <2>4. outcome = "error" => available = {} \/ Total(available) < users
    BY <2>1, <2>3, AllocationExists DEF Called, Total
  <2> QED BY <2>2, <2>4 DEF AllServed
<1> QED BY <1>1, CalledInvariant, PTL

(* No available worker gets more than its capacity, nobody else anything.  *)
THEOREM KeepsToCapacity == AlgorithmsSpec => []WithinCapacity
<1>1. Called => WithinCapacity
  BY CalledInputs, AllocationContract DEF Called, WithinCapacity
<1> QED BY <1>1, CalledInvariant, PTL

(* No worker ends a whole user below its exact share.                      *)
THEOREM SharesAreProportional == AlgorithmsSpec => []Proportional
<1>1. Called => Proportional
  <2> SUFFICES ASSUME Called, Allocated, NEW w \in available
               PROVE  users * capacity[w] < (Got(w) + 1) * Total(available)
    BY DEF Proportional
  <2>1. users * capacity[w]
          < (Given(allocation, w) + 1) * SumFunctionOnSet(capacity, available)
    BY CalledInputs, AllocationProportional DEF Called
  <2> QED BY <2>1 DEF Got, Given, Total
<1> QED BY <1>1, CalledInvariant, PTL

(* Workers of the same capacity end within one user of each other.         *)
THEOREM EqualsAreOneApart == AlgorithmsSpec => []Fair
<1>1. Called => Fair
  <2> SUFFICES ASSUME Called, Allocated, NEW v \in available, NEW w \in available,
                      capacity[v] = capacity[w]
               PROVE  Got(v) - Got(w) \in -1..1
    BY DEF Fair
  <2>1. Given(allocation, v) - Given(allocation, w) \in -1..1
    BY CalledInputs, AllocationFair DEF Called
  <2> QED BY <2>1 DEF Got, Given
<1> QED BY <1>1, CalledInvariant, PTL
-----------------------------------------------------------------------------
(* e has the n values of s, those from position i on in another order.     *)
Permutes(p, n, i) ==
  /\ p \in [1..n -> 1..n]
  /\ \A j, k \in 1..n : p[j] = p[k] => j = k
  /\ \A k \in 1..n : \E j \in 1..n : p[j] = k
  /\ \A k \in 1..n : k < i => p[k] = k

Reordered(s, e, n, i) ==
  /\ s \in [1..n -> Int] /\ e \in [1..n -> Int]
  /\ \E p : Permutes(p, n, i) /\ \A k \in 1..n : e[k] = s[p[k]]

LEMMA ReorderedSame ==
  ASSUME NEW n \in Nat, NEW i \in Nat, NEW s \in [1..n -> Int]
  PROVE  Reordered(s, s, n, i)
<1> DEFINE p == [k \in 1..n |-> k]
<1>1. Permutes(p, n, i)
  BY DEF Permutes
<1>2. \A k \in 1..n : s[k] = s[p[k]]
  OBVIOUS
<1> HIDE DEF p
<1> QED BY <1>1, <1>2 DEF Reordered

LEMMA ReorderedTwice ==
  ASSUME NEW n \in Nat, NEW i \in Nat, NEW s, NEW e, NEW f,
         NEW j \in Nat, i <= j,
         Reordered(s, e, n, i), Reordered(e, f, n, j)
  PROVE  Reordered(s, f, n, i)
<1>1. PICK p : Permutes(p, n, i) /\ \A k \in 1..n : e[k] = s[p[k]]
  BY DEF Reordered
<1>2. PICK q : Permutes(q, n, j) /\ \A k \in 1..n : f[k] = e[q[k]]
  BY DEF Reordered
<1> DEFINE r == [k \in 1..n |-> p[q[k]]]
<1>3. Permutes(r, n, i)
  <2>1. r \in [1..n -> 1..n]
    BY <1>1, <1>2 DEF Permutes
  <2>2. ASSUME NEW x \in 1..n, NEW y \in 1..n, r[x] = r[y] PROVE x = y
    <3>1. q[x] \in 1..n /\ q[y] \in 1..n /\ p[q[x]] = p[q[y]]
      BY <1>2, <2>2 DEF Permutes
    <3>2. q[x] = q[y]
      BY <1>1, <3>1 DEF Permutes
    <3> QED BY <1>2, <3>2 DEF Permutes
  <2>3. ASSUME NEW k \in 1..n PROVE \E x \in 1..n : r[x] = k
    <3>1. PICK y \in 1..n : p[y] = k
      BY <1>1 DEF Permutes
    <3>2. PICK x \in 1..n : q[x] = y
      BY <1>2 DEF Permutes
    <3> QED BY <3>1, <3>2
  <2>4. \A k \in 1..n : k < i => r[k] = k
    BY <1>1, <1>2 DEF Permutes
  <2> HIDE DEF r
  <2> QED BY <2>1, <2>2, <2>3, <2>4 DEF Permutes
<1>4. \A k \in 1..n : f[k] = s[r[k]]
  BY <1>1, <1>2 DEF Permutes
<1> HIDE DEF r
<1> QED BY <1>3, <1>4 DEF Reordered

(* The values from position i on stay there.                               *)
LEMMA ReorderedTail ==
  ASSUME NEW n \in Nat, NEW i \in Nat, NEW s, NEW e, Reordered(s, e, n, i)
  PROVE  /\ \A k \in 1..n : k < i => e[k] = s[k]
         /\ \A k \in 1..n : k >= i => \E m \in 1..n : m >= i /\ e[k] = s[m]
<1>1. PICK p : Permutes(p, n, i) /\ \A k \in 1..n : e[k] = s[p[k]]
  BY DEF Reordered
<1>2. \A k \in 1..n : k < i => e[k] = s[k]
  BY <1>1 DEF Permutes
<1>3. ASSUME NEW k \in 1..n, k >= i
      PROVE  p[k] \in 1..n /\ p[k] >= i
  <2>1. p[k] \in 1..n
    BY <1>1 DEF Permutes
  <2>2. ASSUME p[k] < i PROVE FALSE
    <3>1. p[p[k]] = p[k]
      BY <1>1, <2>1, <2>2 DEF Permutes
    <3>2. p[k] = k
      BY <1>1, <2>1, <3>1 DEF Permutes
    <3> QED BY <1>3, <2>2, <3>2
  <2> QED BY <2>1, <2>2
<1> QED BY <1>1, <1>2, <1>3

LEMMA ExchangeReorders ==
  ASSUME NEW n \in Nat, NEW s \in [1..n -> Int],
         NEW i \in 1..n, NEW j \in 1..n, i < j
  PROVE  LET e == Exchange(s, i, j)
         IN  /\ Reordered(s, e, n, i)
             /\ e[i] <= s[i] /\ e[i] <= e[j]
             /\ \A k \in 1..n : k # i /\ k # j => e[k] = s[k]
<1> DEFINE e == Exchange(s, i, j)
<1>1. CASE s[i] > s[j]
  <2>1. e = [s EXCEPT ![i] = s[j], ![j] = s[i]]
    BY <1>1 DEF Exchange
  <2> HIDE DEF e
  <2>2. e \in [1..n -> Int]
    BY <2>1
  <2>3. /\ e[i] = s[j] /\ e[j] = s[i]
        /\ \A k \in 1..n : k # i /\ k # j => e[k] = s[k]
    BY <2>1
  <2> DEFINE p == [k \in 1..n |-> IF k = i THEN j ELSE IF k = j THEN i ELSE k]
  <2>4. Permutes(p, n, i)
    <3>1. \A k \in 1..n : p[p[k]] = k
      OBVIOUS
    <3>2. p \in [1..n -> 1..n] /\ \A k \in 1..n : k < i => p[k] = k
      OBVIOUS
    <3> HIDE DEF p
    <3>3. \A k \in 1..n : p[k] \in 1..n
      BY <3>2
    <3>4. \A x, y \in 1..n : p[x] = p[y] => x = y
      BY <3>1
    <3>5. \A k \in 1..n : \E x \in 1..n : p[x] = k
      BY <3>1, <3>3
    <3> QED BY <3>2, <3>4, <3>5 DEF Permutes
  <2>5. \A k \in 1..n : e[k] = s[p[k]]
    BY <2>3
  <2> HIDE DEF p
  <2>6. Reordered(s, e, n, i)
    BY <2>2, <2>4, <2>5 DEF Reordered
  <2>7. e[i] <= s[i] /\ e[i] <= e[j]
    BY <1>1, <2>3
  <2> QED BY <2>3, <2>6, <2>7 DEF e
<1>2. CASE ~ (s[i] > s[j])
  <2>1. e = s
    BY <1>2 DEF Exchange
  <2>2. s[i] <= s[j] /\ s[i] \in Int
    BY <1>2
  <2> HIDE DEF e
  <2> QED BY <2>1, <2>2, ReorderedSame DEF e
<1> QED BY <1>1, <1>2
-----------------------------------------------------------------------------
(* The inner loop: each place it has been at holds no less than place i.   *)
LEMMA LeastFirstSorts ==
  ASSUME NEW n \in Nat, NEW s \in [1..n -> Int], NEW i \in 1..n
  PROVE  LET e == LeastFirst(s, i)
         IN  Reordered(s, e, n, i) /\ \A k \in i..n : e[i] <= e[k]
<1> DEFINE X == [1..n -> Int]
           F == [t \in X \X ((i+1)..n) |-> Exchange(t[1], i, t[2])]
           Is(g) == g = [j \in i..n |-> IF j = i THEN s
                                       ELSE Exchange(g[j-1], i, j)]
           after == CHOOSE g : Is(g)
<1>1. \A t \in X, j \in (i+1)..n : Exchange(t, i, j) \in X
  <2> TAKE t \in X, j \in (i+1)..n
  <2>1. j \in 1..n /\ i < j
    OBVIOUS
  <2> QED BY <2>1, ExchangeReorders DEF Reordered
<1>2. \E g : Iterated(g, X, s, F, i, n)
  <2>1. F \in [X \X ((i+1)..n) -> X]
    <3> HIDE DEF X
    <3> QED BY <1>1
  <2>2. i \in 0..n /\ s \in X
    OBVIOUS
  <2> HIDE DEF F, X
  <2> QED BY <2>1, <2>2, Iterates
<1>3. PICK g : Iterated(g, X, s, F, i, n)
  BY <1>2
<1>4. ASSUME NEW j \in i..n
      PROVE  g[j] \in X /\ g[j] = IF j = i THEN s
                                  ELSE Exchange(g[j-1], i, j)
  <2>1. g[j] \in X /\ g[j] = IF j = i THEN s ELSE F[<<g[j-1], j>>]
    BY <1>3 DEF Iterated
  <2>2. j # i => /\ g[j-1] \in X /\ j \in (i+1)..n
                 /\ <<g[j-1], j>> \in X \X ((i+1)..n)
    <3>1. j # i => j - 1 \in i..n /\ j \in (i+1)..n
      OBVIOUS
    <3>2. j # i => g[j-1] \in X
      <4> HIDE DEF X, F
      <4> QED BY <1>3, <3>1 DEF Iterated
    <3> HIDE DEF X
    <3> QED BY <3>1, <3>2
  <2>3. j # i => F[<<g[j-1], j>>] = Exchange(g[j-1], i, j)
    <3> HIDE DEF X
    <3> QED BY <2>2
  <2> HIDE DEF F
  <2> QED BY <2>1, <2>3
<1>5. Is(g)
  <2>1. DOMAIN g = i..n /\ g = [j \in DOMAIN g |-> g[j]]
    <3> HIDE DEF X, F
    <3> QED BY <1>3 DEF Iterated
  <2> HIDE DEF X
  <2> QED BY <1>4, <2>1
<1>6. Is(after)
  <2> HIDE DEF Is
  <2> QED BY <1>5
<1>7. Len(s) = n
  BY LenProperties
<1>8. LeastFirst(s, i) = after[n]
  BY <1>7 DEF LeastFirst
<1> HIDE DEF after
<1>9. \A j \in i..n : after[j] = IF j = i THEN s
                                 ELSE Exchange(after[j-1], i, j)
  BY <1>6
<1> DEFINE T == {j \in i..n : /\ Reordered(s, after[j], n, i)
                              /\ \A k \in i..j : after[j][i] <= after[j][k]}
<1>10. i \in T
  <2>1. after[i] = s /\ i \in i..n
    BY <1>9
  <2>2. Reordered(s, after[i], n, i)
    BY <2>1, ReorderedSame
  <2>3. \A k \in i..i : after[i][i] <= after[i][k]
    BY <2>1
  <2> QED BY <2>1, <2>2, <2>3
<1>11. ASSUME NEW j \in (i+1)..n, j - 1 \in T
       PROVE  j \in T
  <2> DEFINE t == after[j-1]
             e == Exchange(t, i, j)
  <2>1. /\ j \in 1..n /\ i < j /\ j \in i..n /\ j # i
        /\ Reordered(s, t, n, i) /\ t \in [1..n -> Int]
        /\ \A k \in i..(j-1) : t[i] <= t[k]
    BY <1>11 DEF Reordered
  <2>2. after[j] = e
    BY <1>9, <2>1
  <2> HIDE DEF t
  <2>3. /\ Reordered(t, e, n, i) /\ e \in [1..n -> Int]
        /\ e[i] <= t[i] /\ e[i] <= e[j]
        /\ \A k \in 1..n : k # i /\ k # j => e[k] = t[k]
    <3>1. PICK tt : tt = t
      OBVIOUS
    <3>2. LET ee == Exchange(tt, i, j)
          IN  /\ Reordered(tt, ee, n, i)
              /\ ee[i] <= tt[i] /\ ee[i] <= ee[j]
              /\ \A k \in 1..n : k # i /\ k # j => ee[k] = tt[k]
      BY <2>1, <3>1, ExchangeReorders
    <3> QED BY <3>1, <3>2 DEF Reordered
  <2> HIDE DEF e
  <2>4. Reordered(s, e, n, i)
    BY <2>1, <2>3, ReorderedTwice
  <2>5. ASSUME NEW k \in i..j PROVE e[i] <= e[k]
    <3>1. CASE k = i \/ k = j
      BY <2>3, <3>1
    <3>2. CASE k # i /\ k # j
      <4>1. k \in 1..n /\ k \in i..(j-1)
        BY <2>1, <3>2
      <4>2. e[k] = t[k] /\ t[i] <= t[k]
        BY <2>1, <2>3, <3>2, <4>1
      <4>3. e[i] \in Int /\ t[i] \in Int /\ t[k] \in Int
        BY <2>1, <2>3, <4>1
      <4> QED BY <2>3, <4>2, <4>3
    <3> QED BY <3>1, <3>2
  <2> QED BY <2>1, <2>2, <2>4, <2>5
<1>12. n \in T
  <2>1. i \in 0..n /\ n \in i..n
    OBVIOUS
  <2> HIDE DEF T
  <2>2. i..n \subseteq T
    BY <1>10, <1>11, <2>1, FromTo
  <2> QED BY <2>1, <2>2
<1> QED BY <1>8, <1>12

Ascending(e, n) == \A j, k \in 1..n : j <= k => e[j] <= e[k]

(* A round of the outer loop puts one value more in its place.             *)
LEMMA OneMorePlace ==
  ASSUME NEW n \in Nat, NEW i \in 1..n, NEW t, NEW e, Reordered(t, e, n, i),
         \A j \in 1..(i-1) : \A k \in j..n : t[j] <= t[k],
         \A k \in i..n : e[i] <= e[k]
  PROVE  \A j \in 1..i : \A k \in j..n : e[j] <= e[k]
<1>1. /\ \A k \in 1..n : k < i => e[k] = t[k]
      /\ \A k \in 1..n : k >= i => \E m \in 1..n : m >= i /\ e[k] = t[m]
  BY ReorderedTail
<1>2. ASSUME NEW j \in 1..i, NEW k \in j..n PROVE e[j] <= e[k]
  <2>1. CASE j = i
    BY <2>1
  <2>2. CASE j # i
    <3>1. j \in 1..(i-1) /\ j \in 1..n /\ k \in 1..n /\ j < i
      BY <2>2
    <3>2. e[j] = t[j]
      BY <1>1, <3>1
    <3>3. PICK m \in 1..n : m >= j /\ e[k] = t[m]
      <4>1. CASE k < i
        BY <1>1, <3>1, <4>1
      <4>2. CASE k >= i
        BY <1>1, <3>1, <4>2
      <4> QED BY <3>1, <4>1, <4>2
    <3>4. t[j] <= t[m]
      BY <3>1, <3>3
    <3> QED BY <3>2, <3>3, <3>4
  <2> QED BY <2>1, <2>2
<1> QED BY <1>2

(* The outer loop: the first values are least, and in order.               *)
LEMMA ExchangeSortSorts ==
  ASSUME NEW n \in Nat \ {0}, NEW s \in [1..n -> Int]
  PROVE  LET e == ExchangeSort(s)
         IN  Reordered(s, e, n, 1) /\ Ascending(e, n)
<1> DEFINE X == [1..n -> Int]
           F == [t \in X \X ((0+1)..(n-1)) |-> LeastFirst(t[1], t[2])]
           Is(g) == g = [i \in 0..(n-1) |-> IF i = 0 THEN s
                                           ELSE LeastFirst(g[i-1], i)]
           after == CHOOSE g : Is(g)
<1>0. n - 1 \in Nat /\ 0 \in 0..(n-1)
  OBVIOUS
<1>1. \A t \in X, i \in (0+1)..(n-1) : LeastFirst(t, i) \in X
  <2> TAKE t \in X, i \in (0+1)..(n-1)
  <2>1. i \in 1..n /\ n \in Nat
    OBVIOUS
  <2> QED BY <2>1, LeastFirstSorts DEF Reordered
<1>2. \E g : Iterated(g, X, s, F, 0, n - 1)
  <2>1. F \in [X \X ((0+1)..(n-1)) -> X]
    <3> HIDE DEF X
    <3> QED BY <1>1
  <2>2. s \in X
    OBVIOUS
  <2> DEFINE m == n - 1
  <2>3. m \in Nat /\ 0 \in 0..m
    BY <1>0
  <2>4. F \in [X \X ((0+1)..m) -> X]
    BY <2>1
  <2> HIDE DEF F, X, m
  <2>5. \E g : Iterated(g, X, s, F, 0, m)
    BY <2>2, <2>3, <2>4, Iterates
  <2> QED BY <2>5 DEF m
<1>3. PICK g : Iterated(g, X, s, F, 0, n - 1)
  BY <1>2
<1>4. ASSUME NEW i \in 0..(n-1)
      PROVE  g[i] \in X /\ g[i] = IF i = 0 THEN s
                                  ELSE LeastFirst(g[i-1], i)
  <2>1. g[i] \in X /\ g[i] = IF i = 0 THEN s ELSE F[<<g[i-1], i>>]
    BY <1>3 DEF Iterated
  <2>2. i # 0 => /\ g[i-1] \in X /\ i \in (0+1)..(n-1)
                 /\ <<g[i-1], i>> \in X \X ((0+1)..(n-1))
    <3>1. i # 0 => i - 1 \in 0..(n-1) /\ i \in (0+1)..(n-1)
      OBVIOUS
    <3>2. i # 0 => g[i-1] \in X
      <4> HIDE DEF X, F
      <4> QED BY <1>3, <3>1 DEF Iterated
    <3> HIDE DEF X
    <3> QED BY <3>1, <3>2
  <2>3. i # 0 => F[<<g[i-1], i>>] = LeastFirst(g[i-1], i)
    <3> HIDE DEF X
    <3> QED BY <2>2
  <2> HIDE DEF F
  <2> QED BY <2>1, <2>3
<1>5. Is(g)
  <2>1. DOMAIN g = 0..(n-1) /\ g = [i \in DOMAIN g |-> g[i]]
    <3> HIDE DEF X, F
    <3> QED BY <1>3 DEF Iterated
  <2> HIDE DEF X
  <2> QED BY <1>4, <2>1
<1>6. Is(after)
  <2> HIDE DEF Is
  <2> QED BY <1>5
<1>7. Len(s) = n
  BY LenProperties
<1>8. ExchangeSort(s) = after[n-1]
  BY <1>7 DEF ExchangeSort
<1> HIDE DEF after
<1>9. \A i \in 0..(n-1) : after[i] = IF i = 0 THEN s
                                     ELSE LeastFirst(after[i-1], i)
  BY <1>6
<1> DEFINE T == {i \in 0..(n-1) :
                   /\ Reordered(s, after[i], n, 1)
                   /\ \A j \in 1..i : \A k \in j..n :
                        after[i][j] <= after[i][k]}
<1>10. 0 \in T
  <2>1. after[0] = s
    BY <1>0, <1>9
  <2>2. Reordered(s, after[0], n, 1)
    BY <2>1, ReorderedSame
  <2> QED BY <1>0, <2>2
<1>11. ASSUME NEW i \in 1..(n-1), i - 1 \in T
       PROVE  i \in T
  <2> DEFINE t == after[i-1]
             e == LeastFirst(t, i)
  <2>1. /\ i \in 1..n /\ i \in 0..(n-1) /\ i # 0 /\ n \in Nat
        /\ Reordered(s, t, n, 1) /\ t \in [1..n -> Int]
        /\ \A j \in 1..(i-1) : \A k \in j..n : t[j] <= t[k]
    BY <1>11 DEF Reordered
  <2>2. after[i] = e
    BY <1>9, <2>1
  <2> HIDE DEF t
  <2>3. /\ Reordered(t, e, n, i) /\ e \in [1..n -> Int]
        /\ \A k \in i..n : e[i] <= e[k]
    BY <2>1, LeastFirstSorts DEF Reordered
  <2> HIDE DEF e
  <2>4. Reordered(s, e, n, 1)
    <3>1. 1 <= i /\ i \in Nat
      BY <2>1
    <3> QED BY <2>1, <2>3, <3>1, ReorderedTwice
  <2>5. \A j \in 1..i : \A k \in j..n : e[j] <= e[k]
    <3>1. PICK tt, ee : tt = t /\ ee = e
      OBVIOUS
    <3>2. \A j \in 1..i : \A k \in j..n : ee[j] <= ee[k]
      BY <2>1, <2>3, <3>1, OneMorePlace
    <3> QED BY <3>1, <3>2
  <2> QED BY <2>1, <2>2, <2>4, <2>5
<1>12. n - 1 \in T
  <2> DEFINE m == n - 1
  <2>1. m \in Nat /\ m \in 0..m
    BY <1>0
  <2>2. \A k \in 1..m : k - 1 \in T => k \in T
    BY <1>11
  <2> HIDE DEF T, m
  <2>3. 0..m \subseteq T
    BY <1>10, <2>1, <2>2, UpTo
  <2> QED BY <2>1, <2>3 DEF m
<1>13. Ascending(after[n-1], n)
  <2> SUFFICES ASSUME NEW j \in 1..n, NEW k \in 1..n, j <= k
               PROVE  after[n-1][j] <= after[n-1][k]
    BY DEF Ascending
  <2>1. CASE j = n
    <3>1. k = n /\ after[n-1][n] \in Int
      BY <1>12, <2>1 DEF Reordered
    <3> QED BY <2>1, <3>1
  <2>2. CASE j # n
    <3>1. j \in 1..(n-1) /\ k \in j..n
      BY <2>2
    <3> QED BY <1>12, <3>1
  <2> QED BY <2>1, <2>2
<1> QED BY <1>8, <1>12, <1>13

(* How many of the first n values are in A.                                *)
Counted(s, n, A) == Cardinality({k \in 1..n : s[k] \in A})

(* As many values have a property before the sorting as after.             *)
LEMMA SameCount ==
  ASSUME NEW n \in Nat, NEW s, NEW e, NEW i \in Nat, Reordered(s, e, n, i), NEW A
  PROVE  Counted(s, n, A) = Counted(e, n, A)
<1> DEFINE S == {k \in 1..n : e[k] \in A}
           R == {k \in 1..n : s[k] \in A}
<1>1. PICK p : Permutes(p, n, i) /\ \A k \in 1..n : e[k] = s[p[k]]
  BY DEF Reordered
<1> DEFINE q == [k \in S |-> p[k]]
<1>2. q \in [S -> R]
  BY <1>1 DEF Permutes
<1>3. \A j, k \in S : q[j] = q[k] => j = k
  BY <1>1 DEF Permutes
<1>4. ASSUME NEW r \in R PROVE \E k \in S : q[k] = r
  <2>1. PICK k \in 1..n : p[k] = r
    BY <1>1 DEF Permutes
  <2> QED BY <1>1, <2>1
<1>5. IsFiniteSet(S)
  <2>1. IsFiniteSet(1..n)
    BY FS_Interval
  <2> QED BY <2>1, FS_Subset
<1> HIDE DEF q, S, R
<1>6. q \in Bijection(S, R)
  BY <1>2, <1>3, <1>4 DEF Bijection, Injection, Surjection, IsInjective
<1>7. Cardinality(R) = Cardinality(S)
  BY <1>5, <1>6, FS_Bijection DEF ExistsBijection
<1> QED BY <1>7 DEF S, R, Counted
-----------------------------------------------------------------------------
LEMMA UpToCount ==
  ASSUME NEW n \in Nat, NEW m \in 0..n, NEW S \in SUBSET (1..n)
  PROVE  /\ S \subseteq 1..m => Cardinality(S) <= m
         /\ S \subseteq (m+1)..n => Cardinality(S) <= n - m
         /\ 1..m \subseteq S => Cardinality(S) >= m
         /\ Cardinality(S) \in Nat
<1>1. /\ IsFiniteSet(1..m) /\ Cardinality(1..m) = m
      /\ IsFiniteSet((m+1)..n) /\ Cardinality((m+1)..n) = n - m
      /\ IsFiniteSet(1..n)
  <2>1. /\ 1 \in Int /\ m \in Int /\ m + 1 \in Int /\ n \in Int /\ m >= 0 /\ m <= n
    OBVIOUS
  <2>2. IsFiniteSet(1..m) /\ Cardinality(1..m) = m
    BY <2>1, FS_Interval
  <2>3. IsFiniteSet((m+1)..n) /\ Cardinality((m+1)..n) = n - m
    <3>1. PICK k \in Int : k = m + 1
      BY <2>1
    <3>2. /\ IsFiniteSet(k..n)
          /\ Cardinality(k..n) = IF k > n THEN 0 ELSE n - k + 1
      BY <2>1, FS_Interval
    <3>3. (IF k > n THEN 0 ELSE n - k + 1) = n - m
      BY <2>1, <3>1
    <3> QED BY <3>1, <3>2, <3>3
  <2>4. IsFiniteSet(1..n)
    BY <2>1, FS_Interval
  <2> QED BY <2>2, <2>3, <2>4
<1>2. IsFiniteSet(S)
  BY <1>1, FS_Subset
<1>3. S \subseteq 1..m => Cardinality(S) <= m
  BY <1>1, FS_Subset
<1>4. S \subseteq (m+1)..n => Cardinality(S) <= n - m
  BY <1>1, FS_Subset
<1>5. 1..m \subseteq S => Cardinality(S) >= m
  <2>1. 1..m \subseteq S => Cardinality(1..m) <= Cardinality(S)
    BY <1>2, FS_Subset
  <2>2. Cardinality(S) \in Nat
    BY <1>2, FS_CardinalityType
  <2> QED BY <1>1, <2>1, <2>2
<1> QED BY <1>2, <1>3, <1>4, <1>5, FS_CardinalityType

(* The order statistics that sort.Float64s promises are those of the       *)
(* sorted values.                                                          *)
LEMMA SortedIsSorted ==
  ASSUME NEW n \in Nat, NEW s \in [1..n -> Int], NEW e,
         Reordered(s, e, n, 1), Ascending(e, n)
  PROVE  Sorted(s) = e
<1>0. /\ e \in [1..n -> Int]
      /\ \A j, k \in 1..n : j <= k => e[j] <= e[k]
  BY DEF Reordered, Ascending
<1> DEFINE Below(v) == {x \in Int : x < v}
           UpToV(v) == {x \in Int : x <= v}
           Is(v, k) == /\ Cardinality({i \in 1..n : s[i] < v}) < k
                       /\ Cardinality({i \in 1..n : s[i] <= v}) >= k
<1>1. ASSUME NEW v \in Int
      PROVE  /\ Cardinality({i \in 1..n : s[i] < v})
                  = Cardinality({i \in 1..n : e[i] < v})
             /\ Cardinality({i \in 1..n : s[i] <= v})
                  = Cardinality({i \in 1..n : e[i] <= v})
  <2>1. /\ {i \in 1..n : s[i] < v} = {i \in 1..n : s[i] \in Below(v)}
        /\ {i \in 1..n : e[i] < v} = {i \in 1..n : e[i] \in Below(v)}
    BY <1>0
  <2>2. /\ {i \in 1..n : s[i] <= v} = {i \in 1..n : s[i] \in UpToV(v)}
        /\ {i \in 1..n : e[i] <= v} = {i \in 1..n : e[i] \in UpToV(v)}
    BY <1>0
  <2>3. \A A : Counted(s, n, A) = Counted(e, n, A)
    <3>1. 1 \in Nat
      OBVIOUS
    <3> QED BY <3>1, SameCount
  <2> HIDE DEF Below, UpToV
  <2>4. Cardinality({i \in 1..n : s[i] \in Below(v)})
          = Cardinality({i \in 1..n : e[i] \in Below(v)})
    BY <2>3 DEF Counted
  <2>5. Cardinality({i \in 1..n : s[i] \in UpToV(v)})
          = Cardinality({i \in 1..n : e[i] \in UpToV(v)})
    BY <2>3 DEF Counted
  <2> QED BY <2>1, <2>2, <2>4, <2>5
<1>2. ASSUME NEW k \in 1..n
      PROVE  Sorted(s)[k] = e[k]
  <2>1. k - 1 \in 0..n /\ k \in 0..n
    OBVIOUS
  <2>2. e[k] \in ToSet(s)
    <3>1. PICK m \in 1..n : e[k] = s[m]
      BY DEF Reordered, Permutes
    <3> QED BY <3>1 DEF ToSet
  <2>3. Is(e[k], k)
    <3> DEFINE L == {i \in 1..n : e[i] < e[k]}
               U == {i \in 1..n : e[i] <= e[k]}
    <3>1. L \subseteq 1..(k-1)
      <4> SUFFICES ASSUME NEW i \in L PROVE i <= k - 1
        OBVIOUS
      <4>1. i \in 1..n /\ e[i] < e[k] /\ e[i] \in Int /\ e[k] \in Int
        BY <1>0
      <4>2. ~ (k <= i)
        BY <1>0, <4>1
      <4> QED BY <4>1, <4>2
    <3>2. 1..k \subseteq U
      BY <1>0
    <3>3. L \in SUBSET (1..n) /\ U \in SUBSET (1..n)
      OBVIOUS
    <3> HIDE DEF L, U
    <3>4. Cardinality(L) <= k - 1 /\ Cardinality(L) \in Nat
      BY <2>1, <3>1, <3>3, UpToCount
    <3>5. Cardinality(U) >= k
      BY <2>1, <3>2, <3>3, UpToCount
    <3>6. Cardinality(L) < k
      BY <3>4
    <3>7. e[k] \in Int
      BY <1>0
    <3> QED BY <1>1, <3>5, <3>6, <3>7 DEF L, U
  <2>4. ASSUME NEW v \in ToSet(s), Is(v, k)
        PROVE  v = e[k]
    <3> DEFINE L == {i \in 1..n : e[i] < v}
               U == {i \in 1..n : e[i] <= v}
    <3>1. v \in Int /\ e[k] \in Int
      BY <1>0 DEF ToSet
    <3>2. Cardinality(L) < k /\ Cardinality(U) >= k
      BY <1>1, <2>4, <3>1
    <3>3. L \in SUBSET (1..n) /\ U \in SUBSET (1..n)
      OBVIOUS
    <3>4. ASSUME v < e[k] PROVE FALSE
      <4>1. U \subseteq 1..(k-1)
        <5> SUFFICES ASSUME NEW i \in U PROVE i <= k - 1
          OBVIOUS
        <5>1. i \in 1..n /\ e[i] <= v /\ e[i] \in Int
          BY <1>0
        <5>2. ~ (k <= i)
          BY <1>0, <3>1, <3>4, <5>1
        <5> QED BY <5>1, <5>2
      <4> HIDE DEF U
      <4>2. Cardinality(U) <= k - 1 /\ Cardinality(U) \in Nat
        BY <2>1, <3>3, <4>1, UpToCount
      <4> QED BY <3>2, <4>2
    <3>5. ASSUME v > e[k] PROVE FALSE
      <4>1. 1..k \subseteq L
        <5> SUFFICES ASSUME NEW i \in 1..k PROVE i \in L
          OBVIOUS
        <5>1. i \in 1..n /\ e[i] <= e[k] /\ e[i] \in Int
          BY <1>0
        <5> QED BY <3>1, <3>5, <5>1
      <4> HIDE DEF L
      <4>2. Cardinality(L) >= k /\ Cardinality(L) \in Nat
        BY <2>1, <3>3, <4>1, UpToCount
      <4> QED BY <3>2, <4>2
    <3> QED BY <3>1, <3>4, <3>5
  <2>5. DOMAIN s = 1..n
    OBVIOUS
  <2>6. Sorted(s)[k] = CHOOSE v \in ToSet(s) : Is(v, k)
    BY <2>5 DEF Sorted
  <2> HIDE DEF Is
  <2> QED BY <2>2, <2>3, <2>4, <2>6
<1>3. Sorted(s) = [k \in 1..n |-> Sorted(s)[k]]
  <2>1. DOMAIN s = 1..n
    OBVIOUS
  <2> DEFINE c(k) == CHOOSE v \in ToSet(s) : Is(v, k)
  <2>2. Sorted(s) = [k \in 1..n |-> c(k)]
    BY <2>1 DEF Sorted
  <2> HIDE DEF c
  <2> QED BY <2>2
<1>4. e = [k \in 1..n |-> e[k]]
  BY <1>0
<1> QED BY <1>2, <1>3, <1>4
-----------------------------------------------------------------------------
(* A part of a difference.                                                 *)
LEMMA Portions ==
  ASSUME NEW f \in 0..99, NEW g \in f..99, NEW d \in Nat
  PROVE  /\ f * d \in Nat /\ g * d \in Nat
         /\ f * d <= g * d /\ g * d <= 99 * d
<1>1. /\ f \in Int /\ g \in Int /\ d \in Int /\ d >= 0 /\ f >= 0
      /\ g >= f /\ 99 - g >= 0 /\ g - f >= 0
  OBVIOUS
<1>2. \A x, y \in Int : x >= 0 /\ y >= 0 => x * y >= 0 /\ x * y \in Int
  OBVIOUS
<1>3. f * d >= 0 /\ g * d >= 0 /\ (g - f) * d >= 0 /\ (99 - g) * d >= 0
  BY <1>1, <1>2
<1>4. (g - f) * d = g * d - f * d /\ (99 - g) * d = 99 * d - g * d
  BY <1>1
<1> QED BY <1>1, <1>2, <1>3, <1>4

(* The rank of a percentile: the whole part and the hundredths.            *)
LEMMA RankParts ==
  ASSUME NEW n \in Nat \ {0}, NEW p \in Percents
  PROVE  LET rank == p * (n - 1)
         IN  /\ rank \in Nat
             /\ rank \div 100 \in 0..(n - 1)
             /\ rank % 100 \in 0..99
             /\ rank = 100 * (rank \div 100) + (rank % 100)
             /\ rank \div 100 = n - 1 => rank % 100 = 0
<1>1. p = 50 \/ p = 90 \/ p = 95 \/ p = 99
  BY DEF Percents
<1>2. p * (n - 1) \in Nat /\ p * (n - 1) <= 100 * (n - 1)
  BY <1>1
<1>3. ASSUME NEW rank \in Nat, rank <= 100 * (n - 1)
      PROVE  /\ rank \div 100 \in 0..(n - 1)
             /\ rank % 100 \in 0..99
             /\ rank = 100 * (rank \div 100) + (rank % 100)
             /\ rank \div 100 = n - 1 => rank % 100 = 0
  BY <1>3
<1> QED BY <1>2, <1>3

(* What percentile finds in n sorted values: the value at the rank rounded *)
(* down, and f hundredths of the way to the next.                          *)
Between(e, n, r, a, b, f) ==
  /\ a \in 1..n /\ b \in 1..n /\ f \in 0..99
  /\ \/ b = a + 1
     \/ b = a /\ a = n /\ f = 0
  /\ r = 100 * e[a] + f * (e[b] - e[a])

LEMMA PercentileBetween ==
  ASSUME NEW n \in Nat \ {0}, NEW e \in [1..n -> Int], NEW p \in Percents
  PROVE  LET rank == p * (n - 1)
             a == rank \div 100 + 1
         IN  Between(e, n, Percentile(e, p), a,
                     IF a = n THEN n ELSE a + 1, rank % 100)
<1> DEFINE rank == p * (n - 1)
           q == rank \div 100
           f == rank % 100
           a == q + 1
           b == IF a = n THEN n ELSE a + 1
<1>1. q \in 0..(n - 1) /\ f \in 0..99 /\ (q = n - 1 => f = 0)
  BY RankParts
<1>2. Len(e) = n /\ n # 0
  BY LenProperties
<1>3. Percentile(e, p) = IF q >= n - 1 THEN 100 * e[n]
                         ELSE 100 * e[q + 1] + f * (e[q + 2] - e[q + 1])
  BY <1>2 DEF Percentile
<1> HIDE DEF q, f
<1>4. a \in 1..n /\ b \in 1..n
  BY <1>1
<1>5. CASE q = n - 1
  <2>1. a = n /\ b = n /\ f = 0
    BY <1>1, <1>5
  <2>2. Percentile(e, p) = 100 * e[n]
    BY <1>3, <1>5
  <2>3. e[n] \in Int /\ f * (e[n] - e[n]) = 0
    BY <2>1
  <2> QED BY <1>1, <1>4, <2>1, <2>2, <2>3 DEF Between, q, f
<1>6. CASE q # n - 1
  <2>1. ~ (q >= n - 1) /\ b = a + 1 /\ b = q + 2 /\ a # n
    BY <1>1, <1>6
  <2>2. Percentile(e, p) = 100 * e[a] + f * (e[b] - e[a])
    BY <1>3, <2>1
  <2> QED BY <1>1, <1>4, <2>1, <2>2 DEF Between, q, f
<1> QED BY <1>5, <1>6

LEMMA Interpolated ==
  ASSUME NEW u \in Int, NEW v \in Int, u <= v, NEW f \in 0..99
  PROVE  LET r == 100 * u + f * (v - u)
         IN  /\ r \in Int /\ 100 * u <= r /\ r <= 100 * v
             /\ f = 0 => r = 100 * u
             /\ \A w \in Int : w >= v /\ 100 * w <= r => w <= u
<1>1. PICK d \in Nat : d = v - u
  OBVIOUS
<1>2. f \in f..99
  OBVIOUS
<1>3. f * d \in Nat /\ f * d <= 99 * d
  BY <1>2, Portions
<1>4. PICK x \in Nat : x = f * d
  BY <1>3
<1>5. x <= 99 * d
  BY <1>3, <1>4
<1>6. f = 0 => x = 0
  BY <1>4
<1>7. v = u + d
  BY <1>1
<1>8. \A w \in Int : w >= v /\ 100 * w <= 100 * u + x => w <= u
  BY <1>5, <1>7
<1>9. 100 * u + x <= 100 * v
  BY <1>5, <1>7
<1>10. f * (v - u) = x
  BY <1>1, <1>4
<1> QED BY <1>6, <1>8, <1>9, <1>10

LEMMA WithinNeighbours ==
  ASSUME NEW n \in Nat \ {0}, NEW e \in [1..n -> Int], Ascending(e, n),
         NEW r, NEW a, NEW b, NEW f, Between(e, n, r, a, b, f)
  PROVE  /\ r \in Int
         /\ 100 * e[a] <= r /\ r <= 100 * e[b]
         /\ f = 0 => r = 100 * e[a]
         /\ \A i \in 1..n : i > a /\ 100 * e[i] <= r => e[i] <= e[a]
<1>1. /\ a \in 1..n /\ b \in 1..n /\ f \in 0..99 /\ a <= b
      /\ \A i \in 1..n : i > a => b <= i
  BY DEF Between
<1>2. r = 100 * e[a] + f * (e[b] - e[a])
  BY DEF Between
<1>3. e[a] \in Int /\ e[b] \in Int /\ e[a] <= e[b]
  BY <1>1 DEF Ascending
<1>4. PICK u \in Int, v \in Int : u = e[a] /\ v = e[b]
  BY <1>3
<1>5. u <= v /\ f \in 0..99 /\ r = 100 * u + f * (v - u)
  BY <1>1, <1>2, <1>3, <1>4
<1>6. /\ r \in Int /\ 100 * u <= r /\ r <= 100 * v
      /\ f = 0 => r = 100 * u
      /\ \A w \in Int : w >= v /\ 100 * w <= r => w <= u
  BY <1>5, Interpolated
<1>7. ASSUME NEW i \in 1..n, i > a, 100 * e[i] <= r
      PROVE  e[i] <= e[a]
  <2>1. e[b] <= e[i] /\ e[i] \in Int
    BY <1>1, <1>7 DEF Ascending
  <2>2. e[i] >= v
    BY <1>3, <1>4, <2>1
  <2> QED BY <1>4, <1>6, <1>7, <2>1, <2>2
<1> QED BY <1>4, <1>6, <1>7

(* A higher percentile is no lower value.                                  *)
LEMMA PercentileMonotone ==
  ASSUME NEW n \in Nat \ {0}, NEW e \in [1..n -> Int], Ascending(e, n),
         NEW p \in Percents, NEW t \in Percents, p <= t
  PROVE  Percentile(e, p) <= Percentile(e, t)
<1> DEFINE q(x) == (x * (n - 1)) \div 100
           f(x) == (x * (n - 1)) % 100
           a(x) == q(x) + 1
           b(x) == IF a(x) = n THEN n ELSE a(x) + 1
           r(x) == Percentile(e, x)
<1>1. ASSUME NEW x \in Percents
      PROVE  Between(e, n, r(x), a(x), b(x), f(x))
  BY PercentileBetween
<1>2. q(p) < q(t) \/ (q(p) = q(t) /\ f(p) <= f(t))
  <2>1. (p * (n - 1)) \in Nat /\ (t * (n - 1)) \in Nat /\ p * (n - 1) <= t * (n - 1)
    <3>1. (p = 50 \/ p = 90 \/ p = 95 \/ p = 99) /\ (t = 50 \/ t = 90 \/ t = 95 \/ t = 99)
      BY DEF Percents
    <3> QED BY <3>1
  <2>2. \A x, y \in Nat : x <= y =>
          x \div 100 < y \div 100 \/ (x \div 100 = y \div 100 /\ x % 100 <= y % 100)
    OBVIOUS
  <2> QED BY <2>1, <2>2
<1>3. ASSUME NEW x \in Percents
      PROVE  /\ r(x) \in Int /\ 100 * e[a(x)] <= r(x) /\ r(x) <= 100 * e[b(x)]
             /\ a(x) \in 1..n /\ b(x) \in 1..n /\ f(x) \in 0..99
             /\ r(x) = 100 * e[a(x)] + f(x) * (e[b(x)] - e[a(x)])
             /\ a(x) <= b(x) /\ b(x) <= a(x) + 1
  <2>1. Between(e, n, r(x), a(x), b(x), f(x))
    BY <1>1
  <2> HIDE DEF r, a, b, f
  <2>2. r(x) \in Int /\ 100 * e[a(x)] <= r(x) /\ r(x) <= 100 * e[b(x)]
    BY <2>1, WithinNeighbours
  <2>3. /\ a(x) \in 1..n /\ b(x) \in 1..n /\ f(x) \in 0..99
        /\ r(x) = 100 * e[a(x)] + f(x) * (e[b(x)] - e[a(x)])
        /\ a(x) <= b(x) /\ b(x) <= a(x) + 1
    BY <2>1 DEF Between
  <2> QED BY <2>2, <2>3
<1>4. a(p) < a(t) \/ (a(p) = a(t) /\ b(p) = b(t) /\ f(p) <= f(t))
  <2>1. q(p) \in Int /\ q(t) \in Int
    BY RankParts
  <2> HIDE DEF q, f
  <2> QED BY <1>2, <2>1
<1> HIDE DEF q, f, a, b, r
<1>5. CASE a(p) < a(t)
  <2>1. b(p) <= a(t)
    BY <1>3, <1>5
  <2>2. e[b(p)] <= e[a(t)] /\ e[b(p)] \in Int /\ e[a(t)] \in Int
    BY <1>3, <2>1 DEF Ascending
  <2>3. r(p) <= 100 * e[b(p)] /\ 100 * e[a(t)] <= r(t) /\ r(p) \in Int /\ r(t) \in Int
    BY <1>3
  <2>4. r(p) <= r(t)
    BY <2>2, <2>3
  <2> QED BY <2>4 DEF r
<1>6. CASE a(p) = a(t) /\ b(p) = b(t) /\ f(p) <= f(t)
  <2> DEFINE d == e[b(p)] - e[a(p)]
  <2>1. d \in Nat /\ e[a(p)] \in Int
    <3>1. a(p) \in 1..n /\ b(p) \in 1..n /\ a(p) <= b(p)
      BY <1>3
    <3>2. e[a(p)] \in Int /\ e[b(p)] \in Int /\ e[a(p)] <= e[b(p)]
      BY <3>1 DEF Ascending
    <3> QED BY <3>2
  <2>2. f(p) \in 0..99 /\ f(t) \in f(p)..99
    <3>1. f(p) \in 0..99 /\ f(t) \in 0..99
      BY <1>3
    <3>2. \A x, y \in 0..99 : x <= y => y \in x..99
      OBVIOUS
    <3> QED BY <1>6, <3>1, <3>2, Zenon
  <2>3. r(p) = 100 * e[a(p)] + f(p) * d /\ r(t) = 100 * e[a(p)] + f(t) * d
    BY <1>3, <1>6
  <2> HIDE DEF d
  <2>4. f(p) * d \in Nat /\ f(t) * d \in Nat /\ f(p) * d <= f(t) * d
    BY <2>1, <2>2, Portions
  <2>5. r(p) <= r(t)
    BY <2>1, <2>3, <2>4
  <2> QED BY <2>5 DEF r
<1> QED BY <1>4, <1>5, <1>6
-----------------------------------------------------------------------------
(* A sum is between as many times the least and as many times the greatest.*)
LEMMA SumWithin ==
  ASSUME NEW f, NEW S, IsFiniteSet(S), NEW lo \in Int, NEW hi \in Int,
         \A x \in S : f[x] \in Int /\ lo <= f[x] /\ f[x] <= hi
  PROVE  /\ SumFunctionOnSet(f, S) \in Int
         /\ Cardinality(S) * lo <= SumFunctionOnSet(f, S)
         /\ SumFunctionOnSet(f, S) <= Cardinality(S) * hi
<1> DEFINE Within(s) == /\ SumFunctionOnSet(f, s) \in Int
                        /\ Cardinality(s) * lo <= SumFunctionOnSet(f, s)
                        /\ SumFunctionOnSet(f, s) <= Cardinality(s) * hi
           T == {s \in SUBSET S : Within(s)}
<1>1. ASSUME NEW s \in SUBSET S, \A x \in s : s \ {x} \in T
      PROVE  s \in T
  <2>1. IsFiniteSet(s)
    BY FS_Subset
  <2>2. CASE s = {}
    <3>1. Cardinality(s) = 0 /\ SumFunctionOnSet(f, s) = 0
      BY <2>2, SumEmpty, FS_EmptySet
    <3>2. Within(s)
      BY <3>1
    <3> HIDE DEF Within
    <3> QED BY <3>2
  <2>3. CASE s # {}
    <3>1. PICK x \in s : TRUE
      BY <2>3
    <3>2. Within(s \ {x})
      <4> HIDE DEF Within
      <4> QED BY <1>1
    <3>3. SumFunctionOnSet(f, s) = f[x] + SumFunctionOnSet(f, s \ {x})
      BY <2>1, SumRemove
    <3> DEFINE c == Cardinality(s \ {x})
    <3>4. c \in Nat /\ Cardinality(s) = c + 1
      <4>1. IsFiniteSet(s \ {x}) /\ Cardinality(s \ {x}) = Cardinality(s) - 1
        BY <2>1, FS_RemoveElement
      <4>2. Cardinality(s) \in Nat /\ Cardinality(s \ {x}) \in Nat
        BY <2>1, <4>1, FS_CardinalityType
      <4> QED BY <4>1, <4>2
    <3>5. f[x] \in Int /\ lo <= f[x] /\ f[x] <= hi
      OBVIOUS
    <3> HIDE DEF c
    <3>6. (c + 1) * lo = c * lo + lo /\ (c + 1) * hi = c * hi + hi
      BY <3>4
    <3>7. c * lo \in Int /\ c * hi \in Int
      BY <3>4
    <3>8. /\ SumFunctionOnSet(f, s \ {x}) \in Int
          /\ c * lo <= SumFunctionOnSet(f, s \ {x})
          /\ SumFunctionOnSet(f, s \ {x}) <= c * hi
      BY <3>2 DEF c
    <3>9. Within(s)
      BY <3>3, <3>4, <3>5, <3>6, <3>7, <3>8
    <3> HIDE DEF Within
    <3> QED BY <3>9
  <2> QED BY <2>2, <2>3
<1> HIDE DEF T
<1>2. SUBSET S \subseteq T
  BY <1>1, Subsets
<1>3. S \in T
  BY <1>2
<1> QED BY <1>3 DEF T
-----------------------------------------------------------------------------
(* What is collected are numbers.                                          *)
ValuesKept == values \in Seq(Int)

LEMMA ValuesInvariant == AlgorithmsSpec => []ValuesKept
<1>1. AlgorithmsInit => ValuesKept
  BY DEF AlgorithmsInit, NoValues, ValuesKept
<1>2. ValuesKept /\ [AlgorithmsNext]_<<subject, vars, values>> => ValuesKept'
  <2> SUFFICES ASSUME ValuesKept, [AlgorithmsNext]_<<subject, vars, values>>
               PROVE  ValuesKept'
    OBVIOUS
  <2>1. CASE AddMetric
    <3>1. PICK v \in 0..MaxValue : values' = Append(values, v)
      BY <2>1 DEF AddMetric
    <3>2. v \in Int
      BY ValuesAssumption
    <3> QED BY <3>1, <3>2 DEF ValuesKept
  <2>2. CASE UNCHANGED values
    BY <2>2 DEF ValuesKept
  <2> QED BY <2>1, <2>2 DEF AlgorithmsNext
<1> QED BY <1>1, <1>2, PTL DEF AlgorithmsSpec

(* The values of a state, sorted.                                          *)
LEMMA SortedValues ==
  ASSUME NEW s \in Seq(Int), s # <<>>
  PROVE  LET n == Len(s)
             e == ExchangeSort(s)
         IN  /\ n \in Nat \ {0} /\ s \in [1..n -> Int] /\ e \in [1..n -> Int]
             /\ Reordered(s, e, n, 1) /\ Ascending(e, n)
             /\ Sorted(s) = e /\ Len(e) = n
<1> DEFINE n == Len(s)
           e == ExchangeSort(s)
<1>1. n \in Nat \ {0} /\ s \in [1..n -> Int]
  BY LenProperties
<1> HIDE DEF n
<1>2. Reordered(s, e, n, 1) /\ Ascending(e, n)
  BY <1>1, ExchangeSortSorts
<1>3. PICK ee : ee = e
  OBVIOUS
<1>4. Sorted(s) = ee
  BY <1>1, <1>2, <1>3, SortedIsSorted
<1>5. ee \in [1..n -> Int]
  BY <1>2, <1>3 DEF Reordered
<1>6. Len(ee) = n
  BY <1>1, <1>5, LenProperties
<1> QED BY <1>1, <1>2, <1>3, <1>4, <1>5, <1>6 DEF n

(* No more values are below an interpolated percentile, and no more above  *)
(* it, than its rank says.                                                 *)
THEOREM PercentilesAreRanked == AlgorithmsSpec => []Ranked
<1>1. ValuesKept => Ranked
  <2> SUFFICES ASSUME ValuesKept, values # <<>>, NEW p \in Percents
               PROVE  LET n == Len(values)
                          r == Percentile(ExchangeSort(values), p)
                          rank == p * (n - 1)
                      IN  /\ CountOf(LAMBDA v : 100 * v < r) <= (rank + 99) \div 100
                          /\ CountOf(LAMBDA v : 100 * v > r) <= n - 1 - rank \div 100
    BY DEF Ranked
  <2>1. PICK n, e : n = Len(values) /\ e = ExchangeSort(values)
    OBVIOUS
  <2>2. /\ n \in Nat \ {0} /\ values \in [1..n -> Int] /\ e \in [1..n -> Int]
        /\ Reordered(values, e, n, 1) /\ Ascending(e, n)
    BY <2>1, SortedValues DEF ValuesKept
  <2>3. PICK rank, q, f, r : /\ rank = p * (n - 1) /\ q = rank \div 100
                             /\ f = rank % 100 /\ r = Percentile(e, p)
    OBVIOUS
  <2>4. /\ rank \in Nat /\ q \in 0..(n - 1) /\ f \in 0..99
        /\ rank = 100 * q + f /\ (q = n - 1 => f = 0)
    BY <2>2, <2>3, RankParts
  <2>5. PICK a, b : a = q + 1 /\ b = IF a = n THEN n ELSE a + 1
    OBVIOUS
  <2>6. Between(e, n, r, a, b, f)
    BY <2>2, <2>3, <2>5, PercentileBetween
  <2>7. /\ r \in Int /\ 100 * e[a] <= r /\ r <= 100 * e[b]
        /\ f = 0 => r = 100 * e[a]
    BY <2>2, <2>6, WithinNeighbours, SMTT(60)
  <2>8. /\ a \in 1..n /\ b \in 1..n /\ e[a] \in Int /\ e[b] \in Int
        /\ \A j, k \in 1..n : j <= k => e[j] <= e[k]
        /\ \A k \in 1..n : e[k] \in Int
    BY <2>2, <2>6 DEF Between, Ascending
  <2> DEFINE Below == {x \in Int : 100 * x < r}
             Above == {x \in Int : 100 * x > r}
             L == {k \in 1..n : e[k] \in Below}
             U == {k \in 1..n : e[k] \in Above}
  <2>9. /\ CountOf(LAMBDA v : 100 * v < r) = Counted(values, n, Below)
        /\ CountOf(LAMBDA v : 100 * v > r) = Counted(values, n, Above)
    <3>1. DOMAIN values = 1..n /\ \A i \in 1..n : values[i] \in Int
      BY <2>2
    <3>2. /\ {i \in DOMAIN values : 100 * values[i] < r}
               = {i \in 1..n : values[i] \in Below}
          /\ {i \in DOMAIN values : 100 * values[i] > r}
               = {i \in 1..n : values[i] \in Above}
      BY <3>1
    <3> HIDE DEF Below, Above
    <3> QED BY <3>2 DEF CountOf, Counted
  <2>10. \A A : Counted(values, n, A) = Counted(e, n, A)
    <3>1. 1 \in Nat /\ n \in Nat
      BY <2>2
    <3> QED BY <2>2, <3>1, SameCount
  <2>11. L \in SUBSET (1..n) /\ U \in SUBSET (1..n)
    OBVIOUS
  <2>12. U \subseteq (a+1)..n
    <3> SUFFICES ASSUME NEW k \in U PROVE k >= a + 1
      BY <2>8
    <3>1. k \in 1..n /\ e[k] \in Int /\ 100 * e[k] > r
      OBVIOUS
    <3>2. ~ (k <= a)
      BY <2>7, <2>8, <3>1
    <3> QED BY <2>8, <3>1, <3>2
  <2>13. f = 0 => L \subseteq 1..q
    <3> SUFFICES ASSUME f = 0, NEW k \in L PROVE k <= q
      OBVIOUS
    <3>1. k \in 1..n /\ e[k] \in Int /\ 100 * e[k] < r
      OBVIOUS
    <3>2. ~ (a <= k)
      BY <2>7, <2>8, <3>1
    <3> QED BY <2>4, <2>5, <3>1, <3>2
  <2>14. f # 0 => L \subseteq 1..a
    <3> SUFFICES ASSUME f # 0, NEW k \in L PROVE k <= a
      OBVIOUS
    <3>1. k \in 1..n /\ e[k] \in Int /\ 100 * e[k] < r
      OBVIOUS
    <3>2. ~ (b <= k)
      BY <2>7, <2>8, <3>1
    <3>3. b = a + 1
      BY <2>4, <2>5
    <3> QED BY <2>8, <3>1, <3>2, <3>3
  <2> HIDE DEF Below, Above, L, U
  <2>15. n \in Nat /\ a \in 0..n /\ q \in 0..n
    BY <2>2, <2>4, <2>8
  <2>16. Cardinality(U) <= n - a
    BY <2>11, <2>12, <2>15, UpToCount
  <2>17. (f = 0 => Cardinality(L) <= q) /\ (f # 0 => Cardinality(L) <= a)
    BY <2>11, <2>13, <2>14, <2>15, UpToCount
  <2>18. Cardinality(L) \in Nat /\ Cardinality(U) \in Nat
    BY <2>11, <2>15, UpToCount
  <2>19. Cardinality(L) <= (rank + 99) \div 100
    <3>1. CASE f = 0
      <4>1. (rank + 99) \div 100 = q
        BY <2>4, <3>1
      <4> QED BY <2>17, <3>1, <4>1
    <3>2. CASE f # 0
      <4>1. (rank + 99) \div 100 = q + 1
        BY <2>4, <3>2
      <4> QED BY <2>5, <2>17, <3>2, <4>1
    <3> QED BY <3>1, <3>2
  <2>20. Cardinality(U) <= n - 1 - q
    BY <2>4, <2>5, <2>15, <2>16, <2>18
  <2>21. /\ CountOf(LAMBDA v : 100 * v < r) = Cardinality(L)
         /\ CountOf(LAMBDA v : 100 * v > r) = Cardinality(U)
    BY <2>9, <2>10 DEF Counted, L, U
  <2> QED BY <2>1, <2>3, <2>19, <2>20, <2>21
<1> QED BY <1>1, ValuesInvariant, PTL

(* The percentiles of a key come in order between its least and greatest   *)
(* value, and its sum is within as many times those.                       *)
THEOREM StatisticsAreOrdered == AlgorithmsSpec => []Ordered
<1>1. ValuesKept => Ordered
  <2> SUFFICES ASSUME ValuesKept, values # <<>> PROVE Ordered
    BY DEF Ordered
  <2>1. PICK n, e, m : /\ n = Len(values) /\ e = ExchangeSort(values)
                       /\ m = AggregatedMetric(values)
    OBVIOUS
  <2>2. /\ n \in Nat \ {0} /\ e \in [1..n -> Int] /\ Ascending(e, n)
        /\ Sorted(values) = e /\ Len(e) = n
    BY <2>1, SortedValues DEF ValuesKept
  <2>3. /\ m.count = n /\ m.sum = SumFunction(e)
        /\ m.min = e[1] /\ m.max = e[n]
        /\ m.p50 = Percentile(e, 50) /\ m.p90 = Percentile(e, 90)
        /\ m.p95 = Percentile(e, 95) /\ m.p99 = Percentile(e, 99)
    BY <2>1, <2>2 DEF AggregatedMetric, SumOf
  <2>4. /\ 1 \in 1..n /\ n \in 1..n
        /\ \A k \in 1..n : e[k] \in Int /\ e[1] <= e[k] /\ e[k] <= e[n]
    BY <2>2 DEF Ascending
  <2>5. ASSUME NEW p \in Percents
        PROVE  /\ Percentile(e, p) \in Int
               /\ 100 * e[1] <= Percentile(e, p)
               /\ Percentile(e, p) <= 100 * e[n]
    <3>1. PICK a, b, f : Between(e, n, Percentile(e, p), a, b, f)
      BY <2>2, PercentileBetween
    <3>2. /\ Percentile(e, p) \in Int
          /\ 100 * e[a] <= Percentile(e, p) /\ Percentile(e, p) <= 100 * e[b]
      BY <2>2, <3>1, WithinNeighbours
    <3>3. a \in 1..n /\ b \in 1..n
      BY <3>1 DEF Between
    <3>4. /\ e[1] \in Int /\ e[a] \in Int /\ e[1] <= e[a]
          /\ e[n] \in Int /\ e[b] \in Int /\ e[b] <= e[n]
      BY <2>4, <3>3
    <3>5. \A x, y \in Int : x <= y => 100 * x <= 100 * y
      OBVIOUS
    <3> QED BY <3>2, <3>4, <3>5
  <2>6. 50 \in Percents /\ 90 \in Percents /\ 95 \in Percents /\ 99 \in Percents
    BY DEF Percents
  <2>7. /\ Percentile(e, 50) <= Percentile(e, 90)
        /\ Percentile(e, 90) <= Percentile(e, 95)
        /\ Percentile(e, 95) <= Percentile(e, 99)
    BY <2>2, <2>6, PercentileMonotone
  <2>8. n * e[1] <= SumFunction(e) /\ SumFunction(e) <= n * e[n]
    <3>1. IsFiniteSet(1..n) /\ Cardinality(1..n) = n
      BY <2>2, FS_Interval
    <3>2. e[1] \in Int /\ e[n] \in Int
      BY <2>4
    <3>3. /\ Cardinality(1..n) * e[1] <= SumFunctionOnSet(e, 1..n)
          /\ SumFunctionOnSet(e, 1..n) <= Cardinality(1..n) * e[n]
      BY <2>4, <3>1, <3>2, SumWithin
    <3>4. SumFunction(e) = SumFunctionOnSet(e, 1..n)
      BY <2>2 DEF SumFunction
    <3> QED BY <3>1, <3>3, <3>4
  <2> QED BY <2>1, <2>3, <2>5, <2>6, <2>7, <2>8 DEF Ordered
<1> QED BY <1>1, ValuesInvariant, PTL

(* The worker's percentile is the greatest value not above the             *)
(* aggregator's.                                                           *)
THEOREM PercentilesAgree == AlgorithmsSpec => []Agree
<1>1. ValuesKept => Agree
  <2> SUFFICES ASSUME ValuesKept, values # <<>> PROVE Agree
    BY DEF Agree
  <2>1. PICK n, e : n = Len(values) /\ e = ExchangeSort(values)
    OBVIOUS
  <2>2. /\ n \in Nat \ {0} /\ values \in [1..n -> Int]
        /\ e \in [1..n -> Int] /\ Ascending(e, n)
        /\ Reordered(values, e, n, 1) /\ Sorted(values) = e
    BY <2>1, SortedValues DEF ValuesKept
  <2>3. ASSUME NEW p \in {95, 99}
        PROVE  /\ 100 * CalculatePercentile(values, p) <= Percentile(e, p)
               /\ \A v \in ToSet(values) :
                    100 * v <= Percentile(e, p)
                      => v <= CalculatePercentile(values, p)
    <3>1. PICK rank, a, b, f : /\ rank = p * (n - 1) /\ a = rank \div 100 + 1
                               /\ b = IF a = n THEN n ELSE a + 1
                               /\ f = rank % 100
      OBVIOUS
    <3>2. p \in Percents /\ p \in Int
      BY DEF Percents
    <3>3. Between(e, n, Percentile(e, p), a, b, f)
      BY <2>2, <3>1, <3>2, PercentileBetween
    <3>4. a \in 1..n
      BY <3>3 DEF Between
    <3>5. CalculatePercentile(values, p) = e[a]
      <4>1. n # 0 /\ (n - 1) * p = rank
        BY <2>2, <3>1, <3>2
      <4> QED BY <2>1, <3>1, <4>1 DEF CalculatePercentile
    <3>6. /\ 100 * e[a] <= Percentile(e, p)
          /\ \A i \in 1..n : i > a /\ 100 * e[i] <= Percentile(e, p) => e[i] <= e[a]
      <4>1. PICK r : r = Percentile(e, p)
        OBVIOUS
      <4>2. /\ 100 * e[a] <= r
            /\ \A i \in 1..n : i > a /\ 100 * e[i] <= r => e[i] <= e[a]
        <5>1. /\ n \in Nat \ {0} /\ e \in [1..n -> Int] /\ Ascending(e, n)
              /\ Between(e, n, r, a, b, f)
          BY <2>2, <3>3, <4>1
        <5> QED BY <5>1, WithinNeighbours
      <4> QED BY <4>1, <4>2
    <3>7. ASSUME NEW v \in ToSet(values), 100 * v <= Percentile(e, p)
          PROVE  v <= e[a]
      <4>1. PICK i \in 1..n : v = e[i]
        <5>1. PICK j \in 1..n : v = values[j]
          BY <2>2 DEF ToSet
        <5>2. PICK g : /\ Permutes(g, n, 1)
                       /\ \A k \in 1..n : e[k] = values[g[k]]
          BY <2>2 DEF Reordered
        <5>3. PICK i \in 1..n : g[i] = j
          BY <5>2 DEF Permutes
        <5> QED BY <5>1, <5>2, <5>3
      <4>2. CASE i > a
        BY <3>6, <3>7, <4>1, <4>2
      <4>3. CASE ~ (i > a)
        <5>1. i <= a
          BY <3>4, <4>3
        <5> QED BY <2>2, <3>4, <4>1, <5>1 DEF Ascending
      <4> QED BY <4>2, <4>3
    <3> QED BY <3>5, <3>6, <3>7
  <2>4. /\ AggregatedMetric(values).p95 = Percentile(e, 95)
        /\ AggregatedMetric(values).p99 = Percentile(e, 99)
    BY <2>2 DEF AggregatedMetric
  <2>5. /\ CalculateStats(values).p95 = CalculatePercentile(values, 95)
        /\ CalculateStats(values).p99 = CalculatePercentile(values, 99)
    BY <2>1, <2>2 DEF CalculateStats
  <2>6. 95 \in {95, 99} /\ 99 \in {95, 99}
    OBVIOUS
  <2> QED BY <2>3, <2>4, <2>5, <2>6 DEF Agree
<1> QED BY <1>1, ValuesInvariant, PTL
=============================================================================
