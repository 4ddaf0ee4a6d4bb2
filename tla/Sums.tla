-------------------------------- MODULE Sums --------------------------------
(***************************************************************************)
(* What the proofs share: induction over naturals, the positions of a list *)
(* and finite sets, with a set for the claim; that a function defined from *)
(* one position to the next exists; the laws of SumFunction, which adds    *)
(* the values of a function up in an order of its own choosing; and those  *)
(* of Weigh, which does so along a sequence.                               *)
(***************************************************************************)
EXTENDS Integers, FiniteSets, Functions, TLAPS, FiniteSetTheorems,
        SequenceTheorems, WellFoundedInduction

(* A nonempty set of naturals has a least element.                         *)
LEMMA LeastNat ==
  ASSUME NEW T \in SUBSET Nat, T # {}
  PROVE  \E x \in T : \A y \in T : x <= y
<1> DEFINE R == OpToRel(<, Nat)
<1>1. IsWellFoundedOn(R, Nat)
  BY NatLessThanWellFounded
<1>2. \A x, y \in Nat : y < x => <<y, x>> \in R
  BY DEF OpToRel
<1> HIDE DEF R
<1>3. PICK x \in T : \A y \in T : ~ (<<y, x>> \in R)
  BY <1>1, WFMin
<1>4. \A y \in T : ~ (y < x)
  BY <1>2, <1>3
<1>5. \A y \in T : x <= y
  BY <1>4
<1> QED BY <1>5

(* Induction along the positions of a list, with a set for the claim.      *)
LEMMA UpTo ==
  ASSUME NEW n \in Nat, NEW T, 0 \in T,
         \A k \in 1..n : k - 1 \in T => k \in T
  PROVE  0..n \subseteq T
<1> DEFINE B == (0..n) \ T
<1>1. SUFFICES ASSUME B # {} PROVE FALSE
  OBVIOUS
<1>2. B \in SUBSET Nat
  OBVIOUS
<1> HIDE DEF B
<1>3. PICK x \in B : \A y \in B : x <= y
  BY <1>1, <1>2, LeastNat
<1>4. x \in (0..n) \ T /\ \A y \in (0..n) \ T : x <= y
  BY <1>3 DEF B
<1>5. x # 0 /\ x \in 1..n /\ x - 1 \in 0..n /\ ~ (x <= x - 1)
  BY <1>4
<1>6. x - 1 \in T
  BY <1>4, <1>5
<1> QED BY <1>4, <1>5, <1>6

(* Induction along the positions from a on.                                *)
LEMMA FromTo ==
  ASSUME NEW n \in Nat, NEW a \in 0..n, NEW T, a \in T,
         \A k \in (a+1)..n : k - 1 \in T => k \in T
  PROVE  a..n \subseteq T
<1> DEFINE U == {k \in 0..n : k < a \/ k \in T}
<1>1. 0 \in U
  OBVIOUS
<1>2. ASSUME NEW k \in 1..n, k - 1 \in U PROVE k \in U
  <2>1. CASE k <= a
    BY <2>1
  <2>2. CASE k > a
    BY <1>2, <2>2
  <2> QED BY <2>1, <2>2
<1> HIDE DEF U
<1>3. 0..n \subseteq U
  BY <1>1, <1>2, UpTo
<1> QED BY <1>3 DEF U

(* Functions defined by what they have at the position before.             *)
Iterated(g, X, x, F, a, m) ==
  /\ g \in [a..m -> X]
  /\ \A k \in a..m : g[k] = IF k = a THEN x ELSE F[<<g[k-1], k>>]

LEMMA Iterates ==
  ASSUME NEW n \in Nat, NEW a \in 0..n, NEW X, NEW x \in X,
         NEW F \in [X \X ((a+1)..n) -> X]
  PROVE  \E g : Iterated(g, X, x, F, a, n)
<1> DEFINE T == {m \in 0..n : m < a \/ \E g : Iterated(g, X, x, F, a, m)}
<1>1. a \in T
  <2> DEFINE g == [k \in a..a |-> x]
  <2>1. g \in [a..a -> X]
    OBVIOUS
  <2>2. \A k \in a..a : g[k] = x /\ k = a
    OBVIOUS
  <2> HIDE DEF g
  <2>3. Iterated(g, X, x, F, a, a)
    BY <2>1, <2>2 DEF Iterated
  <2>4. \E f : Iterated(f, X, x, F, a, a)
    BY <2>3
  <2> QED BY <2>4
<1>2. ASSUME NEW m \in 1..n, m - 1 \in T
      PROVE  m \in T
  <2>1. CASE m < a
    BY <2>1
  <2>2. CASE m = a
    BY <1>1, <2>2
  <2>3. CASE m > a
    <3>1. \E g : Iterated(g, X, x, F, a, m - 1)
      BY <1>2, <2>3
    <3>2. PICK g : Iterated(g, X, x, F, a, m - 1)
      BY <3>1
    <3> DEFINE y == F[<<g[m-1], m>>]
               h == [k \in a..m |-> IF k = m THEN y ELSE g[k]]
    <3>3. y \in X
      <4>1. m - 1 \in a..(m-1) /\ m \in (a+1)..n
        BY <2>3
      <4>2. g[m-1] \in X
        BY <3>2, <4>1 DEF Iterated
      <4>3. <<g[m-1], m>> \in X \X ((a+1)..n)
        BY <4>1, <4>2
      <4>4. F[<<g[m-1], m>>] \in X
        BY <4>3
      <4> QED BY <4>4
    <3>4. h \in [a..m -> X]
      <4>1. \A k \in a..m : k # m => k \in a..(m-1)
        OBVIOUS
      <4> HIDE DEF y
      <4> QED BY <3>2, <3>3, <4>1 DEF Iterated
    <3>5. ASSUME NEW k \in a..m
          PROVE  h[k] = IF k = a THEN x ELSE F[<<h[k-1], k>>]
      <4>1. CASE k = m
        <5>1. m - 1 \in a..m /\ h[m-1] = g[m-1]
          BY <2>3
        <5>2. h[k] = y
          BY <4>1
        <5> QED BY <2>3, <4>1, <5>1, <5>2
      <4>2. CASE k # m
        <5>1. k \in a..(m-1)
          BY <4>2
        <5>2. k # a => k - 1 \in a..m /\ h[k-1] = g[k-1]
          BY <4>2
        <5>3. g[k] = IF k = a THEN x ELSE F[<<g[k-1], k>>]
          BY <3>2, <5>1 DEF Iterated
        <5>4. h[k] = g[k]
          BY <4>2
        <5> HIDE DEF h
        <5> QED BY <5>2, <5>3, <5>4
      <4> QED BY <4>1, <4>2
    <3> HIDE DEF h
    <3>6. Iterated(h, X, x, F, a, m)
      BY <3>4, <3>5 DEF Iterated
    <3>7. \E f : Iterated(f, X, x, F, a, m)
      BY <3>6
    <3> QED BY <3>7
  <2> QED BY <2>1, <2>2, <2>3
<1>3. 0 \in T
  <2>1. CASE a = 0
    BY <1>1, <2>1
  <2>2. CASE a # 0
    BY <2>2
  <2> QED BY <2>1, <2>2
<1>4. n \in T
  <2> HIDE DEF T
  <2> QED BY <1>2, <1>3, UpTo
<1>5. ~ (n < a)
  OBVIOUS
<1> QED BY <1>4, <1>5

(* Induction over the subsets of a finite set: a claim that holds of a set *)
(* whenever it holds of the set without any one of its elements.           *)
LEMMA Subsets ==
  ASSUME NEW S, IsFiniteSet(S), NEW T,
         \A s \in SUBSET S : (\A x \in s : s \ {x} \in T) => s \in T
  PROVE  SUBSET S \subseteq T
<1> DEFINE B == (SUBSET S) \ T
           R == StrictSubsetOrdering(S)
<1>1. SUFFICES ASSUME B # {} PROVE FALSE
  OBVIOUS
<1>2. B \in SUBSET FiniteSubsetsOf(S)
  BY FS_FiniteSubsetsOfFinite
<1>3. IsWellFoundedOn(R, FiniteSubsetsOf(S))
  BY FS_StrictSubsetOrderingWellFounded
<1>4. \A s, t \in SUBSET S : s \subseteq t /\ s # t => <<s, t>> \in R
  BY DEF StrictSubsetOrdering
<1> HIDE DEF B, R
<1>5. PICK s \in B : \A t \in B : ~ (<<t, s>> \in R)
  BY <1>1, <1>2, <1>3, WFMin
<1>6. s \in SUBSET S /\ s \notin T
  BY <1>5 DEF B
<1>7. ASSUME NEW x \in s PROVE s \ {x} \in T
  <2>1. s \ {x} \in SUBSET S /\ s \ {x} \subseteq s /\ s \ {x} # s
    BY <1>6
  <2>2. <<s \ {x}, s>> \in R
    BY <1>4, <1>6, <2>1
  <2> QED BY <1>5, <2>1, <2>2 DEF B
<1> QED BY <1>6, <1>7
-----------------------------------------------------------------------------
(* The element SumFunction takes out of a set, and the sums of all subsets *)
(* of S, as its definition has them.                                       *)
Taken(s) == CHOOSE x \in s : TRUE

AreSums(g, f, D) ==
  g = [s \in D |-> IF s = {} THEN 0 ELSE f[Taken(s)] + g[s \ {Taken(s)}]]

LEMMA SumIsChosen ==
  ASSUME NEW f, NEW S
  PROVE  SumFunctionOnSet(f, S) = (CHOOSE g : AreSums(g, f, SUBSET S))[S]
BY DEF SumFunctionOnSet, FoldFunctionOnSet, MapThenFoldSet, AreSums, Taken

LEMMA SumsExist ==
  ASSUME NEW f, NEW S, IsFiniteSet(S)
  PROVE  \E g : AreSums(g, f, SUBSET S)
<1> DEFINE n == Cardinality(S)
           D(m) == {s \in SUBSET S : Cardinality(s) <= m}
           T == {m \in 0..n : \E g : AreSums(g, f, D(m))}
<1>1. n \in Nat /\ \A s \in SUBSET S : /\ IsFiniteSet(s)
                                       /\ Cardinality(s) \in 0..n
  BY FS_CardinalityType, FS_Subset
<1>2. \A s \in SUBSET S : s # {} =>
         /\ Taken(s) \in s
         /\ s \ {Taken(s)} \in SUBSET S
         /\ Cardinality(s \ {Taken(s)}) = Cardinality(s) - 1
  BY <1>1, FS_RemoveElement DEF Taken
<1>3. {} \in SUBSET S /\ Cardinality({}) = 0
  BY FS_EmptySet
<1>4. 0 \in T
  <2>1. \A s \in D(0) : s = {}
    <3>1. \A s \in D(0) : Cardinality(s) = 0
      BY <1>1
    <3> QED BY <1>1, <3>1, FS_EmptySet
  <2> DEFINE g == [s \in D(0) |-> 0]
  <2>2. AreSums(g, f, D(0))
    <3> HIDE DEF D
    <3> QED BY <2>1 DEF AreSums
  <2> HIDE DEF g, D
  <2>3. \E a : AreSums(a, f, D(0))
    BY <2>2
  <2> QED BY <1>1, <2>3
<1>5. ASSUME NEW m \in 1..n, m - 1 \in T
      PROVE  m \in T
  <2>1. PICK g : AreSums(g, f, D(m - 1))
    BY <1>5
  <2> DEFINE h == [s \in D(m) |->
                     IF s = {} THEN 0 ELSE f[Taken(s)] + g[s \ {Taken(s)}]]
  <2>2. ASSUME NEW s \in D(m - 1)
        PROVE  s \in D(m) /\ h[s] = g[s]
    <3>1. s \in D(m)
      BY <1>1
    <3>2. g[s] = IF s = {} THEN 0 ELSE f[Taken(s)] + g[s \ {Taken(s)}]
      BY <2>1 DEF AreSums
    <3> QED BY <3>1, <3>2
  <2>3. \A s \in D(m) : s # {} => s \ {Taken(s)} \in D(m - 1)
    BY <1>1, <1>2
  <2>4. \A s \in D(m) : s # {} => h[s \ {Taken(s)}] = g[s \ {Taken(s)}]
    <3> HIDE DEF h, D
    <3> QED BY <2>2, <2>3
  <2>5. AreSums(h, f, D(m))
    <3> HIDE DEF D
    <3> QED BY <2>4 DEF AreSums
  <2> HIDE DEF h, D
  <2> QED BY <2>5
<1>6. n \in T
  <2> HIDE DEF T
  <2>1. \A k \in 1..n : k - 1 \in T => k \in T
    BY <1>5
  <2> QED BY <1>1, <1>4, <2>1, UpTo
<1>7. D(n) = SUBSET S
  BY <1>1
<1> QED BY <1>6, <1>7
(* The sum over a set: nothing, or the element taken out and the rest.     *)
LEMMA SumDef ==
  ASSUME NEW f, NEW S, IsFiniteSet(S)
  PROVE  /\ S = {} => SumFunctionOnSet(f, S) = 0
         /\ S # {} => SumFunctionOnSet(f, S) =
                        f[Taken(S)] + SumFunctionOnSet(f, S \ {Taken(S)})
<1> DEFINE R  == S \ {Taken(S)}
           g  == CHOOSE a : AreSums(a, f, SUBSET S)
           h  == CHOOSE a : AreSums(a, f, SUBSET R)
           T  == {s \in SUBSET R : g[s] = h[s]}
<1>1. AreSums(g, f, SUBSET S)
  BY SumsExist
<1>2. AreSums(h, f, SUBSET R)
  <2>1. IsFiniteSet(R)
    BY FS_Subset
  <2> QED BY <2>1, SumsExist
<1>3. SumFunctionOnSet(f, S) = g[S] /\ SumFunctionOnSet(f, R) = h[R]
  BY SumIsChosen
<1> HIDE DEF g, h
<1>4. \A s \in SUBSET S :
        g[s] = IF s = {} THEN 0 ELSE f[Taken(s)] + g[s \ {Taken(s)}]
  BY <1>1 DEF AreSums
<1>5. \A s \in SUBSET R :
        h[s] = IF s = {} THEN 0 ELSE f[Taken(s)] + h[s \ {Taken(s)}]
  BY <1>2 DEF AreSums
<1>6. \A s : s # {} => Taken(s) \in s
  BY DEF Taken
<1>7. ASSUME NEW s \in SUBSET R, \A x \in s : s \ {x} \in T
      PROVE  s \in T
  <2>1. s \in SUBSET S
    OBVIOUS
  <2>2. s # {} => g[s \ {Taken(s)}] = h[s \ {Taken(s)}]
    BY <1>6, <1>7
  <2> QED BY <1>4, <1>5, <2>1, <2>2
<1>8. R \in T
  <2>1. IsFiniteSet(R)
    BY FS_Subset
  <2> HIDE DEF T, R
  <2>2. SUBSET R \subseteq T
    BY <1>7, <2>1, Subsets
  <2> QED BY <2>2
<1> QED BY <1>3, <1>4, <1>8

(* A sum of integers is an integer, a sum of naturals a natural.           *)
LEMMA SumType ==
  ASSUME NEW f, NEW S, IsFiniteSet(S), NEW D, 0 \in D,
         \A x \in S : f[x] \in D, \A a, b \in D : a + b \in D
  PROVE  SumFunctionOnSet(f, S) \in D
<1> DEFINE T == {s \in SUBSET S : SumFunctionOnSet(f, s) \in D}
<1>1. ASSUME NEW s \in SUBSET S, \A x \in s : s \ {x} \in T
      PROVE  s \in T
  <2>1. IsFiniteSet(s)
    BY FS_Subset
  <2>2. s # {} => Taken(s) \in s
    BY DEF Taken
  <2>3. s # {} => /\ f[Taken(s)] \in D
                  /\ SumFunctionOnSet(f, s \ {Taken(s)}) \in D
    BY <1>1, <2>2
  <2>4. CASE s = {}
    BY <2>1, <2>4, SumDef
  <2>5. CASE s # {}
    <3>1. SumFunctionOnSet(f, s) =
            f[Taken(s)] + SumFunctionOnSet(f, s \ {Taken(s)})
      BY <2>1, <2>5, SumDef
    <3> QED BY <2>3, <2>5, <3>1
  <2> QED BY <2>4, <2>5
<1> HIDE DEF T
<1>2. SUBSET S \subseteq T
  BY <1>1, Subsets
<1> QED BY <1>2 DEF T

LEMMA SumInt ==
  ASSUME NEW f, NEW S, IsFiniteSet(S), \A x \in S : f[x] \in Int
  PROVE  SumFunctionOnSet(f, S) \in Int
<1>1. 0 \in Int /\ \A a, b \in Int : a + b \in Int
  OBVIOUS
<1> QED BY <1>1, SumType

LEMMA SumNat ==
  ASSUME NEW f, NEW S, IsFiniteSet(S), \A x \in S : f[x] \in Nat
  PROVE  SumFunctionOnSet(f, S) \in Nat
<1>1. 0 \in Nat /\ \A a, b \in Nat : a + b \in Nat
  OBVIOUS
<1> QED BY <1>1, SumType

LEMMA SumEmpty ==
  ASSUME NEW f
  PROVE  SumFunctionOnSet(f, {}) = 0
BY SumDef, FS_EmptySet

(* The order does not matter: any element can be taken out first.          *)
LEMMA SumRemove ==
  ASSUME NEW f, NEW S, IsFiniteSet(S), \A x \in S : f[x] \in Int,
         NEW z \in S
  PROVE  SumFunctionOnSet(f, S) = f[z] + SumFunctionOnSet(f, S \ {z})
<1> DEFINE Sum(s) == SumFunctionOnSet(f, s)
           T == {s \in SUBSET S : \A x \in s : Sum(s) = f[x] + Sum(s \ {x})}
<1>1. \A s \in SUBSET S : s # {} => /\ Taken(s) \in s
                                    /\ Sum(s) = f[Taken(s)] + Sum(s \ {Taken(s)})
  BY SumDef, FS_Subset DEF Taken
<1>2. \A s \in SUBSET S : Sum(s) \in Int
  BY SumInt, FS_Subset
<1> HIDE DEF Sum
<1>3. ASSUME NEW s \in SUBSET S, \A x \in s : s \ {x} \in T, NEW x \in s
      PROVE  Sum(s) = f[x] + Sum(s \ {x})
  <2>1. PICK t \in s : Sum(s) = f[t] + Sum(s \ {t})
    BY <1>1
  <2>2. CASE x = t
    BY <2>1, <2>2
  <2>3. CASE x # t
    <3>1. (s \ {t}) \ {x} = (s \ {x}) \ {t}
      OBVIOUS
    <3>2. PICK r \in SUBSET S : r = (s \ {t}) \ {x} /\ r = (s \ {x}) \ {t}
      BY <3>1
    <3>3. Sum(s \ {t}) = f[x] + Sum(r)
      BY <1>3, <2>3, <3>2
    <3>4. Sum(s \ {x}) = f[t] + Sum(r)
      BY <1>3, <2>3, <3>2
    <3>5. f[x] \in Int /\ f[t] \in Int /\ Sum(r) \in Int
      BY <1>2
    <3> QED BY <2>1, <3>3, <3>4, <3>5
  <2> QED BY <2>2, <2>3
<1>4. S \in T
  <2>1. \A s \in SUBSET S : (\A x \in s : s \ {x} \in T) => s \in T
    BY <1>3
  <2> HIDE DEF T
  <2>2. SUBSET S \subseteq T
    BY <2>1, Subsets
  <2> QED BY <2>2
<1> QED BY <1>4 DEF Sum

(* No term of a sum of natural numbers is above the sum.                   *)
LEMMA SumBound ==
  ASSUME NEW f, NEW S, IsFiniteSet(S), \A x \in S : f[x] \in Nat,
         NEW z \in S
  PROVE  f[z] <= SumFunctionOnSet(f, S)
<1>1. SumFunctionOnSet(f, S) = f[z] + SumFunctionOnSet(f, S \ {z})
  BY SumRemove
<1>2. IsFiniteSet(S \ {z})
  BY FS_Subset
<1>3. SumFunctionOnSet(f, S \ {z}) \in Nat
  BY <1>2, SumNat
<1> QED BY <1>1, <1>3

(* The same, adding an element.                                            *)
LEMMA SumAdd ==
  ASSUME NEW f, NEW S, IsFiniteSet(S), \A x \in S : f[x] \in Int,
         NEW z, z \notin S, f[z] \in Int
  PROVE  SumFunctionOnSet(f, S \cup {z}) = f[z] + SumFunctionOnSet(f, S)
<1>1. IsFiniteSet(S \cup {z})
  BY FS_AddElement
<1>2. (S \cup {z}) \ {z} = S
  OBVIOUS
<1> QED BY <1>1, <1>2, SumRemove

(* Functions that agree on a set have the same sum over it.                *)
LEMMA SumSame ==
  ASSUME NEW f, NEW g, NEW S, IsFiniteSet(S), \A x \in S : f[x] = g[x]
  PROVE  SumFunctionOnSet(f, S) = SumFunctionOnSet(g, S)
<1> DEFINE T == {s \in SUBSET S :
                   SumFunctionOnSet(f, s) = SumFunctionOnSet(g, s)}
<1>1. ASSUME NEW s \in SUBSET S, \A x \in s : s \ {x} \in T
      PROVE  s \in T
  <2>1. IsFiniteSet(s)
    BY FS_Subset
  <2>2. s # {} => Taken(s) \in s
    BY DEF Taken
  <2>3. CASE s = {}
    BY <2>3, SumEmpty
  <2>4. CASE s # {}
    <3>1. SumFunctionOnSet(f, s) =
            f[Taken(s)] + SumFunctionOnSet(f, s \ {Taken(s)})
      BY <2>1, <2>4, SumDef
    <3>2. SumFunctionOnSet(g, s) =
            g[Taken(s)] + SumFunctionOnSet(g, s \ {Taken(s)})
      BY <2>1, <2>4, SumDef
    <3> QED BY <1>1, <2>2, <2>4, <3>1, <3>2
  <2> QED BY <2>3, <2>4
<1> HIDE DEF T
<1>2. SUBSET S \subseteq T
  BY <1>1, Subsets
<1> QED BY <1>2 DEF T

(* Changing one value changes the sum by as much.                          *)
LEMMA SumChange ==
  ASSUME NEW f, NEW g, NEW S, IsFiniteSet(S),
         \A x \in S : f[x] \in Int /\ g[x] \in Int,
         NEW z \in S, \A x \in S \ {z} : f[x] = g[x]
  PROVE  SumFunctionOnSet(g, S) = SumFunctionOnSet(f, S) + (g[z] - f[z])
<1>1. IsFiniteSet(S \ {z})
  BY FS_RemoveElement
<1>2. SumFunctionOnSet(f, S \ {z}) = SumFunctionOnSet(g, S \ {z})
  BY <1>1, SumSame
<1>3. SumFunctionOnSet(f, S \ {z}) \in Int
  BY <1>1, SumInt
<1>4. /\ SumFunctionOnSet(f, S) = f[z] + SumFunctionOnSet(f, S \ {z})
      /\ SumFunctionOnSet(g, S) = g[z] + SumFunctionOnSet(g, S \ {z})
  BY SumRemove
<1>5. f[z] \in Int /\ g[z] \in Int
  OBVIOUS
<1> QED BY <1>2, <1>3, <1>4, <1>5

(* Values that are zero add nothing.                                       *)
LEMMA SumZeros ==
  ASSUME NEW f, NEW S, IsFiniteSet(S), NEW R \in SUBSET S,
         \A x \in S : f[x] \in Int, \A x \in S \ R : f[x] = 0
  PROVE  SumFunctionOnSet(f, S) = SumFunctionOnSet(f, R)
<1> DEFINE Sum(s) == SumFunctionOnSet(f, s)
           T == {s \in SUBSET S : R \subseteq s => Sum(s) = Sum(R)}
<1>1. \A s \in SUBSET S : IsFiniteSet(s) /\ Sum(s) \in Int
  BY SumInt, FS_Subset
<1>2. \A s \in SUBSET S : \A x \in s : Sum(s) = f[x] + Sum(s \ {x})
  BY <1>1, SumRemove
<1> HIDE DEF Sum
<1>3. ASSUME NEW s \in SUBSET S, \A x \in s : s \ {x} \in T, R \subseteq s
      PROVE  Sum(s) = Sum(R)
  <2>1. CASE s = R
    BY <2>1
  <2>2. CASE s # R
    <3>1. PICK x \in s : x \notin R
      BY <1>3, <2>2
    <3>2. Sum(s) = f[x] + Sum(s \ {x}) /\ f[x] = 0
      BY <1>2, <3>1
    <3>3. Sum(s \ {x}) = Sum(R) /\ Sum(R) \in Int
      BY <1>1, <1>3, <3>1
    <3> QED BY <3>2, <3>3
  <2> QED BY <2>1, <2>2
<1>4. S \in T
  <2>1. \A s \in SUBSET S : (\A x \in s : s \ {x} \in T) => s \in T
    BY <1>3
  <2> HIDE DEF T
  <2>2. SUBSET S \subseteq T
    BY <2>1, Subsets
  <2> QED BY <2>2
<1> QED BY <1>4 DEF Sum

(* The image of a finite set is finite.                                    *)
LEMMA ImageFinite ==
  ASSUME NEW S, IsFiniteSet(S), NEW r
  PROVE  /\ IsFiniteSet({r[x] : x \in S})
         /\ Cardinality({r[x] : x \in S}) <= Cardinality(S)
<1> DEFINE h == [x \in S |-> r[x]]
           I == {r[x] : x \in S}
<1>1. h \in Surjection(S, I)
  BY DEF Surjection
<1> HIDE DEF h, I
<1>2. IsFiniteSet(I) /\ Cardinality(I) <= Cardinality(S)
  BY <1>1, FS_Surjection
<1> QED BY <1>2 DEF I

(* Renaming the indices of the values with a bijection r does not change   *)
(* the sum.                                                                *)
Renames(r, f, S, g, I) ==
  /\ \A x \in S : r[x] \in I /\ f[x] \in Int /\ g[r[x]] = f[x]
  /\ \A x, y \in S : r[x] = r[y] => x = y
  /\ \A i \in I : \E x \in S : i = r[x]

LEMMA SumRenamed ==
  ASSUME NEW S, IsFiniteSet(S), NEW f, NEW g, NEW r, NEW I,
         Renames(r, f, S, g, I)
  PROVE  SumFunctionOnSet(g, I) = SumFunctionOnSet(f, S)
<1> DEFINE Image(s) == {r[x] : x \in s}
           T == {s \in SUBSET S : SumFunctionOnSet(g, Image(s)) =
                                  SumFunctionOnSet(f, s)}
<1>0. /\ \A x \in S : f[x] \in Int /\ g[r[x]] = f[x]
      /\ \A x, y \in S : r[x] = r[y] => x = y
  BY DEF Renames
<1>1. ASSUME NEW s \in SUBSET S, \A x \in s : s \ {x} \in T
      PROVE  s \in T
  <2>1. IsFiniteSet(s)
    BY FS_Subset
  <2>2. CASE s = {}
    <3>1. Image(s) = {}
      BY <2>2
    <3> HIDE DEF Image
    <3> QED BY <2>2, <3>1, SumEmpty
  <2>3. CASE s # {}
    <3>1. PICK x \in s : TRUE
      BY <2>3
    <3>2. Image(s) = Image(s \ {x}) \cup {r[x]} /\ r[x] \notin Image(s \ {x})
      BY <1>0
    <3>3. \A i \in Image(s \ {x}) : g[i] \in Int
      BY <1>0
    <3>4. IsFiniteSet(Image(s \ {x}))
      <4>1. IsFiniteSet(s \ {x})
        BY <2>1, FS_RemoveElement
      <4> QED BY <4>1, ImageFinite
    <3>5. SumFunctionOnSet(g, Image(s \ {x})) = SumFunctionOnSet(f, s \ {x})
      BY <1>1
    <3>6. SumFunctionOnSet(f, s) = f[x] + SumFunctionOnSet(f, s \ {x})
      <4>1. \A y \in s : f[y] \in Int
        BY <1>0
      <4> QED BY <2>1, <4>1, SumRemove
    <3>7. g[r[x]] \in Int /\ g[r[x]] = f[x]
      BY <1>0
    <3> HIDE DEF Image
    <3>8. SumFunctionOnSet(g, Image(s)) =
            g[r[x]] + SumFunctionOnSet(g, Image(s \ {x}))
      BY <3>2, <3>3, <3>4, <3>7, SumAdd
    <3>9. SumFunctionOnSet(g, Image(s)) = SumFunctionOnSet(f, s)
      BY <3>5, <3>6, <3>7, <3>8
    <3> QED BY <3>9
  <2> QED BY <2>2, <2>3
<1> HIDE DEF T
<1>2. SUBSET S \subseteq T
  BY <1>1, Subsets
<1>3. I = Image(S)
  BY DEF Renames
<1> QED BY <1>2, <1>3 DEF T
-----------------------------------------------------------------------------
(* The sum of the weights of the elements of a sequence.                   *)
Weigh(weight, s) == SumFunction([i \in DOMAIN s |-> weight[s[i]]])

LEMMA WeighNat ==
  ASSUME NEW S, NEW weight \in [S -> Nat], NEW s \in Seq(S)
  PROVE  Weigh(weight, s) \in Nat
<1> DEFINE f == [i \in DOMAIN s |-> weight[s[i]]]
<1>1. DOMAIN s = 1..Len(s) /\ Len(s) \in Nat
  BY LenProperties
<1>2. IsFiniteSet(1..Len(s))
  BY <1>1, FS_Interval
<1>3. \A i \in DOMAIN s : f[i] \in Nat
  BY <1>1, ElementOfSeq
<1>4. SumFunctionOnSet(f, DOMAIN s) \in Nat
  <2> HIDE DEF f
  <2> QED BY <1>1, <1>2, <1>3, SumNat
<1> QED BY <1>4 DEF Weigh, SumFunction

LEMMA WeighEmpty ==
  ASSUME NEW weight
  PROVE  Weigh(weight, <<>>) = 0
<1> DEFINE f == [i \in DOMAIN <<>> |-> weight[<<>>[i]]]
<1>1. DOMAIN f = {}
  OBVIOUS
<1>2. SumFunctionOnSet(f, {}) = 0
  BY SumEmpty
<1> QED BY <1>1, <1>2 DEF Weigh, SumFunction

LEMMA WeighAppend ==
  ASSUME NEW S, NEW weight \in [S -> Nat], NEW s \in Seq(S), NEW x \in S
  PROVE  Weigh(weight, Append(s, x)) = Weigh(weight, s) + weight[x]
<1> DEFINE n == Len(s)
           f == [i \in DOMAIN s |-> weight[s[i]]]
           g == [i \in DOMAIN Append(s, x) |-> weight[Append(s, x)[i]]]
<1>1. n \in Nat /\ DOMAIN s = 1..n /\ DOMAIN Append(s, x) = 1..(n + 1)
  BY LenProperties, AppendProperties
<1>2. IsFiniteSet(1..n)
  BY <1>1, FS_Interval
<1>3. /\ \A i \in 1..n : f[i] \in Nat /\ g[i] = f[i]
      /\ g[n + 1] = weight[x] /\ g[n + 1] \in Nat
  BY <1>1, ElementOfSeq, AppendProperties
<1>4. 1..(n + 1) = (1..n) \cup {n + 1} /\ n + 1 \notin 1..n
  BY <1>1
<1>5. SumFunctionOnSet(g, 1..(n + 1)) = g[n + 1] + SumFunctionOnSet(g, 1..n)
  <2> HIDE DEF f, g, n
  <2>1. (\A i \in 1..n : g[i] \in Int) /\ g[n + 1] \in Int
    BY <1>3
  <2>2. n + 1 \notin 1..n
    BY <1>4
  <2>3. SumFunctionOnSet(g, (1..n) \cup {n + 1})
          = g[n + 1] + SumFunctionOnSet(g, 1..n)
    BY <1>2, <2>1, <2>2, SumAdd
  <2> QED BY <1>4, <2>3
<1>6. SumFunctionOnSet(g, 1..n) = SumFunctionOnSet(f, 1..n)
  <2> HIDE DEF f, g
  <2> QED BY <1>2, <1>3, SumSame
<1>7. SumFunctionOnSet(f, 1..n) \in Nat
  <2> HIDE DEF f
  <2> QED BY <1>2, <1>3, SumNat
<1>8. Weigh(weight, s) = SumFunctionOnSet(f, 1..n)
  BY <1>1 DEF Weigh, SumFunction
<1>9. Weigh(weight, Append(s, x)) = SumFunctionOnSet(g, 1..(n + 1))
  BY <1>1 DEF Weigh, SumFunction
<1> HIDE DEF f, g
<1> QED BY <1>3, <1>5, <1>6, <1>7, <1>8, <1>9

(* A sequence of one element has its head and nothing else.                *)
LEMMA OneElement ==
  ASSUME NEW S, NEW s \in Seq(S), s # <<>>, Len(s) <= 1
  PROVE  Head(s) \in S /\ s = <<Head(s)>>
<1>1. Len(s) = 1
  <2>1. Len(s) \in Nat \ {0}
    BY EmptySeq
  <2> QED BY <2>1
<1>2. Head(s) \in S
  OBVIOUS
<1>3. <<Head(s)>> \in Seq(S) /\ Len(<<Head(s)>>) = 1
  BY <1>2
<1>4. \A i \in 1..Len(s) : s[i] = <<Head(s)>>[i]
  BY <1>1
<1>5. s = <<Head(s)>>
  BY <1>1, <1>3, <1>4, SeqEqual
<1> QED BY <1>2, <1>5

LEMMA WeighOne ==
  ASSUME NEW S, NEW weight \in [S -> Nat], NEW x \in S
  PROVE  Weigh(weight, <<x>>) = weight[x]
<1>1. <<>> \in Seq(S) /\ <<x>> = Append(<<>>, x)
  OBVIOUS
<1>2. Weigh(weight, Append(<<>>, x)) = Weigh(weight, <<>>) + weight[x]
  BY <1>1, WeighAppend
<1>3. weight[x] \in Nat
  OBVIOUS
<1> QED BY <1>1, <1>2, <1>3, WeighEmpty

LEMMA WeighTail ==
  ASSUME NEW S, NEW weight \in [S -> Nat], NEW s \in Seq(S), s # <<>>
  PROVE  Weigh(weight, s) = weight[Head(s)] + Weigh(weight, Tail(s))
<1> DEFINE n == Len(s)
           f == [i \in DOMAIN s |-> weight[s[i]]]
           g == [i \in DOMAIN Tail(s) |-> weight[Tail(s)[i]]]
           r == [i \in 1..n |-> i - 1]
<1>1. /\ n \in Nat \ {0} /\ DOMAIN s = 1..n /\ DOMAIN Tail(s) = 1..(n - 1)
  BY LenProperties, EmptySeq, HeadTailProperties
<1>2. IsFiniteSet(1..n) /\ IsFiniteSet(2..n)
  BY <1>1, FS_Interval
<1>3. /\ \A i \in 1..n : f[i] \in Nat
      /\ f[1] = weight[Head(s)]
      /\ \A i \in 1..(n - 1) : g[i] = f[i + 1]
  BY <1>1, ElementOfSeq, HeadTailProperties
<1>4. (1..n) \ {1} = 2..n /\ 1 \in 1..n
  BY <1>1
<1>5. SumFunctionOnSet(f, 1..n) = f[1] + SumFunctionOnSet(f, 2..n)
  <2> DEFINE D == 1..n
             z == 1
  <2>1. IsFiniteSet(D) /\ z \in D /\ D \ {z} = 2..n
    BY <1>2, <1>4
  <2>2. \A i \in D : f[i] \in Int
    BY <1>3
  <2>3. SumFunctionOnSet(f, D) = f[z] + SumFunctionOnSet(f, D \ {z})
    <3> HIDE DEF f, D, z
    <3> QED BY <2>1, <2>2, SumRemove
  <2> QED BY <2>1, <2>3
<1>6. SumFunctionOnSet(g, 1..(n - 1)) = SumFunctionOnSet(f, 2..n)
  <2>1. Renames(r, f, 2..n, g, 1..(n - 1))
    <3>1. r \in [1..n -> Int]
      BY <1>1
    <3> HIDE DEF f, g
    <3> QED BY <1>1, <1>3, <3>1 DEF Renames
  <2> HIDE DEF f, g, r
  <2> QED BY <1>2, <2>1, SumRenamed
<1>7. Weigh(weight, s) = SumFunctionOnSet(f, 1..n)
  BY <1>1 DEF Weigh, SumFunction
<1>8. Weigh(weight, Tail(s)) = SumFunctionOnSet(g, 1..(n - 1))
  BY <1>1 DEF Weigh, SumFunction
<1> HIDE DEF f, g
<1> QED BY <1>3, <1>5, <1>6, <1>7, <1>8
=============================================================================
