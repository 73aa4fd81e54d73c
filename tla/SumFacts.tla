-------------------------------- MODULE SumFacts --------------------------------
(***************************************************************************)
(* Facts about numbers and finite sets that the proofs of several modules  *)
(* need: extreme elements, and sums of a function over a set of indices.   *)
(* Where an induction is called for, the proof takes a smallest            *)
(* counterexample.                                                         *)
(***************************************************************************)
EXTENDS FiniteSetsExt, TLAPS, FiniteSetTheorems, WellFoundedInduction

LEMMA LeastExists ==
  ASSUME NEW S \in SUBSET Nat, S # {}
  PROVE  \E n \in S : \A m \in S : n <= m
<1> DEFINE Less == OpToRel(<, Nat)
<1>1. IsWellFoundedOn(Less, Nat)
  BY NatLessThanWellFounded
<1>2. \A m, n \in Nat : <<m, n>> \in Less <=> m < n
  BY DEF OpToRel
<1> HIDE DEF Less
<1>3. PICK n \in S : \A m \in S : <<m, n>> \notin Less
  BY <1>1, WFMin
<1>4. \A m \in S : n <= m
  <2> TAKE m \in S
  <2>1. m \in Nat /\ n \in Nat
    OBVIOUS
  <2>2. ~(m < n)
    BY <1>2, <1>3, <2>1, Zenon
  <2> QED
    BY <2>1, <2>2
<1> QED
  BY <1>4

LEMMA GreatestExists ==
  ASSUME NEW b \in Nat, NEW S \in SUBSET 1..b, S # {}
  PROVE  \E n \in S : \A m \in S : m <= n
<1> DEFINE T == {x \in 0..b : b - x \in S}
<1>1. T \in SUBSET Nat
  OBVIOUS
<1>2. PICK s \in S : TRUE
  OBVIOUS
<1>3. b - s \in T
  <2>1. s \in 1..b /\ b - s \in 0..b /\ b - (b - s) = s
    OBVIOUS
  <2> QED
    BY <2>1
<1>4. PICK x \in T : \A y \in T : x <= y
  BY <1>1, <1>3, LeastExists
<1>5. \A m \in S : m <= b - x
  <2> TAKE m \in S
  <2>1. m \in 1..b /\ b - m \in 0..b /\ b - (b - m) = m
    OBVIOUS
  <2>2. b - m \in T
    BY <2>1
  <2>3. x <= b - m
    BY <1>4, <2>2
  <2> QED
    BY <2>1, <2>3
<1> QED
  BY <1>5

-----------------------------------------------------------------------------
(***************************************************************************)
(* A family of subsets of a finite set has a member from which no element  *)
(* can be taken without leaving the family.                                *)
(***************************************************************************)
LEMMA SmallestSet ==
  ASSUME NEW S, IsFiniteSet(S), NEW B \in SUBSET SUBSET S, B # {}
  PROVE  \E s \in B : IsFiniteSet(s) /\ \A x \in s : s \ {x} \notin B
<1>1. \A s \in B : IsFiniteSet(s) /\ Cardinality(s) \in Nat
  BY FS_Subset, FS_CardinalityType
<1> DEFINE sizes == {Cardinality(s) : s \in B}
<1>2. PICK n \in sizes : \A m \in sizes : n <= m
  <2>1. sizes \in SUBSET Nat /\ sizes # {}
    BY <1>1
  <2> HIDE DEF sizes
  <2> QED
    BY <2>1, LeastExists
<1>3. PICK s \in B : n = Cardinality(s)
  BY <1>2
<1>4. ASSUME NEW x \in s, s \ {x} \in B
      PROVE  FALSE
  <2>1. Cardinality(s \ {x}) = Cardinality(s) - 1
    BY <1>1, <1>3, FS_RemoveElement
  <2>2. n <= Cardinality(s \ {x})
    BY <1>2, <1>4
  <2> QED
    BY <1>1, <1>3, <2>1, <2>2
<1> QED
  BY <1>1, <1>3, <1>4

(***************************************************************************)
(* The recursive function on the subsets of the indices that               *)
(* SumFunctionOnSet is defined with.                                       *)
(***************************************************************************)
Pick(s) == CHOOSE x \in s : TRUE

Sums(f, S, iter) ==
  iter = [s \in SUBSET S |-> IF s = {} THEN 0 ELSE f[Pick(s)] + iter[s \ {Pick(s)}]]

LEMMA SumByDefinition ==
  ASSUME NEW f, NEW S
  PROVE  SumFunctionOnSet(f, S) = (CHOOSE iter : Sums(f, S, iter))[S]
BY DEF SumFunctionOnSet, FoldFunctionOnSet, MapThenFoldSet, Sums, Pick

\* It exists: on the subsets of at most n elements, for every n.
LEMMA SumsExists ==
  ASSUME NEW f, NEW S, IsFiniteSet(S)
  PROVE  \E iter : Sums(f, S, iter)
<1> DEFINE Small(n) == {s \in SUBSET S : Cardinality(s) <= n}
           Upto(n, iter) ==
             iter = [s \in Small(n) |-> IF s = {} THEN 0
                                        ELSE f[Pick(s)] + iter[s \ {Pick(s)}]]
           Bad == {n \in Nat : \A iter : ~Upto(n, iter)}
<1>1. \A s \in SUBSET S : IsFiniteSet(s) /\ Cardinality(s) \in Nat
  BY FS_Subset, FS_CardinalityType
<1>2. \A s \in SUBSET S : s # {} => /\ Pick(s) \in s
                                    /\ s \ {Pick(s)} \in SUBSET S
                                    /\ Cardinality(s \ {Pick(s)}) = Cardinality(s) - 1
  BY <1>1, FS_RemoveElement DEF Pick
<1>3. Bad = {}
  <2> SUFFICES ASSUME Bad # {} PROVE FALSE
    OBVIOUS
  <2>1. PICK n \in Bad : \A m \in Bad : n <= m
    <3>1. Bad \in SUBSET Nat
      OBVIOUS
    <3> HIDE DEF Bad
    <3> QED
      BY <3>1, LeastExists
  <2>2. CASE n = 0
    <3>1. Small(0) = {{}}
      <4>1. \A s \in SUBSET S : Cardinality(s) <= 0 <=> s = {}
        BY <1>1, FS_EmptySet
      <4> QED
        BY <4>1
    <3> DEFINE it == [s \in Small(0) |-> 0]
    <3>2. Upto(0, it)
      BY <3>1
    <3>3. 0 \in Bad
      BY <2>1, <2>2
    <3> HIDE DEF Upto, it
    <3>4. \A i : ~Upto(0, i)
      BY <3>3
    <3> QED
      BY <3>2, <3>4
  <2>3. CASE n # 0
    <3>1. n \in Nat /\ n - 1 \in Nat /\ ~(n <= n - 1)
      BY <2>3
    <3>2. PICK old : Upto(n - 1, old)
      <4>1. n - 1 \notin Bad
        <5> HIDE DEF Bad
        <5> QED
          BY <2>1, <3>1
      <4> HIDE DEF Upto
      <4> QED
        BY <3>1, <4>1
    <3> DEFINE new == [s \in Small(n) |-> IF s = {} THEN 0
                                          ELSE f[Pick(s)] + old[s \ {Pick(s)}]]
    <3>3. \A s \in Small(n - 1) : s \in Small(n) /\ new[s] = old[s]
      <4>1. \A s \in Small(n - 1) : s \in Small(n)
        BY <1>1, <3>1
      <4>2. \A s \in Small(n - 1) :
              old[s] = IF s = {} THEN 0 ELSE f[Pick(s)] + old[s \ {Pick(s)}]
        BY <3>2
      <4> QED
        BY <4>1, <4>2
    <3>4. \A s \in Small(n) : s # {} => s \ {Pick(s)} \in Small(n - 1)
      BY <1>1, <1>2, <3>1
    <3>5. \A s \in Small(n) : s # {} => old[s \ {Pick(s)}] = new[s \ {Pick(s)}]
      BY <3>3, <3>4
    <3>6. new = [s \in Small(n) |-> IF s = {} THEN 0
                                    ELSE f[Pick(s)] + new[s \ {Pick(s)}]]
      <4> DEFINE next(s, it) == IF s = {} THEN 0 ELSE f[Pick(s)] + it[s \ {Pick(s)}]
      <4>1. \A s \in Small(n) : next(s, old) = next(s, new)
        BY <3>5
      <4>2. new = [s \in Small(n) |-> next(s, old)]
        OBVIOUS
      <4> HIDE DEF new, next, Small
      <4>3. new = [s \in Small(n) |-> next(s, new)]
        BY <4>1, <4>2
      <4> QED
        BY <4>3 DEF next
    <3> QED
      BY <2>1, <3>6
  <2> QED
    BY <2>2, <2>3
<1>4. Cardinality(S) \in Nat /\ Cardinality(S) \notin Bad
  BY <1>1, <1>3
<1>5. PICK iter : Upto(Cardinality(S), iter)
  BY <1>4
<1>6. Small(Cardinality(S)) = SUBSET S
  BY FS_Subset
<1> QED
  BY <1>5, <1>6 DEF Sums

\* Two such functions agree where both are defined.
LEMMA SumsAgree ==
  ASSUME NEW f, NEW S, IsFiniteSet(S), NEW T \in SUBSET S,
         NEW i, Sums(f, S, i), NEW j, Sums(f, T, j)
  PROVE  i[T] = j[T]
<1> DEFINE Bad == {s \in SUBSET T : i[s] # j[s]}
<1>1. \A s \in SUBSET T : /\ i[s] = IF s = {} THEN 0 ELSE f[Pick(s)] + i[s \ {Pick(s)}]
                          /\ j[s] = IF s = {} THEN 0 ELSE f[Pick(s)] + j[s \ {Pick(s)}]
  <2>1. \A s \in SUBSET S : i[s] = IF s = {} THEN 0 ELSE f[Pick(s)] + i[s \ {Pick(s)}]
    BY DEF Sums
  <2>2. \A s \in SUBSET T : j[s] = IF s = {} THEN 0 ELSE f[Pick(s)] + j[s \ {Pick(s)}]
    BY DEF Sums
  <2> QED
    BY <2>1, <2>2
<1>2. Bad = {}
  <2> SUFFICES ASSUME Bad # {} PROVE FALSE
    OBVIOUS
  <2>1. Bad \in SUBSET SUBSET S
    OBVIOUS
  <2>2. PICK s \in Bad : \A x \in s : s \ {x} \notin Bad
    <3> HIDE DEF Bad
    <3> QED
      BY <2>1, SmallestSet
  <2>3. s # {}
    BY <1>1, <2>2
  <2>4. Pick(s) \in s
    BY <2>3 DEF Pick
  <2>5. i[s \ {Pick(s)}] = j[s \ {Pick(s)}]
    BY <2>2, <2>4
  <2> QED
    BY <1>1, <2>2, <2>3, <2>5
<1> QED
  BY <1>2

LEMMA SumIsFunction ==
  ASSUME NEW f, NEW S, IsFiniteSet(S)
  PROVE  \E i : Sums(f, S, i) /\ \A T \in SUBSET S : SumFunctionOnSet(f, T) = i[T]
<1>1. PICK i : Sums(f, S, i)
  BY SumsExists
<1>2. ASSUME NEW T \in SUBSET S
      PROVE  SumFunctionOnSet(f, T) = i[T]
  <2> DEFINE j == CHOOSE iter : Sums(f, T, iter)
  <2>1. IsFiniteSet(T)
    BY FS_Subset
  <2>2. Sums(f, T, j)
    BY <2>1, SumsExists
  <2>3. i[T] = j[T]
    <3> HIDE DEF j
    <3> QED
      BY <1>1, <2>2, SumsAgree
  <2> QED
    BY <2>3, SumByDefinition
<1> QED
  BY <1>1, <1>2

LEMMA SumUnfolds ==
  ASSUME NEW f, NEW S, IsFiniteSet(S)
  PROVE  SumFunctionOnSet(f, S) =
           IF S = {} THEN 0 ELSE f[Pick(S)] + SumFunctionOnSet(f, S \ {Pick(S)})
<1>1. PICK i : Sums(f, S, i) /\ \A T \in SUBSET S : SumFunctionOnSet(f, T) = i[T]
  BY SumIsFunction
<1>2. i[S] = IF S = {} THEN 0 ELSE f[Pick(S)] + i[S \ {Pick(S)}]
  BY <1>1 DEF Sums
<1> QED
  BY <1>1, <1>2

-----------------------------------------------------------------------------
(***************************************************************************)
(* What the proofs use of sums of natural numbers.                         *)
(***************************************************************************)
LEMMA SumOfNone ==
  ASSUME NEW f
  PROVE  SumFunctionOnSet(f, {}) = 0
BY SumUnfolds, FS_EmptySet

LEMMA SumType ==
  ASSUME NEW S, IsFiniteSet(S), NEW f, \A x \in S : f[x] \in Nat
  PROVE  SumFunctionOnSet(f, S) \in Nat
<1> DEFINE Bad == {s \in SUBSET S : SumFunctionOnSet(f, s) \notin Nat}
<1>1. Bad = {}
  <2> SUFFICES ASSUME Bad # {} PROVE FALSE
    OBVIOUS
  <2>1. Bad \in SUBSET SUBSET S
    OBVIOUS
  <2>2. PICK s \in Bad : IsFiniteSet(s) /\ \A x \in s : s \ {x} \notin Bad
    <3> HIDE DEF Bad
    <3> QED
      BY <2>1, SmallestSet
  <2>3. s # {}
    BY <2>2, SumOfNone
  <2>4. Pick(s) \in s
    BY <2>3 DEF Pick
  <2>5. SumFunctionOnSet(f, s \ {Pick(s)}) \in Nat /\ f[Pick(s)] \in Nat
    BY <2>2, <2>4
  <2>6. SumFunctionOnSet(f, s) = f[Pick(s)] + SumFunctionOnSet(f, s \ {Pick(s)})
    BY <2>2, <2>3, SumUnfolds
  <2> QED
    BY <2>2, <2>5, <2>6
<1> QED
  BY <1>1

\* The order of summation does not matter.
LEMMA SumTakesOut ==
  ASSUME NEW S, IsFiniteSet(S), NEW f, \A x \in S : f[x] \in Nat, NEW x \in S
  PROVE  SumFunctionOnSet(f, S) = f[x] + SumFunctionOnSet(f, S \ {x})
<1> DEFINE Bad == {s \in SUBSET S :
             \E y \in s : SumFunctionOnSet(f, s) # f[y] + SumFunctionOnSet(f, s \ {y})}
<1>1. Bad = {}
  <2> SUFFICES ASSUME Bad # {} PROVE FALSE
    OBVIOUS
  <2>1. Bad \in SUBSET SUBSET S
    OBVIOUS
  <2>2. PICK s \in Bad : IsFiniteSet(s) /\ \A z \in s : s \ {z} \notin Bad
    <3> HIDE DEF Bad
    <3> QED
      BY <2>1, SmallestSet
  <2>3. PICK y \in s : SumFunctionOnSet(f, s) # f[y] + SumFunctionOnSet(f, s \ {y})
    BY <2>2
  <2> DEFINE c == Pick(s)
  <2>4. c \in s
    BY <2>3 DEF Pick
  <2> HIDE DEF c
  <2>5. SumFunctionOnSet(f, s) = f[c] + SumFunctionOnSet(f, s \ {c})
    BY <2>2, <2>3, SumUnfolds DEF c
  <2>6. y # c
    BY <2>3, <2>5
  <2> DEFINE r == (s \ {c}) \ {y}
  <2>7. SumFunctionOnSet(f, s \ {c}) = f[y] + SumFunctionOnSet(f, r)
    BY <2>2, <2>3, <2>4, <2>6
  <2>8. SumFunctionOnSet(f, s \ {y}) = f[c] + SumFunctionOnSet(f, r)
    <3>1. (s \ {y}) \ {c} = r
      OBVIOUS
    <3>2. SumFunctionOnSet(f, s \ {y}) = f[c] + SumFunctionOnSet(f, (s \ {y}) \ {c})
      BY <2>2, <2>3, <2>4, <2>6
    <3> QED
      BY <3>1, <3>2
  <2>9. f[c] \in Nat /\ f[y] \in Nat /\ SumFunctionOnSet(f, r) \in Nat
    <3>1. r \in SUBSET S /\ f[c] \in Nat /\ f[y] \in Nat
      BY <2>2, <2>3, <2>4
    <3>2. IsFiniteSet(r)
      BY <3>1, FS_Subset
    <3> QED
      BY <3>1, <3>2, SumType
  <2> HIDE DEF r
  <2> QED
    BY <2>3, <2>5, <2>7, <2>8, <2>9
<1> QED
  BY <1>1

\* Only the summands matter.
LEMMA SumDependsOn ==
  ASSUME NEW S, IsFiniteSet(S), NEW f, NEW g, \A x \in S : f[x] = g[x]
  PROVE  SumFunctionOnSet(f, S) = SumFunctionOnSet(g, S)
<1> DEFINE Bad == {s \in SUBSET S : SumFunctionOnSet(f, s) # SumFunctionOnSet(g, s)}
<1>1. Bad = {}
  <2> SUFFICES ASSUME Bad # {} PROVE FALSE
    OBVIOUS
  <2>1. Bad \in SUBSET SUBSET S
    OBVIOUS
  <2>2. PICK s \in Bad : IsFiniteSet(s) /\ \A x \in s : s \ {x} \notin Bad
    <3> HIDE DEF Bad
    <3> QED
      BY <2>1, SmallestSet
  <2>3. s # {}
    BY <2>2, SumOfNone
  <2>4. Pick(s) \in s
    BY <2>3 DEF Pick
  <2>5. SumFunctionOnSet(f, s \ {Pick(s)}) = SumFunctionOnSet(g, s \ {Pick(s)})
    BY <2>2, <2>4
  <2>6. /\ SumFunctionOnSet(f, s) = f[Pick(s)] + SumFunctionOnSet(f, s \ {Pick(s)})
        /\ SumFunctionOnSet(g, s) = g[Pick(s)] + SumFunctionOnSet(g, s \ {Pick(s)})
    BY <2>2, <2>3, SumUnfolds
  <2> QED
    BY <2>2, <2>4, <2>5, <2>6
<1> QED
  BY <1>1

LEMMA SumOfZeros ==
  ASSUME NEW S, IsFiniteSet(S), NEW f, \A x \in S : f[x] = 0
  PROVE  SumFunctionOnSet(f, S) = 0
<1> DEFINE Bad == {s \in SUBSET S : SumFunctionOnSet(f, s) # 0}
<1>1. Bad = {}
  <2> SUFFICES ASSUME Bad # {} PROVE FALSE
    OBVIOUS
  <2>1. Bad \in SUBSET SUBSET S
    OBVIOUS
  <2>2. PICK s \in Bad : IsFiniteSet(s) /\ \A x \in s : s \ {x} \notin Bad
    <3> HIDE DEF Bad
    <3> QED
      BY <2>1, SmallestSet
  <2>3. s # {}
    BY <2>2, SumOfNone
  <2>4. Pick(s) \in s
    BY <2>3 DEF Pick
  <2>5. SumFunctionOnSet(f, s \ {Pick(s)}) = 0 /\ f[Pick(s)] = 0
    BY <2>2, <2>4
  <2>6. SumFunctionOnSet(f, s) = f[Pick(s)] + SumFunctionOnSet(f, s \ {Pick(s)})
    BY <2>2, <2>3, SumUnfolds
  <2> QED
    BY <2>2, <2>5, <2>6
<1> QED
  BY <1>1

\* A sum of which one summand changes.
LEMMA SumChanges ==
  ASSUME NEW S, IsFiniteSet(S), NEW x \in S,
         NEW f, \A y \in S : f[y] \in Nat, NEW g, g[x] \in Nat,
         \A y \in S \ {x} : g[y] = f[y]
  PROVE  /\ SumFunctionOnSet(g, S) + f[x] = SumFunctionOnSet(f, S) + g[x]
         /\ SumFunctionOnSet(f, S) \in Nat /\ SumFunctionOnSet(g, S) \in Nat
         /\ f[x] <= SumFunctionOnSet(f, S)
<1> DEFINE R == S \ {x}
<1>1. IsFiniteSet(R) /\ \A y \in S : g[y] \in Nat
  BY FS_Subset
<1>2. SumFunctionOnSet(f, S) = f[x] + SumFunctionOnSet(f, R)
  BY SumTakesOut
<1>3. SumFunctionOnSet(g, S) = g[x] + SumFunctionOnSet(g, R)
  BY <1>1, SumTakesOut
<1>4. SumFunctionOnSet(f, R) = SumFunctionOnSet(g, R)
  BY <1>1, SumDependsOn
<1>5. SumFunctionOnSet(f, R) \in Nat
  BY <1>1, SumType
<1> HIDE DEF R
<1> QED
  BY <1>2, <1>3, <1>4, <1>5

=============================================================================
