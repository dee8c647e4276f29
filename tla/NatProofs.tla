----------------------------- MODULE NatProofs -----------------------------
(***************************************************************************)
(* Facts about natural numbers that the other proofs rest on: they are      *)
(* well ordered, induction over them and up to a bound, functions defined   *)
(* by iteration, and sums over finite sets.                                 *)
(***************************************************************************)
EXTENDS Integers, FiniteSets, FiniteSetsExt, WellFoundedInduction, FiniteSetTheorems, TLAPS

(* The natural numbers are well ordered.  The intervals 0 .. x - 1 turn a   *)
(* set of naturals into a set of finite sets, where the strict subset       *)
(* ordering is well founded.                                                *)
LEMMA NatMin ==
    ASSUME NEW S \in SUBSET Nat, S # {}
    PROVE  Min(S) \in S /\ \A x \in S : Min(S) <= x
<1>1. PICK b \in S : TRUE
  OBVIOUS
<1> DEFINE U == 0 .. b - 1
           T == {0 .. x - 1 : x \in {y \in S : y <= b}}
           R == StrictSubsetOrdering(U)
<1>2. T \subseteq FiniteSubsetsOf(U) /\ T # {}
  <2>1. IsFiniteSet(U)
    BY FS_Interval
  <2>2. FiniteSubsetsOf(U) = SUBSET U
    BY <2>1, FS_FiniteSubsetsOfFinite
  <2> QED
    BY <2>2
<1>3. PICK X \in T : \A Y \in T : ~(<<Y, X>> \in R)
  <2>1. IsWellFoundedOn(R, FiniteSubsetsOf(U))
    BY FS_StrictSubsetOrderingWellFounded
  <2> HIDE DEF R, T, U
  <2> QED
    BY <1>2, <2>1, WFMin
<1>4. PICK x \in S : x <= b /\ X = 0 .. x - 1
  OBVIOUS
<1>5. \A y \in S : x <= y
  <2> SUFFICES ASSUME NEW y \in S, y < x PROVE FALSE
    OBVIOUS
  <2>1. 0 .. y - 1 \in T
    BY <1>4
  <2>2. 0 .. y - 1 \subseteq X /\ y \in X /\ y \notin 0 .. y - 1
    BY <1>4
  <2>3. <<0 .. y - 1, X>> \in R
    BY <1>4, <2>2 DEF StrictSubsetOrdering
  <2> QED
    BY <1>3, <2>1, <2>3
<1> QED
  BY <1>5 DEF Min

(* Induction over the naturals, and over the first of them, for a set.      *)
LEMMA NatInduct ==
    ASSUME NEW S \in SUBSET Nat, 0 \in S, \A k \in S : k + 1 \in S
    PROVE  S = Nat
<1> DEFINE M == Nat \ S
<1> SUFFICES ASSUME M # {} PROVE FALSE
  OBVIOUS
<1>1. Min(M) \in M /\ \A x \in M : Min(M) <= x
  BY NatMin
<1>2. Min(M) - 1 \in S
  <2> DEFINE m == Min(M)
  <2>1. m \in Nat /\ m # 0 /\ m - 1 \in Nat /\ ~(m <= m - 1)
    BY <1>1
  <2> QED BY <1>1, <2>1
<1> DEFINE m == Min(M)
<1>3. (m - 1) + 1 = m
  BY <1>1
<1> QED BY <1>1, <1>2, <1>3

LEMMA BoundedInduct ==
    ASSUME NEW n \in Nat, NEW S, 0 \in S, \A k \in 0 .. n : k \in S /\ k < n => k + 1 \in S
    PROVE  0 .. n \subseteq S
<1> DEFINE T == {k \in Nat : k <= n => k \in S}
<1>1. 0 \in T /\ \A k \in T : k + 1 \in T
  OBVIOUS
<1>2. T = Nat
  <2> HIDE DEF T
  <2>1. T \in SUBSET Nat
    BY DEF T
  <2> QED BY <1>1, <2>1, NatInduct
<1> QED BY <1>2

(* A function of the first naturals that applies step from start on.        *)
Iterates(f, D, step, start, n) ==
    /\ f \in [0 .. n -> D] /\ f[0] = start
    /\ \A k \in 1 .. n : f[k] = step[f[k - 1]]

LEMMA IteratesExist ==
    ASSUME NEW D, NEW step \in [D -> D], NEW start \in D, NEW n \in Nat
    PROVE  \E f : Iterates(f, D, step, start, n)
<1> DEFINE Iterate(f, k) == f[0] = start /\ \A j \in 1 .. k : f[j] = step[f[j - 1]]
           S == {k \in Nat : \E f \in [0 .. k -> D] : Iterate(f, k)}
<1>1. 0 \in S
  <2> DEFINE f == [k \in 0 .. 0 |-> start]
  <2>1. f \in [0 .. 0 -> D] /\ Iterate(f, 0)
    OBVIOUS
  <2> QED BY <2>1
<1>2. ASSUME NEW k \in S PROVE k + 1 \in S
  <2>1. PICK g \in [0 .. k -> D] : Iterate(g, k)
    BY <1>2
  <2>2. k \in Nat
    BY <1>2
  <2> DEFINE f == [j \in 0 .. k + 1 |-> IF j = k + 1 THEN step[g[k]] ELSE g[j]]
  <2>3. f \in [0 .. k + 1 -> D]
    BY <2>1, <2>2
  <2>4. \A j \in 1 .. k + 1 : f[j] = step[f[j - 1]]
    <3> SUFFICES ASSUME NEW j \in 1 .. k + 1 PROVE f[j] = step[f[j - 1]]
      OBVIOUS
    <3>1. CASE j = k + 1
      BY <3>1, <2>1, <2>2
    <3>2. CASE j # k + 1
      <4>1. j \in 1 .. k /\ f[j] = g[j] /\ f[j - 1] = g[j - 1]
        BY <3>2, <2>2
      <4> QED BY <4>1, <2>1
    <3> QED BY <3>1, <3>2
  <2>5. Iterate(f, k + 1)
    BY <2>1, <2>2, <2>4
  <2> HIDE DEF f
  <2> QED BY <2>2, <2>3, <2>5
<1>3. S = Nat
  <2> HIDE DEF S
  <2>1. S \in SUBSET Nat
    BY DEF S
  <2> QED BY <1>1, <1>2, <2>1, NatInduct
<1> QED BY <1>3 DEF Iterates

-----------------------------------------------------------------------------
(* Sums over finite sets.                                                   *)

SumOf(f, S) == MapThenSumSet(LAMBDA x : f[x], S)

(* What SumOf chooses: a function of the subsets of S.                      *)
Sums(g, f, S) ==
    g = [s \in SUBSET S |-> IF s = {} THEN 0
                            ELSE LET x == CHOOSE x \in s : TRUE IN f[x] + g[s \ {x}]]

LEMMA SumIsChosen == \A f, S : SumOf(f, S) = (CHOOSE g : Sums(g, f, S))[S]
BY Zenon DEF SumOf, MapThenSumSet, MapThenFoldSet, Sums

(* Subsets of a finite set of at most so many elements.                     *)
LEMMA SubsetSizes ==
    ASSUME NEW S, IsFiniteSet(S), NEW s \in SUBSET S
    PROVE  /\ IsFiniteSet(s) /\ Cardinality(s) \in 0 .. Cardinality(S)
           /\ Cardinality(s) = 0 <=> s = {}
           /\ \A x \in s : s \ {x} \in SUBSET S /\ Cardinality(s \ {x}) = Cardinality(s) - 1
<1>1. IsFiniteSet(s) /\ Cardinality(s) <= Cardinality(S)
  BY FS_Subset
<1>2. Cardinality(s) \in Nat /\ Cardinality(S) \in Nat
  BY <1>1, FS_CardinalityType
<1>3. Cardinality(s) = 0 <=> s = {}
  BY <1>1, FS_EmptySet
<1>4. \A x \in s : s \ {x} \in SUBSET S /\ Cardinality(s \ {x}) = Cardinality(s) - 1
  BY <1>1, FS_RemoveElement
<1> QED BY <1>1, <1>2, <1>3, <1>4

(* Sums is defined: by induction on how many elements a subset may have.    *)
LEMMA SumsExist ==
    ASSUME NEW S, IsFiniteSet(S), NEW f, \A x \in S : f[x] \in Nat
    PROVE  \E g : Sums(g, f, S) /\ g \in [SUBSET S -> Nat]
<1> DEFINE Any(s) == CHOOSE x \in s : TRUE
           At(g, s) == IF s = {} THEN 0 ELSE f[Any(s)] + g[s \ {Any(s)}]
           UpTo(g, n) == \A s \in SUBSET S : Cardinality(s) <= n => g[s] = At(g, s)
           Defined(n) == \E g \in [SUBSET S -> Nat] : UpTo(g, n)
           N == {n \in Nat : Defined(n)}
<1>0. \A s \in SUBSET S : s # {} => Any(s) \in s /\ f[Any(s)] \in Nat
  OBVIOUS
<1> HIDE DEF Any
<1>1. 0 \in N
  <2> DEFINE g == [s \in SUBSET S |-> 0]
  <2>1. g \in [SUBSET S -> Nat]
    OBVIOUS
  <2>2. UpTo(g, 0)
    <3> SUFFICES ASSUME NEW s \in SUBSET S, Cardinality(s) <= 0 PROVE g[s] = At(g, s)
      OBVIOUS
    <3>1. s = {}
      BY SubsetSizes
    <3> QED BY <3>1
  <2> QED BY <2>1, <2>2
<1>2. ASSUME NEW n \in N PROVE n + 1 \in N
  <2>1. PICK h \in [SUBSET S -> Nat] : UpTo(h, n)
    BY <1>2
  <2>2. n \in Nat
    BY <1>2
  <2> DEFINE g == [s \in SUBSET S |-> IF Cardinality(s) = n + 1 THEN At(h, s) ELSE h[s]]
  <2>3. \A s \in SUBSET S : At(h, s) \in Nat
    <3> SUFFICES ASSUME NEW s \in SUBSET S, s # {} PROVE At(h, s) \in Nat
      OBVIOUS
    <3>1. f[Any(s)] \in Nat /\ h[s \ {Any(s)}] \in Nat
      BY <1>0, <2>1
    <3> QED BY <3>1
  <2>4. g \in [SUBSET S -> Nat]
    <3> HIDE DEF At
    <3> QED BY <2>1, <2>3
  <2>5. \A s \in SUBSET S : Cardinality(s) <= n + 1 => At(g, s) = At(h, s)
    <3> SUFFICES ASSUME NEW s \in SUBSET S, Cardinality(s) <= n + 1, s # {} PROVE At(g, s) = At(h, s)
      OBVIOUS
    <3>1. /\ s \ {Any(s)} \in SUBSET S /\ Cardinality(s \ {Any(s)}) = Cardinality(s) - 1
          /\ Cardinality(s) \in Nat
      BY <1>0, SubsetSizes
    <3>2. Cardinality(s \ {Any(s)}) # n + 1
      BY <2>2, <3>1
    <3>3. g[s \ {Any(s)}] = h[s \ {Any(s)}]
      <4> HIDE DEF At
      <4> QED BY <3>1, <3>2
    <3> HIDE DEF g
    <3> QED BY <3>3
  <2>6. UpTo(g, n + 1)
    <3> SUFFICES ASSUME NEW s \in SUBSET S, Cardinality(s) <= n + 1 PROVE g[s] = At(g, s)
      OBVIOUS
    <3>1. At(g, s) = At(h, s)
      BY <2>5
    <3>2. Cardinality(s) \in Nat
      BY SubsetSizes
    <3>3. Cardinality(s) # n + 1 => h[s] = At(h, s)
      BY <2>1, <2>2, <3>2
    <3>4. g[s] = At(h, s)
      <4> HIDE DEF At
      <4> QED BY <3>3
    <3> QED BY <3>1, <3>4
  <2> HIDE DEF g, UpTo
  <2>7. Defined(n + 1)
    BY <2>4, <2>6
  <2> HIDE DEF Defined
  <2> QED BY <2>2, <2>7
<1>3. N = Nat
  <2> HIDE DEF N
  <2>1. N \in SUBSET Nat
    BY DEF N
  <2> QED BY <1>1, <1>2, <2>1, NatInduct
<1>4. Cardinality(S) \in N
  BY <1>3, FS_CardinalityType
<1>5. PICK g \in [SUBSET S -> Nat] : UpTo(g, Cardinality(S))
  BY <1>4
<1>6. \A s \in SUBSET S : g[s] = At(g, s)
  <2> HIDE DEF At
  <2> SUFFICES ASSUME NEW s \in SUBSET S PROVE g[s] = At(g, s)
    OBVIOUS
  <2>1. Cardinality(s) \in 0 .. Cardinality(S) /\ Cardinality(S) \in Nat
    BY SubsetSizes, FS_CardinalityType
  <2>2. Cardinality(s) <= Cardinality(S)
    BY <2>1
  <2> QED BY <1>5, <2>2
<1>7. g = [s \in SUBSET S |-> At(g, s)]
  <2> HIDE DEF At
  <2> QED BY <1>5, <1>6
<1>8. Sums(g, f, S)
  BY <1>7 DEF Sums, Any
<1> QED BY <1>5, <1>8

(* What Sums says of one subset.                                            *)
LEMMA SumsAt ==
    ASSUME NEW S, NEW f, NEW g, Sums(g, f, S)
    PROVE  /\ g[{}] = 0
           /\ \A s \in SUBSET S : s # {} => \E x \in s : /\ x = (CHOOSE y \in s : TRUE)
                                                         /\ g[s] = f[x] + g[s \ {x}]
<1> DEFINE Any(s) == CHOOSE x \in s : TRUE
<1>1. g = [s \in SUBSET S |-> IF s = {} THEN 0 ELSE f[Any(s)] + g[s \ {Any(s)}]]
  BY Zenon DEF Sums
<1>2. \A s \in SUBSET S : s # {} => Any(s) \in s
  OBVIOUS
<1>3. \A s : Any(s) = (CHOOSE y \in s : TRUE)
  OBVIOUS
<1> HIDE DEF Any
<1>4. g[{}] = 0 /\ \A s \in SUBSET S : s # {} => g[s] = f[Any(s)] + g[s \ {Any(s)}]
  BY <1>1
<1>5. ASSUME NEW s \in SUBSET S, s # {}
      PROVE  \E x \in s : x = (CHOOSE y \in s : TRUE) /\ g[s] = f[x] + g[s \ {x}]
  <2>1. Any(s) \in s /\ Any(s) = (CHOOSE y \in s : TRUE) /\ g[s] = f[Any(s)] + g[s \ {Any(s)}]
    BY <1>2, <1>3, <1>4, <1>5
  <2> QED BY <2>1
<1> QED BY <1>4, <1>5

(* Two of them agree wherever their summands do.                            *)
LEMMA SumsAgree ==
    ASSUME NEW S, NEW f, NEW g, Sums(g, f, S), NEW S2, NEW f2, NEW g2, Sums(g2, f2, S2),
           NEW s, IsFiniteSet(s), s \subseteq S, s \subseteq S2, \A x \in s : f[x] = f2[x]
    PROVE  g[s] = g2[s]
<1> DEFINE N == {n \in Nat : \A r \in SUBSET s : Cardinality(r) = n => g[r] = g2[r]}
<1>1. 0 \in N
  <2>1. \A r \in SUBSET s : Cardinality(r) = 0 => r = {}
    BY SubsetSizes
  <2>2. g[{}] = 0 /\ g2[{}] = 0
    BY SumsAt
  <2> QED BY <2>1, <2>2
<1>2. ASSUME NEW n \in N PROVE n + 1 \in N
  <2>1. n \in Nat
    BY <1>2
  <2>2. ASSUME NEW r \in SUBSET s, Cardinality(r) = n + 1 PROVE g[r] = g2[r]
    <3>1. r # {} /\ r \in SUBSET S /\ r \in SUBSET S2
      BY <2>1, <2>2, SubsetSizes
    <3>2. PICK x \in r : x = (CHOOSE y \in r : TRUE) /\ g[r] = f[x] + g[r \ {x}]
      BY <3>1, SumsAt
    <3>3. PICK x2 \in r : x2 = (CHOOSE y \in r : TRUE) /\ g2[r] = f2[x2] + g2[r \ {x2}]
      BY <3>1, SumsAt
    <3>4. x = x2 /\ f[x] = f2[x] /\ r \ {x} \in SUBSET s
      BY <3>2, <3>3
    <3>5. Cardinality(r \ {x}) = n
      <4>1. Cardinality(r \ {x}) = Cardinality(r) - 1
        BY SubsetSizes
      <4> QED BY <2>1, <2>2, <4>1
    <3>6. g[r \ {x}] = g2[r \ {x}]
      BY <1>2, <3>4, <3>5
    <3> QED BY <3>2, <3>3, <3>4, <3>6
  <2> QED BY <2>1, <2>2
<1>3. N = Nat
  <2> HIDE DEF N
  <2>1. N \in SUBSET Nat
    BY DEF N
  <2> QED BY <1>1, <1>2, <2>1, NatInduct
<1>4. Cardinality(s) \in N
  BY <1>3, FS_CardinalityType
<1> QED BY <1>4

LEMMA SumsOf ==
    ASSUME NEW S, IsFiniteSet(S), NEW f, \A x \in S : f[x] \in Nat
    PROVE  \E g \in [SUBSET S -> Nat] : Sums(g, f, S) /\ SumOf(f, S) = g[S]
<1> DEFINE g == CHOOSE g : Sums(g, f, S)
<1>1. PICK h : Sums(h, f, S) /\ h \in [SUBSET S -> Nat]
  BY SumsExist
<1>2. Sums(g, f, S) /\ SumOf(f, S) = g[S]
  BY <1>1, SumIsChosen
<1> HIDE DEF g
<1>3. \A s \in SUBSET S : IsFiniteSet(s)
  BY FS_Subset
<1>4. \A s \in SUBSET S : g[s] = h[s]
  BY <1>1, <1>2, <1>3, SumsAgree
<1>5. g = [s \in SUBSET S |-> g[s]]
  BY <1>2 DEF Sums
<1>6. g \in [SUBSET S -> Nat]
  BY <1>1, <1>4, <1>5
<1> QED BY <1>2, <1>6

(* The sum over a finite set is a natural number that depends only on the   *)
(* summands in the set, and takes one more summand for one more element.    *)
LEMMA SumType ==
    ASSUME NEW S, IsFiniteSet(S), NEW f, \A x \in S : f[x] \in Nat
    PROVE  SumOf(f, S) \in Nat
<1>1. PICK g \in [SUBSET S -> Nat] : Sums(g, f, S) /\ SumOf(f, S) = g[S]
  BY SumsOf
<1> QED BY <1>1

LEMMA SumEmpty == ASSUME NEW f PROVE SumOf(f, {}) = 0
<1>1. IsFiniteSet({})
  BY FS_EmptySet
<1>2. PICK g \in [SUBSET {} -> Nat] : Sums(g, f, {}) /\ SumOf(f, {}) = g[{}]
  BY <1>1, SumsOf
<1> QED BY <1>2, SumsAt

LEMMA SumSame ==
    ASSUME NEW S, IsFiniteSet(S), NEW f, NEW f2,
           \A x \in S : f[x] \in Nat /\ f2[x] = f[x]
    PROVE  SumOf(f, S) = SumOf(f2, S)
<1>1. PICK g \in [SUBSET S -> Nat] : Sums(g, f, S) /\ SumOf(f, S) = g[S]
  BY SumsOf
<1>2. PICK g2 \in [SUBSET S -> Nat] : Sums(g2, f2, S) /\ SumOf(f2, S) = g2[S]
  BY SumsOf
<1>3. g[S] = g2[S]
  BY <1>1, <1>2, SumsAgree
<1> QED BY <1>1, <1>2, <1>3

LEMMA SumPick ==
    ASSUME NEW S, IsFiniteSet(S), S # {}, NEW f, \A x \in S : f[x] \in Nat
    PROVE  \E x \in S : SumOf(f, S) = f[x] + SumOf(f, S \ {x})
<1>1. PICK g \in [SUBSET S -> Nat] : Sums(g, f, S) /\ SumOf(f, S) = g[S]
  BY SumsOf
<1>2. PICK x \in S : g[S] = f[x] + g[S \ {x}]
  BY <1>1, SumsAt
<1>3. IsFiniteSet(S \ {x})
  BY FS_Subset
<1>4. PICK h \in [SUBSET (S \ {x}) -> Nat] :
          Sums(h, f, S \ {x}) /\ SumOf(f, S \ {x}) = h[S \ {x}]
  BY <1>3, SumsOf
<1>5. g[S \ {x}] = h[S \ {x}]
  BY <1>1, <1>3, <1>4, SumsAgree
<1> QED BY <1>1, <1>2, <1>4, <1>5

LEMMA SumAdd ==
    ASSUME NEW S, IsFiniteSet(S), NEW f, \A y \in S : f[y] \in Nat,
           NEW x \in S
    PROVE  SumOf(f, S) = f[x] + SumOf(f, S \ {x})
<1> DEFINE Add(s) == \A y \in s : SumOf(f, s) = f[y] + SumOf(f, s \ {y})
           N == {n \in Nat : \A s \in SUBSET S : Cardinality(s) = n => Add(s)}
<1>1. 0 \in N
  <2>1. \A s \in SUBSET S : Cardinality(s) = 0 => s = {}
    BY SubsetSizes
  <2> QED BY <2>1
<1>2. ASSUME NEW n \in N PROVE n + 1 \in N
  <2>1. n \in Nat
    BY <1>2
  <2>2. ASSUME NEW s \in SUBSET S, Cardinality(s) = n + 1, NEW y \in s
        PROVE  SumOf(f, s) = f[y] + SumOf(f, s \ {y})
    <3>1. IsFiniteSet(s)
      BY FS_Subset
    <3>2. PICK z \in s : SumOf(f, s) = f[z] + SumOf(f, s \ {z})
      BY <3>1, SumPick
    <3>3. CASE z = y
      BY <3>2, <3>3
    <3>4. CASE z # y
      <4>1. Cardinality(s \ {z}) = n /\ Cardinality(s \ {y}) = n
        <5>1. Cardinality(s \ {z}) = Cardinality(s) - 1 /\ Cardinality(s \ {y}) = Cardinality(s) - 1
          BY SubsetSizes
        <5> QED BY <2>1, <2>2, <5>1
      <4>2. s \ {z} \in SUBSET S /\ s \ {y} \in SUBSET S /\ y \in s \ {z} /\ z \in s \ {y}
        BY <3>4
      <4>3. Add(s \ {z}) /\ Add(s \ {y})
        BY <1>2, <4>1, <4>2
      <4>4. /\ SumOf(f, s \ {z}) = f[y] + SumOf(f, (s \ {z}) \ {y})
            /\ SumOf(f, s \ {y}) = f[z] + SumOf(f, (s \ {y}) \ {z})
        BY <4>2, <4>3
      <4>5. (s \ {z}) \ {y} = (s \ {y}) \ {z}
        OBVIOUS
      <4>6. SumOf(f, (s \ {z}) \ {y}) \in Nat /\ f[y] \in Nat /\ f[z] \in Nat
        <5>1. IsFiniteSet((s \ {z}) \ {y})
          BY <3>1, FS_Subset
        <5> QED BY <5>1, SumType
      <4> HIDE DEF Add
      <4> DEFINE d == SumOf(f, (s \ {z}) \ {y})
      <4>7. SumOf(f, s) = f[z] + (f[y] + d) /\ SumOf(f, s \ {y}) = f[z] + d
        BY <3>2, <4>4, <4>5
      <4> HIDE DEF d
      <4>8. d \in Nat
        BY <4>6 DEF d
      <4>9. f[z] + (f[y] + d) = f[y] + (f[z] + d)
        BY <4>6, <4>8
      <4> QED BY <4>7, <4>9
    <3> QED BY <3>3, <3>4
  <2> QED BY <2>1, <2>2
<1>3. N = Nat
  <2> HIDE DEF N
  <2>1. N \in SUBSET Nat
    BY DEF N
  <2> QED BY <1>1, <1>2, <2>1, NatInduct
<1>4. Cardinality(S) \in N /\ S \in SUBSET S
  BY <1>3, FS_CardinalityType
<1> QED BY <1>4
=============================================================================
