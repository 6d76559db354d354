----------------------------- MODULE DataLemmas -----------------------------
(***************************************************************************)
(* Induction over data, and what it gives: the maximum of a bounded set,   *)
(* the value of a function defined by recursion over 0..n, and sums over   *)
(* finite sets (of a function's values, of the lots of reports).           *)
(*                                                                         *)
(* The induction theorems of the library take an operator, which the       *)
(* backends cannot instantiate.  Here a predicate is a set of numbers, and *)
(* induction is the well-foundedness of Nat, which the library states for  *)
(* sets (WFMin).                                                           *)
(***************************************************************************)
EXTENDS Integers, FiniteSetsExt, Functions, FiniteSetTheorems, WellFoundedInduction, TLAPS

\* Sums of integers, for the balances of the ledgers.
LEMMA AddFacts ==
  /\ \A x \in Nat : x \in Int
  /\ \A x \in Int : x + 0 = x /\ 0 + x = x /\ x <= x
  /\ \A x, y \in Int : x + y \in Int /\ x + y = y + x
  /\ \A x, y, z \in Int : (x + y) + z = x + (y + z)
  /\ \A x, y, z \in Int : (x + z) - x + y = y + z
  /\ \A x, y \in Int : (x - (x + y)) + y = 0
OBVIOUS

\* Natural numbers add up to one.
LEMMA NatSum == \A x, y \in Nat : x + y \in Nat
OBVIOUS

\* Lots that are no longer counted.
LEMMA FewerLots ==
  \A f, x, n, k \in Nat : /\ n = 0 => f + x + 0 = f + x + n
                          /\ f + x + n <= k => f + x + 0 <= k
OBVIOUS

\* A sequence number past the last one given.
LEMMA PastLast ==
  /\ \A a \in Nat, b \in Nat \ {0} : a + b \in Nat /\ a + b > a
  /\ \A a, b, c \in Nat : a <= b /\ c > b => a # c
  /\ \A n \in Nat : \A a \in 1..n : a \in Nat \ {0}
OBVIOUS

\* The order of the integers is transitive.
LEMMA LeqTransitive == \A x, y, z \in Int : x <= y /\ y <= z => x <= z
OBVIOUS

\* A set of natural numbers that is not empty has a least element.
LEMMA LeastNat ==
  ASSUME NEW S \in SUBSET Nat, S # {}
  PROVE  \E n \in S : \A m \in S : n <= m
<1> DEFINE Less == {ss \in Nat \X Nat : ss[1] < ss[2]}
<1>1. IsWellFoundedOn(Less, Nat)
  BY NatLessThanWellFounded DEF OpToRel
<1> HIDE DEF Less
<1>2. PICK n \in S : \A m \in S : ~(<<m, n>> \in Less)
  BY <1>1, WFMin, Zenon
<1>3. ASSUME NEW m \in S PROVE n <= m
  <2>1. m < n => <<m, n>> \in Less
    BY DEF Less
  <2>2. m \in Nat /\ n \in Nat
    OBVIOUS
  <2> QED
    BY <2>1, <2>2, <1>2
<1> QED
  BY <1>3

\* Induction over the natural numbers, for a predicate given as a set.
LEMMA SetInduction ==
  ASSUME NEW T, 0 \in T, \A n \in Nat : n \in T => n + 1 \in T
  PROVE  \A n \in Nat : n \in T
<1> SUFFICES ASSUME Nat \ T # {} PROVE FALSE
  OBVIOUS
<1>1. PICK n \in Nat \ T : \A m \in Nat \ T : n <= m
  BY LeastNat, Nat \ T \in SUBSET Nat, Zenon
<1>2. n # 0
  BY <1>1
<1>3. n - 1 \in Nat
  BY <1>1, <1>2
<1>4. n - 1 \in T
  BY <1>1, <1>3
<1>5. (n - 1) + 1 = n
  BY <1>1
<1> QED
  BY <1>1, <1>3, <1>4, <1>5

\* A bounded set of natural numbers has a maximum.
LEMMA MaxOfBounded ==
  ASSUME NEW S \in SUBSET Nat, S # {}, NEW b \in Nat, \A x \in S : x <= b
  PROVE  Max(S) \in S /\ \A y \in S : Max(S) >= y
<1> DEFINE D == {b - x : x \in S}
<1>1. D \in SUBSET Nat /\ D # {}
  <2>1. \A x \in S : b - x \in Nat
    OBVIOUS
  <2>2. PICK x : x \in S
    OBVIOUS
  <2>3. b - x \in D
    BY <2>2
  <2> QED
    BY <2>1, <2>3
<1>2. PICK d \in D : \A e \in D : d <= e
  BY <1>1, LeastNat, Zenon
<1>3. PICK x \in S : d = b - x
  BY <1>2
<1>4. \A y \in S : x >= y
  <2> SUFFICES ASSUME NEW y \in S PROVE x >= y
    OBVIOUS
  <2>1. d <= b - y
    BY Zenon, <1>2
  <2> QED
    BY <1>3, <2>1
<1>5. \E z \in S : \A y \in S : z >= y
  BY <1>4
<1> QED
  BY <1>5, Zenon DEF Max

\* g is given by recursion over 0..N, from a and by the steps of F.
Recursive(g, a, F, N) == g[0] = a /\ \A k \in 1..N : g[k] = F[<<g[k - 1], k>>]

\* A definition by recursion over 0..N, from a and by the steps of F, has a
\* solution, and its values are in V.
LEMMA Recursion ==
  ASSUME NEW V, NEW a \in V, NEW N \in Nat, NEW F \in [V \X (1..N) -> V]
  PROVE  \E g \in [0..N -> V] : Recursive(g, a, F, N)
<1> DEFINE Solves(g, n) == \A k \in 0..n : g[k] = IF k = 0 THEN a ELSE F[<<g[k - 1], k>>]
           T == {n \in Nat : n <= N => \E g \in [0..n -> V] : Solves(g, n)}
<1>1. 0 \in T
  <2>1. [k \in 0..0 |-> a] \in [0..0 -> V] /\ Solves([k \in 0..0 |-> a], 0)
    OBVIOUS
  <2> QED
    BY Zenon, <2>1
<1>2. ASSUME NEW n \in Nat, n \in T PROVE n + 1 \in T
  <2>n. n + 1 \in Nat
    OBVIOUS
  <2> SUFFICES ASSUME n + 1 <= N PROVE \E g \in [0..(n + 1) -> V] : Solves(g, n + 1)
    BY Zenon, <2>n
  <2>1. PICK g \in [0..n -> V] : Solves(g, n)
    BY <1>2
  <2> DEFINE h == [k \in 0..(n + 1) |-> IF k = n + 1 THEN F[<<g[n], n + 1>>] ELSE g[k]]
  <2>2. F[<<g[n], n + 1>>] \in V
    OBVIOUS
  <2>3. h \in [0..(n + 1) -> V]
    BY <2>2
  <2>4. Solves(h, n + 1)
    <3> SUFFICES ASSUME NEW k \in 0..(n + 1)
                 PROVE  h[k] = IF k = 0 THEN a ELSE F[<<h[k - 1], k>>]
      BY Zenon
    <3>1. CASE k = n + 1
      <4>1. h[k] = F[<<g[n], n + 1>>] /\ h[k - 1] = g[n]
        BY <3>1
      <4>2. k # 0
        BY <3>1
      <4> HIDE DEF h
      <4> QED
        BY <3>1, <4>1, <4>2
    <3>2. CASE k = 0
      <4>1. h[0] = g[0]
        OBVIOUS
      <4>2. g[0] = IF 0 = 0 THEN a ELSE F[<<g[0 - 1], 0>>]
        BY <2>1, 0 \in 0..n, Zenon
      <4> QED
        BY <3>2, <4>1, <4>2
    <3>3. CASE k # n + 1 /\ k # 0
      <4>1. k \in 0..n /\ k - 1 \in 0..n /\ k - 1 # n + 1 /\ k - 1 \in 0..(n + 1)
        BY <3>3
      <4>2. h[k] = g[k] /\ h[k - 1] = g[k - 1]
        BY <4>1, <3>3
      <4> QED
        BY <4>1, <4>2, <2>1, <3>3
    <3> QED
      BY <3>1, <3>2, <3>3
  <2> HIDE DEF h
  <2> QED
    BY Zenon, <2>3, <2>4
<1> HIDE DEF T
<1>3. \A n \in Nat : n \in T
  BY <1>1, <1>2, SetInduction, Zenon
<1>4. PICK g \in [0..N -> V] : Solves(g, N)
  BY <1>3 DEF T
<1>5. 0 \in 0..N /\ \A k \in 1..N : k \in 0..N /\ k # 0
  OBVIOUS
<1>6. g[0] = a /\ \A k \in 1..N : g[k] = F[<<g[k - 1], k>>]
  BY <1>4, <1>5, Zenon
<1> QED
  BY <1>6 DEF Recursive

----------------------------------------------------------------------------
\* Finite sets.

\* A set of no elements is empty.
LEMMA NoElements ==
  ASSUME NEW S, IsFiniteSet(S), NEW s \in SUBSET S, Cardinality(s) <= 0
  PROVE  s = {}
<1>1. IsFiniteSet(s) /\ Cardinality(s) \in Nat
  BY FS_Subset, FS_CardinalityType
<1>2. Cardinality(s) = 0
  BY <1>1
<1> QED
  BY <1>1, <1>2, FS_EmptySet

\* Induction over the subsets of a finite set, for a predicate given as a set.
LEMMA SubsetInduction ==
  ASSUME NEW S, IsFiniteSet(S), NEW T, {} \in T,
         \A s \in SUBSET S : \A x \in S \ s : s \in T => s \cup {x} \in T
  PROVE  S \in T
<1> DEFINE P == {n \in Nat : \A s \in SUBSET S : Cardinality(s) <= n => s \in T}
<1>1. 0 \in P
  BY Zenon, NoElements
<1>2. ASSUME NEW n \in Nat, n \in P PROVE n + 1 \in P
  <2> SUFFICES ASSUME NEW s \in SUBSET S, Cardinality(s) <= n + 1 PROVE s \in T
    OBVIOUS
  <2>1. CASE s = {}
    BY <2>1
  <2>2. ASSUME NEW x \in s PROVE s \in T
    <3>1. IsFiniteSet(s) /\ Cardinality(s) \in Nat /\ s \ {x} \in SUBSET S
      BY FS_Subset, FS_CardinalityType
    <3>2. Cardinality(s \ {x}) = Cardinality(s) - 1
      BY Zenon, <2>2, <3>1, FS_RemoveElement
    <3>3. s \ {x} \in T
      BY <1>2, <3>1, <3>2
    <3>4. x \in S \ (s \ {x}) /\ (s \ {x}) \cup {x} = s
      BY <2>2
    <3> QED
      BY Zenon, <3>1, <3>3, <3>4
  <2> QED
    BY <2>1, <2>2
<1> HIDE DEF P
<1>3. \A n \in Nat : n \in P
  BY Zenon, <1>1, <1>2, SetInduction
<1>4. Cardinality(S) \in Nat
  BY FS_CardinalityType
<1> QED
  BY <1>3, <1>4 DEF P

----------------------------------------------------------------------------
\* Sums.  w gives each element its weight.

\* The element MapThenSumSet takes first.
First(s) == CHOOSE x \in s : TRUE

\* g sums every subset of S, by the recursion of MapThenFoldSet.
IsSum(g, w, S) ==
  g = [s \in SUBSET S |-> IF s = {} THEN 0 ELSE w[First(s)] + g[s \ {First(s)}]]

SumOf(w, S) == (CHOOSE g : IsSum(g, w, S))[S]

\* The first element of a set, and the size of the others.
LEMMA FirstFacts ==
  ASSUME NEW S, IsFiniteSet(S), NEW s \in SUBSET S, s # {}
  PROVE  /\ First(s) \in s
         /\ s \ {First(s)} \in SUBSET S
         /\ Cardinality(s) \in Nat /\ Cardinality(s \ {First(s)}) \in Nat
         /\ Cardinality(s \ {First(s)}) = Cardinality(s) - 1
<1>1. First(s) \in s
  BY DEF First
<1>2. IsFiniteSet(s)
  BY FS_Subset
<1>3. Cardinality(s) \in Nat /\ Cardinality(s \ {First(s)}) = Cardinality(s) - 1
  BY <1>1, <1>2, FS_RemoveElement, FS_CardinalityType
<1>4. IsFiniteSet(s \ {First(s)})
  BY <1>2, FS_Subset, s \ {First(s)} \in SUBSET s
<1> QED
  BY <1>1, <1>3, <1>4, FS_CardinalityType

\* The recursion has a solution.
LEMMA SumExists ==
  ASSUME NEW S, IsFiniteSet(S), NEW w, \A x \in S : w[x] \in Int
  PROVE  \E g \in [SUBSET S -> Int] : IsSum(g, w, S)
<1> DEFINE Upto(n) == {s \in SUBSET S : Cardinality(s) <= n}
           Step(g, s) == IF s = {} THEN 0 ELSE w[First(s)] + g[s \ {First(s)}]
           Solves(g, n) == \A s \in Upto(n) : g[s] = Step(g, s)
           T == {n \in Nat : \E g \in [Upto(n) -> Int] : Solves(g, n)}
<1>1. 0 \in T
  <2> DEFINE g == [s \in Upto(0) |-> 0]
  <2>1. \A s \in Upto(0) : s = {}
    BY NoElements
  <2>2. g \in [Upto(0) -> Int] /\ Solves(g, 0)
    BY <2>1
  <2> QED
    BY Zenon, <2>2
<1>2. ASSUME NEW n \in Nat, n \in T PROVE n + 1 \in T
  <2>1. PICK g \in [Upto(n) -> Int] : Solves(g, n)
    BY Zenon, <1>2
  <2> DEFINE h == [s \in Upto(n + 1) |-> Step(g, s)]
  <2>2. ASSUME NEW s \in Upto(n + 1), s # {}
        PROVE  s \ {First(s)} \in Upto(n) /\ First(s) \in S
    BY <2>2, FirstFacts
  <2>3. ASSUME NEW s \in Upto(n) PROVE s \in Upto(n + 1) /\ h[s] = g[s]
    <3>1. IsFiniteSet(s) /\ Cardinality(s) \in Nat
      BY FS_Subset, FS_CardinalityType
    <3>2. s \in Upto(n + 1)
      BY <3>1
    <3> QED
      BY <3>2, <2>1
  <2>4. h \in [Upto(n + 1) -> Int]
    <3> SUFFICES ASSUME NEW s \in Upto(n + 1) PROVE Step(g, s) \in Int
      OBVIOUS
    <3> QED
      BY <2>2
  <2>5. Solves(h, n + 1)
    <3> SUFFICES ASSUME NEW s \in Upto(n + 1) PROVE Step(g, s) = Step(h, s)
      BY Zenon
    <3> QED
      BY Zenon, <2>2, <2>3
  <2> HIDE DEF h, Upto, Solves
  <2> QED
    BY <2>4, <2>5
<1> HIDE DEF T
<1>3. \A n \in Nat : n \in T
  BY <1>1, <1>2, SetInduction, Zenon
<1>4. Cardinality(S) \in Nat
  BY FS_CardinalityType
<1>5. Upto(Cardinality(S)) = SUBSET S
  BY <1>4, FS_Subset
<1>6. PICK g \in [SUBSET S -> Int] : Solves(g, Cardinality(S))
  BY Zenon, <1>3, <1>4, <1>5 DEF T
<1>7. IsSum(g, w, S)
  BY Zenon, <1>5, <1>6 DEF IsSum
<1> QED
  BY <1>7

\* Two solutions agree on the sets both sum.
LEMMA SumsAgree ==
  ASSUME NEW S, IsFiniteSet(S), NEW R \in SUBSET S, NEW w, NEW v, NEW g, NEW h,
         IsSum(g, w, S), IsSum(h, v, R), \A x \in R : w[x] = v[x]
  PROVE  g[R] = h[R]
<1> DEFINE T == {n \in Nat : \A s \in SUBSET R : Cardinality(s) <= n => g[s] = h[s]}
<1>r. IsFiniteSet(R)
  BY FS_Subset
<1>e. \A s \in SUBSET R :
        /\ g[s] = IF s = {} THEN 0 ELSE w[First(s)] + g[s \ {First(s)}]
        /\ h[s] = IF s = {} THEN 0 ELSE v[First(s)] + h[s \ {First(s)}]
  BY Zenon DEF IsSum
<1>1. 0 \in T
  <2>1. \A s \in SUBSET R : Cardinality(s) <= 0 => s = {}
    BY Zenon, NoElements, <1>r
  <2>2. g[{}] = 0 /\ h[{}] = 0
    BY Zenon, <1>e
  <2> QED
    BY Zenon, <2>1, <2>2
<1>2. ASSUME NEW n \in Nat, n \in T PROVE n + 1 \in T
  <2> SUFFICES ASSUME NEW s \in SUBSET R, Cardinality(s) <= n + 1 PROVE g[s] = h[s]
    OBVIOUS
  <2>1. CASE s = {}
    BY <2>1, <1>e
  <2>2. CASE s # {}
    <3>1. /\ s \ {First(s)} \in SUBSET R
          /\ Cardinality(s \ {First(s)}) <= n
          /\ First(s) \in R
      BY <2>2, <1>r, FirstFacts
    <3>2. g[s \ {First(s)}] = h[s \ {First(s)}]
      BY <3>1, <1>2
    <3> QED
      BY Zenon, <3>1, <3>2, <2>2, <1>e
  <2> QED
    BY <2>1, <2>2
<1> HIDE DEF T
<1>3. \A n \in Nat : n \in T
  BY <1>1, <1>2, SetInduction, Zenon
<1>4. Cardinality(R) \in Nat
  BY <1>r, FS_CardinalityType
<1> QED
  BY <1>3, <1>4 DEF T

\* SumOf is the value any solution has, on any set it covers.
LEMMA SumIsUnique ==
  ASSUME NEW S, IsFiniteSet(S), NEW R \in SUBSET S, NEW w, NEW v, NEW g,
         \A x \in S : w[x] \in Int, IsSum(g, w, S), \A x \in R : w[x] = v[x]
  PROVE  SumOf(v, R) = g[R]
<1> DEFINE h == CHOOSE h : IsSum(h, v, R)
<1>1. IsFiniteSet(R) /\ \A x \in R : v[x] \in Int
  BY FS_Subset
<1>2. \E f : IsSum(f, v, R)
  BY Zenon, <1>1, SumExists
<1>3. IsSum(h, v, R)
  BY <1>2
<1> HIDE DEF h
<1>4. g[R] = h[R]
  BY <1>3, SumsAgree
<1> QED
  BY <1>4 DEF SumOf, h

\* SumOf is the value of any solution.
LEMMA SumValue ==
  ASSUME NEW S, IsFiniteSet(S), NEW w, NEW g, \A x \in S : w[x] \in Int, IsSum(g, w, S)
  PROVE  SumOf(w, S) = g[S]
<1>1. \A R \in SUBSET S : SumOf(w, R) = g[R]
  BY SumIsUnique
<1> QED
  BY <1>1

\* The sums over the subsets of S, where the weights are integers.
LEMMA SumRecursion ==
  ASSUME NEW S, IsFiniteSet(S), NEW w, \A x \in S : w[x] \in Int
  PROVE  \A R \in SUBSET S :
           /\ SumOf(w, R) \in Int
           /\ SumOf(w, R) = IF R = {} THEN 0
                            ELSE w[First(R)] + SumOf(w, R \ {First(R)})
<1>1. PICK g \in [SUBSET S -> Int] : IsSum(g, w, S)
  BY Zenon, SumExists
<1>2. \A R \in SUBSET S : SumOf(w, R) = g[R]
  BY <1>1, SumIsUnique
<1>3. \A R \in SUBSET S :
        g[R] = IF R = {} THEN 0 ELSE w[First(R)] + g[R \ {First(R)}]
  BY Zenon, <1>1 DEF IsSum
<1>4. \A R \in SUBSET S : R \ {First(R)} \in SUBSET S
  OBVIOUS
<1> QED
  BY <1>2, <1>3, <1>4

\* The sum over no element.
LEMMA SumEmpty ==
  ASSUME NEW w
  PROVE  SumOf(w, {}) = 0
<1>1. IsFiniteSet({}) /\ \A x \in {} : w[x] \in Int
  BY FS_EmptySet
<1>2. \A R \in SUBSET {} :
        /\ SumOf(w, R) \in Int
        /\ SumOf(w, R) = IF R = {} THEN 0
                         ELSE w[First(R)] + SumOf(w, R \ {First(R)})
  BY <1>1, SumRecursion, Zenon
<1> QED
  BY Zenon, <1>2

\* A sum of integers is an integer.
LEMMA SumType ==
  ASSUME NEW S, IsFiniteSet(S), NEW w, \A x \in S : w[x] \in Int
  PROVE  SumOf(w, S) \in Int
BY Zenon, SumRecursion, S \in SUBSET S

\* Weights that agree give the same sum.
LEMMA SumSame ==
  ASSUME NEW S, IsFiniteSet(S), NEW w, NEW v,
         \A x \in S : w[x] \in Int /\ w[x] = v[x]
  PROVE  SumOf(w, S) = SumOf(v, S)
<1>1. PICK g \in [SUBSET S -> Int] : IsSum(g, w, S)
  BY Zenon, SumExists
<1>2. SumOf(v, S) = g[S] /\ SumOf(w, S) = g[S]
  BY <1>1, SumIsUnique
<1> QED
  BY <1>2

\* Whichever element is taken out, its weight leaves the sum: addition is
\* commutative.
LEMMA SumRemove ==
  ASSUME NEW S, IsFiniteSet(S), NEW w, \A x \in S : w[x] \in Int, NEW y \in S
  PROVE  SumOf(w, S) = w[y] + SumOf(w, S \ {y})
<1> DEFINE g == [s \in SUBSET S |-> SumOf(w, s)]
<1>1. g \in [SUBSET S -> Int]
  BY Zenon, SumRecursion
<1>e. \A s \in SUBSET S : s # {} => g[s] = w[First(s)] + g[s \ {First(s)}]
  BY SumRecursion
<1> HIDE DEF g
<1> DEFINE T == {n \in Nat : \A s \in SUBSET S : Cardinality(s) <= n =>
                               \A z \in s : g[s] = w[z] + g[s \ {z}]}
<1>2. 0 \in T
  BY NoElements
<1>3. ASSUME NEW n \in Nat, n \in T PROVE n + 1 \in T
  <2> SUFFICES ASSUME NEW s \in SUBSET S, Cardinality(s) <= n + 1, NEW z \in s
               PROVE  g[s] = w[z] + g[s \ {z}]
    OBVIOUS
  <2> DEFINE f == First(s)
  <2>1. f \in s /\ g[s] = w[f] + g[s \ {f}]
    BY <1>e, FirstFacts
  <2>2. CASE z = f
    BY <2>1, <2>2
  <2>3. CASE z # f
    <3>1. IsFiniteSet(s) /\ Cardinality(s) \in Nat
      BY FS_Subset, FS_CardinalityType
    <3>2. /\ Cardinality(s \ {f}) = Cardinality(s) - 1
          /\ Cardinality(s \ {z}) = Cardinality(s) - 1
      BY Zenon, <3>1, <2>1, FS_RemoveElement
    <3>3. /\ s \ {f} \in SUBSET S /\ z \in s \ {f}
          /\ s \ {z} \in SUBSET S /\ f \in s \ {z}
      BY <2>1, <2>3
    <3>4. /\ g[s \ {f}] = w[z] + g[(s \ {f}) \ {z}]
          /\ g[s \ {z}] = w[f] + g[(s \ {z}) \ {f}]
      <4> HIDE DEF f
      <4>1. Cardinality(s \ {f}) <= n /\ Cardinality(s \ {z}) <= n
        BY <3>1, <3>2
      <4>2. \A t \in SUBSET S : Cardinality(t) <= n => \A x \in t : g[t] = w[x] + g[t \ {x}]
        BY <1>3
      <4> QED
        BY <4>1, <4>2, <3>3, Zenon
    <3>5. (s \ {f}) \ {z} = (s \ {z}) \ {f}
      OBVIOUS
    <3>6. PICK a \in Int, b \in Int, c \in Int :
            a = g[(s \ {f}) \ {z}] /\ b = w[z] /\ c = w[f]
      BY <2>1, <1>1
    <3> HIDE DEF f
    <3>7. g[s] = c + (b + a) /\ g[s \ {z}] = c + a
      BY <2>1, <3>4, <3>5, <3>6, Zenon
    <3> QED
      BY <3>6, <3>7
  <2> QED
    BY <2>2, <2>3
<1> HIDE DEF T
<1>4. \A n \in Nat : n \in T
  BY <1>2, <1>3, SetInduction, Zenon
<1>5. Cardinality(S) \in Nat
  BY FS_CardinalityType
<1>6. g[S] = w[y] + g[S \ {y}]
  BY <1>4, <1>5 DEF T
<1> QED
  BY <1>6 DEF g

\* One element more.
LEMMA SumAdd ==
  ASSUME NEW S, IsFiniteSet(S), NEW w, \A x \in S : w[x] \in Int,
         NEW y, y \notin S, w[y] \in Int
  PROVE  SumOf(w, S \cup {y}) = w[y] + SumOf(w, S)
<1>1. IsFiniteSet(S \cup {y})
  BY FS_AddElement
<1>2. (S \cup {y}) \ {y} = S
  OBVIOUS
<1> QED
  BY <1>1, <1>2, SumRemove

\* Weights that are not negative: the sum is not, and it grows with the set.
LEMMA SumMonotone ==
  ASSUME NEW S, IsFiniteSet(S), NEW w, \A x \in S : w[x] \in Nat,
         NEW R \in SUBSET S
  PROVE  SumOf(w, R) \in Nat /\ SumOf(w, R) <= SumOf(w, S)
<1> DEFINE T == {n \in Nat : \A s \in SUBSET S : Cardinality(s \ R) <= n /\ R \subseteq s =>
                               SumOf(w, R) <= SumOf(w, s)}
           P == {n \in Nat : \A s \in SUBSET S : Cardinality(s) <= n => SumOf(w, s) \in Nat}
<1>s. \A s \in SUBSET S : IsFiniteSet(s) /\ Cardinality(s) \in Nat /\ SumOf(w, s) \in Int
  BY FS_Subset, FS_CardinalityType, SumType
<1>r. \A s \in SUBSET S : \A x \in s :
        /\ SumOf(w, s) = w[x] + SumOf(w, s \ {x})
        /\ Cardinality(s \ {x}) = Cardinality(s) - 1
        /\ s \ {x} \in SUBSET S
  <2> SUFFICES ASSUME NEW s \in SUBSET S, NEW x \in s
               PROVE  /\ SumOf(w, s) = w[x] + SumOf(w, s \ {x})
                      /\ Cardinality(s \ {x}) = Cardinality(s) - 1
                      /\ s \ {x} \in SUBSET S
    BY Zenon
  <2>1. IsFiniteSet(s) /\ \A z \in s : w[z] \in Int
    BY <1>s
  <2>2. SumOf(w, s) = w[x] + SumOf(w, s \ {x})
    BY <2>1, SumRemove, Zenon
  <2>3. Cardinality(s \ {x}) = Cardinality(s) - 1
    BY <2>1, FS_RemoveElement, Zenon
  <2> QED
    BY <2>2, <2>3
<1>1. 0 \in P
  BY NoElements, SumEmpty
<1>2. ASSUME NEW n \in Nat, n \in P PROVE n + 1 \in P
  <2> SUFFICES ASSUME NEW s \in SUBSET S, Cardinality(s) <= n + 1 PROVE SumOf(w, s) \in Nat
    OBVIOUS
  <2>1. CASE s = {}
    BY <2>1, SumEmpty
  <2>2. ASSUME NEW x \in s PROVE SumOf(w, s) \in Nat
    <3>1. SumOf(w, s \ {x}) \in Nat
      BY <1>s, <1>r, <1>2
    <3> QED
      BY <3>1, <1>r
  <2> QED
    BY <2>1, <2>2
<1>3. \A n \in Nat : n \in P
  <2> HIDE DEF P
  <2> QED
    BY <1>1, <1>2, SetInduction, Zenon
<1>4. \A s \in SUBSET S : SumOf(w, s) \in Nat
  BY <1>3, <1>s
<1>5. 0 \in T
  <2> SUFFICES ASSUME NEW s \in SUBSET S, Cardinality(s \ R) <= 0, R \subseteq s
               PROVE  SumOf(w, R) <= SumOf(w, s)
    OBVIOUS
  <2>1. s \ R = {}
    BY NoElements, s \ R \in SUBSET S
  <2>2. s = R
    BY <2>1
  <2> QED
    BY <2>2, <1>s
<1>6. ASSUME NEW n \in Nat, n \in T PROVE n + 1 \in T
  <2> SUFFICES ASSUME NEW s \in SUBSET S, Cardinality(s \ R) <= n + 1, R \subseteq s
               PROVE  SumOf(w, R) <= SumOf(w, s)
    OBVIOUS
  <2>1. CASE s \ R = {}
    BY <2>1, <1>s, s = R
  <2>2. ASSUME NEW x \in s \ R PROVE SumOf(w, R) <= SumOf(w, s)
    <3>1. (s \ {x}) \ R = (s \ R) \ {x} /\ R \subseteq s \ {x}
      OBVIOUS
    <3>2. Cardinality((s \ {x}) \ R) <= n
      BY <3>1, <1>r, <1>s, s \ R \in SUBSET S
    <3>3. SumOf(w, R) <= SumOf(w, s \ {x})
      BY <3>1, <3>2, <1>6, <1>r
    <3> QED
      BY <3>3, <1>r, <1>4
  <2> QED
    BY <2>1, <2>2
<1>7. \A n \in Nat : n \in T
  <2> HIDE DEF T
  <2> QED
    BY <1>5, <1>6, SetInduction, Zenon
<1>8. Cardinality(S \ R) \in Nat
  BY <1>s, S \ R \in SUBSET S
<1> QED
  BY <1>4, <1>7, <1>8

\* The sum of a function is the sum of its weights.
LEMMA SumOfFunction ==
  ASSUME NEW w, NEW S, IsFiniteSet(S), \A x \in S : w[x] \in Int
  PROVE  SumFunctionOnSet(w, S) = SumOf(w, S)
<1> DEFINE Eq(h) == h = [s \in SUBSET S |-> IF s = {} THEN 0
                           ELSE LET x == CHOOSE x \in s : TRUE IN w[x] + h[s \ {x}]]
<1>1. ASSUME NEW h PROVE Eq(h) <=> IsSum(h, w, S)
  BY Zenon DEF IsSum, First
<1>2. SumFunctionOnSet(w, S) = (CHOOSE h : Eq(h))[S]
  BY DEF SumFunctionOnSet, FoldFunctionOnSet, MapThenFoldSet
<1> HIDE DEF Eq
<1>3. \E h : Eq(h)
  BY Zenon, <1>1, SumExists
<1> DEFINE g == CHOOSE h : Eq(h)
<1>4. IsSum(g, w, S)
  BY Zenon, <1>1, <1>3
<1> HIDE DEF g
<1>5. SumOf(w, S) = g[S]
  BY Zenon, <1>4, SumValue
<1> QED
  BY Zenon, <1>2, <1>5 DEF g

\* The sum of the quantities of a set of fills.
LEMMA SumOfQty ==
  ASSUME NEW S, IsFiniteSet(S), \A x \in S : x.qty \in Int
  PROVE  MapThenSumSet(LAMBDA f : f.qty, S) = SumOf([x \in S |-> x.qty], S)
<1> DEFINE w == [x \in S |-> x.qty]
           Eq(h) == h = [s \in SUBSET S |-> IF s = {} THEN 0
                           ELSE LET x == CHOOSE x \in s : TRUE IN x.qty + h[s \ {x}]]
<1>1. ASSUME NEW h PROVE Eq(h) <=> IsSum(h, w, S)
  <2>1. \A s \in SUBSET S : s # {} => First(s) \in S
    BY DEF First
  <2> QED
    BY Zenon, <2>1 DEF IsSum, First
<1>2. MapThenSumSet(LAMBDA f : f.qty, S) = (CHOOSE h : Eq(h))[S]
  BY DEF MapThenSumSet, MapThenFoldSet
<1>3. \A x \in S : w[x] \in Int
  OBVIOUS
<1> HIDE DEF w, Eq
<1>4. \E h : Eq(h)
  BY <1>1, <1>3, SumExists, Zenon
<1> DEFINE g == CHOOSE h : Eq(h)
<1>5. IsSum(g, w, S)
  BY <1>1, <1>4, Zenon
<1> HIDE DEF g
<1>6. SumOf(w, S) = g[S]
  BY <1>3, <1>5, SumValue, Zenon
<1> QED
  BY <1>2, <1>6, Zenon DEF w, g

-----------------------------------------------------------------------------
\* Sums of quantities

QtyOf(S) == SumOf([x \in S |-> x.qty], S)

\* No reports have no lots.
LEMMA QtyEmpty == QtyOf({}) = 0
BY SumEmpty DEF QtyOf

\* A part of a set of quantities has at most the quantity of all.
LEMMA QtyMonotone ==
  ASSUME NEW S, IsFiniteSet(S), \A x \in S : x.qty \in Nat, NEW R \in SUBSET S
  PROVE  QtyOf(R) \in Nat /\ QtyOf(S) \in Nat /\ QtyOf(R) <= QtyOf(S)
<1> DEFINE w == [x \in S |-> x.qty]
           v == [x \in R |-> x.qty]
<1>1. \A x \in S : w[x] \in Nat
  OBVIOUS
<1>2. \A x \in R : v[x] \in Int /\ v[x] = w[x]
  OBVIOUS
<1>3. IsFiniteSet(R) /\ S \in SUBSET S
  BY FS_Subset
<1> HIDE DEF w, v
<1>4. SumOf(v, R) = SumOf(w, R)
  BY <1>2, <1>3, SumSame, Zenon
<1>5. /\ SumOf(w, R) \in Nat /\ SumOf(w, R) <= SumOf(w, S)
      /\ SumOf(w, S) \in Nat
  BY <1>1, <1>3, SumMonotone, Zenon
<1> QED
  BY <1>4, <1>5 DEF QtyOf, w, v

\* One more quantity.
LEMMA QtyAdd ==
  ASSUME NEW S, IsFiniteSet(S), \A x \in S : x.qty \in Nat,
         NEW y, y \notin S, y.qty \in Nat
  PROVE  QtyOf(S \cup {y}) = QtyOf(S) + y.qty
<1> DEFINE R == S \cup {y}
           w == [x \in R |-> x.qty]
           v == [x \in S |-> x.qty]
<1>1. (\A x \in S : w[x] \in Int) /\ w[y] \in Int /\ w[y] = y.qty
  OBVIOUS
<1>2. \A x \in S : v[x] \in Int /\ v[x] = w[x]
  OBVIOUS
<1>3. QtyOf(R) = SumOf(w, R) /\ QtyOf(S) = SumOf(v, S)
  BY DEF QtyOf
<1> HIDE DEF w, v
<1>4. SumOf(v, S) = SumOf(w, S)
  BY <1>2, SumSame, Zenon
<1>5. SumOf(w, S \cup {y}) = w[y] + SumOf(w, S)
  BY <1>1, SumAdd, Zenon
<1>6. SumOf(w, S) \in Int
  BY <1>1, SumType, Zenon
<1> QED
  BY <1>1, <1>3, <1>4, <1>5, <1>6

=============================================================================
