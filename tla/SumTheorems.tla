---------------------------- MODULE SumTheorems ----------------------------
(***************************************************************************)
(* Facts about SumFunction of the Functions module, the sum of the values  *)
(* of a function with a finite domain.  It is a recursive function on the  *)
(* subsets of the domain, each of which gives up the element that CHOOSE   *)
(* picks.  Induction over these subsets is stated with the set of those    *)
(* that have a property, as the provers take no operator parameter.        *)
(***************************************************************************)
EXTENDS Integers, Functions, FiniteSetTheorems, WellFoundedInduction, TLAPS

\* The set that the sum of s recurs to.
Picked(s) == CHOOSE x \in s : TRUE
Rest(s) == s \ {Picked(s)}

\* h[s] is the sum of g over s, for every set s of the family Z.
Sums(g, Z, h) ==
  \A s \in Z : h[s] = IF s = {} THEN 0 ELSE g[Picked(s)] + h[Rest(s)]

\* A non-empty set of numbers has a least element.
LEMMA LeastNumber ==
  ASSUME NEW T \in SUBSET Nat, T # {}
  PROVE  \E n \in T : \A m \in T : n <= m
<1>1. IsWellFoundedOn(OpToRel(<, Nat), Nat)
  BY NatLessThanWellFounded
<1>2. PICK n \in T : \A m \in T : ~ (<<m, n>> \in OpToRel(<, Nat))
  BY <1>1, WFMin
<1>3. \A m \in T : ~ (m < n)
  BY <1>2 DEF OpToRel
<1>4. \A k, m \in Nat : ~ (m < k) => k <= m
  OBVIOUS
<1>5. \A m \in T : n <= m
  BY <1>3, <1>4
<1> QED
  BY <1>5

\* A set without its picked element is smaller.
LEMMA RestIsSmaller ==
  ASSUME NEW s, IsFiniteSet(s), s # {}
  PROVE  /\ Picked(s) \in s /\ Rest(s) \subseteq s /\ IsFiniteSet(Rest(s))
         /\ Cardinality(s) \in Nat \ {0} /\ Cardinality(Rest(s)) = Cardinality(s) - 1
<1>1. Picked(s) \in s
  BY DEF Picked
<1>2. Cardinality(s) \in Nat /\ Cardinality(s) # 0
  BY FS_CardinalityType, FS_EmptySet
<1> QED
  BY <1>1, <1>2, FS_RemoveElement DEF Rest

\* A set G of subsets of S has all of them when it has the empty one and every other
\* whose rest it has.
LEMMA SubsetInduction ==
  ASSUME NEW S, IsFiniteSet(S), NEW G, {} \in G,
         \A s \in SUBSET S : s # {} /\ Rest(s) \in G => s \in G
  PROVE  SUBSET S \subseteq G
<1> SUFFICES ASSUME NEW b \in SUBSET S, b \notin G PROVE FALSE
  OBVIOUS
<1> DEFINE T == {n \in Nat : \E s \in SUBSET S : s \notin G /\ Cardinality(s) = n}
<1>1. \A s \in SUBSET S : IsFiniteSet(s) /\ Cardinality(s) \in Nat
  BY FS_Subset, FS_CardinalityType
<1>2. Cardinality(b) \in T
  BY <1>1
<1>3. PICK n \in T : \A m \in T : n <= m
  <2> HIDE DEF T
  <2>1. T \in SUBSET Nat
    BY DEF T
  <2> QED
    BY <1>2, <2>1, LeastNumber
<1>4. PICK s \in SUBSET S : s \notin G /\ Cardinality(s) = n
  OBVIOUS
<1>5. s # {}
  BY <1>4
<1>6. Rest(s) \in SUBSET S /\ Cardinality(Rest(s)) = n - 1
  BY <1>1, <1>4, <1>5, RestIsSmaller
<1>7. n - 1 \in Nat /\ ~(n <= n - 1)
  BY <1>1, <1>4, <1>5, RestIsSmaller
<1>8. n - 1 \notin T
  BY <1>3, <1>7
<1>9. Rest(s) \in G
  BY <1>6, <1>7, <1>8
<1> QED
  BY <1>4, <1>5, <1>9

\* There is such a function on all subsets: it is built up from the smaller ones.
LEMMA SumsExist ==
  ASSUME NEW S, IsFiniteSet(S), NEW g \in [S -> Int]
  PROVE  \E h \in [SUBSET S -> Int] : Sums(g, SUBSET S, h)
<1> DEFINE Small(n) == {s \in SUBSET S : Cardinality(s) <= n}
           Done(n) == \E h \in [Small(n) -> Int] : Sums(g, Small(n), h)
<1>1. \A s \in SUBSET S : IsFiniteSet(s) /\ Cardinality(s) \in Nat
  BY FS_Subset, FS_CardinalityType
<1>2. Done(0)
  <2>1. \A s \in Small(0) : s = {}
    BY <1>1, FS_EmptySet
  <2>2. [s \in Small(0) |-> 0] \in [Small(0) -> Int]
    OBVIOUS
  <2>3. Sums(g, Small(0), [s \in Small(0) |-> 0])
    BY <2>1 DEF Sums
  <2> QED
    BY <2>2, <2>3
<1>3. ASSUME NEW n \in Nat, Done(n) PROVE Done(n + 1)
  <2>1. PICK h \in [Small(n) -> Int] : Sums(g, Small(n), h)
    BY <1>3
  <2> DEFINE k == [s \in Small(n + 1) |-> IF s = {} THEN 0 ELSE g[Picked(s)] + h[Rest(s)]]
  <2>2. \A s \in Small(n + 1) : s # {} => Rest(s) \in Small(n) /\ Picked(s) \in S
    <3> SUFFICES ASSUME NEW s \in Small(n + 1), s # {}
                 PROVE  Rest(s) \in Small(n) /\ Picked(s) \in S
      OBVIOUS
    <3>1. Rest(s) \subseteq s /\ Picked(s) \in s /\ Cardinality(Rest(s)) = Cardinality(s) - 1
      BY <1>1, RestIsSmaller
    <3> QED
      BY <1>1, <3>1
  <2>3. k \in [Small(n + 1) -> Int]
    <3>1. ASSUME NEW s \in Small(n + 1), s # {} PROVE g[Picked(s)] + h[Rest(s)] \in Int
      BY <2>2, <3>1
    <3> QED
      BY <3>1
  <2>4. Small(n) \subseteq Small(n + 1)
    BY <1>1
  <2>5. \A s \in Small(n) : k[s] = h[s]
    <3> HIDE DEF Small
    <3> QED
      BY <2>1, <2>4 DEF Sums
  <2>6. Sums(g, Small(n + 1), k)
    <3> HIDE DEF Small
    <3> QED
      BY <2>2, <2>5 DEF Sums
  <2> HIDE DEF Small, k
  <2> QED
    BY <2>3, <2>6
<1> DEFINE T == {n \in Nat : ~ Done(n)}
<1>4. T = {}
  <2> SUFFICES ASSUME T # {} PROVE FALSE
    OBVIOUS
  <2> HIDE DEF Done
  <2>1. PICK n \in T : \A m \in T : n <= m
    BY LeastNumber
  <2>2. n # 0 /\ n \in Nat /\ ~ Done(n)
    BY <1>2, <2>1
  <2>3. n - 1 \in Nat /\ ~(n <= n - 1) /\ (n - 1) + 1 = n
    BY <2>2
  <2>4. Done(n - 1)
    BY <2>1, <2>3
  <2>5. Done((n - 1) + 1)
    BY <1>3, <2>3, <2>4
  <2> QED
    BY <2>2, <2>3, <2>5
<1>5. Cardinality(S) \in Nat
  BY <1>1
<1>6. Done(Cardinality(S))
  <2> HIDE DEF Done
  <2> QED
    BY <1>4, <1>5
<1>7. Small(Cardinality(S)) = SUBSET S
  BY FS_Subset
<1> QED
  BY <1>6, <1>7

\* SumFunction is the value for the whole domain of such a function.
LEMMA SumRecurs ==
  ASSUME NEW S, IsFiniteSet(S), NEW g \in [S -> Int]
  PROVE  \E h : Sums(g, SUBSET S, h) /\ SumFunction(g) = h[S]
<1> DEFINE F(h) == [s \in SUBSET S |-> IF s = {} THEN 0 ELSE g[Picked(s)] + h[Rest(s)]]
           it == CHOOSE h : h = F(h)
<1>1. \E h : h = F(h)
  <2>1. PICK h \in [SUBSET S -> Int] : Sums(g, SUBSET S, h)
    BY SumsExist
  <2>2. h = F(h)
    BY <2>1 DEF Sums
  <2> QED
    BY <2>2
<1>2. it = F(it)
  <2> HIDE DEF F
  <2> QED
    BY <1>1
<1>3. Sums(g, SUBSET S, it)
  <2> HIDE DEF it
  <2> QED
    BY <1>2 DEF Sums
<1>4. DOMAIN g = S
  OBVIOUS
<1>5. SumFunction(g) = it[S]
  BY <1>4 DEF SumFunction, SumFunctionOnSet, FoldFunctionOnSet, MapThenFoldSet, Picked, Rest
<1> HIDE DEF it
<1> QED
  BY <1>3, <1>5

-----------------------------------------------------------------------------
(* What the invariants need to know of a sum *)

\* The partial sums are integers.
LEMMA PartialSums ==
  ASSUME NEW S, IsFiniteSet(S), NEW g \in [S -> Int], NEW h, Sums(g, SUBSET S, h)
  PROVE  \A s \in SUBSET S : h[s] \in Int
<1> DEFINE G == {s \in SUBSET S : h[s] \in Int}
<1>1. {} \in G
  BY DEF Sums
<1>2. ASSUME NEW s \in SUBSET S, s # {}, Rest(s) \in G PROVE s \in G
  <2>1. Picked(s) \in S /\ h[s] = g[Picked(s)] + h[Rest(s)]
    BY <1>2, FS_Subset, RestIsSmaller DEF Sums
  <2> QED
    BY <1>2, <2>1
<1> HIDE DEF G
<1>3. SUBSET S \subseteq G
  BY <1>1, <1>2, SubsetInduction
<1> QED
  BY <1>3 DEF G

\* A sum of integers is an integer.
LEMMA SumIsInt ==
  ASSUME NEW S, IsFiniteSet(S), NEW g \in [S -> Int]
  PROVE  SumFunction(g) \in Int
<1>1. PICK h : Sums(g, SUBSET S, h) /\ SumFunction(g) = h[S]
  BY SumRecurs
<1> QED
  BY <1>1, PartialSums

\* No sum exceeds one whose terms are as great or greater.
LEMMA SumIsMonotonic ==
  ASSUME NEW S, IsFiniteSet(S), NEW f \in [S -> Int], NEW g \in [S -> Int],
         \A x \in S : f[x] <= g[x]
  PROVE  SumFunction(f) <= SumFunction(g)
<1>1. PICK h : Sums(f, SUBSET S, h) /\ SumFunction(f) = h[S]
  BY SumRecurs
<1>2. PICK k : Sums(g, SUBSET S, k) /\ SumFunction(g) = k[S]
  BY SumRecurs
<1>3. \A s \in SUBSET S : h[s] \in Int /\ k[s] \in Int
  BY <1>1, <1>2, PartialSums
<1> DEFINE G == {s \in SUBSET S : h[s] <= k[s]}
<1>4. {} \in G
  BY <1>1, <1>2 DEF Sums
<1>5. ASSUME NEW s \in SUBSET S, s # {}, Rest(s) \in G PROVE s \in G
  <2>1. Picked(s) \in S /\ h[s] = f[Picked(s)] + h[Rest(s)] /\ k[s] = g[Picked(s)] + k[Rest(s)]
    BY <1>1, <1>2, <1>5, FS_Subset, RestIsSmaller DEF Sums
  <2> QED
    BY <1>3, <1>5, <2>1
<1> HIDE DEF G
<1>6. SUBSET S \subseteq G
  BY <1>4, <1>5, SubsetInduction
<1> QED
  BY <1>1, <1>2, <1>6 DEF G

\* A sum of zeros is zero.
LEMMA SumOfZeros ==
  ASSUME NEW S, IsFiniteSet(S), NEW g \in [S -> Int], \A x \in S : g[x] = 0
  PROVE  SumFunction(g) = 0
<1>1. PICK h : Sums(g, SUBSET S, h) /\ SumFunction(g) = h[S]
  BY SumRecurs
<1> DEFINE G == {s \in SUBSET S : h[s] = 0}
<1>2. {} \in G
  BY <1>1 DEF Sums
<1>3. ASSUME NEW s \in SUBSET S, s # {}, Rest(s) \in G PROVE s \in G
  <2>1. Picked(s) \in S /\ h[s] = g[Picked(s)] + h[Rest(s)]
    BY <1>1, <1>3, FS_Subset, RestIsSmaller DEF Sums
  <2> QED
    BY <1>3, <2>1
<1> HIDE DEF G
<1>4. SUBSET S \subseteq G
  BY <1>2, <1>3, SubsetInduction
<1> QED
  BY <1>1, <1>4 DEF G

\* Where one term changes, the sum changes by as much.
LEMMA SumChanges ==
  ASSUME NEW S, IsFiniteSet(S), NEW f \in [S -> Int], NEW g \in [S -> Int], NEW e \in S,
         \A x \in S \ {e} : g[x] = f[x]
  PROVE  SumFunction(g) = SumFunction(f) + g[e] - f[e]
<1>1. PICK h : Sums(f, SUBSET S, h) /\ SumFunction(f) = h[S]
  BY SumRecurs
<1>2. PICK k : Sums(g, SUBSET S, k) /\ SumFunction(g) = k[S]
  BY SumRecurs
<1>3. \A s \in SUBSET S : h[s] \in Int /\ k[s] \in Int
  BY <1>1, <1>2, PartialSums
<1> DEFINE G == {s \in SUBSET S : k[s] = h[s] + IF e \in s THEN g[e] - f[e] ELSE 0}
<1>4. {} \in G
  BY <1>1, <1>2 DEF Sums
<1>5. ASSUME NEW s \in SUBSET S, s # {}, Rest(s) \in G PROVE s \in G
  <2>1. /\ Picked(s) \in s /\ Rest(s) \in SUBSET S
        /\ h[s] = f[Picked(s)] + h[Rest(s)] /\ k[s] = g[Picked(s)] + k[Rest(s)]
    BY <1>1, <1>2, <1>5, FS_Subset, RestIsSmaller DEF Sums
  <2>2. e \in Rest(s) <=> e \in s /\ e # Picked(s)
    BY DEF Rest
  <2>3. k[Rest(s)] = h[Rest(s)] + IF e \in Rest(s) THEN g[e] - f[e] ELSE 0
    BY <1>5
  <2>4. f[Picked(s)] \in Int /\ g[Picked(s)] \in Int /\ f[e] \in Int /\ g[e] \in Int
    BY <2>1
  <2>5. CASE e = Picked(s)
    BY <1>3, <2>1, <2>2, <2>3, <2>4, <2>5
  <2>6. CASE e # Picked(s)
    <3>1. g[Picked(s)] = f[Picked(s)]
      BY <2>1, <2>6
    <3> QED
      BY <1>3, <2>1, <2>2, <2>3, <2>4, <2>6, <3>1
  <2> QED
    BY <2>5, <2>6
<1> HIDE DEF G
<1>6. SUBSET S \subseteq G
  BY <1>4, <1>5, SubsetInduction
<1>7. k[S] = h[S] + (g[e] - f[e])
  BY <1>6 DEF G
<1> QED
  BY <1>1, <1>2, <1>3, <1>7
=============================================================================
