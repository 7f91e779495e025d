------------------------------ MODULE SumTheorems ------------------------------
(***************************************************************************)
(* Sums over finite sets.  The fold that MapThenSumSet is takes some       *)
(* element away, and then some other; these lemmas free its result from    *)
(* the order.  Where one would argue by induction on the set they take a   *)
(* minimal counterexample: the induction theorems of the library have an   *)
(* operator as parameter, which a proof cannot give a value.               *)
(***************************************************************************)
EXTENDS Integers, FiniteSets, FiniteSetsExt, FiniteSetTheorems, WellFoundedInduction,
        TLAPS

\* The sum of f over S.
Total(f, S) == MapThenSumSet(LAMBDA h : f[h], S)

AnyOf(s) == CHOOSE x \in s : TRUE

\* g is the fold of f over the subsets of S.
IsFold(f, S, g) ==
    g = [s \in SUBSET S |-> IF s = {} THEN 0 ELSE f[AnyOf(s)] + g[s \ {AnyOf(s)}]]

\* A family of subsets of a finite set has a minimal member.
LEMMA MinimalMember ==
    ASSUME NEW S, IsFiniteSet(S), NEW T, T \subseteq SUBSET S, T # {}
    PROVE  \E m \in T : \A y \in T : y \subseteq m => y = m
<1>1. IsWellFoundedOn(StrictSubsetOrdering(S), SUBSET S)
  BY FS_StrictSubsetOrderingWellFounded, FS_FiniteSubsetsOfFinite, Zenon
<1>2. PICK m \in T : \A y \in T : ~(<<y, m>> \in StrictSubsetOrdering(S))
  BY <1>1, WFMin, Zenon
<1>3. \A y \in T : y \subseteq m => y = m
  BY <1>2 DEF StrictSubsetOrdering
<1> QED
  BY <1>3

\* What the fold makes of a subset.
LEMMA FoldedSet ==
    ASSUME NEW f, NEW S, NEW g, IsFold(f, S, g), NEW s, s \subseteq S
    PROVE  /\ s = {} => g[s] = 0
           /\ s # {} => g[s] = f[AnyOf(s)] + g[s \ {AnyOf(s)}]
BY DEF IsFold

LEMMA FoldedEmpty ==
    ASSUME NEW f, NEW S, NEW g, IsFold(f, S, g)
    PROVE  g[{}] = 0
BY DEF IsFold

LEMMA AnyOfIsIn == ASSUME NEW s, s # {} PROVE AnyOf(s) \in s
BY DEF AnyOf

\* Two folds agree wherever both are defined.
LEMMA FoldsAgree ==
    ASSUME NEW f, NEW A, NEW g, IsFold(f, A, g), NEW B, NEW h, IsFold(f, B, h),
           IsFiniteSet(B), NEW u, u \subseteq A, u \subseteq B
    PROVE  g[u] = h[u]
<1> DEFINE T == {s \in SUBSET B : s \subseteq A /\ g[s] # h[s]}
<1> SUFFICES ASSUME T # {} PROVE FALSE
  OBVIOUS
<1>0. T \subseteq SUBSET B
  OBVIOUS
<1> HIDE DEF T
<1>1. PICK m \in T : \A y \in T : y \subseteq m => y = m
  BY <1>0, MinimalMember
<1>2. m \subseteq A /\ m \subseteq B /\ g[m] # h[m]
  BY DEF T
<1>3. m # {}
  BY <1>2, FoldedEmpty
<1>4. m \ {AnyOf(m)} \notin T
  BY <1>1, <1>3, AnyOfIsIn
<1>5. g[m \ {AnyOf(m)}] = h[m \ {AnyOf(m)}]
  BY <1>2, <1>4 DEF T
<1> QED
  BY <1>2, <1>3, <1>5, FoldedSet

\* Every finite set has a fold.
LEMMA FoldExists ==
    ASSUME NEW f, NEW S, IsFiniteSet(S)
    PROVE  \E g : IsFold(f, S, g)
<1> DEFINE T == {s \in SUBSET S : ~ \E g : IsFold(f, s, g)}
<1> SUFFICES ASSUME T # {} PROVE FALSE
  OBVIOUS
<1>0. T \subseteq SUBSET S
  OBVIOUS
<1> HIDE DEF T
<1>1. PICK m \in T : \A y \in T : y \subseteq m => y = m
  BY <1>0, MinimalMember
<1>2. m \subseteq S /\ \A g : ~IsFold(f, m, g)
  BY DEF T
<1> DEFINE fold(s) == CHOOSE g : IsFold(f, s, g)
           g == [s \in SUBSET m |-> IF s = {} THEN 0 ELSE f[AnyOf(s)] +
                                        fold(s \ {AnyOf(s)})[s \ {AnyOf(s)}]]
<1>3. ASSUME NEW s, s \subseteq m, s # m
      PROVE  IsFold(f, s, fold(s)) /\ IsFiniteSet(s)
  <2>1. s \notin T
    BY <1>1, <1>3
  <2>2. \E x : IsFold(f, s, x)
    BY <1>2, <1>3, <2>1 DEF T
  <2> QED
    BY <1>2, <1>3, <2>2, FS_Subset, Zenon
<1> HIDE DEF fold
<1>4. ASSUME NEW s, s \subseteq m, s # m
      PROVE  g[s] = fold(s)[s]
  <2>1. CASE s = {}
    BY <1>3, <1>4, <2>1, FoldedEmpty
  <2>2. CASE s # {}
    <3> DEFINE u == s \ {AnyOf(s)}
    <3>1. u \subseteq s /\ u \subseteq m /\ u # m
      BY <1>4
    <3>2. IsFold(f, s, fold(s)) /\ IsFold(f, u, fold(u)) /\ IsFiniteSet(u)
      BY <1>3, <1>4, <3>1
    <3>3. fold(s)[u] = fold(u)[u]
      BY <3>1, <3>2, FoldsAgree
    <3>4. fold(s)[s] = f[AnyOf(s)] + fold(s)[u]
      BY <2>2, <3>2, FoldedSet
    <3> QED
      BY <1>4, <2>2, <3>3, <3>4
  <2> QED
    BY <2>1, <2>2
<1>5. ASSUME NEW s \in SUBSET m, s # {}
      PROVE  fold(s \ {AnyOf(s)})[s \ {AnyOf(s)}] = g[s \ {AnyOf(s)}]
  <2>1. s \ {AnyOf(s)} \subseteq m /\ s \ {AnyOf(s)} # m
    BY <1>5, AnyOfIsIn
  <2> HIDE DEF g
  <2> QED
    BY <1>4, <2>1
<1>6. g = [s \in SUBSET m |-> IF s = {} THEN 0 ELSE f[AnyOf(s)] + g[s \ {AnyOf(s)}]]
  BY <1>5
<1> HIDE DEF g
<1> QED
  BY <1>2, <1>6 DEF IsFold

\* MapThenSumSet is that fold.
LEMMA TotalIsFold ==
    ASSUME NEW f, NEW S, IsFiniteSet(S)
    PROVE  \E g : IsFold(f, S, g) /\ Total(f, S) = g[S]
<1> DEFINE g == CHOOSE g : g = [s \in SUBSET S |->
                    IF s = {} THEN 0 ELSE f[CHOOSE x \in s : TRUE]
                                          + g[s \ {CHOOSE x \in s : TRUE}]]
<1>1. Total(f, S) = g[S]
  BY DEF Total, MapThenSumSet, MapThenFoldSet
<1>2. PICK x : IsFold(f, S, x)
  BY FoldExists
<1>3. x = [s \in SUBSET S |->
                    IF s = {} THEN 0 ELSE f[CHOOSE y \in s : TRUE]
                                          + x[s \ {CHOOSE y \in s : TRUE}]]
  BY <1>2, Zenon DEF IsFold, AnyOf
<1>4. g = [s \in SUBSET S |->
                    IF s = {} THEN 0 ELSE f[CHOOSE y \in s : TRUE]
                                          + g[s \ {CHOOSE y \in s : TRUE}]]
  BY <1>3, Zenon
<1> HIDE DEF g
<1>5. IsFold(f, S, g)
  BY <1>4, Zenon DEF IsFold, AnyOf
<1> QED
  BY <1>1, <1>5

\* The sum over a set in terms of the sum over what the fold leaves of it.
LEMMA TotalOfNone == ASSUME NEW f PROVE Total(f, {}) = 0
<1>1. PICK g : IsFold(f, {}, g) /\ Total(f, {}) = g[{}]
  BY FS_EmptySet, TotalIsFold
<1> QED
  BY <1>1, FoldedEmpty

LEMMA TotalOfAny ==
    ASSUME NEW f, NEW S, IsFiniteSet(S), S # {}
    PROVE  Total(f, S) = f[AnyOf(S)] + Total(f, S \ {AnyOf(S)})
<1> DEFINE R == S \ {AnyOf(S)}
<1>1. PICK g : IsFold(f, S, g) /\ Total(f, S) = g[S]
  BY TotalIsFold
<1>2. IsFiniteSet(R) /\ R \subseteq S
  BY FS_Subset
<1>3. PICK h : IsFold(f, R, h) /\ Total(f, R) = h[R]
  BY <1>2, TotalIsFold
<1>4. g[R] = h[R]
  BY <1>1, <1>2, <1>3, FoldsAgree
<1>5. g[S] = f[AnyOf(S)] + g[R]
  BY <1>1, FoldedSet
<1> QED
  BY <1>1, <1>3, <1>4, <1>5

\* A sum of natural numbers is one.
LEMMA TotalType ==
    ASSUME NEW f, NEW S, IsFiniteSet(S), \A x \in S : f[x] \in Nat
    PROVE  Total(f, S) \in Nat
<1> DEFINE T == {s \in SUBSET S : Total(f, s) \notin Nat}
<1> SUFFICES ASSUME T # {} PROVE FALSE
  OBVIOUS
<1>0. T \subseteq SUBSET S
  OBVIOUS
<1> HIDE DEF T
<1>1. PICK m \in T : \A y \in T : y \subseteq m => y = m
  BY <1>0, MinimalMember
<1>2. m \subseteq S /\ IsFiniteSet(m) /\ Total(f, m) \notin Nat
  BY FS_Subset DEF T
<1>3. m # {}
  BY <1>2, TotalOfNone
<1>4. AnyOf(m) \in m
  BY <1>3, AnyOfIsIn
<1>5. Total(f, m \ {AnyOf(m)}) \in Nat
  BY <1>1, <1>2, <1>4 DEF T
<1>6. Total(f, m) = f[AnyOf(m)] + Total(f, m \ {AnyOf(m)})
  BY <1>2, <1>3, TotalOfAny
<1> QED
  BY <1>2, <1>4, <1>5, <1>6

\* A sum of integers is one.
LEMMA TotalInteger ==
    ASSUME NEW f, NEW S, IsFiniteSet(S), \A x \in S : f[x] \in Int
    PROVE  Total(f, S) \in Int
<1> DEFINE T == {s \in SUBSET S : Total(f, s) \notin Int}
<1> SUFFICES ASSUME T # {} PROVE FALSE
  OBVIOUS
<1>0. T \subseteq SUBSET S
  OBVIOUS
<1> HIDE DEF T
<1>1. PICK m \in T : \A y \in T : y \subseteq m => y = m
  BY <1>0, MinimalMember
<1>2. m \subseteq S /\ IsFiniteSet(m) /\ Total(f, m) \notin Int
  BY FS_Subset DEF T
<1>3. m # {}
  BY <1>2, TotalOfNone
<1>4. AnyOf(m) \in m
  BY <1>3, AnyOfIsIn
<1>5. Total(f, m \ {AnyOf(m)}) \in Int
  BY <1>1, <1>2, <1>4 DEF T
<1>6. Total(f, m) = f[AnyOf(m)] + Total(f, m \ {AnyOf(m)})
  BY <1>2, <1>3, TotalOfAny
<1> QED
  BY <1>2, <1>4, <1>5, <1>6

\* Whatever element is taken away first.
LEMMA TotalOf ==
    ASSUME NEW f, NEW S, IsFiniteSet(S), \A x \in S : f[x] \in Int, NEW e \in S
    PROVE  Total(f, S) = f[e] + Total(f, S \ {e})
<1> DEFINE T == {s \in SUBSET S : \E x \in s : Total(f, s) # f[x] + Total(f, s \ {x})}
<1> SUFFICES ASSUME T # {} PROVE FALSE
  OBVIOUS
<1>0. T \subseteq SUBSET S
  OBVIOUS
<1> HIDE DEF T
<1>1. PICK m \in T : \A y \in T : y \subseteq m => y = m
  BY <1>0, MinimalMember
<1>2. PICK x \in m : m \subseteq S /\ Total(f, m) # f[x] + Total(f, m \ {x})
  BY DEF T
<1> DEFINE y == AnyOf(m)
<1>3. IsFiniteSet(m) /\ IsFiniteSet(m \ {x}) /\ IsFiniteSet(m \ {y}) /\ IsFiniteSet((m \ {x}) \ {y})
  BY <1>2, FS_Subset
<1>4. y \in m /\ Total(f, m) = f[y] + Total(f, m \ {y})
  BY <1>2, <1>3, AnyOfIsIn, TotalOfAny
<1> HIDE DEF y
<1>5. x # y
  BY <1>2, <1>4
<1>6. m \ {x} \notin T /\ m \ {y} \notin T
  BY <1>1, <1>2, <1>4
<1>7. /\ Total(f, m \ {x}) = f[y] + Total(f, (m \ {x}) \ {y})
      /\ Total(f, m \ {y}) = f[x] + Total(f, (m \ {y}) \ {x})
  BY <1>2, <1>4, <1>5, <1>6 DEF T
<1>8. PICK r, p, q : /\ r = Total(f, (m \ {x}) \ {y})
                     /\ p = Total(f, m \ {x}) /\ q = Total(f, m \ {y})
  OBVIOUS
<1>9. p = f[y] + r /\ q = f[x] + r
  <2>1. (m \ {y}) \ {x} = (m \ {x}) \ {y}
    OBVIOUS
  <2> QED
    BY <1>7, <1>8, <2>1, Zenon
<1>10. f[x] \in Int /\ f[y] \in Int /\ r \in Int
  BY <1>2, <1>3, <1>4, <1>8, TotalInteger
<1>11. Total(f, m) = f[y] + q /\ Total(f, m) # f[x] + p
  BY <1>2, <1>4, <1>8, Zenon
<1> QED
  BY <1>9, <1>10, <1>11

\* More terms, or larger ones, are no less.
LEMMA TotalOfSubset ==
    ASSUME NEW f, NEW S, IsFiniteSet(S), \A x \in S : f[x] \in Nat, NEW A \in SUBSET S
    PROVE  Total(f, A) <= Total(f, S)
<1> DEFINE T == {s \in SUBSET S : A \subseteq s /\ ~(Total(f, A) <= Total(f, s))}
<1> SUFFICES ASSUME T # {} PROVE FALSE
  OBVIOUS
<1>0. T \subseteq SUBSET S
  OBVIOUS
<1> HIDE DEF T
<1>1. PICK m \in T : \A y \in T : y \subseteq m => y = m
  BY <1>0, MinimalMember
<1>2. m \subseteq S /\ A \subseteq m /\ ~(Total(f, A) <= Total(f, m))
  BY DEF T
<1>3. IsFiniteSet(m) /\ IsFiniteSet(A) /\ \A x \in m : f[x] \in Nat
  BY <1>2, FS_Subset
<1>4. Total(f, A) \in Nat /\ Total(f, m) \in Nat
  BY <1>2, <1>3, TotalType
<1>5. PICK x \in m : x \notin A
  BY <1>2, <1>4
<1>6. m \ {x} \notin T
  BY <1>1, <1>5
<1>7. Total(f, A) <= Total(f, m \ {x})
  BY <1>2, <1>5, <1>6 DEF T
<1>8. IsFiniteSet(m \ {x})
  BY <1>3, FS_Subset
<1>9. Total(f, m) = f[x] + Total(f, m \ {x}) /\ Total(f, m \ {x}) \in Nat /\ f[x] \in Nat
  BY <1>3, <1>8, TotalOf, TotalType
<1> QED
  BY <1>2, <1>4, <1>7, <1>9

LEMMA TotalMonotone ==
    ASSUME NEW f, NEW g, NEW S, IsFiniteSet(S),
           \A x \in S : f[x] \in Nat /\ g[x] \in Nat /\ f[x] <= g[x]
    PROVE  Total(f, S) <= Total(g, S)
<1> DEFINE T == {s \in SUBSET S : ~(Total(f, s) <= Total(g, s))}
<1> SUFFICES ASSUME T # {} PROVE FALSE
  OBVIOUS
<1>0. T \subseteq SUBSET S
  OBVIOUS
<1> HIDE DEF T
<1>1. PICK m \in T : \A y \in T : y \subseteq m => y = m
  BY <1>0, MinimalMember
<1>2. m \subseteq S /\ IsFiniteSet(m) /\ ~(Total(f, m) <= Total(g, m))
  BY FS_Subset DEF T
<1>3. PICK x \in m : TRUE
  BY <1>2, TotalOfNone
<1>4. IsFiniteSet(m \ {x}) /\ Total(f, m \ {x}) <= Total(g, m \ {x})
  BY <1>1, <1>2, <1>3, FS_Subset DEF T
<1>5. Total(f, m) = f[x] + Total(f, m \ {x}) /\ Total(f, m \ {x}) \in Nat
  BY <1>2, <1>3, <1>4, TotalOf, TotalType
<1>6. Total(g, m) = g[x] + Total(g, m \ {x}) /\ Total(g, m \ {x}) \in Nat
  BY <1>2, <1>3, <1>4, TotalOf, TotalType
<1>7. f[x] \in Nat /\ g[x] \in Nat /\ f[x] <= g[x]
  BY <1>2, <1>3
<1> QED
  BY <1>2, <1>4, <1>5, <1>6, <1>7

\* A set of natural numbers has a least one.
LEMMA LeastNatural ==
    ASSUME NEW S, S \subseteq Nat, S # {}
    PROVE  \E m \in S : \A n \in S : m <= n
<1> DEFINE R == OpToRel(<, Nat)
<1>1. IsWellFoundedOn(R, Nat)
  BY NatLessThanWellFounded, Zenon
<1>2. \A m, n \in Nat : m < n => <<m, n>> \in R
  BY DEF OpToRel
<1> HIDE DEF R
<1>3. PICK m \in S : \A n \in S : ~(<<n, m>> \in R)
  BY <1>1, WFMin, Zenon
<1>4. ASSUME NEW n \in S PROVE m <= n
  <2>1. ~(<<n, m>> \in R) /\ m \in Nat /\ n \in Nat
    BY <1>3
  <2>2. ~(n < m)
    BY <1>2, <2>1, Zenon
  <2> QED
    BY <2>1, <2>2
<1> QED
  BY <1>4

\* Terms that are 0 may be left out.
LEMMA TotalOfOthers ==
    ASSUME NEW f, NEW S, IsFiniteSet(S), \A x \in S : f[x] \in Int,
           NEW A, A \subseteq S, \A x \in S \ A : f[x] = 0
    PROVE  Total(f, A) = Total(f, S)
<1> DEFINE T == {s \in SUBSET S : A \subseteq s /\ Total(f, A) # Total(f, s)}
<1> SUFFICES ASSUME T # {} PROVE FALSE
  OBVIOUS
<1>0. T \subseteq SUBSET S
  OBVIOUS
<1> HIDE DEF T
<1>1. PICK m \in T : \A y \in T : y \subseteq m => y = m
  BY <1>0, MinimalMember
<1>2. m \subseteq S /\ IsFiniteSet(m) /\ A \subseteq m /\ Total(f, A) # Total(f, m)
  BY FS_Subset DEF T
<1>3. PICK x \in m : x \notin A
  BY <1>2
<1>4. m \ {x} \notin T
  BY <1>1
<1>5. Total(f, A) = Total(f, m \ {x})
  BY <1>2, <1>3, <1>4 DEF T
<1>6. Total(f, m) = f[x] + Total(f, m \ {x}) /\ f[x] = 0
  BY <1>2, <1>3, TotalOf
<1>7. Total(f, A) \in Int
  BY <1>2, FS_Subset, TotalInteger
<1> QED
  BY <1>2, <1>5, <1>6, <1>7

\* On S, h is f with p added to the terms of A.
Added(h, f, p, A, S) ==
    \A x \in S : /\ f[x] \in Int /\ p[x] \in Int
                 /\ h[x] = f[x] + (IF x \in A THEN p[x] ELSE 0)

\* Adding p to the terms of A adds the sum of p over A.
LEMMA TotalOfMore ==
    ASSUME NEW f, NEW p, NEW h, NEW A, NEW S, IsFiniteSet(S), Added(h, f, p, A, S)
    PROVE  Total(h, S) = Total(f, S) + Total(p, S \cap A)
<1> DEFINE T == {s \in SUBSET S : Total(h, s) # Total(f, s) + Total(p, s \cap A)}
<1> SUFFICES ASSUME T # {} PROVE FALSE
  OBVIOUS
<1>0. T \subseteq SUBSET S
  OBVIOUS
<1> HIDE DEF T
<1>1. PICK m \in T : \A y \in T : y \subseteq m => y = m
  BY <1>0, MinimalMember
<1>2. m \subseteq S /\ Total(h, m) # Total(f, m) + Total(p, m \cap A)
  BY DEF T
<1>3. PICK x \in m : TRUE
  <2>1. Total(h, {}) = 0 /\ Total(f, {}) = 0 /\ Total(p, {}) = 0
    BY TotalOfNone
  <2>2. CASE m = {}
    <3>1. m \cap A = {}
      BY <2>2
    <3>2. Total(p, m \cap A) = 0
      BY <2>1, <3>1, Zenon
    <3> QED
      BY <1>2, <2>1, <2>2, <3>2
  <2> QED
    BY <2>2
<1> DEFINE r == m \ {x}
<1>4. IsFiniteSet(m) /\ IsFiniteSet(r) /\ IsFiniteSet(m \cap A) /\ IsFiniteSet(r \cap A)
  BY <1>2, FS_Subset
<1>5. r \notin T /\ r \subseteq S
  BY <1>1, <1>2
<1>6. Total(h, r) = Total(f, r) + Total(p, r \cap A)
  BY <1>5 DEF T
<1>7. \A y \in S : f[y] \in Int /\ p[y] \in Int /\ h[y] \in Int
  BY DEF Added
<1>8. Total(h, m) = h[x] + Total(h, r) /\ Total(f, m) = f[x] + Total(f, r)
  BY <1>2, <1>4, <1>7, TotalOf
<1>9. Total(f, r) \in Int /\ Total(p, r \cap A) \in Int
  BY <1>4, <1>5, <1>7, TotalInteger
<1>10. Total(p, m \cap A) = (IF x \in A THEN p[x] ELSE 0) + Total(p, r \cap A)
  <2>1. CASE x \in A
    <3>1. r \cap A = (m \cap A) \ {x} /\ x \in m \cap A
      BY <2>1
    <3> HIDE DEF r
    <3>2. Total(p, m \cap A) = p[x] + Total(p, (m \cap A) \ {x})
      BY <1>2, <1>4, <1>7, <3>1, TotalOf
    <3> QED
      BY <2>1, <3>1, <3>2
  <2>2. CASE x \notin A
    <3>1. r \cap A = m \cap A
      BY <2>2
    <3>2. Total(p, m \cap A) = Total(p, r \cap A)
      BY <3>1, Zenon
    <3> HIDE DEF r
    <3> QED
      BY <1>9, <2>2, <3>2
  <2> QED
    BY <2>1, <2>2
<1> HIDE DEF r
<1>11. f[x] \in Int /\ p[x] \in Int /\ h[x] = f[x] + (IF x \in A THEN p[x] ELSE 0)
  BY <1>2 DEF Added
<1> QED
  BY <1>2, <1>6, <1>8, <1>9, <1>10, <1>11

\* What is left of a sum without one of its terms.
LEMMA TotalWithout ==
    ASSUME NEW f, NEW A, IsFiniteSet(A), \A x \in A : f[x] \in Int,
           NEW u \in A, NEW B, B = A \ {u}
    PROVE  Total(f, A) = Total(f, B) + f[u]
<1>1. Total(f, A) = f[u] + Total(f, A \ {u})
  BY TotalOf
<1>2. IsFiniteSet(B)
  BY FS_Subset
<1>3. Total(f, B) \in Int
  BY <1>2, TotalInteger
<1>4. Total(f, A) = f[u] + Total(f, B)
  BY <1>1, Zenon
<1> QED
  BY <1>3, <1>4

\* Units in a row: the last one on top of the others.
LEMMA LastOne ==
    ASSUME NEW f, NEW a \in Nat, NEW u \in Nat, a <= u, \A x \in Nat : f[x] \in Int
    PROVE  Total(f, a .. u) = Total(f, a .. (u - 1)) + f[u]
<1>0. PICK A, B : A = a .. u /\ B = a .. (u - 1)
  OBVIOUS
<1>1. B = A \ {u} /\ u \in A /\ A \subseteq Nat
  BY <1>0
<1>2. IsFiniteSet(A)
  BY <1>0, FS_Interval
<1>3. \A x \in A : f[x] \in Int
  BY <1>1
<1>4. Total(f, A) = Total(f, B) + f[u]
  BY <1>1, <1>2, <1>3, TotalWithout
<1> QED
  BY <1>0, <1>4
=============================================================================
