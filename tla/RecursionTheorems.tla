------------------------- MODULE RecursionTheorems -------------------------
(***************************************************************************)
(* Facts about functions that are defined by recursion: when there is one, *)
(* induction over naturals and over the subsets of a finite set, and the   *)
(* sum of a function over a finite set, in the form that MapThenSumSet of  *)
(* the community modules evaluates it: a function on the subsets of the    *)
(* set, each subset giving up the element CHOOSE picks.  At the end, how   *)
(* sequences that are written out join and grow.                           *)
(***************************************************************************)
EXTENDS Integers, FiniteSets, Sequences, FiniteSetTheorems, SequenceTheorems,
        WellFoundedInduction, TLAPS

\* Induction over the naturals, with a set in place of a predicate.
LEMMA NatSetInduction ==
  ASSUME NEW Q, 0 \in Q, \A n \in Nat : n \in Q => n + 1 \in Q
  PROVE  Nat \subseteq Q
<1> DEFINE T == {n \in Nat : n \notin Q}
<1> SUFFICES ASSUME T # {} PROVE FALSE
  OBVIOUS
<1>1. PICK n \in T : \A m \in T : ~(<<m, n>> \in OpToRel(<, Nat))
  <2> HIDE DEF T
  <2>1. T \subseteq Nat
    BY DEF T
  <2> QED BY <2>1, NatLessThanWellFounded, WFMin
<1>2. \A m \in T : ~(m < n)
  BY <1>1 DEF OpToRel
<1>3. n \in Nat /\ n # 0 /\ n \notin Q
  OBVIOUS
<1>4. n - 1 \in Nat /\ n - 1 < n /\ (n - 1) + 1 = n
  BY <1>3
<1>5. n - 1 \in Q
  BY <1>2, <1>4
<1> QED BY <1>3, <1>4, <1>5

-----------------------------------------------------------------------------
(* Recursion over ranks.                                                   *)

\* h solves the equations of G for the arguments of rank below n.
Solves(D, r, G, h, n) == \A x \in D : r[x] < n => h[x] = G[<<x, h>>]

\* G at x looks only at values of its second argument at lower ranks.
LooksBelow(D, V, r, G) ==
  \A x \in D : \A g, h \in [D -> V] :
    (\A y \in D : r[y] < r[x] => g[y] = h[y]) => G[<<x, g>>] = G[<<x, h>>]

\* There is one solution at most, as far as it goes.
LEMMA SolutionsAgree ==
  ASSUME NEW D, NEW V, NEW r \in [D -> Nat], NEW G, LooksBelow(D, V, r, G),
         NEW g \in [D -> V], NEW h \in [D -> V], NEW n \in Nat, NEW m \in Nat,
         Solves(D, r, G, g, n), Solves(D, r, G, h, m)
  PROVE  \A x \in D : r[x] < n /\ r[x] < m => g[x] = h[x]
<1> DEFINE Q == {k \in Nat : \A x \in D : r[x] < k /\ r[x] < n /\ r[x] < m => g[x] = h[x]}
<1>1. 0 \in Q
  OBVIOUS
<1>2. ASSUME NEW k \in Nat, k \in Q PROVE k + 1 \in Q
  <2> SUFFICES ASSUME NEW x \in D, r[x] < k + 1, r[x] < n, r[x] < m PROVE g[x] = h[x]
    OBVIOUS
  <2>1. \A y \in D : r[y] < r[x] => g[y] = h[y]
    <3> TAKE y \in D
    <3>1. r[y] \in Nat /\ r[x] \in Nat
      OBVIOUS
    <3> QED BY <1>2, <3>1
  <2>2. G[<<x, g>>] = G[<<x, h>>]
    BY <2>1 DEF LooksBelow
  <2> QED BY <2>2 DEF Solves
<1>3. Nat \subseteq Q
  <2> HIDE DEF Q
  <2> QED BY <1>1, <1>2, NatSetInduction
<1> TAKE x \in D
<1>4. r[x] + 1 \in Q /\ r[x] \in Nat
  BY <1>3
<1> QED BY <1>4

\* There is a solution.
Recursion(D, V, r, G) ==
  /\ r \in [D -> Nat] /\ V # {}
  /\ \A x \in D : \A h \in [D -> V] : G[<<x, h>>] \in V
  /\ LooksBelow(D, V, r, G)

Solvable(D, V, G) == \E h \in [D -> V] : \A x \in D : h[x] = G[<<x, h>>]

LEMMA RecursionExists == \A D, V, r, G : Recursion(D, V, r, G) => Solvable(D, V, G)
<1> SUFFICES ASSUME NEW D, NEW V, NEW r, NEW G, Recursion(D, V, r, G)
             PROVE  Solvable(D, V, G)
  OBVIOUS
<1> /\ r \in [D -> Nat] /\ V # {}
    /\ \A x \in D : \A h \in [D -> V] : G[<<x, h>>] \in V
    /\ LooksBelow(D, V, r, G)
  BY Zenon DEF Recursion
<1> PICK v0 \in V : TRUE
  OBVIOUS
<1> DEFINE Some(n) == \E h \in [D -> V] : Solves(D, r, G, h, n)
           R == {n \in Nat : Some(n)}
<1>1. 0 \in R
  <2> DEFINE h == [x \in D |-> v0]
  <2>1. h \in [D -> V] /\ Solves(D, r, G, h, 0)
    BY DEF Solves
  <2>2. Some(0)
    BY <2>1
  <2> HIDE DEF Some
  <2> QED BY <2>2
<1>2. ASSUME NEW n \in Nat, n \in R PROVE n + 1 \in R
  <2>1. PICK h \in [D -> V] : Solves(D, r, G, h, n)
    BY <1>2
  <2> DEFINE g == [x \in D |-> G[<<x, h>>]]
  <2>2. g \in [D -> V]
    OBVIOUS
  <2>3. \A x \in D : r[x] < n => g[x] = h[x]
    BY <2>1 DEF Solves
  <2>4. ASSUME NEW x \in D, r[x] < n + 1 PROVE g[x] = G[<<x, g>>]
    <3>1. \A y \in D : r[y] < r[x] => h[y] = g[y]
      <4> TAKE y \in D
      <4>1. r[y] \in Nat /\ r[x] \in Nat
        OBVIOUS
      <4> QED BY <2>3, <2>4, <4>1
    <3>2. G[<<x, h>>] = G[<<x, g>>]
      <4> HIDE DEF g
      <4> QED BY <2>2, <3>1 DEF LooksBelow
    <3> QED BY <3>2
  <2>5. Some(n + 1)
    <3> HIDE DEF g
    <3> QED BY <2>2, <2>4 DEF Solves
  <2> HIDE DEF Some
  <2> QED BY <2>5
<1>3. Nat \subseteq R
  <2> HIDE DEF R
  <2> QED BY <1>1, <1>2, NatSetInduction
<1> DEFINE a == [n \in Nat |-> CHOOSE h \in [D -> V] : Solves(D, r, G, h, n)]
<1>4. \A n \in Nat : a[n] \in [D -> V] /\ Solves(D, r, G, a[n], n)
  BY <1>3
<1> DEFINE g == [x \in D |-> a[r[x] + 1][x]]
<1> HIDE DEF a
<1>5. g \in [D -> V]
  BY <1>4
<1>6. ASSUME NEW x \in D PROVE g[x] = G[<<x, g>>]
  <2>1. r[x] \in Nat /\ r[x] + 1 \in Nat /\ g[x] = a[r[x] + 1][x]
    OBVIOUS
  <2>2. \A y \in D : r[y] < r[x] => a[r[x] + 1][y] = g[y]
    <3> SUFFICES ASSUME NEW y \in D, r[y] < r[x] PROVE a[r[x] + 1][y] = a[r[y] + 1][y]
      OBVIOUS
    <3>1. r[y] \in Nat /\ r[y] + 1 \in Nat /\ r[y] < r[x] + 1 /\ r[y] < r[y] + 1
      BY <2>1
    <3>2. /\ a[r[x] + 1] \in [D -> V] /\ Solves(D, r, G, a[r[x] + 1], r[x] + 1)
          /\ a[r[y] + 1] \in [D -> V] /\ Solves(D, r, G, a[r[y] + 1], r[y] + 1)
      BY <1>4, <2>1, <3>1
    <3> QED BY <2>1, <3>1, <3>2, SolutionsAgree
  <2>3. a[r[x] + 1] \in [D -> V] /\ a[r[x] + 1][x] = G[<<x, a[r[x] + 1]>>]
    <3> DEFINE h == a[r[x] + 1]
    <3>1. h \in [D -> V] /\ Solves(D, r, G, h, r[x] + 1)
      BY <1>4, <2>1
    <3>2. r[x] < r[x] + 1
      BY <2>1
    <3> HIDE DEF h
    <3>3. h[x] = G[<<x, h>>]
      BY <3>1, <3>2 DEF Solves
    <3> QED BY <3>1, <3>3 DEF h
  <2>4. G[<<x, a[r[x] + 1]>>] = G[<<x, g>>]
    <3> HIDE DEF g
    <3> QED BY <1>5, <2>2, <2>3 DEF LooksBelow
  <2> QED BY <2>1, <2>3, <2>4
<1> HIDE DEF g
<1> QED BY <1>5, <1>6 DEF Solvable

-----------------------------------------------------------------------------
(* Sums over finite sets.                                                  *)

Pick(s) == CHOOSE x \in s : TRUE

\* h holds the sum of f over every subset of S.
Sums(f, S, h) ==
  h = [s \in SUBSET S |-> IF s = {} THEN 0 ELSE f[Pick(s)] + h[s \ {Pick(s)}]]

\* The element that is picked is one of the set.
LEMMA Picked == \A s : s # {} => Pick(s) \in s
  BY DEF Pick

\* Induction over the subsets of a finite set: a set of them that holds the
\* empty one, and every one of which the picked element can be taken, is all.
LEMMA SubsetInduction ==
  ASSUME NEW S, IsFiniteSet(S), NEW Q, {} \in Q,
         \A s \in SUBSET S : s # {} /\ s \ {Pick(s)} \in Q => s \in Q
  PROVE  SUBSET S \subseteq Q
<1> DEFINE R == {n \in Nat : \A s \in SUBSET S : Cardinality(s) = n => s \in Q}
<1>1. \A s \in SUBSET S : IsFiniteSet(s) /\ Cardinality(s) \in Nat
  BY FS_Subset, FS_CardinalityType
<1>2. 0 \in R
  BY <1>1, FS_EmptySet
<1>3. ASSUME NEW n \in Nat, n \in R PROVE n + 1 \in R
  <2> SUFFICES ASSUME NEW s \in SUBSET S, Cardinality(s) = n + 1 PROVE s \in Q
    OBVIOUS
  <2>1. s # {}
    BY FS_EmptySet
  <2>2. Cardinality(s \ {Pick(s)}) = n
    <3>1. Pick(s) \in s /\ IsFiniteSet(s)
      BY <1>1, <2>1, Picked
    <3>2. Cardinality(s \ {Pick(s)}) = Cardinality(s) - 1
      BY <3>1, FS_RemoveElement
    <3> QED BY <3>2
  <2>3. s \ {Pick(s)} \in Q
    BY <1>3, <2>2
  <2> QED BY <2>1, <2>3
<1>4. Nat \subseteq R
  <2> HIDE DEF R
  <2> QED BY <1>2, <1>3, NatSetInduction
<1> QED BY <1>1, <1>4

\* There are such sums.
LEMMA SumsExist ==
  ASSUME NEW S, IsFiniteSet(S), NEW f
  PROVE  \E h : Sums(f, S, h)
<1> DEFINE Small(n) == {s \in SUBSET S : Cardinality(s) <= n}
           Body(h, s) == IF s = {} THEN 0 ELSE f[Pick(s)] + h[s \ {Pick(s)}]
           Ok(n) == \E h : \A s \in Small(n) : h[s] = Body(h, s)
           R == {n \in Nat : Ok(n)}
<1>1. \A s \in SUBSET S : IsFiniteSet(s) /\ Cardinality(s) \in Nat
  BY FS_Subset, FS_CardinalityType
<1>2. 0 \in R
  <2>1. \A s \in Small(0) : s = {}
    BY <1>1, FS_EmptySet
  <2> DEFINE h == [s \in SUBSET S |-> 0]
  <2>2. \A s \in Small(0) : h[s] = Body(h, s)
    BY <2>1
  <2> QED BY <2>2
<1>3. ASSUME NEW n \in Nat, n \in R PROVE n + 1 \in R
  <2>1. PICK h : \A s \in Small(n) : h[s] = Body(h, s)
    BY <1>3
  <2> DEFINE k == [s \in SUBSET S |-> Body(h, s)]
  <2>2. ASSUME NEW s \in Small(n + 1) PROVE k[s] = Body(k, s)
    <3>1. CASE s = {}
      BY <3>1
    <3>2. CASE s # {}
      <4>1. s \ {Pick(s)} \in Small(n)
        BY <1>1, <3>2, Picked, FS_RemoveElement
      <4>2. k[s \ {Pick(s)}] = h[s \ {Pick(s)}]
        BY <2>1, <4>1
      <4> QED BY <3>2, <4>2
    <3> QED BY <3>1, <3>2
  <2>3. \A s \in Small(n + 1) : k[s] = Body(k, s)
    BY <2>2
  <2>4. Ok(n + 1)
    <3> HIDE DEF k, Small, Body
    <3> QED BY <2>3
  <2> HIDE DEF Ok
  <2> QED BY <2>4
<1>4. Cardinality(S) \in R
  <2> HIDE DEF R
  <2> QED BY <1>1, <1>2, <1>3, NatSetInduction
<1>5. PICK h : \A s \in Small(Cardinality(S)) : h[s] = Body(h, s)
  BY <1>4
<1>6. \A s \in SUBSET S : h[s] = Body(h, s) /\ (s # {} => s \ {Pick(s)} \in SUBSET S)
  BY <1>5, FS_Subset
<1> DEFINE g == [s \in SUBSET S |-> h[s]]
<1>7. \A s \in SUBSET S : g[s] = Body(g, s)
  BY <1>6
<1>8. Sums(f, S, g)
  BY <1>7 DEF Sums
<1> QED BY <1>8

\* The equation, subset by subset.
LEMMA SumsEquation ==
  ASSUME NEW S, NEW f, NEW h, Sums(f, S, h)
  PROVE  /\ h[{}] = 0
         /\ \A s \in SUBSET S : s # {} => h[s] = f[Pick(s)] + h[s \ {Pick(s)}]
  BY DEF Sums

\* The sums of integers are integers.
LEMMA SumsType ==
  ASSUME NEW S, IsFiniteSet(S), NEW f \in [S -> Int], NEW h, Sums(f, S, h)
  PROVE  \A s \in SUBSET S : h[s] \in Int
<1> DEFINE Q == {s \in SUBSET S : h[s] \in Int}
<1>1. {} \in Q
  BY SumsEquation
<1>2. ASSUME NEW s \in SUBSET S, s # {}, s \ {Pick(s)} \in Q PROVE s \in Q
  BY <1>2, SumsEquation, Picked
<1>3. SUBSET S \subseteq Q
  <2> HIDE DEF Q
  <2> QED BY <1>1, <1>2, SubsetInduction
<1> QED BY <1>3

\* Two functions that agree but for one argument have sums that differ by
\* what the functions differ there.
LEMMA SumsDiffer ==
  ASSUME NEW S, IsFiniteSet(S), NEW f \in [S -> Int], NEW g \in [S -> Int],
         NEW c \in S, \A x \in S \ {c} : f[x] = g[x],
         NEW h, NEW k, Sums(f, S, h), Sums(g, S, k)
  PROVE  k[S] = h[S] + (g[c] - f[c])
<1> DEFINE Q == {s \in SUBSET S : k[s] = h[s] + IF c \in s THEN g[c] - f[c] ELSE 0}
<1>1. {} \in Q
  BY SumsEquation
<1>2. ASSUME NEW s \in SUBSET S, s # {}, s \ {Pick(s)} \in Q PROVE s \in Q
  <2>1. h[s] = f[Pick(s)] + h[s \ {Pick(s)}] /\ k[s] = g[Pick(s)] + k[s \ {Pick(s)}]
    BY <1>2, SumsEquation
  <2>2. h[s \ {Pick(s)}] \in Int /\ k[s \ {Pick(s)}] \in Int
    BY <1>2, SumsType
  <2>3. Pick(s) \in s
    BY <1>2, Picked
  <2>4. f[Pick(s)] \in Int /\ g[Pick(s)] \in Int /\ f[c] \in Int /\ g[c] \in Int
    BY <2>3
  <2>5. CASE Pick(s) = c
    <3>1. k[s \ {Pick(s)}] = h[s \ {Pick(s)}]
      BY <1>2, <2>5, <2>2
    <3> QED BY <2>1, <2>2, <2>3, <2>4, <2>5, <3>1
  <2>6. CASE Pick(s) # c
    <3>1. f[Pick(s)] = g[Pick(s)] /\ (c \in s <=> c \in s \ {Pick(s)})
      BY <2>3, <2>6
    <3> QED BY <1>2, <2>1, <2>2, <2>4, <3>1
  <2> QED BY <2>5, <2>6
<1>3. SUBSET S \subseteq Q
  <2> HIDE DEF Q
  <2> QED BY <1>1, <1>2, SubsetInduction
<1> QED BY <1>3

\* Functions with the same values have the same sum.
LEMMA SumsSame ==
  ASSUME NEW S, IsFiniteSet(S), NEW f \in [S -> Int], NEW g \in [S -> Int],
         \A x \in S : f[x] = g[x], NEW h, NEW k, Sums(f, S, h), Sums(g, S, k)
  PROVE  k[S] = h[S]
<1>1. CASE S = {}
  BY <1>1, SumsEquation
<1>2. CASE S # {}
  <2>1. PICK c \in S : TRUE
    BY <1>2
  <2>2. k[S] = h[S] + (g[c] - f[c])
    BY SumsDiffer
  <2>3. g[c] - f[c] = 0 /\ h[S] \in Int
    BY SumsType
  <2> QED BY <2>2, <2>3
<1> QED BY <1>1, <1>2

\* A sum of numbers within bounds.
LEMMA SumsBound ==
  ASSUME NEW S, IsFiniteSet(S), NEW f \in [S -> Int], NEW a \in Int, NEW b \in Int,
         NEW h, Sums(f, S, h)
  PROVE  /\ (\A x \in S : f[x] >= a) => h[S] >= Cardinality(S) * a
         /\ (\A x \in S : f[x] <= b) => h[S] <= Cardinality(S) * b
<1> DEFINE Low == \A x \in S : f[x] >= a
           High == \A x \in S : f[x] <= b
           Q == {s \in SUBSET S : /\ Low => h[s] >= Cardinality(s) * a
                                  /\ High => h[s] <= Cardinality(s) * b}
<1>0. \A s \in SUBSET S : IsFiniteSet(s) /\ Cardinality(s) \in Nat
  BY FS_Subset, FS_CardinalityType
<1>1. {} \in Q
  BY SumsEquation, FS_EmptySet
<1>2. ASSUME NEW s \in SUBSET S, s # {}, s \ {Pick(s)} \in Q PROVE s \in Q
  <2> DEFINE u == s \ {Pick(s)}
  <2>1. h[s] = f[Pick(s)] + h[u] /\ h[u] \in Int /\ Pick(s) \in s
    <3>1. h[s] = f[Pick(s)] + h[u]
      BY <1>2, SumsEquation
    <3>2. u \in SUBSET S /\ h[u] \in Int
      BY SumsType
    <3> QED BY <1>2, <3>1, <3>2, Picked
  <2>2. f[Pick(s)] \in Int /\ (Low => f[Pick(s)] >= a) /\ (High => f[Pick(s)] <= b)
    BY <2>1
  <2>3. Cardinality(u) = Cardinality(s) - 1 /\ Cardinality(s) \in Nat
    BY <1>0, <2>1, FS_RemoveElement
  <2>4. (Low => h[u] >= Cardinality(u) * a) /\ (High => h[u] <= Cardinality(u) * b)
    BY <1>2
  <2>5. \A n \in Nat, z \in Int : (n - 1) * z = n * z - z /\ n * z \in Int
    OBVIOUS
  <2>6. Cardinality(u) * a = Cardinality(s) * a - a /\ Cardinality(s) * a \in Int
    BY <2>3, <2>5
  <2>7. Cardinality(u) * b = Cardinality(s) * b - b /\ Cardinality(s) * b \in Int
    BY <2>3, <2>5
  <2>8. h[s] \in Int
    BY SumsType
  <2> HIDE DEF u, Low, High
  <2>9. (Low => h[s] >= Cardinality(s) * a) /\ (High => h[s] <= Cardinality(s) * b)
    BY <2>1, <2>2, <2>4, <2>6, <2>7, <2>8
  <2> QED BY <2>9
<1>3. SUBSET S \subseteq Q
  <2> HIDE DEF Q
  <2> QED BY <1>1, <1>2, SubsetInduction
<1> QED BY <1>3
-----------------------------------------------------------------------------
(* The sum over the whole set.                                             *)

SumOf(f, S) == (CHOOSE h : Sums(f, S, h))[S]

LEMMA SumOfSums ==
  ASSUME NEW S, IsFiniteSet(S), NEW f
  PROVE  \E h : Sums(f, S, h) /\ SumOf(f, S) = h[S]
  BY SumsExist DEF SumOf

LEMMA SumOfType ==
  ASSUME NEW S, IsFiniteSet(S), NEW f \in [S -> Int]
  PROVE  SumOf(f, S) \in Int
<1>1. PICK h : Sums(f, S, h) /\ SumOf(f, S) = h[S]
  BY SumOfSums
<1> QED BY <1>1, SumsType

LEMMA SumOfDiffer ==
  ASSUME NEW S, IsFiniteSet(S), NEW f \in [S -> Int], NEW g \in [S -> Int],
         NEW c \in S, \A x \in S \ {c} : f[x] = g[x]
  PROVE  SumOf(g, S) = SumOf(f, S) + (g[c] - f[c])
<1>1. PICK h : Sums(f, S, h) /\ SumOf(f, S) = h[S]
  BY SumOfSums
<1>2. PICK k : Sums(g, S, k) /\ SumOf(g, S) = k[S]
  BY SumOfSums
<1> QED BY <1>1, <1>2, SumsDiffer

\* A sum of equal numbers.
LEMMA SumOfEqual ==
  ASSUME NEW S, IsFiniteSet(S), NEW a \in Int, NEW f \in [S -> Int], \A x \in S : f[x] = a
  PROVE  SumOf(f, S) = Cardinality(S) * a
<1>1. PICK h : Sums(f, S, h) /\ SumOf(f, S) = h[S]
  BY SumOfSums
<1>2. (\A x \in S : f[x] >= a) /\ \A x \in S : f[x] <= a
  OBVIOUS
<1>3. h[S] >= Cardinality(S) * a /\ h[S] <= Cardinality(S) * a
  BY <1>1, <1>2, SumsBound
<1>4. h[S] \in Int /\ Cardinality(S) * a \in Int
  BY <1>1, SumsType, FS_CardinalityType
<1> QED BY <1>1, <1>3, <1>4

\* What is taken from some of the terms is taken from the sum: the term at[t] is
\* less by g[t], for every t of T.
LEMMA SumOfLess ==
  ASSUME NEW S, IsFiniteSet(S), NEW T, IsFiniteSet(T),
         NEW f \in [S -> Int], NEW d \in [S -> Int], NEW g \in [T -> Int], NEW at \in [T -> S],
         \A t \in T, u \in T : at[t] = at[u] => t = u,
         \A t \in T : d[at[t]] = f[at[t]] - g[t],
         \A x \in S : (\A t \in T : at[t] # x) => d[x] = f[x]
  PROVE  SumOf(d, S) = SumOf(f, S) - SumOf(g, T)
<1> DEFINE F(u) == [x \in S |-> IF \E t \in u : at[t] = x THEN d[x] ELSE f[x]]
<1>1. PICK k : Sums(g, T, k) /\ SumOf(g, T) = k[T]
  BY SumOfSums
<1> DEFINE Q == {u \in SUBSET T : SumOf(F(u), S) = SumOf(f, S) - k[u]}
<1>2. SumOf(f, S) \in Int /\ k[{}] = 0 /\ \A u \in SUBSET T : k[u] \in Int
  BY <1>1, SumOfType, SumsType, SumsEquation
<1>3. {} \in Q
  <2>1. F({}) = f
    OBVIOUS
  <2> QED BY <1>2, <2>1
<1>4. ASSUME NEW u \in SUBSET T, u # {}, u \ {Pick(u)} \in Q PROVE u \in Q
  <2> DEFINE p == Pick(u)
             v == u \ {p}
             c == at[p]
  <2>1. p \in u /\ p \in T /\ c \in S
    BY <1>4, Picked
  <2>2. k[u] = g[p] + k[v]
    BY <1>1, <1>4, SumsEquation
  <2>3. F(u) \in [S -> Int] /\ F(v) \in [S -> Int]
    OBVIOUS
  <2>4. \A x \in S \ {c} : F(v)[x] = F(u)[x]
    OBVIOUS
  <2>5. F(u)[c] = f[c] - g[p]
    BY <2>1
  <2>6. F(v)[c] = f[c]
    <3>1. \A t \in v : at[t] # c
      BY <2>1
    <3> QED BY <2>1, <3>1
  <2>7. SumOf(F(u), S) = SumOf(F(v), S) + (F(u)[c] - F(v)[c])
    <3> HIDE DEF F, Q, p, v, c
    <3> QED BY <2>1, <2>3, <2>4, SumOfDiffer, Z3
  <2>8. SumOf(F(v), S) = SumOf(f, S) - k[v]
    BY <1>4
  <2>9. f[c] \in Int /\ g[p] \in Int /\ k[v] \in Int
    BY <1>2, <2>1
  <2>10. SumOf(F(u), S) = SumOf(f, S) - k[u]
    <3> HIDE DEF F, p, v, c
    <3> QED BY <1>2, <2>2, <2>5, <2>6, <2>7, <2>8, <2>9
  <2> QED BY <2>10
<1>5. SUBSET T \subseteq Q
  <2> HIDE DEF Q
  <2> QED BY <1>3, <1>4, SubsetInduction
<1>6. F(T) = d
  <2>1. \A x \in S : F(T)[x] = d[x]
    OBVIOUS
  <2> QED BY <2>1
<1>7. SumOf(F(T), S) = SumOf(f, S) - k[T]
  <2>1. T \in Q
    BY <1>5
  <2> QED BY <2>1
<1> QED BY <1>1, <1>6, <1>7

-----------------------------------------------------------------------------
(* Sequences that are written out.                                         *)

\* A tuple is the one before and the other after, if its elements are theirs.
LEMMA JoinIs ==
  ASSUME NEW X, NEW s \in Seq(X), NEW t \in Seq(X), NEW u \in Seq(X), Len(u) = Len(s) + Len(t),
         \A n \in 1 .. Len(s) : u[n] = s[n], \A n \in 1 .. Len(t) : u[Len(s) + n] = t[n]
  PROVE  s \o t = u
<1>1. s \o t \in Seq(X) /\ Len(s \o t) = Len(u)
  OBVIOUS
<1>2. \A n \in 1 .. Len(u) : (s \o t)[n] = u[n]
  <2> TAKE n \in 1 .. Len(u)
  <2>1. CASE n <= Len(s)
    BY <2>1
  <2>2. CASE n > Len(s)
    <3>1. n - Len(s) \in 1 .. Len(t) /\ n = Len(s) + (n - Len(s))
      BY <2>2
    <3>2. (s \o t)[n] = t[n - Len(s)]
      BY <2>2
    <3>3. u[Len(s) + (n - Len(s))] = t[n - Len(s)]
      BY <3>1
    <3> QED BY <3>1, <3>2, <3>3
  <2> QED BY <2>1, <2>2
<1> QED BY <1>1, <1>2, SeqEqual

\* One more element at the end.
LEMMA AppendIs ==
  ASSUME NEW X, NEW s \in Seq(X), NEW x \in X, NEW u \in Seq(X), Len(u) = Len(s) + 1,
         u[Len(u)] = x, \A n \in 1 .. Len(s) : u[n] = s[n]
  PROVE  Append(s, x) = u
<1>1. Append(s, x) \in Seq(X) /\ Len(Append(s, x)) = Len(u)
  OBVIOUS
<1>2. \A n \in 1 .. Len(u) : Append(s, x)[n] = u[n]
  BY <1>1
<1> QED BY <1>1, <1>2, SeqEqual

LEMMA OneMore ==
  ASSUME NEW a, NEW b, NEW c
  PROVE  Append(<<>>, a) = <<a>> /\ Append(<<a>>, b) = <<a, b>> /\ Append(<<a, b>>, c) = <<a, b, c>>
<1> DEFINE X == {a, b, c}  s == <<a>>  t == <<a, b>>  u == <<a, b, c>>
<1>1. /\ s \in Seq(X) /\ Len(s) = 1 /\ s[1] = a
      /\ t \in Seq(X) /\ Len(t) = 2 /\ t[1] = a /\ t[2] = b
      /\ u \in Seq(X) /\ Len(u) = 3 /\ u[1] = a /\ u[2] = b /\ u[3] = c
      /\ a \in X /\ b \in X /\ c \in X
  OBVIOUS
<1>2. Append(<<>>, a) = <<a>>
  OBVIOUS
<1> HIDE DEF X, s, t, u
<1>3. Append(s, b) = t
  <2>1. \A n \in 1 .. Len(s) : t[n] = s[n]
    BY <1>1
  <2>2. t[Len(t)] = b /\ Len(t) = Len(s) + 1
    BY <1>1
  <2> QED BY <1>1, <2>1, <2>2, AppendIs
<1>4. Append(t, c) = u
  <2>1. \A n \in 1 .. Len(t) : u[n] = t[n]
    BY <1>1
  <2>2. u[Len(u)] = c /\ Len(u) = Len(t) + 1
    BY <1>1
  <2> QED BY <1>1, <2>1, <2>2, AppendIs
<1> QED BY <1>2, <1>3, <1>4 DEF s, t, u

LEMMA OneMoreOfFour ==
  ASSUME NEW a, NEW b, NEW c, NEW d
  PROVE  Append(<<a, b, c>>, d) = <<a, b, c, d>>
<1> DEFINE X == {a, b, c, d}  s == <<a, b, c>>  t == <<a, b, c, d>>
<1>1. /\ s \in Seq(X) /\ Len(s) = 3 /\ s[1] = a /\ s[2] = b /\ s[3] = c
      /\ t \in Seq(X) /\ Len(t) = 4 /\ t[1] = a /\ t[2] = b /\ t[3] = c /\ t[4] = d
      /\ d \in X
  OBVIOUS
<1> HIDE DEF X, s, t
<1>2. \A n \in 1 .. Len(s) : t[n] = s[n]
  BY <1>1
<1>3. t[Len(t)] = d /\ Len(t) = Len(s) + 1
  BY <1>1
<1>4. Append(s, d) = t
  BY <1>1, <1>2, <1>3, AppendIs
<1> QED BY <1>4 DEF s, t

LEMMA OneMoreOfFive ==
  ASSUME NEW a, NEW b, NEW c, NEW d, NEW e
  PROVE  Append(<<a, b, c, d>>, e) = <<a, b, c, d, e>>
<1> DEFINE X == {a, b, c, d, e}  s == <<a, b, c, d>>  t == <<a, b, c, d, e>>
<1>1. /\ s \in Seq(X) /\ Len(s) = 4 /\ s[1] = a /\ s[2] = b /\ s[3] = c /\ s[4] = d
      /\ t \in Seq(X) /\ Len(t) = 5 /\ t[1] = a /\ t[2] = b /\ t[3] = c /\ t[4] = d /\ t[5] = e
      /\ e \in X
  OBVIOUS
<1> HIDE DEF X, s, t
<1>2. \A n \in 1 .. Len(s) : t[n] = s[n]
  BY <1>1
<1>3. t[Len(t)] = e /\ Len(t) = Len(s) + 1
  BY <1>1
<1>4. Append(s, e) = t
  BY <1>1, <1>2, <1>3, AppendIs
<1> QED BY <1>4 DEF s, t

\* Two more elements are one and another.
LEMMA TwoMore ==
  ASSUME NEW X, NEW s \in Seq(X), NEW a \in X, NEW b \in X
  PROVE  s \o <<a, b>> = Append(Append(s, a), b)
<1> DEFINE t == <<a, b>>  u == Append(Append(s, a), b)
<1>1. t \in Seq(X) /\ Len(t) = 2 /\ t[1] = a /\ t[2] = b
  OBVIOUS
<1>2. /\ u \in Seq(X) /\ Len(u) = Len(s) + 2 /\ Len(s) \in Nat
      /\ u[Len(s) + 1] = a /\ u[Len(s) + 2] = b /\ \A n \in 1 .. Len(s) : u[n] = s[n]
  OBVIOUS
<1> HIDE DEF t, u
<1>3. \A n \in 1 .. Len(t) : u[Len(s) + n] = t[n]
  BY <1>1, <1>2
<1>4. Len(u) = Len(s) + Len(t)
  BY <1>1, <1>2
<1>5. s \o t = u
  BY <1>1, <1>2, <1>3, <1>4, JoinIs
<1> QED BY <1>5 DEF t, u

LEMMA TwoJoined ==
  /\ \A a, x, y : <<a>> \o <<x, y>> = <<a, x, y>>
  /\ \A a, b, x, y : <<a, b>> \o <<x, y>> = <<a, b, x, y>>
  /\ \A a, b, c, x, y : <<a, b, c>> \o <<x, y>> = <<a, b, c, x, y>>
<1>1. ASSUME NEW a, NEW b, NEW c, NEW x, NEW y
      PROVE  /\ <<a>> \o <<x, y>> = Append(Append(<<a>>, x), y)
             /\ <<a, b>> \o <<x, y>> = Append(Append(<<a, b>>, x), y)
             /\ <<a, b, c>> \o <<x, y>> = Append(Append(<<a, b, c>>, x), y)
  <2> DEFINE X == {a, b, c, x, y}
  <2>1. <<a>> \in Seq(X) /\ <<a, b>> \in Seq(X) /\ <<a, b, c>> \in Seq(X) /\ x \in X /\ y \in X
    OBVIOUS
  <2> HIDE DEF X
  <2> QED BY <2>1, TwoMore
<1>2. ASSUME NEW a, NEW x, NEW y PROVE <<a>> \o <<x, y>> = <<a, x, y>>
  <2>1. <<a>> \o <<x, y>> = Append(Append(<<a>>, x), y)
    BY <1>1
  <2> QED BY <2>1, OneMore
<1>3. ASSUME NEW a, NEW b, NEW x, NEW y PROVE <<a, b>> \o <<x, y>> = <<a, b, x, y>>
  <2>1. <<a, b>> \o <<x, y>> = Append(Append(<<a, b>>, x), y)
    BY <1>1
  <2>2. Append(<<a, b>>, x) = <<a, b, x>>
    BY OneMore
  <2> QED BY <2>1, <2>2, OneMoreOfFour
<1>4. ASSUME NEW a, NEW b, NEW c, NEW x, NEW y PROVE <<a, b, c>> \o <<x, y>> = <<a, b, c, x, y>>
  <2>1. <<a, b, c>> \o <<x, y>> = Append(Append(<<a, b, c>>, x), y)
    BY <1>1
  <2>2. Append(<<a, b, c>>, x) = <<a, b, c, x>>
    BY OneMoreOfFour
  <2> QED BY <2>1, <2>2, OneMoreOfFive
<1> QED BY <1>2, <1>3, <1>4, Zenon
=============================================================================
