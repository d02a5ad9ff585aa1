------------------------------- MODULE SumProofs -------------------------------
(***************************************************************************)
(* Sums over finite sets, as MapThenSumSet of the community modules adds   *)
(* them up, and paths in a graph.  What holds of finite sets by induction, *)
(* or along a path, is proved by a least counterexample.                   *)
(***************************************************************************)
EXTENDS Integers, FiniteSets, FiniteSetTheorems, NaturalsInduction, TLAPS

\* Every non-empty set of numbers has a least one.
LEMMA LeastNumber ==
  ASSUME NEW S \in SUBSET Nat, S # {} PROVE \E n \in S : \A m \in S : n <= m
<1>1. PICK n \in S : \A m \in S : ~ (<<m, n>> \in OpToRel(<, Nat))
    BY NatLessThanWellFounded, WFMin
<1>2. \A m \in S : ~ (m < n)
    BY <1>1 DEF OpToRel
<1> QED
    BY <1>2

\* A member of T, and what is left without it.
One(T) == CHOOSE x \in T : TRUE
Others(T) == T \ {One(T)}

LEMMA OthersAreFewer ==
  ASSUME NEW T, IsFiniteSet(T), T # {}
  PROVE  /\ One(T) \in T /\ Others(T) \subseteq T /\ IsFiniteSet(Others(T))
         /\ Cardinality(T) \in Nat /\ Cardinality(Others(T)) = Cardinality(T) - 1
<1>1. One(T) \in T
    BY DEF One
<1> QED
    BY <1>1, FS_RemoveElement, FS_CardinalityType DEF Others

\* What holds of the empty set, and of a set if it does without one of its members, holds of
\* all subsets of S.
LEMMA SubsetsInduct ==
  ASSUME NEW S, IsFiniteSet(S), NEW Good, {} \in Good,
         \A T \in SUBSET S : T # {} /\ Others(T) \in Good => T \in Good
  PROVE  SUBSET S \subseteq Good
<1> DEFINE Sizes == {Cardinality(T) : T \in (SUBSET S) \ Good}
<1>1. \A T \in SUBSET S : IsFiniteSet(T) /\ Cardinality(T) \in Nat
    BY FS_Subset, FS_CardinalityType
<1>2. SUFFICES ASSUME (SUBSET S) \ Good # {} PROVE FALSE
    OBVIOUS
<1>3. PICK n \in Sizes : \A m \in Sizes : n <= m
  <2>1. Sizes \in SUBSET Nat /\ Sizes # {}
      BY <1>1, <1>2
  <2> HIDE DEF Sizes
  <2> QED
      BY <2>1, LeastNumber
<1>4. PICK T \in (SUBSET S) \ Good : n = Cardinality(T)
    BY <1>3
<1>5. T # {} /\ IsFiniteSet(T)
    BY <1>1, <1>4
<1>6. Others(T) \in SUBSET S /\ Cardinality(Others(T)) = n - 1 /\ n \in Nat
    BY <1>4, <1>5, OthersAreFewer
<1>7. Others(T) \notin Good
    BY <1>4, <1>5
<1>8. Cardinality(Others(T)) \in Sizes
    BY <1>6, <1>7
<1> HIDE DEF Sizes
<1> QED
    BY <1>3, <1>6, <1>8

\* g has the sums of f over the subsets of S.
SumsOf(g, f, S) ==
  g = [T \in SUBSET S |-> IF T = {} THEN 0 ELSE f[One(T)] + g[Others(T)]]

\* ... over those of up to n members.
SumsUpTo(g, f, S, n) ==
  /\ g = [T \in SUBSET S |-> g[T]]
  /\ \A T \in SUBSET S : Cardinality(T) <= n =>
       g[T] = IF T = {} THEN 0 ELSE f[One(T)] + g[Others(T)]

LEMMA SumsExist ==
  ASSUME NEW S, IsFiniteSet(S), NEW f PROVE \E g : SumsOf(g, f, S)
<1> DEFINE Without == {n \in Nat : ~ \E g : SumsUpTo(g, f, S, n)}
<1>1. \A T \in SUBSET S : /\ IsFiniteSet(T) /\ Cardinality(T) \in Nat
                          /\ Cardinality(T) <= Cardinality(S) /\ (Cardinality(T) = 0 <=> T = {})
    BY FS_Subset, FS_CardinalityType, FS_EmptySet
<1>2. SUFFICES Cardinality(S) \notin Without
  <2>1. Cardinality(S) \in Nat
      BY FS_CardinalityType
  <2>2. PICK g : SumsUpTo(g, f, S, Cardinality(S))
      BY <1>2, <2>1
  <2>3. \A T \in SUBSET S : g[T] = IF T = {} THEN 0 ELSE f[One(T)] + g[Others(T)]
      BY <1>1, <2>2 DEF SumsUpTo
  <2>4. SumsOf(g, f, S)
      BY <2>2, <2>3 DEF SumsUpTo, SumsOf
  <2> QED
      BY <2>4
<1>3. SUFFICES ASSUME Without # {} PROVE FALSE
    OBVIOUS
<1>4. PICK n \in Without : \A m \in Without : n <= m
  <2>1. Without \in SUBSET Nat
      OBVIOUS
  <2> HIDE DEF Without
  <2> QED
      BY <1>3, <2>1, LeastNumber
<1>5. n # 0
  <2> DEFINE g == [T \in SUBSET S |-> 0]
  <2>1. SumsUpTo(g, f, S, 0)
      BY <1>1 DEF SumsUpTo
  <2> QED
      BY <2>1
<1>6. n \in Nat /\ n - 1 \in Nat /\ n - 1 \notin Without
  <2>1. n \in Nat /\ n - 1 \in Nat /\ ~ (n <= n - 1)
      BY <1>5
  <2> QED
      BY <1>4, <2>1
<1>7. PICK h : SumsUpTo(h, f, S, n - 1)
    BY <1>6
<1> DEFINE g == [T \in SUBSET S |-> IF Cardinality(T) <= n - 1 THEN h[T]
                                    ELSE IF T = {} THEN 0 ELSE f[One(T)] + h[Others(T)]]
<1>8. ASSUME NEW T \in SUBSET S, Cardinality(T) <= n
      PROVE  g[T] = IF T = {} THEN 0 ELSE f[One(T)] + g[Others(T)]
  <2>1. CASE T = {}
      BY <1>1, <1>6, <1>7, <2>1 DEF SumsUpTo
  <2>2. CASE T # {}
    <3>1. Others(T) \in SUBSET S /\ Cardinality(Others(T)) <= n - 1
        BY <1>1, <1>6, <1>8, <2>2, OthersAreFewer
    <3>2. g[Others(T)] = h[Others(T)]
        BY <3>1
    <3>3. g[T] = f[One(T)] + h[Others(T)]
        BY <1>7, <2>2 DEF SumsUpTo
    <3> QED
        BY <2>2, <3>2, <3>3
  <2> QED
      BY <2>1, <2>2
<1>9. g = [T \in SUBSET S |-> g[T]]
    OBVIOUS
<1> HIDE DEF g
<1>10. SumsUpTo(g, f, S, n)
    BY <1>8, <1>9 DEF SumsUpTo
<1> QED
    BY <1>10

LEMMA SumsAreUnique ==
  ASSUME NEW S, IsFiniteSet(S), NEW f, NEW g, SumsOf(g, f, S), NEW h, SumsOf(h, f, S)
  PROVE  g = h
<1> DEFINE Good == {T \in SUBSET S : g[T] = h[T]}
<1>1. {} \in Good
    BY DEF SumsOf
<1>2. ASSUME NEW T \in SUBSET S, T # {}, Others(T) \in Good PROVE T \in Good
    BY <1>2 DEF SumsOf
<1>3. SUBSET S \subseteq Good
  <2> HIDE DEF Good
  <2> QED
      BY <1>1, <1>2, SubsetsInduct
<1>4. g = [T \in SUBSET S |-> g[T]] /\ h = [T \in SUBSET S |-> h[T]]
    BY DEF SumsOf
<1> QED
    BY <1>3, <1>4

\* The sum of f over S.
SumOf(f, S) == (CHOOSE g : SumsOf(g, f, S))[S]

LEMMA SumIs ==
  ASSUME NEW S, IsFiniteSet(S), NEW f, NEW g, SumsOf(g, f, S) PROVE SumOf(f, S) = g[S]
<1>1. SumsOf(CHOOSE h : SumsOf(h, f, S), f, S)
    OBVIOUS
<1> QED
    BY <1>1, SumsAreUnique DEF SumOf

\* Sums are numbers, and larger for larger numbers.
LEMMA SumsCompare ==
  ASSUME NEW S, IsFiniteSet(S), NEW a \in [S -> Int], NEW b \in [S -> Int], NEW c \in [S -> Int],
         \A x \in S : a[x] <= b[x] + c[x]
  PROVE  /\ SumOf(a, S) \in Int /\ SumOf(b, S) \in Int /\ SumOf(c, S) \in Int
         /\ SumOf(a, S) <= SumOf(b, S) + SumOf(c, S)
<1>1. PICK g : SumsOf(g, a, S)
    BY SumsExist
<1>2. PICK h : SumsOf(h, b, S)
    BY SumsExist
<1>3. PICK i : SumsOf(i, c, S)
    BY SumsExist
<1> DEFINE Good == {T \in SUBSET S : /\ g[T] \in Int /\ h[T] \in Int /\ i[T] \in Int
                                     /\ g[T] <= h[T] + i[T]}
<1>4. {} \in Good
    BY <1>1, <1>2, <1>3 DEF SumsOf
<1>5. ASSUME NEW T \in SUBSET S, T # {}, Others(T) \in Good PROVE T \in Good
  <2>1. One(T) \in S
      BY <1>5 DEF One
  <2>2. PICK x \in S : x = One(T)
      BY <2>1
  <2>3. /\ g[T] = a[x] + g[Others(T)] /\ h[T] = b[x] + h[Others(T)] /\ i[T] = c[x] + i[Others(T)]
      BY <1>1, <1>2, <1>3, <1>5, <2>2 DEF SumsOf
  <2>4. a[x] \in Int /\ b[x] \in Int /\ c[x] \in Int /\ a[x] <= b[x] + c[x]
      OBVIOUS
  <2> QED
      BY <1>5, <2>3, <2>4
<1>6. SUBSET S \subseteq Good
  <2> HIDE DEF Good
  <2> QED
      BY <1>4, <1>5, SubsetsInduct
<1> QED
    BY <1>1, <1>2, <1>3, <1>6, SumIs

\* A number of f that changes, changes the sum by as much.
LEMMA SumChanges ==
  ASSUME NEW S, IsFiniteSet(S), NEW a \in [S -> Int], NEW b \in [S -> Int], NEW j \in S,
         \A x \in S \ {j} : a[x] = b[x]
  PROVE  SumOf(b, S) = SumOf(a, S) + (b[j] - a[j])
<1>1. PICK g : SumsOf(g, a, S)
    BY SumsExist
<1>2. PICK h : SumsOf(h, b, S)
    BY SumsExist
<1> DEFINE Good == {T \in SUBSET S : /\ g[T] \in Int /\ h[T] \in Int
                                     /\ h[T] = g[T] + (IF j \in T THEN b[j] - a[j] ELSE 0)}
<1>3. {} \in Good
    BY <1>1, <1>2 DEF SumsOf
<1>4. ASSUME NEW T \in SUBSET S, T # {}, Others(T) \in Good PROVE T \in Good
  <2>1. One(T) \in T
      BY <1>4 DEF One
  <2>2. PICK x \in T : x = One(T)
      BY <2>1
  <2>3. g[T] = a[x] + g[Others(T)] /\ h[T] = b[x] + h[Others(T)]
      BY <1>1, <1>2, <1>4, <2>2 DEF SumsOf
  <2>4. a[x] \in Int /\ b[x] \in Int /\ a[j] \in Int /\ b[j] \in Int
      OBVIOUS
  <2>5. CASE x = j
    <3>1. j \notin Others(T) /\ j \in T
        BY <2>2, <2>5 DEF Others
    <3> QED
        BY <1>4, <2>3, <2>4, <2>5, <3>1
  <2>6. CASE x # j
    <3>1. (j \in Others(T) <=> j \in T) /\ a[x] = b[x]
        BY <2>2, <2>6 DEF Others
    <3> QED
        BY <1>4, <2>3, <2>4, <3>1
  <2> QED
      BY <2>5, <2>6
<1>5. SUBSET S \subseteq Good
  <2> HIDE DEF Good
  <2> QED
      BY <1>3, <1>4, SubsetsInduct
<1>6. g[S] \in Int /\ h[S] = g[S] + (b[j] - a[j])
    BY <1>5
<1> QED
    BY <1>1, <1>2, <1>6, SumIs

LEMMA SumOfNothing ==
  ASSUME NEW S, IsFiniteSet(S) PROVE SumOf([x \in S |-> 0], S) = 0
<1> DEFINE z == [x \in S |-> 0]
<1>1. PICK g : SumsOf(g, z, S)
    BY SumsExist
<1> DEFINE Good == {T \in SUBSET S : g[T] = 0}
<1>2. {} \in Good
    BY <1>1 DEF SumsOf
<1>3. ASSUME NEW T \in SUBSET S, T # {}, Others(T) \in Good PROVE T \in Good
  <2>1. z[One(T)] = 0
      BY <1>3 DEF One
  <2> HIDE DEF z
  <2>2. g[T] = z[One(T)] + g[Others(T)]
      BY <1>1, <1>3 DEF SumsOf
  <2> QED
      BY <1>3, <2>1, <2>2
<1>4. SUBSET S \subseteq Good
  <2> HIDE DEF Good
  <2> QED
      BY <1>2, <1>3, SubsetsInduct
<1> HIDE DEF z
<1>5. SumOf(z, S) = 0
    BY <1>1, <1>4, SumIs
<1> QED
    BY <1>5 DEF z

\* Sums of the same numbers, and of some that are not larger.
LEMMA SumsAreAsLarge ==
  ASSUME NEW S, IsFiniteSet(S), NEW a \in [S -> Int], NEW b \in [S -> Int],
         \A x \in S : a[x] <= b[x]
  PROVE  SumOf(a, S) \in Int /\ SumOf(b, S) \in Int /\ SumOf(a, S) <= SumOf(b, S)
<1> DEFINE z == [x \in S |-> 0]
<1>1. z \in [S -> Int] /\ \A x \in S : a[x] <= b[x] + z[x]
    OBVIOUS
<1>2. SumOf(z, S) = 0
    BY SumOfNothing
<1> HIDE DEF z
<1> QED
    BY <1>1, <1>2, SumsCompare

(***************************************************************************)
(* Paths.                                                                  *)
(***************************************************************************)
\* p is a path of k steps along the edges E; b is k steps from a.
IsPath(E, p, k) == \A j \in 1..k : <<p[j - 1], p[j]>> \in E
Leads(N, E, a, b, k) == \E p \in [0..k -> N] : p[0] = a /\ p[k] = b /\ IsPath(E, p, k)

LEMMA NoSteps == ASSUME NEW N, NEW E, NEW a \in N PROVE Leads(N, E, a, a, 0)
<1>1. [j \in 0..0 |-> a] \in [0..0 -> N] /\ [j \in 0..0 |-> a][0] = a
    OBVIOUS
<1>2. \A j \in 1..0 : FALSE
    OBVIOUS
<1> QED
    BY <1>1, <1>2 DEF Leads, IsPath

LEMMA OneStep ==
  ASSUME NEW N, NEW E, NEW a, NEW b, Leads(N, E, a, b, 1) PROVE <<a, b>> \in E
<1>1. PICK p \in [0..1 -> N] : p[0] = a /\ p[1] = b /\ IsPath(E, p, 1)
    BY DEF Leads
<1>2. <<p[1 - 1], p[1]>> \in E
    BY <1>1 DEF IsPath
<1>3. 1 - 1 = 0
    OBVIOUS
<1> QED
    BY <1>1, <1>2, <1>3

LEMMA OneStepMore ==
  ASSUME NEW N, NEW E, NEW a, NEW b, NEW c \in N, NEW k \in Nat, Leads(N, E, a, b, k),
         <<b, c>> \in E
  PROVE  Leads(N, E, a, c, k + 1)
<1>1. PICK p \in [0..k -> N] : p[0] = a /\ p[k] = b /\ IsPath(E, p, k)
    BY DEF Leads
<1>2. PICK r : r = [j \in 0..(k + 1) |-> IF j <= k THEN p[j] ELSE c]
    OBVIOUS
<1>3. r \in [0..(k + 1) -> N] /\ r[0] = a /\ r[k + 1] = c /\ \A j \in 0..k : r[j] = p[j]
    BY <1>1, <1>2
<1>4. ASSUME NEW j \in 1..(k + 1) PROVE <<r[j - 1], r[j]>> \in E
  <2>1. CASE j <= k
    <3>1. j - 1 \in 0..k /\ j \in 0..k /\ j \in 1..k
        BY <2>1
    <3>2. r[j - 1] = p[j - 1] /\ r[j] = p[j]
        BY <1>3, <3>1
    <3> QED
        BY <1>1, <3>1, <3>2 DEF IsPath
  <2>2. CASE j = k + 1
    <3>1. j - 1 = k /\ k \in 0..k
        BY <2>2
    <3> QED
        BY <1>1, <1>3, <2>2, <3>1
  <2> QED
      BY <2>1, <2>2
<1> QED
    BY <1>3, <1>4 DEF Leads, IsPath

LEMMA OneEdge ==
  ASSUME NEW N, NEW E, NEW a \in N, NEW b \in N, <<a, b>> \in E PROVE Leads(N, E, a, b, 1)
<1>1. Leads(N, E, a, b, 0 + 1)
    BY NoSteps, OneStepMore
<1>2. 0 + 1 = 1
    OBVIOUS
<1> QED
    BY <1>1, <1>2

\* What holds of a at 0 and goes along with each step, holds of b at k.
LEMMA AlongAPath ==
  ASSUME NEW N, NEW E, NEW a, NEW b, NEW k \in Nat, Leads(N, E, a, b, k),
         NEW S, <<a, 0>> \in S,
         \A x, y \in N, j \in Nat : <<x, j>> \in S /\ <<x, y>> \in E => <<y, j + 1>> \in S
  PROVE  <<b, k>> \in S
<1>1. PICK p \in [0..k -> N] : p[0] = a /\ p[k] = b /\ IsPath(E, p, k)
    BY DEF Leads
<1> DEFINE Bad == {j \in 0..k : <<p[j], j>> \notin S}
<1>2. SUFFICES ASSUME Bad # {} PROVE FALSE
  <2>1. k \in 0..k
      OBVIOUS
  <2>2. <<p[k], k>> \notin S => k \in Bad
      BY <2>1
  <2> QED
      BY <1>1, <2>2
<1>3. PICK j \in Bad : \A x \in Bad : j <= x
  <2>1. Bad \in SUBSET Nat
      OBVIOUS
  <2> HIDE DEF Bad
  <2> QED
      BY <1>2, <2>1, LeastNumber
<1>4. j \in 0..k /\ <<p[j], j>> \notin S
    BY <1>3
<1>5. j # 0
    BY <1>1, <1>4
<1>6. PICK i \in 0..k : i = j - 1 /\ i + 1 = j /\ j \in 1..k
    BY <1>4, <1>5
<1>7. <<p[i], i>> \in S
  <2>1. ~ (j <= i)
      BY <1>4, <1>6
  <2> QED
      BY <1>3, <2>1
<1>8. <<p[i], p[j]>> \in E
    BY <1>1, <1>6 DEF IsPath
<1>9. p[i] \in N /\ p[j] \in N /\ i \in Nat
    BY <1>4
<1>10. <<p[j], i + 1>> \in S
    BY <1>7, <1>8, <1>9
<1> QED
    BY <1>4, <1>6, <1>10

\* A path that comes to a node twice can do without what is in between.
LEMMA WithoutLoop ==
  ASSUME NEW N, NEW E, NEW k \in Nat, NEW p \in [0..k -> N], IsPath(E, p, k),
         NEW u \in 0..k, NEW v \in 0..k, u < v, p[u] = p[v]
  PROVE  Leads(N, E, p[0], p[k], k - (v - u))
<1>1. PICK d \in Nat \ {0} : d = v - u
    OBVIOUS
<1>2. PICK n \in Nat : n = k - d /\ u <= n
    BY <1>1
<1>3. PICK r : r = [j \in 0..n |-> IF j <= u THEN p[j] ELSE p[j + d]]
    OBVIOUS
<1>4. r \in [0..n -> N]
    BY <1>1, <1>2, <1>3
<1>5. r[0] = p[0]
    BY <1>2, <1>3
<1>6. r[n] = p[k]
  <2>1. n + d = k /\ u + d = v
      BY <1>1, <1>2
  <2>2. CASE n <= u
      BY <1>2, <1>3, <2>1, <2>2
  <2>3. CASE ~ (n <= u)
      BY <1>2, <1>3, <2>1, <2>3
  <2> QED
      BY <2>2, <2>3
<1>7. ASSUME NEW j \in 1..n PROVE <<r[j - 1], r[j]>> \in E
  <2>1. CASE j <= u
    <3>1. r[j - 1] = p[j - 1] /\ r[j] = p[j] /\ j \in 1..k
        BY <1>2, <1>3, <2>1
    <3> QED
        BY <3>1 DEF IsPath
  <2>2. CASE j > u
    <3>1. r[j] = p[j + d] /\ j + d \in 1..k /\ (j + d) - 1 = (j - 1) + d
        BY <1>1, <1>2, <1>3, <2>2
    <3>2. r[j - 1] = p[(j - 1) + d]
      <4>1. CASE j - 1 = u
        <5>1. (j - 1) + d = v
            BY <1>1, <4>1
        <5> QED
            BY <1>2, <1>3, <4>1, <5>1
      <4>2. CASE j - 1 # u
        <5>1. j - 1 \in 0..n /\ ~ (j - 1 <= u)
            BY <1>2, <2>2, <4>2
        <5> QED
            BY <1>3, <5>1
      <4> QED
          BY <4>1, <4>2
    <3>3. <<p[(j + d) - 1], p[j + d]>> \in E
        BY <3>1 DEF IsPath
    <3> QED
        BY <3>1, <3>2, <3>3
  <2> QED
      BY <2>1, <2>2
<1> QED
    BY <1>1, <1>2, <1>4, <1>5, <1>6, <1>7 DEF Leads, IsPath

\* A shortest path takes no more steps than there are nodes.
LEMMA ShortPaths ==
  ASSUME NEW N, IsFiniteSet(N), NEW E, NEW a, NEW b, NEW k \in Nat, Leads(N, E, a, b, k)
  PROVE  \E j \in 0..Cardinality(N) : j <= k /\ Leads(N, E, a, b, j)
<1> DEFINE Lengths == {j \in Nat : Leads(N, E, a, b, j)}
<1>1. PICK j \in Lengths : \A x \in Lengths : j <= x
  <2>1. Lengths \in SUBSET Nat /\ Lengths # {}
      OBVIOUS
  <2> HIDE DEF Lengths
  <2> QED
      BY <2>1, LeastNumber
<1>2. j \in Nat /\ Leads(N, E, a, b, j) /\ j <= k
    BY <1>1
<1>3. PICK p \in [0..j -> N] : p[0] = a /\ p[j] = b /\ IsPath(E, p, j)
    BY <1>2 DEF Leads
<1>4. ASSUME NEW u \in 0..j, NEW v \in 0..j, u < v, p[u] = p[v] PROVE FALSE
  <2>1. Leads(N, E, a, b, j - (v - u))
      BY <1>2, <1>3, <1>4, WithoutLoop
  <2>2. j - (v - u) \in Nat /\ ~ (j <= j - (v - u))
      BY <1>2, <1>4
  <2> QED
      BY <1>1, <2>1, <2>2
<1>5. Cardinality(0..j) <= Cardinality(N) /\ Cardinality(N) \in Nat
  <2>1. IsFiniteSet(0..j) /\ Cardinality(N) \in Nat /\ Cardinality(0..j) \in Nat
      BY <1>2, FS_Interval, FS_CardinalityType
  <2>2. ASSUME Cardinality(N) < Cardinality(0..j) PROVE FALSE
    <3>1. \E x, y \in 0..j : x # y /\ p[x] = p[y]
        BY <2>1, <2>2, FS_PigeonHole
    <3> QED
        BY <1>2, <1>4, <3>1
  <2> QED
      BY <2>1, <2>2
<1>6. Cardinality(0..j) = j + 1
  <2>1. Cardinality(0..j) = IF 0 > j THEN 0 ELSE j - 0 + 1
      BY <1>2, FS_Interval
  <2> QED
      BY <1>2, <2>1
<1>7. j \in 0..Cardinality(N)
    BY <1>2, <1>5, <1>6
<1> QED
    BY <1>2, <1>7
================================================================================
