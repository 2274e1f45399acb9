---------------------------- MODULE VectorLemmas ----------------------------
(***************************************************************************)
(* Lemmas the proofs share: every set of naturals has a least element, the *)
(* sums of the beginnings of a sequence exist, and positions enumerated in *)
(* ascending order are what they should be.  The induction theorems of the *)
(* library take an operator as a parameter; a least counterexample, taken  *)
(* from the theorem on finite subsets, stands in for them.                 *)
(***************************************************************************)
EXTENDS Vectors, Integers, FiniteSetTheorems, WellFoundedInduction, TLAPS

\* f holds the sums of the beginnings of w.
IsSums(f, w) ==
  /\ f \in [0..Len(w) -> Nat]
  /\ f[0] = 0
  /\ \A i \in 1..Len(w) : f[i] = f[i - 1] + w[i]

Sums(w) == CHOOSE f : IsSums(f, w)

\* A set of naturals that is not empty has a least element.
LEMMA LeastNatural ==
  ASSUME NEW S \in SUBSET Nat, S # {}
  PROVE  \E n \in S : \A m \in S : n <= m
<1> DEFINE T == {0..n : n \in S}
<1>1. T \subseteq FiniteSubsetsOf(Nat) /\ T # {}
  <2>1. \A n \in S : 0 \in Int /\ n \in Int /\ 0..n \subseteq Nat
    OBVIOUS
  <2>2. \A n \in S : IsFiniteSet(0..n)
    BY <2>1, FS_Interval
  <2> QED BY <2>1, <2>2 DEF FiniteSubsetsOf
<1>2. PICK x \in T : \A y \in T : ~ (<<y, x>> \in StrictSubsetOrdering(Nat))
  BY <1>1, FS_StrictSubsetOrderingWellFounded, WFMin
<1>3. PICK n \in S : x = 0..n
  OBVIOUS
<1>4. ASSUME NEW m \in S, ~(n <= m)
      PROVE  FALSE
  <2>1. 0..m \subseteq 0..n /\ 0..m # 0..n /\ 0..m \subseteq Nat /\ 0..n \subseteq Nat
    <3>1. n \in 0..n /\ n \notin 0..m
      BY <1>4
    <3> QED BY <1>4, <3>1
  <2> DEFINE p == <<0..m, 0..n>>
  <2>2. p[1] = 0..m /\ p[2] = 0..n /\ p \in (SUBSET Nat) \X (SUBSET Nat)
    BY <2>1
  <2>3. p \in StrictSubsetOrdering(Nat)
    <3> HIDE DEF p
    <3> QED BY <2>1, <2>2 DEF StrictSubsetOrdering
  <2> QED BY <1>2, <1>3, <2>3
<1> QED BY <1>4

\* The sums of the beginnings of a sequence of naturals.
LEMMA SumsExist ==
  ASSUME NEW w \in Seq(Nat)
  PROVE  IsSums(Sums(w), w)
<1> DEFINE P(n, f) == /\ f \in [0..n -> Nat] /\ f[0] = 0
                      /\ \A i \in 1..n : f[i] = f[i - 1] + w[i]
           Bad == {n \in 0..Len(w) : ~ \E f : P(n, f)}
<1>1. Bad = {}
  <2> SUFFICES ASSUME Bad # {} PROVE FALSE
    OBVIOUS
  <2>1. PICK n \in Bad : \A m \in Bad : n <= m
    <3>1. Bad \in SUBSET Nat
      OBVIOUS
    <3> HIDE DEF Bad
    <3> QED BY <3>1, LeastNatural
  <2>2. CASE n = 0
    <3>1. P(0, [i \in 0..0 |-> 0])
      OBVIOUS
    <3> QED BY <2>2, <3>1
  <2>3. CASE n # 0
    <3>1. n - 1 \in 0..Len(w) /\ n \in 1..Len(w) /\ n - 1 \notin Bad
      <4>1. n \in 0..Len(w) /\ n - 1 \in 0..Len(w) /\ ~(n <= n - 1)
        BY <2>3
      <4> HIDE DEF Bad
      <4> QED BY <2>1, <2>3, <4>1
    <3>2. PICK f : P(n - 1, f)
      BY <3>1
    <3> DEFINE g == [i \in 0..n |-> IF i = n THEN f[n - 1] + w[n] ELSE f[i]]
    <3>3. w[n] \in Nat /\ f[n - 1] \in Nat
      BY <3>1, <3>2
    <3>4. P(n, g)
      <4>1. n \in Nat \ {0}
        BY <3>1
      <4>2. g \in [0..n -> Nat]
        BY <3>2, <3>3, <4>1
      <4>3. \A i \in 1..n : g[i] = g[i - 1] + w[i]
        <5> SUFFICES ASSUME NEW i \in 1..n PROVE g[i] = g[i - 1] + w[i]
          OBVIOUS
        <5>1. CASE i = n
          BY <4>1, <5>1
        <5>2. CASE i # n
          <6>1. i \in 1..(n - 1) /\ i - 1 \in 0..n /\ i - 1 # n
            BY <4>1, <5>2
          <6> QED BY <3>2, <5>2, <6>1
        <5> QED BY <5>1, <5>2
      <4>4. g[0] = 0
        BY <3>2, <4>1
      <4> HIDE DEF g
      <4> QED BY <4>2, <4>3, <4>4
    <3> QED BY <2>1, <3>4
  <2> QED BY <2>2, <2>3
<1>2. Len(w) \in 0..Len(w)
  OBVIOUS
<1>3. \E f : P(Len(w), f)
  BY <1>1, <1>2
<1>4. \E f : IsSums(f, w)
  BY <1>3 DEF IsSums
<1> QED BY <1>4 DEF Sums

\* The sums grow with the beginning, and as fast as the summands at most.
LEMMA SumsOrdered ==
  ASSUME NEW w \in Seq(Nat), NEW f, IsSums(f, w), NEW i \in 0..Len(w), NEW j \in 0..Len(w), i <= j
  PROVE  f[i] <= f[j]
<1>0. /\ f[0] = 0 /\ Len(w) \in Nat
      /\ \A n \in 0..Len(w) : f[n] \in Nat
      /\ \A n \in 1..Len(w) : f[n] = f[n - 1] + w[n] /\ w[n] \in Nat
  <2>1. f[0] = 0 /\ \A n \in 1..Len(w) : f[n] = f[n - 1] + w[n]
    BY DEF IsSums
  <2>2. \A n \in 0..Len(w) : f[n] \in Nat
    BY DEF IsSums
  <2>3. Len(w) \in Nat /\ \A n \in 1..Len(w) : w[n] \in Nat
    OBVIOUS
  <2> QED BY <2>1, <2>2, <2>3
<1> DEFINE Bad == {n \in i..Len(w) : ~(f[i] <= f[n])}
<1> SUFFICES ASSUME Bad # {} PROVE FALSE
  OBVIOUS
<1>1. PICK n \in Bad : \A m \in Bad : n <= m
  <2>1. Bad \in SUBSET Nat
    OBVIOUS
  <2> HIDE DEF Bad
  <2> QED BY <2>1, LeastNatural
<1>2. n \in i..Len(w) /\ ~(f[i] <= f[n]) /\ Len(w) \in Nat
  OBVIOUS
<1>3. f[i] \in Nat /\ f[n] \in Nat
  BY <1>0, <1>2
<1>4. n - 1 \in i..Len(w) /\ n \in 1..Len(w)
  BY <1>2, <1>3
<1>5. n - 1 \notin Bad
  <2>1. ~(n <= n - 1)
    BY <1>2
  <2> HIDE DEF Bad
  <2> QED BY <1>1, <2>1
<1>6. f[n] = f[n - 1] + w[n] /\ w[n] \in Nat /\ f[n - 1] \in Nat
  BY <1>0, <1>2, <1>4
<1>7. f[i] <= f[n - 1]
  BY <1>4, <1>5
<1> HIDE DEF Bad
<1>8. PICK x, y, z, d \in Nat : x = f[i] /\ y = f[n - 1] /\ z = f[n] /\ d = w[n]
  BY <1>3, <1>6
<1>9. z = y + d /\ x <= y /\ ~(x <= z)
  BY <1>2, <1>6, <1>7, <1>8
<1> QED BY <1>9

LEMMA SumsBounded ==
  ASSUME NEW w \in Seq(Nat), NEW f, IsSums(f, w), \A i \in 1..Len(w) : w[i] <= 8,
         NEW j \in 0..Len(w)
  PROVE  f[j] <= 8 * j
<1>0. /\ f[0] = 0 /\ Len(w) \in Nat
      /\ \A n \in 0..Len(w) : f[n] \in Nat
      /\ \A n \in 1..Len(w) : f[n] = f[n - 1] + w[n] /\ w[n] \in Nat
  <2>1. f[0] = 0 /\ \A n \in 1..Len(w) : f[n] = f[n - 1] + w[n]
    BY DEF IsSums
  <2>2. \A n \in 0..Len(w) : f[n] \in Nat
    BY DEF IsSums
  <2>3. Len(w) \in Nat /\ \A n \in 1..Len(w) : w[n] \in Nat
    OBVIOUS
  <2> QED BY <2>1, <2>2, <2>3
<1> DEFINE Bad == {n \in 0..Len(w) : ~(f[n] <= 8 * n)}
<1> SUFFICES ASSUME Bad # {} PROVE FALSE
  OBVIOUS
<1>1. PICK n \in Bad : \A m \in Bad : n <= m
  <2>1. Bad \in SUBSET Nat
    OBVIOUS
  <2> HIDE DEF Bad
  <2> QED BY <2>1, LeastNatural
<1>2. n \in 0..Len(w) /\ ~(f[n] <= 8 * n) /\ Len(w) \in Nat
  OBVIOUS
<1>3. n # 0 /\ f[n] \in Nat
  BY <1>0, <1>2
<1>4. n - 1 \in 0..Len(w) /\ n \in 1..Len(w)
  BY <1>2, <1>3
<1>5. n - 1 \notin Bad
  <2>1. ~(n <= n - 1)
    BY <1>2
  <2> HIDE DEF Bad
  <2> QED BY <1>1, <2>1
<1>6. f[n] = f[n - 1] + w[n] /\ w[n] \in Nat /\ w[n] <= 8 /\ f[n - 1] \in Nat
  BY <1>0, <1>2, <1>4
<1>7. f[n - 1] <= 8 * (n - 1)
  BY <1>4, <1>5
<1> HIDE DEF Bad
<1> QED BY <1>2, <1>3, <1>6, <1>7

-----------------------------------------------------------------------------
\* A one-to-one correspondence keeps the number of elements.
LEMMA SameSize ==
  ASSUME NEW S, IsFiniteSet(S), NEW T, NEW f \in [S -> T],
         \A x, y \in S : f[x] = f[y] => x = y,
         \A t \in T : \E x \in S : f[x] = t
  PROVE  IsFiniteSet(T) /\ Cardinality(T) = Cardinality(S)
<1>1. f \in Injection(S, T) /\ f \in Surjection(S, T)
  BY DEF Injection, Surjection, IsInjective
<1> QED BY <1>1, FS_Surjection

\* The elements below n of a set of positions; there are k - 1 of them below the k-th.
Below(S, n) == {j \in S : j < n}

LEMMA BelowFacts ==
  ASSUME NEW n \in Nat, NEW S \in SUBSET (1..n)
  PROVE  /\ IsFiniteSet(S) /\ Cardinality(S) \in Nat
         /\ \A i \in S : Cardinality(Below(S, i)) \in 0..(Cardinality(S) - 1)
         /\ \A i, j \in S : i < j => Cardinality(Below(S, i)) < Cardinality(Below(S, j))
<1>1. IsFiniteSet(S) /\ Cardinality(S) \in Nat
  <2>1. 1 \in Int /\ n \in Int
    OBVIOUS
  <2>2. IsFiniteSet(1..n)
    BY <2>1, FS_Interval
  <2> QED BY <2>2, FS_Subset, FS_CardinalityType
<1>2. \A i \in S : Below(S, i) \subseteq S /\ IsFiniteSet(Below(S, i))
                   /\ Cardinality(Below(S, i)) \in Nat
  BY <1>1, FS_Subset, FS_CardinalityType DEF Below
<1>3. ASSUME NEW T, IsFiniteSet(T), NEW U \in SUBSET T, NEW x \in T, x \notin U
      PROVE  Cardinality(U) < Cardinality(T)
  <2>1. Cardinality(U) <= Cardinality(T) /\ Cardinality(U) # Cardinality(T)
    BY <1>3, FS_Subset
  <2>2. Cardinality(U) \in Nat /\ Cardinality(T) \in Nat
    BY <1>3, FS_Subset, FS_CardinalityType
  <2> QED BY <2>1, <2>2
<1>4. ASSUME NEW i \in S
      PROVE  Cardinality(Below(S, i)) \in 0..(Cardinality(S) - 1)
  <2>1. i \notin Below(S, i)
    BY DEF Below
  <2>2. Cardinality(Below(S, i)) < Cardinality(S)
    BY <1>1, <1>2, <1>3, <2>1
  <2> QED BY <1>1, <1>2, <2>2
<1>5. ASSUME NEW i \in S, NEW j \in S, i < j
      PROVE  Cardinality(Below(S, i)) < Cardinality(Below(S, j))
  <2>1. \A k \in S : k \in Nat
    OBVIOUS
  <2>2. Below(S, i) \subseteq Below(S, j) /\ i \in Below(S, j) /\ i \notin Below(S, i)
    <3>1. i \in Nat /\ j \in Nat
      BY <2>1
    <3>2. \A k \in S : k < i => k < j
      BY <1>5, <2>1, <3>1
    <3>3. i \notin Below(S, i) /\ i \in Below(S, j)
      BY <1>5, <3>1 DEF Below
    <3> QED BY <3>2, <3>3 DEF Below
  <2> QED BY <1>2, <1>3, <2>2
<1> QED BY <1>1, <1>4, <1>5

\* Nth enumerates a set of positions in ascending order.
LEMMA NthFacts ==
  ASSUME NEW n \in Nat, NEW S \in SUBSET (1..n)
  PROVE  /\ Cardinality(S) \in Nat
         /\ \A k \in 1..Cardinality(S) : Nth(S, k) \in S
         /\ \A i \in S : \E k \in 1..Cardinality(S) : Nth(S, k) = i
         /\ \A k, l \in 1..Cardinality(S) : k < l => Nth(S, k) < Nth(S, l)
<1> DEFINE c == Cardinality(S)
           rank(i) == Cardinality(Below(S, i))
<1>1. /\ IsFiniteSet(S) /\ c \in Nat
      /\ \A i \in S : rank(i) \in 0..(c - 1)
      /\ \A i, j \in S : i < j => rank(i) < rank(j)
  BY BelowFacts
<1>2. \A i \in S : rank(i) \in Nat /\ i \in Nat
  BY <1>1
<1>3. \A i, j \in S : rank(i) = rank(j) => i = j
  <2> SUFFICES ASSUME NEW i \in S, NEW j \in S, rank(i) = rank(j), i # j PROVE FALSE
    OBVIOUS
  <2>1. i < j \/ j < i
    BY <1>2
  <2> HIDE DEF rank
  <2> QED BY <1>1, <1>2, <2>1
<1>4. ASSUME NEW k \in 1..c
      PROVE  \E i \in S : rank(i) = k - 1
  <2> SUFFICES ASSUME \A i \in S : rank(i) # k - 1 PROVE FALSE
    OBVIOUS
  <2> DEFINE T == (0..(c - 1)) \ {k - 1}
             f == [i \in S |-> rank(i)]
  <2>1. 0 \in Int /\ c - 1 \in Int /\ k - 1 \in 0..(c - 1) /\ ~(0 > c - 1)
    BY <1>1
  <2>2. IsFiniteSet(0..(c - 1)) /\ Cardinality(0..(c - 1)) = (c - 1) - 0 + 1
    BY <2>1, FS_Interval
  <2>3. IsFiniteSet(T) /\ Cardinality(T) = ((c - 1) - 0 + 1) - 1
    <3> DEFINE all == 0..(c - 1)
    <3>1. k - 1 \in all /\ IsFiniteSet(all) /\ Cardinality(all) = (c - 1) - 0 + 1
      BY <2>1, <2>2
    <3>2. ASSUME NEW U, IsFiniteSet(U), NEW x \in U
          PROVE  IsFiniteSet(U \ {x}) /\ Cardinality(U \ {x}) = Cardinality(U) - 1
      BY <3>2, FS_RemoveElement
    <3> HIDE DEF all, c
    <3>3. IsFiniteSet(all \ {k - 1}) /\ Cardinality(all \ {k - 1}) = Cardinality(all) - 1
      BY <3>1, <3>2
    <3> QED BY <3>1, <3>3 DEF all
  <2>4. Cardinality(T) < c
    BY <1>1, <2>3
  <2>5. f \in [S -> T]
    BY <1>1
  <2>6. PICK x, y \in S : x # y /\ f[x] = f[y]
    <3> HIDE DEF T, f
    <3> QED BY <1>1, <2>3, <2>4, <2>5, FS_PigeonHole, ZenonT(30)
  <2> QED BY <1>3, <2>6
<1>5. \A k \in 1..c : Nth(S, k) \in S /\ rank(Nth(S, k)) = k - 1
  BY <1>4 DEF Nth, Below
<1>6. ASSUME NEW i \in S
      PROVE  \E k \in 1..c : Nth(S, k) = i
  <2>1. rank(i) + 1 \in 1..c /\ (rank(i) + 1) - 1 = rank(i)
    <3>1. rank(i) \in 0..(c - 1)
      BY <1>1
    <3> HIDE DEF rank
    <3> QED BY <1>1, <3>1
  <2>2. rank(Nth(S, rank(i) + 1)) = rank(i) /\ Nth(S, rank(i) + 1) \in S
    <3> HIDE DEF rank, c
    <3> QED BY <1>5, <2>1
  <2>3. Nth(S, rank(i) + 1) = i
    <3> HIDE DEF rank
    <3> QED BY <1>3, <2>2
  <2> QED BY <2>1, <2>3
<1>7. ASSUME NEW k \in 1..c, NEW l \in 1..c, k < l
      PROVE  Nth(S, k) < Nth(S, l)
  <2> DEFINE a == Nth(S, k)
             b == Nth(S, l)
  <2>1. a \in S /\ b \in S /\ rank(a) = k - 1 /\ rank(b) = l - 1
    BY <1>5
  <2>2. a \in Nat /\ b \in Nat /\ k \in Nat /\ l \in Nat
    <3>1. \A i \in S : i \in Nat
      OBVIOUS
    <3>2. k \in Nat /\ l \in Nat
      <4> HIDE DEF c
      <4> QED BY <1>1
    <3> HIDE DEF a, b
    <3> QED BY <2>1, <3>1, <3>2
  <2>3. ~(rank(b) < rank(a)) /\ rank(a) # rank(b)
    <3> HIDE DEF a, b, rank
    <3> QED BY <1>7, <2>1, <2>2
  <2>4. ~(b < a) /\ a # b
    <3> HIDE DEF a, b, rank
    <3> QED BY <1>1, <2>1, <2>3
  <2> HIDE DEF a, b
  <2>5. a < b
    BY <2>2, <2>4
  <2> QED BY <2>5 DEF a, b
<1> QED BY <1>1, <1>5, <1>6, <1>7

\* One sequence after another.
LEMMA ConcatFacts ==
  ASSUME NEW T, NEW p \in Seq(T), NEW q \in Seq(T)
  PROVE  /\ p \o q \in Seq(T) /\ Len(p \o q) = Len(p) + Len(q)
         /\ \A k \in 1..(Len(p) + Len(q)) :
              (p \o q)[k] = IF k <= Len(p) THEN p[k] ELSE q[k - Len(p)]
OBVIOUS

LEMMA SeqSubset ==
  ASSUME NEW T, NEW U, T \subseteq U, NEW s \in Seq(T)
  PROVE  s \in Seq(U)
OBVIOUS

\* What is kept of a sequence, element by element.
LEMMA KeptFacts ==
  ASSUME NEW T, NEW s \in Seq(T), NEW S \in SUBSET DOMAIN s
  PROVE  /\ Cardinality(S) \in Nat
         /\ Kept(s, S) \in Seq(T) /\ Len(Kept(s, S)) = Cardinality(S)
         /\ DOMAIN Kept(s, S) = 1..Cardinality(S)
         /\ \A k \in 1..Cardinality(S) : Nth(S, k) \in S /\ Kept(s, S)[k] = s[Nth(S, k)]
         /\ \A i \in S : \E k \in 1..Cardinality(S) : Nth(S, k) = i
         /\ \A k, l \in 1..Cardinality(S) : k < l => Nth(S, k) < Nth(S, l)
<1>1. Len(s) \in Nat /\ S \in SUBSET (1..Len(s))
  OBVIOUS
<1>2. /\ Cardinality(S) \in Nat
      /\ \A k \in 1..Cardinality(S) : Nth(S, k) \in S
      /\ \A i \in S : \E k \in 1..Cardinality(S) : Nth(S, k) = i
      /\ \A k, l \in 1..Cardinality(S) : k < l => Nth(S, k) < Nth(S, l)
  BY <1>1, NthFacts
<1>3. \A i \in S : s[i] \in T
  OBVIOUS
<1>4. PICK c \in Nat : c = Cardinality(S)
  BY <1>2
<1>5. Kept(s, S) = [k \in 1..c |-> s[Nth(S, k)]]
  BY <1>4 DEF Kept
<1>6. Kept(s, S) \in [1..c -> T]
  BY <1>2, <1>3, <1>4, <1>5
<1>7. Kept(s, S) \in Seq(T) /\ Len(Kept(s, S)) = c /\ DOMAIN Kept(s, S) = 1..c
  BY <1>5, <1>6
<1>8. \A k \in 1..c : Kept(s, S)[k] = s[Nth(S, k)]
  BY <1>5
<1> QED BY <1>2, <1>4, <1>7, <1>8

\* A vector whose last element is replaced, and one that gets another.
LEMMA ResumedFacts ==
  ASSUME NEW T, NEW s \in Seq(T), Len(s) >= 1, NEW e \in T
  PROVE  LET n == Len(s) IN
         /\ n \in DOMAIN s /\ DOMAIN s = 1..n /\ n \in Nat /\ s[n] \in T
         /\ [s EXCEPT ![n] = e] \in Seq(T) /\ Len([s EXCEPT ![n] = e]) = n
         /\ \A k \in 1..n : [s EXCEPT ![n] = e][k] = IF k = n THEN e ELSE s[k]
OBVIOUS

LEMMA AppendFacts ==
  ASSUME NEW T, NEW s \in Seq(T), NEW e \in T
  PROVE  /\ Append(s, e) \in Seq(T) /\ Len(Append(s, e)) = Len(s) + 1 /\ Len(s) \in Nat
         /\ DOMAIN Append(s, e) = 1..(Len(s) + 1)
         /\ \A k \in 1..(Len(s) + 1) : Append(s, e)[k] = IF k = Len(s) + 1 THEN e ELSE s[k]
OBVIOUS

-----------------------------------------------------------------------------
\* What the successors F of 1..n lead to from a set of them, in n steps.
Grows(f, n, F, start) ==
  f = [k \in 0..n |-> IF k = 0 THEN start ELSE f[k - 1] \cup UNION {F[b] : b \in f[k - 1]}]
Grown(n, F, start) == (CHOOSE f : Grows(f, n, F, start))[n]

\* The iteration exists: its steps are sets, each in the next one.
LEMMA GrowsExists ==
  ASSUME NEW n \in Nat, NEW F \in [1..n -> SUBSET (1..n)], NEW start \in SUBSET (1..n)
  PROVE  \E f \in [0..n -> SUBSET (1..n)] : Grows(f, n, F, start)
<1> DEFINE P(m, f) == /\ f \in [0..m -> SUBSET (1..n)] /\ f[0] = start
                      /\ \A k \in 1..m : f[k] = f[k - 1] \cup UNION {F[b] : b \in f[k - 1]}
           Bad == {m \in 0..n : ~ \E f : P(m, f)}
<1>1. Bad = {}
  <2> SUFFICES ASSUME Bad # {} PROVE FALSE
    OBVIOUS
  <2>1. PICK m \in Bad : \A l \in Bad : m <= l
    <3>1. Bad \in SUBSET Nat
      OBVIOUS
    <3> HIDE DEF Bad
    <3> QED BY <3>1, LeastNatural
  <2>2. CASE m = 0
    <3> DEFINE g == [k \in 0..0 |-> start]
    <3>1. g \in [0..0 -> SUBSET (1..n)]
      OBVIOUS
    <3>2. g[0] = start
      OBVIOUS
    <3>3. \A k \in 1..0 : FALSE
      OBVIOUS
    <3> HIDE DEF g
    <3>4. P(0, g)
      BY <3>1, <3>2, <3>3
    <3> QED BY <2>2, <3>4
  <2>3. CASE m # 0
    <3>1. m - 1 \in 0..n /\ m \in 1..n /\ m - 1 \notin Bad
      <4>1. m \in 0..n /\ m - 1 \in 0..n /\ ~(m <= m - 1)
        BY <2>3
      <4> HIDE DEF Bad
      <4> QED BY <2>1, <2>3, <4>1
    <3>2. PICK f : P(m - 1, f)
      BY <3>1
    <3> DEFINE following(S) == S \cup UNION {F[b] : b \in S}
               g == [k \in 0..m |-> IF k = m THEN following(f[m - 1]) ELSE f[k]]
    <3>3. f[m - 1] \in SUBSET (1..n) /\ following(f[m - 1]) \in SUBSET (1..n)
      BY <3>1, <3>2
    <3>4. P(m, g)
      <4>1. m \in Nat \ {0}
        BY <3>1
      <4>2. g \in [0..m -> SUBSET (1..n)]
        <5> HIDE DEF following
        <5> QED BY <3>2, <3>3, <4>1
      <4>3. \A k \in 1..m : g[k] = following(g[k - 1])
        <5> SUFFICES ASSUME NEW k \in 1..m PROVE g[k] = following(g[k - 1])
          OBVIOUS
        <5>1. k - 1 \in 0..m /\ k - 1 # m /\ k \in 0..m
          BY <4>1
        <5>2. g[k - 1] = f[k - 1]
          BY <5>1
        <5>3. CASE k = m
          BY <5>1, <5>2, <5>3
        <5>4. CASE k # m
          <6>1. k \in 1..(m - 1)
            BY <4>1, <5>4
          <6>2. f[k] = following(f[k - 1])
            BY <3>2, <6>1
          <6> HIDE DEF following
          <6> QED BY <5>1, <5>2, <5>4, <6>2
        <5> QED BY <5>3, <5>4
      <4>4. g[0] = start
        BY <3>2, <4>1
      <4> HIDE DEF g
      <4> QED BY <4>2, <4>3, <4>4
    <3> QED BY <2>1, <3>4
  <2> QED BY <2>2, <2>3
<1>2. PICK f : P(n, f)
  <2>1. n \in 0..n
    OBVIOUS
  <2> HIDE DEF P
  <2> QED BY <1>1, <2>1
<1>3. Grows(f, n, F, start)
  <2> DEFINE following(S) == S \cup UNION {F[b] : b \in S}
             g == [k \in 0..n |-> IF k = 0 THEN start ELSE following(f[k - 1])]
  <2>1. \A k \in 0..n : f[k] = g[k]
    <3> SUFFICES ASSUME NEW k \in 0..n PROVE f[k] = g[k]
      OBVIOUS
    <3>1. k # 0 => k \in 1..n
      OBVIOUS
    <3>2. k # 0 => f[k] = following(f[k - 1])
      BY <1>2, <3>1
    <3> HIDE DEF following
    <3> QED BY <1>2, <3>2
  <2>2. f \in [0..n -> SUBSET (1..n)]
    BY <1>2
  <2>3. f = g
    <3> HIDE DEF following
    <3> QED BY <2>1, <2>2
  <2> QED BY <2>3 DEF Grows
<1> QED BY <1>2, <1>3

\* As many steps as there are elements reach the least set that has the start in it and
\* the successors of its elements: a step that adds nothing is the last one that could,
\* and no more than n can add an element.
LEMMA GrownFacts ==
  ASSUME NEW n \in Nat, NEW F \in [1..n -> SUBSET (1..n)], NEW start \in SUBSET (1..n)
  PROVE  /\ Grown(n, F, start) \in SUBSET (1..n)
         /\ start \subseteq Grown(n, F, start)
         /\ \A b \in Grown(n, F, start) : F[b] \subseteq Grown(n, F, start)
         /\ \A P \in SUBSET (1..n) :
              start \subseteq P /\ (\A b \in P : F[b] \subseteq P) => Grown(n, F, start) \subseteq P
<1> DEFINE f == CHOOSE g : Grows(g, n, F, start)
           following(S) == S \cup UNION {F[b] : b \in S}
           closed(S) == \A b \in S : F[b] \subseteq S
<1>1. Grows(f, n, F, start)
  BY GrowsExists
<1>2. f[0] = start /\ \A k \in 1..n : k - 1 \in 0..n /\ f[k] = following(f[k - 1])
  <2> HIDE DEF f
  <2> DEFINE g == [k \in 0..n |-> IF k = 0 THEN start ELSE following(f[k - 1])]
  <2>1. f = g
    BY <1>1 DEF Grows
  <2>2. g[0] = start /\ \A k \in 1..n : k - 1 \in 0..n /\ g[k] = following(f[k - 1])
    <3> HIDE DEF following
    <3> QED OBVIOUS
  <2> HIDE DEF g, following
  <2> QED BY <2>1, <2>2
<1> HIDE DEF f
<1>3. ASSUME NEW P \in SUBSET (1..n), start \subseteq P, closed(P)
      PROVE  \A k \in 0..n : f[k] \subseteq P
  <2> DEFINE Bad == {k \in 0..n : ~(f[k] \subseteq P)}
  <2> SUFFICES ASSUME Bad # {} PROVE FALSE
    OBVIOUS
  <2>1. PICK k \in Bad : \A l \in Bad : k <= l
    <3>1. Bad \in SUBSET Nat
      OBVIOUS
    <3> HIDE DEF Bad
    <3> QED BY <3>1, LeastNatural
  <2>2. k \in 0..n /\ ~(f[k] \subseteq P)
    OBVIOUS
  <2>3. k \in 1..n /\ k - 1 \in 0..n
    <3>1. k # 0
      BY <1>2, <1>3, <2>2
    <3>2. k \in 0..n
      BY <2>2
    <3> QED BY <3>1, <3>2
  <2>4. f[k - 1] \subseteq P
    <3>1. ~(k <= k - 1)
      BY <2>3
    <3>2. k - 1 \notin Bad
      <4> HIDE DEF Bad
      <4> QED BY <2>1, <3>1
    <3> QED BY <2>3, <3>2
  <2>5. f[k] = following(f[k - 1])
    BY <1>2, <2>3
  <2> HIDE DEF Bad
  <2> QED BY <1>3, <2>2, <2>4, <2>5
<1>4. \A k \in 0..n : f[k] \in SUBSET (1..n)
  <2>1. closed(1..n)
    OBVIOUS
  <2> HIDE DEF closed
  <2> QED BY <1>3, <2>1
<1>5. start \subseteq f[n]
  <2> DEFINE Bad == {k \in 0..n : ~(start \subseteq f[k])}
  <2> SUFFICES ASSUME Bad # {} PROVE FALSE
    OBVIOUS
  <2>1. PICK k \in Bad : \A l \in Bad : k <= l
    <3>1. Bad \in SUBSET Nat
      OBVIOUS
    <3> HIDE DEF Bad
    <3> QED BY <3>1, LeastNatural
  <2>2. k \in 0..n /\ ~(start \subseteq f[k])
    OBVIOUS
  <2>3. k \in 1..n /\ k - 1 \in 0..n
    BY <1>2, <2>2
  <2>4. start \subseteq f[k - 1]
    <3>1. ~(k <= k - 1)
      BY <2>3
    <3>2. k - 1 \notin Bad
      <4> HIDE DEF Bad
      <4> QED BY <2>1, <3>1
    <3> QED BY <2>3, <3>2
  <2>5. f[k] = following(f[k - 1])
    BY <1>2, <2>3
  <2> HIDE DEF Bad
  <2> QED BY <2>2, <2>4, <2>5
<1>6. \A k \in 0..n : IsFiniteSet(f[k]) /\ Cardinality(f[k]) \in Nat
  BY <1>4, BelowFacts
<1>7. closed(f[n]) \/ Cardinality(f[n]) >= n
  <2> DEFINE Q(k) == closed(f[k]) \/ Cardinality(f[k]) >= k
             Bad == {k \in 0..n : ~Q(k)}
  <2> SUFFICES ASSUME Bad # {} PROVE FALSE
    OBVIOUS
  <2>1. PICK k \in Bad : \A l \in Bad : k <= l
    <3>1. Bad \in SUBSET Nat
      OBVIOUS
    <3> HIDE DEF Bad
    <3> QED BY <3>1, LeastNatural
  <2>2. k \in 0..n /\ ~Q(k)
    OBVIOUS
  <2>3. k # 0
    <3>1. Cardinality(f[0]) >= 0
      BY <1>6
    <3> QED BY <2>2, <3>1
  <2>4. k \in 1..n /\ k - 1 \in 0..n
    BY <2>2, <2>3
  <2>5. Q(k - 1)
    <3>1. ~(k <= k - 1)
      BY <2>4
    <3>2. k - 1 \notin Bad
      <4> HIDE DEF Bad
      <4> QED BY <2>1, <3>1
    <3> HIDE DEF Q
    <3> QED BY <2>4, <3>2
  <2> HIDE DEF Bad
  <2>6. f[k] = following(f[k - 1])
    BY <1>2, <2>4
  <2>7. ~closed(f[k - 1])
    BY <2>2, <2>6
  <2>8. PICK b \in f[k - 1] : ~(F[b] \subseteq f[k - 1])
    BY <2>7
  <2>9. PICK x \in F[b] : x \notin f[k - 1]
    BY <2>8
  <2>10. f[k - 1] \subseteq f[k] /\ x \in f[k] /\ f[k - 1] # f[k]
    BY <2>6, <2>9
  <2>11. Cardinality(f[k - 1]) <= Cardinality(f[k]) /\ Cardinality(f[k - 1]) # Cardinality(f[k])
    BY <1>6, <2>4, <2>10, FS_Subset
  <2>12. Cardinality(f[k - 1]) >= k - 1
    <3> HIDE DEF closed
    <3> QED BY <2>5, <2>7
  <2>13. Cardinality(f[k]) >= k
    BY <1>6, <2>4, <2>11, <2>12
  <2> QED BY <2>2, <2>13
<1>8. closed(f[n])
  <2>1. n \in 0..n
    OBVIOUS
  <2>2. ASSUME Cardinality(f[n]) >= n
        PROVE  f[n] = 1..n
    <3>1. IsFiniteSet(1..n) /\ Cardinality(1..n) = n
      <4>1. 1 \in Int /\ n \in Int
        OBVIOUS
      <4>2. IsFiniteSet(1..n) /\ Cardinality(1..n) = IF 1 > n THEN 0 ELSE n - 1 + 1
        BY <4>1, FS_Interval
      <4> QED BY <4>2
    <3>2. f[n] \in SUBSET (1..n)
      BY <1>4, <2>1
    <3>3. Cardinality(f[n]) <= n /\ (Cardinality(f[n]) = n => f[n] = 1..n)
      BY <3>1, <3>2, FS_Subset
    <3>4. Cardinality(f[n]) \in Nat
      BY <1>6, <2>1
    <3> QED BY <2>2, <3>3, <3>4
  <2>3. closed(1..n)
    OBVIOUS
  <2> HIDE DEF closed
  <2> QED BY <1>7, <2>2, <2>3
<1>9. Grown(n, F, start) = f[n] /\ n \in 0..n
  BY DEF Grown, f
<1> QED BY <1>3, <1>4, <1>5, <1>8, <1>9

\* Whatever is reached is in the start or a successor of something reached.
LEMMA GrownFrom ==
  ASSUME NEW n \in Nat, NEW F \in [1..n -> SUBSET (1..n)], NEW start \in SUBSET (1..n),
         NEW b \in Grown(n, F, start)
  PROVE  b \in start \/ \E c \in Grown(n, F, start) : b \in F[c]
<1> DEFINE all == Grown(n, F, start)
           P == {c \in all : c \in start \/ \E d \in all : c \in F[d]}
<1>1. /\ all \in SUBSET (1..n) /\ start \subseteq all
      /\ \A c \in all : F[c] \subseteq all
      /\ \A Q \in SUBSET (1..n) : start \subseteq Q /\ (\A c \in Q : F[c] \subseteq Q) => all \subseteq Q
  BY GrownFacts
<1> HIDE DEF all
<1>2. P \in SUBSET (1..n) /\ start \subseteq P /\ \A c \in P : F[c] \subseteq P
  BY <1>1
<1>3. all \subseteq P
  <2> HIDE DEF P
  <2> QED BY <1>1, <1>2
<1> QED BY <1>3 DEF all

\* A sequence of n elements cut at some places: stretches one behind the other.
Stretches(n, S) ==
  LET starts == Ascending(S)
  IN  [b \in DOMAIN starts |->
         [first |-> starts[b], last |-> IF b = Len(starts) THEN n ELSE starts[b + 1] - 1]]

LEMMA StretchFacts ==
  ASSUME NEW n \in Nat, NEW S \in SUBSET (1..n), 1 \in S
  PROVE  LET v == Stretches(n, S)
         IN  /\ v \in Seq([first : Nat, last : Nat])
             /\ 1 \in DOMAIN v /\ v[1].first = 1
             /\ \A b \in DOMAIN v : 1 <= v[b].first /\ v[b].first <= v[b].last /\ v[b].last <= n
             /\ \A b, d \in DOMAIN v : b < d => v[b].last < v[d].first
             /\ \A b \in DOMAIN v :
                  IF b = Len(v) THEN v[b].last = n ELSE b + 1 \in DOMAIN v /\ v[b + 1].first = v[b].last + 1
             /\ \A i \in 1..n : \E b \in DOMAIN v : i \in v[b].first..v[b].last
             /\ \A b \in DOMAIN v : \A i \in v[b].first..v[b].last : i \in S <=> i = v[b].first
<1> DEFINE starts == Ascending(S)
           c == Cardinality(S)
           from(k) == Nth(S, k)
           to(k) == IF k = c THEN n ELSE from(k + 1) - 1
           v == Stretches(n, S)
<1>1. /\ c \in Nat
      /\ \A k \in 1..c : from(k) \in S
      /\ \A i \in S : \E k \in 1..c : from(k) = i
      /\ \A k, l \in 1..c : k < l => from(k) < from(l)
  BY NthFacts
<1>2. starts = [k \in 1..c |-> from(k)]
  BY DEF Ascending
<1> HIDE DEF starts
<1>3. DOMAIN starts = 1..c /\ Len(starts) = c /\ \A k \in 1..c : starts[k] = from(k)
  <2> HIDE DEF c, from
  <2> QED BY <1>1, <1>2
<1>4. v = [k \in 1..c |-> [first |-> from(k), last |-> to(k)]]
  <2>1. \A k \in 1..c : k = c \/ k + 1 \in 1..c
    <3> HIDE DEF c
    <3> QED BY <1>1
  <2>2. v = [b \in DOMAIN starts |->
              [first |-> starts[b], last |-> IF b = Len(starts) THEN n ELSE starts[b + 1] - 1]]
    BY DEF Stretches, starts
  <2> HIDE DEF c, from, v
  <2>3. \A k \in 1..c : starts[k] = from(k) /\ (IF k = Len(starts) THEN n ELSE starts[k + 1] - 1) = to(k)
    BY <1>3, <2>1
  <2> HIDE DEF to
  <2> QED BY <1>3, <2>2, <2>3
<1> HIDE DEF v
<1>5. \A k \in 1..c : from(k) \in 1..n
  BY <1>1
<1> HIDE DEF from, c
<1>6. 1 \in 1..c /\ from(1) = 1
  <2>1. PICK k \in 1..c : from(k) = 1
    BY <1>1
  <2>2. 1 \in 1..c
    BY <1>1, <2>1
  <2>3. ~(1 < k)
    <3> SUFFICES ASSUME 1 < k PROVE FALSE
      OBVIOUS
    <3>1. from(1) < from(k) /\ from(1) \in 1..n
      BY <1>1, <1>5, <2>2
    <3> QED BY <2>1, <3>1
  <2>4. k = 1
    BY <1>1, <2>3
  <2> QED BY <2>1, <2>2, <2>4
<1>7. \A k \in 1..c : to(k) \in 1..n /\ from(k) <= to(k)
  <2> SUFFICES ASSUME NEW k \in 1..c PROVE to(k) \in 1..n /\ from(k) <= to(k)
    OBVIOUS
  <2>1. CASE k = c
    BY <1>5, <2>1
  <2>2. CASE k # c
    <3>1. k + 1 \in 1..c /\ k < k + 1
      BY <1>1, <2>2
    <3>2. from(k) < from(k + 1) /\ from(k) \in 1..n /\ from(k + 1) \in 1..n
      BY <1>1, <1>5, <3>1
    <3> QED BY <2>2, <3>2
  <2> QED BY <2>1, <2>2
<1>8. \A k, l \in 1..c : k < l => to(k) < from(l)
  <2> SUFFICES ASSUME NEW k \in 1..c, NEW l \in 1..c, k < l PROVE to(k) < from(l)
    OBVIOUS
  <2>1. k # c /\ k + 1 \in 1..c /\ (k + 1 = l \/ k + 1 < l)
    BY <1>1
  <2>2. from(k + 1) = from(l) \/ from(k + 1) < from(l)
    BY <1>1, <2>1
  <2>3. from(k + 1) \in 1..n /\ from(l) \in 1..n
    BY <1>5, <2>1
  <2> QED BY <2>1, <2>2, <2>3
<1>9. \A i \in 1..n : \E k \in 1..c : i \in from(k)..to(k)
  <2> SUFFICES ASSUME NEW i \in 1..n PROVE \E k \in 1..c : i \in from(k)..to(k)
    OBVIOUS
  <2> DEFINE Above == {k \in 1..c : i < from(k)}
  <2>1. CASE Above = {}
    <3>1. c \in 1..c
      BY <1>1, <1>6
    <3>2. from(c) <= i /\ to(c) = n
      BY <1>5, <2>1, <3>1
    <3> QED BY <1>5, <3>1, <3>2
  <2>2. CASE Above # {}
    <3>1. PICK k \in Above : \A l \in Above : k <= l
      <4>1. Above \in SUBSET Nat
        BY <1>1
      <4> HIDE DEF Above
      <4> QED BY <2>2, <4>1, LeastNatural
    <3>2. k \in 1..c /\ i < from(k) /\ k # 1
      BY <1>6
    <3>3. k - 1 \in 1..c /\ ~(k <= k - 1) /\ k - 1 # c /\ (k - 1) + 1 = k
      BY <1>1, <3>2
    <3>4. ~(i < from(k - 1))
      BY <3>1, <3>3
    <3>5. from(k - 1) <= i /\ to(k - 1) = from(k) - 1 /\ from(k) \in 1..n
      BY <1>5, <3>2, <3>3, <3>4
    <3>6. i \in from(k - 1)..to(k - 1)
      BY <1>5, <3>2, <3>3, <3>5
    <3> QED BY <3>3, <3>6
  <2> QED BY <2>1, <2>2
<1>10. \A k \in 1..c : \A i \in from(k)..to(k) : i \in S <=> i = from(k)
  <2> SUFFICES ASSUME NEW k \in 1..c, NEW i \in from(k)..to(k), i \in S, i # from(k)
               PROVE  FALSE
    BY <1>1
  <2>1. i \in 1..n /\ from(k) < i /\ i <= to(k)
    BY <1>5, <1>7
  <2>2. PICK l \in 1..c : from(l) = i
    BY <1>1
  <2>3. k < l
    <3>1. k # l /\ (l < k => from(l) < from(k))
      BY <1>1, <2>2
    <3>2. from(k) \in Nat /\ from(l) \in Nat
      BY <1>5
    <3> QED BY <1>1, <2>1, <2>2, <3>1, <3>2
  <2>4. to(k) < from(l)
    BY <1>8, <2>3
  <2>5. to(k) \in Nat /\ i \in Nat
    BY <1>7, <2>1
  <2> HIDE DEF to
  <2> QED BY <2>1, <2>2, <2>4, <2>5
<1>11. \A k \in 1..c : k # c => k + 1 \in 1..c /\ from(k + 1) = to(k) + 1
  <2> SUFFICES ASSUME NEW k \in 1..c, k # c PROVE k + 1 \in 1..c /\ from(k + 1) = to(k) + 1
    OBVIOUS
  <2>1. k + 1 \in 1..c
    BY <1>1
  <2>2. from(k + 1) \in 1..n
    BY <1>5, <2>1
  <2> QED BY <2>1, <2>2
<1>12. to(c) = n
  OBVIOUS
<1> HIDE DEF to
<1>13. DOMAIN v = 1..c /\ \A k \in 1..c : v[k].first = from(k) /\ v[k].last = to(k)
  BY <1>4
<1>14. v \in Seq([first : Nat, last : Nat]) /\ Len(v) = c
  <2>1. \A k \in 1..c : [first |-> from(k), last |-> to(k)] \in [first : Nat, last : Nat]
    BY <1>5, <1>7
  <2> QED BY <1>1, <1>4, <2>1
<1>15. \A b \in DOMAIN v : 1 <= v[b].first /\ v[b].first <= v[b].last /\ v[b].last <= n
  <2> SUFFICES ASSUME NEW b \in 1..c PROVE 1 <= from(b) /\ from(b) <= to(b) /\ to(b) <= n
    BY <1>13
  <2> QED BY <1>5, <1>7
<1>16. \A b, d \in DOMAIN v : b < d => v[b].last < v[d].first
  BY <1>8, <1>13
<1>17. \A b \in DOMAIN v : IF b = Len(v) THEN v[b].last = n ELSE b + 1 \in DOMAIN v /\ v[b + 1].first = v[b].last + 1
  BY <1>11, <1>12, <1>13, <1>14
<1>18. \A i \in 1..n : \E b \in DOMAIN v : i \in v[b].first..v[b].last
  <2> SUFFICES ASSUME NEW i \in 1..n PROVE \E b \in DOMAIN v : i \in v[b].first..v[b].last
    OBVIOUS
  <2>1. PICK b \in 1..c : i \in from(b)..to(b)
    BY <1>9
  <2> QED BY <1>13, <2>1
<1>19. \A b \in DOMAIN v : \A i \in v[b].first..v[b].last : i \in S <=> i = v[b].first
  BY <1>10, <1>13
<1>20. 1 \in DOMAIN v /\ v[1].first = 1
  BY <1>6, <1>13
<1> QED BY <1>14, <1>15, <1>16, <1>17, <1>18, <1>19, <1>20 DEF v

=============================================================================
