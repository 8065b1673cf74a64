------------------------------ MODULE Induction ------------------------------
(******************************************************************************)
(* What the proofs need of induction and recursion.  The induction theorems   *)
(* of the library take an operator as a parameter, which the provers cannot   *)
(* instantiate; here a property is the set that has it, and a recursion is    *)
(* one by a function.  Everything follows from the well-founded order that    *)
(* strict inclusion is on the subsets of a finite set.                        *)
(******************************************************************************)
EXTENDS Integers, FiniteSetTheorems, WellFoundedInduction, TLAPS

\* A collection of subsets of a finite set has a minimal member: what induction
\* over a finite set comes to.
LEMMA MinimalSet ==
    ASSUME NEW S, IsFiniteSet(S), NEW T \in SUBSET SUBSET S, T # {}
    PROVE  \E U \in T : \A V \in T : V \subseteq U => V = U
<1>1. IsWellFoundedOn(StrictSubsetOrdering(S), SUBSET S)
  BY FS_StrictSubsetOrderingWellFounded, FS_FiniteSubsetsOfFinite
<1>2. PICK U \in T : \A V \in T : ~(<<V, U>> \in StrictSubsetOrdering(S))
  BY <1>1, WFMin
<1> QED
  BY <1>2 DEF StrictSubsetOrdering

\* A set of numbers has a least one: of the intervals that end at its members,
\* the one that is least as a set.
LEMMA LeastNumber ==
    ASSUME NEW T \in SUBSET Nat, T # {}
    PROVE  \E n \in T : \A m \in T : n <= m
<1>1. PICK k \in T : TRUE
  OBVIOUS
<1> DEFINE S == 0..k
           Ends == {0..m : m \in {m \in T : m <= k}}
<1>2. IsFiniteSet(S)
  BY FS_Interval
<1>3. Ends \in SUBSET SUBSET S /\ Ends # {}
  OBVIOUS
<1>4. PICK U \in Ends : \A V \in Ends : V \subseteq U => V = U
  <2> HIDE DEF Ends, S
  <2> QED
    BY <1>2, <1>3, MinimalSet
<1>5. PICK n \in T : n <= k /\ U = 0..n
  OBVIOUS
<1>6. \A m \in T : n <= m
  <2> SUFFICES ASSUME NEW m \in T, m < n PROVE FALSE
    OBVIOUS
  <2>1. 0..m \in Ends
    BY <1>5
  <2>2. 0..m \subseteq 0..n /\ n \in 0..n /\ n \notin 0..m
    OBVIOUS
  <2> QED
    BY <1>4, <1>5, <2>1, <2>2
<1> QED
  BY <1>6

\* Induction over the numbers, for a property given as the set that has it.
LEMMA InductionOn ==
    ASSUME NEW S, \A n \in Nat : (\A m \in Nat : m < n => m \in S) => n \in S
    PROVE  \A n \in Nat : n \in S
<1> SUFFICES ASSUME NEW n \in Nat, n \notin S PROVE FALSE
  OBVIOUS
<1> DEFINE Bad == Nat \ S
<1>1. Bad \in SUBSET Nat /\ Bad # {}
  OBVIOUS
<1>2. PICK k \in Bad : \A m \in Bad : k <= m
  <2> HIDE DEF Bad
  <2> QED
    BY <1>1, LeastNumber
<1>3. \A m \in Nat : m < k => m \in S
  BY <1>2
<1> QED
  BY <1>3

\* The same from the end backwards.
LEMMA BackwardInductionOn ==
    ASSUME NEW S, NEW n \in Nat,
           \A i \in 1..(n + 1) : (\A j \in (i + 1)..(n + 1) : j \in S) => i \in S
    PROVE  \A i \in 1..(n + 1) : i \in S
<1> DEFINE T == {m \in Nat : m <= n => n + 1 - m \in S}
<1>1. ASSUME NEW m \in Nat, \A l \in Nat : l < m => l \in T
      PROVE  m \in T
  <2> SUFFICES ASSUME m <= n PROVE n + 1 - m \in S
    OBVIOUS
  <2>1. n + 1 - m \in 1..(n + 1)
    OBVIOUS
  <2>2. ASSUME NEW j \in (n + 1 - m + 1)..(n + 1) PROVE j \in S
    <3>1. n + 1 - j \in Nat /\ n + 1 - j < m /\ n + 1 - j <= n /\ n + 1 - (n + 1 - j) = j
      OBVIOUS
    <3>2. n + 1 - j \in T
      BY <1>1, <3>1
    <3> QED
      BY <3>1, <3>2
  <2> QED
    BY <2>1, <2>2
<1>2. \A m \in Nat : m \in T
  <2> HIDE DEF T
  <2> QED
    BY <1>1, InductionOn
<1>3. ASSUME NEW i \in 1..(n + 1) PROVE i \in S
  <2>1. n + 1 - i \in Nat /\ n + 1 - i <= n /\ n + 1 - (n + 1 - i) = i
    OBVIOUS
  <2>2. n + 1 - i \in T
    BY <1>2, <2>1
  <2> QED
    BY <2>1, <2>2
<1> QED
  BY <1>3

\* A recursion by a function G over the places up to n.
IsRecursion(r, n, z, G) == r = [i \in 0..n |-> IF i = 0 THEN z ELSE G[i][r[i - 1]]]

LEMMA RecursionExists ==
    ASSUME NEW V, NEW z \in V, NEW n \in Nat, NEW G \in [1..n -> [V -> V]]
    PROVE  \E r \in [0..n -> V] : IsRecursion(r, n, z, G)
<1> DEFINE S == {k \in Nat : k <= n => \E r \in [0..k -> V] : IsRecursion(r, k, z, G)}
<1>1. ASSUME NEW k \in Nat, \A m \in Nat : m < k => m \in S
      PROVE  k \in S
  <2> SUFFICES ASSUME k <= n PROVE \E r \in [0..k -> V] : IsRecursion(r, k, z, G)
    OBVIOUS
  <2>1. CASE k = 0
    <3> DEFINE h == [i \in 0..k |-> z]
    <3>1. h = [i \in 0..k |-> IF i = 0 THEN z ELSE G[i][h[i - 1]]]
      BY <2>1
    <3>2. h \in [0..k -> V]
      OBVIOUS
    <3> HIDE DEF h
    <3> QED
      BY <3>1, <3>2 DEF IsRecursion
  <2>2. CASE k # 0
    <3>1. k - 1 \in Nat /\ k - 1 \in S
      BY <1>1, <2>2
    <3>2. PICK g \in [0..(k - 1) -> V] : IsRecursion(g, k - 1, z, G)
      BY <3>1
    <3>3. \A i \in 0..(k - 1) : g[i] = IF i = 0 THEN z ELSE G[i][g[i - 1]]
      BY <3>2 DEF IsRecursion
    <3> DEFINE h == [i \in 0..k |-> IF i = k THEN G[k][g[k - 1]] ELSE g[i]]
    <3>4. h \in [0..k -> V]
      <4>1. g[k - 1] \in V /\ k \in 1..n
        BY <2>2, <3>1
      <4> QED
        BY <4>1
    <3>5. \A i \in 0..k : h[i] = IF i = 0 THEN z ELSE G[i][h[i - 1]]
      <4> SUFFICES ASSUME NEW i \in 0..k PROVE h[i] = IF i = 0 THEN z ELSE G[i][h[i - 1]]
        OBVIOUS
      <4>1. CASE i = k
        <5>1. k - 1 \in 0..k /\ k - 1 # k
          BY <3>1
        <5>2. h[k - 1] = g[k - 1] /\ h[i] = G[k][g[k - 1]]
          BY <4>1, <5>1
        <5> HIDE DEF h
        <5> QED
          BY <2>2, <4>1, <5>2
      <4>2. CASE i # k
        <5>1. i \in 0..(k - 1) /\ h[i] = g[i]
          BY <4>2
        <5>2. i # 0 => h[i - 1] = g[i - 1]
          BY <4>2
        <5> HIDE DEF h
        <5> QED
          BY <3>3, <5>1, <5>2
      <4> QED
        BY <4>1, <4>2
    <3>6. h = [i \in 0..k |-> h[i]]
      OBVIOUS
    <3> HIDE DEF h
    <3>7. IsRecursion(h, k, z, G)
      BY <3>5, <3>6 DEF IsRecursion
    <3> QED
      BY <3>4, <3>7
  <2> QED
    BY <2>1, <2>2
<1>2. \A k \in Nat : k \in S
  <2> HIDE DEF S
  <2> QED
    BY <1>1, InductionOn
<1> QED
  BY <1>2

\* There is only one.
LEMMA RecursionUnique ==
    ASSUME NEW V, NEW z, NEW n \in Nat, NEW G, NEW r, NEW q,
           IsRecursion(r, n, z, G), IsRecursion(q, n, z, G)
    PROVE  r = q
<1> DEFINE S == {k \in Nat : k <= n => r[k] = q[k]}
<1>0. /\ r = [i \in 0..n |-> IF i = 0 THEN z ELSE G[i][r[i - 1]]]
      /\ q = [i \in 0..n |-> IF i = 0 THEN z ELSE G[i][q[i - 1]]]
  BY DEF IsRecursion
<1>1. ASSUME NEW k \in Nat, \A m \in Nat : m < k => m \in S
      PROVE  k \in S
  <2> SUFFICES ASSUME k <= n PROVE r[k] = q[k]
    OBVIOUS
  <2>1. k \in 0..n
    OBVIOUS
  <2>2. r[k] = (IF k = 0 THEN z ELSE G[k][r[k - 1]]) /\ q[k] = (IF k = 0 THEN z ELSE G[k][q[k - 1]])
    BY <1>0, <2>1
  <2>3. k # 0 => r[k - 1] = q[k - 1]
    BY <1>1
  <2> QED
    BY <2>2, <2>3
<1>2. \A k \in Nat : k \in S
  <2> HIDE DEF S
  <2> QED
    BY <1>1, InductionOn
<1>3. \A k \in 0..n : r[k] = q[k]
  BY <1>2
<1> QED
  BY <1>0, <1>3

\* The same from the end backwards, where each place may use all behind it.
LooksBehind(G, n, V) ==
  \A i \in 1..n : \A f, g \in [1..(n + 1) -> V] :
     (\A j \in (i + 1)..(n + 1) : f[j] = g[j]) => G[i][f] = G[i][g]

IsBackward(r, n, z, G) == \A i \in 1..(n + 1) : r[i] = IF i = n + 1 THEN z ELSE G[i][r]

LEMMA BackwardRecursionExists ==
    ASSUME NEW V, NEW z \in V, NEW n \in Nat,
           NEW G \in [1..n -> [[1..(n + 1) -> V] -> V]],
           LooksBehind(G, n, V)
    PROVE  \E r \in [1..(n + 1) -> V] : IsBackward(r, n, z, G)
<1> DEFINE W == [1..(n + 1) -> V]
           start == [i \in 1..(n + 1) |-> z]
           H == [k \in 1..n |-> [f \in W |-> [f EXCEPT ![n + 1 - k] = G[n + 1 - k][f]]]]
<1>1. start \in W
  OBVIOUS
<1>2. H \in [1..n -> [W -> W]]
  <2>1. ASSUME NEW k \in 1..n, NEW f \in W
        PROVE  [f EXCEPT ![n + 1 - k] = G[n + 1 - k][f]] \in W
    <3>1. n + 1 - k \in 1..n
      OBVIOUS
    <3>2. G[n + 1 - k][f] \in V
      BY <3>1
    <3> QED
      BY <3>1, <3>2
  <2> HIDE DEF W
  <2> QED
    BY <2>1
<1>3. PICK q \in [0..n -> W] : IsRecursion(q, n, start, H)
  <2> HIDE DEF W, start, H
  <2> QED
    BY <1>1, <1>2, RecursionExists
<1> DEFINE Done(m, i) == q[m][i] = IF i = n + 1 THEN z ELSE G[i][q[m]]
           S == {m \in Nat : m <= n => \A i \in (n + 1 - m)..(n + 1) : Done(m, i)}
<1>4. ASSUME NEW m \in Nat, \A l \in Nat : l < m => l \in S
      PROVE  m \in S
  <2> SUFFICES ASSUME m <= n, NEW i \in (n + 1 - m)..(n + 1)
               PROVE  Done(m, i)
    OBVIOUS
  <2>1. q[m] = IF m = 0 THEN start ELSE H[m][q[m - 1]]
    <3>1. m \in 0..n
      OBVIOUS
    <3> HIDE DEF H, start
    <3> QED
      BY <1>3, <3>1 DEF IsRecursion
  <2>2. CASE m = 0
    BY <2>1, <2>2
  <2>3. CASE m # 0
    <3> DEFINE p == n + 1 - m
    <3>1. m \in 1..n /\ m - 1 \in 0..n /\ p \in 1..n /\ i \in p..(n + 1)
      BY <2>3
    <3>2. q[m - 1] \in W /\ q[m] \in W
      BY <1>3, <3>1
    <3>3. q[m] = [q[m - 1] EXCEPT ![p] = G[p][q[m - 1]]]
      <4> HIDE DEF W
      <4> QED
        BY <2>1, <2>3, <3>1, <3>2
    <3>4. \A j \in 1..(n + 1) : j # p => q[m][j] = q[m - 1][j]
      BY <3>2, <3>3
    <3>5. \A j \in p..n : G[j][q[m]] = G[j][q[m - 1]]
      <4> SUFFICES ASSUME NEW j \in p..n PROVE G[j][q[m]] = G[j][q[m - 1]]
        OBVIOUS
      <4>1. j \in 1..n /\ \A l \in (j + 1)..(n + 1) : q[m][l] = q[m - 1][l]
        BY <3>1, <3>4
      <4> QED
        BY <3>2, <4>1 DEF LooksBehind
    <3>6. CASE i = p
      <4>1. q[m][p] = G[p][q[m - 1]]
        BY <3>1, <3>2, <3>3
      <4>2. p \in p..n /\ p # n + 1
        BY <3>1
      <4> HIDE DEF p
      <4> QED
        BY <3>5, <3>6, <4>1, <4>2
    <3>7. CASE i # p
      <4>1. i \in (n + 1 - (m - 1))..(n + 1) /\ i \in 1..(n + 1)
        BY <3>1, <3>7
      <4>2. m - 1 \in S /\ m - 1 <= n
        BY <1>4, <3>1
      <4>3. Done(m - 1, i)
        BY <4>1, <4>2
      <4>4. i # n + 1 => i \in p..n
        BY <3>1
      <4>5. q[m][i] = q[m - 1][i]
        BY <3>4, <3>7, <4>1
      <4> HIDE DEF p
      <4> QED
        BY <3>5, <4>3, <4>4, <4>5
    <3> QED
      BY <3>6, <3>7
  <2> QED
    BY <2>2, <2>3
<1>5. \A m \in Nat : m \in S
  <2> HIDE DEF S
  <2> QED
    BY <1>4, InductionOn
<1>6. q[n] \in W /\ \A i \in 1..(n + 1) : Done(n, i)
  BY <1>3, <1>5
<1> QED
  BY <1>6 DEF IsBackward
=========================================================================
