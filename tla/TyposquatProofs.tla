--------------------------- MODULE TyposquatProofs ---------------------------
(***************************************************************************)
(* Theorems about the typosquat checker, for words over any alphabet, any  *)
(* list of popular names and any tolerances.  In four parts: the tables of *)
(* EditDistance exist, and levenshtein is a metric; an edit of a word is a *)
(* distance of one, and the reverse; the tree of BKTree, searched with a   *)
(* metric, misses no near name; and the stages of Typosquat let no         *)
(* disguise of a popular name through, and use the tree as it is specified.*)
(***************************************************************************)
EXTENDS Typosquat, EditDistance, Induction

--------------------------------------------------------------------------------
\* The tables of the two distances.

Rows(b) == [0..Len(b) -> Nat]
TopRow(b) == [j \in 0..Len(b) |-> j]

LEMMA MinOf ==
    ASSUME NEW S \in SUBSET Nat, S # {}
    PROVE  Min(S) \in S /\ Min(S) \in Nat /\ \A x \in S : Min(S) <= x
<1>1. \E n \in S : \A m \in S : n <= m
  BY LeastNumber
<1>2. Min(S) \in S /\ \A x \in S : Min(S) <= x
  BY <1>1 DEF Min
<1> QED
  BY <1>2

\* The cells of row i, each from the one to its left: extra has what a swap adds.
RowStep(a, b, i, upper, extra) ==
    [j \in 1..Len(b) |-> [left \in Nat |->
        Min({left + 1, upper[j] + 1, upper[j - 1] + Cost(a, b, i, j)} \union extra[j])]]

Extras(b) == [1..Len(b) -> SUBSET Nat]

NoExtra(b) == [j \in 1..Len(b) |-> {}]

SwapExtra(a, b, i, before) ==
    [j \in 1..Len(b) |-> IF Swapped(a, b, i, j) THEN {before[j - 2] + 1} ELSE {}]

LEMMA RowStepType ==
    ASSUME NEW C, NEW a, NEW b \in Seq(C), NEW i,
           NEW upper \in Rows(b), NEW extra \in Extras(b)
    PROVE  RowStep(a, b, i, upper, extra) \in [1..Len(b) -> [Nat -> Nat]]
<1> SUFFICES ASSUME NEW j \in 1..Len(b), NEW left \in Nat
             PROVE  Min({left + 1, upper[j] + 1, upper[j - 1] + Cost(a, b, i, j)}
                        \union extra[j]) \in Nat
  BY DEF RowStep
<1> DEFINE S == {left + 1, upper[j] + 1, upper[j - 1] + Cost(a, b, i, j)} \union extra[j]
<1>1. S \in SUBSET Nat
  <2>1. Cost(a, b, i, j) \in Nat
    BY DEF Cost
  <2>2. upper[j] \in Nat /\ upper[j - 1] \in Nat
    BY DEF Rows
  <2>3. extra[j] \in SUBSET Nat
    BY DEF Extras
  <2> QED
    BY <2>1, <2>2, <2>3
<1>2. S # {}
  OBVIOUS
<1> HIDE DEF S
<1>3. Min(S) \in Nat
  BY <1>1, <1>2, MinOf
<1> QED
  BY <1>3 DEF S

\* What a recursive definition of a row denotes.
IsRow(r, a, b, i, upper, extra) ==
    r = [j \in 0..Len(b) |->
           IF j = 0 THEN i
           ELSE Min({r[j - 1] + 1, upper[j] + 1, upper[j - 1] + Cost(a, b, i, j)} \union extra[j])]

LEMMA RowByRecursion ==
    ASSUME NEW C, NEW a, NEW b \in Seq(C), NEW i \in Nat,
           NEW upper \in Rows(b), NEW extra \in Extras(b), NEW r \in Rows(b),
           IsRecursion(r, Len(b), i, RowStep(a, b, i, upper, extra))
    PROVE  IsRow(r, a, b, i, upper, extra)
<1> DEFINE G == RowStep(a, b, i, upper, extra)
<1>1. r = [j \in 0..Len(b) |-> IF j = 0 THEN i ELSE G[j][r[j - 1]]]
  BY DEF IsRecursion
<1>2. \A j \in 1..Len(b) : r[j - 1] \in Nat
  BY DEF Rows
<1>3. \A j \in 1..Len(b) :
         G[j][r[j - 1]] = Min({r[j - 1] + 1, upper[j] + 1, upper[j - 1] + Cost(a, b, i, j)} \union extra[j])
  BY <1>2 DEF RowStep
<1> DEFINE K(j) == IF j = 0 THEN i ELSE G[j][r[j - 1]]
           H(j) == IF j = 0 THEN i
                   ELSE Min({r[j - 1] + 1, upper[j] + 1, upper[j - 1] + Cost(a, b, i, j)} \union extra[j])
<1>4. \A j \in 0..Len(b) : K(j) = H(j)
  <2> SUFFICES ASSUME NEW j \in 0..Len(b) PROVE K(j) = H(j)
    OBVIOUS
  <2>1. CASE j = 0
    BY <2>1, Zenon
  <2>2. CASE j # 0
    <3>1. j \in 1..Len(b)
      BY <2>2
    <3> HIDE DEF G
    <3> QED
      BY <1>3, <2>2, <3>1, Zenon
  <2> QED
    BY <2>1, <2>2
<1>5. r = [j \in 0..Len(b) |-> K(j)]
  BY <1>1
<1> HIDE DEF K, H
<1>6. r = [j \in 0..Len(b) |-> H(j)]
  BY <1>4, <1>5
<1> QED
  BY <1>6 DEF IsRow, H

LEMMA RowExists ==
    ASSUME NEW C, NEW a, NEW b \in Seq(C), NEW i \in Nat,
           NEW upper \in Rows(b), NEW extra \in Extras(b)
    PROVE  \E r \in Rows(b) : IsRow(r, a, b, i, upper, extra)
<1>1. RowStep(a, b, i, upper, extra) \in [1..Len(b) -> [Nat -> Nat]]
  BY RowStepType
<1>2. \E r \in [0..Len(b) -> Nat] :
         IsRecursion(r, Len(b), i, RowStep(a, b, i, upper, extra))
  <2>1. Len(b) \in Nat
    OBVIOUS
  <2> QED
    BY <1>1, <2>1, RecursionExists
<1> QED
  BY <1>2, RowByRecursion DEF Rows

\* A row is one of numbers.
LEMMA RowType ==
    ASSUME NEW C, NEW a, NEW b \in Seq(C), NEW i \in Nat,
           NEW upper \in Rows(b), NEW extra \in Extras(b), NEW r,
           IsRow(r, a, b, i, upper, extra)
    PROVE  r \in Rows(b)
<1> DEFINE G == RowStep(a, b, i, upper, extra)
           S == {k \in Nat : k <= Len(b) => r[k] \in Nat}
<1>0. r = [j \in 0..Len(b) |->
           IF j = 0 THEN i
           ELSE Min({r[j - 1] + 1, upper[j] + 1, upper[j - 1] + Cost(a, b, i, j)} \union extra[j])]
  BY DEF IsRow
<1>1. ASSUME NEW k \in Nat, \A m \in Nat : m < k => m \in S
      PROVE  k \in S
  <2> SUFFICES ASSUME k <= Len(b) PROVE r[k] \in Nat
    OBVIOUS
  <2>1. CASE k = 0
    BY <1>0, <2>1
  <2>2. CASE k # 0
    <3>1. k - 1 \in S /\ k \in 1..Len(b)
      BY <1>1, <2>2
    <3>2. r[k - 1] \in Nat
      BY <3>1
    <3>3. r[k] = Min({r[k - 1] + 1, upper[k] + 1, upper[k - 1] + Cost(a, b, i, k)} \union extra[k])
      <4>1. k \in 0..Len(b) /\ k # 0
        BY <2>2
      <4> HIDE DEF G, S
      <4> QED
        BY <1>0, <4>1
    <3>4. G[k][r[k - 1]] = Min({r[k - 1] + 1, upper[k] + 1, upper[k - 1] + Cost(a, b, i, k)} \union extra[k])
      BY <3>1, <3>2 DEF RowStep
    <3>5. G \in [1..Len(b) -> [Nat -> Nat]]
      BY RowStepType
    <3> HIDE DEF G
    <3>6. G[k][r[k - 1]] \in Nat
      BY <3>1, <3>2, <3>5
    <3> QED
      BY <3>3, <3>4, <3>6
  <2> QED
    BY <2>1, <2>2
<1>2. \A k \in Nat : k \in S
  <2> HIDE DEF S
  <2> QED
    BY <1>1, InductionOn
<1>3. \A k \in 0..Len(b) : r[k] \in Nat
  BY <1>2
<1> QED
  BY <1>0, <1>3 DEF Rows

\* What NextRow chooses, with the text of its definition.
IsNextRow(row, a, b, i, upper) ==
    row = [j \in 0..Len(b) |->
             IF j = 0 THEN i
             ELSE Min({row[j - 1] + 1, upper[j] + 1, upper[j - 1] + Cost(a, b, i, j)})]

LEMMA NextRowIs ==
    ASSUME NEW C, NEW a, NEW b \in Seq(C), NEW i \in Nat, NEW upper \in Rows(b)
    PROVE  /\ NextRow(a, b, i, upper) \in Rows(b)
           /\ IsRow(NextRow(a, b, i, upper), a, b, i, upper, NoExtra(b))
<1>1. NextRow(a, b, i, upper) = CHOOSE row : IsNextRow(row, a, b, i, upper)
  BY DEF NextRow, IsNextRow
<1>2. NoExtra(b) \in Extras(b)
  BY DEF NoExtra, Extras
<1>3. \A row : IsRow(row, a, b, i, upper, NoExtra(b)) <=> IsNextRow(row, a, b, i, upper)
  <2> SUFFICES ASSUME NEW row
               PROVE  IsRow(row, a, b, i, upper, NoExtra(b)) <=> IsNextRow(row, a, b, i, upper)
    OBVIOUS
  <2>1. ASSUME NEW j \in 0..Len(b), j # 0
        PROVE  {row[j - 1] + 1, upper[j] + 1, upper[j - 1] + Cost(a, b, i, j)} \union NoExtra(b)[j]
                 = {row[j - 1] + 1, upper[j] + 1, upper[j - 1] + Cost(a, b, i, j)}
    <3>1. NoExtra(b)[j] = {}
      BY <2>1 DEF NoExtra
    <3> QED
      BY <3>1
  <2> DEFINE X == [j \in 0..Len(b) |-> IF j = 0 THEN i
                     ELSE Min({row[j - 1] + 1, upper[j] + 1, upper[j - 1] + Cost(a, b, i, j)}
                                \union NoExtra(b)[j])]
             Y == [j \in 0..Len(b) |-> IF j = 0 THEN i
                     ELSE Min({row[j - 1] + 1, upper[j] + 1, upper[j - 1] + Cost(a, b, i, j)})]
  <2>2. \A j \in 0..Len(b) : X[j] = Y[j]
    <3> SUFFICES ASSUME NEW j \in 0..Len(b) PROVE X[j] = Y[j]
      OBVIOUS
    <3>1. CASE j = 0
      BY <3>1
    <3>2. CASE j # 0
      BY <2>1, <3>2, Zenon
    <3> QED
      BY <3>1, <3>2
  <2>3. X = Y
    <3>1. X = [j \in 0..Len(b) |-> X[j]] /\ Y = [j \in 0..Len(b) |-> Y[j]]
      BY Zenon
    <3> HIDE DEF X, Y
    <3> QED
      BY <2>2, <3>1, Zenon
  <2>4. (IsRow(row, a, b, i, upper, NoExtra(b)) <=> row = X) /\ (IsNextRow(row, a, b, i, upper) <=> row = Y)
    BY Zenon DEF IsRow, IsNextRow
  <2> QED
    BY <2>3, <2>4, Zenon
<1>4. PICK r \in Rows(b) : IsRow(r, a, b, i, upper, NoExtra(b))
  BY <1>2, RowExists
<1>5. IsNextRow(NextRow(a, b, i, upper), a, b, i, upper)
  <2>1. \E row : IsNextRow(row, a, b, i, upper)
    BY <1>3, <1>4, Zenon
  <2> QED
    BY <1>1, <2>1, Zenon
<1>6. IsRow(NextRow(a, b, i, upper), a, b, i, upper, NoExtra(b))
  BY <1>3, <1>5, Zenon
<1> QED
  BY <1>2, <1>6, RowType

\* What DamerauRow chooses, with the text of its definition.
IsDamerauRow(row, a, b, i, upper, before) ==
    row = [j \in 0..Len(b) |->
             IF j = 0 THEN i
             ELSE Min({row[j - 1] + 1, upper[j] + 1, upper[j - 1] + Cost(a, b, i, j)}
                      \union (IF Swapped(a, b, i, j) THEN {before[j - 2] + 1} ELSE {}))]

LEMMA SwapExtraType ==
    ASSUME NEW C, NEW a, NEW b \in Seq(C), NEW i \in Nat, NEW before, i = 1 \/ before \in Rows(b)
    PROVE  SwapExtra(a, b, i, before) \in Extras(b)
<1> SUFFICES ASSUME NEW j \in 1..Len(b), Swapped(a, b, i, j)
             PROVE  before[j - 2] + 1 \in Nat
  BY DEF SwapExtra, Extras
<1>1. i > 1 /\ j > 1
  BY DEF Swapped
<1>2. j - 2 \in 0..Len(b) /\ before \in Rows(b)
  BY <1>1
<1>3. before[j - 2] \in Nat
  BY <1>2 DEF Rows
<1> QED
  BY <1>3

LEMMA DamerauRowIs ==
    ASSUME NEW C, NEW a, NEW b \in Seq(C), NEW i \in Nat,
           NEW upper \in Rows(b), NEW before, i = 1 \/ before \in Rows(b)
    PROVE  /\ DamerauRow(a, b, i, upper, before) \in Rows(b)
           /\ IsRow(DamerauRow(a, b, i, upper, before), a, b, i, upper, SwapExtra(a, b, i, before))
<1>1. DamerauRow(a, b, i, upper, before) = CHOOSE row : IsDamerauRow(row, a, b, i, upper, before)
  BY DEF DamerauRow, IsDamerauRow
<1> DEFINE E == SwapExtra(a, b, i, before)
<1>2. E \in Extras(b)
  BY SwapExtraType
<1>3. \A row : IsRow(row, a, b, i, upper, E) <=> IsDamerauRow(row, a, b, i, upper, before)
  <2> SUFFICES ASSUME NEW row
               PROVE  IsRow(row, a, b, i, upper, E) <=> IsDamerauRow(row, a, b, i, upper, before)
    OBVIOUS
  <2>1. \A j \in 0..Len(b) : j # 0 => E[j] = (IF Swapped(a, b, i, j) THEN {before[j - 2] + 1} ELSE {})
    <3> SUFFICES ASSUME NEW j \in 0..Len(b), j # 0
                 PROVE  E[j] = (IF Swapped(a, b, i, j) THEN {before[j - 2] + 1} ELSE {})
      OBVIOUS
    <3>1. j \in 1..Len(b)
      OBVIOUS
    <3> QED
      BY <3>1, Zenon DEF SwapExtra
  <2> DEFINE X == [j \in 0..Len(b) |-> IF j = 0 THEN i
                     ELSE Min({row[j - 1] + 1, upper[j] + 1, upper[j - 1] + Cost(a, b, i, j)}
                                \union E[j])]
             Y == [j \in 0..Len(b) |-> IF j = 0 THEN i
                     ELSE Min({row[j - 1] + 1, upper[j] + 1, upper[j - 1] + Cost(a, b, i, j)}
                                \union (IF Swapped(a, b, i, j) THEN {before[j - 2] + 1} ELSE {}))]
  <2> HIDE DEF E
  <2>2. \A j \in 0..Len(b) : X[j] = Y[j]
    <3> SUFFICES ASSUME NEW j \in 0..Len(b) PROVE X[j] = Y[j]
      OBVIOUS
    <3>1. CASE j = 0
      BY <3>1
    <3>2. CASE j # 0
      BY <2>1, <3>2, Zenon
    <3> QED
      BY <3>1, <3>2
  <2>3. X = Y
    <3>1. X = [j \in 0..Len(b) |-> X[j]] /\ Y = [j \in 0..Len(b) |-> Y[j]]
      BY Zenon
    <3> HIDE DEF X, Y
    <3> QED
      BY <2>2, <3>1, Zenon
  <2>4. (IsRow(row, a, b, i, upper, E) <=> row = X)
          /\ (IsDamerauRow(row, a, b, i, upper, before) <=> row = Y)
    BY Zenon DEF IsRow, IsDamerauRow
  <2> QED
    BY <2>3, <2>4, Zenon
<1> HIDE DEF E
<1>4. PICK r \in Rows(b) : IsRow(r, a, b, i, upper, E)
  BY <1>2, RowExists
<1>5. IsDamerauRow(DamerauRow(a, b, i, upper, before), a, b, i, upper, before)
  <2>1. \E row : IsDamerauRow(row, a, b, i, upper, before)
    BY <1>3, <1>4, Zenon
  <2> QED
    BY <1>1, <2>1, Zenon
<1>6. IsRow(DamerauRow(a, b, i, upper, before), a, b, i, upper, E)
  BY <1>3, <1>5, Zenon
<1>7. DamerauRow(a, b, i, upper, before) \in Rows(b)
  BY <1>2, <1>6, RowType
<1> QED
  BY <1>6, <1>7 DEF E

\* A row is determined by the one above it and its extras.
LEMMA RowUnique ==
    ASSUME NEW C, NEW a, NEW b \in Seq(C), NEW i \in Nat, NEW upper, NEW extra, NEW r, NEW q,
           IsRow(r, a, b, i, upper, extra), IsRow(q, a, b, i, upper, extra)
    PROVE  r = q
<1> DEFINE S == {k \in Nat : k <= Len(b) => r[k] = q[k]}
<1>1. /\ r = [j \in 0..Len(b) |->
              IF j = 0 THEN i
              ELSE Min({r[j - 1] + 1, upper[j] + 1, upper[j - 1] + Cost(a, b, i, j)} \union extra[j])]
      /\ q = [j \in 0..Len(b) |->
              IF j = 0 THEN i
              ELSE Min({q[j - 1] + 1, upper[j] + 1, upper[j - 1] + Cost(a, b, i, j)} \union extra[j])]
  BY DEF IsRow
<1>2. ASSUME NEW k \in Nat, \A m \in Nat : m < k => m \in S
      PROVE  k \in S
  <2> SUFFICES ASSUME k <= Len(b) PROVE r[k] = q[k]
    OBVIOUS
  <2>1. CASE k = 0
    BY <1>1, <2>1
  <2>2. CASE k # 0
    <3>1. k - 1 \in S /\ k \in 0..Len(b)
      BY <1>2, <2>2
    <3>2. r[k - 1] = q[k - 1]
      BY <3>1
    <3>3. /\ r[k] = Min({r[k - 1] + 1, upper[k] + 1, upper[k - 1] + Cost(a, b, i, k)} \union extra[k])
          /\ q[k] = Min({q[k - 1] + 1, upper[k] + 1, upper[k - 1] + Cost(a, b, i, k)} \union extra[k])
      <4> HIDE DEF S
      <4> QED
        BY <1>1, <2>2, <3>1
    <3> QED
      BY <3>2, <3>3
  <2> QED
    BY <2>1, <2>2
<1>3. \A k \in Nat : k \in S
  <2> HIDE DEF S
  <2> QED
    BY <1>2, InductionOn
<1>4. \A k \in 0..Len(b) : r[k] = q[k]
  BY <1>3
<1> QED
  BY <1>1, <1>4

\* No swap ends in the first row.
LEMMA FirstRow ==
    ASSUME NEW C, NEW a, NEW b \in Seq(C), NEW upper \in Rows(b), NEW x, NEW y
    PROVE  DamerauRow(a, b, 1, upper, x) = DamerauRow(a, b, 1, upper, y)
<1>1. SwapExtra(a, b, 1, x) = NoExtra(b) /\ SwapExtra(a, b, 1, y) = NoExtra(b)
  <2>1. \A j : ~Swapped(a, b, 1, j)
    BY DEF Swapped
  <2> QED
    BY <2>1, Zenon DEF SwapExtra, NoExtra
<1>2. /\ IsRow(DamerauRow(a, b, 1, upper, x), a, b, 1, upper, NoExtra(b))
      /\ IsRow(DamerauRow(a, b, 1, upper, y), a, b, 1, upper, NoExtra(b))
  <2>1. /\ IsRow(DamerauRow(a, b, 1, upper, x), a, b, 1, upper, SwapExtra(a, b, 1, x))
        /\ IsRow(DamerauRow(a, b, 1, upper, y), a, b, 1, upper, SwapExtra(a, b, 1, y))
    BY DamerauRowIs
  <2> QED
    BY <1>1, <2>1
<1>3. 1 \in Nat
  OBVIOUS
<1> QED
  BY <1>2, <1>3, RowUnique

LEMMA TopRowType == ASSUME NEW C, NEW b \in Seq(C) PROVE TopRow(b) \in Rows(b)
BY DEF TopRow, Rows

\* A table, row by row: extra[i] is what swaps add to row i.
IsTable(d, a, b) ==
    d \in [0..Len(a) -> Rows(b)] /\ d[0] = TopRow(b)

LevTable(d, a, b) ==
    /\ IsTable(d, a, b)
    /\ \A i \in 1..Len(a) : IsRow(d[i], a, b, i, d[i - 1], NoExtra(b))

OsaTable(d, a, b) ==
    /\ IsTable(d, a, b)
    /\ \A i \in 1..Len(a) : IsRow(d[i], a, b, i, d[i - 1], SwapExtra(a, b, i, d[i - 2]))

\* What levenshtein chooses, with the text of its definition.
IsRows(rows, a, b) ==
    rows = [i \in 0..Len(a) |->
              IF i = 0 THEN [j \in 0..Len(b) |-> j] ELSE NextRow(a, b, i, rows[i - 1])]

LEMMA RowsExist ==
    ASSUME NEW C, NEW a \in Seq(C), NEW b \in Seq(C)
    PROVE  \E rows : IsRows(rows, a, b)
<1> DEFINE V == Rows(b)
           n == Len(a)
           G == [i \in 1..n |-> [p \in V |-> NextRow(a, b, i, p)]]
<1>1. n \in Nat /\ TopRow(b) \in V
  BY TopRowType
<1>2. G \in [1..n -> [V -> V]]
  <2>1. \A i \in 1..n, p \in V : NextRow(a, b, i, p) \in V
    BY NextRowIs
  <2> QED
    BY <2>1
<1>3. PICK r \in [0..n -> V] : IsRecursion(r, n, TopRow(b), G)
  <2> HIDE DEF G, V, n
  <2> QED
    BY <1>1, <1>2, RecursionExists
<1>4. r = [i \in 0..n |-> IF i = 0 THEN TopRow(b) ELSE G[i][r[i - 1]]]
  BY <1>3 DEF IsRecursion
<1>5. \A i \in 0..n : i # 0 => G[i][r[i - 1]] = NextRow(a, b, i, r[i - 1])
  <2> SUFFICES ASSUME NEW i \in 0..n, i # 0
               PROVE  G[i][r[i - 1]] = NextRow(a, b, i, r[i - 1])
    OBVIOUS
  <2>1. i \in 1..n /\ r[i - 1] \in V
    BY <1>3
  <2> HIDE DEF n, V
  <2> QED
    BY <2>1, Zenon
<1> HIDE DEF G
<1>6. \A i \in 0..n : r[i] = IF i = 0 THEN TopRow(b) ELSE NextRow(a, b, i, r[i - 1])
  BY <1>4, <1>5
<1>7. r = [i \in 0..n |-> IF i = 0 THEN TopRow(b) ELSE NextRow(a, b, i, r[i - 1])]
  <2>1. r = [i \in 0..n |-> r[i]]
    BY <1>3
  <2> QED
    BY <1>6, <2>1, Zenon
<1> QED
  BY <1>7, Zenon DEF IsRows, TopRow

\* The distance is the last cell of a table of its kind.
LEMMA LevenshteinTable ==
    ASSUME NEW C, NEW a \in Seq(C), NEW b \in Seq(C)
    PROVE  \E d : LevTable(d, a, b) /\ levenshtein(a, b) = d[Len(a)][Len(b)]
<1> DEFINE d == CHOOSE rows : IsRows(rows, a, b)
           n == Len(a)
<1>1. IsRows(d, a, b)
  BY RowsExist, Zenon
<1>2. levenshtein(a, b) = IF a = << >> THEN Len(b) ELSE IF b = << >> THEN n ELSE d[n][Len(b)]
  BY DEF levenshtein, IsRows
<1> HIDE DEF d
<1>3. d = [i \in 0..n |-> IF i = 0 THEN TopRow(b) ELSE NextRow(a, b, i, d[i - 1])]
  BY <1>1 DEF IsRows, TopRow
<1>4. \A i \in 0..n : d[i] \in Rows(b)
  <2> DEFINE S == {k \in Nat : k <= n => d[k] \in Rows(b)}
  <2>1. ASSUME NEW k \in Nat, \A m \in Nat : m < k => m \in S
        PROVE  k \in S
    <3> SUFFICES ASSUME k <= n PROVE d[k] \in Rows(b)
      OBVIOUS
    <3>1. CASE k = 0
      BY <1>3, <3>1, TopRowType
    <3>2. CASE k # 0
      <4>1. k - 1 \in S /\ k \in 0..n
        BY <2>1, <3>2
      <4>2. d[k - 1] \in Rows(b)
        BY <4>1
      <4>3. d[k] = NextRow(a, b, k, d[k - 1])
        <5> HIDE DEF S
        <5> QED
          BY <1>3, <3>2, <4>1
      <4> QED
        BY <4>2, <4>3, NextRowIs
    <3> QED
      BY <3>1, <3>2
  <2>2. \A k \in Nat : k \in S
    <3> HIDE DEF S
    <3> QED
      BY <2>1, InductionOn
  <2> QED
    BY <2>2
<1>5. \A i \in 1..n : IsRow(d[i], a, b, i, d[i - 1], NoExtra(b))
  <2> SUFFICES ASSUME NEW i \in 1..n PROVE IsRow(d[i], a, b, i, d[i - 1], NoExtra(b))
    OBVIOUS
  <2>1. d[i] = NextRow(a, b, i, d[i - 1])
    <3>1. i \in 0..n /\ i # 0
      OBVIOUS
    <3> HIDE DEF n
    <3> QED
      BY <1>3, <3>1
  <2>2. d[i - 1] \in Rows(b) /\ i \in Nat
    BY <1>4
  <2> QED
    BY <2>1, <2>2, NextRowIs
<1>6. LevTable(d, a, b)
  <2>1. d \in [0..n -> Rows(b)]
    BY <1>3, <1>4
  <2>2. d[0] = TopRow(b)
    BY <1>3
  <2> QED
    BY <1>5, <2>1, <2>2 DEF LevTable, IsTable
<1>7. levenshtein(a, b) = d[n][Len(b)]
  <2>1. CASE a = << >>
    <3>1. n = 0 /\ d[n] = TopRow(b)
      BY <1>3, <2>1
    <3> QED
      BY <1>2, <2>1, <3>1 DEF TopRow
  <2>2. CASE a # << >> /\ b = << >>
    <3>1. n \in 1..n /\ Len(b) = 0
      BY <2>2
    <3>2. IsRow(d[n], a, b, n, d[n - 1], NoExtra(b))
      BY <1>5, <3>1
    <3>3. 0 \in 0..Len(b)
      BY <3>1
    <3>4. d[n][0] = n
      <4> HIDE DEF n
      <4> QED
        BY <3>2, <3>3 DEF IsRow
    <3> QED
      BY <1>2, <2>2, <3>1, <3>4
  <2>3. CASE a # << >> /\ b # << >>
    BY <1>2, <2>3
  <2> QED
    BY <2>1, <2>2, <2>3
<1> QED
  BY <1>6, <1>7

\* What damerauLevenshtein chooses, with the text of its definition.
IsOsaRows(d, a, b) ==
    d = [i \in 0..Len(a) |->
           IF i = 0 THEN [j \in 0..Len(b) |-> j] ELSE DamerauRow(a, b, i, d[i - 1], d[i - 2])]

LEMMA OsaRowsExist ==
    ASSUME NEW C, NEW a \in Seq(C), NEW b \in Seq(C)
    PROVE  \E d : IsOsaRows(d, a, b)
<1> DEFINE R == Rows(b)
           V == R \X R
           n == Len(a)
           G == [i \in 1..n |-> [p \in V |-> <<p[2], DamerauRow(a, b, i, p[2], p[1])>>]]
<1>1. n \in Nat /\ <<TopRow(b), TopRow(b)>> \in V
  BY TopRowType
<1>2. G \in [1..n -> [V -> V]]
  <2>1. \A i \in 1..n, p \in V : DamerauRow(a, b, i, p[2], p[1]) \in R
    <3> SUFFICES ASSUME NEW i \in 1..n, NEW p \in V PROVE DamerauRow(a, b, i, p[2], p[1]) \in R
      OBVIOUS
    <3>1. p[1] \in Rows(b) /\ p[2] \in Rows(b) /\ i \in Nat
      OBVIOUS
    <3> QED
      BY <3>1, DamerauRowIs
  <2> QED
    BY <2>1
<1>3. PICK r \in [0..n -> V] : IsRecursion(r, n, <<TopRow(b), TopRow(b)>>, G)
  <2> HIDE DEF G, V, n
  <2> QED
    BY <1>1, <1>2, RecursionExists
<1>4. r = [i \in 0..n |-> IF i = 0 THEN <<TopRow(b), TopRow(b)>> ELSE G[i][r[i - 1]]]
  BY <1>3 DEF IsRecursion
<1>5. \A i \in 0..n : i # 0 =>
         G[i][r[i - 1]] = <<r[i - 1][2], DamerauRow(a, b, i, r[i - 1][2], r[i - 1][1])>>
  <2> SUFFICES ASSUME NEW i \in 0..n, i # 0
               PROVE  G[i][r[i - 1]] = <<r[i - 1][2], DamerauRow(a, b, i, r[i - 1][2], r[i - 1][1])>>
    OBVIOUS
  <2>1. i \in 1..n /\ r[i - 1] \in V
    <3>1. i \in 1..n /\ i - 1 \in 0..n
      OBVIOUS
    <3>2. r \in [0..n -> V]
      BY <1>3
    <3> HIDE DEF n, V
    <3> QED
      BY <3>1, <3>2
  <2> DEFINE p == r[i - 1]
  <2> HIDE DEF n, V, p
  <2>2. G[i][p] = <<p[2], DamerauRow(a, b, i, p[2], p[1])>>
    BY <2>1, Zenon DEF p
  <2> QED
    BY <2>2, Zenon DEF p
<1> HIDE DEF G
<1>6. r[0][2] = TopRow(b)
  BY <1>1, <1>4
<1>7. \A i \in 1..n : r[i] = <<r[i - 1][2], DamerauRow(a, b, i, r[i - 1][2], r[i - 1][1])>>
  <2> SUFFICES ASSUME NEW i \in 1..n
               PROVE  r[i] = <<r[i - 1][2], DamerauRow(a, b, i, r[i - 1][2], r[i - 1][1])>>
    OBVIOUS
  <2>1. i \in 0..n /\ i # 0
    OBVIOUS
  <2>2. r[i] = G[i][r[i - 1]]
    BY <1>4, <2>1
  <2> QED
    BY <1>5, <2>1, <2>2
<1> DEFINE h == [i \in 0..n |-> r[i][2]]
<1>8. \A i \in 1..n : h[i] = DamerauRow(a, b, i, h[i - 1], h[i - 2])
  <2> SUFFICES ASSUME NEW i \in 1..n PROVE h[i] = DamerauRow(a, b, i, h[i - 1], h[i - 2])
    OBVIOUS
  <2>1. h[i] = r[i][2] /\ h[i - 1] = r[i - 1][2]
    <3>1. i \in 0..n /\ i - 1 \in 0..n
      OBVIOUS
    <3> QED
      BY <3>1
  <2>2. r[i][2] = DamerauRow(a, b, i, r[i - 1][2], r[i - 1][1])
    BY <1>7
  <2>3. CASE i = 1
    <3>1. r[i - 1][2] \in Rows(b)
      BY <1>6, <2>3, TopRowType
    <3> HIDE DEF h
    <3>2. DamerauRow(a, b, 1, r[i - 1][2], r[i - 1][1]) = DamerauRow(a, b, 1, r[i - 1][2], h[i - 2])
      BY <3>1, FirstRow
    <3> QED
      BY <2>1, <2>2, <2>3, <3>2
  <2>4. CASE i # 1
    <3>1. i - 1 \in 1..n /\ i - 2 \in 0..n /\ (i - 1) - 1 = i - 2
      BY <2>4
    <3>2. r[i - 1] = <<r[(i - 1) - 1][2],
                       DamerauRow(a, b, i - 1, r[(i - 1) - 1][2], r[(i - 1) - 1][1])>>
      BY <1>7, <3>1, Zenon
    <3>3. r[i - 1][1] = r[i - 2][2]
      BY <3>1, <3>2
    <3>4. h[i - 2] = r[i - 2][2]
      BY <3>1
    <3> HIDE DEF h
    <3> QED
      BY <2>1, <2>2, <3>3, <3>4
  <2> QED
    BY <2>3, <2>4
<1>9. h = [i \in 0..n |-> IF i = 0 THEN TopRow(b) ELSE DamerauRow(a, b, i, h[i - 1], h[i - 2])]
  <2>1. h = [i \in 0..n |-> h[i]]
    OBVIOUS
  <2>2. h[0] = TopRow(b)
    BY <1>1, <1>6
  <2>3. \A i \in 0..n : i # 0 => i \in 1..n
    OBVIOUS
  <2> HIDE DEF h
  <2>4. \A i \in 0..n :
           h[i] = IF i = 0 THEN TopRow(b) ELSE DamerauRow(a, b, i, h[i - 1], h[i - 2])
    BY <1>8, <2>2, <2>3
  <2> QED
    BY <2>1, <2>4, Zenon
<1> HIDE DEF h
<1> QED
  BY <1>9, Zenon DEF IsOsaRows, TopRow

LEMMA DamerauTable ==
    ASSUME NEW C, NEW a \in Seq(C), NEW b \in Seq(C)
    PROVE  \E d : OsaTable(d, a, b) /\ damerauLevenshtein(a, b) = d[Len(a)][Len(b)]
<1> DEFINE d == CHOOSE d : IsOsaRows(d, a, b)
           n == Len(a)
<1>1. IsOsaRows(d, a, b)
  BY OsaRowsExist, Zenon
<1>2. damerauLevenshtein(a, b) = d[n][Len(b)]
  BY DEF damerauLevenshtein, IsOsaRows
<1> HIDE DEF d
<1>3. d = [i \in 0..n |-> IF i = 0 THEN TopRow(b) ELSE DamerauRow(a, b, i, d[i - 1], d[i - 2])]
  BY <1>1 DEF IsOsaRows, TopRow
<1>4. \A i \in 0..n : d[i] \in Rows(b)
  <2> DEFINE S == {k \in Nat : k <= n => d[k] \in Rows(b)}
  <2>1. ASSUME NEW k \in Nat, \A m \in Nat : m < k => m \in S
        PROVE  k \in S
    <3> SUFFICES ASSUME k <= n PROVE d[k] \in Rows(b)
      OBVIOUS
    <3>1. CASE k = 0
      BY <1>3, <3>1, TopRowType
    <3>2. CASE k # 0
      <4>1. k - 1 \in S /\ k \in 0..n
        BY <2>1, <3>2
      <4>2. d[k - 1] \in Rows(b)
        BY <4>1
      <4>3. d[k] = DamerauRow(a, b, k, d[k - 1], d[k - 2])
        <5> HIDE DEF S
        <5> QED
          BY <1>3, <3>2, <4>1
      <4>4. k = 1 \/ d[k - 2] \in Rows(b)
        <5>1. k # 1 => k - 2 \in S
          BY <2>1, <3>2
        <5> QED
          BY <5>1
      <4> QED
        BY <4>2, <4>3, <4>4, DamerauRowIs
    <3> QED
      BY <3>1, <3>2
  <2>2. \A k \in Nat : k \in S
    <3> HIDE DEF S
    <3> QED
      BY <2>1, InductionOn
  <2> QED
    BY <2>2
<1>5. \A i \in 1..n : IsRow(d[i], a, b, i, d[i - 1], SwapExtra(a, b, i, d[i - 2]))
  <2> SUFFICES ASSUME NEW i \in 1..n
               PROVE  IsRow(d[i], a, b, i, d[i - 1], SwapExtra(a, b, i, d[i - 2]))
    OBVIOUS
  <2>1. d[i] = DamerauRow(a, b, i, d[i - 1], d[i - 2])
    <3>1. i \in 0..n /\ i # 0
      OBVIOUS
    <3> HIDE DEF n
    <3> QED
      BY <1>3, <3>1
  <2>2. d[i - 1] \in Rows(b) /\ i \in Nat
    BY <1>4
  <2>3. i = 1 \/ d[i - 2] \in Rows(b)
    <3>1. i = 1 \/ i - 2 \in 0..n
      OBVIOUS
    <3> HIDE DEF n
    <3> QED
      BY <1>4, <3>1, Zenon
  <2> QED
    BY <2>1, <2>2, <2>3, DamerauRowIs
<1>6. OsaTable(d, a, b)
  <2>1. d \in [0..n -> Rows(b)]
    BY <1>3, <1>4
  <2>2. d[0] = TopRow(b)
    BY <1>3
  <2> QED
    BY <1>5, <2>1, <2>2 DEF OsaTable, IsTable
<1> QED
  BY <1>2, <1>6

LEMMA TableCell ==
    ASSUME NEW C, NEW a \in Seq(C), NEW b \in Seq(C), NEW d, IsTable(d, a, b),
           NEW i \in 0..Len(a), NEW j \in 0..Len(b)
    PROVE  d[i][j] \in Nat /\ (i = 0 => d[i][j] = j)
<1>1. d[i] \in Rows(b)
  BY DEF IsTable
<1>2. d[i][j] \in Nat
  BY <1>1 DEF Rows
<1>3. i = 0 => d[i][j] = j
  BY DEF IsTable, TopRow
<1> QED
  BY <1>2, <1>3

\* A cell is the least of its candidates.
Candidates(d, a, b, i, j, extra) ==
    {d[i][j - 1] + 1, d[i - 1][j] + 1, d[i - 1][j - 1] + Cost(a, b, i, j)} \union extra[j]

LEMMA CellMin ==
    ASSUME NEW C, NEW a \in Seq(C), NEW b \in Seq(C), NEW d, IsTable(d, a, b),
           NEW i \in 1..Len(a), NEW extra \in Extras(b), IsRow(d[i], a, b, i, d[i - 1], extra)
    PROVE  /\ d[i][0] = i
           /\ \A j \in 1..Len(b) :
                /\ d[i][j] \in Candidates(d, a, b, i, j, extra)
                /\ \A x \in Candidates(d, a, b, i, j, extra) : d[i][j] <= x
<1>1. d[i] = [j \in 0..Len(b) |->
               IF j = 0 THEN i
               ELSE Min({d[i][j - 1] + 1, d[i - 1][j] + 1, d[i - 1][j - 1] + Cost(a, b, i, j)}
                          \union extra[j])]
  BY DEF IsRow
<1>2. d[i][0] = i
  <2>1. 0 \in 0..Len(b)
    OBVIOUS
  <2> QED
    BY <1>1, <2>1
<1>3. ASSUME NEW j \in 1..Len(b)
      PROVE  /\ d[i][j] \in Candidates(d, a, b, i, j, extra)
             /\ \A x \in Candidates(d, a, b, i, j, extra) : d[i][j] <= x
  <2> DEFINE S == Candidates(d, a, b, i, j, extra)
  <2>1. d[i][j] = Min(S)
    <3>1. j \in 0..Len(b) /\ j # 0
      OBVIOUS
    <3> QED
      BY <1>1, <3>1, Zenon DEF Candidates
  <2>2. S \in SUBSET Nat
    <3>1. d[i][j - 1] \in Nat /\ d[i - 1][j] \in Nat /\ d[i - 1][j - 1] \in Nat
      <4>1. i \in 0..Len(a) /\ i - 1 \in 0..Len(a) /\ j \in 0..Len(b) /\ j - 1 \in 0..Len(b)
        OBVIOUS
      <4> QED
        BY <4>1, TableCell
    <3>2. Cost(a, b, i, j) \in Nat
      BY DEF Cost
    <3>3. extra[j] \in SUBSET Nat
      BY DEF Extras
    <3>4. /\ d[i][j - 1] + 1 \in Nat /\ d[i - 1][j] + 1 \in Nat
          /\ d[i - 1][j - 1] + Cost(a, b, i, j) \in Nat
      <4>1. \A x, y \in Nat : x + y \in Nat /\ x + 1 \in Nat
        OBVIOUS
      <4> QED
        BY <3>1, <3>2, <4>1, Zenon
    <3>5. S = {d[i][j - 1] + 1, d[i - 1][j] + 1, d[i - 1][j - 1] + Cost(a, b, i, j)} \union extra[j]
      BY DEF Candidates
    <3> HIDE DEF S
    <3>6. \A x \in S : x \in Nat
      BY <3>3, <3>4, <3>5
    <3> QED
      BY <3>6, Zenon
  <2>3. S # {}
    BY DEF Candidates
  <2> HIDE DEF S
  <2>4. Min(S) \in S /\ \A x \in S : Min(S) <= x
    BY <2>2, <2>3, MinOf
  <2> QED
    BY <2>1, <2>4 DEF S
<1> QED
  BY <1>2, <1>3

LEMMA LevCell ==
    ASSUME NEW C, NEW a \in Seq(C), NEW b \in Seq(C), NEW d, LevTable(d, a, b),
           NEW i \in 0..Len(a), NEW j \in 0..Len(b)
    PROVE  /\ d[i][j] \in Nat
           /\ i = 0 => d[i][j] = j
           /\ j = 0 => d[i][j] = i
           /\ i # 0 /\ j # 0 =>
                /\ d[i][j] <= d[i][j - 1] + 1
                /\ d[i][j] <= d[i - 1][j] + 1
                /\ d[i][j] <= d[i - 1][j - 1] + Cost(a, b, i, j)
                /\ \/ d[i][j] = d[i][j - 1] + 1
                   \/ d[i][j] = d[i - 1][j] + 1
                   \/ d[i][j] = d[i - 1][j - 1] + Cost(a, b, i, j)
<1>1. IsTable(d, a, b)
  BY DEF LevTable
<1>2. d[i][j] \in Nat /\ (i = 0 => d[i][j] = j)
  BY <1>1, TableCell
<1>3. ASSUME i # 0
      PROVE  /\ d[i][0] = i
             /\ j # 0 =>
                  /\ d[i][j] \in Candidates(d, a, b, i, j, NoExtra(b))
                  /\ \A x \in Candidates(d, a, b, i, j, NoExtra(b)) : d[i][j] <= x
  <2>1. i \in 1..Len(a) /\ (j # 0 => j \in 1..Len(b))
    BY <1>3
  <2>2. IsRow(d[i], a, b, i, d[i - 1], NoExtra(b))
    BY <2>1 DEF LevTable
  <2>3. NoExtra(b) \in Extras(b)
    BY DEF NoExtra, Extras
  <2> QED
    BY <1>1, <2>1, <2>2, <2>3, CellMin
<1>4. j # 0 => Candidates(d, a, b, i, j, NoExtra(b))
                 = {d[i][j - 1] + 1, d[i - 1][j] + 1, d[i - 1][j - 1] + Cost(a, b, i, j)}
  <2>1. j # 0 => NoExtra(b)[j] = {}
    BY DEF NoExtra
  <2> QED
    BY <2>1 DEF Candidates
<1>5. j = 0 => d[i][j] = i
  BY <1>2, <1>3
<1> QED
  BY <1>2, <1>3, <1>4, <1>5

LEMMA OsaCell ==
    ASSUME NEW C, NEW a \in Seq(C), NEW b \in Seq(C), NEW d, OsaTable(d, a, b),
           NEW i \in 0..Len(a), NEW j \in 0..Len(b)
    PROVE  /\ d[i][j] \in Nat
           /\ i = 0 => d[i][j] = j
           /\ j = 0 => d[i][j] = i
           /\ i # 0 /\ j # 0 =>
                /\ d[i][j] <= d[i][j - 1] + 1
                /\ d[i][j] <= d[i - 1][j] + 1
                /\ d[i][j] <= d[i - 1][j - 1] + Cost(a, b, i, j)
                /\ Swapped(a, b, i, j) => d[i][j] <= d[i - 2][j - 2] + 1
                /\ \/ d[i][j] = d[i][j - 1] + 1
                   \/ d[i][j] = d[i - 1][j] + 1
                   \/ d[i][j] = d[i - 1][j - 1] + Cost(a, b, i, j)
                   \/ Swapped(a, b, i, j) /\ d[i][j] = d[i - 2][j - 2] + 1
<1>1. IsTable(d, a, b)
  BY DEF OsaTable
<1>2. d[i][j] \in Nat /\ (i = 0 => d[i][j] = j)
  BY <1>1, TableCell
<1> DEFINE E == SwapExtra(a, b, i, d[i - 2])
<1>3. ASSUME i # 0
      PROVE  /\ d[i][0] = i
             /\ j # 0 =>
                  /\ d[i][j] \in Candidates(d, a, b, i, j, E)
                  /\ \A x \in Candidates(d, a, b, i, j, E) : d[i][j] <= x
  <2>1. i \in 1..Len(a) /\ i \in Nat /\ (j # 0 => j \in 1..Len(b))
    BY <1>3
  <2>2. IsRow(d[i], a, b, i, d[i - 1], E)
    BY <2>1 DEF OsaTable
  <2>3. E \in Extras(b)
    <3>1. i = 1 \/ d[i - 2] \in Rows(b)
      <4>1. i = 1 \/ i - 2 \in 0..Len(a)
        BY <2>1
      <4> QED
        BY <1>1, <4>1 DEF IsTable
    <3> QED
      BY <2>1, <3>1, SwapExtraType
  <2> HIDE DEF E
  <2> QED
    BY <1>1, <2>1, <2>2, <2>3, CellMin
<1>4. j # 0 => E[j] = IF Swapped(a, b, i, j) THEN {d[i - 2][j - 2] + 1} ELSE {}
  BY DEF SwapExtra
<1> HIDE DEF E
<1>5. j # 0 => Candidates(d, a, b, i, j, E)
                 = {d[i][j - 1] + 1, d[i - 1][j] + 1, d[i - 1][j - 1] + Cost(a, b, i, j)}
                     \union (IF Swapped(a, b, i, j) THEN {d[i - 2][j - 2] + 1} ELSE {})
  BY <1>4 DEF Candidates
<1>6. j = 0 => d[i][j] = i
  BY <1>2, <1>3
<1> QED
  BY <1>2, <1>3, <1>5, <1>6

\* Induction over the cells of a table, by the sum of their indexes.
LEMMA CellInduction ==
    ASSUME NEW m \in Nat, NEW n \in Nat, NEW S,
           \A i \in 0..m, j \in 0..n :
               (\A p \in 0..m, q \in 0..n : p + q < i + j => <<p, q>> \in S) => <<i, j>> \in S
    PROVE  \A i \in 0..m, j \in 0..n : <<i, j>> \in S
<1> DEFINE T == {k \in Nat : \A i \in 0..m, j \in 0..n : i + j = k => <<i, j>> \in S}
<1>1. ASSUME NEW k \in Nat, \A x \in Nat : x < k => x \in T
      PROVE  k \in T
  <2> SUFFICES ASSUME NEW i \in 0..m, NEW j \in 0..n, i + j = k PROVE <<i, j>> \in S
    OBVIOUS
  <2>1. ASSUME NEW p \in 0..m, NEW q \in 0..n, p + q < i + j
        PROVE  <<p, q>> \in S
    <3>1. p + q \in Nat /\ p + q < k
      BY <2>1
    <3>2. p + q \in T
      <4> HIDE DEF T
      <4> QED
        BY <1>1, <3>1
    <3> QED
      BY <3>2
  <2> QED
    BY <2>1
<1>2. \A k \in Nat : k \in T
  <2> HIDE DEF T
  <2> QED
    BY <1>1, InductionOn
<1> SUFFICES ASSUME NEW i \in 0..m, NEW j \in 0..n PROVE <<i, j>> \in S
  OBVIOUS
<1>3. i + j \in Nat
  OBVIOUS
<1>4. i + j \in T
  BY <1>2, <1>3
<1> QED
  BY <1>4

LEMMA CostFacts ==
    ASSUME NEW a, NEW b, NEW i, NEW j
    PROVE  Cost(a, b, i, j) \in {0, 1} /\ (Cost(a, b, i, j) = 0 <=> a[i] = b[j])
BY DEF Cost

\* In the tables of both distances only an equal pair of characters keeps a cell 0.
Floored(d, a, b) ==
    \A i \in 0..Len(a), j \in 0..Len(b) :
      /\ d[i][j] \in Nat
      /\ i = 0 => d[i][j] = j
      /\ j = 0 => d[i][j] = i
      /\ i # 0 /\ j # 0 =>
           /\ d[i][j] <= d[i - 1][j - 1] + Cost(a, b, i, j)
           /\ d[i][j] >= 1 \/ d[i][j] = d[i - 1][j - 1] + Cost(a, b, i, j)

\* Cells that are 0 in either table: the words agree so far.
LEMMA ZeroPrefixes ==
    ASSUME NEW C, NEW a \in Seq(C), NEW b \in Seq(C), NEW d,
           Floored(d, a, b)
    PROVE  \A i \in 0..Len(a), j \in 0..Len(b) :
             d[i][j] = 0 <=> i = j /\ \A k \in 1..i : a[k] = b[k]
<1> DEFINE m == Len(a)
           n == Len(b)
           Same(i, j) == i = j /\ \A k \in 1..i : a[k] = b[k]
           S == {p \in (0..m) \X (0..n) : d[p[1]][p[2]] = 0 <=> Same(p[1], p[2])}
<1>1. ASSUME NEW i \in 0..m, NEW j \in 0..n,
             \A p \in 0..m, q \in 0..n : p + q < i + j => <<p, q>> \in S
      PROVE  <<i, j>> \in S
  <2> SUFFICES d[i][j] = 0 <=> Same(i, j)
    OBVIOUS
  <2>1. CASE i = 0 \/ j = 0
    <3>1. (i = 0 => d[i][j] = j) /\ (j = 0 => d[i][j] = i)
      BY DEF Floored
    <3>2. i \in Nat /\ j \in Nat
      OBVIOUS
    <3>3. i = 0 => \A k \in 1..i : a[k] = b[k]
      OBVIOUS
    <3> QED
      BY <2>1, <3>1, <3>2, <3>3
  <2>2. CASE i # 0 /\ j # 0
    <3>1. i - 1 \in 0..m /\ j - 1 \in 0..n /\ (i - 1) + (j - 1) < i + j
      BY <2>2
    <3>2. <<i - 1, j - 1>> \in S
      <4> HIDE DEF S
      <4> QED
        BY <1>1, <3>1
    <3>3. d[i - 1][j - 1] = 0 <=> Same(i - 1, j - 1)
      BY <3>2
    <3>4. d[i][j] \in Nat /\ d[i - 1][j - 1] \in Nat
      BY <3>1 DEF Floored
    <3>5. /\ d[i][j] <= d[i - 1][j - 1] + Cost(a, b, i, j)
          /\ d[i][j] >= 1 \/ d[i][j] = d[i - 1][j - 1] + Cost(a, b, i, j)
      BY <2>2 DEF Floored
    <3>6. d[i][j] = 0 <=> d[i - 1][j - 1] = 0 /\ a[i] = b[j]
      <4> DEFINE x == d[i][j]
                 y == d[i - 1][j - 1]
                 c == Cost(a, b, i, j)
      <4>1. c \in {0, 1} /\ (c = 0 <=> a[i] = b[j])
        BY CostFacts
      <4>2. x \in Nat /\ y \in Nat
        BY <3>4
      <4>3. x <= y + c /\ (x >= 1 \/ x = y + c)
        BY <3>5
      <4> HIDE DEF x, y, c
      <4>4. x = 0 <=> y = 0 /\ c = 0
        BY ONLY <4>1, <4>2, <4>3
      <4> QED
        BY <4>1, <4>4, Zenon DEF x, y
    <3>7. Same(i, j) <=> Same(i - 1, j - 1) /\ a[i] = b[j]
      <4>1. i \in Nat /\ j \in Nat /\ i \in 1..i
        BY <2>2
      <4>2. \A k : k \in 1..i <=> k \in 1..(i - 1) \/ k = i
        BY <4>1
      <4>3. i = j <=> i - 1 = j - 1
        BY <4>1
      <4> QED
        BY <4>2, <4>3
    <3> HIDE DEF Same
    <3> QED
      BY <3>3, <3>6, <3>7
  <2> QED
    BY <2>1, <2>2
<1>2. m \in Nat /\ n \in Nat
  OBVIOUS
<1>3. \A i \in 0..m, j \in 0..n : <<i, j>> \in S
  <2> HIDE DEF S, m, n
  <2> QED
    BY <1>1, <1>2, CellInduction
<1> SUFFICES ASSUME NEW i \in 0..m, NEW j \in 0..n PROVE d[i][j] = 0 <=> Same(i, j)
  OBVIOUS
<1>4. <<i, j>> \in S
  <2> HIDE DEF S
  <2> QED
    BY <1>3
<1> QED
  BY <1>4

LEMMA ZeroCells ==
    ASSUME NEW C, NEW a \in Seq(C), NEW b \in Seq(C), NEW d, Floored(d, a, b)
    PROVE  d[Len(a)][Len(b)] = 0 <=> a = b
<1> DEFINE m == Len(a)
           n == Len(b)
           Same(i, j) == i = j /\ \A k \in 1..i : a[k] = b[k]
<1>1. m \in 0..m /\ n \in 0..n
  OBVIOUS
<1>5. d[m][n] = 0 <=> Same(m, n)
  BY <1>1, ZeroPrefixes
<1>6. Same(m, n) <=> a = b
  <2>1. ASSUME Same(m, n) PROVE a = b
    <3>1. Len(a) = Len(b) /\ \A k \in 1..Len(a) : a[k] = b[k]
      BY <2>1
    <3> QED
      BY <3>1
  <2>2. a = b => Same(m, n)
    OBVIOUS
  <2> QED
    BY <2>1, <2>2
<1> QED
  BY <1>5, <1>6

LEMMA LevFloored ==
    ASSUME NEW C, NEW a \in Seq(C), NEW b \in Seq(C), NEW d, LevTable(d, a, b)
    PROVE  Floored(d, a, b)
<1> SUFFICES ASSUME NEW i \in 0..Len(a), NEW j \in 0..Len(b)
             PROVE  /\ d[i][j] \in Nat
                    /\ i = 0 => d[i][j] = j
                    /\ j = 0 => d[i][j] = i
                    /\ i # 0 /\ j # 0 =>
                         /\ d[i][j] <= d[i - 1][j - 1] + Cost(a, b, i, j)
                         /\ \/ d[i][j] >= 1
                            \/ d[i][j] = d[i - 1][j - 1] + Cost(a, b, i, j)
  BY DEF Floored
<1>1. i # 0 /\ j # 0 => d[i][j - 1] + 1 >= 1 /\ d[i - 1][j] + 1 >= 1
  <2> SUFFICES ASSUME i # 0, j # 0 PROVE d[i][j - 1] + 1 >= 1 /\ d[i - 1][j] + 1 >= 1
    OBVIOUS
  <2>1. i - 1 \in 0..Len(a) /\ j - 1 \in 0..Len(b)
    OBVIOUS
  <2>2. d[i][j - 1] \in Nat /\ d[i - 1][j] \in Nat
    BY <2>1, LevCell
  <2> QED
    BY <2>2
<1>2. /\ d[i][j] \in Nat
      /\ i = 0 => d[i][j] = j
      /\ j = 0 => d[i][j] = i
      /\ i # 0 /\ j # 0 =>
           /\ d[i][j] <= d[i - 1][j - 1] + Cost(a, b, i, j)
           /\ \/ d[i][j] = d[i][j - 1] + 1
              \/ d[i][j] = d[i - 1][j] + 1
              \/ d[i][j] = d[i - 1][j - 1] + Cost(a, b, i, j)
  <2>1. LevTable(d, a, b)
    OBVIOUS
  <2> QED
    BY <2>1, LevCell
<1>3. i # 0 /\ j # 0 => d[i][j] >= 1 \/ d[i][j] = d[i - 1][j - 1] + Cost(a, b, i, j)
  BY <1>1, <1>2, Zenon
<1> QED
  BY <1>2, <1>3, Zenon

LEMMA OsaFloored ==
    ASSUME NEW C, NEW a \in Seq(C), NEW b \in Seq(C), NEW d, OsaTable(d, a, b)
    PROVE  Floored(d, a, b)
<1> SUFFICES ASSUME NEW i \in 0..Len(a), NEW j \in 0..Len(b)
             PROVE  /\ d[i][j] \in Nat
                    /\ i = 0 => d[i][j] = j
                    /\ j = 0 => d[i][j] = i
                    /\ i # 0 /\ j # 0 =>
                         /\ d[i][j] <= d[i - 1][j - 1] + Cost(a, b, i, j)
                         /\ \/ d[i][j] >= 1
                            \/ d[i][j] = d[i - 1][j - 1] + Cost(a, b, i, j)
  BY DEF Floored
<1>1. i # 0 /\ j # 0 => /\ d[i][j - 1] + 1 >= 1 /\ d[i - 1][j] + 1 >= 1
                        /\ Swapped(a, b, i, j) => d[i - 2][j - 2] + 1 >= 1
  <2> SUFFICES ASSUME i # 0, j # 0
               PROVE  /\ d[i][j - 1] + 1 >= 1 /\ d[i - 1][j] + 1 >= 1
                      /\ Swapped(a, b, i, j) => d[i - 2][j - 2] + 1 >= 1
    OBVIOUS
  <2>1. i - 1 \in 0..Len(a) /\ j - 1 \in 0..Len(b)
    OBVIOUS
  <2>2. d[i][j - 1] \in Nat /\ d[i - 1][j] \in Nat
    BY <2>1, OsaCell
  <2>3. ASSUME Swapped(a, b, i, j) PROVE d[i - 2][j - 2] \in Nat
    <3>1. i - 2 \in 0..Len(a) /\ j - 2 \in 0..Len(b)
      BY <2>3 DEF Swapped
    <3> QED
      BY <3>1, OsaCell
  <2>4. \A x \in Nat : x + 1 >= 1
    OBVIOUS
  <2> QED
    BY <2>2, <2>3, <2>4, Zenon
<1>2. /\ d[i][j] \in Nat
      /\ i = 0 => d[i][j] = j
      /\ j = 0 => d[i][j] = i
      /\ i # 0 /\ j # 0 =>
           /\ d[i][j] <= d[i - 1][j - 1] + Cost(a, b, i, j)
           /\ \/ d[i][j] = d[i][j - 1] + 1
              \/ d[i][j] = d[i - 1][j] + 1
              \/ d[i][j] = d[i - 1][j - 1] + Cost(a, b, i, j)
              \/ Swapped(a, b, i, j) /\ d[i][j] = d[i - 2][j - 2] + 1
  <2>1. OsaTable(d, a, b)
    OBVIOUS
  <2> QED
    BY <2>1, OsaCell
<1> QED
  BY <1>1, <1>2, Zenon

\* Reversing the words transposes levenshtein's table.
LEMMA LevSymmetric ==
    ASSUME NEW C, NEW a \in Seq(C), NEW b \in Seq(C), NEW d, LevTable(d, a, b),
           NEW e, LevTable(e, b, a)
    PROVE  d[Len(a)][Len(b)] = e[Len(b)][Len(a)]
<1> DEFINE m == Len(a)
           n == Len(b)
           S == {p \in (0..m) \X (0..n) : d[p[1]][p[2]] = e[p[2]][p[1]]}
<1>1. ASSUME NEW i \in 0..m, NEW j \in 0..n,
             \A p \in 0..m, q \in 0..n : p + q < i + j => <<p, q>> \in S
      PROVE  <<i, j>> \in S
  <2> SUFFICES d[i][j] = e[j][i]
    OBVIOUS
  <2> DEFINE x == d[i][j]
             x1 == d[i][j - 1]
             x2 == d[i - 1][j]
             x3 == d[i - 1][j - 1]
             y == e[j][i]
             c == Cost(a, b, i, j)
  <2>1. /\ x \in Nat
        /\ i = 0 => x = j
        /\ j = 0 => x = i
        /\ i # 0 /\ j # 0 =>
             /\ x <= x1 + 1 /\ x <= x2 + 1 /\ x <= x3 + c
             /\ x = x1 + 1 \/ x = x2 + 1 \/ x = x3 + c
    BY LevCell
  <2>2. ASSUME i # 0, j # 0
        PROVE  /\ x1 = e[j - 1][i] /\ x2 = e[j][i - 1] /\ x3 = e[j - 1][i - 1]
               /\ x1 \in Nat /\ x2 \in Nat /\ x3 \in Nat
    <3>1. /\ i - 1 \in 0..m /\ j - 1 \in 0..n
          /\ i + (j - 1) < i + j /\ (i - 1) + j < i + j /\ (i - 1) + (j - 1) < i + j
      BY <2>2
    <3>2. <<i, j - 1>> \in S /\ <<i - 1, j>> \in S /\ <<i - 1, j - 1>> \in S
      <4> HIDE DEF S
      <4> QED
        BY <1>1, <3>1
    <3>3. x1 \in Nat /\ x2 \in Nat /\ x3 \in Nat
      BY <3>1, LevCell
    <3> QED
      BY <3>2, <3>3
  <2>3. c = Cost(b, a, j, i) /\ c \in {0, 1}
    BY DEF Cost
  <2>4. /\ y \in Nat
        /\ j = 0 => y = i
        /\ i = 0 => y = j
        /\ i # 0 /\ j # 0 =>
             /\ y <= e[j][i - 1] + 1 /\ y <= e[j - 1][i] + 1
             /\ y <= e[j - 1][i - 1] + Cost(b, a, j, i)
             /\ \/ y = e[j][i - 1] + 1 \/ y = e[j - 1][i] + 1
                \/ y = e[j - 1][i - 1] + Cost(b, a, j, i)
    <3>1. /\ e[j][i] \in Nat
          /\ j = 0 => e[j][i] = i
          /\ i = 0 => e[j][i] = j
          /\ j # 0 /\ i # 0 =>
               /\ e[j][i] <= e[j][i - 1] + 1
               /\ e[j][i] <= e[j - 1][i] + 1
               /\ e[j][i] <= e[j - 1][i - 1] + Cost(b, a, j, i)
               /\ \/ e[j][i] = e[j][i - 1] + 1
                  \/ e[j][i] = e[j - 1][i] + 1
                  \/ e[j][i] = e[j - 1][i - 1] + Cost(b, a, j, i)
      <4> HIDE DEF S, x, x1, x2, x3, y, c
      <4> QED
        BY LevCell
    <3> QED
      BY ONLY <3>1, Zenon DEF y
  <2>5. CASE i = 0 \/ j = 0
    <3> HIDE DEF x, y
    <3>1. x = y
      BY ONLY <2>1, <2>4, <2>5
    <3> QED
      BY <3>1, Zenon DEF x, y
  <2>6. CASE i # 0 /\ j # 0
    <3>1. /\ y <= x2 + 1 /\ y <= x1 + 1 /\ y <= x3 + c
          /\ y = x2 + 1 \/ y = x1 + 1 \/ y = x3 + c
      <4> HIDE DEF S, m, n, x1, x2, x3, c
      <4> QED
        BY <2>2, <2>3, <2>4, <2>6, Zenon
    <3>2. x1 \in Nat /\ x2 \in Nat /\ x3 \in Nat
      BY <2>2, <2>6
    <3> HIDE DEF x, x1, x2, x3, y, c
    <3>3. x = y
      BY ONLY <2>1, <2>3, <2>4, <2>6, <3>1, <3>2
    <3> QED
      BY <3>3, Zenon DEF x, y
  <2> QED
    BY <2>5, <2>6
<1>2. m \in Nat /\ n \in Nat
  OBVIOUS
<1>3. \A i \in 0..m, j \in 0..n : <<i, j>> \in S
  <2> HIDE DEF S, m, n
  <2> QED
    BY <1>1, <1>2, CellInduction
<1>4. <<m, n>> \in S
  <2>1. m \in 0..m /\ n \in 0..n
    BY <1>2
  <2> HIDE DEF S
  <2> QED
    BY <1>3, <2>1
<1> QED
  BY <1>4

\* A cell is at least the difference of its indexes, and at most their sum.
LEMMA LevBounds ==
    ASSUME NEW C, NEW a \in Seq(C), NEW b \in Seq(C), NEW d, LevTable(d, a, b)
    PROVE  \A i \in 0..Len(a), j \in 0..Len(b) :
             i <= d[i][j] + j /\ j <= d[i][j] + i /\ d[i][j] <= i + j
<1> DEFINE m == Len(a)
           n == Len(b)
           S == {p \in (0..m) \X (0..n) : /\ p[1] <= d[p[1]][p[2]] + p[2]
                                          /\ p[2] <= d[p[1]][p[2]] + p[1]
                                          /\ d[p[1]][p[2]] <= p[1] + p[2]}
<1>1. ASSUME NEW i \in 0..m, NEW j \in 0..n,
             \A p \in 0..m, q \in 0..n : p + q < i + j => <<p, q>> \in S
      PROVE  <<i, j>> \in S
  <2> SUFFICES i <= d[i][j] + j /\ j <= d[i][j] + i /\ d[i][j] <= i + j
    OBVIOUS
  <2> DEFINE x == d[i][j]
             x1 == d[i][j - 1]
             x2 == d[i - 1][j]
             x3 == d[i - 1][j - 1]
             c == Cost(a, b, i, j)
  <2>1. /\ x \in Nat
        /\ i = 0 => x = j
        /\ j = 0 => x = i
        /\ i # 0 /\ j # 0 =>
             /\ x <= x2 + 1
             /\ x = x1 + 1 \/ x = x2 + 1 \/ x = x3 + c
    BY LevCell
  <2>2. ASSUME i # 0, j # 0
        PROVE  /\ x1 \in Nat /\ x2 \in Nat /\ x3 \in Nat
               /\ i <= x1 + (j - 1) /\ j - 1 <= x1 + i
               /\ i - 1 <= x2 + j /\ j <= x2 + (i - 1) /\ x2 <= (i - 1) + j
               /\ i - 1 <= x3 + (j - 1) /\ j - 1 <= x3 + (i - 1)
    <3>1. /\ i - 1 \in 0..m /\ j - 1 \in 0..n
          /\ i + (j - 1) < i + j /\ (i - 1) + j < i + j /\ (i - 1) + (j - 1) < i + j
      BY <2>2
    <3>2. <<i, j - 1>> \in S /\ <<i - 1, j>> \in S /\ <<i - 1, j - 1>> \in S
      <4> HIDE DEF S
      <4> QED
        BY <1>1, <3>1
    <3>3. x1 \in Nat /\ x2 \in Nat /\ x3 \in Nat
      BY <3>1, LevCell
    <3> QED
      BY <3>2, <3>3
  <2>3. i \in Nat /\ j \in Nat
    OBVIOUS
  <2>4. c \in {0, 1}
    BY CostFacts
  <2> HIDE DEF S, m, n, x, x1, x2, x3, c
  <2>5. i <= x + j /\ j <= x + i /\ x <= i + j
    <3>1. CASE i = 0 \/ j = 0
      BY ONLY <2>1, <2>3, <3>1
    <3>2. CASE i # 0 /\ j # 0
      <4>1. x \in Nat /\ x <= x2 + 1 /\ (x = x1 + 1 \/ x = x2 + 1 \/ x = x3 + c)
        BY <2>1, <3>2, Zenon
      <4>2. /\ x1 \in Nat /\ x2 \in Nat /\ x3 \in Nat
            /\ i <= x1 + (j - 1) /\ j - 1 <= x1 + i
            /\ i - 1 <= x2 + j /\ j <= x2 + (i - 1) /\ x2 <= (i - 1) + j
            /\ i - 1 <= x3 + (j - 1) /\ j - 1 <= x3 + (i - 1)
        BY <2>2, <3>2, Zenon
      <4>3. CASE x = x1 + 1
        BY ONLY <2>3, <4>1, <4>2, <4>3
      <4>4. CASE x = x2 + 1
        BY ONLY <2>3, <4>1, <4>2, <4>4
      <4>5. CASE x = x3 + c
        BY ONLY <2>3, <2>4, <4>1, <4>2, <4>5
      <4> QED
        BY <4>1, <4>3, <4>4, <4>5
    <3> QED
      BY <3>1, <3>2
  <2> QED
    BY <2>5, Zenon DEF x
<1>2. m \in Nat /\ n \in Nat
  OBVIOUS
<1>3. \A i \in 0..m, j \in 0..n : <<i, j>> \in S
  <2> HIDE DEF S, m, n
  <2> QED
    BY <1>1, <1>2, CellInduction
<1> SUFFICES ASSUME NEW i \in 0..m, NEW j \in 0..n
             PROVE  i <= d[i][j] + j /\ j <= d[i][j] + i /\ d[i][j] <= i + j
  OBVIOUS
<1>4. <<i, j>> \in S
  <2> HIDE DEF S
  <2> QED
    BY <1>3
<1> QED
  BY <1>4

\* A transposition is two substitutions.
LEMMA LevTwice ==
    ASSUME NEW C, NEW a \in Seq(C), NEW b \in Seq(C), NEW l, LevTable(l, a, b),
           NEW d, OsaTable(d, a, b)
    PROVE  l[Len(a)][Len(b)] <= 2 * d[Len(a)][Len(b)]
<1> DEFINE m == Len(a)
           n == Len(b)
           S == {p \in (0..m) \X (0..n) : l[p[1]][p[2]] <= 2 * d[p[1]][p[2]]}
<1>1. ASSUME NEW i \in 0..m, NEW j \in 0..n,
             \A p \in 0..m, q \in 0..n : p + q < i + j => <<p, q>> \in S
      PROVE  <<i, j>> \in S
  <2> SUFFICES l[i][j] <= 2 * d[i][j]
    OBVIOUS
  <2> DEFINE x == d[i][j]
             x1 == d[i][j - 1]
             x2 == d[i - 1][j]
             x3 == d[i - 1][j - 1]
             x4 == d[i - 2][j - 2]
             y == l[i][j]
             y1 == l[i][j - 1]
             y2 == l[i - 1][j]
             y3 == l[i - 1][j - 1]
             y4 == l[i - 2][j - 2]
             c == Cost(a, b, i, j)
             sw == Swapped(a, b, i, j)
  <2>1. /\ x \in Nat
        /\ i = 0 => x = j
        /\ j = 0 => x = i
        /\ i # 0 /\ j # 0 =>
             x = x1 + 1 \/ x = x2 + 1 \/ x = x3 + c \/ (sw /\ x = x4 + 1)
    BY OsaCell
  <2>2. /\ y \in Nat
        /\ i = 0 => y = j
        /\ j = 0 => y = i
        /\ i # 0 /\ j # 0 => y <= y1 + 1 /\ y <= y2 + 1 /\ y <= y3 + c
    BY LevCell
  <2>3. ASSUME i # 0, j # 0
        PROVE  /\ y1 <= 2 * x1 /\ y2 <= 2 * x2 /\ y3 <= 2 * x3
               /\ x1 \in Nat /\ x2 \in Nat /\ x3 \in Nat
               /\ y1 \in Nat /\ y2 \in Nat /\ y3 \in Nat
    <3>1. /\ i - 1 \in 0..m /\ j - 1 \in 0..n
          /\ i + (j - 1) < i + j /\ (i - 1) + j < i + j /\ (i - 1) + (j - 1) < i + j
      BY <2>3
    <3>2. <<i, j - 1>> \in S /\ <<i - 1, j>> \in S /\ <<i - 1, j - 1>> \in S
      <4> HIDE DEF S
      <4> QED
        BY <1>1, <3>1
    <3>3. x1 \in Nat /\ x2 \in Nat /\ x3 \in Nat
      BY <3>1, OsaCell
    <3>4. y1 \in Nat /\ y2 \in Nat /\ y3 \in Nat
      BY <3>1, LevCell
    <3> QED
      BY <3>2, <3>3, <3>4
  <2>4. ASSUME sw
        PROVE  x4 \in Nat /\ y4 \in Nat /\ y4 <= 2 * x4 /\ y3 <= y4 + 1 /\ y3 \in Nat
    <3>1. i > 1 /\ j > 1
      BY <2>4 DEF Swapped
    <3>2. /\ i - 2 \in 0..m /\ j - 2 \in 0..n /\ (i - 2) + (j - 2) < i + j
          /\ i - 1 \in 0..m /\ j - 1 \in 0..n /\ i - 1 # 0 /\ j - 1 # 0
          /\ (i - 1) - 1 = i - 2 /\ (j - 1) - 1 = j - 2
      BY <3>1
    <3>3. <<i - 2, j - 2>> \in S
      <4> HIDE DEF S
      <4> QED
        BY <1>1, <3>2
    <3>4. x4 \in Nat /\ y4 \in Nat
      BY <3>2, OsaCell, LevCell
    <3> DEFINE k == Cost(a, b, i - 1, j - 1)
    <3>5. y3 \in Nat /\ y3 <= l[(i - 1) - 1][(j - 1) - 1] + k
      BY <3>2, LevCell
    <3>6. l[(i - 1) - 1][(j - 1) - 1] = y4
      BY <3>2
    <3>7. k \in {0, 1}
      BY CostFacts
    <3>8. y3 <= y4 + k
      BY <3>5, <3>6, Zenon
    <3>9. y3 <= y4 + 1
      <4> HIDE DEF y3, y4, k
      <4> QED
        BY ONLY <3>4, <3>5, <3>7, <3>8
    <3> QED
      BY <3>3, <3>4, <3>5, <3>9
  <2>5. c \in {0, 1} /\ i \in Nat /\ j \in Nat
    BY CostFacts
  <2> HIDE DEF S, m, n, x, x1, x2, x3, x4, y, y1, y2, y3, y4, c, sw
  <2>6. y <= 2 * x
    <3>1. CASE i = 0 \/ j = 0
      BY ONLY <2>1, <2>2, <2>5, <3>1
    <3>2. CASE i # 0 /\ j # 0
      <4>1. CASE sw /\ x = x4 + 1
        <5>1. x4 \in Nat /\ y4 \in Nat /\ y4 <= 2 * x4 /\ y3 <= y4 + 1 /\ y3 \in Nat
          BY <2>4, <4>1
        <5> QED
          BY ONLY <2>1, <2>2, <2>5, <3>2, <4>1, <5>1
      <4>2. CASE x = x1 + 1 \/ x = x2 + 1 \/ x = x3 + c
        <5>1. /\ y1 <= 2 * x1 /\ y2 <= 2 * x2 /\ y3 <= 2 * x3
              /\ x1 \in Nat /\ x2 \in Nat /\ x3 \in Nat
              /\ y1 \in Nat /\ y2 \in Nat /\ y3 \in Nat
          BY <2>3, <3>2, Zenon
        <5>2. x \in Nat /\ y \in Nat /\ y <= y1 + 1 /\ y <= y2 + 1 /\ y <= y3 + c
          BY <2>1, <2>2, <3>2, Zenon
        <5> QED
          BY ONLY <2>5, <4>2, <5>1, <5>2
      <4> QED
        BY <2>1, <3>2, <4>1, <4>2, Zenon
    <3> QED
      BY <3>1, <3>2
  <2> QED
    BY <2>6, Zenon DEF x, y
<1>2. m \in Nat /\ n \in Nat
  OBVIOUS
<1>3. \A i \in 0..m, j \in 0..n : <<i, j>> \in S
  <2> HIDE DEF S, m, n
  <2> QED
    BY <1>1, <1>2, CellInduction
<1>4. <<m, n>> \in S
  <2>1. m \in 0..m /\ n \in 0..n
    BY <1>2
  <2> HIDE DEF S
  <2> QED
    BY <1>3, <2>1
<1> QED
  BY <1>4

\* The triangle inequality, cell by cell: the last steps of the two tables
\* together are a step of the third, and what is left is the same for shorter
\* words.
LEMMA LevTriangle ==
    ASSUME NEW C, NEW a \in Seq(C), NEW b \in Seq(C), NEW c \in Seq(C),
           NEW ab, LevTable(ab, a, b), NEW bc, LevTable(bc, b, c), NEW ac, LevTable(ac, a, c)
    PROVE  ac[Len(a)][Len(c)] <= ab[Len(a)][Len(b)] + bc[Len(b)][Len(c)]
<1> DEFINE l == Len(a)
           m == Len(b)
           n == Len(c)
           Holds(i, j, k) == ac[i][k] <= ab[i][j] + bc[j][k]
           S == {s \in Nat : \A i \in 0..l, j \in 0..m, k \in 0..n :
                                i + j + k = s => Holds(i, j, k)}
<1>1. ASSUME NEW s \in Nat, \A t \in Nat : t < s => t \in S
      PROVE  s \in S
  <2> SUFFICES ASSUME NEW i \in 0..l, NEW j \in 0..m, NEW k \in 0..n, i + j + k = s
               PROVE  Holds(i, j, k)
    OBVIOUS
  <2>1. ASSUME NEW p \in 0..l, NEW q \in 0..m, NEW r \in 0..n, p + q + r < s
        PROVE  Holds(p, q, r)
    <3>1. p + q + r \in Nat
      OBVIOUS
    <3>2. p + q + r \in S
      <4> HIDE DEF S
      <4> QED
        BY <1>1, <2>1, <3>1
    <3> HIDE DEF Holds
    <3> QED
      BY <3>2
  <2> DEFINE x == ab[i][j]
             y == bc[j][k]
             z == ac[i][k]
  <2>2. x \in Nat /\ y \in Nat /\ z \in Nat
    BY LevCell
  <2>3. i \in Nat /\ j \in Nat /\ k \in Nat
    OBVIOUS
  <2>4. CASE i = 0
    <3>1. z = k /\ x = j
      BY <2>4, LevCell
    <3>2. k <= y + j
      BY LevBounds
    <3> HIDE DEF x, y, z
    <3>3. z <= x + y
      BY ONLY <2>2, <2>3, <3>1, <3>2
    <3> QED
      BY <3>3, Zenon DEF x, y, z
  <2>5. CASE k = 0
    <3>1. z = i /\ y = j
      BY <2>5, LevCell
    <3>2. i <= x + j
      BY LevBounds
    <3> HIDE DEF x, y, z
    <3>3. z <= x + y
      BY ONLY <2>2, <2>3, <3>1, <3>2
    <3> QED
      BY <3>3, Zenon DEF x, y, z
  <2>6. CASE j = 0
    <3>1. x = i /\ y = k
      BY <2>6, LevCell
    <3>2. z <= i + k
      BY LevBounds
    <3> HIDE DEF x, y, z
    <3>3. z <= x + y
      BY ONLY <2>2, <2>3, <3>1, <3>2
    <3> QED
      BY <3>3, Zenon DEF x, y, z
  <2>7. CASE i # 0 /\ j # 0 /\ k # 0
    <3> DEFINE x1 == ab[i][j - 1]
               x2 == ab[i - 1][j]
               x3 == ab[i - 1][j - 1]
               y1 == bc[j][k - 1]
               y2 == bc[j - 1][k]
               y3 == bc[j - 1][k - 1]
               z1 == ac[i][k - 1]
               z2 == ac[i - 1][k]
               z3 == ac[i - 1][k - 1]
               cx == Cost(a, b, i, j)
               cy == Cost(b, c, j, k)
               cz == Cost(a, c, i, k)
    <3>1. i - 1 \in 0..l /\ j - 1 \in 0..m /\ k - 1 \in 0..n
      BY <2>7
    <3>2. x = x1 + 1 \/ x = x2 + 1 \/ x = x3 + cx
      BY <2>7, LevCell
    <3>3. y = y1 + 1 \/ y = y2 + 1 \/ y = y3 + cy
      BY <2>7, LevCell
    <3>4. z <= z1 + 1 /\ z <= z2 + 1 /\ z <= z3 + cz
      BY <2>7, LevCell
    <3>5. /\ x1 \in Nat /\ x2 \in Nat /\ x3 \in Nat
          /\ y1 \in Nat /\ y2 \in Nat /\ y3 \in Nat
          /\ z1 \in Nat /\ z2 \in Nat /\ z3 \in Nat
      <4>1. /\ \A g \in 0..l, h \in 0..m : ab[g][h] \in Nat
            /\ \A g \in 0..m, h \in 0..n : bc[g][h] \in Nat
            /\ \A g \in 0..l, h \in 0..n : ac[g][h] \in Nat
        BY LevCell
      <4> HIDE DEF l, m, n
      <4>2. x1 \in Nat /\ x2 \in Nat /\ x3 \in Nat
        BY <3>1, <4>1
      <4>3. y1 \in Nat /\ y2 \in Nat /\ y3 \in Nat
        BY <3>1, <4>1
      <4>4. z1 \in Nat /\ z2 \in Nat /\ z3 \in Nat
        BY <3>1, <4>1
      <4> QED
        BY <4>2, <4>3, <4>4
    <3>6. cx \in {0, 1} /\ cy \in {0, 1} /\ cz \in {0, 1} /\ cz <= cx + cy
      BY DEF Cost
    <3>7. /\ (i - 1) + j + k < s /\ i + j + (k - 1) < s /\ i + (j - 1) + k < s
          /\ i + (j - 1) + (k - 1) < s /\ (i - 1) + (j - 1) + k < s
          /\ (i - 1) + (j - 1) + (k - 1) < s
      BY <2>3
    <3>8. /\ Holds(i - 1, j, k) /\ Holds(i, j, k - 1) /\ Holds(i, j - 1, k)
          /\ Holds(i, j - 1, k - 1) /\ Holds(i - 1, j - 1, k) /\ Holds(i - 1, j - 1, k - 1)
      <4> HIDE DEF Holds, l, m, n
      <4> QED
        BY <2>1, <3>1, <3>7
    <3>9. /\ z2 <= x2 + y /\ z1 <= x + y1 /\ z <= x1 + y2
          /\ z1 <= x1 + y3 /\ z2 <= x3 + y2 /\ z3 <= x3 + y3
      BY <3>8
    <3> HIDE DEF x, x1, x2, x3, y, y1, y2, y3, z, z1, z2, z3, cx, cy, cz
    <3>10. z <= x + y
      <4>1. CASE x = x2 + 1
        BY ONLY <2>2, <3>4, <3>5, <3>9, <4>1
      <4>2. CASE y = y1 + 1
        BY ONLY <2>2, <3>4, <3>5, <3>9, <4>2
      <4>3. CASE x = x1 + 1 /\ y = y2 + 1
        BY ONLY <2>2, <3>5, <3>9, <4>3
      <4>4. CASE x = x1 + 1 /\ y = y3 + cy
        BY ONLY <2>2, <3>4, <3>5, <3>6, <3>9, <4>4
      <4>5. CASE x = x3 + cx /\ y = y2 + 1
        BY ONLY <2>2, <3>4, <3>5, <3>6, <3>9, <4>5
      <4>6. CASE x = x3 + cx /\ y = y3 + cy
        BY ONLY <2>2, <3>4, <3>5, <3>6, <3>9, <4>6
      <4> QED
        BY <3>2, <3>3, <4>1, <4>2, <4>3, <4>4, <4>5, <4>6, Zenon
    <3> QED
      BY <3>10, Zenon DEF x, y, z
  <2> QED
    BY <2>4, <2>5, <2>6, <2>7
<1>2. \A s \in Nat : s \in S
  <2> HIDE DEF S
  <2> QED
    BY <1>1, InductionOn
<1>3. l \in Nat /\ m \in Nat /\ n \in Nat
  OBVIOUS
<1>4. l + m + n \in S
  <2>1. l + m + n \in Nat
    BY <1>3
  <2> HIDE DEF S
  <2> QED
    BY <1>2, <2>1
<1>5. Holds(l, m, n)
  <2>1. l \in 0..l /\ m \in 0..m /\ n \in 0..n
    BY <1>3
  <2> HIDE DEF Holds, l, m, n
  <2> QED
    BY <1>4, <2>1
<1> QED
  BY <1>5

-----------------------------------------------------------------------------
\* levenshtein is a metric, over any characters: bktree.go says so, and the
\* pruning of the tree rests on it.
THEOREM LevenshteinIsMetric ==
    ASSUME NEW C, NEW a \in Seq(C), NEW b \in Seq(C), NEW c \in Seq(C)
    PROVE  /\ levenshtein(a, b) \in Nat
           /\ levenshtein(a, b) = 0 <=> a = b
           /\ levenshtein(a, b) = levenshtein(b, a)
           /\ levenshtein(a, c) <= levenshtein(a, b) + levenshtein(b, c)
<1>1. PICK ab : LevTable(ab, a, b) /\ levenshtein(a, b) = ab[Len(a)][Len(b)]
  BY LevenshteinTable
<1>2. PICK ba : LevTable(ba, b, a) /\ levenshtein(b, a) = ba[Len(b)][Len(a)]
  BY LevenshteinTable
<1>3. PICK bc : LevTable(bc, b, c) /\ levenshtein(b, c) = bc[Len(b)][Len(c)]
  BY LevenshteinTable
<1>4. PICK ac : LevTable(ac, a, c) /\ levenshtein(a, c) = ac[Len(a)][Len(c)]
  BY LevenshteinTable
<1>5. Len(a) \in 0..Len(a) /\ Len(b) \in 0..Len(b)
  OBVIOUS
<1>6. ab[Len(a)][Len(b)] \in Nat
  BY <1>1, <1>5, LevCell
<1>7. ab[Len(a)][Len(b)] = 0 <=> a = b
  <2>1. Floored(ab, a, b)
    BY <1>1, LevFloored
  <2> QED
    BY <2>1, ZeroCells
<1>8. ab[Len(a)][Len(b)] = ba[Len(b)][Len(a)]
  BY <1>1, <1>2, LevSymmetric
<1>9. ac[Len(a)][Len(c)] <= ab[Len(a)][Len(b)] + bc[Len(b)][Len(c)]
  BY <1>1, <1>3, <1>4, LevTriangle
<1> QED
  BY <1>1, <1>2, <1>3, <1>4, <1>6, <1>7, <1>8, <1>9

\* damerauLevenshtein tells words apart, and one of its steps is at most two of
\* levenshtein's.  It is no metric, which is why the tree does not use it.
THEOREM DamerauAgainstLevenshtein ==
    ASSUME NEW C, NEW a \in Seq(C), NEW b \in Seq(C)
    PROVE  /\ damerauLevenshtein(a, b) \in Nat
           /\ damerauLevenshtein(a, b) = 0 <=> a = b
           /\ levenshtein(a, b) <= 2 * damerauLevenshtein(a, b)
<1>1. PICK l : LevTable(l, a, b) /\ levenshtein(a, b) = l[Len(a)][Len(b)]
  BY LevenshteinTable
<1>2. PICK d : OsaTable(d, a, b) /\ damerauLevenshtein(a, b) = d[Len(a)][Len(b)]
  BY DamerauTable
<1>3. Len(a) \in 0..Len(a) /\ Len(b) \in 0..Len(b)
  OBVIOUS
<1>4. d[Len(a)][Len(b)] \in Nat
  BY <1>2, <1>3, OsaCell
<1>5. d[Len(a)][Len(b)] = 0 <=> a = b
  <2>1. Floored(d, a, b)
    BY <1>2, OsaFloored
  <2> QED
    BY <2>1, ZeroCells
<1>6. l[Len(a)][Len(b)] <= 2 * d[Len(a)][Len(b)]
  BY <1>1, <1>2, LevTwice
<1> QED
  BY <1>1, <1>2, <1>4, <1>5, <1>6

--------------------------------------------------------------------------------
\* Each edge above a node is labelled with the distance from there to its word.
EdgesLabelled ==
    \A w \in nodes : \A e \in above[w] : e[1] \in nodes /\ e[2] = Lev(e[1], w)

\* Each edge above a node leads to the node, or to another one above it.
EdgesLead ==
    \A w \in nodes : \A e \in above[w] :
        \E c \in Child(e[1], e[2]) : c = w \/ \E d \in Nat : <<c, d>> \in above[w]

\* A word has edges above it only once its node is in the tree.
Unlisted == \A w \in Words \ nodes : above[w] = {}

Rooted == \A w \in nodes : \E r \in Root : w = r \/ \E d \in Nat : <<r, d>> \in above[w]

\* A node is determined by the edges above it.
PathsDiffer == \A u, v \in nodes : above[u] = above[v] => u = v

\* The walk of an insertion is at a node the word belongs under.
WalkInv ==
    word # NoWord =>
        /\ query = NoWord
        /\ at \in nodes
        /\ \A e \in above[at] : e[2] = Lev(e[1], word)
        /\ word \in nodes => at = word \/ \E d \in Nat : <<at, d>> \in above[word]

\* What has not been found is still ahead of the search.
SearchInv ==
    /\ query = NoWord => todo = {} /\ out = {} /\ rule = "none"
    /\ query # NoWord =>
         /\ \A w \in out : Lev(w, query) <= WarnDistance
         /\ \A w \in nodes : Lev(w, query) <= WarnDistance =>
               \/ w \in out \union todo
               \/ \E e \in above[w] : e[1] \in todo

RuleInv ==
    rule # "none" =>
        /\ query # NoWord /\ todo = {}
        /\ rule = "typosquat_close" <=> \E c \in out : Damerau(query, c) <= CloseDistance

TreeInv == Unlisted /\ EdgesLabelled /\ EdgesLead /\ Rooted /\ PathsDiffer /\ WalkInv
IInv == BKTypeOK /\ TreeInv /\ SearchInv /\ RuleInv

--------------------------------------------------------------------------------
LEMMA InitInv == BKInit => IInv
<1> SUFFICES ASSUME BKInit PROVE IInv
  OBVIOUS
<1>1. BKTypeOK
  BY DEF BKInit, BKTypeOK
<1>2. TreeInv
  BY DEF BKInit, TreeInv, Unlisted, EdgesLabelled, EdgesLead, Rooted, PathsDiffer, WalkInv
<1>3. SearchInv /\ RuleInv
  BY DEF BKInit, SearchInv, RuleInv
<1> QED BY <1>1, <1>2, <1>3 DEF IInv

LEMMA NextWordInv ==
  ASSUME IInv, NEW w \in Words, NextWord(w)
  PROVE  IInv'
<1> USE NoWordAssumption
<1>1. /\ UNCHANGED <<above, query, todo, out, rule>>
      /\ query = NoWord /\ word = NoWord
  BY DEF NextWord, searchVars
<1>2. BKTypeOK'
  BY <1>1 DEF IInv, BKTypeOK, NextWord, Root
<1>3. SearchInv' /\ RuleInv'
  BY <1>1 DEF IInv, SearchInv, RuleInv
<1>4. CASE nodes = {}
  <2>1. nodes' = {w} /\ word' = word
    BY <1>4 DEF NextWord
  <2>2. \A v \in Words : above[v] = {}
    BY <1>4 DEF IInv, TreeInv, Unlisted
  <2>3. Unlisted' /\ EdgesLabelled' /\ EdgesLead' /\ PathsDiffer' /\ WalkInv'
    BY <2>1, <2>2, <1>1 DEF Unlisted, EdgesLabelled, EdgesLead, PathsDiffer, WalkInv
  <2>4. Rooted'
    BY <2>1, <2>2, <1>1 DEF Rooted, Root
  <2> QED BY <2>3, <2>4, <1>2, <1>3 DEF IInv, TreeInv
<1>5. CASE nodes # {}
  <2>1. /\ nodes' = nodes /\ above' = above
        /\ word' = w /\ at' \in Root
    BY <1>5, <1>1 DEF NextWord
  <2>2. Unlisted' /\ EdgesLabelled' /\ PathsDiffer'
    BY <2>1 DEF IInv, TreeInv, Unlisted, EdgesLabelled, PathsDiffer
  <2>3. Rooted'
    BY <2>1 DEF IInv, TreeInv, Rooted, Root
  <2>4. EdgesLead'
    BY <2>1 DEF IInv, TreeInv, EdgesLead, Child
  <2>5. w \in nodes => at' = w \/ \E d \in Nat : <<at', d>> \in above[w]
    <3> SUFFICES ASSUME w \in nodes
                 PROVE  at' = w \/ \E d \in Nat : <<at', d>> \in above[w]
      OBVIOUS
    <3>1. PICK r \in Root : w = r \/ \E d \in Nat : <<r, d>> \in above[w]
      BY DEF IInv, TreeInv, Rooted
    <3>2. at' = r
      BY <2>1 DEF IInv, TreeInv, PathsDiffer, Root
    <3> QED BY <3>1, <3>2
  <2>6. WalkInv'
    BY <2>1, <2>5, <1>1 DEF WalkInv, Root
  <2> QED BY <2>2, <2>3, <2>4, <2>6, <1>2, <1>3 DEF IInv, TreeInv
<1> QED BY <1>4, <1>5

\* A walk that goes down one edge stays above its word.
LEMMA WalkOn ==
  ASSUME IInv, word # NoWord, NEW c \in Child(at, Lev(at, word)), Lev(at, word) # 0,
         at' = c, UNCHANGED <<nodes, above, word, searchVars>>
  PROVE  IInv'
<1>1. /\ word \in Words /\ at \in nodes /\ c \in nodes /\ nodes \subseteq Words
      /\ query = NoWord
      /\ above[c] = above[at] \union {<<at, Lev(at, word)>>}
  BY DEF IInv, BKTypeOK, TreeInv, WalkInv, Child
<1>2. BKTypeOK'
  BY <1>1 DEF IInv, BKTypeOK, searchVars
<1>3. \A e \in above[c] : e[2] = Lev(e[1], word)
  BY <1>1 DEF IInv, TreeInv, WalkInv
<1>4. word \in nodes => c = word \/ \E d \in Nat : <<c, d>> \in above[word]
  <2> SUFFICES ASSUME word \in nodes
               PROVE  c = word \/ \E d \in Nat : <<c, d>> \in above[word]
    OBVIOUS
  <2>1. at # word
    BY <1>1, LevAssumption
  <2>2. PICK d \in Nat : <<at, d>> \in above[word]
    BY <2>1 DEF IInv, TreeInv, WalkInv
  <2>3. d = Lev(at, word)
    BY <2>2 DEF IInv, TreeInv, EdgesLabelled
  <2>4. PICK b \in Child(at, d) : b = word \/ \E f \in Nat : <<b, f>> \in above[word]
    BY <2>2 DEF IInv, TreeInv, EdgesLead
  <2>5. b = c
    BY <2>3, <2>4, <1>1 DEF IInv, TreeInv, PathsDiffer, Child
  <2> QED BY <2>4, <2>5
<1>5. WalkInv'
  BY <1>1, <1>3, <1>4 DEF WalkInv, searchVars
<1>6. Unlisted' /\ EdgesLabelled' /\ PathsDiffer'
  BY DEF IInv, TreeInv, Unlisted, EdgesLabelled, PathsDiffer
<1>7. EdgesLead'
  BY DEF IInv, TreeInv, EdgesLead, Child
<1>8. Rooted'
  BY DEF IInv, TreeInv, Rooted, Root
<1>9. SearchInv' /\ RuleInv'
  BY DEF IInv, SearchInv, RuleInv, searchVars
<1> QED BY <1>2, <1>5, <1>6, <1>7, <1>8, <1>9 DEF IInv, TreeInv

\* A word whose edge is missing has no node yet: it gets one there.
LEMMA NewNode ==
  ASSUME IInv, word # NoWord, Lev(at, word) # 0, Child(at, Lev(at, word)) = {},
         nodes' = nodes \union {word},
         above' = [above EXCEPT ![word] = above[at] \union {<<at, Lev(at, word)>>}],
         word' = NoWord, UNCHANGED searchVars, at' = NoWord
  PROVE  IInv'
<1> DEFINE path == above[at] \union {<<at, Lev(at, word)>>}
<1>1. /\ word \in Words /\ at \in nodes /\ nodes \subseteq Words /\ query = NoWord
      /\ Lev(at, word) \in Nat
      /\ above[at] \subseteq Words \X Nat
  BY LevAssumption DEF IInv, BKTypeOK, TreeInv, WalkInv
<1>2. word \notin nodes
  <2> SUFFICES ASSUME word \in nodes PROVE FALSE
    OBVIOUS
  <2>1. at # word
    BY <1>1, LevAssumption
  <2>2. PICK d \in Nat : <<at, d>> \in above[word]
    BY <2>1 DEF IInv, TreeInv, WalkInv
  <2>3. d = Lev(at, word)
    BY <2>2 DEF IInv, TreeInv, EdgesLabelled
  <2> QED BY <2>2, <2>3 DEF IInv, TreeInv, EdgesLead
<1>3. above'[word] = path /\ \A v \in Words \ {word} : above'[v] = above[v]
  BY <1>1 DEF IInv, BKTypeOK
<1>4. BKTypeOK'
  <2>1. path \in SUBSET (Words \X Nat)
    BY <1>1
  <2>2. above' \in [Words -> SUBSET (Words \X Nat)]
    BY <2>1 DEF IInv, BKTypeOK
  <2> QED BY <1>1, <2>2 DEF IInv, BKTypeOK, searchVars
<1>5. Unlisted'
  BY <1>3 DEF IInv, TreeInv, Unlisted
<1>6. EdgesLabelled'
  <2> SUFFICES ASSUME NEW w \in nodes', NEW e \in above'[w]
               PROVE  e[1] \in nodes' /\ e[2] = Lev(e[1], w)
    BY DEF EdgesLabelled
  <2>1. CASE w = word
    BY <2>1, <1>1, <1>3 DEF IInv, TreeInv, WalkInv, EdgesLabelled
  <2>2. CASE w # word
    BY <2>2, <1>1, <1>3 DEF IInv, TreeInv, EdgesLabelled
  <2> QED BY <2>1, <2>2
<1>7. \A n \in nodes : \A d : Child(n, d) \subseteq Child(n, d)'
  BY <1>1, <1>2, <1>3 DEF Child
<1>8. EdgesLead'
  <2> SUFFICES ASSUME NEW w \in nodes', NEW e \in above'[w]
               PROVE  \E c \in Child(e[1], e[2])' : c = w \/ \E d \in Nat : <<c, d>> \in above'[w]
    BY DEF EdgesLead
  <2>1. CASE w # word
    <3>1. w \in nodes /\ e \in above[w] /\ e[1] \in nodes
      BY <2>1, <1>1, <1>3 DEF IInv, TreeInv, EdgesLabelled
    <3>2. PICK c \in Child(e[1], e[2]) : c = w \/ \E d \in Nat : <<c, d>> \in above[w]
      BY <3>1 DEF IInv, TreeInv, EdgesLead
    <3> QED BY <3>1, <3>2, <2>1, <1>1, <1>3, <1>7
  <2>2. CASE w = word /\ e \in above[at]
    <3>1. e[1] \in nodes
      BY <2>2, <1>1 DEF IInv, TreeInv, EdgesLabelled
    <3>2. PICK c \in Child(e[1], e[2]) : c = at \/ \E d \in Nat : <<c, d>> \in above[at]
      BY <2>2, <1>1 DEF IInv, TreeInv, EdgesLead
    <3> QED BY <3>1, <3>2, <2>2, <1>1, <1>3, <1>7
  <2>3. CASE w = word /\ e = <<at, Lev(at, word)>>
    <3>1. above'[at] = above[at]
      BY <1>1, <1>2, <1>3
    <3>2. word \in Child(e[1], e[2])'
      BY <2>3, <3>1, <1>3 DEF Child
    <3> QED BY <2>3, <3>2
  <2> QED BY <2>1, <2>2, <2>3, <1>3
<1>9. Rooted'
  <2>1. Root \subseteq Root'
    BY <1>1, <1>2, <1>3 DEF Root
  <2>2. ASSUME NEW w \in nodes' PROVE \E r \in Root' : w = r \/ \E d \in Nat : <<r, d>> \in above'[w]
    <3>1. CASE w # word
      BY <3>1, <2>1, <1>1, <1>3 DEF IInv, TreeInv, Rooted
    <3>2. CASE w = word
      <4>1. PICK r \in Root : at = r \/ \E d \in Nat : <<r, d>> \in above[at]
        BY <1>1 DEF IInv, TreeInv, Rooted
      <4> QED BY <4>1, <3>2, <2>1, <1>1, <1>3
    <3> QED BY <3>1, <3>2
  <2> QED BY <2>2 DEF Rooted
<1>10. PathsDiffer'
  <2>1. \A v \in nodes : above[v] # path
    BY DEF Child
  <2> QED BY <2>1, <1>1, <1>2, <1>3 DEF IInv, TreeInv, PathsDiffer
<1>11. WalkInv'
  BY DEF WalkInv
<1>12. SearchInv' /\ RuleInv'
  BY <1>1 DEF IInv, SearchInv, RuleInv, searchVars
<1> QED BY <1>4, <1>5, <1>6, <1>8, <1>9, <1>10, <1>11, <1>12 DEF IInv, TreeInv

LEMMA InsertInv == ASSUME IInv, Insert PROVE IInv'
<1>1. CASE Lev(at, word) = 0 /\ word' = NoWord /\ at' = NoWord /\ UNCHANGED <<nodes, above>>
  <2> USE <1>1 DEF Insert
  <2>1. BKTypeOK'
    BY DEF IInv, BKTypeOK, searchVars
  <2>2. Unlisted' /\ EdgesLabelled' /\ PathsDiffer' /\ WalkInv'
    BY DEF IInv, TreeInv, Unlisted, EdgesLabelled, PathsDiffer, WalkInv
  <2>3. EdgesLead'
    BY DEF IInv, TreeInv, EdgesLead, Child
  <2>4. Rooted'
    BY DEF IInv, TreeInv, Rooted, Root
  <2>5. SearchInv' /\ RuleInv'
    BY DEF IInv, SearchInv, RuleInv, searchVars
  <2> QED BY <2>1, <2>2, <2>3, <2>4, <2>5 DEF IInv, TreeInv
<1>2. CASE Lev(at, word) # 0 /\ at' \in Child(at, Lev(at, word)) /\ UNCHANGED <<nodes, above, word>>
  BY <1>2, WalkOn DEF Insert
<1>3. CASE /\ Lev(at, word) # 0 /\ Child(at, Lev(at, word)) = {}
           /\ nodes' = nodes \union {word}
           /\ above' = [above EXCEPT ![word] = above[at] \union {<<at, Lev(at, word)>>}]
           /\ word' = NoWord /\ at' = NoWord
  BY <1>3, NewNode DEF Insert
<1> QED BY <1>1, <1>2, <1>3 DEF Insert

--------------------------------------------------------------------------------
LEMMA TreeFrame == ASSUME TreeInv, UNCHANGED treeVars, word = NoWord PROVE TreeInv'
<1>1. Unlisted' /\ EdgesLabelled' /\ PathsDiffer' /\ WalkInv'
  BY DEF TreeInv, Unlisted, EdgesLabelled, PathsDiffer, WalkInv, treeVars
<1>2. EdgesLead'
  BY DEF TreeInv, EdgesLead, Child, treeVars
<1>3. Rooted'
  BY DEF TreeInv, Rooted, Root, treeVars
<1> QED BY <1>1, <1>2, <1>3 DEF TreeInv

LEMMA SearchStarts == ASSUME IInv, NEW q \in Words, Search(q) PROVE IInv'
<1>1. /\ word = NoWord /\ query = NoWord /\ query' = q /\ todo' = Root
      /\ UNCHANGED <<treeVars, out, rule>>
  BY DEF Search
<1>2. BKTypeOK'
  BY <1>1 DEF IInv, BKTypeOK, treeVars, Root
<1>3. out = {} /\ rule = "none" /\ q # NoWord
  BY <1>1, NoWordAssumption DEF IInv, SearchInv
<1>4. ASSUME NEW w \in nodes PROVE w \in Root \/ \E e \in above[w] : e[1] \in Root
  <2>1. PICK r \in Root : w = r \/ \E d \in Nat : <<r, d>> \in above[w]
    BY DEF IInv, TreeInv, Rooted
  <2>2. CASE \E d \in Nat : <<r, d>> \in above[w]
    BY <2>1, <2>2
  <2> QED BY <2>1, <2>2
<1>5. SearchInv' /\ RuleInv'
  BY <1>1, <1>3, <1>4 DEF SearchInv, RuleInv, treeVars
<1> QED BY <1>1, <1>2, <1>5, TreeFrame DEF IInv

\* The triangle inequality, twice: the edge towards a match is within the range.
LEMMA EdgeInRange ==
  ASSUME NEW n \in Words, NEW w \in Words, NEW q \in Words, Lev(w, q) <= WarnDistance
  PROVE  Lev(n, w) \in (Lev(n, q) - WarnDistance)..(Lev(n, q) + WarnDistance)
<1>1. Lev(n, w) <= Lev(n, q) + Lev(q, w) /\ Lev(n, q) <= Lev(n, w) + Lev(w, q)
  BY LevAssumption
<1>2. Lev(q, w) = Lev(w, q) /\ Lev(n, w) \in Nat /\ Lev(n, q) \in Nat /\ Lev(w, q) \in Nat
  BY LevAssumption
<1> QED BY <1>1, <1>2, DistanceAssumption

LEMMA VisitInv == ASSUME IInv, NEW n \in Words, Visit(n) PROVE IInv'
<1> DEFINE children == {c \in nodes : \E e \in (Lev(n, query) - WarnDistance)..(Lev(n, query) + WarnDistance) :
                                         c \in Child(n, e)}
<1>1. /\ n \in todo /\ todo' = (todo \ {n}) \union children
      /\ out' = IF Lev(n, query) <= WarnDistance THEN out \union {n} ELSE out
      /\ UNCHANGED <<treeVars, query, rule>>
  BY DEF Visit
<1>2. query # NoWord /\ query \in Words /\ word = NoWord /\ rule = "none" /\ nodes \subseteq Words
  BY <1>1 DEF IInv, BKTypeOK, TreeInv, WalkInv, SearchInv, RuleInv
<1>3. BKTypeOK'
  BY <1>1 DEF IInv, BKTypeOK, treeVars
<1>4. ASSUME NEW w \in nodes, Lev(w, query) <= WarnDistance
      PROVE  w \in out' \union todo' \/ \E e \in above[w] : e[1] \in todo'
  <2>1. CASE w \in out \union todo
    BY <1>1, <1>4, <2>1
  <2>2. CASE \E e \in above[w] : e[1] \in todo
    <3>1. PICK e \in above[w] : e[1] \in todo
      BY <2>2
    <3>2. CASE e[1] # n
      BY <1>1, <3>1, <3>2
    <3>3. CASE e[1] = n
      <4>1. e[2] = Lev(n, w)
        BY <3>3 DEF IInv, TreeInv, EdgesLabelled
      <4>2. e[2] \in (Lev(n, query) - WarnDistance)..(Lev(n, query) + WarnDistance)
        BY <4>1, <1>2, <1>4, EdgeInRange
      <4>3. PICK c \in Child(n, e[2]) : c = w \/ \E d \in Nat : <<c, d>> \in above[w]
        BY <3>3 DEF IInv, TreeInv, EdgesLead
      <4>4. c \in children
        BY <4>2, <4>3 DEF Child
      <4>5. c \in todo'
        BY <4>4, <1>1
      <4>6. CASE \E d \in Nat : <<c, d>> \in above[w]
        BY <4>5, <4>6
      <4> QED BY <4>3, <4>5, <4>6
    <3> QED BY <3>2, <3>3
  <2> QED BY <2>1, <2>2, <1>2, <1>4 DEF IInv, SearchInv
<1>5. \A w \in out' : Lev(w, query) <= WarnDistance
  BY <1>1, <1>2 DEF IInv, SearchInv
<1>6. SearchInv' /\ RuleInv'
  BY <1>1, <1>2, <1>4, <1>5 DEF SearchInv, RuleInv, treeVars
<1> QED BY <1>1, <1>2, <1>3, <1>6, TreeFrame DEF IInv

LEMMA CheckInv == ASSUME IInv, Check PROVE IInv'
<1>1. /\ query # NoWord /\ todo = {} /\ word = NoWord
      /\ UNCHANGED <<treeVars, query, todo, out>>
  BY DEF Check, IInv, TreeInv, WalkInv
<1>2. BKTypeOK'
  BY <1>1 DEF IInv, BKTypeOK, Check, treeVars
<1>3. SearchInv'
  BY <1>1 DEF IInv, SearchInv, treeVars
<1>4. RuleInv'
  BY <1>1 DEF RuleInv, Check
<1> QED BY <1>1, <1>2, <1>3, <1>4, TreeFrame DEF IInv

LEMMA StepInv == ASSUME IInv, [BKNext]_bkVars PROVE IInv'
<1>1. CASE BKNext
  BY <1>1, NextWordInv, InsertInv, SearchStarts, VisitInv, CheckInv DEF BKNext
<1>2. CASE UNCHANGED bkVars
  <2> USE <1>2 DEF bkVars, treeVars, searchVars
  <2>1. BKTypeOK' /\ SearchInv' /\ RuleInv'
    BY DEF IInv, BKTypeOK, SearchInv, RuleInv
  <2>2. Unlisted' /\ EdgesLabelled' /\ PathsDiffer' /\ WalkInv'
    BY DEF IInv, TreeInv, Unlisted, EdgesLabelled, PathsDiffer, WalkInv
  <2>3. EdgesLead'
    BY DEF IInv, TreeInv, EdgesLead, Child
  <2>4. Rooted'
    BY DEF IInv, TreeInv, Rooted, Root
  <2> QED BY <2>1, <2>2, <2>3, <2>4 DEF IInv, TreeInv
<1> QED BY <1>1, <1>2

LEMMA FoundAll == ASSUME IInv PROVE SearchComplete
<1> SUFFICES ASSUME query # NoWord, todo = {}
             PROVE  out = {w \in nodes : Lev(w, query) <= WarnDistance}
  BY DEF SearchComplete
<1>1. out \subseteq nodes /\ \A w \in out : Lev(w, query) <= WarnDistance
  BY DEF IInv, BKTypeOK, SearchInv
<1>2. \A w \in nodes : Lev(w, query) <= WarnDistance => w \in out
  BY DEF IInv, SearchInv
<1> QED BY <1>1, <1>2

LEMMA CloseFound == ASSUME IInv PROVE CloseMatchFound
<1> SUFFICES ASSUME rule # "none", 2 * CloseDistance <= WarnDistance
             PROVE  rule = "typosquat_close" <=> \E w \in nodes : Damerau(query, w) <= CloseDistance
  BY DEF CloseMatchFound
<1>1. /\ query \in Words /\ nodes \subseteq Words /\ out \subseteq nodes
      /\ rule = "typosquat_close" <=> \E c \in out : Damerau(query, c) <= CloseDistance
      /\ out = {w \in nodes : Lev(w, query) <= WarnDistance}
  BY FoundAll DEF IInv, BKTypeOK, RuleInv, SearchComplete
<1>2. ASSUME NEW w \in nodes, Damerau(query, w) <= CloseDistance PROVE w \in out
  <2>1. Lev(query, w) <= 2 * Damerau(query, w) /\ Damerau(query, w) \in Nat
    BY <1>1, DamerauAssumption
  <2>2. Lev(w, query) = Lev(query, w) /\ Lev(query, w) \in Nat
    BY <1>1, LevAssumption
  <2> QED BY <1>1, <1>2, <2>1, <2>2, DistanceAssumption
<1> QED BY <1>1, <1>2

\* Whatever the metric and the order of insertion, the pruned search returns
\* exactly the words within the tolerance (bktree.go search).
THEOREM SearchIsComplete == BKSpec => []SearchComplete
<1>1. IInv /\ [BKNext]_bkVars => IInv'
  BY StepInv
<1>2. IInv => SearchComplete
  BY FoundAll
<1> QED BY InitInv, <1>1, <1>2, PTL DEF BKSpec

\* With a tolerance of twice the close distance the search by Levenshtein misses
\* no close match by Damerau (typosquatting.go Check).
THEOREM CloseIsFound == BKSpec => []CloseMatchFound
<1>1. IInv /\ [BKNext]_bkVars => IInv'
  BY StepInv
<1>2. IInv => CloseMatchFound
  BY CloseFound
<1> QED BY InitInv, <1>1, <1>2, PTL DEF BKSpec

--------------------------------------------------------------------------------
\* One edit or swap is at most one of damerauLevenshtein.

\* What the tables of both distances have in common.
Bounded(d, a, b) ==
    \A i \in 0..Len(a), j \in 0..Len(b) :
      /\ d[i][j] \in Nat
      /\ i = 0 => d[i][j] = j
      /\ j = 0 => d[i][j] = i
      /\ i # 0 /\ j # 0 =>
           /\ d[i][j] <= d[i][j - 1] + 1
           /\ d[i][j] <= d[i - 1][j] + 1
           /\ d[i][j] <= d[i - 1][j - 1] + Cost(a, b, i, j)

LEMMA TablesBounded ==
    ASSUME NEW C, NEW a \in Seq(C), NEW b \in Seq(C), NEW d, LevTable(d, a, b) \/ OsaTable(d, a, b)
    PROVE  Bounded(d, a, b)
<1>1. CASE LevTable(d, a, b)
  BY <1>1, LevCell DEF Bounded
<1>2. CASE OsaTable(d, a, b)
  BY <1>2, OsaCell DEF Bounded
<1> QED
  BY <1>1, <1>2

\* Along a diagonal on which the words agree the table does not grow.
LEMMA Diagonal ==
    ASSUME NEW C, NEW a \in Seq(C), NEW b \in Seq(C), NEW d, Bounded(d, a, b),
           NEW i \in 0..Len(a), NEW j \in 0..Len(b), NEW r \in Nat, d[i][j] <= r,
           NEW k \in Nat, i + k <= Len(a), j + k <= Len(b),
           \A t \in 1..k : a[i + t] = b[j + t]
    PROVE  d[i + k][j + k] <= r
<1> DEFINE S == {l \in Nat : l <= k => d[i + l][j + l] <= r}
<1>1. ASSUME NEW l \in Nat, \A m \in Nat : m < l => m \in S
      PROVE  l \in S
  <2> SUFFICES ASSUME l <= k PROVE d[i + l][j + l] <= r
    OBVIOUS
  <2>1. CASE l = 0
    BY <2>1
  <2>2. CASE l # 0
    <3> DEFINE p == i + l
               q == j + l
               x == d[p][q]
               y == d[p - 1][q - 1]
    <3>1. p \in 1..Len(a) /\ q \in 1..Len(b) /\ l - 1 \in Nat /\ l - 1 < l /\ l \in 1..k
      BY <2>2
    <3>2. l - 1 \in S
      <4> HIDE DEF S
      <4> QED
        BY <1>1, <3>1
    <3>3. p - 1 = i + (l - 1) /\ q - 1 = j + (l - 1)
      OBVIOUS
    <3>4. y <= r
      BY <3>1, <3>2, <3>3
    <3>5. Cost(a, b, p, q) = 0
      BY <3>1 DEF Cost
    <3>6. p \in 0..Len(a) /\ q \in 0..Len(b) /\ p # 0 /\ q # 0
      BY <3>1
    <3>7. x <= y + Cost(a, b, p, q)
      <4> HIDE DEF p, q
      <4> QED
        BY <3>6 DEF Bounded
    <3>8. p - 1 \in 0..Len(a) /\ q - 1 \in 0..Len(b)
      <4> HIDE DEF p, q
      <4> QED
        BY <3>1
    <3>9. x \in Nat /\ y \in Nat
      <4> HIDE DEF p, q
      <4> QED
        BY <3>6, <3>8 DEF Bounded
    <3> HIDE DEF x, y
    <3>10. x <= r
      BY <3>4, <3>5, <3>7, <3>9
    <3> QED
      BY <3>10 DEF x
  <2> QED
    BY <2>1, <2>2
<1>2. \A l \in Nat : l \in S
  <2> HIDE DEF S
  <2> QED
    BY <1>1, InductionOn
<1> QED
  BY <1>2

\* a is b but for x characters after the first p, which stand for y of b's.
OneStep(a, b, p, x, y) ==
    /\ p + x <= Len(a) /\ p + y <= Len(b) /\ Len(a) - x = Len(b) - y
    /\ \A t \in 1..p : a[t] = b[t]
    /\ \A t \in 1..(Len(a) - x - p) : a[p + x + t] = b[p + y + t]
    /\ \/ x \in {0, 1} /\ y \in {0, 1}
       \/ x = 2 /\ y = 2 /\ a[p + 1] = b[p + 2] /\ a[p + 2] = b[p + 1]

LEMMA OneStepCell ==
    ASSUME NEW C, NEW a \in Seq(C), NEW b \in Seq(C),
           NEW p \in Nat, NEW x \in 0..2, NEW y \in 0..2, OneStep(a, b, p, x, y),
           NEW d, Bounded(d, a, b), x = 2 => OsaTable(d, a, b)
    PROVE  d[Len(a)][Len(b)] <= 1
<1>1. Bounded(d, a, b)
  OBVIOUS
<1>2. /\ p + x <= Len(a) /\ p + y <= Len(b) /\ Len(a) - x = Len(b) - y
      /\ \A t \in 1..p : a[t] = b[t]
      /\ \A t \in 1..(Len(a) - x - p) : a[p + x + t] = b[p + y + t]
  BY DEF OneStep
<1>3. p \in 0..Len(a) /\ p \in 0..Len(b) /\ Len(a) \in Nat /\ Len(b) \in Nat
  BY <1>2
<1>4. d[p][p] <= 0
  <2>1. 0 \in 0..Len(a) /\ 0 \in 0..Len(b) /\ d[0][0] <= 0
    <3>1. 0 \in 0..Len(a) /\ 0 \in 0..Len(b)
      BY <1>3
    <3>2. d[0][0] = 0
      BY <1>1, <3>1 DEF Bounded
    <3> QED
      BY <3>1, <3>2
  <2>2. 0 + p <= Len(a) /\ 0 + p <= Len(b) /\ \A t \in 1..p : a[0 + t] = b[0 + t]
    BY <1>2, <1>3
  <2>3. d[0 + p][0 + p] <= 0
    BY <1>1, <2>1, <2>2, Diagonal
  <2> QED
    BY <2>3
<1> DEFINE u == p + x
           v == p + y
<1>5. u \in 0..Len(a) /\ v \in 0..Len(b)
  BY <1>2
<1>6. d[u][v] <= 1
  <2>1. d[p][p] \in Nat
    BY <1>1, <1>3 DEF Bounded
  <2>2. d[p][p] = 0
    BY <1>4, <2>1
  <2>3. CASE x = 0 /\ y = 0
    BY <2>2, <2>3
  <2>4. CASE x = 0 /\ y = 1
    <3>1. u = p /\ v \in 0..Len(b) /\ v # 0 /\ v - 1 = p
      BY <1>5, <2>4
    <3>2. CASE p = 0
      <4>1. u = 0 /\ v = 1
        BY <2>4, <3>2
      <4>2. d[u][v] = v
        BY <1>1, <1>5, <4>1 DEF Bounded
      <4> QED
        BY <4>1, <4>2
    <3>3. CASE p # 0
      <4>1. d[p][v] <= d[p][v - 1] + 1
        <5> HIDE DEF v
        <5> QED
          BY <1>1, <1>3, <3>1, <3>3 DEF Bounded
      <4> QED
        BY <2>2, <3>1, <4>1
    <3> QED
      BY <3>2, <3>3
  <2>5. CASE x = 1 /\ y = 0
    <3>1. v = p /\ u \in 0..Len(a) /\ u # 0 /\ u - 1 = p
      BY <1>5, <2>5
    <3>2. CASE p = 0
      <4>1. u = 1 /\ v = 0
        BY <2>5, <3>2
      <4>2. d[u][v] = u
        BY <1>1, <1>5, <4>1 DEF Bounded
      <4> QED
        BY <4>1, <4>2
    <3>3. CASE p # 0
      <4>1. d[u][p] <= d[u - 1][p] + 1
        <5> HIDE DEF u
        <5> QED
          BY <1>1, <1>3, <3>1, <3>3 DEF Bounded
      <4> QED
        BY <2>2, <3>1, <4>1
    <3> QED
      BY <3>2, <3>3
  <2>6. CASE x = 1 /\ y = 1
    <3>1. u # 0 /\ v # 0 /\ u - 1 = p /\ v - 1 = p
      BY <2>6
    <3>2. d[u][v] <= d[u - 1][v - 1] + Cost(a, b, u, v)
      <4> HIDE DEF u, v
      <4> QED
        BY <1>1, <1>5, <3>1 DEF Bounded
    <3>3. Cost(a, b, u, v) <= 1
      BY DEF Cost
    <3>4. Cost(a, b, u, v) \in Nat /\ d[u][v] \in Nat
      <4> HIDE DEF u, v
      <4> QED
        BY <1>1, <1>5 DEF Bounded, Cost
    <3> QED
      BY <2>2, <3>1, <3>2, <3>3, <3>4
  <2>7. CASE x = 2 /\ y = 2
    <3>1. u # 0 /\ v # 0 /\ u - 2 = p /\ v - 2 = p /\ u - 1 = p + 1 /\ v - 1 = p + 1 /\ u = p + 2 /\ v = p + 2
      BY <2>7
    <3>2. Swapped(a, b, u, v)
      BY <2>7, <3>1 DEF Swapped, OneStep
    <3>3. d[u][v] <= d[u - 2][v - 2] + 1
      <4> HIDE DEF u, v
      <4> QED
        BY <1>5, <2>7, <3>1, <3>2, OsaCell
    <3> QED
      BY <2>2, <3>1, <3>3
  <2> QED
    BY <2>3, <2>4, <2>5, <2>6, <2>7 DEF OneStep
<1> DEFINE k == Len(a) - u
<1>7. /\ k \in Nat /\ u + k <= Len(a) /\ v + k <= Len(b)
      /\ u + k = Len(a) /\ v + k = Len(b)
      /\ \A t \in 1..k : a[u + t] = b[v + t]
  <2>1. /\ k \in Nat /\ u + k <= Len(a) /\ v + k <= Len(b)
        /\ u + k = Len(a) /\ v + k = Len(b) /\ k = Len(a) - x - p
    BY <1>2, <1>3
  <2> HIDE DEF k
  <2>2. \A t \in 1..k : a[u + t] = b[v + t]
    BY <1>2, <2>1
  <2> QED
    BY <2>1, <2>2
<1> HIDE DEF u, v, k
<1>8. d[u + k][v + k] <= 1
  BY <1>1, <1>5, <1>6, <1>7, Diagonal
<1> QED
  BY <1>1, <1>7, <1>8

LEMMA OneStepCosts ==
    ASSUME NEW C, NEW a \in Seq(C), NEW b \in Seq(C),
           NEW p \in Nat, NEW x \in 0..2, NEW y \in 0..2, OneStep(a, b, p, x, y)
    PROVE  damerauLevenshtein(a, b) <= 1 /\ (x # 2 => levenshtein(a, b) <= 1)
<1>1. PICK d : OsaTable(d, a, b) /\ damerauLevenshtein(a, b) = d[Len(a)][Len(b)]
  BY DamerauTable
<1>2. PICK l : LevTable(l, a, b) /\ levenshtein(a, b) = l[Len(a)][Len(b)]
  BY LevenshteinTable
<1>3. Bounded(d, a, b) /\ Bounded(l, a, b)
  BY <1>1, <1>2, TablesBounded
<1>4. d[Len(a)][Len(b)] <= 1
  BY <1>1, <1>3, OneStepCell
<1>5. x # 2 => l[Len(a)][Len(b)] <= 1
  BY <1>3, OneStepCell
<1> QED
  BY <1>1, <1>2, <1>4, <1>5

LEMMA SameDomain ==
    ASSUME NEW C, NEW v \in Seq(C), NEW w \in Seq(C), DOMAIN v = DOMAIN w
    PROVE  Len(v) = Len(w)
<1> DEFINE m == Len(v)
           n == Len(w)
<1>1. 1..m = 1..n /\ m \in Nat /\ n \in Nat
  OBVIOUS
<1> HIDE DEF m, n
<1>2. ~(m < n)
  <2> SUFFICES ASSUME m < n PROVE FALSE
    OBVIOUS
  <2>1. n \in 1..n /\ n \notin 1..m
    BY <1>1
  <2> QED
    BY <1>1, <2>1
<1>3. ~(n < m)
  <2> SUFFICES ASSUME n < m PROVE FALSE
    OBVIOUS
  <2>1. m \in 1..m /\ m \notin 1..n
    BY <1>1
  <2> QED
    BY <1>1, <2>1
<1>4. m = n
  BY <1>1, <1>2, <1>3
<1> QED
  BY <1>4 DEF m, n

LEMMA Joined ==
    ASSUME NEW D, NEW s \in Seq(D), NEW t \in Seq(D)
    PROVE  /\ s \o t \in Seq(D) /\ Len(s \o t) = Len(s) + Len(t)
           /\ \A k \in 1..(Len(s) + Len(t)) : (s \o t)[k] = IF k <= Len(s) THEN s[k] ELSE t[k - Len(s)]
OBVIOUS

LEMMA CutOut ==
    ASSUME NEW D, NEW w \in Seq(D), NEW m \in 1..(Len(w) + 1), NEW n \in (m - 1)..Len(w)
    PROVE  /\ SubSeq(w, m, n) \in Seq(D) /\ Len(SubSeq(w, m, n)) = n - m + 1
           /\ \A k \in 1..(n - m + 1) : SubSeq(w, m, n)[k] = w[m + k - 1]
OBVIOUS

LEMMA TailIndex ==
    ASSUME NEW n \in Nat, NEW i \in 1..n, NEW t \in 1..(n - i), NEW p, NEW q, p = i - 1, q = n - i
    PROVE  (i - 1) + t \in 1..(p + q) /\ ~((i - 1) + t <= p) /\ (i - 1) + t - p = t
OBVIOUS

\* An edit or a swap of a word, character by character.
LEMMA RemoveStep ==
    ASSUME NEW C, NEW w \in Seq(C), NEW i \in DOMAIN w, NEW v, v = RemoveAt(w, i)
    PROVE  v \in Seq(C) /\ OneStep(v, w, i - 1, 0, 1) /\ i - 1 \in Nat
<1>1. i \in 1..Len(w)
  OBVIOUS
<1>2. v = SubSeq(w, 1, i - 1) \o SubSeq(w, i + 1, Len(w))
  BY DEF RemoveAt
<1> DEFINE s == SubSeq(w, 1, i - 1)
           t1 == SubSeq(w, i + 1, Len(w))
<1>3. /\ s \in Seq(C) /\ Len(s) = i - 1
      /\ \A k \in 1..(i - 1) : s[k] = w[k]
  BY <1>1, CutOut
<1>4. /\ t1 \in Seq(C) /\ Len(t1) = Len(w) - i
      /\ \A k \in 1..(Len(w) - i) : t1[k] = w[i + k]
  <2>1. i + 1 \in 1..(Len(w) + 1) /\ Len(w) \in i..Len(w) /\ Len(w) \in ((i + 1) - 1)..Len(w)
    BY <1>1
  <2>2. /\ t1 \in Seq(C) /\ Len(t1) = Len(w) - (i + 1) + 1
        /\ \A k \in 1..(Len(w) - (i + 1) + 1) : t1[k] = w[(i + 1) + k - 1]
    BY <2>1, CutOut
  <2> QED
    BY <1>1, <2>2
<1>5. v = s \o t1
  BY <1>2
<1> HIDE DEF s, t1
<1>6. /\ v \in Seq(C) /\ Len(v) = Len(s) + Len(t1)
      /\ \A k \in 1..(Len(s) + Len(t1)) : v[k] = IF k <= Len(s) THEN s[k] ELSE t1[k - Len(s)]
  <2>1. s \in Seq(C) /\ t1 \in Seq(C)
    BY <1>3, <1>4
  <2> QED
    BY <1>5, <2>1, Joined
<1>7. Len(v) = Len(w) - 1
  <2>1. Len(v) = Len(s) + Len(t1)
    BY <1>6
  <2>2. Len(s) = i - 1 /\ Len(t1) = Len(w) - i
    BY <1>3, <1>4
  <2> QED
    BY <1>1, <2>1, <2>2
<1>8. /\ (i - 1) + 0 <= Len(v) /\ (i - 1) + 1 <= Len(w) /\ Len(v) - 0 = Len(w) - 1 /\ i - 1 \in Nat
      /\ \A t \in 1..(i - 1) : v[t] = w[t]
  <2>1. \A t \in 1..(i - 1) : v[t] = s[t]
    <3>1. \A t \in 1..(i - 1) : t \in 1..(Len(s) + Len(t1)) /\ t <= Len(s)
      BY <1>1, <1>3, <1>4
    <3> QED
      BY <1>6, <3>1
  <2>2. \A t \in 1..(i - 1) : v[t] = w[t]
    BY <1>3, <2>1
  <2>3. (i - 1) + 0 <= Len(v) /\ (i - 1) + 1 <= Len(w) /\ Len(v) - 0 = Len(w) - 1 /\ i - 1 \in Nat
    BY <1>1, <1>7
  <2> QED
    BY <2>2, <2>3
<1>9. \A t \in 1..(Len(v) - 0 - (i - 1)) : v[(i - 1) + 0 + t] = w[(i - 1) + 1 + t]
  <2> SUFFICES ASSUME NEW t \in 1..(Len(v) - 0 - (i - 1))
               PROVE  v[(i - 1) + 0 + t] = w[(i - 1) + 1 + t]
    OBVIOUS
  <2>3. t \in 1..(Len(w) - i) /\ (i - 1) + 0 + t = (i - 1) + t /\ (i - 1) + 1 + t = i + t
    BY <1>1, <1>7
  <2>1. (i - 1) + t \in 1..(Len(s) + Len(t1)) /\ ~((i - 1) + t <= Len(s)) /\ (i - 1) + t - Len(s) = t
    <3>1. Len(s) = i - 1 /\ Len(t1) = Len(w) - i /\ i \in 1..Len(w) /\ Len(w) \in Nat
      BY <1>1, <1>3, <1>4
    <3>2. t \in 1..(Len(w) - i)
      BY <2>3
    <3> QED
      BY <3>1, <3>2, TailIndex
  <2>2. v[(i - 1) + t] = t1[t]
    BY <1>6, <2>1
  <2> QED
    BY <1>4, <2>2, <2>3
<1> QED
  BY <1>6, <1>8, <1>9 DEF OneStep

LEMMA ReplaceStep ==
    ASSUME NEW C, NEW w \in Seq(C), NEW i \in DOMAIN w, NEW c \in C, NEW v, v = ReplaceAt(w, i, c)
    PROVE  v \in Seq(C) /\ v[i] = c /\ OneStep(v, w, i - 1, 1, 1) /\ i - 1 \in Nat
<1>1. i \in 1..Len(w)
  OBVIOUS
<1>2. v = [w EXCEPT ![i] = c]
  BY DEF ReplaceAt
<1>3. v \in Seq(C) /\ Len(v) = Len(w) /\ v[i] = c
  <2>1. v \in Seq(C) /\ v[i] = c
    BY <1>1, <1>2
  <2>2. DOMAIN v = DOMAIN w
    BY <1>2
  <2>3. Len(v) = Len(w)
    BY <2>1, <2>2, SameDomain
  <2> QED
    BY <2>1, <2>3
<1>4. \A t \in 1..Len(w) : t # i => v[t] = w[t]
  BY <1>2
<1>5. /\ (i - 1) + 1 <= Len(v) /\ (i - 1) + 1 <= Len(w) /\ Len(v) - 1 = Len(w) - 1 /\ i - 1 \in Nat
      /\ \A t \in 1..(i - 1) : v[t] = w[t]
  BY <1>1, <1>3, <1>4
<1>6. \A t \in 1..(Len(v) - 1 - (i - 1)) : v[(i - 1) + 1 + t] = w[(i - 1) + 1 + t]
  <2> SUFFICES ASSUME NEW t \in 1..(Len(v) - 1 - (i - 1))
               PROVE  v[(i - 1) + 1 + t] = w[(i - 1) + 1 + t]
    OBVIOUS
  <2>1. (i - 1) + 1 + t \in 1..Len(w) /\ (i - 1) + 1 + t # i
    BY <1>1, <1>3
  <2> QED
    BY <1>4, <2>1
<1> QED
  BY <1>3, <1>5, <1>6 DEF OneStep

LEMMA InsertStep ==
    ASSUME NEW C, NEW w \in Seq(C), NEW i \in 1..(Len(w) + 1), NEW c \in C, NEW v, v = InsertAt(w, i, c)
    PROVE  v \in Seq(C) /\ v[i] = c /\ OneStep(v, w, i - 1, 1, 0) /\ i - 1 \in Nat
<1>1. v = SubSeq(w, 1, i - 1) \o <<c>> \o SubSeq(w, i, Len(w))
  BY DEF InsertAt
<1> DEFINE s == SubSeq(w, 1, i - 1)
           t1 == SubSeq(w, i, Len(w))
<1>2. /\ s \in Seq(C) /\ Len(s) = i - 1
      /\ \A k \in 1..(i - 1) : s[k] = w[k]
  BY CutOut
<1>3. /\ t1 \in Seq(C) /\ Len(t1) = Len(w) - i + 1
      /\ \A k \in 1..(Len(w) - i + 1) : t1[k] = w[i + k - 1]
  <2>1. Len(w) \in (i - 1)..Len(w)
    OBVIOUS
  <2> QED
    BY <2>1, CutOut
<1> DEFINE h == s \o <<c>>
<1>4. v = h \o t1
  BY <1>1
<1> HIDE DEF s, t1
<1>5. s \in Seq(C) /\ t1 \in Seq(C) /\ <<c>> \in Seq(C) /\ Len(<<c>>) = 1
  BY <1>2, <1>3
<1>6. /\ h \in Seq(C) /\ Len(h) = Len(s) + Len(<<c>>)
      /\ \A k \in 1..(Len(s) + Len(<<c>>)) : h[k] = IF k <= Len(s) THEN s[k] ELSE (<<c>>)[k - Len(s)]
  BY <1>5, Joined
<1>7. Len(h) = i /\ h[i] = c /\ \A k \in 1..(i - 1) : h[k] = w[k]
  <2>1. Len(h) = i
    BY <1>2, <1>5, <1>6
  <2>2. \A k \in 1..(i - 1) : h[k] = s[k]
    BY <1>2, <1>5, <1>6
  <2>3. h[i] = c
    BY <1>2, <1>5, <1>6
  <2> QED
    BY <1>2, <2>1, <2>2, <2>3
<1> HIDE DEF h
<1>8. /\ v \in Seq(C) /\ Len(v) = Len(h) + Len(t1)
      /\ \A k \in 1..(Len(h) + Len(t1)) : v[k] = IF k <= Len(h) THEN h[k] ELSE t1[k - Len(h)]
  <2>1. h \in Seq(C) /\ t1 \in Seq(C)
    BY <1>5, <1>6
  <2> QED
    BY <1>4, <2>1, Joined
<1>9. Len(v) = Len(w) + 1
  BY <1>3, <1>7, <1>8
<1>10. /\ (i - 1) + 1 <= Len(v) /\ (i - 1) + 0 <= Len(w) /\ Len(v) - 1 = Len(w) - 0 /\ i - 1 \in Nat
       /\ \A t \in 1..(i - 1) : v[t] = w[t]
  <2>1. \A t \in 1..(i - 1) : v[t] = h[t]
    BY <1>3, <1>7, <1>8
  <2>2. \A t \in 1..(i - 1) : v[t] = w[t]
    BY <1>7, <2>1
  <2>3. (i - 1) + 1 <= Len(v) /\ (i - 1) + 0 <= Len(w) /\ Len(v) - 1 = Len(w) - 0 /\ i - 1 \in Nat
    BY <1>9
  <2> QED
    BY <2>2, <2>3
<1>11. \A t \in 1..(Len(v) - 1 - (i - 1)) : v[(i - 1) + 1 + t] = w[(i - 1) + 0 + t]
  <2> SUFFICES ASSUME NEW t \in 1..(Len(v) - 1 - (i - 1))
               PROVE  v[(i - 1) + 1 + t] = w[(i - 1) + 0 + t]
    OBVIOUS
  <2>3. t \in 1..(Len(w) - i + 1) /\ (i - 1) + 1 + t = i + t /\ (i - 1) + 0 + t = i + t - 1
    BY <1>9
  <2>1. i + t \in 1..(Len(h) + Len(t1)) /\ ~(i + t <= Len(h)) /\ i + t - Len(h) = t
    BY <1>3, <1>7, <2>3
  <2>2. v[i + t] = t1[t]
    BY <1>8, <2>1
  <2> QED
    BY <1>3, <2>2, <2>3
<1>12. v[i] = c
  BY <1>3, <1>7, <1>8
<1> QED
  BY <1>8, <1>10, <1>11, <1>12 DEF OneStep

LEMMA SwapStep ==
    ASSUME NEW C, NEW w \in Seq(C), NEW i \in 1..(Len(w) - 1), NEW v,
           v = [w EXCEPT ![i] = w[i + 1], ![i + 1] = w[i]]
    PROVE  v \in Seq(C) /\ OneStep(v, w, i - 1, 2, 2) /\ i - 1 \in Nat
<1>1. /\ Len(v) = Len(w) /\ v[i] = w[i + 1] /\ v[i + 1] = w[i]
      /\ \A t \in 1..Len(v) : t # i /\ t # i + 1 => v[t] = w[t]
  OBVIOUS
<1>2. v \in Seq(C)
  OBVIOUS
<1> QED
  BY <1>1, <1>2 DEF OneStep

LEMMA EditShape ==
    ASSUME NEW C, Letters \subseteq C, NEW w \in Seq(C), NEW v \in Edits(w)
    PROVE  v \in Seq(C) /\ \E p \in Nat, x \in 0..1, y \in 0..1 : OneStep(v, w, p, x, y)
<1>1. \/ \E i \in DOMAIN w : v = RemoveAt(w, i)
      \/ \E i \in DOMAIN w, c \in Letters : v = ReplaceAt(w, i, c)
      \/ \E i \in 1..(Len(w) + 1), c \in Letters : v = InsertAt(w, i, c)
  BY DEF Edits
<1>2. 0 \in 0..1 /\ 1 \in 0..1 /\ \A c \in Letters : c \in C
  OBVIOUS
<1>3. CASE \E i \in DOMAIN w : v = RemoveAt(w, i)
  <2>1. \E i \in DOMAIN w : v \in Seq(C) /\ OneStep(v, w, i - 1, 0, 1) /\ i - 1 \in Nat
    BY <1>3, RemoveStep
  <2> QED
    BY <1>2, <2>1, Zenon
<1>4. CASE \E i \in DOMAIN w, c \in Letters : v = ReplaceAt(w, i, c)
  <2>1. \E i \in DOMAIN w : v \in Seq(C) /\ OneStep(v, w, i - 1, 1, 1) /\ i - 1 \in Nat
    BY <1>2, <1>4, ReplaceStep
  <2> QED
    BY <1>2, <2>1, Zenon
<1>5. CASE \E i \in 1..(Len(w) + 1), c \in Letters : v = InsertAt(w, i, c)
  <2>1. \E i \in 1..(Len(w) + 1) : v \in Seq(C) /\ OneStep(v, w, i - 1, 1, 0) /\ i - 1 \in Nat
    BY <1>2, <1>5, InsertStep
  <2> QED
    BY <1>2, <2>1, Zenon
<1> QED
  BY <1>1, <1>3, <1>4, <1>5

LEMMA SwapShape ==
    ASSUME NEW C, NEW w \in Seq(C), NEW v \in Swaps(w)
    PROVE  v \in Seq(C) /\ \E p \in Nat : OneStep(v, w, p, 2, 2)
<1>1. PICK i \in 1..(Len(w) - 1) : v = [w EXCEPT ![i] = w[i + 1], ![i + 1] = w[i]]
  BY DEF Swaps
<1> QED
  BY <1>1, SwapStep

LEMMA OneEditIsClose ==
    ASSUME NEW C, NEW v \in Seq(C), NEW w \in Seq(C), v \in OneEditOf(w)
    PROVE  /\ v # w /\ damerauLevenshtein(v, w) \in Nat
           /\ damerauLevenshtein(v, w) = 1
           /\ Len(v) - Len(w) \in (0 - 1)..1
<1> DEFINE D == C \union Letters
<1>6. v \in Edits(w) \union Swaps(w) /\ v # w
  BY DEF OneEditOf, Within
<1>7. w \in Seq(D) /\ Letters \subseteq D
  OBVIOUS
<1>1. PICK p \in Nat, x \in 0..2, y \in 0..2 : OneStep(v, w, p, x, y)
  <2>1. CASE v \in Edits(w)
    <3>1. \E p \in Nat, x \in 0..1, y \in 0..1 : OneStep(v, w, p, x, y)
      <4> HIDE DEF D
      <4> QED
        BY <1>7, <2>1, EditShape
    <3>2. \A x \in 0..1 : x \in 0..2
      OBVIOUS
    <3> QED
      BY <3>1, <3>2, Zenon
  <2>2. CASE v \in Swaps(w)
    <3>1. 2 \in 0..2
      OBVIOUS
    <3> QED
      BY <2>2, <3>1, SwapShape, Zenon
  <2> QED
    BY <1>6, <2>1, <2>2
<1>2. damerauLevenshtein(v, w) <= 1
  BY <1>1, OneStepCosts
<1>3. v # w
  BY <1>6
<1>4. damerauLevenshtein(v, w) \in Nat /\ damerauLevenshtein(v, w) # 0
  BY <1>3, DamerauAgainstLevenshtein
<1>5. Len(v) - Len(w) \in (0 - 1)..1
  <2>1. Len(v) - x = Len(w) - y /\ x - y \in (0 - 1)..1 /\ Len(v) \in Nat /\ Len(w) \in Nat
    BY <1>1 DEF OneStep
  <2> QED
    BY <2>1
<1> QED
  BY <1>2, <1>3, <1>4, <1>5

\* A name in look-alike characters is the popular name once they are put back.
LEMMA LooksLikeIs ==
    ASSUME NEW C, NEW v \in Seq(C), NEW w \in Seq(C), LooksLike(v, w),
           Range(w) \intersect DOMAIN asciiHomoglyphs = {}
    PROVE  deHomoglyph(v) = w
<1> DEFINE H == asciiHomoglyphs
<1> HIDE DEF H
<1>1. DOMAIN v = DOMAIN w
  BY DEF LooksLike
<1>2. \A i \in DOMAIN v : v[i] = w[i] \/ (v[i] \in DOMAIN H /\ H[v[i]] = w[i])
  BY DEF LooksLike, H
<1>3. \A i \in DOMAIN w : w[i] \notin DOMAIN H
  BY DEF Range, H
<1>4. \A i \in DOMAIN v : (IF v[i] \in DOMAIN H THEN H[v[i]] ELSE v[i]) = w[i]
  BY <1>1, <1>2, <1>3
<1>5. deHomoglyph(v) = [i \in DOMAIN v |-> IF v[i] \in DOMAIN H THEN H[v[i]] ELSE v[i]]
  BY DEF deHomoglyph, H
<1>6. [i \in DOMAIN v |-> IF v[i] \in DOMAIN H THEN H[v[i]] ELSE v[i]] = [i \in DOMAIN w |-> w[i]]
  BY <1>1, <1>4
<1>7. w = [i \in DOMAIN w |-> w[i]]
  OBVIOUS
<1> QED
  BY <1>5, <1>6, <1>7

--------------------------------------------------------------------------------
\* Segments.

IsSegment(v, lo, hi) ==
    /\ lo \in DOMAIN v /\ hi \in DOMAIN v /\ lo <= hi
    /\ \A k \in lo..hi : v[k] \notin CompoundSeps
    /\ lo = 1 \/ v[lo - 1] \in CompoundSeps
    /\ hi = Len(v) \/ v[hi + 1] \in CompoundSeps

\* A character that is no separator lies in a segment.
LEMMA SegmentAround ==
    ASSUME NEW C, NEW v \in Seq(C), NEW i \in DOMAIN v, v[i] \notin CompoundSeps
    PROVE  \E lo \in DOMAIN v, hi \in DOMAIN v : lo <= i /\ i <= hi /\ IsSegment(v, lo, hi)
<1> DEFINE n == Len(v)
           Stop(k) == v[k] \in CompoundSeps
           R == {h \in Nat : i <= h /\ h <= n /\ (h = n \/ Stop(h + 1))}
           L == {m \in Nat : m < i /\ (i - m = 1 \/ Stop((i - m) - 1))}
<1>1. i \in 1..n /\ n \in Nat /\ DOMAIN v = 1..n /\ ~Stop(i)
  OBVIOUS
<1> HIDE DEF Stop, n
<1>2. n \in R /\ i - 1 \in L
  <2>1. i - 1 \in Nat /\ i - (i - 1) = 1 /\ i - 1 < i
    BY <1>1
  <2> QED
    BY <1>1, <2>1
<1>3. PICK h \in R : \A m \in R : h <= m
  <2>1. R \in SUBSET Nat /\ R # {}
    BY <1>2
  <2> HIDE DEF R
  <2> QED
    BY <2>1, LeastNumber
<1>4. PICK l \in L : \A m \in L : l <= m
  <2>1. L \in SUBSET Nat /\ L # {}
    BY <1>2
  <2> HIDE DEF L
  <2> QED
    BY <2>1, LeastNumber
<1> DEFINE lo == i - l
<1>5. /\ lo \in 1..n /\ h \in 1..n /\ lo <= i /\ i <= h
      /\ lo = 1 \/ Stop(lo - 1)
      /\ h = n \/ Stop(h + 1)
  BY <1>1, <1>3, <1>4
<1>6. ASSUME NEW k \in i..h, Stop(k) PROVE FALSE
  <2>1. k \in Nat /\ i < k /\ k <= n
    <3>1. k # i
      BY <1>1, <1>6
    <3> QED
      BY <1>1, <1>5, <3>1
  <2>2. k - 1 \in Nat /\ i <= k - 1 /\ k - 1 <= n /\ (k - 1) + 1 = k
    BY <1>1, <2>1
  <2>3. k - 1 \in R
    BY <1>6, <2>2
  <2>4. h <= k - 1
    BY <1>3, <2>3
  <2> QED
    BY <1>5, <2>1, <2>4
<1>7. ASSUME NEW k \in lo..i, Stop(k) PROVE FALSE
  <2>1. k \in Nat /\ k < i /\ k >= lo
    <3>1. k # i
      BY <1>1, <1>7
    <3> QED
      BY <1>1, <1>5, <3>1
  <2> DEFINE m == (i - k) - 1
  <2>2. m \in Nat /\ m < i /\ (i - m) - 1 = k
    BY <1>1, <2>1
  <2>3. m \in L
    BY <1>7, <2>2
  <2>4. l <= m
    BY <1>4, <2>3
  <2> QED
    BY <1>1, <1>4, <2>1, <2>4
<1>8. \A k \in lo..h : ~Stop(k)
  <2> SUFFICES ASSUME NEW k \in lo..h PROVE ~Stop(k)
    OBVIOUS
  <2>1. k \in lo..i \/ k \in i..h
    BY <1>1, <1>5
  <2> QED
    BY <1>6, <1>7, <2>1
<1> HIDE DEF lo
<1>9. IsSegment(v, lo, h)
  <2>1. lo \in DOMAIN v /\ h \in DOMAIN v /\ lo <= h
    BY <1>1, <1>5
  <2>2. \A k \in lo..h : v[k] \notin CompoundSeps
    BY <1>8 DEF Stop
  <2>3. lo = 1 \/ v[lo - 1] \in CompoundSeps
    BY <1>5 DEF Stop
  <2>4. h = Len(v) \/ v[h + 1] \in CompoundSeps
    BY <1>5 DEF Stop, n
  <2> QED
    BY <2>1, <2>2, <2>3, <2>4, Zenon DEF IsSegment
<1>10. lo \in DOMAIN v /\ h \in DOMAIN v /\ lo <= i /\ i <= h
  BY <1>1, <1>5
<1> QED
  BY <1>9, <1>10, Zenon

LEMMA SegmentsAre ==
    ASSUME NEW C, NEW v \in Seq(C)
    PROVE  /\ IsFiniteSet(Segments(v))
           /\ \A lo, hi : IsSegment(v, lo, hi) => <<lo, hi>> \in Segments(v)
<1>1. DOMAIN v = 1..Len(v) /\ Len(v) \in Nat
  OBVIOUS
<1>2. IsFiniteSet(DOMAIN v)
  BY <1>1, FS_Interval
<1>3. IsFiniteSet((DOMAIN v) \X (DOMAIN v))
  BY <1>2, FS_Product
<1>4. Segments(v) \subseteq (DOMAIN v) \X (DOMAIN v)
  BY DEF Segments
<1>5. IsFiniteSet(Segments(v))
  BY <1>3, <1>4, FS_Subset
<1>6. ASSUME NEW lo, NEW hi, IsSegment(v, lo, hi) PROVE <<lo, hi>> \in Segments(v)
  BY <1>6 DEF IsSegment, Segments
<1> QED
  BY <1>5, <1>6

LEMMA TwoOf ==
    ASSUME NEW S, IsFiniteSet(S), NEW s \in S, NEW t \in S, s # t
    PROVE  Cardinality(S) >= 2
<1>1. Cardinality({s}) = 1 /\ IsFiniteSet({s})
  BY FS_Singleton
<1>2. Cardinality({s} \union {t}) = Cardinality({s}) + 1
  BY <1>1, FS_AddElement
<1>3. Cardinality({s} \union {t}) <= Cardinality(S)
  BY FS_Subset
<1>4. Cardinality(S) \in Nat
  BY FS_CardinalityType
<1> QED
  BY <1>1, <1>2, <1>3, <1>4

\* A segment that is a popular name, and another one: a compound.
LEMMA Compound ==
    ASSUME NEW C, NEW v \in Seq(C), NEW lo, NEW hi, IsSegment(v, lo, hi),
           hi - lo + 1 >= minSegLen, SubSeq(v, lo, hi) \in nodes,
           NEW i \in DOMAIN v, i < lo \/ hi < i, v[i] \notin CompoundSeps
    PROVE  combosquatMatch(v)
<1>1. PICK l \in DOMAIN v, h \in DOMAIN v : l <= i /\ i <= h /\ IsSegment(v, l, h)
  BY SegmentAround
<1> DEFINE s == <<lo, hi>>
           t == <<l, h>>
           S == Segments(v)
<1>2. s \in S /\ t \in S /\ IsFiniteSet(S)
  BY <1>1, SegmentsAre
<1>3. s # t
  <2> SUFFICES ASSUME s = t PROVE FALSE
    OBVIOUS
  <2>1. l = lo /\ h = hi /\ lo \in 1..Len(v) /\ hi \in 1..Len(v) /\ i \in 1..Len(v) /\ Len(v) \in Nat
    BY DEF IsSegment
  <2> QED
    BY <1>1, <2>1
<1>4. Cardinality(S) >= 2
  <2> HIDE DEF s, t, S
  <2> QED
    BY <1>2, <1>3, TwoOf
<1>5. s \in S /\ s[2] - s[1] + 1 >= minSegLen /\ SubSeq(v, s[1], s[2]) \in nodes
  BY <1>2
<1>6. \E ij \in Segments(v) : ij[2] - ij[1] + 1 >= minSegLen /\ SubSeq(v, ij[1], ij[2]) \in nodes
  <2> HIDE DEF s
  <2> QED
    BY <1>5, Zenon
<1> QED
  BY <1>4, <1>6, Zenon DEF combosquatMatch

LEMMA SameWord ==
    ASSUME NEW D, NEW s \in Seq(D), NEW t \in Seq(D), Len(s) = Len(t),
           \A k \in 1..Len(s) : s[k] = t[k]
    PROVE  s = t
OBVIOUS

LEMMA PrefixIs ==
    ASSUME NEW D, NEW x \in Seq(D), NEW v \in Seq(D), IsPrefix(x, v)
    PROVE  Len(x) <= Len(v) /\ \A j \in 1..Len(x) : x[j] = v[j]
<1> DEFINE m == Len(x)
<1>1. m \in Nat /\ m <= Len(v) /\ SubSeq(x, 1, m) = SubSeq(v, 1, m) /\ Len(v) \in Nat
  BY DEF IsPrefix
<1>2. m \in (1 - 1)..Len(x) /\ m \in (1 - 1)..Len(v) /\ 1 \in 1..(Len(x) + 1) /\ 1 \in 1..(Len(v) + 1)
  BY <1>1
<1>3. \A k \in 1..(m - 1 + 1) : SubSeq(x, 1, m)[k] = x[1 + k - 1]
  BY <1>2, CutOut
<1>4. \A k \in 1..(m - 1 + 1) : SubSeq(v, 1, m)[k] = v[1 + k - 1]
  BY <1>2, CutOut
<1>5. \A j \in 1..m : SubSeq(x, 1, m)[j] = x[j] /\ SubSeq(v, 1, m)[j] = v[j]
  <2> SUFFICES ASSUME NEW j \in 1..m
               PROVE  SubSeq(x, 1, m)[j] = x[j] /\ SubSeq(v, 1, m)[j] = v[j]
    OBVIOUS
  <2>1. j \in 1..(m - 1 + 1) /\ 1 + j - 1 = j
    BY <1>1
  <2> QED
    BY <1>3, <1>4, <2>1
<1>6. \A j \in 1..m : x[j] = v[j]
  BY <1>1, <1>5
<1> QED
  BY <1>1, <1>6

LEMMA ReverseIs ==
    ASSUME NEW D, NEW s \in Seq(D)
    PROVE  /\ Reverse(s) \in Seq(D) /\ Len(Reverse(s)) = Len(s)
           /\ \A k \in 1..Len(s) : Reverse(s)[k] = s[(Len(s) - k) + 1]
<1>1. \A k \in 1..Len(s) : s[(Len(s) - k) + 1] \in D
  <2> SUFFICES ASSUME NEW k \in 1..Len(s) PROVE s[(Len(s) - k) + 1] \in D
    OBVIOUS
  <2>1. (Len(s) - k) + 1 \in 1..Len(s)
    OBVIOUS
  <2> QED
    BY <2>1
<1> QED
  BY <1>1 DEF Reverse

LEMMA SuffixIs ==
    ASSUME NEW D, NEW x \in Seq(D), NEW v \in Seq(D), IsSuffix(x, v)
    PROVE  Len(x) <= Len(v) /\ \A j \in 1..Len(x) : x[j] = v[Len(v) - Len(x) + j]
<1> DEFINE m == Len(x)
           n == Len(v)
           rx == Reverse(x)
           rv == Reverse(v)
<1>1. /\ rx \in Seq(D) /\ Len(rx) = m /\ rv \in Seq(D) /\ Len(rv) = n
      /\ \A k \in 1..m : rx[k] = x[(m - k) + 1]
      /\ \A k \in 1..n : rv[k] = v[(n - k) + 1]
  BY ReverseIs
<1>2. IsPrefix(rx, rv)
  BY DEF IsSuffix
<1> HIDE DEF rx, rv
<1>3. Len(rx) <= Len(rv) /\ \A j \in 1..Len(rx) : rx[j] = rv[j]
  BY <1>1, <1>2, PrefixIs
<1>4. m <= n /\ m \in Nat /\ n \in Nat
  BY <1>1, <1>3
<1>5. ASSUME NEW j \in 1..m PROVE x[j] = v[n - m + j]
  <2> DEFINE k == m - j + 1
  <2>1. k \in 1..m /\ k \in 1..n /\ (m - k) + 1 = j /\ (n - k) + 1 = n - m + j
    BY <1>4
  <2> HIDE DEF k
  <2>2. rx[k] = x[j] /\ rv[k] = v[n - m + j]
    BY <1>1, <2>1
  <2>3. rx[k] = rv[k]
    BY <1>1, <1>3, <2>1
  <2> QED
    BY <2>2, <2>3
<1> QED
  BY <1>4, <1>5

LEMMA HungOnIsCompound ==
    ASSUME NEW C, NEW v \in Seq(C), NEW w \in Seq(C), HungOn(v, w), w \in nodes,
           Len(w) >= minSegLen, Range(w) \intersect CompoundSeps = {}
    PROVE  combosquatMatch(v)
<1> DEFINE D == C \union CompoundSeps
           m == Len(w)
           n == Len(v)
<1>1. v \in Seq(D) /\ w \in Seq(D) /\ m \in Nat /\ n \in Nat /\ DOMAIN v = 1..n
  OBVIOUS
<1>2. minSegLen \in Nat /\ minSegLen >= 1
  BY NameAssumption DEF minSegLen
<1>3. \A k \in 1..m : w[k] \notin CompoundSeps
  BY DEF Range
<1>4. PICK c \in CompoundSeps, i \in DOMAIN v :
         /\ v[i] \notin CompoundSeps
         /\ \/ IsPrefix(Append(w, c), v) /\ i > m
            \/ IsSuffix(<<c>> \o w, v) /\ i <= n - m
  BY DEF HungOn
<1>5. CASE IsPrefix(Append(w, c), v) /\ i > m
  <2> DEFINE x == Append(w, c)
  <2>1. x \in Seq(D) /\ Len(x) = m + 1 /\ x[m + 1] = c /\ \A k \in 1..m : x[k] = w[k]
    BY <1>1
  <2> HIDE DEF x
  <2>2. Len(x) <= n /\ \A j \in 1..Len(x) : x[j] = v[j]
    <3>1. IsPrefix(x, v)
      BY <1>5 DEF x
    <3> QED
      BY <1>1, <2>1, <3>1, PrefixIs
  <2>3. m + 1 <= n /\ v[m + 1] = c /\ \A k \in 1..m : v[k] = w[k]
    BY <1>1, <2>1, <2>2
  <2>4. 1 \in 1..(n + 1) /\ m \in (1 - 1)..n /\ m \in 1..n
    BY <1>1, <1>2, <2>3
  <2>5. SubSeq(v, 1, m) = w
    <3>1. /\ SubSeq(v, 1, m) \in Seq(D) /\ Len(SubSeq(v, 1, m)) = m - 1 + 1
          /\ \A k \in 1..(m - 1 + 1) : SubSeq(v, 1, m)[k] = v[1 + k - 1]
      BY <1>1, <2>4, CutOut
    <3>2. Len(SubSeq(v, 1, m)) = m
      BY <1>1, <3>1
    <3>3. \A k \in 1..m : SubSeq(v, 1, m)[k] = w[k]
      <4> SUFFICES ASSUME NEW k \in 1..m PROVE SubSeq(v, 1, m)[k] = w[k]
        OBVIOUS
      <4>1. k \in 1..(m - 1 + 1) /\ 1 + k - 1 = k
        BY <1>1
      <4> QED
        BY <2>3, <3>1, <4>1
    <3> QED
      BY <1>1, <3>1, <3>2, <3>3, SameWord
  <2>6. IsSegment(v, 1, m)
    <3>1. 1 \in DOMAIN v /\ m \in DOMAIN v /\ 1 <= m
      BY <1>1, <2>4
    <3>2. \A k \in 1..m : v[k] \notin CompoundSeps
      BY <1>3, <2>3
    <3> QED
      BY <2>3, <3>1, <3>2 DEF IsSegment
  <2>7. m - 1 + 1 >= minSegLen /\ m < i
    BY <1>1, <1>2, <1>5
  <2> QED
    BY <1>4, <2>5, <2>6, <2>7, Compound
<1>6. CASE IsSuffix(<<c>> \o w, v) /\ i <= n - m
  <2> DEFINE x == <<c>> \o w
             lo == n - m + 1
  <2>1. x \in Seq(D) /\ Len(x) = m + 1 /\ x[1] = c /\ \A k \in 1..m : x[k + 1] = w[k]
    <3>1. <<c>> \in Seq(D) /\ Len(<<c>>) = 1 /\ (<<c>>)[1] = c
      OBVIOUS
    <3>2. /\ x \in Seq(D) /\ Len(x) = Len(<<c>>) + m
          /\ \A k \in 1..(Len(<<c>>) + m) : x[k] = IF k <= Len(<<c>>) THEN (<<c>>)[k] ELSE w[k - Len(<<c>>)]
      BY <1>1, <3>1, Joined
    <3>3. x \in Seq(D) /\ Len(x) = m + 1
          /\ \A k \in 1..(m + 1) : x[k] = IF k <= 1 THEN (<<c>>)[k] ELSE w[k - 1]
      BY <1>1, <3>1, <3>2
    <3>4. x[1] = c
      BY <1>1, <3>1, <3>3
    <3>5. ASSUME NEW k \in 1..m PROVE x[k + 1] = w[k]
      <4>1. k + 1 \in 1..(m + 1) /\ ~(k + 1 <= 1) /\ (k + 1) - 1 = k
        BY <1>1
      <4> QED
        BY <3>3, <4>1
    <3> QED
      BY <3>3, <3>4, <3>5
  <2> HIDE DEF x
  <2>2. Len(x) <= n /\ \A j \in 1..Len(x) : x[j] = v[n - Len(x) + j]
    <3>1. IsSuffix(x, v)
      BY <1>6 DEF x
    <3> QED
      BY <1>1, <2>1, <3>1, SuffixIs, SMTT(20)
  <2>3. m + 1 <= n /\ v[n - m] = c
    <3>1. m + 1 <= n /\ 1 \in 1..Len(x) /\ n - Len(x) + 1 = n - m
      BY <1>1, <2>1, <2>2
    <3> QED
      BY <2>1, <2>2, <3>1
  <2>4. \A k \in 1..m : v[lo + k - 1] = w[k]
    <3> SUFFICES ASSUME NEW k \in 1..m PROVE v[lo + k - 1] = w[k]
      OBVIOUS
    <3>1. k + 1 \in 1..Len(x) /\ n - Len(x) + (k + 1) = lo + k - 1
      BY <1>1, <2>1
    <3> QED
      BY <2>1, <2>2, <3>1
  <2>5. lo \in 1..n /\ n \in (lo - 1)..n /\ lo \in 1..(n + 1) /\ lo <= n /\ n \in 1..n
    BY <1>1, <1>2, <2>3
  <2>6. n - lo + 1 = m
    BY <1>1
  <2>7. lo - 1 = n - m
    BY <1>1
  <2> HIDE DEF lo
  <2>8. SubSeq(v, lo, n) = w
    <3>1. /\ SubSeq(v, lo, n) \in Seq(D) /\ Len(SubSeq(v, lo, n)) = n - lo + 1
          /\ \A k \in 1..(n - lo + 1) : SubSeq(v, lo, n)[k] = v[lo + k - 1]
      BY <1>1, <2>5, CutOut
    <3> QED
      BY <1>1, <2>4, <2>6, <3>1, SameWord
  <2>9. IsSegment(v, lo, n)
    <3>1. lo \in DOMAIN v /\ n \in DOMAIN v /\ lo <= n
      BY <1>1, <2>5
    <3>2. \A k \in lo..n : v[k] \notin CompoundSeps
      <4> SUFFICES ASSUME NEW k \in lo..n PROVE v[k] \notin CompoundSeps
        OBVIOUS
      <4> DEFINE j == k - lo + 1
      <4>1. j \in 1..m /\ lo + j - 1 = k
        BY <1>1, <2>5, <2>6
      <4> HIDE DEF j
      <4>2. v[k] = w[j]
        BY <2>4, <4>1
      <4> QED
        BY <1>3, <4>1, <4>2
    <3>3. v[lo - 1] \in CompoundSeps
      BY <2>3, <2>7
    <3> QED
      BY <3>1, <3>2, <3>3 DEF IsSegment
  <2>10. n - lo + 1 >= minSegLen /\ i < lo
    BY <1>1, <1>2, <1>6, <2>5, <2>6, <2>7
  <2> QED
    BY <1>4, <2>8, <2>9, <2>10, Compound
<1> QED
  BY <1>4, <1>5, <1>6

--------------------------------------------------------------------------------
\* The stages of Check.

\* Nothing is reported or searched before a name is asked; from then on the stage
\* that ended the check, or began the search, is the one its name asks for, and
\* the tree and the scopes stay as they were then.
Stages ==
    /\ asked = NoName => query = NoWord /\ early = {}
    /\ asked # NoName =>
         /\ asked \in Asked /\ word = NoWord
         /\ LET bare == Lowered(asked.bare)
                scoped == checkScope(Lowered(asked.scope)) IN
            \/ query = NoWord /\ bare \in nodes /\ early = scoped
            \/ /\ query = NoWord /\ bare \notin nodes /\ deHomoglyph(bare) \in nodes
               /\ early = scoped \union {"typosquat_ascii_homoglyph"}
            \/ /\ query = bare /\ bare \notin nodes /\ deHomoglyph(bare) \notin nodes
               /\ early = scoped \union (IF CombosquatScore > 0 /\ combosquatMatch(bare)
                                         THEN {"typosquat_combosquat"} ELSE {})

TypoInv == IInv /\ Stages

LEMMA StagesInit == TypoInit => TypoInv
BY InitInv DEF TypoInit, BKInit, TypoInv, Stages

LEMMA LoadLineStages ==
    ASSUME TypoInv, NEW n \in PopularList, LoadLine(n)
    PROVE  TypoInv'
<1>1. Lowered(n.bare) \in Words
  BY NameAssumption
<1>2. asked = NoName /\ asked' = asked /\ early' = early
  BY DEF LoadLine
<1>3. UNCHANGED bkVars \/ NextWord(Lowered(n.bare))
  BY DEF LoadLine
<1>4. IInv'
  BY <1>1, <1>3, StepInv DEF TypoInv, BKNext
<1>5. query' = query
  BY <1>3 DEF NextWord, bkVars, searchVars
<1> QED
  BY <1>2, <1>4, <1>5 DEF TypoInv, Stages

LEMMA CheckNameStages ==
    ASSUME TypoInv, NEW n \in Asked, CheckName(n)
    PROVE  TypoInv'
<1> DEFINE bare == Lowered(n.bare)
<1>1. bare \in Words /\ n # NoName
  BY NameAssumption
<1>2. asked = NoName /\ word = NoWord /\ asked' = n /\ scopeCount' = scopeCount
  BY DEF CheckName
<1>3. UNCHANGED bkVars \/ Search(bare)
  BY DEF CheckName
<1>4. IInv'
  BY <1>1, <1>3, StepInv DEF TypoInv, BKNext
<1>5. query = NoWord
  BY <1>2 DEF TypoInv, Stages
<1>6. nodes' = nodes /\ word' = word
  BY <1>3 DEF bkVars, treeVars, Search
<1>7. checkScope(Lowered(n.scope))' = checkScope(Lowered(n.scope))
  BY <1>2 DEF checkScope, popularScopes
<1>8. combosquatMatch(bare)' = combosquatMatch(bare)
  BY <1>6 DEF combosquatMatch
<1>9. \/ query' = NoWord /\ bare \in nodes /\ early' = checkScope(Lowered(n.scope))
      \/ /\ query' = NoWord /\ bare \notin nodes /\ deHomoglyph(bare) \in nodes
         /\ early' = checkScope(Lowered(n.scope)) \union {"typosquat_ascii_homoglyph"}
      \/ /\ query' = bare /\ bare \notin nodes /\ deHomoglyph(bare) \notin nodes
         /\ early' = checkScope(Lowered(n.scope))
                       \union (IF CombosquatScore > 0 /\ combosquatMatch(bare)
                               THEN {"typosquat_combosquat"} ELSE {})
  BY <1>5 DEF CheckName, Search, bkVars, searchVars
<1> HIDE DEF bare
<1>10. Stages'
  BY <1>1, <1>2, <1>6, <1>7, <1>8, <1>9 DEF Stages, bare
<1> QED
  BY <1>4, <1>10 DEF TypoInv

LEMMA TreeStepStages ==
    ASSUME TypoInv, TreeStep
    PROVE  TypoInv'
<1>1. UNCHANGED <<lines, scopeCount, asked, early>>
  BY DEF TreeStep
<1>2. nodes \subseteq Words
  BY DEF TypoInv, IInv, BKTypeOK
<1>3. BKNext
  BY <1>2 DEF TreeStep, BKNext
<1>4. IInv'
  BY <1>3, StepInv DEF TypoInv
<1>5. query' = query
  BY DEF TreeStep, Insert, Check, Visit, searchVars
<1>6. asked # NoName => nodes' = nodes /\ word' = word
  <2> SUFFICES ASSUME asked # NoName PROVE nodes' = nodes /\ word' = word
    OBVIOUS
  <2>1. word = NoWord
    BY DEF TypoInv, Stages
  <2>2. ~Insert
    BY <2>1 DEF Insert
  <2> QED
    BY <2>2 DEF TreeStep, Check, Visit, treeVars
<1>7. checkScope(Lowered(asked.scope))' = checkScope(Lowered(asked.scope))
  BY <1>1 DEF checkScope, popularScopes
<1>8. asked # NoName => combosquatMatch(Lowered(asked.bare))' = combosquatMatch(Lowered(asked.bare))
  BY <1>1, <1>6 DEF combosquatMatch
<1>9. Stages'
  BY <1>1, <1>5, <1>6, <1>7, <1>8 DEF TypoInv, Stages
<1> QED
  BY <1>4, <1>9 DEF TypoInv

LEMMA TypoStep == ASSUME TypoInv, [TypoNext]_typoVars PROVE TypoInv'
<1>1. CASE UNCHANGED typoVars
  <2>1. UNCHANGED bkVars /\ UNCHANGED <<lines, scopeCount, asked, early>>
    BY <1>1 DEF typoVars
  <2>2. IInv'
    BY <2>1, StepInv DEF TypoInv
  <2>3. nodes' = nodes /\ word' = word /\ query' = query
    BY <2>1 DEF bkVars, treeVars, searchVars
  <2>4. checkScope(Lowered(asked.scope))' = checkScope(Lowered(asked.scope))
    BY <2>1 DEF checkScope, popularScopes
  <2>5. combosquatMatch(Lowered(asked.bare))' = combosquatMatch(Lowered(asked.bare))
    BY <2>1, <2>3 DEF combosquatMatch
  <2>6. Stages'
    BY <2>1, <2>3, <2>4, <2>5 DEF TypoInv, Stages
  <2> QED
    BY <2>2, <2>6 DEF TypoInv
<1> QED
  BY <1>1, LoadLineStages, CheckNameStages, TreeStepStages DEF TypoNext

--------------------------------------------------------------------------------
\* No disguise gets past.

CheckedWords == Words \union Scopes \union {Lowered(n.scope) : n \in Asked}

\* The distance the checker ranks by is damerauLevenshtein.
RanksByDamerau == \A v, w \in CheckedWords : Damerau(v, w) = damerauLevenshtein(v, w)

\* Each tier is switched on, as in the configuration the proxy comes with.
TiersOn == CloseDistance >= 1 /\ CombosquatScore > 0 /\ ScopeCloseScore # 0

LEMMA LoweredWord ==
    ASSUME NEW w, w \in Seq(Range(w))
    PROVE  Lowered(w) \in Seq(Range(Lowered(w)))
<1> DEFINE u == Lowered(w)
<1>1. DOMAIN w = 1..Len(w) /\ Len(w) \in Nat
  OBVIOUS
<1>2. u = [i \in 1..Len(w) |-> IF w[i] \in DOMAIN Folded THEN Folded[w[i]] ELSE w[i]]
  BY <1>1 DEF Lowered
<1>3. DOMAIN u = 1..Len(w)
  BY <1>2
<1>4. \A i \in 1..Len(w) : u[i] \in Range(u)
  BY <1>3 DEF Range
<1>5. u = [i \in 1..Len(w) |-> u[i]]
  BY <1>2, <1>3
<1> HIDE DEF u
<1>6. u \in Seq(Range(u))
  BY <1>1, <1>4, <1>5
<1> QED
  BY <1>6 DEF u

LEMMA TwoWords ==
    ASSUME NEW v, NEW w, v \in Seq(Range(v)), w \in Seq(Range(w))
    PROVE  v \in Seq(Range(v) \union Range(w)) /\ w \in Seq(Range(v) \union Range(w))
OBVIOUS

LEMMA CheckedAreWords == \A w \in CheckedWords : w \in Seq(Range(w))
BY NameAssumption, LoweredWord DEF CheckedWords, Scopes

LEMMA NearByDamerau ==
    ASSUME RanksByDamerau, NEW v \in CheckedWords, NEW w \in CheckedWords, v \in OneEditOf(w)
    PROVE  Damerau(v, w) = 1 /\ Len(v) - Len(w) \in (0 - 1)..1
<1> DEFINE C == Range(v) \union Range(w)
<1>1. v \in Seq(C) /\ w \in Seq(C)
  BY CheckedAreWords, TwoWords
<1> HIDE DEF C
<1>2. damerauLevenshtein(v, w) = 1 /\ Len(v) - Len(w) \in (0 - 1)..1
  BY <1>1, OneEditIsClose
<1> QED
  BY <1>2 DEF RanksByDamerau

LEMMA ScopeNoticed ==
    ASSUME RanksByDamerau, TiersOn, 2 * CloseDistance <= WarnDistance,
           NEW s \in popularScopes, NEW scope \in CheckedWords,
           scope \in OneEditOf(s) \ popularScopes, Len(scope) >= 3
    PROVE  "typosquat_scope_close" \in checkScope(scope)
<1> DEFINE near(k) == \E t \in popularScopes :
                         /\ Len(scope) - Len(t) \in (0 - WarnDistance)..WarnDistance
                         /\ Damerau(scope, t) \in 1..k
<1>1. s \in CheckedWords
  BY DEF popularScopes, CheckedWords
<1>2. Damerau(scope, s) = 1 /\ Len(scope) - Len(s) \in (0 - 1)..1
  BY <1>1, NearByDamerau
<1>3. CloseDistance \in Nat /\ WarnDistance \in Nat /\ CloseDistance >= 1 /\ WarnDistance >= 1
  BY DistanceAssumption DEF TiersOn
<1>4. Len(scope) - Len(s) \in (0 - WarnDistance)..WarnDistance
  BY <1>2, <1>3
<1>5. Damerau(scope, s) \in 1..CloseDistance /\ Damerau(scope, s) \in 1..WarnDistance
  BY <1>2, <1>3
<1>6. near(CloseDistance) /\ near(WarnDistance)
  BY <1>4, <1>5
<1>7. ~(Len(scope) < 3)
  <2>1. Len(scope) \in Nat
    BY CheckedAreWords
  <2> QED
    BY <2>1
<1>8. checkScope(scope) =
        IF Len(scope) < 3 \/ scope \in popularScopes \/ ~near(WarnDistance) THEN {}
        ELSE IF near(CloseDistance)
             THEN IF ScopeCloseScore = 0 THEN {} ELSE {"typosquat_scope_close"}
             ELSE IF ScopeWarnScore = 0 THEN {} ELSE {"typosquat_scope_warn"}
  BY DEF checkScope
<1> HIDE DEF near
<1> QED
  BY <1>6, <1>7, <1>8 DEF TiersOn

LEMMA ScopeSignals ==
    ASSUME NEW scope
    PROVE  checkScope(scope) \subseteq {"typosquat_scope_close", "typosquat_scope_warn"}
BY DEF checkScope

LEMMA NothingGetsPast ==
    ASSUME TypoInv, RanksByDamerau, TiersOn
    PROVE  LookalikeReported
<1> DEFINE bare == Lowered(asked.bare)
           scope == Lowered(asked.scope)
<1> SUFFICES ASSUME Answered, 2 * CloseDistance <= WarnDistance
             PROVE  /\ bare \in nodes => Reported \intersect NameRules = {}
                    /\ bare \notin nodes => \A w \in nodes :
                         /\ bare \in OneEditOf(w)
                              => Reported \intersect {"typosquat_close", "typosquat_ascii_homoglyph"} # {}
                         /\ LooksLike(bare, w) /\ Range(w) \intersect DOMAIN asciiHomoglyphs = {}
                              => "typosquat_ascii_homoglyph" \in Reported
                         /\ HungOn(bare, w) /\ Len(w) >= minSegLen /\ Range(w) \intersect CompoundSeps = {}
                              => Reported \intersect NameRules # {}
                    /\ \A s \in popularScopes : scope \in OneEditOf(s) \ popularScopes /\ Len(scope) >= 3
                         => "typosquat_scope_close" \in Reported
  BY DEF LookalikeReported
<1>1. /\ asked \in Asked
      /\ \/ query = NoWord /\ bare \in nodes /\ early = checkScope(scope)
         \/ /\ query = NoWord /\ bare \notin nodes /\ deHomoglyph(bare) \in nodes
            /\ early = checkScope(scope) \union {"typosquat_ascii_homoglyph"}
         \/ /\ query = bare /\ bare \notin nodes /\ deHomoglyph(bare) \notin nodes
            /\ early = checkScope(scope) \union (IF CombosquatScore > 0 /\ combosquatMatch(bare)
                                                 THEN {"typosquat_combosquat"} ELSE {})
  BY DEF TypoInv, Stages, Answered
<1>2. bare \in Words /\ bare \in CheckedWords /\ scope \in CheckedWords /\ nodes \subseteq Words
  BY <1>1, NameAssumption DEF CheckedWords, TypoInv, IInv, BKTypeOK
<1>3. /\ query = NoWord => rule = "none"
      /\ query = bare => rule # "none"
  BY <1>2, NoWordAssumption DEF TypoInv, IInv, SearchInv, Answered
<1>4. Reported = early \union {rule}
  BY DEF Reported
<1> HIDE DEF bare, scope
<1>5. bare \in nodes => Reported \intersect NameRules = {}
  BY <1>1, <1>3, <1>4, ScopeSignals DEF NameRules
<1>6. ASSUME bare \notin nodes, NEW w \in nodes, bare \in OneEditOf(w)
      PROVE  Reported \intersect {"typosquat_close", "typosquat_ascii_homoglyph"} # {}
  <2>1. CASE query = bare
    <3>1. w \in CheckedWords
      BY <1>2 DEF CheckedWords
    <3>2. Damerau(query, w) <= CloseDistance
      <4>1. Damerau(bare, w) = 1
        BY <1>2, <1>6, <3>1, NearByDamerau
      <4> QED
        BY <2>1, <4>1, DistanceAssumption DEF TiersOn
    <3>3. rule = "typosquat_close"
      <4>1. CloseMatchFound
        BY CloseFound DEF TypoInv
      <4> QED
        BY <1>3, <2>1, <3>2, <4>1 DEF CloseMatchFound
    <3> QED
      BY <1>4, <3>3
  <2>2. CASE query # bare
    BY <1>1, <1>4, <1>6, <2>2
  <2> QED
    BY <2>1, <2>2
<1>7. ASSUME bare \notin nodes, NEW w \in nodes, LooksLike(bare, w),
             Range(w) \intersect DOMAIN asciiHomoglyphs = {}
      PROVE  "typosquat_ascii_homoglyph" \in Reported
  <2>1. deHomoglyph(bare) = w
    <3>1. w \in CheckedWords
      BY <1>2 DEF CheckedWords
    <3>2. /\ bare \in Seq(Range(bare) \union Range(w))
          /\ w \in Seq(Range(bare) \union Range(w))
      BY <1>2, <3>1, CheckedAreWords, TwoWords
    <3> QED
      BY <1>7, <3>2, LooksLikeIs
  <2> QED
    BY <1>1, <1>4, <1>7, <2>1
<1>8. ASSUME bare \notin nodes, NEW w \in nodes, HungOn(bare, w), Len(w) >= minSegLen,
             Range(w) \intersect CompoundSeps = {}
      PROVE  Reported \intersect NameRules # {}
  <2>1. combosquatMatch(bare)
    <3>1. w \in CheckedWords
      BY <1>2 DEF CheckedWords
    <3>2. /\ bare \in Seq(Range(bare) \union Range(w))
          /\ w \in Seq(Range(bare) \union Range(w))
      BY <1>2, <3>1, CheckedAreWords, TwoWords
    <3> QED
      BY <1>8, <3>2, HungOnIsCompound
  <2> QED
    BY <1>1, <1>4, <1>8, <2>1 DEF NameRules, TiersOn
<1>9. ASSUME NEW s \in popularScopes, scope \in OneEditOf(s) \ popularScopes, Len(scope) >= 3
      PROVE  "typosquat_scope_close" \in Reported
  <2>1. "typosquat_scope_close" \in checkScope(scope)
    BY <1>2, <1>9, ScopeNoticed
  <2> QED
    BY <1>1, <1>4, <2>1
<1> QED
  BY <1>5, <1>6, <1>7, <1>8, <1>9

\* With its tiers on, and ranking by damerauLevenshtein, the checker lets no
\* disguise of a popular name or scope past, whatever the list, the order of its
\* lines and the name asked for; a popular name is never taken for a disguise
\* (typosquatting.go Check, checkScope).
THEOREM NoDisguisePasses ==
    ASSUME RanksByDamerau, TiersOn
    PROVE  TypoSpec => []LookalikeReported
<1>1. TypoInv /\ [TypoNext]_typoVars => TypoInv'
  BY TypoStep
<1>2. TypoInv => LookalikeReported
  BY NothingGetsPast
<1> QED
  BY StagesInit, <1>1, <1>2, PTL DEF TypoSpec

--------------------------------------------------------------------------------
\* Each distance counts edits.

\* Words that begin alike have the same rows there.
LEMMA SameRows ==
    ASSUME NEW C, NEW a \in Seq(C), NEW x \in Seq(C), NEW b \in Seq(C),
           NEW d, LevTable(d, a, b), NEW e, LevTable(e, x, b),
           NEW p \in 0..Len(a), p <= Len(x), \A t \in 1..p : a[t] = x[t]
    PROVE  d[p] = e[p]
<1> DEFINE S == {i \in Nat : i <= p => d[i] = e[i]}
<1>1. ASSUME NEW i \in Nat, \A k \in Nat : k < i => k \in S
      PROVE  i \in S
  <2> SUFFICES ASSUME i <= p PROVE d[i] = e[i]
    OBVIOUS
  <2>1. CASE i = 0
    BY <2>1 DEF LevTable, IsTable
  <2>2. CASE i # 0
    <3>1. i \in 1..Len(a) /\ i \in 1..Len(x) /\ i - 1 \in Nat /\ i - 1 < i /\ i \in 1..p
      BY <2>2
    <3>2. i - 1 \in S
      <4> HIDE DEF S
      <4> QED
        BY <1>1, <3>1
    <3>3. d[i - 1] = e[i - 1]
      BY <3>1, <3>2
    <3>4. IsRow(d[i], a, b, i, d[i - 1], NoExtra(b)) /\ IsRow(e[i], x, b, i, e[i - 1], NoExtra(b))
      BY <3>1 DEF LevTable
    <3>5. \A j : Cost(x, b, i, j) = Cost(a, b, i, j)
      BY <3>1 DEF Cost
    <3>6. IsRow(e[i], a, b, i, d[i - 1], NoExtra(b))
      BY <3>3, <3>4, <3>5 DEF IsRow
    <3> QED
      BY <3>4, <3>6, RowUnique
  <2> QED
    BY <2>1, <2>2
<1>2. \A i \in Nat : i \in S
  <2> HIDE DEF S
  <2> QED
    BY <1>1, InductionOn
<1> QED
  BY <1>2

\* From these places on, the words are the same.
TailsAgree(a, i, b, j) ==
    /\ Len(a) - i = Len(b) - j
    /\ \A t \in 1..(Len(a) - i) : a[i + t] = b[j + t]

HeadsAgree(x, a, p) == \A t \in 1..p : x[t] = a[t]

\* From a cell of one table on, the words may agree instead.
LEMMA CarriedOn ==
    ASSUME NEW C, NEW a \in Seq(C), NEW x \in Seq(C), NEW b \in Seq(C), NEW d, LevTable(d, a, b),
           NEW p \in 0..Len(a), NEW q \in 0..Len(b), NEW r \in Nat, d[p][q] = r,
           p <= Len(x), HeadsAgree(x, a, p), TailsAgree(x, p, b, q)
    PROVE  levenshtein(x, b) <= r
<1>1. PICK e : LevTable(e, x, b) /\ levenshtein(x, b) = e[Len(x)][Len(b)]
  BY LevenshteinTable
<1>2. p \in Nat /\ q \in Nat /\ p <= Len(x) /\ p \in 0..Len(x)
  OBVIOUS
<1>3. d[p] = e[p]
  <2>1. \A t \in 1..p : a[t] = x[t]
    BY DEF HeadsAgree
  <2> QED
    BY <1>1, <1>2, <2>1, SameRows
<1>4. e[p][q] <= r
  BY <1>3
<1>5. Bounded(e, x, b)
  BY <1>1, TablesBounded
<1> DEFINE k == Len(x) - p
<1>6. k \in Nat /\ p + k = Len(x) /\ q + k = Len(b)
  BY <1>2 DEF TailsAgree
<1>7. \A t \in 1..k : x[p + t] = b[q + t]
  BY DEF TailsAgree
<1>8. e[p + k][q + k] <= r
  <2> HIDE DEF k
  <2>1. p + k <= Len(x) /\ q + k <= Len(b)
    BY <1>6
  <2> QED
    BY <1>2, <1>4, <1>5, <1>6, <1>7, <2>1, Diagonal
<1> QED
  BY <1>1, <1>6, <1>8

\* Back along the diagonal from the last cell, to where it was last paid for.
LastPaid(d, a, b, i, j) ==
    /\ TailsAgree(a, i, b, j) /\ d[i][j] = d[Len(a)][Len(b)]
    /\ i = 0 \/ j = 0 \/ a[i] # b[j] \/ d[i - 1][j - 1] # d[Len(a)][Len(b)]

LEMMA PaidAt ==
    ASSUME NEW C, NEW a \in Seq(C), NEW b \in Seq(C), NEW d
    PROVE  \E i \in 0..Len(a), j \in 0..Len(b) : LastPaid(d, a, b, i, j)
<1> DEFINE r == d[Len(a)][Len(b)]
           m == Len(a)
           n == Len(b)
           J(i) == i + n - m
           T == {i \in Nat : /\ i <= m /\ J(i) >= 0 /\ d[i][J(i)] = r
                             /\ \A t \in 1..(m - i) : a[i + t] = b[J(i) + t]}
<1>1. m \in Nat /\ n \in Nat /\ d[m][n] = r
  OBVIOUS
<1> HIDE DEF m, n, r
<1>2. m \in T
  <2>1. J(m) = n
    BY <1>1
  <2>2. \A t \in 1..(m - m) : a[m + t] = b[J(m) + t]
    BY <1>1
  <2> HIDE DEF J
  <2> QED
    BY <1>1, <2>1, <2>2
<1>3. PICK i \in T : \A k \in T : i <= k
  <2>1. T \in SUBSET Nat /\ T # {}
    BY <1>2
  <2> HIDE DEF T
  <2> QED
    BY <2>1, LeastNumber
<1> DEFINE j == J(i)
<1>4. /\ i \in 0..m /\ j \in 0..n /\ m - i = n - j /\ d[i][j] = r
      /\ \A t \in 1..(m - i) : a[i + t] = b[j + t]
  BY <1>1, <1>3
<1>5. ASSUME i # 0, j # 0, a[i] = b[j], d[i - 1][j - 1] = r
      PROVE  FALSE
  <2>1. i - 1 \in Nat /\ i - 1 <= m /\ J(i - 1) = j - 1 /\ J(i - 1) >= 0
    BY <1>1, <1>4, <1>5
  <2>2. ASSUME NEW t \in 1..(m - (i - 1)) PROVE a[(i - 1) + t] = b[(j - 1) + t]
    <3>1. CASE t = 1
      <4>1. (i - 1) + t = i /\ (j - 1) + t = j
        BY <1>1, <1>4, <3>1
      <4> QED
        BY <1>5, <4>1
    <3>2. CASE t # 1
      <4>1. t - 1 \in 1..(m - i) /\ (i - 1) + t = i + (t - 1) /\ (j - 1) + t = j + (t - 1)
        BY <1>1, <1>4, <3>2
      <4> HIDE DEF j
      <4> QED
        BY <1>4, <4>1
    <3> QED
      BY <3>1, <3>2
  <2>3. i - 1 \in T
    <3> HIDE DEF J, j
    <3> QED
      BY <1>5, <2>1, <2>2
  <2>4. i <= i - 1
    BY <1>3, <2>3
  <2> QED
    BY <1>4, <2>4
<1> HIDE DEF j, J, T
<1>6. i = 0 \/ j = 0 \/ a[i] # b[j] \/ d[i - 1][j - 1] # r
  BY <1>5
<1>7. TailsAgree(a, i, b, j)
  BY <1>4 DEF TailsAgree, m, n
<1> QED
  BY <1>4, <1>6, <1>7, Zenon DEF m, n, r, LastPaid

PaidFrom(d, i, j, r) ==
    \/ j # 0 /\ d[i][j - 1] = r
    \/ i # 0 /\ d[i - 1][j] = r
    \/ i # 0 /\ j # 0 /\ d[i - 1][j - 1] = r

LEMMA LastEdit ==
    ASSUME NEW C, NEW a \in Seq(C), NEW b \in Seq(C), NEW d, LevTable(d, a, b),
           NEW r \in Nat, d[Len(a)][Len(b)] = r + 1
    PROVE  \E i \in 0..Len(a), j \in 0..Len(b) :
             TailsAgree(a, i, b, j) /\ PaidFrom(d, i, j, r)
<1>0. PICK i \in 0..Len(a), j \in 0..Len(b) : LastPaid(d, a, b, i, j)
  BY PaidAt
<1>1. /\ TailsAgree(a, i, b, j) /\ d[i][j] = r + 1
      /\ i = 0 \/ j = 0 \/ a[i] # b[j] \/ d[i - 1][j - 1] # r + 1
  BY <1>0 DEF LastPaid
<1>3. \A p \in 0..Len(a), q \in 0..Len(b) :
        d[p][q] \in Nat /\ (p = 0 => d[p][q] = q) /\ (q = 0 => d[p][q] = p)
  <2>1. Bounded(d, a, b)
    BY TablesBounded
  <2> QED
    BY <2>1 DEF Bounded
<1>2. PaidFrom(d, i, j, r)
  <2> USE DEF PaidFrom
  <2>1. CASE i = 0
    <3>1. d[i][j] = j
      BY <2>1, <1>3
    <3>2. j = r + 1
      BY <1>1, <3>1
    <3>4. j - 1 \in 0..Len(b) /\ j # 0 /\ j - 1 = r
      BY <3>2
    <3>3. d[i][j - 1] = j - 1
      BY <2>1, <3>4, <1>3
    <3> QED
      BY <3>3, <3>4
  <2>2. CASE i # 0 /\ j = 0
    <3>1. d[i][j] = i
      BY <2>2, <1>3
    <3>2. i - 1 \in 0..Len(a) /\ i - 1 = r
      BY <1>1, <2>2, <3>1
    <3>3. d[i - 1][j] = i - 1
      BY <2>2, <3>2, <1>3
    <3> QED
      BY <2>2, <3>2, <3>3
  <2>3. CASE i # 0 /\ j # 0
    <3> DEFINE x1 == d[i][j - 1]
               x2 == d[i - 1][j]
               x3 == d[i - 1][j - 1]
               c == Cost(a, b, i, j)
    <3>1. i - 1 \in 0..Len(a) /\ j - 1 \in 0..Len(b)
      BY <2>3
    <3>2. x1 \in Nat /\ x2 \in Nat /\ x3 \in Nat
      BY <3>1, <1>3
    <3>3. r + 1 = x1 + 1 \/ r + 1 = x2 + 1 \/ r + 1 = x3 + c
      <4>1. d[i][j] = x1 + 1 \/ d[i][j] = x2 + 1 \/ d[i][j] = x3 + c
        BY <2>3, LevCell
      <4> QED
        BY <1>1, <4>1
    <3>4. c \in {0, 1} /\ (c = 0 => x3 # r + 1)
      BY <1>1, <2>3, CostFacts
    <3> HIDE DEF x1, x2, x3, c
    <3>5. x1 = r \/ x2 = r \/ x3 = r
      BY <3>2, <3>3, <3>4
    <3> QED
      BY <2>3, <3>5 DEF x1, x2, x3
  <2> QED
    BY <2>1, <2>2, <2>3
<1> QED
  BY <1>1, <1>2, Zenon

\* What one edit leaves of a word, if it is the right one, goes on as the other.
LEMMA StepAcross ==
    ASSUME NEW C, NEW a \in Seq(C), NEW x \in Seq(C), NEW b \in Seq(C),
           NEW p \in Nat, NEW q \in Nat, NEW u \in 0..1, NEW v \in 0..1,
           OneStep(x, a, p, u, v), p + v <= Len(a), q + u <= Len(b),
           TailsAgree(a, p + v, b, q + u), u = 1 => x[p + 1] = b[q + 1]
    PROVE  p <= Len(x) /\ HeadsAgree(x, a, p) /\ TailsAgree(x, p, b, q)
<1> DEFINE k == Len(x) - p
<1>1. HeadsAgree(x, a, p)
  BY DEF OneStep, HeadsAgree
<1>2. Len(x) - u = Len(a) - v /\ Len(a) - (p + v) = Len(b) - (q + u)
  BY DEF OneStep, TailsAgree
<1>3. k \in Nat /\ Len(x) = p + k /\ Len(b) = q + k /\ Len(a) - (p + v) = k - u /\ Len(x) - u - p = k - u
  BY <1>2, SMTT(20)
<1>4. \A t \in 1..(k - u) : x[p + u + t] = a[p + v + t] /\ a[p + v + t] = b[q + u + t]
  <2>1. \A t \in 1..(Len(x) - u - p) : x[p + u + t] = a[p + v + t]
    BY DEF OneStep
  <2>2. \A t \in 1..(Len(a) - (p + v)) : a[p + v + t] = b[q + u + t]
    BY DEF TailsAgree
  <2> HIDE DEF k
  <2> QED
    BY <1>3, <2>1, <2>2
<1>5. ASSUME NEW t \in 1..k PROVE x[p + t] = b[q + t]
  <2>1. CASE u = 0
    <3>1. t \in 1..(k - u) /\ p + u + t = p + t /\ q + u + t = q + t
      BY <1>3, <2>1
    <3> HIDE DEF k
    <3> QED
      BY <1>4, <3>1
  <2>2. CASE u = 1 /\ t = 1
    BY <2>2
  <2>3. CASE u = 1 /\ t # 1
    <3>1. t - 1 \in 1..(k - u) /\ p + u + (t - 1) = p + t /\ q + u + (t - 1) = q + t
      BY <1>3, <2>3
    <3> HIDE DEF k
    <3> QED
      BY <1>4, <3>1
  <2> QED
    BY <2>1, <2>2, <2>3
<1>6. TailsAgree(x, p, b, q)
  BY <1>3, <1>5 DEF TailsAgree
<1> QED
  BY <1>1, <1>3, <1>6

LEMMA OneLess ==
    ASSUME NEW a \in Seq(Letters), NEW b \in Seq(Letters), NEW r \in Nat, levenshtein(a, b) = r + 1
    PROVE  \E x \in Edits(a) : x \in Seq(Letters) /\ levenshtein(x, b) <= r
<1>1. PICK d : LevTable(d, a, b) /\ levenshtein(a, b) = d[Len(a)][Len(b)]
  BY LevenshteinTable
<1>2. PICK i \in 0..Len(a), j \in 0..Len(b) :
             TailsAgree(a, i, b, j) /\ PaidFrom(d, i, j, r)
  <2>1. LevTable(d, a, b) /\ d[Len(a)][Len(b)] = r + 1
    BY <1>1
  <2> QED
    BY <2>1, LastEdit
<1>3. SUFFICES ASSUME NEW x \in Edits(a), x \in Seq(Letters), NEW p \in 0..Len(a), NEW q \in 0..Len(b),
                      NEW u \in 0..1, NEW v \in 0..1, OneStep(x, a, p, u, v),
                      p + v = i, q + u = j, u = 1 => x[p + 1] = b[q + 1], d[p][q] = r
               PROVE  levenshtein(x, b) <= r
  <2>1. CASE j # 0 /\ d[i][j - 1] = r
    <3> DEFINE q == j - 1
               h == i + 1
               x == InsertAt(a, h, b[j])
    <3>1. b[j] \in Letters /\ h \in 1..(Len(a) + 1) /\ q \in 0..Len(b) /\ h - 1 = i
      BY <2>1
    <3>2. x \in Edits(a)
      BY <3>1 DEF Edits
    <3>3. x \in Seq(Letters) /\ x[h] = b[j] /\ OneStep(x, a, h - 1, 1, 0)
      <4> DEFINE c == b[j]
      <4>1. c \in Letters /\ h \in 1..(Len(a) + 1) /\ x = InsertAt(a, h, c)
        BY <3>1, Zenon
      <4> HIDE DEF c, x, h
      <4>2. x \in Seq(Letters) /\ x[h] = c /\ OneStep(x, a, h - 1, 1, 0)
        BY <4>1, InsertStep
      <4> QED
        BY <4>2, Zenon DEF c
    <3>4. d[i][q] = r
      BY <2>1, Zenon
    <3> HIDE DEF x, q
    <3>5. q + 1 = j /\ i + 0 = i
      BY <2>1 DEF q
    <3>6. x[i + 1] = b[q + 1] /\ OneStep(x, a, i, 1, 0)
      BY <3>1, <3>3, <3>5
    <3> QED
      BY <1>3, <3>1, <3>2, <3>3, <3>4, <3>5, <3>6
  <2>2. CASE i # 0 /\ d[i - 1][j] = r
    <3> DEFINE p == i - 1
               x == RemoveAt(a, i)
    <3>1. i \in DOMAIN a /\ p \in 0..Len(a)
      BY <2>2
    <3>2. x \in Edits(a)
      BY <3>1 DEF Edits
    <3>3. x \in Seq(Letters) /\ OneStep(x, a, p, 0, 1)
      BY <3>1, RemoveStep, Zenon
    <3>4. d[p][j] = r
      BY <2>2, Zenon
    <3> HIDE DEF x, p
    <3>5. p + 1 = i /\ j + 0 = j
      BY <2>2 DEF p
    <3> QED
      BY <1>3, <3>1, <3>2, <3>3, <3>4, <3>5
  <2>3. CASE i # 0 /\ j # 0 /\ d[i - 1][j - 1] = r
    <3> DEFINE p == i - 1
               q == j - 1
               x == ReplaceAt(a, i, b[j])
    <3>1. b[j] \in Letters /\ i \in DOMAIN a /\ p \in 0..Len(a) /\ q \in 0..Len(b)
      BY <2>3
    <3>2. x \in Edits(a)
      BY <3>1 DEF Edits
    <3>3. x \in Seq(Letters) /\ x[i] = b[j] /\ OneStep(x, a, p, 1, 1)
      <4> DEFINE c == b[j]
      <4>1. c \in Letters /\ i \in DOMAIN a /\ x = ReplaceAt(a, i, c)
        BY <3>1, Zenon
      <4> HIDE DEF c, x
      <4>2. x \in Seq(Letters) /\ x[i] = c /\ OneStep(x, a, i - 1, 1, 1)
        BY <4>1, ReplaceStep
      <4> QED
        BY <4>2, Zenon DEF c
    <3>4. d[p][q] = r
      BY <2>3, Zenon
    <3> HIDE DEF x, p, q
    <3>5. p + 1 = i /\ q + 1 = j
      BY <2>3 DEF p, q
    <3>6. x[p + 1] = b[q + 1]
      BY <3>3, <3>5
    <3> QED
      BY <1>3, <3>1, <3>2, <3>3, <3>4, <3>5, <3>6
  <2> QED
    BY <1>2, <2>1, <2>2, <2>3 DEF PaidFrom
<1>4. TailsAgree(a, p + v, b, q + u) /\ p + v <= Len(a) /\ q + u <= Len(b) /\ p \in Nat /\ q \in Nat
  <2>1. p + v = i /\ q + u = j
    BY <1>3
  <2>2. TailsAgree(a, p + v, b, q + u)
    BY <1>2, <2>1, Zenon
  <2> QED
    BY <2>1, <2>2
<1>5. p <= Len(x) /\ HeadsAgree(x, a, p) /\ TailsAgree(x, p, b, q)
  BY <1>3, <1>4, StepAcross
<1>6. LevTable(d, a, b) /\ d[p][q] = r
  BY <1>1, <1>3
<1> QED
  BY <1>3, <1>5, <1>6, CarriedOn
\* The other way about, from either word.
LEMMA StepBack ==
    ASSUME NEW a, NEW b, NEW p, NEW u, NEW v, OneStep(a, b, p, u, v)
    PROVE  OneStep(b, a, p, v, u)
BY DEF OneStep

LEMMA EditCosts ==
    ASSUME NEW w \in Seq(Letters), NEW x \in Edits(w)
    PROVE  x \in Seq(Letters) /\ levenshtein(w, x) <= 1 /\ damerauLevenshtein(w, x) <= 1
<1>1. x \in Seq(Letters)
  BY EditShape
<1>2. PICK p \in Nat, u \in 0..1, v \in 0..1 : OneStep(x, w, p, u, v)
  BY EditShape
<1>3. OneStep(w, x, p, v, u) /\ u \in 0..2 /\ v \in 0..2 /\ v # 2
  BY <1>2, StepBack
<1> QED
  BY <1>1, <1>3, OneStepCosts

LEMMA OneAway ==
    ASSUME NEW a \in Seq(Letters), NEW b \in Seq(Letters), levenshtein(a, b) <= 1
    PROVE  b \in Within({a})
<1>1. levenshtein(a, b) \in Nat /\ (levenshtein(a, b) = 0 <=> a = b)
  BY LevenshteinIsMetric
<1>2. CASE levenshtein(a, b) = 0
  BY <1>1, <1>2 DEF Within
<1>3. CASE levenshtein(a, b) # 0
  <2>1. levenshtein(a, b) = 0 + 1 /\ 0 \in Nat
    BY <1>1, <1>3
  <2>2. PICK x \in Edits(a) : x \in Seq(Letters) /\ levenshtein(x, b) <= 0
    BY <2>1, OneLess
  <2>3. levenshtein(x, b) \in Nat /\ (levenshtein(x, b) = 0 <=> x = b)
    BY <2>2, LevenshteinIsMetric
  <2>4. x = b
    BY <2>2, <2>3
  <2> QED
    BY <2>4 DEF Within
<1> QED
  BY <1>2, <1>3

LEMMA WithinByDistance ==
    ASSUME NEW a \in Seq(Letters), NEW b \in Seq(Letters)
    PROVE  b \in Within({a}) <=> levenshtein(a, b) <= 1
<1>1. b \in Within({a}) => b = a \/ b \in Edits(a)
  BY DEF Within
<1>2. b = a => levenshtein(a, b) <= 1
  BY LevenshteinIsMetric
<1> QED
  BY <1>1, <1>2, EditCosts, OneAway

\* The distance of levenshtein is the number of edits: a word is within k + 1 of
\* another exactly if an edit of it, or it itself, is within k of the other, and it
\* is within 0 of itself alone (bktree.go levenshtein).
THEOREM LevenshteinCountsEdits ==
    ASSUME NEW a \in Seq(Letters), NEW b \in Seq(Letters), NEW k \in Nat
    PROVE  /\ levenshtein(a, b) <= 0 <=> a = b
           /\ levenshtein(a, b) <= k + 1
                <=> \E x \in Within({a}) : x \in Seq(Letters) /\ levenshtein(x, b) <= k
<1>1. levenshtein(a, b) \in Nat /\ (levenshtein(a, b) = 0 <=> a = b)
  BY LevenshteinIsMetric
<1>2. ASSUME levenshtein(a, b) <= k + 1
      PROVE  \E x \in Within({a}) : x \in Seq(Letters) /\ levenshtein(x, b) <= k
  <2>1. CASE levenshtein(a, b) <= k
    BY <2>1 DEF Within
  <2>2. CASE ~(levenshtein(a, b) <= k)
    <3>1. levenshtein(a, b) = k + 1
      BY <1>1, <1>2, <2>2
    <3>2. PICK x \in Edits(a) : x \in Seq(Letters) /\ levenshtein(x, b) <= k
      BY <3>1, OneLess
    <3> QED
      BY <3>2 DEF Within
  <2> QED
    BY <2>1, <2>2
<1>3. ASSUME NEW x \in Within({a}), x \in Seq(Letters), levenshtein(x, b) <= k
      PROVE  levenshtein(a, b) <= k + 1
  <2>1. x = a \/ x \in Edits(a)
    BY DEF Within
  <2>2. CASE x = a
    BY <1>1, <1>3, <2>2
  <2>3. CASE x \in Edits(a)
    <3>1. levenshtein(a, x) <= 1
      BY <2>3, EditCosts
    <3>2. levenshtein(a, b) <= levenshtein(a, x) + levenshtein(x, b)
      BY <1>3, LevenshteinIsMetric
    <3>3. levenshtein(a, x) \in Nat /\ levenshtein(x, b) \in Nat
      BY <1>3, LevenshteinIsMetric
    <3> QED
      BY <1>1, <1>3, <3>1, <3>2, <3>3
  <2> QED
    BY <2>1, <2>2, <2>3
<1>4. levenshtein(a, b) <= 0 <=> a = b
  BY <1>1
<1> QED
  BY <1>2, <1>3, <1>4

\* What begins and ends alike is one step away.
LEMMA TailLengths ==
    ASSUME NEW C, NEW a \in Seq(C), NEW b \in Seq(C), NEW p \in Nat, NEW u \in Nat, NEW v \in Nat,
           TailsAgree(a, p + u, b, p + v)
    PROVE  Len(a) - u = Len(b) - v /\ Len(a) - (p + u) = Len(a) - u - p
BY DEF TailsAgree

LEMMA StepBetween ==
    ASSUME NEW C, NEW a \in Seq(C), NEW b \in Seq(C), NEW p \in Nat, NEW u \in 0..2, NEW v \in 0..2,
           HeadsAgree(a, b, p), p + u <= Len(a), p + v <= Len(b), TailsAgree(a, p + u, b, p + v),
           \/ u \in {0, 1} /\ v \in {0, 1}
           \/ u = 2 /\ v = 2 /\ a[p + 1] = b[p + 2] /\ a[p + 2] = b[p + 1]
    PROVE  OneStep(a, b, p, u, v)
<1>1. Len(a) - u = Len(b) - v /\ Len(a) - (p + u) = Len(a) - u - p
  <2>1. u \in Nat /\ v \in Nat
    OBVIOUS
  <2> QED
    BY <2>1, TailLengths
<1>2. \A t \in 1..(Len(a) - u - p) : a[p + u + t] = b[p + v + t]
  BY <1>1 DEF TailsAgree
<1> QED
  BY <1>1, <1>2 DEF OneStep, HeadsAgree

\* At distance 1 the words differ by one step.
LEMMA OneStepBetween ==
    ASSUME NEW C, NEW a \in Seq(C), NEW b \in Seq(C), damerauLevenshtein(a, b) = 1
    PROVE  \E p \in Nat, u \in 0..2, v \in 0..2 : OneStep(a, b, p, u, v)
<1>1. PICK d : OsaTable(d, a, b) /\ damerauLevenshtein(a, b) = d[Len(a)][Len(b)]
  BY DamerauTable
<1>2. PICK i \in 0..Len(a), j \in 0..Len(b) : LastPaid(d, a, b, i, j)
  BY PaidAt
<1>3. /\ TailsAgree(a, i, b, j) /\ d[i][j] = 1
      /\ i = 0 \/ j = 0 \/ a[i] # b[j] \/ d[i - 1][j - 1] # 1
  BY <1>1, <1>2 DEF LastPaid
<1>4. \A p \in 0..Len(a), q \in 0..Len(b) : d[p][q] = 0 => p = q /\ HeadsAgree(a, b, p)
  <2>1. Floored(d, a, b)
    BY <1>1, OsaFloored
  <2>2. \A p \in 0..Len(a), q \in 0..Len(b) : d[p][q] = 0 <=> p = q /\ \A k \in 1..p : a[k] = b[k]
    BY <2>1, ZeroPrefixes
  <2> QED
    BY <2>2 DEF HeadsAgree
<1>5. \A p \in 0..Len(a), q \in 0..Len(b) :
        d[p][q] \in Nat /\ (p = 0 => d[p][q] = q) /\ (q = 0 => d[p][q] = p)
  <2>1. Bounded(d, a, b)
    BY <1>1, TablesBounded
  <2> QED
    BY <2>1 DEF Bounded
<1>6. SUFFICES ASSUME NEW p \in 0..Len(a), NEW q \in 0..Len(b), d[p][q] = 0,
                      NEW u \in 0..2, NEW v \in 0..2, p + u = i, q + v = j,
                      (u \in {0, 1} /\ v \in {0, 1}) \/ (u = 2 /\ v = 2 /\ Swapped(a, b, i, j))
               PROVE  OneStep(a, b, p, u, v)
  <2> SUFFICES \E p \in 0..Len(a), q \in 0..Len(b), u \in 0..2, v \in 0..2 :
                 /\ d[p][q] = 0 /\ p + u = i /\ q + v = j
                 /\ (u \in {0, 1} /\ v \in {0, 1}) \/ (u = 2 /\ v = 2 /\ Swapped(a, b, i, j))
    BY <1>6
  <2>1. CASE i = 0
    <3>1. d[i][j] = j
      BY <2>1, <1>5
    <3>2. j = 1
      BY <1>3, <3>1
    <3>3. 0 \in 0..Len(b) /\ d[0][0] = 0
      BY <2>1, <1>5
    <3> QED
      BY <2>1, <3>2, <3>3
  <2>2. CASE i # 0 /\ j = 0
    <3>1. d[i][j] = i
      BY <2>2, <1>5
    <3>2. i = 1
      BY <1>3, <3>1
    <3>3. 0 \in 0..Len(a) /\ d[0][0] = 0
      BY <2>2, <1>5
    <3> QED
      BY <2>2, <3>2, <3>3
  <2>3. CASE i # 0 /\ j # 0
    <3> DEFINE x1 == d[i][j - 1]
               x2 == d[i - 1][j]
               x3 == d[i - 1][j - 1]
               x4 == d[i - 2][j - 2]
               c == Cost(a, b, i, j)
               w == Swapped(a, b, i, j)
    <3>1. i - 1 \in 0..Len(a) /\ j - 1 \in 0..Len(b)
      BY <2>3
    <3>2. x1 \in Nat /\ x2 \in Nat /\ x3 \in Nat
      BY <3>1, <1>5
    <3>3. w => i - 2 \in 0..Len(a) /\ j - 2 \in 0..Len(b)
      BY DEF Swapped
    <3>4. w => x4 \in Nat
      BY <3>3, <1>5
    <3>5. 1 = x1 + 1 \/ 1 = x2 + 1 \/ 1 = x3 + c \/ (w /\ 1 = x4 + 1)
      <4>1. d[i][j] = x1 + 1 \/ d[i][j] = x2 + 1 \/ d[i][j] = x3 + c \/ (w /\ d[i][j] = x4 + 1)
        BY <1>1, <2>3, OsaCell
      <4> QED
        BY <1>3, <4>1
    <3>6. c \in {0, 1} /\ (c = 0 => x3 # 1)
      BY <1>3, <2>3, CostFacts
    <3> HIDE DEF x1, x2, x3, x4, c, w
    <3>7. x1 = 0 \/ x2 = 0 \/ x3 = 0 \/ (w /\ x4 = 0)
      BY <3>2, <3>4, <3>5, <3>6
    <3>8. CASE x1 = 0
      BY <2>3, <3>1, <3>8 DEF x1
    <3>9. CASE x2 = 0
      BY <2>3, <3>1, <3>9 DEF x2
    <3>10. CASE x3 = 0
      BY <2>3, <3>1, <3>10 DEF x3
    <3>11. CASE w /\ x4 = 0
      BY <2>3, <3>3, <3>11 DEF x4, w
    <3> QED
      BY <3>7, <3>8, <3>9, <3>10, <3>11
  <2> QED
    BY <2>1, <2>2, <2>3
<1>7. q = p /\ HeadsAgree(a, b, p) /\ p \in Nat
  BY <1>4, <1>6
<1>8. TailsAgree(a, p + u, b, p + v) /\ p + u <= Len(a) /\ p + v <= Len(b)
  BY <1>3, <1>6, <1>7
<1>9. \/ u \in {0, 1} /\ v \in {0, 1}
      \/ u = 2 /\ v = 2 /\ a[p + 1] = b[p + 2] /\ a[p + 2] = b[p + 1]
  <2>1. CASE u = 2 /\ v = 2 /\ Swapped(a, b, i, j)
    <3>1. a[i] = b[j - 1] /\ a[i - 1] = b[j]
      BY <2>1 DEF Swapped
    <3>2. i = p + 2 /\ j = p + 2 /\ i - 1 = p + 1 /\ j - 1 = p + 1
      BY <1>6, <1>7, <2>1
    <3> QED
      BY <2>1, <3>1, <3>2
  <2> QED
    BY <1>6, <2>1
<1> QED
  BY <1>7, <1>8, <1>9, StepBetween

\* A step of two characters is a swap.
LEMMA SwapIs ==
    ASSUME NEW C, NEW a \in Seq(C), NEW b \in Seq(C), NEW p \in Nat, OneStep(a, b, p, 2, 2)
    PROVE  b \in Swaps(a)
<1> DEFINE i == p + 1
           s == [a EXCEPT ![i] = a[i + 1], ![i + 1] = a[i]]
<1>1. /\ Len(a) = Len(b) /\ i \in 1..(Len(a) - 1)
      /\ a[i] = b[i + 1] /\ a[i + 1] = b[i]
  BY DEF OneStep
<1>2. ASSUME NEW t \in 1..Len(a), t # i, t # i + 1 PROVE b[t] = a[t]
  <2>1. CASE t <= p
    BY <2>1 DEF OneStep
  <2>2. CASE ~(t <= p)
    <3> DEFINE h == t - (p + 2)
    <3>1. h \in 1..(Len(a) - 2 - p) /\ p + 2 + h = t
      BY <1>2, <2>2
    <3> HIDE DEF h, i
    <3>2. a[p + 2 + h] = b[p + 2 + h]
      BY <3>1 DEF OneStep
    <3> QED
      BY <3>1, <3>2
  <2> QED
    BY <2>1, <2>2
<1>3. /\ DOMAIN s = 1..Len(a)
      /\ \A t \in 1..Len(a) : s[t] = IF t = i + 1 THEN a[i] ELSE IF t = i THEN a[i + 1] ELSE a[t]
  <2>1. DOMAIN a = 1..Len(a)
    OBVIOUS
  <2> HIDE DEF i
  <2> QED
    BY <2>1, <1>1
<1>4. b = s
  <2>1. b = [t \in 1..Len(a) |-> b[t]] /\ s = [t \in 1..Len(a) |-> s[t]]
    <3>1. s = [t \in DOMAIN s |-> s[t]]
      OBVIOUS
    <3> HIDE DEF s
    <3>2. s = [t \in 1..Len(a) |-> s[t]]
      BY <1>3, <3>1
    <3>3. b = [t \in 1..Len(a) |-> b[t]]
      BY <1>1
    <3> QED
      BY <3>2, <3>3
  <2>2. \A t \in 1..Len(a) : b[t] = s[t]
    <3> HIDE DEF s, i
    <3> QED
      BY <1>1, <1>2, <1>3
  <2> HIDE DEF s
  <2> QED
    BY <2>1, <2>2
<1> QED
  BY <1>1, <1>4 DEF Swaps
\* damerauLevenshtein is at most 1 for one edit or swap, and for nothing else.
LEMMA OneEditOrSwap ==
    ASSUME NEW a \in Seq(Letters), NEW b \in Seq(Letters)
    PROVE  damerauLevenshtein(a, b) <= 1 <=> b \in Within({a}) \union Swaps(a)
<1>1. damerauLevenshtein(a, b) \in Nat /\ (damerauLevenshtein(a, b) = 0 <=> a = b)
  BY DamerauAgainstLevenshtein
<1>2. ASSUME b \in Within({a}) \union Swaps(a)
      PROVE  damerauLevenshtein(a, b) <= 1
  <2>1. b = a \/ b \in Edits(a) \/ b \in Swaps(a)
    BY <1>2 DEF Within
  <2>2. CASE b = a
    BY <1>1, <2>2
  <2>3. CASE b \in Edits(a)
    BY <2>3, EditCosts
  <2>4. CASE b \in Swaps(a)
    <3>1. PICK p \in Nat : OneStep(b, a, p, 2, 2)
      BY <2>4, SwapShape
    <3>2. OneStep(a, b, p, 2, 2) /\ 2 \in 0..2
      BY <3>1, StepBack
    <3> QED
      BY <3>2, OneStepCosts
  <2> QED
    BY <2>1, <2>2, <2>3, <2>4
<1>3. ASSUME damerauLevenshtein(a, b) <= 1
      PROVE  b \in Within({a}) \union Swaps(a)
  <2>1. CASE damerauLevenshtein(a, b) = 0
    BY <1>1, <2>1 DEF Within
  <2>2. CASE damerauLevenshtein(a, b) # 0
    <3>1. damerauLevenshtein(a, b) = 1
      BY <1>1, <1>3, <2>2
    <3>2. PICK p \in Nat, u \in 0..2, v \in 0..2 : OneStep(a, b, p, u, v)
      BY <3>1, OneStepBetween
    <3>3. CASE u = 2
      <4>1. v = 2
        BY <3>2, <3>3 DEF OneStep
      <4> QED
        BY <3>2, <3>3, <4>1, SwapIs
    <3>4. CASE u # 2
      <4>1. levenshtein(a, b) <= 1
        BY <3>2, <3>4, OneStepCosts
      <4> QED
        BY <4>1, OneAway
    <3> QED
      BY <3>3, <3>4
  <2> QED
    BY <2>1, <2>2
<1> QED
  BY <1>2, <1>3

\* How far edits reach, step by step, with the text of the definition of Nearby.
IsNear(near, w) == near = [k \in 0..WarnDistance |-> IF k = 0 THEN {w} ELSE Within(near[k - 1])]

LEMMA WithinType == ASSUME NEW V \in SUBSET Seq(Letters) PROVE Within(V) \in SUBSET Seq(Letters)
BY EditShape DEF Within

LEMMA NearExists ==
    ASSUME NEW w \in Seq(Letters)
    PROVE  \E near \in [0..WarnDistance -> SUBSET Seq(Letters)] : IsNear(near, w)
<1> DEFINE V == SUBSET Seq(Letters)
           n == WarnDistance
           G == [k \in 1..n |-> [W \in V |-> Within(W)]]
<1>1. n \in Nat /\ {w} \in V
  BY DistanceAssumption
<1>2. G \in [1..n -> [V -> V]]
  BY WithinType
<1>3. PICK r \in [0..n -> V] : IsRecursion(r, n, {w}, G)
  <2> HIDE DEF G, V, n
  <2> QED
    BY <1>1, <1>2, RecursionExists
<1>4. r = [k \in 0..n |-> IF k = 0 THEN {w} ELSE G[k][r[k - 1]]]
  BY <1>3 DEF IsRecursion
<1>5. \A k \in 0..n : k # 0 => G[k][r[k - 1]] = Within(r[k - 1])
  <2> SUFFICES ASSUME NEW k \in 0..n, k # 0 PROVE G[k][r[k - 1]] = Within(r[k - 1])
    OBVIOUS
  <2>1. k \in 1..n /\ r[k - 1] \in V
    BY <1>1, <1>3
  <2> HIDE DEF n, V
  <2> QED
    BY <2>1, Zenon
<1> HIDE DEF G
<1>6. \A k \in 0..n : r[k] = IF k = 0 THEN {w} ELSE Within(r[k - 1])
  BY <1>4, <1>5
<1>7. r = [k \in 0..n |-> IF k = 0 THEN {w} ELSE Within(r[k - 1])]
  <2>1. r = [k \in 0..n |-> r[k]]
    BY <1>3
  <2> QED
    BY <1>6, <2>1, Zenon
<1> QED
  BY <1>3, <1>7, Zenon DEF IsNear

LEMMA NearbyIs ==
    ASSUME NEW w \in Seq(Letters)
    PROVE  \A k \in 0..WarnDistance :
             Nearby(w)[k] = IF k = 0 THEN {w} ELSE Within(Nearby(w)[k - 1])
<1> DEFINE near == CHOOSE near : IsNear(near, w)
<1>1. IsNear(near, w)
  BY NearExists, Zenon
<1>2. Nearby(w) = near
  BY DEF Nearby, IsNear
<1> HIDE DEF near
<1> QED
  BY <1>1, <1>2 DEF IsNear

LEMMA NearbyByDistance ==
    ASSUME NEW a \in Seq(Letters), NEW k \in 0..WarnDistance
    PROVE  /\ Nearby(a)[k] \subseteq Seq(Letters)
           /\ \A b \in Seq(Letters) : levenshtein(a, b) <= k <=> b \in Nearby(a)[k]
<1> DEFINE Good(m) == /\ Nearby(a)[m] \subseteq Seq(Letters)
                      /\ \A b \in Seq(Letters) : levenshtein(a, b) <= m <=> b \in Nearby(a)[m]
           S == {m \in Nat : m <= WarnDistance => Good(m)}
<1>0. WarnDistance \in Nat
  BY DistanceAssumption
<1>1. ASSUME NEW m \in Nat, \A h \in Nat : h < m => h \in S
      PROVE  m \in S
  <2> SUFFICES ASSUME m <= WarnDistance PROVE Good(m)
    OBVIOUS
  <2>0. m \in 0..WarnDistance
    BY <1>0
  <2>1. Nearby(a)[m] = IF m = 0 THEN {a} ELSE Within(Nearby(a)[m - 1])
    BY <2>0, NearbyIs, Zenon
  <2>2. CASE m = 0
    <3>1. \A b \in Seq(Letters) : levenshtein(a, b) <= 0 <=> a = b
      BY LevenshteinCountsEdits
    <3> QED
      BY <2>1, <2>2, <3>1
  <2>3. CASE m # 0
    <3> DEFINE h == m - 1
    <3>1. h \in Nat /\ m = h + 1 /\ h \in S /\ h <= WarnDistance
      BY <1>0, <1>1, <2>3
    <3>2. Nearby(a)[m] = Within(Nearby(a)[h])
      BY <2>1, <2>3, Zenon
    <3>3. Good(h)
      BY <3>1
    <3> HIDE DEF h, S
    <3>4. Nearby(a)[m] \subseteq Seq(Letters)
      BY <3>2, <3>3, WithinType
    <3>5. ASSUME NEW b \in Seq(Letters)
          PROVE  levenshtein(a, b) <= h + 1 <=> b \in Within(Nearby(a)[h])
      <4>1. levenshtein(a, b) = levenshtein(b, a)
        BY LevenshteinIsMetric
      <4>2. levenshtein(b, a) <= h + 1
              <=> \E x \in Within({b}) : x \in Seq(Letters) /\ levenshtein(x, a) <= h
        BY <3>1, LevenshteinCountsEdits
      <4>3. \A x \in Seq(Letters) : /\ levenshtein(x, a) = levenshtein(a, x)
                                    /\ x \in Within({b}) <=> b \in Within({x})
        <5> SUFFICES ASSUME NEW x \in Seq(Letters)
                     PROVE  /\ levenshtein(x, a) = levenshtein(a, x)
                            /\ x \in Within({b}) <=> b \in Within({x})
          OBVIOUS
        <5>1. levenshtein(x, a) = levenshtein(a, x) /\ levenshtein(x, b) = levenshtein(b, x)
          BY LevenshteinIsMetric
        <5>2. x \in Within({b}) <=> levenshtein(b, x) <= 1
          BY WithinByDistance
        <5>3. b \in Within({x}) <=> levenshtein(x, b) <= 1
          BY WithinByDistance
        <5> QED
          BY <5>1, <5>2, <5>3
      <4>4. b \in Within(Nearby(a)[h]) <=> \E x \in Nearby(a)[h] : b \in Within({x})
        BY DEF Within
      <4>5. \A x \in Seq(Letters) : levenshtein(a, x) <= h <=> x \in Nearby(a)[h]
        BY <3>3
      <4>6. Nearby(a)[h] \subseteq Seq(Letters)
        BY <3>3
      <4> HIDE DEF Good
      <4>7. (\E x \in Within({b}) : x \in Seq(Letters) /\ levenshtein(x, a) <= h)
              <=> \E x \in Nearby(a)[h] : b \in Within({x})
        BY <4>3, <4>5, <4>6
      <4> QED
        BY <4>1, <4>2, <4>4, <4>7, Zenon
    <3> QED
      BY <3>1, <3>2, <3>4, <3>5
  <2> QED
    BY <2>2, <2>3
<1>2. \A m \in Nat : m \in S
  <2> HIDE DEF S
  <2> QED
    BY <1>1, InductionOn
<1>3. k \in Nat /\ k <= WarnDistance /\ k \in S
  <2> HIDE DEF S
  <2> QED
    BY <1>0, <1>2
<1> QED
  BY <1>3

\* The tree is searched by levenshtein.
SearchesByLevenshtein == \A v, w \in Words : Lev(v, w) = levenshtein(v, w)

LEMMA DistancesCount ==
    ASSUME SearchesByLevenshtein, RanksByDamerau, IInv
    PROVE  DistancesRight
<1> SUFFICES ASSUME rule # "none", NEW w \in nodes
             PROVE  /\ \A k \in 0..WarnDistance : Lev(w, query) <= k <=> query \in Nearby(w)[k]
                    /\ Damerau(w, query) <= 1 <=> query \in Within({w}) \union Swaps(w)
  BY DEF DistancesRight
<1>1. w \in Words /\ query \in Words
  BY DEF IInv, BKTypeOK, RuleInv
<1>2. w \in Seq(Letters) /\ query \in Seq(Letters)
  <2>1. ASSUME NEW v \in Words PROVE v \in Seq(Letters)
    <3>1. v \in Seq(Range(v))
      BY NameAssumption
    <3>2. Range(v) \subseteq Letters
      BY DEF Letters
    <3> HIDE DEF Letters
    <3> QED
      BY <3>1, <3>2
  <2> QED
    BY <1>1, <2>1
<1>3. Lev(w, query) = levenshtein(w, query) /\ Damerau(w, query) = damerauLevenshtein(w, query)
  BY <1>1 DEF SearchesByLevenshtein, RanksByDamerau, CheckedWords
<1> QED
  BY <1>2, <1>3, NearbyByDistance, OneEditOrSwap

\* However many names the list has, and whatever the tolerance: the distance the
\* tree is searched by counts single edits, and the one candidates are ranked by
\* is at most 1 for one edit or swap and for nothing else.
THEOREM DistancesAreEdits ==
    ASSUME SearchesByLevenshtein, RanksByDamerau
    PROVE  TypoSpec => []DistancesRight
<1>1. TypoInv /\ [TypoNext]_typoVars => TypoInv'
  BY TypoStep
<1>2. TypoInv => DistancesRight
  BY DistancesCount DEF TypoInv
<1> QED
  BY StagesInit, <1>1, <1>2, PTL DEF TypoSpec

--------------------------------------------------------------------------------
\* The checker and its tree.

\* No scope is counted more often than lines were read.
Counted ==
    /\ lines \in 0..MaxLines
    /\ scopeCount \in [Scopes -> Nat]
    /\ \A s \in Scopes : scopeCount[s] <= lines

TypedInv == TypoInv /\ Counted

LEMMA CountedInit == TypoInit => Counted
BY NameAssumption DEF TypoInit, Counted

LEMMA CountedStep == ASSUME Counted, [TypoNext]_typoVars PROVE Counted'
<1>1. ASSUME UNCHANGED <<lines, scopeCount>> PROVE Counted'
  BY <1>1 DEF Counted
<1>2. CASE UNCHANGED typoVars
  BY <1>1, <1>2 DEF typoVars
<1>3. ASSUME NEW n \in PopularList, LoadLine(n) PROVE Counted'
  <2>1. MaxLines \in Nat
    BY NameAssumption
  <2>2. lines < MaxLines /\ lines' = lines + 1
    BY <1>3 DEF LoadLine
  <2>3. scopeCount' = [s \in Scopes |-> scopeCount[s] + IF s = Lowered(n.scope) THEN 1 ELSE 0]
    BY <1>3 DEF LoadLine
  <2>4. lines' \in 0..MaxLines
    BY <2>1, <2>2 DEF Counted
  <2>5. ASSUME NEW s \in Scopes
        PROVE  scopeCount'[s] \in Nat /\ scopeCount'[s] <= lines'
    <3>1. scopeCount[s] \in Nat /\ scopeCount[s] <= lines /\ lines \in Nat
      BY DEF Counted
    <3>2. scopeCount'[s] = scopeCount[s] + IF s = Lowered(n.scope) THEN 1 ELSE 0
      BY <2>3, Zenon
    <3> QED
      BY <2>2, <3>1, <3>2
  <2>6. scopeCount' \in [Scopes -> Nat]
    BY <2>3, <2>5
  <2> QED
    BY <2>4, <2>5, <2>6 DEF Counted
<1>4. ASSUME NEW n \in Asked, CheckName(n) PROVE Counted'
  BY <1>1, <1>4 DEF CheckName
<1>5. CASE TreeStep
  BY <1>1, <1>5 DEF TreeStep
<1> QED
  BY <1>2, <1>3, <1>4, <1>5 DEF TypoNext

LEMMA TypedByInv == ASSUME TypedInv PROVE TypoTypeOK
<1>1. BKTypeOK
  BY DEF TypedInv, TypoInv, IInv
<1>2. lines \in 0..MaxLines /\ scopeCount \in [Scopes -> 0..MaxLines]
  <2>1. MaxLines \in Nat
    BY NameAssumption
  <2>2. lines \in 0..MaxLines /\ scopeCount \in [Scopes -> Nat]
    BY DEF TypedInv, Counted
  <2>3. \A s \in Scopes : scopeCount[s] <= lines
    BY DEF TypedInv, Counted
  <2>4. \A s \in Scopes : scopeCount[s] \in 0..MaxLines
    BY <2>1, <2>2, <2>3
  <2> QED
    BY <2>2, <2>4
<1>3. Stages
  BY DEF TypedInv, TypoInv
<1>4. asked \in Asked \union {NoName}
  BY <1>3 DEF Stages
<1>5. checkScope(Lowered(asked.scope)) \subseteq {"typosquat_scope_close", "typosquat_scope_warn"}
  BY DEF checkScope
<1>6. early \subseteq {"typosquat_scope_close", "typosquat_scope_warn",
                      "typosquat_ascii_homoglyph", "typosquat_combosquat"}
  <2>1. CASE asked = NoName
    BY <1>3, <2>1 DEF Stages
  <2>2. CASE asked # NoName
    <3> DEFINE scoped == checkScope(Lowered(asked.scope))
    <3>1. \/ early = scoped
          \/ early = scoped \union {"typosquat_ascii_homoglyph"}
          \/ early = scoped \union {"typosquat_combosquat"}
          \/ early = scoped \union {}
      BY <1>3, <2>2 DEF Stages
    <3> HIDE DEF scoped
    <3> QED
      BY <1>5, <3>1 DEF scoped
  <2> QED
    BY <2>1, <2>2
<1> QED
  BY <1>1, <1>2, <1>4, <1>6 DEF TypoTypeOK

\* Every variable of the checker stays in its type: no scope is counted more often
\* than the list has lines, whatever the list and the names asked for, and what a
\* check says before it searches is the signal of a stage
\* (typosquatting.go NewTyposquatChecker, Check).
THEOREM TypoTyped == TypoSpec => []TypoTypeOK
<1>1. TypoInit => TypedInv
  BY StagesInit, CountedInit DEF TypedInv
<1>2. TypedInv /\ [TypoNext]_typoVars => TypedInv'
  BY TypoStep, CountedStep DEF TypedInv
<1>3. TypedInv => TypoTypeOK
  BY TypedByInv
<1> QED
  BY <1>1, <1>2, <1>3, PTL DEF TypoSpec

LEMMA CheckerStep == ASSUME TypoInv, [TypoNext]_typoVars PROVE [BKNext]_bkVars
<1>1. CASE UNCHANGED typoVars
  BY <1>1 DEF typoVars
<1>2. ASSUME NEW n \in PopularList, LoadLine(n) PROVE [BKNext]_bkVars
  <2>1. Lowered(n.bare) \in Words
    BY NameAssumption
  <2>2. UNCHANGED bkVars \/ NextWord(Lowered(n.bare))
    BY <1>2 DEF LoadLine
  <2> QED
    BY <2>1, <2>2 DEF BKNext
<1>3. ASSUME NEW n \in Asked, CheckName(n) PROVE [BKNext]_bkVars
  <2>1. Lowered(n.bare) \in Words
    BY NameAssumption
  <2>2. UNCHANGED bkVars \/ Search(Lowered(n.bare))
    BY <1>3 DEF CheckName
  <2> QED
    BY <2>1, <2>2 DEF BKNext
<1>4. CASE TreeStep
  <2>1. nodes \subseteq Words
    BY DEF TypoInv, IInv, BKTypeOK
  <2> QED
    BY <1>4, <2>1 DEF TreeStep, BKNext
<1> QED
  BY <1>1, <1>2, <1>3, <1>4 DEF TypoNext

\* The checker uses its tree as the tree's own specification has it: the list is
\* loaded by insertions, a name is searched for once and only when it is not in the
\* tree, and nothing else touches the tree (typosquatting.go NewTyposquatChecker,
\* Check; bktree.go).
THEOREM CheckerSearches == TypoSpec => BKSpec
<1>1. TypoInit => BKInit
  BY DEF TypoInit
<1>2. TypoInv /\ [TypoNext]_typoVars => TypoInv'
  BY TypoStep
<1>3. TypoInv /\ [TypoNext]_typoVars => [BKNext]_bkVars
  BY CheckerStep
<1> QED
  BY StagesInit, <1>1, <1>2, <1>3, PTL DEF TypoSpec, BKSpec

\* So the pruned search misses no popular name, and a close one is reported as
\* close, in every check and whatever the list: the theorems of the tree, of the
\* checker that uses it (bktree.go search, typosquatting.go Check).
THEOREM CheckerFinds == TypoSpec => [](SearchComplete /\ CloseMatchFound)
BY CheckerSearches, SearchIsComplete, CloseIsFound, PTL
==============================================================================
