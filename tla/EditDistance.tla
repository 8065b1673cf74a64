---------------------------- MODULE EditDistance ----------------------------
(* The two edit distances of the typosquat checker, over words that are       *)
(* sequences of characters.                                                   *)
EXTENDS Integers, Sequences, FiniteSetsExt

Cost(a, b, i, j) == IF a[i] = b[j] THEN 0 ELSE 1

\* One row of levenshtein's table from the one above it; column 0 is i.
NextRow(a, b, i, above) ==
    LET row[j \in 0..Len(b)] ==
            IF j = 0 THEN i
            ELSE Min({row[j - 1] + 1, above[j] + 1, above[j - 1] + Cost(a, b, i, j)})
    IN  row

levenshtein(a, b) ==
    LET rows[i \in 0..Len(a)] ==
            IF i = 0 THEN [j \in 0..Len(b) |-> j] ELSE NextRow(a, b, i, rows[i - 1])
    IN  IF a = << >> THEN Len(b) ELSE IF b = << >> THEN Len(a) ELSE rows[Len(a)][Len(b)]

\* Slip: a swap of the first two letters is overlooked.
SwappedLate(a, b, i, j) == i > 2 /\ j > 2 /\ a[i] = b[j - 1] /\ a[i - 1] = b[j]

Swapped(a, b, i, j) == i > 1 /\ j > 1 /\ a[i] = b[j - 1] /\ a[i - 1] = b[j]

\* One row of damerauLevenshtein's table from the two above it.
DamerauRow(a, b, i, above, before) ==
    LET row[j \in 0..Len(b)] ==
            IF j = 0 THEN i
            ELSE Min({row[j - 1] + 1, above[j] + 1, above[j - 1] + Cost(a, b, i, j)}
                     \union (IF Swapped(a, b, i, j) THEN {before[j - 2] + 1} ELSE {}))
    IN  row

damerauLevenshtein(a, b) ==
    LET d[i \in 0..Len(a)] ==
            IF i = 0 THEN [j \in 0..Len(b) |-> j] ELSE DamerauRow(a, b, i, d[i - 1], d[i - 2])
    IN  d[Len(a)][Len(b)]
=============================================================================
