------------------------------- MODULE Semver -------------------------------
(* Version numbers as internal/semverutil reads them.  A string that parses   *)
(* is <<major, minor, patch, rank, build>>: rank orders the pre-releases of   *)
(* one number, Stable above them all, and build is the metadata after a plus  *)
(* sign, which precedence ignores.  Any string that does not parse, the empty *)
(* one included, is Malformed.                                                *)
EXTENDS Integers

Stable == 9
Malformed == << >>
NoVersion == Malformed

LessThan(v, w) ==
    \E i \in 1..4 : v[i] < w[i] /\ \A j \in 1..(i - 1) : v[j] = w[j]

IsPatchBump(prev, next) ==
    /\ prev # Malformed
    /\ next # Malformed
    /\ prev[1] = next[1] /\ prev[2] = next[2] /\ next[3] = prev[3] + 1

\* The strings that PreviousVersion may return: the sort is not stable and its
\* input comes from a map, so versions of equal precedence are all possible.
PreviousVersions(available, current) ==
    LET older == {v \in available \ {current, Malformed} :
                     current # Malformed /\ LessThan(v, current)}
    IN  IF older = {} THEN {NoVersion}
        ELSE {v \in older : \A w \in older : ~LessThan(v, w)}
=============================================================================
