------------------------------ MODULE Verdicts ------------------------------
(***************************************************************************)
(* The three verdicts of internal/policy/engine.go and the order of their  *)
(* iota values: a larger severity is a stricter verdict.                   *)
(***************************************************************************)
EXTENDS Integers

Verdicts == {"allow", "warn", "block"}

Severity == [allow |-> 0, warn |-> 1, block |-> 2]

NoHarsher(v, w) == Severity[v] <= Severity[w]

\* The verdicts that losing evidence can turn v into.
UpTo(v) == {w \in Verdicts : NoHarsher(w, v)}
=============================================================================
