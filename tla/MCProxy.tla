------------------------------ MODULE MCProxy -------------------------------
(* Proxy with two requests, up to two packages and up to two tarballs. *)
EXTENDS Proxy, TLC

CONSTANTS r1, r2, p1, p2, s1, s2

\* Two names, one tarball: its bytes are worth a warning whatever the name,
\* and only an advisory against one of the names makes it a block.
SharedSha     == [p \in Pkgs |-> s1]
SharedLayer1  == [p \in Pkgs |-> IF p = p1 THEN "allow" ELSE "warn"]
SharedVerdict == [p \in Pkgs |-> "warn"]

\* A tarball of its own for each name: p1 is at worst a warning, p2 at least
\* that, and its name alone makes it a block, if no append loses the signal.
OwnSha     == [p \in Pkgs |-> IF p = p1 THEN s1 ELSE s2]
OwnBytes   == [p \in Pkgs |-> IF p = p1 THEN "allow" ELSE "warn"]
OwnVerdict == [p \in Pkgs |-> IF p = p1 THEN "warn" ELSE "block"]

\* Behaviours with one request for each package, neither of which has an advisory
\* at first: the entries are one more than a batch of one holds.
BatchSpec ==
  /\ Init /\ osvDB = {} /\ pkg[r1] = p1 /\ pkg[r2] = p2
  /\ [][Next]_vars /\ Fairness

Symmetry == Permutations(Reqs)
=============================================================================
