------------------------------ MODULE Typosquat ------------------------------
(***************************************************************************)
(* The typosquat checker (internal/analyzer/layer1/typosquatting.go): the  *)
(* list of popular names is loaded line by line into the tree of BKTree,   *)
(* then one name is checked, in stages that may end the check early: its   *)
(* scope, an exact match, look-alike characters, popular segments, and the *)
(* search of the tree.  The checker keeps nothing between two names.       *)
(*                                                                         *)
(* A name is [scope, bare], words over the characters the stages tell      *)
(* apart; the scope holds its @ and is << >> without one.                  *)
(***************************************************************************)
EXTENDS BKTree, Sequences, SequencesExt

CONSTANTS
  PopularList,    \* names the list may hold, as written there
  Asked,          \* names requests may ask for
  NoName,         \* not a name
  Folded,         \* NFKC and ToLower: the characters they change, and into what
  CombosquatScore, ScopeCloseScore, ScopeWarnScore,
  CombosquatMinSegLen,
  MaxLines        \* bound: lines of the list

Lowered(w) == [i \in DOMAIN w |-> IF w[i] \in DOMAIN Folded THEN Folded[w[i]] ELSE w[i]]

\* Names are words, and the tree's words are those of the list and of requests.
ASSUME NameAssumption ==
  /\ NoName \notin Asked /\ MaxLines \in Nat /\ CombosquatMinSegLen \in Int
  /\ \A n \in PopularList \union Asked :
       n.scope \in Seq(Range(n.scope)) /\ n.bare \in Seq(Range(n.bare)) /\ Lowered(n.bare) \in Words
  /\ \A w \in Words : w \in Seq(Range(w))

VARIABLES
  lines,       \* lines read
  scopeCount,  \* how many of them have each scope
  asked,       \* the name Check is called with, or NoName
  early        \* its signals before the search of the tree

typoVars == <<bkVars, lines, scopeCount, asked, early>>

-----------------------------------------------------------------------------
(* Names. *)

Scopes == {Lowered(n.scope) : n \in PopularList} \ {<< >>}

minPopularScopeOccurrences == 3

popularScopes == {s \in Scopes : scopeCount[s] >= minPopularScopeOccurrences}

\* The keys that are left of the table once a name is in lower case.
asciiHomoglyphs ==
  [g \in {"0", "1", "3", "5", "@", "$"} |->
     CASE g = "0" -> "o" [] g = "1" -> "l" [] g = "3" -> "e" [] g = "@" -> "a" [] OTHER -> "s"]

deHomoglyph(w) ==
  [i \in DOMAIN w |-> IF w[i] \in DOMAIN asciiHomoglyphs THEN asciiHomoglyphs[w[i]] ELSE w[i]]

CompoundSeps == {"-", "_", "."}

\* strings.FieldsFunc: where the maximal runs without a separator begin and end.
Segments(w) ==
  {ij \in (DOMAIN w) \X (DOMAIN w) :
     /\ ij[1] <= ij[2]
     /\ \A k \in ij[1]..ij[2] : w[k] \notin CompoundSeps
     /\ ij[1] = 1 \/ w[ij[1] - 1] \in CompoundSeps
     /\ ij[2] = Len(w) \/ w[ij[2] + 1] \in CompoundSeps}

minSegLen == IF CombosquatMinSegLen <= 0 THEN 4 ELSE CombosquatMinSegLen

\* Slip: only what comes before the first separator is looked up.
combosquatFirst(w) ==
  /\ Cardinality(Segments(w)) >= 2
  /\ \E ij \in Segments(w) :
       /\ ij[1] = 1 /\ ij[2] >= minSegLen
       /\ SubSeq(w, 1, ij[2]) \in nodes

combosquatMatch(w) ==
  /\ Cardinality(Segments(w)) >= 2
  /\ \E ij \in Segments(w) :
       /\ ij[2] - ij[1] + 1 >= minSegLen
       /\ SubSeq(w, ij[1], ij[2]) \in nodes

\* A scope near a popular one that is not popular itself; a score of 0 turns the
\* tier off.
checkScope(scope) ==
  LET near(k) == \E s \in popularScopes :
                   /\ Len(scope) - Len(s) \in (0 - WarnDistance)..WarnDistance
                   /\ Damerau(scope, s) \in 1..k
  IN  IF Len(scope) < 3 \/ scope \in popularScopes \/ ~near(WarnDistance) THEN {}
      ELSE IF near(CloseDistance)
           THEN IF ScopeCloseScore = 0 THEN {} ELSE {"typosquat_scope_close"}
           ELSE IF ScopeWarnScore = 0 THEN {} ELSE {"typosquat_scope_warn"}

-----------------------------------------------------------------------------
(* The checker. *)

TypoInit ==
  /\ BKInit
  /\ lines = 0 /\ scopeCount = [s \in Scopes |-> 0]
  /\ asked = NoName /\ early = {}

\* NewTyposquatChecker, for one line: its scope counts each time, its bare name
\* enters the tree once.
LoadLine(n) ==
  /\ asked = NoName /\ word = NoWord /\ lines < MaxLines
  /\ lines' = lines + 1
  /\ scopeCount' = [s \in Scopes |-> scopeCount[s] + IF s = Lowered(n.scope) THEN 1 ELSE 0]
  /\ \/ Lowered(n.bare) \in nodes /\ UNCHANGED bkVars
     \/ Lowered(n.bare) \notin nodes /\ NextWord(Lowered(n.bare))
  /\ UNCHANGED <<asked, early>>

\* Check up to the search, which it begins unless the name is popular or looks
\* like one that is.
CheckName(n) ==
  /\ asked = NoName /\ word = NoWord
  /\ asked' = n
  /\ LET bare == Lowered(n.bare)
         scoped == checkScope(Lowered(n.scope)) IN
     \/ /\ bare \in nodes
        /\ early' = scoped
        /\ UNCHANGED bkVars
     \/ /\ bare \notin nodes /\ deHomoglyph(bare) \in nodes
        /\ early' = scoped \union {"typosquat_ascii_homoglyph"}
        /\ UNCHANGED bkVars
     \/ /\ bare \notin nodes /\ deHomoglyph(bare) \notin nodes
        /\ early' = scoped \union (IF CombosquatScore > 0 /\ combosquatMatch(bare)
                                   THEN {"typosquat_combosquat"} ELSE {})
        /\ Search(bare)
  /\ UNCHANGED <<lines, scopeCount>>

TreeStep ==
  /\ Insert \/ Check \/ \E w \in nodes : Visit(w)
  /\ UNCHANGED <<lines, scopeCount, asked, early>>

TypoNext ==
  \/ \E n \in PopularList : LoadLine(n)
  \/ \E n \in Asked : CheckName(n)
  \/ TreeStep

TypoSpec == TypoInit /\ [][TypoNext]_typoVars

-----------------------------------------------------------------------------
(* Properties. *)

\* Every variable stays in its type.
TypoTypeOK ==
  /\ BKTypeOK
  /\ lines \in 0..MaxLines
  /\ scopeCount \in [Scopes -> 0..MaxLines]
  /\ asked \in Asked \union {NoName}
  /\ early \subseteq {"typosquat_scope_close", "typosquat_scope_warn",
                      "typosquat_ascii_homoglyph", "typosquat_combosquat"}

\* Words one insertion, deletion or substitution away.
Letters == UNION {Range(w) : w \in Words}
Edits(w) ==
  {RemoveAt(w, i) : i \in DOMAIN w}
    \union {ReplaceAt(w, i, c) : i \in DOMAIN w, c \in Letters}
    \union {InsertAt(w, i, c) : i \in 1..(Len(w) + 1), c \in Letters}

Swaps(w) == {[w EXCEPT ![i] = w[i + 1], ![i + 1] = w[i]] : i \in 1..(Len(w) - 1)}

\* One edit further than a set of words, and how far k edits reach from a word.
Within(V) == V \union UNION {Edits(v) : v \in V}

Nearby(w) ==
  LET near[k \in 0..WarnDistance] == IF k = 0 THEN {w} ELSE Within(near[k - 1])
  IN  near

\* The table of levenshtein has the number of single edits from one name to the
\* other, up to the tolerance Check searches with, and damerauLevenshtein is at
\* most 1 exactly for one edit or one swap (bktree.go, typosquatting.go).
DistancesRight ==
  rule # "none" =>
    \A w \in nodes :
      /\ \A k \in 0..WarnDistance : Lev(w, query) <= k <=> query \in Nearby(w)[k]
      /\ Damerau(w, query) <= 1 <=> query \in Within({w}) \union Swaps(w)

Answered == asked # NoName /\ (query = NoWord \/ rule # "none")
Reported == early \union {rule}
NameRules == {"typosquat_ascii_homoglyph", "typosquat_combosquat",
              "typosquat_close", "typosquat_warn"}

OneEditOf(w) == (Within({w}) \union Swaps(w)) \ {w}

\* w with some of its letters written as a look-alike digit or sign.
LooksLike(v, w) ==
  /\ v # w /\ Len(v) = Len(w)
  /\ \A i \in DOMAIN v : v[i] = w[i] \/ (v[i] \in DOMAIN asciiHomoglyphs
                                           /\ asciiHomoglyphs[v[i]] = w[i])

\* w with a word hung on, by a separator, on either side.
HungOn(v, w) ==
  \E c \in CompoundSeps, i \in DOMAIN v :
     /\ v[i] \notin CompoundSeps
     /\ \/ IsPrefix(Append(w, c), v) /\ i > Len(w)
        \/ IsSuffix(<<c>> \o w, v) /\ i <= Len(v) - Len(w)

\* No disguise of a popular name gets past the stages, whichever of them ends the
\* check: one edit or swap away it scores at least as a close name, look-alike
\* characters are named as such, a popular word in a compound is noticed, and so
\* is a scope one edit from a popular one.  A popular name, in any case, is never
\* taken for a disguise of another (typosquatting.go Check, checkScope).
LookalikeReported ==
  Answered /\ 2 * CloseDistance <= WarnDistance =>
    LET bare == Lowered(asked.bare)
        scope == Lowered(asked.scope) IN
    /\ bare \in nodes => Reported \intersect NameRules = {}
    /\ bare \notin nodes => \A w \in nodes :
         /\ bare \in OneEditOf(w)
              => Reported \intersect {"typosquat_close", "typosquat_ascii_homoglyph"} # {}
         /\ LooksLike(bare, w) /\ Range(w) \intersect DOMAIN asciiHomoglyphs = {}
              => "typosquat_ascii_homoglyph" \in Reported
         /\ HungOn(bare, w) /\ Len(w) >= minSegLen /\ Range(w) \intersect CompoundSeps = {}
              => Reported \intersect NameRules # {}
    /\ \A s \in popularScopes : scope \in OneEditOf(s) \ popularScopes /\ Len(scope) >= 3
         => "typosquat_scope_close" \in Reported
=============================================================================
