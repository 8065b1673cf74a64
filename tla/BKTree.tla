------------------------------- MODULE BKTree -------------------------------
(* The tree of popular names the typosquat checker searches: newBKTree,       *)
(* insert and search node by node, and the choice of the nearest candidate    *)
(* in TyposquatChecker.Check.  The distances are parameters; EditDistance     *)
(* has those of the code.                                                     *)
EXTENDS Integers, FiniteSets

CONSTANTS
    Words,              \* names, scope stripped
    NoWord,             \* not a name
    Lev(_, _),          \* levenshtein
    Damerau(_, _),      \* damerauLevenshtein
    CloseDistance, WarnDistance,
    MaxNodes            \* bound of the model: names in the tree

ASSUME LevAssumption ==
    \A u, v, w \in Words :
        /\ Lev(u, v) \in Nat
        /\ Lev(u, v) = 0 <=> u = v
        /\ Lev(u, v) = Lev(v, u)
        /\ Lev(u, w) <= Lev(u, v) + Lev(v, w)

\* A transposition is one step of Damerau and two of Lev.
ASSUME DamerauAssumption ==
    \A u, v \in Words :
        /\ Damerau(u, v) \in Nat
        /\ Damerau(u, v) = 0 <=> u = v
        /\ Lev(u, v) <= 2 * Damerau(u, v)

ASSUME DistanceAssumption ==
    /\ CloseDistance \in Nat /\ WarnDistance \in Nat
    /\ CloseDistance <= WarnDistance /\ MaxNodes \in Nat

ASSUME NoWordAssumption == NoWord \notin Words

VARIABLES
    nodes,  \* the words in the tree
    above,  \* word -> the edges from the root to its node, as <<word, distance>>
    word,   \* the word being inserted, or NoWord
    at,     \* the node insert or search has come to
    query,  \* the name Check is called with, or NoWord
    todo,   \* nodes whose searchRec has not run
    out,    \* what search has collected
    rule    \* Check's signal of the distance kind, or "none"

treeVars == <<nodes, above, word, at>>
searchVars == <<query, todo, out, rule>>
bkVars == <<treeVars, searchVars>>

BKInit ==
    /\ nodes = {}
    /\ above = [w \in Words |-> {}]
    /\ word = NoWord /\ at = NoWord /\ query = NoWord
    /\ todo = {} /\ out = {} /\ rule = "none"

\* The node that edge d leads to from n, as a set of at most one.
Child(n, d) == {c \in nodes : above[c] = above[n] \union {<<n, d>>}}

Root == {n \in nodes : above[n] = {}}

\* newBKTree: the first word is the root, the others are inserted from it.
NextWord(w) ==
    /\ query = NoWord /\ word = NoWord
    /\ IF nodes = {}
       THEN nodes' = {w} /\ UNCHANGED <<word, at>>
       ELSE /\ Cardinality(nodes) < MaxNodes
            /\ word' = w /\ at' \in Root
            /\ UNCHANGED nodes
    /\ UNCHANGED <<above, searchVars>>

Insert ==
    /\ word # NoWord
    /\ LET d == Lev(at, word) IN
       \/ /\ d = 0
          /\ word' = NoWord /\ at' = NoWord
          /\ UNCHANGED <<nodes, above>>
       \/ /\ d # 0
          /\ at' \in Child(at, d)
          /\ UNCHANGED <<nodes, above, word>>
       \/ /\ d # 0
          /\ Child(at, d) = {}
          /\ nodes' = nodes \union {word}
          /\ above' = [above EXCEPT ![word] = above[at] \union {<<at, d>>}]
          /\ word' = NoWord /\ at' = NoWord
    /\ UNCHANGED searchVars

\* Check searches only for names that are not popular themselves.
Search(q) ==
    /\ word = NoWord /\ query = NoWord /\ q \notin nodes
    /\ query' = q
    /\ todo' = Root
    /\ UNCHANGED <<treeVars, out, rule>>

\* Slip: the range of edges ends one early.
VisitShort(n) ==
    /\ n \in todo
    /\ LET d == Lev(n, query)
           children == {c \in nodes : \E e \in (d - WarnDistance)..(d + WarnDistance - 1) :
                                         c \in Child(n, e)}
       IN  /\ out' = IF d <= WarnDistance THEN out \union {n} ELSE out
           /\ todo' = (todo \ {n}) \union children
    /\ UNCHANGED <<treeVars, query, rule>>

\* Slip: the name asked for is collected instead of the node's.
VisitCollectsQuery(n) ==
    /\ n \in todo
    /\ LET d == Lev(n, query)
           children == {c \in nodes : \E e \in (d - WarnDistance)..(d + WarnDistance) :
                                         c \in Child(n, e)}
       IN  /\ out' = IF d <= WarnDistance THEN out \union {query} ELSE out
           /\ todo' = (todo \ {n}) \union children
    /\ UNCHANGED <<treeVars, query, rule>>

\* searchRec at one node; the map yields its children in any order.
Visit(n) ==
    /\ n \in todo
    /\ LET d == Lev(n, query)
           children == {c \in nodes : \E e \in (d - WarnDistance)..(d + WarnDistance) :
                                         c \in Child(n, e)}
       IN  /\ out' = IF d <= WarnDistance THEN out \union {n} ELSE out
           /\ todo' = (todo \ {n}) \union children
    /\ UNCHANGED <<treeVars, query, rule>>

\* Slip: candidates are ranked by the distance the tree uses.
CheckByLev ==
    /\ query # NoWord /\ todo = {} /\ rule = "none"
    /\ rule' = IF \E c \in out : Lev(query, c) <= CloseDistance THEN "typosquat_close"
               ELSE IF \E c \in out : Lev(query, c) <= WarnDistance THEN "typosquat_warn"
               ELSE "clean"
    /\ UNCHANGED <<treeVars, query, todo, out>>

\* Check: the nearest candidate within warnDistance by Damerau decides the rule.
Check ==
    /\ query # NoWord /\ todo = {} /\ rule = "none"
    /\ rule' = IF \E c \in out : Damerau(query, c) <= CloseDistance THEN "typosquat_close"
               ELSE IF \E c \in out : Damerau(query, c) <= WarnDistance THEN "typosquat_warn"
               ELSE "clean"
    /\ UNCHANGED <<treeVars, query, todo, out>>

BKNext ==
    \/ \E w \in Words : NextWord(w) \/ Search(w) \/ Visit(w)
    \/ Insert \/ Check

BKSpec == BKInit /\ [][BKNext]_bkVars

--------------------------------------------------------------------------------
\* Properties.

BKTypeOK ==
    /\ nodes \subseteq Words
    /\ above \in [Words -> SUBSET (Words \X Nat)]
    /\ word \in Words \union {NoWord} /\ at \in Words \union {NoWord}
    /\ query \in Words \union {NoWord}
    /\ todo \subseteq nodes /\ out \subseteq nodes
    /\ rule \in {"none", "typosquat_close", "typosquat_warn", "clean"}

\* The pruning of searchRec loses nothing: once the search is over it has found
\* exactly the words within the tolerance (bktree.go insert, search).
SearchComplete ==
    query # NoWord /\ todo = {} => out = {w \in nodes : Lev(w, query) <= WarnDistance}

\* Searching by Levenshtein and ranking by Damerau never costs a close match: with
\* a tolerance of at least twice the close distance, a name is reported as close
\* exactly when a popular name is that near by Damerau, a swapped pair of letters
\* included (typosquatting.go Check).
CloseMatchFound ==
    rule # "none" /\ 2 * CloseDistance <= WarnDistance =>
        (rule = "typosquat_close" <=> \E w \in nodes : Damerau(query, w) <= CloseDistance)
=============================================================================
