------------------------------- MODULE Policy -------------------------------
(***************************************************************************)
(* The verdict pipeline of one request: signals are appended to a Result   *)
(* (internal/signal), the handler asks the policy engine once after        *)
(* Layer 1, goes on only if the answer is not block, appends the signals   *)
(* of the post-download layers, derives the combination signals            *)
(* (internal/analyzer/combo.go) and asks the engine again (Engine).        *)
(***************************************************************************)
EXTENDS Engine

CONSTANTS
  Layer1Signals,    \* the signals Layer 1 may report
  PostSignals,      \* the signals Layers 2 and 3 may report
  MaxSum            \* bound: no signal is appended once the sum exceeds it

Signal == [rule : Rules, score : Nat, veto : BOOLEAN]

ASSUME SignalAssumption ==
  /\ Layer1Signals \subseteq Signal
  /\ PostSignals \subseteq Signal
  /\ ComboScore \in [Combos -> Nat]
  /\ MaxSum \in Nat

VARIABLES
  phase,    \* "layer1", "post", "decided"
  result,   \* the Result so far
  verdict   \* the last Decision's verdict, "none" before the first

vars == <<phase, result, verdict>>

-----------------------------------------------------------------------------
(* The handler's use of them. *)

Init ==
  /\ phase = "layer1"
  /\ result = EmptyResult
  /\ verdict = "none"

Layer1Signal(s) ==
  /\ phase = "layer1"
  /\ result.sum <= MaxSum
  /\ result' = Add(result, s)
  /\ UNCHANGED <<phase, verdict>>

Layer1Decide ==
  /\ phase = "layer1"
  /\ verdict' = Decide(result)
  /\ phase' = IF verdict' = "block" THEN "decided" ELSE "post"
  /\ UNCHANGED result

PostSignal(s) ==
  /\ phase = "post"
  /\ result.sum <= MaxSum
  /\ result' = Add(result, s)
  /\ UNCHANGED <<phase, verdict>>

FinalDecide ==
  /\ phase = "post"
  /\ result' = AddComboSignals(result)
  /\ verdict' = Decide(result')
  /\ phase' = "decided"

Next ==
  \/ \E s \in Layer1Signals : Layer1Signal(s)
  \/ Layer1Decide
  \/ \E s \in PostSignals : PostSignal(s)
  \/ FinalDecide

Spec == Init /\ [][Next]_vars

-----------------------------------------------------------------------------
(* Properties. *)

\* Every variable stays in its type.
TypeOK ==
  /\ phase \in {"layer1", "post", "decided"}
  /\ result \in Result
  /\ verdict \in Verdicts \union {"none"}

\* Evidence only ever counts against a package: what the handler decides at the
\* end is never laxer than what it decided after Layer 1, so returning early on
\* a Layer 1 block (handler.go:173) loses nothing.
VerdictNeverDrops ==
  [][verdict # "none" => NoHarsher(verdict, verdict')]_vars

\* The step that makes it inductive: before the final decision, deciding again
\* on the signals collected so far would not fall below the last verdict.
VerdictIsFloor ==
  /\ phase = "layer1" => verdict = "none"
  /\ phase # "layer1" => verdict \in Verdicts /\ NoHarsher(verdict, Decide(result))

\* The combination pass is complete after one run: the rules it adds carry the
\* prefixes its own predicates test, and still a second run adds nothing.
ComboFixpoint ==
  CombosOf(AddComboSignals(result).rules) = {}
=============================================================================
