----------------------------- MODULE EventFeed ------------------------------
(***************************************************************************)
(* What a SIEM may rely on: events reach each sink in the order they were  *)
(* emitted and at most once each; some may never reach it.  An event is    *)
(* named by its rank in the order of emission.                             *)
(***************************************************************************)
EXTENDS Naturals, Sequences

CONSTANT Sinks

VARIABLES
  emitted,  \* number of events emitted
  got       \* what each sink received, in order

vars == <<emitted, got>>

Init == emitted = 0 /\ got = [k \in Sinks |-> <<>>]

Emit == emitted' = emitted + 1 /\ UNCHANGED got

Receive(k, e) ==
  /\ e \in 1 .. emitted
  /\ \A i \in 1 .. Len(got[k]) : got[k][i] < e
  /\ got' = [got EXCEPT ![k] = Append(@, e)]
  /\ UNCHANGED emitted

Next == Emit \/ \E k \in Sinks, e \in 1 .. emitted : Receive(k, e)

Spec == Init /\ [][Next]_vars
=============================================================================
