--------------------------------- MODULE Gate ---------------------------------
(***************************************************************************)
(* What clients and the SIEM may rely on, whatever the cache, the worker,  *)
(* failures and restarts do behind it: a tarball request is answered at    *)
(* most once, by one of four outcomes, each with its one event.  The bytes *)
(* are handed over only at the level of warning that they themselves       *)
(* permit, and refused by verdict only on evidence that exists by then.    *)
(***************************************************************************)
EXTENDS Verdicts, Sequences

CONSTANTS
  Reqs, Pkgs, ShaOf,
  BytesVerdict,   \* verdict on the bytes of a package alone
  FullVerdict,    \* harshest verdict on all that is known of it but advisories
  Oversized       \* digests never handed over

VARIABLES
  published,   \* packages that had an advisory by now
  asked,       \* what each request asks for
  events,      \* what the SIEM hears of each request
  answer       \* what its client is told

gateVars == <<published, asked, events, answer>>

Permitted(s, v) == \E p \in Pkgs : ShaOf[p] = s /\ NoHarsher(BytesVerdict[p], v)

BlockJustified(s) ==
  \E p \in Pkgs : ShaOf[p] = s /\ (FullVerdict[p] = "block" \/ p \in published)

Init ==
  /\ published \subseteq Pkgs
  /\ asked \in [Reqs -> Pkgs]
  /\ events = [r \in Reqs |-> <<>>]
  /\ answer = [r \in Reqs |-> [code |-> 0, warning |-> FALSE]]

Advisory(p) ==
  /\ published' = published \union {p}
  /\ UNCHANGED <<asked, events, answer>>

Unanswered(r) == events[r] = <<>> /\ answer[r].code = 0

Tell(r, sent, code, warning) ==
  /\ Unanswered(r)
  /\ events' = [events EXCEPT ![r] = sent]
  /\ answer' = [answer EXCEPT ![r] = [code |-> code, warning |-> warning]]
  /\ UNCHANGED <<published, asked>>

Event(type, v, code) == [type |-> type, verdict |-> v, code |-> code]

Deliver(r, v) ==
  /\ v # "block" /\ Permitted(ShaOf[asked[r]], v) /\ ShaOf[asked[r]] \notin Oversized
  /\ Tell(r, <<Event("package_verdict", v, 200)>>, 200, v = "warn")

\* The event of a block found in the cache has code 200.
Condemn(r, eventCode) ==
  /\ BlockJustified(ShaOf[asked[r]])
  /\ Tell(r, <<Event("package_verdict", "block", eventCode)>>, 403, FALSE)

\* No verdict was reached: the bytes are kept back all the same.
GiveUp(r, type, code) == Tell(r, <<Event(type, "none", code)>>, code, FALSE)

NotListed(r) == Tell(r, <<>>, 404, FALSE)

Failures == {<<"upstream_down", 502>>, <<"integrity_mismatch", 403>>,
             <<"resource_limit_exceeded", 403>>, <<"analysis_timeout", 403>>}

Next ==
  \/ \E p \in Pkgs : Advisory(p)
  \/ \E r \in Reqs :
       \/ \E v \in Verdicts : Deliver(r, v)
       \/ \E code \in {200, 403} : Condemn(r, code)
       \/ \E f \in Failures : GiveUp(r, f[1], f[2])
       \/ NotListed(r)

Spec == Init /\ [][Next]_gateVars
=============================================================================
