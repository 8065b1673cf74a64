------------------------------- MODULE Layer1 -------------------------------
(***************************************************************************)
(* The Layer 1 fan-out of one request (internal/proxy/handler.go with      *)
(* internal/analyzer/layer1): five detectors run concurrently under an     *)
(* errgroup and add their signals to one Result, whose slice no lock       *)
(* guards; the handler waits for all of them and gives the Result to the   *)
(* policy engine.                                                          *)
(*                                                                         *)
(* A slice is three words, and s = append(s, x) is compiled into loads of  *)
(* all three and stores of those that change, then of the element; steps   *)
(* of these detail interleave.  An access beyond an array is undefined and *)
(* only recorded (wild): whatever follows it, nothing is claimed.          *)
(***************************************************************************)
EXTENDS Naturals, Sequences, FiniteSets, Functions

CONSTANTS
  Profiles,     \* the packages a request may be for, as the detectors see them
  Maintainers   \* names of maintainers

Detectors == {"osv", "typosquat", "metadata", "anomaly", "license"}

\* What the detectors look at: OSV's answer; how close the scope is to a popular
\* one; what the bare name is; whether one of its segments is a popular name and
\* how close the nearest popular name is; the registry's metadata.
Profile == [vulnerable : BOOLEAN,
            scope      : {"far", "close", "warn"},
            bare       : {"empty", "popular", "homoglyph", "other"},
            segment    : BOOLEAN,
            nearest    : {"far", "close", "warn"},
            new        : BOOLEAN,
            maintainers : SUBSET Maintainers,
            young      : SUBSET Maintainers,
            downloads  : {"low", "some", "popular"},
            stale      : BOOLEAN,
            spike      : BOOLEAN,
            relicensed : BOOLEAN]

ASSUME ProfileAssumption ==
  /\ Profiles \subseteq Profile
  /\ Maintainers \intersect {"osv", "downloads"} = {}
  /\ \A p \in Profiles : p.young \subseteq p.maintainers

VARIABLES
  profile,   \* the package
  live,      \* gctx is not cancelled
  gone,      \* the client has gone away
  pc,        \* next step of each detector
  fetching,  \* requests of metadata.Check still under way
  extra,     \* signals those requests led to
  failed,    \* history: requests that failed by themselves
  cut,       \* history: requests that failed because gctx was cancelled
  report,    \* signals each Check returned
  added,     \* how many of them have been added
  header,    \* the slice l1Result.Signals
  heap,      \* the arrays allocated for it
  local,     \* each detector's own copy of the three words
  wild,      \* an access beyond an array has happened
  decided,   \* the policy engine has read the Result
  heard      \* the signals it read

calls  == <<live, gone, fetching, extra, failed, cut>>
memory == <<header, heap, local, wild>>
outcome == <<decided, heard>>
vars   == <<profile, calls, pc, report, added, memory, outcome>>

Goto(d, l) == pc' = [pc EXCEPT ![d] = l]

\* Check has returned; the detector adds its signals, if there are any.
Return(d, signals) ==
  /\ report' = [report EXCEPT ![d] = signals]
  /\ Goto(d, IF signals = <<>> THEN "done" ELSE "ptr")

If(condition, rule) == IF condition THEN <<rule>> ELSE <<>>

-----------------------------------------------------------------------------
(* The detectors. *)

\* OSVChecker.Check answers from its cache or from the network.
OsvAnswers ==
  /\ pc["osv"] = "check"
  /\ Return("osv", If(profile.vulnerable, "osv_known_vulnerability"))
  /\ UNCHANGED <<profile, calls, added, memory, outcome>>

\* The error it returns makes the errgroup cancel gctx.
OsvFails ==
  /\ pc["osv"] = "check"
  /\ Return("osv", <<>>)
  /\ live' = FALSE
  /\ IF live THEN failed' = failed \union {"osv"} /\ UNCHANGED cut
             ELSE cut' = cut \union {"osv"} /\ UNCHANGED failed
  /\ UNCHANGED <<profile, gone, fetching, extra, added, memory, outcome>>

ScopeSignals(p) ==
  If(p.scope = "close", "typosquat_scope_close") \o If(p.scope = "warn", "typosquat_scope_warn")

DistanceSignals(p) ==
  If(p.nearest = "close", "typosquat_close") \o If(p.nearest = "warn", "typosquat_warn")

TyposquatSignals(p) ==
  ScopeSignals(p) \o
    CASE p.bare \in {"empty", "popular"} -> <<>>
      [] p.bare = "homoglyph"            -> <<"typosquat_ascii_homoglyph">>
      [] p.bare = "other"                -> If(p.segment, "typosquat_combosquat")
                                              \o DistanceSignals(p)

TyposquatCheck ==
  /\ pc["typosquat"] = "check"
  /\ Return("typosquat", TyposquatSignals(profile))
  /\ UNCHANGED <<profile, calls, added, memory, outcome>>

AnomalyCheck ==
  /\ pc["anomaly"] = "check"
  /\ Return("anomaly", If(profile.spike, "anomaly_version_spike"))
  /\ UNCHANGED <<profile, calls, added, memory, outcome>>

LicenseCheck ==
  /\ pc["license"] = "check"
  /\ Return("license", If(profile.relicensed, "license_patch_change"))
  /\ UNCHANGED <<profile, calls, added, memory, outcome>>

\* metadata.Check: what the metadata show by themselves.
StaticSignals(p) ==
  If(p.new, "metadata_new_package")
    \o If(Cardinality(p.maintainers) = 1, "metadata_single_maintainer")

\* What a successful request adds, under the mutex.
FetchedSignals(p, f) ==
  IF f = "downloads"
  THEN If(p.downloads = "low", "metadata_low_downloads")
         \o If(p.downloads = "popular" /\ p.stale, "metadata_popular_but_stale")
  ELSE If(f \in p.young, "metadata_young_maintainer")

MetadataCheck ==
  /\ pc["metadata"] = "check"
  /\ fetching' = {"downloads"} \union profile.maintainers
  /\ Goto("metadata", "wait")
  /\ UNCHANGED <<profile, live, gone, extra, failed, cut, report, added, memory, outcome>>

FetchSucceeds(f) ==
  /\ f \in fetching
  /\ extra' = extra \o FetchedSignals(profile, f)
  /\ fetching' = fetching \ {f}
  /\ UNCHANGED <<profile, live, gone, pc, failed, cut, report, added, memory, outcome>>

\* The registry fails, the shared timeout fires, or gctx is cancelled: the error
\* is dropped.
FetchFails(f) ==
  /\ f \in fetching
  /\ fetching' = fetching \ {f}
  /\ IF live THEN failed' = failed \union {f} /\ UNCHANGED cut
             ELSE cut' = cut \union {f} /\ UNCHANGED failed
  /\ UNCHANGED <<profile, live, gone, pc, extra, report, added, memory, outcome>>

\* Slip: no wg.Wait.
MetadataReturnsEarly ==
  /\ pc["metadata"] = "wait"
  /\ Return("metadata", StaticSignals(profile) \o extra)
  /\ UNCHANGED <<profile, calls, added, memory, outcome>>

\* Slip: no wg.Done after a failed request.
MetadataReturnsUnlessFailed ==
  /\ pc["metadata"] = "wait"
  /\ fetching = {}
  /\ (failed \union cut) \subseteq {"osv"}
  /\ Return("metadata", StaticSignals(profile) \o extra)
  /\ UNCHANGED <<profile, calls, added, memory, outcome>>

MetadataReturns ==
  /\ pc["metadata"] = "wait"
  /\ fetching = {}
  /\ Return("metadata", StaticSignals(profile) \o extra)
  /\ UNCHANGED <<profile, calls, added, memory, outcome>>

Check ==
  \/ OsvAnswers \/ OsvFails
  \/ TyposquatCheck
  \/ AnomalyCheck
  \/ LicenseCheck
  \/ MetadataCheck
  \/ \E f \in fetching : FetchSucceeds(f) \/ FetchFails(f)
  \/ MetadataReturns

-----------------------------------------------------------------------------
(* r.Signals = append(r.Signals, s), word by word. *)

\* A signal is named by the detector that adds it and its place in its report; an
\* element never written is the zero Signal, with an empty rule and no score.
Zero == <<"none", 0>>

Nil == [ptr |-> 0, len |-> 0, cap |-> 0]

\* Whether an index is beyond the array a pointer leads to.
Beyond(ptr, i) == i > (IF ptr = 0 THEN 0 ELSE Len(heap[ptr]))

LoadWord(d, word, step, nextStep) ==
  /\ pc[d] = step
  /\ local' = [local EXCEPT ![d][word] = header[word]]
  /\ Goto(d, nextStep)
  /\ UNCHANGED <<profile, calls, report, added, header, heap, wild, outcome>>

\* The third load, and the test whether the signal still fits.
LoadCap(d) ==
  /\ pc[d] = "cap"
  /\ local' = [local EXCEPT ![d].cap = header.cap]
  /\ Goto(d, IF local[d].len < header.cap THEN "set_len" ELSE "grow")
  /\ UNCHANGED <<profile, calls, report, added, header, heap, wild, outcome>>

NewCap(newLen, oldCap) == IF newLen > 2 * oldCap THEN newLen ELSE 2 * oldCap

\* growslice: a larger array, and in it a copy of the old one.
Grow(d) ==
  /\ pc[d] = "grow"
  /\ LET old == local[d]
         cap == NewCap(old.len + 1, old.cap)
     IN  /\ heap' = Append(heap, [i \in 1 .. cap |->
                      IF i <= old.len /\ ~Beyond(old.ptr, i) THEN heap[old.ptr][i] ELSE Zero])
         /\ wild' = (wild \/ Beyond(old.ptr, old.len))
         /\ local' = [local EXCEPT ![d].ptr = Len(heap) + 1, ![d].cap = cap]
  /\ Goto(d, "set_cap")
  /\ UNCHANGED <<profile, calls, report, added, header, outcome>>

StoreWord(d, word, step, nextStep) ==
  /\ pc[d] = step
  /\ header' = [header EXCEPT ![word] = local[d][word]]
  /\ Goto(d, nextStep)
  /\ UNCHANGED <<profile, calls, report, added, heap, local, wild, outcome>>

StoreLen(d) ==
  /\ pc[d] = "set_len"
  /\ header' = [header EXCEPT !.len = local[d].len + 1]
  /\ Goto(d, "set_element")
  /\ UNCHANGED <<profile, calls, report, added, heap, local, wild, outcome>>

\* Slip: the element goes to the end of the array.
StoreElementLast(d) ==
  /\ pc[d] = "set_element"
  /\ LET a == local[d].ptr
     IN  heap' = IF a = 0 THEN heap ELSE [heap EXCEPT ![a][Len(heap[a])] = <<d, added[d] + 1>>]
  /\ added' = [added EXCEPT ![d] = @ + 1]
  /\ Goto(d, IF added'[d] = Len(report[d]) THEN "done" ELSE "ptr")
  /\ UNCHANGED <<profile, calls, report, header, local, wild, outcome>>

\* Slip: the loop runs once too often.
StoreElementOnceMore(d) ==
  /\ pc[d] = "set_element"
  /\ LET a == local[d].ptr
         i == local[d].len + 1
     IN  IF Beyond(a, i)
         THEN wild' = TRUE /\ UNCHANGED heap
         ELSE heap' = [heap EXCEPT ![a][i] = <<d, added[d] + 1>>] /\ UNCHANGED wild
  /\ added' = [added EXCEPT ![d] = @ + 1]
  /\ Goto(d, IF added'[d] > Len(report[d]) THEN "done" ELSE "ptr")
  /\ UNCHANGED <<profile, calls, report, header, local, outcome>>

\* Slip: an append that another one overtook is made again.
StoreElementRetry(d) ==
  /\ pc[d] = "set_element"
  /\ LET a == local[d].ptr
         i == local[d].len + 1
     IN  IF Beyond(a, i)
         THEN wild' = TRUE /\ UNCHANGED heap
         ELSE heap' = [heap EXCEPT ![a][i] = <<d, added[d] + 1>>] /\ UNCHANGED wild
  /\ added' = [added EXCEPT ![d] = IF header.len = local[d].len + 1 THEN @ + 1 ELSE @]
  /\ Goto(d, IF added'[d] = Len(report[d]) THEN "done" ELSE "ptr")
  /\ UNCHANGED <<profile, calls, report, header, local, outcome>>

StoreElement(d) ==
  /\ pc[d] = "set_element"
  /\ LET a == local[d].ptr
         i == local[d].len + 1
     IN  IF Beyond(a, i)
         THEN wild' = TRUE /\ UNCHANGED heap
         ELSE heap' = [heap EXCEPT ![a][i] = <<d, added[d] + 1>>] /\ UNCHANGED wild
  /\ added' = [added EXCEPT ![d] = @ + 1]
  /\ Goto(d, IF added'[d] = Len(report[d]) THEN "done" ELSE "ptr")
  /\ UNCHANGED <<profile, calls, report, header, local, outcome>>

Add(d) ==
  \/ LoadWord(d, "ptr", "ptr", "len")
  \/ LoadWord(d, "len", "len", "cap")
  \/ LoadCap(d)
  \/ Grow(d)
  \/ StoreWord(d, "cap", "set_cap", "set_ptr")
  \/ StoreWord(d, "ptr", "set_ptr", "set_len")
  \/ StoreLen(d)
  \/ StoreElement(d)

-----------------------------------------------------------------------------
(* The handler. *)

ClientGoes ==
  /\ ~decided
  /\ ~gone
  /\ gone' = TRUE
  /\ live' = FALSE
  /\ UNCHANGED <<profile, fetching, extra, failed, cut, pc, report, added, memory, outcome>>

\* g.Wait returns, and the policy engine reads the Result.
Decide ==
  /\ ~decided
  /\ \A d \in Detectors : pc[d] = "done"
  /\ wild' = (wild \/ Beyond(header.ptr, header.len))
  /\ decided' = TRUE
  /\ heard' = [i \in 1 .. header.len |->
                 IF Beyond(header.ptr, i) THEN Zero ELSE heap[header.ptr][i]]
  /\ UNCHANGED <<profile, calls, pc, report, added, header, heap, local>>

Init ==
  /\ profile \in Profiles
  /\ live = TRUE
  /\ gone = FALSE
  /\ pc = [d \in Detectors |-> "check"]
  /\ fetching = {}
  /\ extra = <<>>
  /\ failed = {}
  /\ cut = {}
  /\ report = [d \in Detectors |-> <<>>]
  /\ added = [d \in Detectors |-> 0]
  /\ header = Nil
  /\ heap = <<>>
  /\ local = [d \in Detectors |-> Nil]
  /\ wild = FALSE
  /\ decided = FALSE
  /\ heard = <<>>

Next == Check \/ (\E d \in Detectors : Add(d)) \/ ClientGoes \/ Decide

\* Every call has a timeout and the detectors are goroutines of a fair scheduler;
\* that the client goes away is never required.
Spec == Init /\ [][Next]_vars
             /\ WF_vars(Check)
             /\ \A d \in Detectors : WF_vars(Add(d))
             /\ WF_vars(Decide)

-----------------------------------------------------------------------------
(* Properties. *)

Labels == {"check", "wait", "ptr", "len", "cap", "grow", "set_cap", "set_ptr",
           "set_len", "set_element", "done"}

Rules == {"osv_known_vulnerability", "typosquat_scope_close", "typosquat_scope_warn",
          "typosquat_ascii_homoglyph", "typosquat_combosquat", "typosquat_close",
          "typosquat_warn", "anomaly_version_spike", "license_patch_change",
          "metadata_new_package", "metadata_single_maintainer", "metadata_low_downloads",
          "metadata_popular_but_stale", "metadata_young_maintainer"}

Words == [ptr : Nat, len : Nat, cap : Nat]

Element == {Zero} \union (Detectors \X (Nat \ {0}))

Calls == {"osv", "downloads"} \union Maintainers

\* Every variable stays in its type; a pointer leads to an array that exists.
TypeOK ==
  /\ profile \in Profiles
  /\ live \in BOOLEAN
  /\ gone \in BOOLEAN
  /\ pc \in [Detectors -> Labels]
  /\ fetching \subseteq Calls
  /\ extra \in Seq(Rules)
  /\ failed \subseteq Calls
  /\ cut \subseteq Calls
  /\ report \in [Detectors -> Seq(Rules)]
  /\ added \in [Detectors -> Nat]
  /\ \A d \in Detectors : added[d] <= Len(report[d])
  /\ heap \in Seq(Seq(Element))
  /\ header \in Words /\ header.ptr <= Len(heap)
  /\ local \in [Detectors -> Words]
  /\ \A d \in Detectors : local[d].ptr <= Len(heap)
  /\ wild \in BOOLEAN
  /\ decided \in BOOLEAN
  /\ heard \in Seq(Element)

Reported == UNION {{d} \X (1 .. Len(report[d])) : d \in Detectors}

Faithful(signals) ==
  /\ Range(signals) \subseteq Reported \union {Zero}
  /\ \A i, j \in DOMAIN signals : signals[i] = signals[j] /\ signals[i] # Zero => i = j

\* The unguarded slice loses signals but makes none up and counts none twice, so
\* a score is never exaggerated, which Proxy rests on.  An element that was never
\* written scores nothing, but the policy engine files it under category "other".
RaceOnlyLoses ==
  ~wild => Faithful(heard) /\ \A a \in DOMAIN heap : Faithful(heap[a])

\* A detector that is alone in having something to report is heard in full and in
\* order, however the others' silence is scheduled.
LoneDetectorHeard ==
  \A d \in Detectors :
    decided /\ (\A other \in Detectors \ {d} : report[other] = <<>>) =>
      ~wild /\ heard = [i \in 1 .. Len(report[d]) |-> <<d, i>>]

Warranted(p) ==
  Range(StaticSignals(p))
    \union UNION {Range(FetchedSignals(p, f)) : f \in {"downloads"} \union p.maintainers}

\* If no request of metadata.Check failed, its report is all the metadata warrant:
\* it returns after the last of its goroutines.
MetadataComplete ==
  decided /\ (failed \union cut) \subseteq {"osv"} => Range(report["metadata"]) = Warranted(profile)

\* The fan-out always ends, whatever fails.
FanOutEnds == <>decided

\* README.md:76 says of veto signals that they always give the verdict BLOCK: the
\* engine hears of every veto that was reported.
VetoAlwaysBlocks ==
  decided /\ ~wild /\ report["osv"] # <<>> => <<"osv", 1>> \in Range(heard)

\* handler.go:170 calls OSV errors non-fatal: no other request is cut short while
\* the client is still there.
OsvErrorsNonFatal == cut # {} => gone
=============================================================================
