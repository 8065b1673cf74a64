---------------------------- MODULE Layer1Proofs ----------------------------
(***************************************************************************)
(* The fan-out for any packages and any number of maintainers, whatever    *)
(* the interleaving of the loads and stores of its appends: types, what    *)
(* the race on the slice can do (RaceOnlyLoses) and cannot do to a lone    *)
(* detector (LoneDetectorHeard), and that metadata.Check waits for all its *)
(* requests (MetadataComplete).                                            *)
(*                                                                         *)
(*   AddedOK   where a detector stands tells how many of its signals it    *)
(*             has added;                                                  *)
(*   HeapOK    an array holds each signal at most once, and only such as   *)
(*             have been added: an element is stored once, into one array, *)
(*             and only copied from then on;                               *)
(*   LoneOK    while nobody else has reported, the slice is what a         *)
(*             sequential append makes of it, step by step;                *)
(*   FetchOK   what metadata.Check has gathered is what the requests that  *)
(*             came back and did not fail warrant.                         *)
(***************************************************************************)
EXTENDS Layer1, TLAPS

USE DEF calls, memory, outcome, vars

Appending == {"ptr", "len", "cap", "grow", "set_cap", "set_ptr", "set_len", "set_element"}

AddedOK ==
  /\ \A d \in Detectors :
       /\ pc[d] \in {"check", "wait"} => report[d] = <<>> /\ added[d] = 0
       /\ pc[d] \in Appending => added[d] < Len(report[d])
       /\ pc[d] = "done" => added[d] = Len(report[d])
  /\ decided => \A d \in Detectors : pc[d] = "done"

\* A sequence of elements that have been added, each at most once; count[d] is how
\* many d has added.
Genuine(signals, count) ==
  /\ \A i \in DOMAIN signals :
       signals[i] # Zero => signals[i][2] <= count[signals[i][1]]
  /\ \A i, j \in DOMAIN signals : signals[i] = signals[j] /\ signals[i] # Zero => i = j

HeapOK ==
  /\ Genuine(heard, added)
  /\ \A a \in DOMAIN heap : Genuine(heap[a], added)

Silent(d) == \A other \in Detectors \ {d} : report[other] = <<>>

\* An array of cap elements that begins with the first n signals of d.
Cells(d, ptr, cap, n) ==
  /\ n <= cap
  /\ ptr = 0 => cap = 0
  /\ ptr # 0 => Len(heap[ptr]) = cap /\ \A i \in 1 .. n : heap[ptr][i] = <<d, i>>

\* A sequential append of d's, as far as it has got.
Alone(d) ==
  /\ ~wild
  /\ pc[d] # "set_element" => header.len = added[d]
  /\ pc[d] = "set_element" => header.len = added[d] + 1
  /\ pc[d] # "set_ptr" => Cells(d, header.ptr, header.cap, added[d])
  /\ pc[d] \in {"len", "cap", "grow", "set_len", "set_element"} => local[d].ptr = header.ptr
  /\ pc[d] \in {"cap", "grow", "set_cap", "set_ptr", "set_len", "set_element"}
       => local[d].len = added[d]
  /\ pc[d] = "grow" => local[d].cap = header.cap
  /\ pc[d] \in {"set_cap", "set_ptr"} =>
       Cells(d, local[d].ptr, local[d].cap, added[d]) /\ added[d] < local[d].cap
  /\ pc[d] = "set_ptr" => header.cap = local[d].cap
  /\ pc[d] \in {"set_len", "set_element"} => added[d] < header.cap
  /\ decided => heard = [i \in 1 .. Len(report[d]) |-> <<d, i>>]

LoneOK == \A d \in Detectors : Silent(d) => Alone(d)

Requests == {"downloads"} \union profile.maintainers

FetchOK ==
  /\ fetching \subseteq Requests
  /\ fetching \intersect (failed \union cut) = {}
  /\ pc["metadata"] = "check" =>
       fetching = {} /\ extra = <<>> /\ failed \union cut \subseteq {"osv"}
  /\ pc["metadata"] = "wait" =>
       Range(extra) = UNION {Range(FetchedSignals(profile, f)) :
                               f \in Requests \ (fetching \union failed \union cut)}
  /\ pc["metadata"] \notin {"check", "wait"} =>
       /\ fetching = {}
       /\ failed \union cut \subseteq {"osv"} => Range(report["metadata"]) = Warranted(profile)

IInv == TypeOK /\ AddedOK /\ HeapOK /\ LoneOK /\ FetchOK

-----------------------------------------------------------------------------
(* The steps, sorted by what they do to reports and memory.                *)

LEMMA ProfileType == profile \in Profiles => profile \in Profile /\ "metadata" \in Detectors
  BY ProfileAssumption DEF Detectors

LEMMA IfType == ASSUME NEW c, NEW r \in Rules PROVE If(c, r) \in Seq(Rules)
<1>1. <<r>> \in Seq(Rules) /\ << >> \in Seq(Rules)
  OBVIOUS
<1>2. CASE c
  BY <1>1, <1>2 DEF If
<1>3. CASE ~c
  BY <1>1, <1>3 DEF If
<1>4. QED
  BY <1>2, <1>3

LEMMA SignalTypes ==
  ASSUME profile \in Profiles
  PROVE  /\ TyposquatSignals(profile) \in Seq(Rules)
         /\ StaticSignals(profile) \in Seq(Rules)
         /\ \A f : FetchedSignals(profile, f) \in Seq(Rules)
<1>1. \A c : \A r \in Rules : If(c, r) \in Seq(Rules)
  BY IfType
<1>2. \A s, t \in Seq(Rules) : s \o t \in Seq(Rules)
  OBVIOUS
<1>3. ScopeSignals(profile) \in Seq(Rules) /\ DistanceSignals(profile) \in Seq(Rules)
  BY <1>1, <1>2 DEF ScopeSignals, DistanceSignals, Rules
<1>4. TyposquatSignals(profile) \in Seq(Rules)
  <2>1. If(profile.segment, "typosquat_combosquat") \in Seq(Rules)
    BY <1>1 DEF Rules
  <2>2. profile.bare \in {"empty", "popular", "homoglyph", "other"}
    BY ProfileType DEF Profile
  <2>3. <<"typosquat_ascii_homoglyph">> \in Seq(Rules) /\ << >> \in Seq(Rules)
    BY DEF Rules
  <2>4. CASE profile.bare \in {"empty", "popular"}
    BY <1>2, <1>3, <2>3, <2>4 DEF TyposquatSignals
  <2>5. CASE profile.bare = "homoglyph"
    BY <1>2, <1>3, <2>3, <2>5 DEF TyposquatSignals
  <2>6. CASE profile.bare = "other"
    BY <1>2, <1>3, <2>1, <2>6 DEF TyposquatSignals
  <2>7. QED
    BY <2>2, <2>4, <2>5, <2>6
<1>5. StaticSignals(profile) \in Seq(Rules)
  BY <1>1, <1>2 DEF StaticSignals, Rules
<1>6. ASSUME NEW f PROVE FetchedSignals(profile, f) \in Seq(Rules)
  BY <1>1, <1>2 DEF FetchedSignals, Rules
<1>7. QED
  BY <1>4, <1>5, <1>6

\* A detector that has not begun to add anything returns.
Returning(d, signals) == pc[d] \in {"check", "wait"} /\ Return(d, signals)

\* A step of a Check leaves the slice alone; it hands over a report, begins to
\* wait, or is one of the requests of metadata.Check.
LEMMA CheckKind ==
  ASSUME TypeOK, Check
  PROVE  /\ UNCHANGED <<profile, added, memory, outcome>>
         /\ \/ \E d \in Detectors : \E signals \in Seq(Rules) : Returning(d, signals)
            \/ Goto("metadata", "wait") /\ UNCHANGED report
                 /\ pc["metadata"] = "check"
            \/ UNCHANGED <<pc, report>>
<1> USE DEF TypeOK, Returning
<1>1. CASE OsvAnswers
  <2>1. If(profile.vulnerable, "osv_known_vulnerability") \in Seq(Rules)
    BY IfType DEF Rules
  <2>2. QED
    BY <1>1, <2>1 DEF OsvAnswers, Detectors
<1>2. CASE OsvFails
  <2>1. << >> \in Seq(Rules)
    OBVIOUS
  <2>2. QED
    BY <1>2, <2>1 DEF OsvFails, Detectors
<1>3. CASE TyposquatCheck
  BY <1>3, SignalTypes DEF TyposquatCheck, Detectors
<1>4. CASE AnomalyCheck
  <2>1. If(profile.spike, "anomaly_version_spike") \in Seq(Rules)
    BY IfType DEF Rules
  <2>2. QED
    BY <1>4, <2>1 DEF AnomalyCheck, Detectors
<1>5. CASE LicenseCheck
  <2>1. If(profile.relicensed, "license_patch_change") \in Seq(Rules)
    BY IfType DEF Rules
  <2>2. QED
    BY <1>5, <2>1 DEF LicenseCheck, Detectors
<1>6. CASE MetadataCheck
  BY <1>6 DEF MetadataCheck
<1>7. ASSUME NEW f \in fetching, FetchSucceeds(f) \/ FetchFails(f) PROVE UNCHANGED <<pc, report, profile, added, memory, outcome>>
  BY <1>7 DEF FetchSucceeds, FetchFails
<1>8. CASE MetadataReturns
  <2>1. StaticSignals(profile) \o extra \in Seq(Rules)
    BY SignalTypes
  <2>2. QED
    BY <1>8, <2>1 DEF MetadataReturns, Detectors
<1>9. QED
  BY <1>1, <1>2, <1>3, <1>4, <1>5, <1>6, <1>7, <1>8 DEF Check

-----------------------------------------------------------------------------
(* Types.                                                                  *)

LEMMA CheckCalls ==
  ASSUME TypeOK, Check
  PROVE  /\ live' \in BOOLEAN /\ gone' \in BOOLEAN
         /\ fetching' \subseteq Calls /\ failed' \subseteq Calls /\ cut' \subseteq Calls
         /\ extra' \in Seq(Rules)
<1> USE DEF TypeOK
<1>1. CASE OsvFails
  BY <1>1 DEF OsvFails, Calls
<1>2. CASE MetadataCheck
  BY <1>2, ProfileType DEF MetadataCheck, Calls, Profile
<1>3. ASSUME NEW f \in fetching, FetchSucceeds(f)
      PROVE  extra' \in Seq(Rules) /\ fetching' \subseteq Calls /\ UNCHANGED <<live, gone, failed, cut>>
  BY <1>3, SignalTypes DEF FetchSucceeds
<1>4. ASSUME NEW f \in fetching, FetchFails(f)
      PROVE  /\ UNCHANGED <<live, gone, extra>> /\ fetching' \subseteq Calls
             /\ failed' \subseteq Calls /\ cut' \subseteq Calls
  BY <1>4 DEF FetchFails
<1>5. CASE OsvAnswers \/ TyposquatCheck \/ AnomalyCheck \/ LicenseCheck \/ MetadataReturns
  BY <1>5 DEF OsvAnswers, TyposquatCheck, AnomalyCheck, LicenseCheck, MetadataReturns
<1>6. QED
  BY <1>1, <1>2, <1>3, <1>4, <1>5 DEF Check

LEMMA InitType == Init => TypeOK
<1>1. ASSUME Init PROVE TypeOK
  <2>1. /\ header \in Words /\ header.ptr <= Len(heap) /\ local \in [Detectors -> Words]
        /\ \A d \in Detectors : local[d].ptr <= Len(heap)
    BY <1>1 DEF Init, Words, Nil
  <2>2. /\ report \in [Detectors -> Seq(Rules)] /\ added \in [Detectors -> Nat]
        /\ \A d \in Detectors : added[d] <= Len(report[d])
    BY <1>1 DEF Init
  <2>3. heap \in Seq(Seq(Element)) /\ heard \in Seq(Element) /\ extra \in Seq(Rules)
    BY <1>1 DEF Init
  <2>4. pc \in [Detectors -> Labels]
    BY <1>1 DEF Init, Labels
  <2>5. QED
    BY <1>1, <2>1, <2>2, <2>3, <2>4 DEF Init, TypeOK
<1>2. QED
  BY <1>1

LEMMA CheckType == ASSUME TypeOK, AddedOK, Check PROVE TypeOK'
<1>1. UNCHANGED <<profile, added, memory, outcome>>
  BY CheckKind
<1>2. /\ pc' \in [Detectors -> Labels] /\ report' \in [Detectors -> Seq(Rules)]
      /\ \A d \in Detectors : added'[d] <= Len(report'[d])
  <2>1. CASE \E d \in Detectors : \E signals \in Seq(Rules) : Returning(d, signals)
    BY <1>1, <2>1 DEF Returning, Return, Goto, TypeOK, AddedOK, Labels
  <2>2. CASE UNCHANGED <<report>> /\ (Goto("metadata", "wait") \/ UNCHANGED pc)
    BY <1>1, <2>2 DEF Goto, TypeOK, Labels, Detectors
  <2>3. QED
    BY <2>1, <2>2, CheckKind
<1>3. QED
  BY <1>1, <1>2, CheckCalls DEF TypeOK

LEMMA NewCapType ==
  \A newLen, oldCap \in Nat :
    NewCap(newLen, oldCap) \in Nat /\ NewCap(newLen, oldCap) >= newLen
BY DEF NewCap

\* What growslice allocates: as many elements as asked for, copied or zero.
LEMMA GrownType ==
  ASSUME TypeOK, NEW d \in Detectors, Grow(d)
  PROVE  LET old == local[d]
             cap == NewCap(old.len + 1, old.cap)
         IN  /\ cap \in Nat /\ cap > old.len
             /\ heap' \in Seq(Seq(Element)) /\ Len(heap') = Len(heap) + 1
             /\ \A a \in 1 .. Len(heap) : heap'[a] = heap[a]
             /\ Len(heap'[Len(heap')]) = cap
             /\ \A i \in 1 .. cap :
                  heap'[Len(heap')][i] =
                    IF i <= old.len /\ ~Beyond(old.ptr, i) THEN heap[old.ptr][i] ELSE Zero
<1> DEFINE old == local[d]
           cap == NewCap(old.len + 1, old.cap)
           cell(i) == IF i <= old.len /\ ~Beyond(old.ptr, i) THEN heap[old.ptr][i] ELSE Zero
           array == [i \in 1 .. cap |-> cell(i)]
<1>1. old \in Words /\ old.ptr <= Len(heap) /\ heap \in Seq(Seq(Element))
  BY DEF TypeOK
<1>2. cap \in Nat /\ cap > old.len
  <2>1. old.len + 1 \in Nat /\ old.cap \in Nat /\ old.len \in Nat
    BY <1>1 DEF Words
  <2>2. NewCap(old.len + 1, old.cap) \in Nat /\ NewCap(old.len + 1, old.cap) >= old.len + 1
    BY <2>1, NewCapType
  <2>3. QED
    BY <2>1, <2>2
<1>3. ASSUME NEW i \in 1 .. cap PROVE cell(i) \in Element
  <2>1. CASE i <= old.len /\ ~Beyond(old.ptr, i)
    <3>1. old.ptr \in 1 .. Len(heap) /\ i \in 1 .. Len(heap[old.ptr])
      BY <1>1, <2>1 DEF Beyond, Words
    <3>2. heap[old.ptr] \in Seq(Element)
      BY <1>1, <3>1
    <3>3. QED
      BY <2>1, <3>1, <3>2
  <2>2. CASE ~(i <= old.len /\ ~Beyond(old.ptr, i))
    BY <2>2 DEF Element
  <2>3. QED
    BY <2>1, <2>2
<1>4. array \in Seq(Element) /\ Len(array) = cap
  <2> HIDE DEF cell, cap
  <2>1. QED
    BY <1>2, <1>3
<1>5. heap' = Append(heap, array)
  BY DEF Grow
<1>6. heap' \in Seq(Seq(Element)) /\ Len(heap') = Len(heap) + 1
      /\ (\A a \in 1 .. Len(heap) : heap'[a] = heap[a]) /\ heap'[Len(heap')] = array
  <2> HIDE DEF array
  <2>1. QED
    BY <1>1, <1>4, <1>5
<1>7. QED
  BY <1>2, <1>4, <1>6

\* What storing an element does to the heap.
LEMMA StoredType ==
  ASSUME TypeOK, NEW d \in Detectors, StoreElement(d)
  PROVE  LET a == local[d].ptr
             i == local[d].len + 1
         IN  /\ heap' \in Seq(Seq(Element)) /\ Len(heap') = Len(heap)
             /\ Beyond(a, i) => wild' /\ heap' = heap
             /\ ~Beyond(a, i) =>
                  /\ wild' = wild
                  /\ a \in 1 .. Len(heap) /\ i \in 1 .. Len(heap[a])
                  /\ heap' = [heap EXCEPT ![a] = [@ EXCEPT ![i] = <<d, added[d] + 1>>]]
                  /\ \A b \in 1 .. Len(heap) : Len(heap'[b]) = Len(heap[b])
<1> DEFINE a == local[d].ptr
           i == local[d].len + 1
<1>1. local[d] \in Words /\ local[d].ptr <= Len(heap) /\ heap \in Seq(Seq(Element)) /\ wild \in BOOLEAN
      /\ added[d] \in Nat
  BY DEF TypeOK
<1>2. CASE Beyond(a, i)
  BY <1>1, <1>2 DEF StoreElement
<1>3. CASE ~Beyond(a, i)
  <2>1. a \in 1 .. Len(heap) /\ i \in 1 .. Len(heap[a])
    BY <1>1, <1>3 DEF Beyond, Words
  <2>2. heap' = [heap EXCEPT ![a] = [@ EXCEPT ![i] = <<d, added[d] + 1>>]] /\ wild' = wild
    BY <1>3 DEF StoreElement
  <2>3. heap[a] \in Seq(Element) /\ <<d, added[d] + 1>> \in Element
    BY <1>1, <2>1 DEF Element
  <2>4. [heap[a] EXCEPT ![i] = <<d, added[d] + 1>>] \in Seq(Element)
    BY <2>1, <2>3
  <2>5. heap' \in Seq(Seq(Element)) /\ Len(heap') = Len(heap)
    BY <1>1, <2>1, <2>2, <2>4
  <2>6. \A b \in 1 .. Len(heap) : Len(heap'[b]) = Len(heap[b])
    BY <1>1, <2>1, <2>2, <2>3
  <2>7. QED
    BY <1>3, <2>1, <2>2, <2>5, <2>6
<1>4. QED
  BY <1>2, <1>3

LEMMA AddType == ASSUME TypeOK, AddedOK, NEW d \in Detectors, Add(d) PROVE TypeOK'
<1>1. /\ UNCHANGED <<profile, calls, report, outcome>>
      /\ \E l \in Labels : Goto(d, l)
  BY DEF Add, LoadWord, LoadCap, Grow, StoreWord, StoreLen, StoreElement, Labels
<1>2. pc' \in [Detectors -> Labels]
  BY <1>1 DEF Goto, TypeOK
<1>3. CASE LoadWord(d, "ptr", "ptr", "len") \/ LoadWord(d, "len", "len", "cap") \/ LoadCap(d)
  <2>1. local' \in [Detectors -> Words] /\ \A e \in Detectors : local'[e].ptr <= Len(heap)
    <3>1. /\ header \in Words /\ header.ptr <= Len(heap) /\ local \in [Detectors -> Words]
          /\ \A e \in Detectors : local[e].ptr <= Len(heap)
      BY DEF TypeOK
    <3>2. CASE LoadWord(d, "ptr", "ptr", "len")
      BY <3>1, <3>2 DEF LoadWord, Words
    <3>3. CASE LoadWord(d, "len", "len", "cap")
      BY <3>1, <3>3 DEF LoadWord, Words
    <3>4. CASE LoadCap(d)
      BY <3>1, <3>4 DEF LoadCap, Words
    <3>5. QED
      BY <1>3, <3>2, <3>3, <3>4
  <2>2. UNCHANGED <<added, header, heap, wild>>
    BY <1>3 DEF LoadWord, LoadCap
  <2>3. QED
    BY <1>1, <1>2, <2>1, <2>2 DEF TypeOK
<1>4. CASE Grow(d)
  <2>1. local' \in [Detectors -> Words] /\ \A e \in Detectors : local'[e].ptr <= Len(heap')
    <3>1. local' = [local EXCEPT ![d].ptr = Len(heap) + 1,
                                 ![d].cap = NewCap(local[d].len + 1, local[d].cap)]
      BY <1>4 DEF Grow
    <3>2. /\ NewCap(local[d].len + 1, local[d].cap) \in Nat
          /\ Len(heap') = Len(heap) + 1 /\ Len(heap) \in Nat
      BY <1>4, GrownType DEF TypeOK
    <3>3. /\ local \in [Detectors -> Words]
          /\ \A e \in Detectors : local[e].ptr <= Len(heap)
      BY DEF TypeOK
    <3>4. local' \in [Detectors -> Words]
      <4>1. local[d] \in Words /\ Len(heap) + 1 \in Nat
        BY <3>2, <3>3
      <4>2. [local[d] EXCEPT !.ptr = Len(heap) + 1,
                             !.cap = NewCap(local[d].len + 1, local[d].cap)] \in Words
        BY <3>2, <4>1 DEF Words
      <4>3. local' = [local EXCEPT ![d] = [@ EXCEPT !.ptr = Len(heap) + 1,
                                           !.cap = NewCap(local[d].len + 1, local[d].cap)]]
        BY <3>1, <3>3
      <4>4. QED
        BY <3>3, <4>2, <4>3
    <3>5. \A e \in Detectors : local'[e].ptr = IF e = d THEN Len(heap) + 1 ELSE local[e].ptr
      BY <3>1, <3>2, <3>3 DEF Words
    <3>6. \A e \in Detectors : local[e].ptr \in Nat
      BY <3>3 DEF Words
    <3>7. QED
      BY <3>2, <3>3, <3>4, <3>5, <3>6
  <2>2. UNCHANGED <<added, header>> /\ wild' \in BOOLEAN
    <3>1. wild \in BOOLEAN
      BY DEF TypeOK
    <3>2. wild' = (wild \/ Beyond(local[d].ptr, local[d].len)) /\ UNCHANGED <<added, header>>
      BY <1>4 DEF Grow
    <3>3. QED
      BY <3>1, <3>2
  <2>3. header.ptr <= Len(heap')
    <3>1. Len(heap') = Len(heap) + 1 /\ Len(heap) \in Nat
      BY <1>4, GrownType DEF TypeOK
    <3>2. header.ptr \in Nat /\ header.ptr <= Len(heap)
      BY DEF TypeOK, Words
    <3>3. QED
      BY <3>1, <3>2
  <2>4. heap' \in Seq(Seq(Element))
    BY <1>4, GrownType
  <2>5. QED
    BY <1>1, <1>2, <2>1, <2>2, <2>3, <2>4 DEF TypeOK
<1>5. CASE StoreWord(d, "cap", "set_cap", "set_ptr") \/ StoreWord(d, "ptr", "set_ptr", "set_len")
           \/ StoreLen(d)
  <2>1. header' \in Words /\ header'.ptr <= Len(heap)
    <3>1. /\ header \in Words /\ header.ptr <= Len(heap) /\ local[d] \in Words
          /\ local[d].ptr <= Len(heap)
      BY DEF TypeOK
    <3>2. CASE StoreWord(d, "cap", "set_cap", "set_ptr")
      BY <3>1, <3>2 DEF StoreWord, Words
    <3>3. CASE StoreWord(d, "ptr", "set_ptr", "set_len")
      BY <3>1, <3>3 DEF StoreWord, Words
    <3>4. CASE StoreLen(d)
      BY <3>1, <3>4 DEF StoreLen, Words
    <3>5. QED
      BY <1>5, <3>2, <3>3, <3>4
  <2>2. UNCHANGED <<added, local, heap, wild>>
    BY <1>5 DEF StoreWord, StoreLen
  <2>3. QED
    BY <1>1, <1>2, <2>1, <2>2 DEF TypeOK
<1>6. CASE StoreElement(d)
  <2>1. heap' \in Seq(Seq(Element)) /\ Len(heap') = Len(heap) /\ wild' \in BOOLEAN
    BY <1>6, StoredType DEF TypeOK, StoreElement
  <2>2. /\ added' \in [Detectors -> Nat]
        /\ \A e \in Detectors : added'[e] <= Len(report[e])
    BY <1>6 DEF StoreElement, TypeOK, AddedOK, Appending
  <2>3. UNCHANGED <<header, local>>
    BY <1>6 DEF StoreElement
  <2>4. QED
    BY <1>1, <1>2, <2>1, <2>2, <2>3 DEF TypeOK
<1>7. QED
  BY <1>3, <1>4, <1>5, <1>6 DEF Add

\* What the policy engine reads.
LEMMA HeardType ==
  ASSUME TypeOK, Decide
  PROVE  /\ heard' \in Seq(Element) /\ Len(heard') = header.len
         /\ \A i \in 1 .. header.len :
              /\ Beyond(header.ptr, i) => heard'[i] = Zero
              /\ ~Beyond(header.ptr, i) =>
                   /\ heard'[i] = heap[header.ptr][i]
                   /\ header.ptr \in 1 .. Len(heap) /\ i \in 1 .. Len(heap[header.ptr])
<1> DEFINE cell(i) == IF Beyond(header.ptr, i) THEN Zero ELSE heap[header.ptr][i]
<1>1. header.len \in Nat /\ header.ptr \in 0 .. Len(heap) /\ heap \in Seq(Seq(Element))
  BY DEF TypeOK, Words
<1>2. ASSUME NEW i \in 1 .. header.len, ~Beyond(header.ptr, i)
      PROVE  header.ptr \in 1 .. Len(heap) /\ i \in 1 .. Len(heap[header.ptr])
  BY <1>1, <1>2 DEF Beyond
<1>3. ASSUME NEW i \in 1 .. header.len PROVE cell(i) \in Element
  <2>1. CASE Beyond(header.ptr, i)
    BY <2>1 DEF Element
  <2>2. CASE ~Beyond(header.ptr, i)
    BY <1>1, <1>2, <2>2
  <2>3. QED
    BY <2>1, <2>2
<1>4. heard' = [i \in 1 .. header.len |-> cell(i)]
  BY DEF Decide
<1>5. heard' \in Seq(Element) /\ Len(heard') = header.len
  <2> DEFINE array == [i \in 1 .. header.len |-> cell(i)]
  <2>1. header.len \in Nat
    BY <1>1
  <2>2. array \in Seq(Element) /\ Len(array) = header.len
    <3> HIDE DEF cell
    <3>1. QED
      BY <1>3, <2>1
  <2>3. QED
    BY <1>4, <2>2
<1>6. ASSUME NEW i \in 1 .. header.len PROVE heard'[i] = cell(i)
  BY <1>4
<1>7. QED
  BY <1>2, <1>5, <1>6

LEMMA NextType == TypeOK /\ AddedOK /\ [Next]_vars => TypeOK'
<1> SUFFICES ASSUME TypeOK, AddedOK, [Next]_vars PROVE TypeOK'
  OBVIOUS
<1>1. CASE Decide
  <2>1. wild' \in BOOLEAN
    <3>1. wild \in BOOLEAN /\ wild' = (wild \/ Beyond(header.ptr, header.len))
      BY <1>1 DEF Decide, TypeOK
    <3>2. QED
      BY <3>1
  <2>2. QED
    BY <1>1, <2>1, HeardType DEF Decide, TypeOK
<1>2. CASE ClientGoes
  BY <1>2 DEF ClientGoes, TypeOK
<1>3. CASE UNCHANGED vars
  BY <1>3 DEF TypeOK
<1>4. QED
  BY <1>1, <1>2, <1>3, CheckType, AddType DEF Next

-----------------------------------------------------------------------------
(* How many signals a detector has added.                                  *)

LEMMA InitAdded == Init => AddedOK
  BY DEF Init, AddedOK, Appending

LEMMA NextAdded == TypeOK /\ AddedOK /\ [Next]_vars => AddedOK'
<1> SUFFICES ASSUME TypeOK, AddedOK, [Next]_vars PROVE AddedOK'
  OBVIOUS
<1>1. CASE Check
  <2>1. UNCHANGED <<added, decided>>
    BY <1>1, CheckKind
  <2>2. CASE \E d \in Detectors : \E signals \in Seq(Rules) : Returning(d, signals)
    <3>1. PICK d \in Detectors, signals \in Seq(Rules) : Returning(d, signals)
      BY <2>2
    <3>2. signals = << >> \/ Len(signals) > 0
      OBVIOUS
    <3>3. Len(<< >>) = 0
      OBVIOUS
    <3>4. ~decided
      BY <3>1 DEF AddedOK, Returning
    <3>5. QED
      BY <2>1, <3>1, <3>2, <3>3, <3>4 DEF AddedOK, Appending, Returning, Return, Goto, TypeOK
  <2>3. CASE Goto("metadata", "wait") /\ UNCHANGED report /\ pc["metadata"] = "check"
    <3>1. "metadata" \in Detectors
      BY DEF Detectors
    <3>2. QED
      BY <2>1, <2>3, <3>1 DEF AddedOK, Appending, Goto, TypeOK
  <2>4. CASE UNCHANGED <<pc, report>>
    BY <2>1, <2>4 DEF AddedOK, Appending
  <2>5. QED
    BY <1>1, <2>2, <2>3, <2>4, CheckKind
<1>2. ASSUME NEW d \in Detectors, Add(d) PROVE AddedOK'
  <2>1. pc[d] \in Appending /\ UNCHANGED <<report, decided>>
    BY <1>2 DEF Add, LoadWord, LoadCap, Grow, StoreWord, StoreLen, StoreElement, Appending
  <2>2. ~decided
    BY <2>1 DEF AddedOK, Appending
  <2>3. CASE StoreElement(d)
    <3>1. added' = [added EXCEPT ![d] = @ + 1]
          /\ Goto(d, IF added'[d] = Len(report[d]) THEN "done" ELSE "ptr")
      BY <2>3 DEF StoreElement
    <3>2. added[d] < Len(report[d]) /\ added[d] \in Nat /\ Len(report[d]) \in Nat
      BY <2>1 DEF AddedOK, TypeOK
    <3>3. QED
      BY <2>1, <2>2, <3>1, <3>2 DEF AddedOK, Appending, Goto, TypeOK
  <2>4. CASE UNCHANGED added /\ \E l \in Appending : Goto(d, l)
    BY <2>1, <2>2, <2>4 DEF AddedOK, Appending, Goto, TypeOK
  <2>5. QED
    BY <1>2, <2>3, <2>4 DEF Add, LoadWord, LoadCap, Grow, StoreWord, StoreLen, Appending
<1>3. CASE ClientGoes \/ UNCHANGED vars
  BY <1>3 DEF ClientGoes, AddedOK, Appending
<1>4. CASE Decide
  BY <1>4 DEF Decide, AddedOK, Appending
<1>5. QED
  BY <1>1, <1>2, <1>3, <1>4 DEF Next

-----------------------------------------------------------------------------
(* What the arrays hold.                                                   *)

LEMMA InitHeap == Init => HeapOK
  BY DEF Init, HeapOK, Genuine

\* Another signal added makes nothing less genuine.
LEMMA GenuineStays ==
  ASSUME NEW s \in Seq(Element), NEW n \in [Detectors -> Nat], NEW m \in [Detectors -> Nat],
         Genuine(s, n), \A d \in Detectors : n[d] <= m[d]
  PROVE  Genuine(s, m)
<1>1. ASSUME NEW i \in DOMAIN s, s[i] # Zero
      PROVE  s[i][2] <= m[s[i][1]]
  <2>1. s[i][1] \in Detectors /\ s[i][2] \in Nat /\ s[i][2] <= n[s[i][1]]
    BY <1>1 DEF Genuine, Element
  <2>2. QED
    BY <2>1
<1>2. QED
  BY <1>1 DEF Genuine

LEMMA NextHeap == TypeOK /\ AddedOK /\ HeapOK /\ [Next]_vars => HeapOK'
<1> SUFFICES ASSUME TypeOK, AddedOK, HeapOK, [Next]_vars PROVE HeapOK'
  OBVIOUS
<1> USE DEF HeapOK
<1>1. CASE UNCHANGED <<added, heap, heard>>
  BY <1>1 DEF Genuine
<1>2. CASE Check \/ ClientGoes \/ UNCHANGED vars
  BY <1>1, <1>2, CheckKind DEF ClientGoes
<1>3. CASE Decide
  <2>1. UNCHANGED <<added, heap>> /\ \A a \in DOMAIN heap : Genuine(heap'[a], added')
    BY <1>3 DEF Decide
  <2>2. /\ heard' \in Seq(Element) /\ Len(heard') = header.len
        /\ \A i \in 1 .. header.len :
              \/ heard'[i] = Zero
              \/ /\ heard'[i] = heap[header.ptr][i]
                 /\ header.ptr \in 1 .. Len(heap) /\ i \in 1 .. Len(heap[header.ptr])
    BY <1>3, HeardType
  <2>3. DOMAIN heard' = 1 .. header.len
    BY <2>2
  <2>4. header.ptr \in 1 .. Len(heap) =>
          DOMAIN heap[header.ptr] = 1 .. Len(heap[header.ptr]) /\ Genuine(heap[header.ptr], added)
    BY DEF TypeOK
  <2>5. Genuine(heard', added')
    <3>1. \A i \in 1 .. header.len :
             heard'[i] # Zero => heard'[i][2] <= added[heard'[i][1]]
      BY <2>2, <2>4 DEF Genuine
    <3>2. \A i, j \in 1 .. header.len :
             heard'[i] = heard'[j] /\ heard'[i] # Zero => i = j
      BY <2>2, <2>4 DEF Genuine
    <3>3. QED
      BY <2>1, <2>3, <3>1, <3>2 DEF Genuine
  <2>6. QED
    BY <2>1, <2>5
<1>4. ASSUME NEW d \in Detectors, Grow(d) PROVE HeapOK'
  <2>1. UNCHANGED <<added, heard>> /\ Genuine(heard', added')
    BY <1>4 DEF Grow, Genuine
  <2>2. /\ heap' \in Seq(Seq(Element)) /\ Len(heap') = Len(heap) + 1
        /\ \A a \in 1 .. Len(heap) : heap'[a] = heap[a]
        /\ heap \in Seq(Seq(Element))
    BY <1>4, GrownType DEF TypeOK
  <2>3. ASSUME NEW a \in 1 .. Len(heap) PROVE Genuine(heap'[a], added')
    <3>1. heap'[a] = heap[a] /\ a \in DOMAIN heap
      BY <2>2
    <3>2. QED
      BY <2>1, <3>1
  <2>4. Genuine(heap'[Len(heap')], added')
    <3> DEFINE new == heap'[Len(heap')]
               old == local[d]
    <3>1. Len(new) \in Nat /\ DOMAIN new = 1 .. Len(new)
      BY <2>2
    <3>2. \A i \in 1 .. Len(new) :
             new[i] = IF i <= old.len /\ ~Beyond(old.ptr, i) THEN heap[old.ptr][i] ELSE Zero
      BY <1>4, GrownType
    <3>3. old.ptr \in Nat /\ old.ptr <= Len(heap)
      BY DEF TypeOK, Words
    <3>4. \A i \in 1 .. Len(new) : new[i] # Zero =>
             /\ new[i] = heap[old.ptr][i]
             /\ old.ptr \in 1 .. Len(heap) /\ i \in 1 .. Len(heap[old.ptr])
      BY <3>1, <3>2, <3>3, <2>2 DEF Beyond
    <3>5. old.ptr \in 1 .. Len(heap) =>
            DOMAIN heap[old.ptr] = 1 .. Len(heap[old.ptr]) /\ Genuine(heap[old.ptr], added)
      BY <2>2
    <3> HIDE DEF new, old
    <3>6. \A i \in 1 .. Len(new) : new[i] # Zero => new[i][2] <= added[new[i][1]]
      BY <3>4, <3>5 DEF Genuine
    <3>7. \A i, j \in 1 .. Len(new) : new[i] = new[j] /\ new[i] # Zero => i = j
      BY <3>4, <3>5 DEF Genuine
    <3>8. (\A i \in DOMAIN new : new[i] # Zero => new[i][2] <= added'[new[i][1]])
          /\ (\A i, j \in DOMAIN new : new[i] = new[j] /\ new[i] # Zero => i = j)
      BY <2>1, <3>1, <3>6, <3>7
    <3>9. QED
      BY <3>8 DEF Genuine, new
  <2>5. \A a \in DOMAIN heap' : a \in 1 .. Len(heap) \/ a = Len(heap')
    BY <2>2
  <2>6. QED
    BY <2>1, <2>3, <2>4, <2>5
<1>5. ASSUME NEW d \in Detectors, StoreElement(d) PROVE HeapOK'
  <2> DEFINE a == local[d].ptr
             i == local[d].len + 1
             e == <<d, added[d] + 1>>
  <2>1. /\ heap' \in Seq(Seq(Element)) /\ Len(heap') = Len(heap) /\ heap \in Seq(Seq(Element))
        /\ added \in [Detectors -> Nat] /\ UNCHANGED heard /\ heard \in Seq(Element)
        /\ added' = [added EXCEPT ![d] = @ + 1]
    BY <1>5, StoredType DEF StoreElement, TypeOK
  <2>2. added' \in [Detectors -> Nat] /\ \A x \in Detectors : added[x] <= added'[x]
    BY <2>1
  <2>3. Genuine(heard', added')
    BY <2>1, <2>2, GenuineStays
  <2>4. ASSUME NEW b \in 1 .. Len(heap) PROVE heap[b] \in Seq(Element) /\ Genuine(heap[b], added)
    <3>1. b \in DOMAIN heap
      BY <2>1
    <3>2. QED
      BY <2>1, <3>1
  <2>5. ASSUME NEW b \in 1 .. Len(heap), heap'[b] = heap[b] PROVE Genuine(heap'[b], added')
    BY <2>1, <2>2, <2>4, <2>5, GenuineStays
  <2>6. CASE Beyond(a, i)
    <3>1. heap' = heap
      BY <1>5, <2>6, StoredType
    <3>2. DOMAIN heap' = 1 .. Len(heap)
      BY <2>1
    <3>3. QED
      BY <2>3, <2>5, <3>1, <3>2
  <2>7. CASE ~Beyond(a, i)
    <3>1. /\ a \in 1 .. Len(heap) /\ i \in 1 .. Len(heap[a])
          /\ heap' = [heap EXCEPT ![a] = [@ EXCEPT ![i] = e]]
      BY <1>5, <2>7, StoredType
    <3> HIDE DEF a, i
    <3>2. ASSUME NEW j \in DOMAIN heap[a], heap[a][j] # Zero PROVE heap[a][j] # e
      <4>1. heap[a][j] \in Detectors \X Nat /\ heap[a][j][2] <= added[heap[a][j][1]]
        BY <2>4, <3>1, <3>2 DEF Genuine, Element
      <4>2. added[d] \in Nat
        BY <2>1
      <4>3. QED
        BY <4>1, <4>2
    <3>3. /\ DOMAIN heap'[a] = DOMAIN heap[a]
          /\ \A j \in DOMAIN heap[a] : heap'[a][j] = IF j = i THEN e ELSE heap[a][j]
      BY <2>1, <2>4, <3>1
    <3>4. e # Zero /\ e[1] = d /\ e[2] = added'[d]
      BY <2>1 DEF Zero, Detectors
    <3>5. \A j \in DOMAIN heap[a] : heap[a][j] # Zero =>
             heap[a][j][2] <= added'[heap[a][j][1]]
      <4>1. Genuine(heap[a], added')
        BY <2>1, <2>2, <2>4, <3>1, GenuineStays
      <4>2. QED
        BY <4>1 DEF Genuine
    <3> HIDE DEF e
    <3>6. \A j \in DOMAIN heap'[a] : heap'[a][j] # Zero =>
             heap'[a][j][2] <= added'[heap'[a][j][1]]
      <4>1. added'[d] \in Nat
        BY <2>2
      <4>2. QED
        BY <3>3, <3>4, <3>5, <4>1
    <3>7. \A j, k \in DOMAIN heap'[a] :
             heap'[a][j] = heap'[a][k] /\ heap'[a][j] # Zero => j = k
      BY <2>4, <3>1, <3>2, <3>3, <3>4 DEF Genuine
    <3>8. Genuine(heap'[a], added')
      BY <3>6, <3>7 DEF Genuine
    <3>9. \A b \in 1 .. Len(heap) : b # a => heap'[b] = heap[b]
      BY <2>1, <3>1
    <3>10. DOMAIN heap' = 1 .. Len(heap)
      BY <2>1
    <3>11. QED
      BY <2>3, <2>5, <3>8, <3>9, <3>10
  <2>8. QED
    BY <2>6, <2>7
<1>6. ASSUME NEW d \in Detectors, Add(d), ~Grow(d), ~StoreElement(d) PROVE HeapOK'
  BY <1>1, <1>6 DEF Add, LoadWord, LoadCap, StoreWord, StoreLen
<1>7. QED
  BY <1>2, <1>3, <1>4, <1>5, <1>6 DEF Next

-----------------------------------------------------------------------------
(* A detector that nobody disturbs.                                        *)

LEMMA InitLone == Init => LoneOK
  BY DEF Init, LoneOK, Alone, Cells, Nil

\* Each step of an append that nobody disturbs.
LEMMA AddAlone ==
  ASSUME TypeOK, AddedOK, NEW d \in Detectors, Add(d), Alone(d)
  PROVE  Alone(d)'
<1>1. /\ header \in Words /\ header.ptr <= Len(heap)
      /\ local \in [Detectors -> Words] /\ local[d].ptr <= Len(heap)
      /\ heap \in Seq(Seq(Element)) /\ added \in [Detectors -> Nat] /\ pc \in [Detectors -> Labels]
  BY DEF TypeOK
<1>2. /\ header.ptr \in Nat /\ header.len \in Nat /\ header.cap \in Nat
      /\ local[d].ptr \in Nat /\ local[d].len \in Nat /\ local[d].cap \in Nat /\ added[d] \in Nat
  BY <1>1 DEF Words
<1>3. pc[d] \in Appending /\ UNCHANGED <<report, decided, heard>> /\ ~decided /\ ~decided'
  BY DEF Add, LoadWord, LoadCap, Grow, StoreWord, StoreLen, StoreElement, Appending, AddedOK
<1>4. CASE LoadWord(d, "ptr", "ptr", "len")
  <2>1. UNCHANGED <<header, heap, wild, added>> /\ pc[d] = "ptr" /\ pc'[d] = "len"
        /\ local'[d].ptr = header.ptr
    BY <1>1, <1>4 DEF LoadWord, Goto, Words
  <2>2. QED
    BY <1>3, <2>1 DEF Alone, Cells
<1>5. CASE LoadWord(d, "len", "len", "cap")
  <2>1. UNCHANGED <<header, heap, wild, added>> /\ pc[d] = "len" /\ pc'[d] = "cap"
        /\ local'[d].ptr = local[d].ptr /\ local'[d].len = header.len
    BY <1>1, <1>5 DEF LoadWord, Goto, Words
  <2>2. QED
    BY <1>3, <2>1 DEF Alone, Cells
<1>6. CASE LoadCap(d)
  <2>1. UNCHANGED <<header, heap, wild, added>> /\ pc[d] = "cap"
        /\ pc'[d] = (IF local[d].len < header.cap THEN "set_len" ELSE "grow")
        /\ local'[d].ptr = local[d].ptr /\ local'[d].len = local[d].len /\ local'[d].cap = header.cap
    BY <1>1, <1>6 DEF LoadCap, Goto, Words
  <2>2. QED
    BY <1>2, <1>3, <2>1 DEF Alone, Cells
<1>7. CASE Grow(d)
  <2>1. UNCHANGED <<header, added>> /\ pc[d] = "grow" /\ pc'[d] = "set_cap"
        /\ wild' = (wild \/ Beyond(local[d].ptr, local[d].len))
    BY <1>1, <1>7 DEF Grow, Goto
  <2>2. local[d].len = added[d] /\ local[d].ptr = header.ptr /\ local[d].cap = header.cap
        /\ Cells(d, header.ptr, header.cap, added[d]) /\ header.len = added[d] /\ ~wild
    BY <2>1 DEF Alone
  <2>3. \A i \in 1 .. added[d] : ~Beyond(header.ptr, i)
    BY <1>2, <2>2 DEF Cells, Beyond
  <2>4. ~Beyond(header.ptr, added[d])
    BY <1>2, <2>2 DEF Cells, Beyond
  <2>5. ~wild'
    BY <2>1, <2>2, <2>4
  <2>6. /\ Len(heap') = Len(heap) + 1 /\ Len(heap) \in Nat
        /\ \A a \in 1 .. Len(heap) : heap'[a] = heap[a]
        /\ NewCap(added[d] + 1, header.cap) \in Nat
        /\ NewCap(added[d] + 1, header.cap) > added[d]
        /\ Len(heap'[Len(heap')]) = NewCap(added[d] + 1, header.cap)
        /\ \A i \in 1 .. NewCap(added[d] + 1, header.cap) :
              heap'[Len(heap')][i] =
                IF i <= added[d] /\ ~Beyond(header.ptr, i) THEN heap[header.ptr][i] ELSE Zero
    BY <1>1, <1>7, <2>2, GrownType, SMTT(20)
  <2>7. /\ local'[d].ptr = Len(heap) + 1 /\ local'[d].len = added[d]
        /\ local'[d].cap = NewCap(added[d] + 1, header.cap)
    BY <1>1, <1>7, <2>2 DEF Grow, Words
  <2>8. Cells(d, header.ptr, header.cap, added[d])'
    <3>1. header' = header /\ added' = added
      BY <2>1
    <3>2. header.ptr # 0 => header.ptr \in 1 .. Len(heap)
      <4>1. header.ptr <= Len(heap)
        BY <1>1
      <4>2. header.ptr \in Nat /\ Len(heap) \in Nat
        BY <1>2, <2>6
      <4>3. QED
        BY ONLY <4>1, <4>2
    <3>3. header.ptr # 0 => heap'[header.ptr] = heap[header.ptr]
      BY <2>6, <3>2, Zenon
    <3>4. QED
      BY <2>2, <3>1, <3>3 DEF Cells
  <2>9. \A i \in 1 .. added[d] : heap'[Len(heap) + 1][i] = <<d, i>>
    <3>1. SUFFICES ASSUME NEW i \in 1 .. added[d] PROVE heap'[Len(heap) + 1][i] = <<d, i>>
      OBVIOUS
    <3>2. header.ptr # 0
      BY <1>2, <2>2 DEF Cells
    <3>3. heap[header.ptr][i] = <<d, i>>
      BY <2>2, <3>2 DEF Cells
    <3>4. i \in 1 .. NewCap(added[d] + 1, header.cap)
      BY <1>2, <2>6
    <3>5. QED
      BY <2>3, <2>6, <3>3, <3>4
  <2>10. Cells(d, local[d].ptr, local[d].cap, added[d])'
    BY <1>2, <2>1, <2>6, <2>7, <2>9 DEF Cells
  <2>11. QED
    BY <1>2, <1>3, <2>1, <2>2, <2>5, <2>6, <2>7, <2>8, <2>10 DEF Alone
<1>8. CASE StoreWord(d, "cap", "set_cap", "set_ptr")
  <2>1. UNCHANGED <<local, heap, wild, added>> /\ pc[d] = "set_cap" /\ pc'[d] = "set_ptr"
        /\ header'.ptr = header.ptr /\ header'.len = header.len /\ header'.cap = local[d].cap
    BY <1>1, <1>8 DEF StoreWord, Goto, Words
  <2>2. QED
    BY <1>3, <2>1 DEF Alone, Cells
<1>9. CASE StoreWord(d, "ptr", "set_ptr", "set_len")
  <2>1. UNCHANGED <<local, heap, wild, added>> /\ pc[d] = "set_ptr" /\ pc'[d] = "set_len"
        /\ header'.ptr = local[d].ptr /\ header'.len = header.len /\ header'.cap = header.cap
    BY <1>1, <1>9 DEF StoreWord, Goto, Words
  <2>2. QED
    BY <1>3, <2>1 DEF Alone, Cells
<1>10. CASE StoreLen(d)
  <2>1. UNCHANGED <<local, heap, wild, added>> /\ pc[d] = "set_len" /\ pc'[d] = "set_element"
        /\ header'.ptr = header.ptr /\ header'.len = local[d].len + 1 /\ header'.cap = header.cap
    BY <1>1, <1>10 DEF StoreLen, Goto, Words
  <2>2. QED
    BY <1>3, <2>1 DEF Alone, Cells
<1>11. CASE StoreElement(d)
  <2>1. UNCHANGED <<local, header>> /\ pc[d] = "set_element" /\ pc'[d] \in {"ptr", "done"}
        /\ added'[d] = added[d] + 1
    BY <1>1, <1>11 DEF StoreElement, Goto
  <2>2. /\ local[d].len = added[d] /\ local[d].ptr = header.ptr /\ header.len = added[d] + 1
        /\ Cells(d, header.ptr, header.cap, added[d]) /\ added[d] < header.cap /\ ~wild
    BY <2>1 DEF Alone
  <2>3. header.ptr # 0 /\ ~Beyond(header.ptr, added[d] + 1)
    BY <1>2, <2>2 DEF Cells, Beyond
  <2>4. /\ wild' = wild /\ added[d] + 1 \in 1 .. Len(heap[header.ptr])
        /\ header.ptr \in 1 .. Len(heap)
        /\ heap' = [heap EXCEPT ![header.ptr] = [@ EXCEPT ![added[d] + 1] = <<d, added[d] + 1>>]]
        /\ Len(heap'[header.ptr]) = Len(heap[header.ptr])
    BY <1>11, <2>2, <2>3, StoredType
  <2>5. /\ heap[header.ptr] \in Seq(Element)
        /\ heap'[header.ptr] = [heap[header.ptr] EXCEPT ![added[d] + 1] = <<d, added[d] + 1>>]
    <3>1. header.ptr \in DOMAIN heap
      BY <1>1, <2>4
    <3>2. QED
      BY <1>1, <2>4, <3>1
  <2>6. \A i \in 1 .. (added[d] + 1) : heap'[header.ptr][i] = <<d, i>>
    BY <1>2, <2>2, <2>3, <2>4, <2>5, SMTT(20) DEF Cells
  <2>7. Cells(d, header.ptr, header.cap, added[d])'
    BY <1>2, <2>1, <2>2, <2>3, <2>4, <2>6 DEF Cells
  <2>8. QED
    BY <1>3, <2>1, <2>2, <2>4, <2>7 DEF Alone
<1>12. QED
  BY <1>4, <1>5, <1>6, <1>7, <1>8, <1>9, <1>10, <1>11 DEF Add

LEMMA NextLone == TypeOK /\ AddedOK /\ LoneOK /\ [Next]_vars => LoneOK'
<1> SUFFICES ASSUME TypeOK, AddedOK, LoneOK, [Next]_vars, NEW d \in Detectors, Silent(d)'
             PROVE  Alone(d)'
  BY DEF LoneOK
<1>1. CASE Check
  <2>1. UNCHANGED <<added, memory, outcome>>
    BY <1>1, CheckKind
  <2>2. CASE \E e \in Detectors : \E signals \in Seq(Rules) : Returning(e, signals)
    <3>1. PICK e \in Detectors, signals \in Seq(Rules) : Returning(e, signals)
      BY <2>2
    <3>2. report' = [report EXCEPT ![e] = signals] /\ report[e] = << >> /\ ~decided /\ added[e] = 0
          /\ report \in [Detectors -> Seq(Rules)] /\ pc[e] \in {"check", "wait"}
          /\ Goto(e, IF signals = << >> THEN "done" ELSE "ptr") /\ pc \in [Detectors -> Labels]
      BY <3>1 DEF Returning, Return, AddedOK, TypeOK
    <3>3. Silent(d)
      BY <3>1, <3>2 DEF Silent
    <3>4. Alone(d)
      BY <3>3 DEF LoneOK
    <3>5. pc'[d] = pc[d] \/ (pc[d] \in {"check", "wait"} /\ pc'[d] \in {"done", "ptr"})
      BY <3>1, <3>2 DEF Goto
    <3>6. QED
      BY <2>1, <3>2, <3>4, <3>5 DEF Alone, Cells
  <2>3. CASE Goto("metadata", "wait") /\ UNCHANGED report /\ pc["metadata"] = "check"
    <3>1. Silent(d) /\ ~decided
      BY <2>3 DEF Silent, AddedOK, Detectors
    <3>2. Alone(d)
      BY <3>1 DEF LoneOK
    <3>3. pc'[d] = pc[d] \/ (pc[d] = "check" /\ pc'[d] = "wait")
      BY <2>3 DEF Goto, TypeOK, Detectors
    <3>4. QED
      BY <2>1, <2>3, <3>1, <3>2, <3>3 DEF Alone, Cells
  <2>4. CASE UNCHANGED <<pc, report>>
    BY <2>1, <2>4 DEF LoneOK, Silent, Alone, Cells
  <2>5. QED
    BY <1>1, <2>2, <2>3, <2>4, CheckKind
<1>2. ASSUME NEW e \in Detectors, Add(e) PROVE Alone(d)'
  <2>1. pc[e] \in Appending /\ UNCHANGED report
    BY <1>2 DEF Add, LoadWord, LoadCap, Grow, StoreWord, StoreLen, StoreElement, Appending
  <2>2. added[e] < Len(report[e]) /\ added[e] \in Nat
    BY <2>1 DEF AddedOK, TypeOK
  <2>3. report[e] # << >>
    BY <2>2
  <2>4. e = d /\ Silent(d)
    BY <2>1, <2>3 DEF Silent
  <2>5. QED
    BY <1>2, <2>4, AddAlone DEF LoneOK
<1>3. CASE ClientGoes \/ UNCHANGED vars
  <2>1. UNCHANGED <<pc, report, added, memory, outcome>>
    BY <1>3 DEF ClientGoes
  <2>2. QED
    BY <2>1 DEF LoneOK, Silent, Alone, Cells
<1>4. CASE Decide
  <2>1. pc[d] = "done" /\ UNCHANGED <<pc, report, added, header, heap, local>>
        /\ wild' = (wild \/ Beyond(header.ptr, header.len))
    BY <1>4 DEF Decide
  <2>2. Alone(d)
    BY <2>1 DEF LoneOK, Silent
  <2>3. header.len = added[d] /\ added[d] = Len(report[d]) /\ ~wild
        /\ Cells(d, header.ptr, header.cap, added[d])
    BY <2>1, <2>2 DEF Alone, AddedOK
  <2>4. /\ header.ptr \in Nat /\ header.len \in Nat /\ header.cap \in Nat
        /\ added[d] \in Nat /\ Len(report[d]) \in Nat
    BY DEF TypeOK, Words
  <2>5. ~Beyond(header.ptr, header.len) /\ \A i \in 1 .. header.len : ~Beyond(header.ptr, i)
    BY <2>3, <2>4 DEF Cells, Beyond
  <2>6. \A i \in 1 .. header.len : heap[header.ptr][i] = <<d, i>>
    BY <2>3, <2>4 DEF Cells
  <2>7. heard' = [i \in 1 .. Len(report[d]) |-> <<d, i>>]
    BY <1>4, <2>3, <2>5, <2>6 DEF Decide
  <2>8. QED
    BY <2>1, <2>2, <2>3, <2>5, <2>7 DEF Alone, Cells
<1>5. QED
  BY <1>1, <1>2, <1>3, <1>4 DEF Next

-----------------------------------------------------------------------------
(* The requests of metadata.Check.                                         *)

LEMMA InitFetch == Init => FetchOK
  BY DEF Init, FetchOK, Detectors

LEMMA RangeConcat ==
  ASSUME NEW s \in Seq(Rules), NEW t \in Seq(Rules)
  PROVE  Range(s \o t) = Range(s) \union Range(t)
<1>1. /\ s \o t \in Seq(Rules) /\ Len(s \o t) = Len(s) + Len(t)
      /\ \A i \in 1 .. Len(s) + Len(t) :
            (s \o t)[i] = IF i <= Len(s) THEN s[i] ELSE t[i - Len(s)]
  OBVIOUS
<1>2. /\ DOMAIN s = 1 .. Len(s) /\ DOMAIN t = 1 .. Len(t) /\ DOMAIN (s \o t) = 1 .. Len(s) + Len(t)
      /\ Len(s) \in Nat /\ Len(t) \in Nat
  BY <1>1
<1>3. ASSUME NEW i \in DOMAIN (s \o t) PROVE (s \o t)[i] \in Range(s) \union Range(t)
  BY <1>1, <1>2 DEF Range
<1>4. ASSUME NEW i \in DOMAIN s PROVE s[i] \in Range(s \o t)
  <2>1. i \in DOMAIN (s \o t) /\ (s \o t)[i] = s[i]
    BY <1>1, <1>2
  <2>2. QED
    BY <2>1 DEF Range
<1>5. ASSUME NEW i \in DOMAIN t PROVE t[i] \in Range(s \o t)
  <2>1. i + Len(s) \in DOMAIN (s \o t) /\ (s \o t)[i + Len(s)] = t[i]
    BY <1>1, <1>2
  <2>2. QED
    BY <2>1 DEF Range
<1>6. QED
  BY <1>3, <1>4, <1>5 DEF Range

LEMMA NextFetch == TypeOK /\ AddedOK /\ FetchOK /\ [Next]_vars => FetchOK'
<1> SUFFICES ASSUME TypeOK, AddedOK, FetchOK, [Next]_vars PROVE FetchOK'
  OBVIOUS
<1> DEFINE came(f) == FetchedSignals(profile, f)
<1>1. "osv" \notin Requests /\ "metadata" \in Detectors /\ pc \in [Detectors -> Labels]
      /\ report \in [Detectors -> Seq(Rules)] /\ extra \in Seq(Rules)
  BY ProfileType, ProfileAssumption DEF Requests, Profile, TypeOK, Detectors
<1>2. ASSUME NEW d \in Detectors, d # "metadata",
             \/ \E signals : Return(d, signals)
             \/ \E l : Goto(d, l) /\ UNCHANGED report
      PROVE  pc'["metadata"] = pc["metadata"] /\ report'["metadata"] = report["metadata"]
  BY <1>1, <1>2 DEF Return, Goto
<1>3. CASE OsvAnswers \/ TyposquatCheck \/ AnomalyCheck \/ LicenseCheck
  <2>1. UNCHANGED <<profile, calls>>
    BY <1>3 DEF OsvAnswers, TyposquatCheck, AnomalyCheck, LicenseCheck
  <2>2. pc'["metadata"] = pc["metadata"] /\ report'["metadata"] = report["metadata"]
    BY <1>2, <1>3 DEF OsvAnswers, TyposquatCheck, AnomalyCheck, LicenseCheck, Detectors
  <2>3. QED
    BY <2>1, <2>2 DEF FetchOK, Requests
<1>4. CASE OsvFails
  <2>1. UNCHANGED <<profile, fetching, extra>>
        /\ (failed \union cut)' = (failed \union cut) \union {"osv"}
    BY <1>4 DEF OsvFails
  <2>2. pc'["metadata"] = pc["metadata"] /\ report'["metadata"] = report["metadata"]
    BY <1>2, <1>4 DEF OsvFails, Detectors
  <2>3. Requests \ (fetching \union failed \union cut)
          = (Requests \ (fetching \union failed \union cut))'
    BY <1>1, <2>1 DEF Requests
  <2>4. QED
    BY <1>1, <2>1, <2>2, <2>3 DEF FetchOK, Requests
<1>5. CASE MetadataCheck
  <2>1. /\ pc["metadata"] = "check" /\ pc'["metadata"] = "wait" /\ fetching' = Requests
        /\ UNCHANGED <<profile, extra, failed, cut>>
    BY <1>1, <1>5 DEF MetadataCheck, Goto, Requests
  <2>2. extra = << >> /\ failed \union cut \subseteq {"osv"}
    BY <2>1 DEF FetchOK
  <2>3. Range(extra') = {}
    BY <2>1, <2>2 DEF Range
  <2>4. Requests' \ (fetching' \union failed' \union cut') = {}
    BY <2>1 DEF Requests
  <2>5. QED
    BY <1>1, <2>1, <2>2, <2>3, <2>4 DEF FetchOK, Requests
<1>6. ASSUME NEW f \in fetching, FetchSucceeds(f) PROVE FetchOK'
  <2>1. /\ extra' = extra \o came(f) /\ fetching' = fetching \ {f}
        /\ UNCHANGED <<profile, pc, failed, cut, report>>
    BY <1>6 DEF FetchSucceeds
  <2>2. pc["metadata"] = "wait"
    BY <1>6 DEF FetchOK
  <2>3. Range(extra') = Range(extra) \union Range(came(f))
    BY <1>1, <2>1, SignalTypes, RangeConcat DEF TypeOK
  <2>4. f \in Requests \ (failed \union cut)
    BY <1>6 DEF FetchOK
  <2>5. Requests' \ (fetching' \union failed' \union cut')
          = (Requests \ (fetching \union failed \union cut)) \union {f}
    BY <2>1, <2>4 DEF Requests
  <2>6. Range(extra) = UNION {Range(came(g)) : g \in Requests \ (fetching \union failed \union cut)}
    BY <2>2 DEF FetchOK
  <2>7. Range(extra') = UNION {Range(came(g)) : g \in Requests' \ (fetching' \union failed' \union cut')}
    <3> HIDE DEF came
    <3>1. QED
      BY <2>3, <2>5, <2>6
  <2>8. QED
    BY <2>1, <2>2, <2>7 DEF FetchOK, Requests
<1>7. ASSUME NEW f \in fetching, FetchFails(f) PROVE FetchOK'
  <2>1. /\ fetching' = fetching \ {f} /\ (failed \union cut)' = (failed \union cut) \union {f}
        /\ UNCHANGED <<profile, pc, extra, report>>
    BY <1>7 DEF FetchFails
  <2>2. pc["metadata"] = "wait"
    BY <1>7 DEF FetchOK
  <2>3. (Requests \ (fetching \union failed \union cut))'
          = Requests \ (fetching \union failed \union cut)
    BY <1>7, <2>1 DEF Requests
  <2>4. QED
    BY <2>1, <2>2, <2>3 DEF FetchOK, Requests
<1>8. CASE MetadataReturns
  <2>1. /\ pc["metadata"] = "wait" /\ fetching = {} /\ UNCHANGED <<profile, calls>>
        /\ report'["metadata"] = StaticSignals(profile) \o extra
        /\ pc'["metadata"] \in {"done", "ptr"}
    BY <1>1, <1>8 DEF MetadataReturns, Return, Goto
  <2>2. Range(report'["metadata"]) = Range(StaticSignals(profile)) \union Range(extra)
    BY <1>1, <2>1, SignalTypes, RangeConcat DEF TypeOK
  <2>3. Range(extra) = UNION {Range(came(g)) : g \in Requests \ (failed \union cut)}
    BY <2>1 DEF FetchOK
  <2>4. ASSUME failed \union cut \subseteq {"osv"}
        PROVE  Range(report'["metadata"]) = Warranted(profile)
    <3>1. Requests \ (failed \union cut) = Requests
      BY <1>1, <2>4
    <3>2. QED
      BY <2>2, <2>3, <3>1 DEF Warranted, Requests
  <2>5. QED
    BY <2>1, <2>4 DEF FetchOK, Requests
<1>9. ASSUME NEW d \in Detectors, Add(d) PROVE FetchOK'
  <2>1. UNCHANGED <<profile, calls, report>> /\ pc[d] \in Appending
        /\ \E l \in Appending \union {"done"} : Goto(d, l)
    BY <1>9 DEF Add, LoadWord, LoadCap, Grow, StoreWord, StoreLen, StoreElement, Appending
  <2>2. \/ pc'["metadata"] = pc["metadata"]
        \/ pc["metadata"] \notin {"check", "wait"} /\ pc'["metadata"] \notin {"check", "wait"}
    BY <1>1, <2>1 DEF Goto, Appending
  <2>3. QED
    BY <2>1, <2>2 DEF FetchOK, Requests
<1>10. CASE ClientGoes \/ Decide \/ UNCHANGED vars
  BY <1>10 DEF ClientGoes, Decide, FetchOK, Requests
<1>11. QED
  BY <1>3, <1>4, <1>5, <1>6, <1>7, <1>8, <1>9, <1>10 DEF Next, Check

-----------------------------------------------------------------------------
(* The theorems.                                                           *)

THEOREM Inductive == Spec => []IInv
<1>1. Init => IInv
  BY InitType, InitAdded, InitHeap, InitLone, InitFetch DEF IInv
<1>2. IInv /\ [Next]_vars => IInv'
  BY NextType, NextAdded, NextHeap, NextLone, NextFetch DEF IInv
<1>3. QED
  BY <1>1, <1>2, PTL DEF Spec

\* Every variable stays in its type.
THEOREM TypeCorrect == Spec => []TypeOK
  BY Inductive, PTL DEF IInv

LEMMA GenuineFaithful ==
  ASSUME TypeOK, NEW s \in Seq(Element), Genuine(s, added)
  PROVE  Faithful(s)
<1>1. ASSUME NEW i \in DOMAIN s, s[i] # Zero PROVE s[i] \in Reported
  <2>1. s[i] \in Detectors \X (Nat \ {0}) /\ s[i][2] <= added[s[i][1]]
    BY <1>1 DEF Genuine, Element
  <2>2. s[i] = <<s[i][1], s[i][2]>> /\ s[i][1] \in Detectors /\ s[i][2] \in Nat \ {0}
    BY <2>1
  <2>3. added[s[i][1]] <= Len(report[s[i][1]]) /\ added[s[i][1]] \in Nat /\ Len(report[s[i][1]]) \in Nat
    BY <2>2 DEF TypeOK
  <2>4. s[i] \in {s[i][1]} \X (1 .. Len(report[s[i][1]]))
    BY <2>1, <2>2, <2>3
  <2>5. QED
    BY <2>2, <2>4 DEF Reported
<1>2. QED
  BY <1>1 DEF Faithful, Range, Genuine

\* The unguarded slice loses signals, but makes none up and counts none twice
\* (signal.go Result.Add under the errgroup of handler.go).
THEOREM RaceLoses == Spec => []RaceOnlyLoses
<1>1. ASSUME IInv PROVE RaceOnlyLoses
  <2>1. heard \in Seq(Element) /\ heap \in Seq(Seq(Element)) /\ TypeOK /\ HeapOK
    BY <1>1 DEF IInv, TypeOK
  <2>2. Faithful(heard)
    BY <2>1, GenuineFaithful DEF HeapOK
  <2>3. ASSUME NEW a \in DOMAIN heap PROVE Faithful(heap[a])
    BY <2>1, GenuineFaithful DEF HeapOK
  <2>4. QED
    BY <2>2, <2>3 DEF RaceOnlyLoses
<1>2. QED
  BY <1>1, Inductive, PTL

\* A detector that alone has something to report is heard in full and in order
\* (handler.go, the goroutines of the errgroup).
THEOREM LoneHeard == Spec => []LoneDetectorHeard
<1>1. IInv => LoneDetectorHeard
  BY DEF IInv, LoneOK, Alone, Silent, LoneDetectorHeard
<1>2. QED
  BY <1>1, Inductive, PTL

\* The metadata report is whole unless a request failed (metadata.go Check waits
\* for the goroutines it started).
THEOREM MetadataWhole == Spec => []MetadataComplete
<1>1. IInv => MetadataComplete
  BY DEF IInv, FetchOK, AddedOK, MetadataComplete, Detectors
<1>2. QED
  BY <1>1, Inductive, PTL
=============================================================================
