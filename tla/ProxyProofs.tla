---------------------------- MODULE ProxyProofs -----------------------------
(***************************************************************************)
(* The safety of the proxy for every number of requests, packages and      *)
(* digests, every assignment of bytes and verdicts to packages, and any    *)
(* number of failing calls and restarts: its types, then each safety       *)
(* invariant by an inductive one.                                          *)
(*                                                                         *)
(*   OsvInv       what Redis, a handler or the worker takes for an advisory *)
(*                was one;                                                 *)
(*   EvidenceInv  what is cached, or about to be written back, is backed by *)
(*                evidence on the very bytes of its key;                   *)
(*   ReplyInv     nothing is sent or reported before the decision, and what *)
(*                is sent is what was decided.                             *)
(*                                                                         *)
(* Together they make every step of the proxy a step of the gate.          *)
(***************************************************************************)
EXTENDS Proxy, TLAPS

USE DEF outside, redis, request, worker, vars

\* The labels are told apart once, so that leaves need not expand them.
LEMMA SomePkgType == SomePkg \in Pkgs
  BY PackageAssumption DEF SomePkg

-----------------------------------------------------------------------------
(* Types.                                                                  *)

LEMMA InitType == Init => TypeOK
<1> SUFFICES ASSUME Init PROVE TypeOK
  OBVIOUS
<1> USE DEF Init
<1>1. ShaOf[SomePkg] \in Shas
  BY SomePkgType, PackageAssumption
<1>2. /\ pc \in [Callers -> HandlerLabels \union WorkerLabels]
      /\ \A r \in Reqs : pc[r] \in HandlerLabels
      /\ pc[Worker] \in WorkerLabels
      /\ \A c \in Callers : pc[c] # "osv_set"
  BY DEF HandlerLabels, WorkerLabels, Callers
<1>3. events \in [Reqs -> Seq(EventRecord)]
  OBVIOUS
<1>4. /\ answer \in [Reqs -> Answer] /\ decision \in [Reqs -> Verdicts]
      /\ osv \in [Callers -> {"none", "0", "1", "err"}] /\ pkg \in [Callers -> Pkgs]
  BY DEF Answer, Verdicts
<1>5. /\ osvCache \in [Pkgs -> {"none", "0", "1"}]
      /\ verdicts \in [Shas -> Entry \union {NoEntry}]
  OBVIOUS
<1>6. QED
  BY <1>1, <1>2, <1>3, <1>4, <1>5 DEF TypeOK

\* An event and an answer of the right type are emitted.
LEMMA RespondType ==
  ASSUME TypeOK, NEW r \in Reqs, NEW v \in Verdicts,
         NEW eventCode \in {200, 403}, Respond(r, v, eventCode)
  PROVE  /\ events' \in [Reqs -> Seq(EventRecord)]
         /\ answer' \in [Reqs -> Answer]
         /\ pc' = [pc EXCEPT ![r] = "reply"]
<1>1. Event("package_verdict", v, eventCode) \in EventRecord
  BY DEF Event, EventRecord, EventTypes
<1>2. QED
  BY <1>1 DEF TypeOK, Respond, EmitAndReply, Goto, Answer

LEMMA RefuseType ==
  ASSUME TypeOK, NEW r \in Reqs, NEW type \in EventTypes,
         NEW code \in {403, 502}, Refuse(r, type, code)
  PROVE  /\ events' \in [Reqs -> Seq(EventRecord)]
         /\ answer' \in [Reqs -> Answer]
         /\ pc' = [pc EXCEPT ![r] = "reply"]
<1>1. Event(type, "none", code) \in EventRecord
  BY DEF Event, EventRecord
<1>2. QED
  BY <1>1 DEF TypeOK, Refuse, EmitAndReply, Goto, Answer

\* Moving a request, or the worker, to one of its labels.
LEMMA GotoType ==
  ASSUME TypeOK, NEW c \in Callers, NEW l,
         c \in Reqs => l \in HandlerLabels,
         c = Worker => l \in WorkerLabels,
         pc' = [pc EXCEPT ![c] = l]
  PROVE  /\ pc' \in [Callers -> HandlerLabels \union WorkerLabels]
         /\ \A r \in Reqs : pc'[r] \in HandlerLabels
         /\ pc'[Worker] \in WorkerLabels
  BY ParameterAssumption DEF TypeOK, Callers

\* What the callers of OSVChecker.Check share.
LEMMA OsvType ==
  ASSUME TypeOK, NEW c \in Callers, OsvGet(c) \/ OsvQuery(c) \/ OsvSet(c)
  PROVE  TypeOK'
<1> DEFINE Labels == {"osv_query", "osv_set", "decide"}
<1>1. \A l \in Labels : l \in HandlerLabels /\ l \in WorkerLabels
  BY DEF HandlerLabels, WorkerLabels
<1>2. pkg[c] \in Pkgs
  BY DEF TypeOK
<1>3. faults' \in Nat
  BY DEF TypeOK, OsvGet, OsvQuery, OsvSet, Fault, NoFault
<1>4. \E l \in Labels : pc' = [pc EXCEPT ![c] = l]
  BY DEF OsvGet, OsvQuery, OsvSet, Goto
<1>5. /\ pc' \in [Callers -> HandlerLabels \union WorkerLabels]
      /\ \A r \in Reqs : pc'[r] \in HandlerLabels
      /\ pc'[Worker] \in WorkerLabels
  BY <1>1, <1>4, GotoType
<1>6. osv' \in [Callers -> {"none", "0", "1", "err"}]
  BY <1>2 DEF TypeOK, OsvGet, OsvQuery, OsvSet
<1>7. osvCache' \in [Pkgs -> {"none", "0", "1"}]
  <2>1. CASE OsvSet(c)
    BY <2>1, <1>2 DEF TypeOK, OsvSet
  <2>2. QED
    BY <2>1 DEF TypeOK, OsvGet, OsvQuery
<1>8. \A d \in Callers : pc'[d] = "osv_set" => osv'[d] \in {"0", "1"}
  BY DEF TypeOK, OsvGet, OsvQuery, OsvSet, Goto
<1>9. QED
  BY <1>3, <1>5, <1>6, <1>7, <1>8 DEF TypeOK, OsvGet, OsvQuery, OsvSet

\* Moving a caller away from OSV's answer leaves the rest of the callers be.
LEMMA MoveType ==
  ASSUME TypeOK, NEW c \in Callers, NEW l \in HandlerLabels \union WorkerLabels,
         c \in Reqs => l \in HandlerLabels,
         c = Worker => l \in WorkerLabels,
         l # "osv_set",
         pc' = [pc EXCEPT ![c] = l],
         osv' = osv
  PROVE  /\ pc' \in [Callers -> HandlerLabels \union WorkerLabels]
         /\ \A r \in Reqs : pc'[r] \in HandlerLabels
         /\ pc'[Worker] \in WorkerLabels
         /\ \A d \in Callers : pc'[d] = "osv_set" => osv'[d] \in {"0", "1"}
<1>1. \A d \in Callers : pc'[d] = "osv_set" => pc[d] = "osv_set"
  BY DEF TypeOK
<1>2. QED
  BY <1>1, GotoType DEF TypeOK

LEMMA HandlerType ==
  ASSUME TypeOK, NEW r \in Reqs,
         PassThrough(r) \/ Arrive(r) \/ HandlerStep(r)
  PROVE  TypeOK'
<1>1. r \in Callers
  BY DEF Callers
<1>2. pkg[r] \in Pkgs /\ Sha(r) \in Shas
  BY <1>1, PackageAssumption DEF TypeOK, Sha
<1>3. {"meta", "osv_get", "fetch", "lookup", "analyze", "store", "emit",
       "reply", "done"} \subseteq HandlerLabels
  BY DEF HandlerLabels
<1>4. CASE PassThrough(r) \/ Arrive(r) \/ Reply(r)
  <2>1. \E l \in {"meta", "done"} : pc' = [pc EXCEPT ![r] = l]
    BY <1>4 DEF PassThrough, Arrive, Reply, Goto
  <2>2. osv' = osv
    BY <1>4 DEF PassThrough, Arrive, Reply
  <2>3. QED
    BY <1>1, <1>3, <1>4, <2>1, <2>2, MoveType, ParameterAssumption
       DEF TypeOK, PassThrough, Arrive, Reply
<1>5. CASE FetchPackageMeta(r)
  <2>1. /\ events' \in [Reqs -> Seq(EventRecord)]
        /\ answer' \in [Reqs -> Answer]
        /\ \E l \in {"osv_get", "reply"} : pc' = [pc EXCEPT ![r] = l]
    <3>1. CASE Refuse(r, "upstream_down", 502)
      BY <3>1, RefuseType DEF EventTypes
    <3>2. CASE Goto(r, "osv_get") /\ UNCHANGED <<events, answer>>
      BY <3>2 DEF TypeOK, Goto
    <3>3. CASE /\ answer' = [answer EXCEPT ![r] = [code |-> 404, warning |-> FALSE]]
               /\ Goto(r, "reply")
               /\ UNCHANGED events
      BY <3>3 DEF TypeOK, Goto, Answer
    <3>4. QED
      BY <1>5, <3>1, <3>2, <3>3 DEF FetchPackageMeta
  <2>2. osv' = osv /\ faults' \in Nat
    BY <1>5 DEF FetchPackageMeta, TypeOK, Fault, NoFault
  <2>3. QED
    BY <1>1, <1>3, <1>5, <2>1, <2>2, MoveType, ParameterAssumption
       DEF TypeOK, FetchPackageMeta
<1>6. CASE OsvGet(r) \/ OsvQuery(r) \/ OsvSet(r)
  BY <1>1, <1>6, OsvType
<1>7. CASE Layer1Decide(r)
  <2>1. PICK v \in Layer1Verdicts(r) :
          /\ decision' = [decision EXCEPT ![r] = v]
          /\ \/ v = "block" /\ Respond(r, v, 403)
             \/ v # "block" /\ Goto(r, "fetch") /\ UNCHANGED <<events, answer>>
    BY <1>7 DEF Layer1Decide
  <2>2. v \in Verdicts
    BY DEF Layer1Verdicts, UpTo, Verdicts
  <2>3. /\ events' \in [Reqs -> Seq(EventRecord)]
        /\ answer' \in [Reqs -> Answer]
        /\ \E l \in {"fetch", "reply"} : pc' = [pc EXCEPT ![r] = l]
    <3>1. CASE v = "block"
      BY <2>1, <2>2, <3>1, RespondType
    <3>2. CASE v # "block"
      BY <2>1, <3>2 DEF TypeOK, Goto
    <3>3. QED
      BY <3>1, <3>2
  <2>4. decision' \in [Reqs -> Verdicts] /\ osv' = osv
    BY <1>7, <2>1, <2>2 DEF Layer1Decide, TypeOK
  <2>5. QED
    BY <1>1, <1>3, <1>7, <2>3, <2>4, MoveType, ParameterAssumption
       DEF TypeOK, Layer1Decide
<1>8. CASE FetchTarball(r)
  <2>1. /\ events' \in [Reqs -> Seq(EventRecord)]
        /\ answer' \in [Reqs -> Answer]
        /\ \E l \in {"lookup", "reply"} : pc' = [pc EXCEPT ![r] = l]
    <3>1. CASE Refuse(r, "upstream_down", 502)
      BY <3>1, RefuseType DEF EventTypes
    <3>2. CASE Refuse(r, "integrity_mismatch", 403)
      BY <3>2, RefuseType DEF EventTypes
    <3>3. CASE Goto(r, "lookup") /\ UNCHANGED <<events, answer>>
      BY <3>3 DEF TypeOK, Goto
    <3>4. QED
      BY <1>8, <3>1, <3>2, <3>3 DEF FetchTarball
  <2>2. osv' = osv /\ faults' \in Nat
    BY <1>8 DEF FetchTarball, TypeOK, Fault, NoFault
  <2>3. QED
    BY <1>1, <1>3, <1>8, <2>1, <2>2, MoveType, ParameterAssumption
       DEF TypeOK, FetchTarball
<1>9. CASE GetVerdict(r)
  <2>1. /\ events' \in [Reqs -> Seq(EventRecord)]
        /\ answer' \in [Reqs -> Answer]
        /\ \E l \in {"analyze", "reply"} : pc' = [pc EXCEPT ![r] = l]
    <3>1. CASE /\ verdicts[Sha(r)] # NoEntry
               /\ Respond(r, verdicts[Sha(r)].verdict, 200)
      <4>1. verdicts[Sha(r)].verdict \in Verdicts
        BY <1>2, <3>1 DEF TypeOK, Entry
      <4>2. QED
        BY <3>1, <4>1, RespondType
    <3>2. CASE Goto(r, "analyze") /\ UNCHANGED <<events, answer>>
      BY <3>2 DEF TypeOK, Goto
    <3>3. QED
      BY <1>9, <3>1, <3>2 DEF GetVerdict
  <2>2. osv' = osv /\ faults' \in Nat
    BY <1>9 DEF GetVerdict, TypeOK, Fault, NoFault
  <2>3. QED
    BY <1>1, <1>3, <1>9, <2>1, <2>2, MoveType, ParameterAssumption
       DEF TypeOK, GetVerdict
<1>10. CASE Analyze(r)
  <2>1. /\ events' \in [Reqs -> Seq(EventRecord)]
        /\ answer' \in [Reqs -> Answer]
        /\ \E l \in {"store", "reply"} : pc' = [pc EXCEPT ![r] = l]
    <3>1. CASE Refuse(r, "resource_limit_exceeded", 403)
      BY <3>1, RefuseType DEF EventTypes
    <3>2. CASE Refuse(r, "analysis_timeout", 403)
      BY <3>2, RefuseType DEF EventTypes
    <3>3. CASE Goto(r, "store") /\ UNCHANGED <<events, answer>>
      BY <3>3 DEF TypeOK, Goto
    <3>4. QED
      BY <1>10, <3>1, <3>2, <3>3 DEF Analyze
  <2>2. decision' \in [Reqs -> Verdicts]
    BY <1>10 DEF Analyze, Between, TypeOK
  <2>3. osv' = osv /\ faults' \in Nat
    BY <1>10 DEF Analyze, TypeOK, Fault, NoFault
  <2>4. QED
    BY <1>1, <1>3, <1>10, <2>1, <2>2, <2>3, MoveType, ParameterAssumption
       DEF TypeOK, Analyze
<1>11. CASE StoreVerdict(r)
  <2>1. verdicts' \in [Shas -> Entry \union {NoEntry}]
    <3>1. [verdict |-> decision[r], pkg |-> pkg[r]] \in Entry
      BY <1>2 DEF TypeOK, Entry
    <3>2. QED
      BY <1>11, <3>1 DEF StoreVerdict, TypeOK
  <2>2. osv' = osv /\ faults' \in Nat /\ pc' = [pc EXCEPT ![r] = "emit"]
    BY <1>11 DEF StoreVerdict, TypeOK, Fault, NoFault, Goto
  <2>3. QED
    BY <1>1, <1>3, <1>11, <2>1, <2>2, MoveType, ParameterAssumption
       DEF TypeOK, StoreVerdict
<1>12. CASE EmitVerdict(r)
  <2>1. /\ events' \in [Reqs -> Seq(EventRecord)]
        /\ answer' \in [Reqs -> Answer]
        /\ pc' = [pc EXCEPT ![r] = "reply"]
    <3>1. /\ decision[r] \in Verdicts
          /\ (IF decision[r] = "block" THEN 403 ELSE 200) \in {200, 403}
          /\ Respond(r, decision[r], IF decision[r] = "block" THEN 403 ELSE 200)
      BY <1>12 DEF EmitVerdict, TypeOK
    <3>2. QED
      BY <3>1, RespondType
  <2>2. QED
    BY <1>1, <1>3, <1>12, <2>1, MoveType, ParameterAssumption
       DEF TypeOK, EmitVerdict
<1>13. QED
  BY <1>4, <1>5, <1>6, <1>7, <1>8, <1>9, <1>10, <1>11, <1>12 DEF HandlerStep

LEMMA WorkerType ==
  ASSUME TypeOK, WorkerStep
  PROVE  TypeOK'
<1>1. Worker \in Callers /\ Worker \notin Reqs
  BY ParameterAssumption DEF Callers
<1>2. {"scan", "next", "idle", "emit", "osv_get"} \subseteq WorkerLabels
  BY DEF WorkerLabels
<1>3. CASE Tick
  BY <1>1, <1>2, <1>3, MoveType DEF TypeOK, Tick, Goto
<1>4. ASSUME NEW s \in Shas, ScanKey(s) PROVE TypeOK'
  <2>1. todo' \subseteq CachedVerdict
    <3>1. Listed(s) => [sha |-> s, entry |-> verdicts[s]] \in CachedVerdict
      BY DEF Listed, TypeOK, CachedVerdict
    <3>2. QED
      BY <1>4, <3>1 DEF ScanKey, TypeOK
  <2>2. faults' \in Nat
    BY <1>4 DEF ScanKey, TypeOK, Fault, NoFault
  <2>3. QED
    BY <1>4, <2>1, <2>2 DEF TypeOK, ScanKey
<1>5. CASE ListDone
  <2>1. \E l \in {"next", "idle"} : pc' = [pc EXCEPT ![Worker] = l]
    BY <1>5 DEF ListDone, Goto
  <2>2. osv' = osv /\ faults' \in Nat /\ todo' \subseteq CachedVerdict
    BY <1>5 DEF ListDone, TypeOK, Fault, NoFault
  <2>3. QED
    BY <1>1, <1>2, <1>5, <2>1, <2>2, MoveType DEF TypeOK, ListDone
<1>6. CASE RoundDone
  BY <1>1, <1>2, <1>6, MoveType DEF TypeOK, RoundDone, Goto
<1>7. ASSUME NEW ce \in todo, Invalidate(ce) PROVE TypeOK'
  <2>1. ce \in CachedVerdict /\ ce.sha \in Shas /\ ce.entry.pkg \in Pkgs
    BY DEF TypeOK, CachedVerdict, Entry
  <2>2. /\ pkg' \in [Callers -> Pkgs]
        /\ osv' \in [Callers -> {"none", "0", "1", "err"}]
        /\ osvCache' \in [Pkgs -> {"none", "0", "1"}]
        /\ current' \in Shas
        /\ todo' \subseteq CachedVerdict
        /\ faults' \in Nat
    <3>1. pkg' \in [Callers -> Pkgs] /\ osv' \in [Callers -> {"none", "0", "1", "err"}]
      BY <1>7, <2>1 DEF Invalidate, TypeOK
    <3>2. osvCache' \in [Pkgs -> {"none", "0", "1"}]
      BY <1>7, <2>1 DEF Invalidate, TypeOK
    <3>3. current' \in Shas /\ todo' \subseteq CachedVerdict /\ faults' \in Nat
      BY <1>7, <2>1 DEF Invalidate, TypeOK, Fault, NoFault
    <3>4. QED
      BY <3>1, <3>2, <3>3
  <2>3. pc' = [pc EXCEPT ![Worker] = "osv_get"]
    BY <1>7 DEF Invalidate, Goto
  <2>4. /\ pc' \in [Callers -> HandlerLabels \union WorkerLabels]
        /\ \A r \in Reqs : pc'[r] \in HandlerLabels
        /\ pc'[Worker] \in WorkerLabels
    BY <1>1, <1>2, <2>3, GotoType
  <2>5. \A d \in Callers : pc'[d] = "osv_set" => osv'[d] \in {"0", "1"}
    BY <1>1, <1>7, <2>3 DEF Invalidate, TypeOK
  <2>6. QED
    BY <1>7, <2>2, <2>4, <2>5 DEF TypeOK, Invalidate
<1>8. CASE OsvGet(Worker) \/ OsvQuery(Worker) \/ OsvSet(Worker)
  BY <1>1, <1>8, OsvType
<1>9. CASE RecheckDecide
  <2>1. [verdict |-> "block", pkg |-> pkg[Worker]] \in Entry
    BY <1>1 DEF TypeOK, Entry, Verdicts
  <2>2. /\ verdicts' \in [Shas -> Entry \union {NoEntry}]
        /\ faults' \in Nat
    <3>1. verdicts' \in [Shas -> Entry \union {NoEntry}]
      <4>1. CASE UNCHANGED verdicts
        BY <4>1 DEF TypeOK
      <4>2. CASE verdicts' = [verdicts EXCEPT ![current] =
                                [verdict |-> "block", pkg |-> pkg[Worker]]]
        BY <2>1, <4>2 DEF TypeOK
      <4>3. QED
        BY <1>9, <4>1, <4>2 DEF RecheckDecide
    <3>2. faults' \in Nat
      BY <1>9 DEF RecheckDecide, TypeOK, Fault, NoFault
    <3>3. QED
      BY <3>1, <3>2
  <2>3. \E l \in {"next", "emit"} : pc' = [pc EXCEPT ![Worker] = l]
    BY <1>9 DEF RecheckDecide, Goto
  <2>4. QED
    BY <1>1, <1>2, <1>9, <2>2, <2>3, MoveType DEF TypeOK, RecheckDecide
<1>10. CASE EmitUpgrade
  BY <1>1, <1>2, <1>10, MoveType DEF TypeOK, EmitUpgrade, Goto
<1>11. QED
  BY <1>3, <1>4, <1>5, <1>6, <1>7, <1>8, <1>9, <1>10 DEF WorkerStep

LEMMA EnvironmentType ==
  ASSUME TypeOK, Environment
  PROVE  TypeOK'
<1>1. ASSUME NEW p \in Pkgs, Publish(p) \/ Withdraw(p) \/ ExpireOsv(p)
      PROVE  TypeOK'
  <2>1. CASE Publish(p) \/ Withdraw(p)
    BY <2>1 DEF TypeOK, Publish, Withdraw
  <2>2. CASE ExpireOsv(p)
    <3>1. osvCache' \in [Pkgs -> {"none", "0", "1"}]
      BY <2>2 DEF TypeOK, ExpireOsv
    <3>2. QED
      BY <2>2, <3>1 DEF TypeOK, ExpireOsv
  <2>3. QED
    BY <1>1, <2>1, <2>2
<1>2. ASSUME NEW s \in Shas, ExpireVerdict(s) PROVE TypeOK'
  <2>1. verdicts' \in [Shas -> Entry \union {NoEntry}]
    BY <1>2 DEF TypeOK, ExpireVerdict
  <2>2. QED
    BY <1>2, <2>1 DEF TypeOK, ExpireVerdict
<1>3. CASE Restart
  <2>1. {"idle", "done", "aborted"} \subseteq HandlerLabels /\ "idle" \in WorkerLabels
    BY DEF HandlerLabels, WorkerLabels
  <2>2. \A c \in Callers : pc'[c] # "osv_set"
    BY <1>3 DEF Restart
  <2>3. pc' \in [Callers -> HandlerLabels \union WorkerLabels]
    BY <1>3, <2>1 DEF Restart
  <2>4. /\ \A r \in Reqs : pc'[r] \in HandlerLabels
        /\ pc'[Worker] \in WorkerLabels
    BY <1>3, <2>1, ParameterAssumption DEF Restart, Callers
  <2>5. restarts' \in Nat /\ faults' \in Nat
    BY <1>3 DEF TypeOK, Restart
  <2>6. unvisited' \subseteq Shas /\ todo' \subseteq CachedVerdict
    BY <1>3 DEF Restart
  <2>7. UNCHANGED <<outside, redis, pkg, osv, request, current>>
    BY <1>3 DEF Restart
  <2>8. QED
    BY <2>2, <2>3, <2>4, <2>5, <2>6, <2>7 DEF TypeOK
<1>4. QED
  BY <1>1, <1>2, <1>3 DEF Environment

LEMMA NextType == TypeOK /\ [Next]_vars => TypeOK'
<1> SUFFICES ASSUME TypeOK, [Next]_vars PROVE TypeOK'
  OBVIOUS
<1>1. CASE UNCHANGED vars
  BY <1>1 DEF TypeOK
<1>2. QED
  BY <1>1, HandlerType, WorkerType, EnvironmentType DEF Next

\* Every variable stays in its type.
THEOREM TypeCorrect == Spec => []TypeOK
<1>1. QED
  BY InitType, NextType, PTL DEF Spec

-----------------------------------------------------------------------------
\* The worker's package is apart from those of the requests.
LEMMA WorkerApart == Worker \in Callers /\ \A r \in Reqs : r \in Callers /\ r # Worker
  BY ParameterAssumption DEF Callers

\* Advisories may be withdrawn; that they once were published is for good.
LEMMA PublishedGrows == [Next]_vars => everPublished \subseteq everPublished'
<1> SUFFICES ASSUME [Next]_vars PROVE everPublished \subseteq everPublished'
  OBVIOUS
<1>1. ASSUME NEW r \in Reqs, PassThrough(r) \/ Arrive(r) \/ HandlerStep(r)
      PROVE  everPublished' = everPublished
  BY <1>1 DEF PassThrough, Arrive, HandlerStep, FetchPackageMeta, OsvGet, OsvQuery,
     OsvSet, Layer1Decide, FetchTarball, GetVerdict, Analyze, StoreVerdict,
     EmitVerdict, Reply
<1>2. CASE WorkerStep
  BY <1>2 DEF WorkerStep, Tick, ScanKey, ListDone, RoundDone, Invalidate, OsvGet,
     OsvQuery, OsvSet, RecheckDecide, EmitUpgrade
<1>3. CASE Environment
  BY <1>3 DEF Environment, Publish, Withdraw, ExpireOsv, ExpireVerdict, Restart
<1>4. QED
  BY <1>1, <1>2, <1>3 DEF Next

-----------------------------------------------------------------------------
(* OSV's answers.                                                          *)

OsvInv == OsvCacheSound /\ osvDB \subseteq everPublished

LEMMA OsvCallSound ==
  ASSUME TypeOK, OsvInv, NEW c \in Callers, OsvGet(c) \/ OsvQuery(c) \/ OsvSet(c)
  PROVE  OsvInv'
<1>1. pkg[c] \in Pkgs
  BY DEF TypeOK
<1>2. CASE OsvGet(c)
  BY <1>1, <1>2 DEF TypeOK, OsvInv, OsvCacheSound, OsvGet
<1>3. CASE OsvQuery(c)
  BY <1>1, <1>3 DEF TypeOK, OsvInv, OsvCacheSound, OsvQuery
<1>4. CASE OsvSet(c)
  BY <1>1, <1>4 DEF TypeOK, OsvInv, OsvCacheSound, OsvSet
<1>5. QED
  BY <1>2, <1>3, <1>4

LEMMA OsvNext == TypeOK /\ OsvInv /\ [Next]_vars => OsvInv'
<1> SUFFICES ASSUME TypeOK, OsvInv, [Next]_vars PROVE OsvInv'
  OBVIOUS
<1> USE DEF OsvInv, OsvCacheSound
<1>1. ASSUME NEW r \in Reqs, PassThrough(r) \/ Arrive(r) \/ HandlerStep(r)
      PROVE  OsvInv'
  <2>1. CASE OsvGet(r) \/ OsvQuery(r) \/ OsvSet(r)
    BY <2>1, OsvCallSound, WorkerApart
  <2>2. CASE UNCHANGED <<outside, osvCache, pkg, osv>>
    BY <2>2
  <2>3. QED
    BY <1>1, <2>1, <2>2 DEF PassThrough, Arrive, HandlerStep, FetchPackageMeta,
       Layer1Decide, FetchTarball, GetVerdict, Analyze, StoreVerdict, EmitVerdict, Reply
<1>2. CASE WorkerStep
  <2>1. CASE OsvGet(Worker) \/ OsvQuery(Worker) \/ OsvSet(Worker)
    BY <2>1, OsvCallSound, WorkerApart
  <2>2. ASSUME NEW ce \in todo, Invalidate(ce) PROVE OsvInv'
    BY <2>2, WorkerApart DEF TypeOK, Invalidate
  <2>3. CASE UNCHANGED <<outside, osvCache, pkg, osv>>
    BY <2>3
  <2>4. QED
    BY <1>2, <2>1, <2>2, <2>3 DEF WorkerStep, Tick, ScanKey, ListDone, RoundDone,
       RecheckDecide, EmitUpgrade
<1>3. CASE Environment
  BY <1>3 DEF TypeOK, Environment, Publish, Withdraw, ExpireOsv, ExpireVerdict, Restart
<1>4. CASE UNCHANGED vars
  BY <1>4
<1>5. QED
  BY <1>1, <1>2, <1>3, <1>4 DEF Next

\* "Vulnerable" is never made up, by cache, handler or worker.
THEOREM OsvSound == Spec => []OsvCacheSound
<1>1. Init => OsvInv
  BY DEF Init, OsvInv, OsvCacheSound
<1>2. OsvInv => OsvCacheSound
  BY DEF OsvInv
<1>3. QED
  BY <1>1, <1>2, OsvNext, TypeCorrect, PTL DEF Spec

-----------------------------------------------------------------------------
(* The verdict cache.                                                      *)

\* A package's verdict is backed by the analysis of its own bytes.
Backed(p, v) ==
  /\ NoHarsher(BytesVerdict[p], v)
  /\ NoHarsher(v, FullVerdict[p])
  /\ ShaOf[p] \notin Oversized

\* What a handler is about to store and send, what the worker has listed, and
\* what it is rechecking, belong to the digest they will be filed under.
HandsBacked ==
  /\ \A r \in Reqs : pc[r] \in {"store", "emit"} => Backed(pkg[r], decision[r])
  /\ \A ce \in todo : ShaOf[ce.entry.pkg] = ce.sha
  /\ ShaOf[pkg[Worker]] = current

EvidenceInv == HandsBacked /\ CachedVerdictJustified

\* Only a block is harsher than, or equal to, a block.
LEMMA BlockIsHarshest == \A v \in Verdicts : NoHarsher("block", v) => v = "block"
  BY DEF NoHarsher, Severity, Verdicts

\* A backed verdict is a justified one.
LEMMA BackedJustified ==
  ASSUME NEW p \in Pkgs, NEW v \in Verdicts, Backed(p, v)
  PROVE  Justified(ShaOf[p], v)
<1>1. CASE v = "block"
  <2>1. FullVerdict[p] = "block"
    BY <1>1, BlockIsHarshest, PackageAssumption DEF Backed
  <2>2. QED
    BY <1>1, <2>1 DEF Justified, BlockJustified
<1>2. CASE v # "block"
  BY <1>2 DEF Backed, Justified, Permitted
<1>3. QED
  BY <1>1, <1>2

\* The evidence of the worker, and of Layer 1, for a block.
LEMMA CondemnedJustified ==
  ASSUME TypeOK, OsvInv, NEW c \in Callers, Condemned(c)
  PROVE  BlockJustified(ShaOf[pkg[c]])
<1>1. pkg[c] \in Pkgs
  BY DEF TypeOK
<1>2. CASE osv[c] = "1"
  BY <1>1, <1>2 DEF OsvInv, OsvCacheSound, BlockJustified
<1>3. CASE pkg[c] \in TypoBlocks
  <2>1. FullVerdict[pkg[c]] = "block"
    BY <1>1, <1>3, BlockIsHarshest, PackageAssumption
  <2>2. QED
    BY <1>1, <2>1 DEF BlockJustified
<1>4. QED
  BY <1>2, <1>3 DEF Condemned

\* What Layer 1 blocks, it blocks on evidence, whichever appends were lost.
LEMMA LayerOneJustified ==
  ASSUME TypeOK, OsvInv, NEW r \in Reqs, NEW v \in Layer1Verdicts(r), v = "block"
  PROVE  Justified(Sha(r), v)
<1>1. r \in Callers /\ pkg[r] \in Pkgs
  BY WorkerApart DEF TypeOK
<1>2. v \in UpTo(Layer1Max[pkg[r]]) => FullVerdict[pkg[r]] = "block"
  <2>1. v \in UpTo(Layer1Max[pkg[r]]) => Layer1Max[pkg[r]] = "block"
    BY <1>1, BlockIsHarshest, PackageAssumption DEF UpTo
  <2>2. QED
    BY <1>1, <2>1, BlockIsHarshest, PackageAssumption
<1>3. Condemned(r) \/ v \in UpTo(Layer1Max[pkg[r]])
  BY DEF Layer1Verdicts
<1>4. BlockJustified(Sha(r))
  BY <1>1, <1>2, <1>3, CondemnedJustified DEF BlockJustified, Sha
<1>5. QED
  BY <1>4 DEF Justified

\* No justification is ever lost.
LEMMA JustifiedStays ==
  ASSUME everPublished \subseteq everPublished', NEW s, NEW v, Justified(s, v)
  PROVE  Justified(s, v)'
  BY DEF Justified, BlockJustified, Permitted

\* Nothing cached changes: what is cached stays justified.
LEMMA CacheKept ==
  ASSUME CachedVerdictJustified, everPublished \subseteq everPublished',
         \A s \in Shas : verdicts'[s] = verdicts[s] \/ verdicts'[s] = NoEntry
  PROVE  CachedVerdictJustified'
<1> SUFFICES ASSUME NEW s \in Shas, NEW e, e = verdicts'[s], e # NoEntry
             PROVE  ShaOf[e.pkg] = s /\ Justified(s, e.verdict)'
  BY DEF CachedVerdictJustified, Justified, BlockJustified, Permitted
<1>1. e = verdicts[s]
  OBVIOUS
<1>2. ShaOf[e.pkg] = s /\ Justified(s, e.verdict)
  BY <1>1 DEF CachedVerdictJustified
<1>3. QED
  BY <1>2, JustifiedStays

\* A justified entry is filed under the digest of its package.
LEMMA CacheWritten ==
  ASSUME TypeOK, CachedVerdictJustified, everPublished \subseteq everPublished',
         NEW p \in Pkgs, NEW v \in Verdicts, Justified(ShaOf[p], v),
         verdicts' = [verdicts EXCEPT ![ShaOf[p]] = [verdict |-> v, pkg |-> p]]
  PROVE  CachedVerdictJustified'
<1> SUFFICES ASSUME NEW s \in Shas, NEW e, e = verdicts'[s], e # NoEntry
             PROVE  ShaOf[e.pkg] = s /\ Justified(s, e.verdict)'
  BY DEF CachedVerdictJustified, Justified, BlockJustified, Permitted
<1>1. CASE s = ShaOf[p]
  <2>1. e = [verdict |-> v, pkg |-> p]
    BY <1>1 DEF TypeOK
  <2>2. QED
    BY <1>1, <2>1, JustifiedStays
<1>2. CASE s # ShaOf[p]
  <2>1. e = verdicts[s]
    BY <1>2 DEF TypeOK
  <2>2. ShaOf[e.pkg] = s /\ Justified(s, e.verdict)
    BY <2>1 DEF CachedVerdictJustified
  <2>3. QED
    BY <2>2, JustifiedStays
<1>3. QED
  BY <1>1, <1>2

\* A handler's package is its own for good, and the digest with it.
LEMMA HandlerEvidence ==
  ASSUME TypeOK, EvidenceInv, everPublished \subseteq everPublished', NEW r \in Reqs,
         PassThrough(r) \/ Arrive(r) \/ HandlerStep(r)
  PROVE  EvidenceInv'
<1>1. UNCHANGED <<pkg, todo, current>>
  BY DEF PassThrough, Arrive, HandlerStep, FetchPackageMeta, OsvGet, OsvQuery, OsvSet,
     Layer1Decide, FetchTarball, GetVerdict, Analyze, StoreVerdict, EmitVerdict, Reply
<1>2. pkg[r] \in Pkgs /\ decision[r] \in Verdicts
  BY WorkerApart DEF TypeOK
<1>3. ASSUME UNCHANGED decision, NEW l, l \notin {"store", "emit"},
             pc' = [pc EXCEPT ![r] = l]
      PROVE  HandsBacked'
  BY <1>1, <1>3, WorkerApart DEF TypeOK, EvidenceInv, HandsBacked, Backed
<1>4. CASE UNCHANGED verdicts
  <2>1. CachedVerdictJustified'
    BY <1>4, CacheKept DEF EvidenceInv
  <2>2. CASE PassThrough(r) \/ Arrive(r) \/ FetchPackageMeta(r) \/ OsvGet(r)
               \/ OsvQuery(r) \/ OsvSet(r) \/ FetchTarball(r) \/ GetVerdict(r)
               \/ EmitVerdict(r) \/ Reply(r)
    <3>1. /\ UNCHANGED decision
          /\ \E l : l \notin {"store", "emit"} /\ pc' = [pc EXCEPT ![r] = l]
      BY <2>2 DEF PassThrough, Arrive, FetchPackageMeta, OsvGet, OsvQuery, OsvSet,
         FetchTarball, GetVerdict, EmitVerdict, Reply, Goto, Refuse, Respond, EmitAndReply
    <3>2. QED
      BY <1>3, <2>1, <3>1 DEF EvidenceInv
  <2>3. CASE Layer1Decide(r)
    <3>1. PICK v : decision' = [decision EXCEPT ![r] = v]
      BY <2>3 DEF Layer1Decide
    <3>2. \E l \in {"reply", "fetch"} : pc' = [pc EXCEPT ![r] = l]
      BY <2>3 DEF Layer1Decide, Goto, Respond, EmitAndReply
    <3>3. HandsBacked'
      BY <1>1, <3>1, <3>2, WorkerApart DEF TypeOK, EvidenceInv, HandsBacked, Backed
    <3>4. QED
      BY <2>1, <3>3 DEF EvidenceInv
  <2>4. CASE Analyze(r)
    <3>1. CASE UNCHANGED decision /\ Goto(r, "reply")
      BY <1>3, <2>1, <3>1 DEF EvidenceInv, Goto
    <3>2. CASE /\ Sha(r) \notin Oversized
               /\ \E v \in Between(decision[r], pkg[r]) :
                    /\ NoHarsher(BytesVerdict[pkg[r]], v)
                    /\ decision' = [decision EXCEPT ![r] = v]
               /\ Goto(r, "store")
      <4>1. PICK v \in Between(decision[r], pkg[r]) :
                   /\ NoHarsher(BytesVerdict[pkg[r]], v)
                   /\ decision' = [decision EXCEPT ![r] = v]
        BY <3>2
      <4>2. Backed(pkg[r], v)
        BY <3>2, <4>1 DEF Backed, Between, Sha
      <4>3. HandsBacked'
        BY <1>1, <3>2, <4>1, <4>2, WorkerApart
           DEF TypeOK, EvidenceInv, HandsBacked, Backed, Goto
      <4>4. QED
        BY <2>1, <4>3 DEF EvidenceInv
    <3>3. QED
      BY <2>4, <3>1, <3>2 DEF Analyze, Refuse, EmitAndReply
  <2>5. CASE StoreVerdict(r)
    BY <1>1, <2>1, <2>5, WorkerApart
       DEF TypeOK, EvidenceInv, HandsBacked, Backed, StoreVerdict, Goto
  <2>6. QED
    BY <2>2, <2>3, <2>4, <2>5 DEF HandlerStep
<1>5. CASE StoreVerdict(r) /\ verdicts' # verdicts
  <2>1. pc[r] = "store" /\ UNCHANGED decision /\ pc' = [pc EXCEPT ![r] = "emit"]
    BY <1>5 DEF StoreVerdict, Goto
  <2>2. HandsBacked'
    BY <1>1, <2>1, WorkerApart DEF TypeOK, EvidenceInv, HandsBacked, Backed
  <2>3. Justified(ShaOf[pkg[r]], decision[r])
    BY <1>2, <2>1, BackedJustified DEF EvidenceInv, HandsBacked
  <2>4. verdicts' = [verdicts EXCEPT ![ShaOf[pkg[r]]] =
                       [verdict |-> decision[r], pkg |-> pkg[r]]]
    BY <1>5 DEF StoreVerdict, Sha
  <2>5. CachedVerdictJustified'
    BY <1>2, <2>3, <2>4, CacheWritten DEF EvidenceInv
  <2>6. QED
    BY <2>2, <2>5 DEF EvidenceInv
<1>6. QED
  BY <1>4, <1>5 DEF PassThrough, Arrive, HandlerStep, FetchPackageMeta, OsvGet,
     OsvQuery, OsvSet, Layer1Decide, FetchTarball, GetVerdict, Analyze, EmitVerdict, Reply

\* The worker files a block under the digest it was listed with.
LEMMA WorkerEvidence ==
  ASSUME TypeOK, OsvInv, EvidenceInv, everPublished \subseteq everPublished', WorkerStep
  PROVE  EvidenceInv'
<1>1. UNCHANGED decision /\ \A r \in Reqs : pc'[r] = pc[r] /\ pkg'[r] = pkg[r]
  BY WorkerApart DEF TypeOK, WorkerStep, Tick, ScanKey, ListDone, RoundDone, Invalidate,
     OsvGet, OsvQuery, OsvSet, RecheckDecide, EmitUpgrade, Goto
<1>2. \A r \in Reqs : pc'[r] \in {"store", "emit"} => Backed(pkg[r], decision[r])'
  BY <1>1 DEF EvidenceInv, HandsBacked, Backed
<1>3. CASE UNCHANGED verdicts
  <2>1. CachedVerdictJustified'
    BY <1>3, CacheKept DEF EvidenceInv
  <2>2. \A ce \in todo' : ShaOf[ce.entry.pkg] = ce.sha
    <3>1. ASSUME NEW s \in Shas, ScanKey(s)
          PROVE  \A ce \in todo' : ShaOf[ce.entry.pkg] = ce.sha
      <4>1. Listed(s) => ShaOf[verdicts[s].pkg] = s
        BY DEF Listed, EvidenceInv, CachedVerdictJustified
      <4>2. QED
        BY <3>1, <4>1 DEF ScanKey, EvidenceInv, HandsBacked
    <3>2. CASE todo' \subseteq todo
      BY <3>2 DEF EvidenceInv, HandsBacked
    <3>3. QED
      BY <3>1, <3>2 DEF WorkerStep, Tick, ListDone, RoundDone, Invalidate, OsvGet,
         OsvQuery, OsvSet, RecheckDecide, EmitUpgrade
  <2>3. ShaOf[pkg'[Worker]] = current'
    <3>1. ASSUME NEW ce \in todo, Invalidate(ce) PROVE ShaOf[pkg'[Worker]] = current'
      BY <3>1, WorkerApart DEF TypeOK, Invalidate, EvidenceInv, HandsBacked
    <3>2. CASE UNCHANGED <<pkg, current>>
      BY <3>2 DEF EvidenceInv, HandsBacked
    <3>3. QED
      BY <3>1, <3>2 DEF WorkerStep, Tick, ScanKey, ListDone, RoundDone, OsvGet,
         OsvQuery, OsvSet, RecheckDecide, EmitUpgrade
  <2>4. QED
    BY <1>2, <2>1, <2>2, <2>3 DEF EvidenceInv, HandsBacked
<1>4. CASE RecheckDecide /\ verdicts' # verdicts
  <2>1. Condemned(Worker) /\ UNCHANGED <<pkg, todo, current>>
    BY <1>4 DEF RecheckDecide
  <2>2. pkg[Worker] \in Pkgs /\ ShaOf[pkg[Worker]] = current
    BY WorkerApart DEF TypeOK, EvidenceInv, HandsBacked
  <2>3. Justified(ShaOf[pkg[Worker]], "block")
    BY <2>1, CondemnedJustified, WorkerApart DEF Justified
  <2>4. verdicts' = [verdicts EXCEPT ![ShaOf[pkg[Worker]]] =
                       [verdict |-> "block", pkg |-> pkg[Worker]]]
    BY <1>4, <2>2 DEF RecheckDecide
  <2>5. CachedVerdictJustified'
    BY <2>2, <2>3, <2>4, CacheWritten DEF EvidenceInv, Verdicts
  <2>6. QED
    BY <1>2, <2>1, <2>5 DEF EvidenceInv, HandsBacked
<1>5. QED
  BY <1>3, <1>4 DEF WorkerStep, Tick, ScanKey, ListDone, RoundDone, Invalidate, OsvGet,
     OsvQuery, OsvSet, EmitUpgrade

LEMMA EnvironmentEvidence ==
  ASSUME TypeOK, EvidenceInv, everPublished \subseteq everPublished', Environment
  PROVE  EvidenceInv'
<1>1. \A s \in Shas : verdicts'[s] = verdicts[s] \/ verdicts'[s] = NoEntry
  BY DEF TypeOK, Environment, Publish, Withdraw, ExpireOsv, ExpireVerdict, Restart
<1>2. UNCHANGED <<pkg, decision, current>> /\ todo' \subseteq todo
  BY DEF Environment, Publish, Withdraw, ExpireOsv, ExpireVerdict, Restart
<1>3. \A r \in Reqs : pc'[r] \in {"store", "emit"} => pc[r] \in {"store", "emit"}
  BY WorkerApart DEF TypeOK, Environment, Publish, Withdraw, ExpireOsv, ExpireVerdict, Restart
<1>4. HandsBacked'
  BY <1>2, <1>3 DEF EvidenceInv, HandsBacked, Backed
<1>5. QED
  BY <1>1, <1>4, CacheKept DEF EvidenceInv

LEMMA EvidenceNext == TypeOK /\ OsvInv /\ EvidenceInv /\ [Next]_vars => EvidenceInv'
<1> SUFFICES ASSUME TypeOK, OsvInv, EvidenceInv, [Next]_vars PROVE EvidenceInv'
  OBVIOUS
<1>1. everPublished \subseteq everPublished'
  BY PublishedGrows
<1>2. CASE UNCHANGED vars
  <2>1. HandsBacked'
    BY <1>2 DEF EvidenceInv, HandsBacked, Backed
  <2>2. QED
    BY <1>1, <1>2, <2>1, CacheKept DEF EvidenceInv
<1>3. QED
  BY <1>1, <1>2, HandlerEvidence, WorkerEvidence, EnvironmentEvidence DEF Next

LEMMA SafetyInit == Init => OsvInv /\ EvidenceInv
<1> SUFFICES ASSUME Init PROVE OsvInv /\ EvidenceInv
  OBVIOUS
<1>1. OsvInv
  BY DEF Init, OsvInv, OsvCacheSound
<1>2. CachedVerdictJustified
  BY DEF Init, CachedVerdictJustified
<1>3. HandsBacked
  BY WorkerApart DEF Init, HandsBacked
<1>4. QED
  BY <1>1, <1>2, <1>3 DEF EvidenceInv

\* Every cached verdict is justified by a package with those very bytes.
THEOREM CacheJustified == Spec => []CachedVerdictJustified
<1>1. EvidenceInv => CachedVerdictJustified
  BY DEF EvidenceInv
<1>2. QED
  BY <1>1, SafetyInit, OsvNext, EvidenceNext, TypeCorrect, PTL DEF Spec

-----------------------------------------------------------------------------
(* Answers and events.                                                     *)

Over == {"reply", "done", "aborted"}

\* Nothing is sent before the end; a veto is on its way to Layer 1's decision,
\* or the end is reached without the bytes; and the end is as it should be.
ReplyOK(r) ==
  /\ pc[r] \notin Over => events[r] = <<>> /\ answer[r].code = 0
  /\ osv[r] = "1" /\ pkg[r] \notin Noisy =>
       pc[r] \in {"osv_set", "decide"} \union Over /\ answer[r].code # 200
  /\ pc[r] = "reply" => EventFaithful(r)
  /\ SentJustified(r)

ReplyInv == \A r \in Reqs : ReplyOK(r)

\* Event e and answer a may be sent to request r.
MaySend(r, e, a) ==
  /\ e.type = "package_verdict" =>
       /\ (a.code = 403) = (e.verdict = "block")
       /\ a.warning = (e.verdict = "warn")
  /\ e.type # "package_verdict" => a.code # 200
  /\ a.code # 404
  /\ osv[r] = "1" /\ pkg[r] \notin Noisy => a.code # 200
  /\ a.code = 200 =>
       /\ Permitted(Sha(r), IF a.warning THEN "warn" ELSE "allow")
       /\ Sha(r) \notin Oversized
  /\ e.verdict = "block" => BlockJustified(Sha(r))

\* What is sent in one step, and may be, leaves the request in order.
LEMMA ReplySent ==
  ASSUME TypeOK, everPublished \subseteq everPublished', NEW r \in Reqs, ReplyOK(r),
         NEW e \in EventRecord, NEW a \in Answer, MaySend(r, e, a),
         pc[r] \notin Over,
         UNCHANGED <<pkg, osv>>,
         events' = [events EXCEPT ![r] = Append(@, e)],
         answer' = [answer EXCEPT ![r] = a],
         pc' = [pc EXCEPT ![r] = "reply"]
  PROVE  ReplyOK(r)'
<1>1. events[r] = <<>> /\ events'[r] = <<e>> /\ answer'[r] = a /\ pc'[r] = "reply"
  <2>1. events[r] = <<>>
    BY DEF ReplyOK
  <2>2. events'[r] = Append(events[r], e) /\ answer'[r] = a /\ pc'[r] = "reply"
    BY WorkerApart DEF TypeOK
  <2>3. QED
    BY <2>1, <2>2
<1>2. EventFaithful(r)'
  BY <1>1 DEF MaySend, EventFaithful
<1>3. SentJustified(r)'
  BY <1>1 DEF MaySend, SentJustified, Permitted, BlockJustified, Sha
<1>4. QED
  BY <1>1, <1>2, <1>3 DEF MaySend, ReplyOK, Over

\* A step of others.
LEMMA ReplyKept ==
  ASSUME everPublished \subseteq everPublished', NEW r \in Reqs, ReplyOK(r),
         events'[r] = events[r], answer'[r] = answer[r], pkg'[r] = pkg[r],
         osv'[r] = osv[r], pc'[r] = pc[r]
  PROVE  ReplyOK(r)'
<1>1. SentJustified(r)'
  BY DEF ReplyOK, SentJustified, Permitted, BlockJustified, Sha
<1>2. pc'[r] = "reply" => EventFaithful(r)'
  BY DEF ReplyOK, EventFaithful
<1>3. QED
  BY <1>1, <1>2 DEF ReplyOK

\* A step of the request that sends nothing.
LEMMA ReplyMoved ==
  ASSUME everPublished \subseteq everPublished', NEW r \in Reqs, ReplyOK(r),
         events'[r] = events[r], answer'[r] = answer[r], pkg'[r] = pkg[r],
         pc'[r] # "reply",
         pc[r] \in Over => pc'[r] \in Over,
         osv'[r] = "1" /\ pkg[r] \notin Noisy => pc'[r] \in {"osv_set", "decide"} \union Over,
         osv'[r] = "1" => osv[r] = "1" \/ pc[r] \notin Over
  PROVE  ReplyOK(r)'
<1>1. SentJustified(r)'
  BY DEF ReplyOK, SentJustified, Permitted, BlockJustified, Sha
<1>2. QED
  BY <1>1 DEF ReplyOK, Over

\* The handler's own steps.
LEMMA HandlerReply ==
  ASSUME TypeOK, OsvInv, EvidenceInv, everPublished \subseteq everPublished',
         NEW r \in Reqs, ReplyOK(r), PassThrough(r) \/ Arrive(r) \/ HandlerStep(r)
  PROVE  ReplyOK(r)'
<1>1. r \in Callers /\ pkg[r] \in Pkgs /\ decision[r] \in Verdicts
  BY WorkerApart DEF TypeOK
<1>2. ASSUME NEW type \in EventTypes \ {"package_verdict"}, NEW code \in {403, 502},
             pc[r] \notin Over, UNCHANGED <<pkg, osv>>, Refuse(r, type, code)
      PROVE  ReplyOK(r)'
  <2> DEFINE e == Event(type, "none", code)
             a == [code |-> code, warning |-> FALSE]
  <2>1. e \in EventRecord /\ a \in Answer
    BY DEF Event, EventRecord, Answer
  <2>2. MaySend(r, e, a)
    <3>1. e.type # "package_verdict" /\ e.verdict = "none" /\ a.code \notin {200, 404}
      BY DEF Event
    <3> HIDE DEF e, a
    <3>2. QED
      BY <3>1 DEF MaySend
  <2>3. /\ events' = [events EXCEPT ![r] = Append(@, e)]
        /\ answer' = [answer EXCEPT ![r] = a]
        /\ pc' = [pc EXCEPT ![r] = "reply"]
    BY <1>2 DEF Refuse, EmitAndReply, Goto
  <2> HIDE DEF e, a
  <2>4. QED
    BY <1>2, <2>1, <2>2, <2>3, ReplySent
<1>3. ASSUME NEW v \in Verdicts, NEW code \in {200, 403},
             pc[r] \notin Over, UNCHANGED <<pkg, osv>>, Respond(r, v, code),
             Justified(Sha(r), v),
             osv[r] = "1" /\ pkg[r] \notin Noisy => v = "block"
      PROVE  ReplyOK(r)'
  <2> DEFINE e == Event("package_verdict", v, code)
             a == [code |-> IF v = "block" THEN 403 ELSE 200, warning |-> v = "warn"]
  <2>1. e \in EventRecord /\ a \in Answer
    BY DEF Event, EventRecord, EventTypes, Answer
  <2>2. MaySend(r, e, a)
    <3>1. e.type = "package_verdict" /\ e.verdict = v
      BY DEF Event
    <3>2. a.code = (IF v = "block" THEN 403 ELSE 200) /\ a.warning = (v = "warn")
      OBVIOUS
    <3> HIDE DEF e, a
    <3>3. v # "block" => v = IF a.warning THEN "warn" ELSE "allow"
      BY <3>2 DEF Verdicts
    <3>4. QED
      BY <1>3, <3>1, <3>2, <3>3 DEF MaySend, Justified
  <2>3. /\ events' = [events EXCEPT ![r] = Append(@, e)]
        /\ answer' = [answer EXCEPT ![r] = a]
        /\ pc' = [pc EXCEPT ![r] = "reply"]
    BY <1>3, Zenon DEF Respond, EmitAndReply, Goto
  <2> HIDE DEF e, a
  <2>4. QED
    BY <1>3, <2>1, <2>2, <2>3, ReplySent
<1>4. CASE PassThrough(r) \/ Arrive(r) \/ Reply(r) \/ StoreVerdict(r)
  BY <1>1, <1>4, ReplyMoved
     DEF TypeOK, ReplyOK, Over, PassThrough, Arrive, Reply, StoreVerdict, Goto
<1>5. CASE OsvGet(r) \/ OsvQuery(r) \/ OsvSet(r)
  BY <1>1, <1>5, ReplyMoved DEF TypeOK, ReplyOK, Over, OsvGet, OsvQuery, OsvSet, Goto
<1>6. CASE FetchPackageMeta(r)
  <2>1. pc[r] \notin Over /\ UNCHANGED <<pkg, osv>>
    BY <1>6 DEF FetchPackageMeta, Over
  <2>2. CASE Goto(r, "osv_get") /\ UNCHANGED <<events, answer>>
    BY <1>1, <1>6, <2>2, ReplyMoved DEF TypeOK, ReplyOK, Over, FetchPackageMeta, Goto
  <2>3. CASE /\ answer' = [answer EXCEPT ![r] = [code |-> 404, warning |-> FALSE]]
             /\ Goto(r, "reply")
             /\ UNCHANGED events
    <3>1. events'[r] = <<>> /\ answer'[r].code = 404 /\ pc'[r] = "reply"
      BY <1>1, <2>1, <2>3 DEF TypeOK, ReplyOK, Goto
    <3>2. QED
      BY <2>1, <3>1 DEF ReplyOK, Over, EventFaithful, SentJustified
  <2>4. CASE Refuse(r, "upstream_down", 502)
    BY <1>2, <2>1, <2>4 DEF EventTypes
  <2>5. QED
    BY <1>6, <2>2, <2>3, <2>4 DEF FetchPackageMeta
<1>7. CASE Layer1Decide(r)
  <2>1. pc[r] \notin Over /\ UNCHANGED <<pkg, osv>>
    BY <1>7 DEF Layer1Decide, Over
  <2>2. PICK v \in Layer1Verdicts(r) :
          \/ v = "block" /\ Respond(r, v, 403)
          \/ v # "block" /\ Goto(r, "fetch") /\ UNCHANGED <<events, answer>>
    BY <1>7 DEF Layer1Decide
  <2>3. osv[r] = "1" /\ pkg[r] \notin Noisy => v = "block"
    BY DEF Layer1Verdicts, Condemned
  <2>4. CASE v = "block" /\ Respond(r, v, 403)
    <3>1. Justified(Sha(r), v) /\ v \in Verdicts
      BY <2>4, LayerOneJustified DEF Verdicts
    <3>2. QED
      BY <1>3, <2>1, <2>3, <2>4, <3>1
  <2>5. CASE v # "block" /\ Goto(r, "fetch") /\ UNCHANGED <<events, answer>>
    BY <1>1, <2>1, <2>3, <2>5, ReplyMoved DEF TypeOK, Over, Goto
  <2>6. QED
    BY <2>2, <2>4, <2>5
<1>8. CASE FetchTarball(r)
  <2>1. /\ pc[r] \notin Over /\ UNCHANGED <<pkg, osv>>
        /\ ~(osv[r] = "1" /\ pkg[r] \notin Noisy)
    BY <1>8 DEF FetchTarball, Over, ReplyOK
  <2>2. CASE Goto(r, "lookup") /\ UNCHANGED <<events, answer>>
    BY <1>1, <2>1, <2>2, ReplyMoved DEF TypeOK, Over, Goto
  <2>3. CASE Refuse(r, "upstream_down", 502) \/ Refuse(r, "integrity_mismatch", 403)
    BY <1>2, <2>1, <2>3 DEF EventTypes
  <2>4. QED
    BY <1>8, <2>2, <2>3 DEF FetchTarball
<1>9. CASE GetVerdict(r)
  <2>1. /\ pc[r] \notin Over /\ UNCHANGED <<pkg, osv>>
        /\ ~(osv[r] = "1" /\ pkg[r] \notin Noisy)
    BY <1>9 DEF GetVerdict, Over, ReplyOK
  <2>2. CASE /\ verdicts[Sha(r)] # NoEntry
             /\ Respond(r, verdicts[Sha(r)].verdict, 200)
    <3>1. Sha(r) \in Shas
      BY <1>1, PackageAssumption DEF Sha
    <3>2. /\ verdicts[Sha(r)].verdict \in Verdicts
          /\ Justified(Sha(r), verdicts[Sha(r)].verdict)
      BY <2>2, <3>1 DEF TypeOK, Entry, EvidenceInv, CachedVerdictJustified
    <3>3. QED
      BY <1>3, <2>1, <2>2, <3>2
  <2>3. CASE Goto(r, "analyze") /\ UNCHANGED <<events, answer>>
    BY <1>1, <2>1, <2>3, ReplyMoved DEF TypeOK, Over, Goto
  <2>4. QED
    BY <1>9, <2>2, <2>3 DEF GetVerdict
<1>10. CASE Analyze(r)
  <2>1. /\ pc[r] \notin Over /\ UNCHANGED <<pkg, osv>>
        /\ ~(osv[r] = "1" /\ pkg[r] \notin Noisy)
    BY <1>10 DEF Analyze, Over, ReplyOK
  <2>2. CASE Goto(r, "store") /\ UNCHANGED <<events, answer>>
    BY <1>1, <2>1, <2>2, ReplyMoved DEF TypeOK, Over, Goto
  <2>3. CASE \/ Refuse(r, "resource_limit_exceeded", 403)
             \/ Refuse(r, "analysis_timeout", 403)
    BY <1>2, <2>1, <2>3 DEF EventTypes
  <2>4. QED
    BY <1>10, <2>2, <2>3 DEF Analyze
<1>11. CASE EmitVerdict(r)
  <2>1. /\ pc[r] \notin Over /\ UNCHANGED <<pkg, osv>>
        /\ ~(osv[r] = "1" /\ pkg[r] \notin Noisy)
    BY <1>11 DEF EmitVerdict, Over, ReplyOK
  <2>2. Justified(Sha(r), decision[r])
    BY <1>1, <1>11, BackedJustified DEF EmitVerdict, EvidenceInv, HandsBacked, Sha
  <2>3. QED
    BY <1>1, <1>3, <1>11, <2>1, <2>2 DEF EmitVerdict
<1>12. QED
  BY <1>4, <1>5, <1>6, <1>7, <1>8, <1>9, <1>10, <1>11 DEF HandlerStep

\* The handlers of other requests, and the worker, leave a request alone.
LEMMA OthersReply ==
  ASSUME TypeOK, everPublished \subseteq everPublished', NEW r \in Reqs, ReplyOK(r),
         \/ WorkerStep
         \/ \E q \in Reqs : q # r /\ (PassThrough(q) \/ Arrive(q) \/ HandlerStep(q))
  PROVE  ReplyOK(r)'
<1>1. /\ events'[r] = events[r] /\ answer'[r] = answer[r]
      /\ pkg'[r] = pkg[r] /\ osv'[r] = osv[r] /\ pc'[r] = pc[r]
  <2>1. CASE WorkerStep
    BY <2>1, WorkerApart DEF TypeOK, WorkerStep, Tick, ScanKey, ListDone, RoundDone,
       Invalidate, OsvGet, OsvQuery, OsvSet, RecheckDecide, EmitUpgrade, Goto
  <2>2. ASSUME NEW q \in Reqs, q # r, PassThrough(q) \/ Arrive(q) \/ HandlerStep(q)
        PROVE  /\ events'[r] = events[r] /\ answer'[r] = answer[r]
               /\ pkg'[r] = pkg[r] /\ osv'[r] = osv[r] /\ pc'[r] = pc[r]
    <3>1. UNCHANGED pkg /\ osv'[r] = osv[r]
      BY <2>2, WorkerApart DEF TypeOK, PassThrough, Arrive, HandlerStep, FetchPackageMeta,
         OsvGet, OsvQuery, OsvSet, Layer1Decide, FetchTarball, GetVerdict, Analyze,
         StoreVerdict, EmitVerdict, Reply
    <3>2. \E l : pc' = [pc EXCEPT ![q] = l]
      BY <2>2, SMTT(20) DEF PassThrough, Arrive, HandlerStep, FetchPackageMeta, OsvGet, OsvQuery,
         OsvSet, Layer1Decide, FetchTarball, GetVerdict, Analyze, StoreVerdict,
         EmitVerdict, Reply, Refuse, Respond, EmitAndReply, Goto
    <3>3. events'[r] = events[r] /\ answer'[r] = answer[r]
      <4>1. CASE \/ UNCHANGED <<events, answer>>
                 \/ /\ UNCHANGED events
                    /\ answer' = [answer EXCEPT ![q] = [code |-> 404, warning |-> FALSE]]
        BY <2>2, <4>1 DEF TypeOK
      <4>2. ASSUME NEW v, NEW code, Respond(q, v, code) \/ Refuse(q, v, code)
            PROVE  events'[r] = events[r] /\ answer'[r] = answer[r]
        BY <2>2, <4>2 DEF TypeOK, EmitAndReply, Respond, Refuse
      <4>3. QED
        BY <2>2, <4>1, <4>2 DEF PassThrough, Arrive, HandlerStep, FetchPackageMeta,
           OsvGet, OsvQuery, OsvSet, Layer1Decide, FetchTarball, GetVerdict, Analyze,
           StoreVerdict, EmitVerdict, Reply
    <3>4. QED
      BY <2>2, <3>1, <3>2, <3>3, WorkerApart DEF TypeOK
  <2>3. QED
    BY <2>1, <2>2
<1>2. QED
  BY <1>1, ReplyKept

LEMMA EnvironmentReply ==
  ASSUME TypeOK, everPublished \subseteq everPublished', NEW r \in Reqs, ReplyOK(r),
         Environment
  PROVE  ReplyOK(r)'
<1>1. UNCHANGED <<events, answer, pkg, osv>>
  BY DEF Environment, Publish, Withdraw, ExpireOsv, ExpireVerdict, Restart
<1>2. CASE Restart
  <2>1. pc'[r] = pc[r] \/ pc'[r] = "aborted"
    BY <1>2, WorkerApart DEF Restart
  <2>2. QED
    BY <1>1, <2>1, ReplyKept, ReplyMoved DEF Over
<1>3. CASE ~Restart
  <2>1. UNCHANGED pc
    BY <1>3 DEF Environment, Publish, Withdraw, ExpireOsv, ExpireVerdict
  <2>2. QED
    BY <1>1, <2>1, ReplyKept
<1>4. QED
  BY <1>2, <1>3

LEMMA ReplyNext ==
  TypeOK /\ OsvInv /\ EvidenceInv /\ ReplyInv /\ [Next]_vars => ReplyInv'
<1> SUFFICES ASSUME TypeOK, OsvInv, EvidenceInv, [Next]_vars,
                    NEW r \in Reqs, ReplyOK(r)
             PROVE  ReplyOK(r)'
  BY DEF ReplyInv
<1>1. everPublished \subseteq everPublished'
  BY PublishedGrows
<1>2. CASE UNCHANGED vars
  BY <1>1, <1>2, ReplyKept
<1>3. ASSUME NEW q \in Reqs, PassThrough(q) \/ Arrive(q) \/ HandlerStep(q)
      PROVE  ReplyOK(r)'
  BY <1>1, <1>3, HandlerReply, OthersReply
<1>4. CASE WorkerStep
  BY <1>1, <1>4, OthersReply
<1>5. CASE Environment
  BY <1>1, <1>5, EnvironmentReply
<1>6. QED
  BY <1>2, <1>3, <1>4, <1>5 DEF Next

LEMMA ReplyInit == Init => ReplyInv
<1> SUFFICES ASSUME Init, NEW r \in Reqs PROVE ReplyOK(r)
  BY DEF ReplyInv
<1>1. /\ pc[r] = "idle" /\ osv[r] = "none" /\ events[r] = <<>> /\ answer[r].code = 0
  BY WorkerApart DEF Init
<1>2. QED
  BY <1>1 DEF ReplyOK, SentJustified

LEMMA ReplyAlways == Spec => []ReplyInv
  BY ReplyInit, SafetyInit, OsvNext, EvidenceNext, ReplyNext, TypeCorrect, PTL DEF Spec

\* What a client gets is justified by the bytes and the advisories, whether the
\* handler analysed them or took the verdict from the cache.
THEOREM AnswersSafe == Spec => []AnswerJustified
<1>1. ReplyInv => AnswerJustified
  BY DEF ReplyInv, ReplyOK, AnswerJustified
<1>2. QED
  BY <1>1, ReplyAlways, PTL

\* A veto a handler heard of hands nothing over.
THEOREM VetoBlocks == Spec => []VetoAnswerBlocks
<1>1. ReplyInv => VetoAnswerBlocks
  BY DEF ReplyInv, ReplyOK, VetoAnswerBlocks
<1>2. QED
  BY <1>1, ReplyAlways, PTL

\* The SIEM hears of each answer once, before the client does, and the truth.
THEOREM EventsFaithful == Spec => []EventMatchesAnswer
<1>1. ReplyInv => EventMatchesAnswer
  BY DEF ReplyInv, ReplyOK, EventMatchesAnswer
<1>2. QED
  BY <1>1, ReplyAlways, PTL

-----------------------------------------------------------------------------
(* The proxy implements the gate.  Only the handler's last step before the *)
(* reply is a step of the gate, and the publishing of an advisory; all     *)
(* else - Redis, the worker, expiry, restarts - the gate does not see.  The *)
(* invariants above are what makes that last step one the gate allows:     *)
(* nothing was sent before it (ReplyInv), and what it sends has its        *)
(* evidence (OsvInv, EvidenceInv).                                         *)

LEMMA SameVerdicts ==
  /\ Gate!Verdicts = Verdicts
  /\ \A u, v : Gate!NoHarsher(u, v) <=> NoHarsher(u, v)
  BY DEF Verdicts, Gate!Verdicts, NoHarsher, Gate!NoHarsher, Severity, Gate!Severity

GateStep == [Gate!Next]_(Gate!gateVars)

\* What the gate sees of the proxy.
Seen == <<everPublished, [r \in Reqs |-> pkg[r]], events, answer>>

LEMMA Stutters == UNCHANGED Seen => GateStep
  BY DEF Seen, GateStep, Gate!gateVars

LEMMA SameQuestions == UNCHANGED pkg => UNCHANGED [r \in Reqs |-> pkg[r]]
  OBVIOUS

\* The event and the answer replace the silence before them.
LEMMA Tells ==
  ASSUME TypeOK, NEW r \in Reqs, ReplyOK(r), pc[r] \notin Over, UNCHANGED <<everPublished, pkg>>,
         NEW e, NEW code, NEW warning, EmitAndReply(r, e, code, warning)
  PROVE  Gate!Tell(r, <<e>>, code, warning)
<1>1. events[r] = <<>> /\ answer[r].code = 0
  BY DEF ReplyOK
<1>2. Append(events[r], e) = <<e>>
  BY <1>1
<1>3. events' = [events EXCEPT ![r] = <<e>>]
  BY <1>2 DEF EmitAndReply
<1>4. answer' = [answer EXCEPT ![r] = [code |-> code, warning |-> warning]]
  BY DEF EmitAndReply
<1>5. QED
  BY <1>1, <1>3, <1>4, SameQuestions DEF Gate!Tell, Gate!Unanswered

\* A failure, with its event.
LEMMA GivesUp ==
  ASSUME TypeOK, NEW r \in Reqs, ReplyOK(r), pc[r] \notin Over, UNCHANGED <<everPublished, pkg>>,
         NEW f \in Gate!Failures, Refuse(r, f[1], f[2])
  PROVE  Gate!Next
<1>1. EmitAndReply(r, Event(f[1], "none", f[2]), f[2], FALSE)
  BY DEF Refuse
<1>2. Gate!Tell(r, <<Event(f[1], "none", f[2])>>, f[2], FALSE)
  BY <1>1, Tells
<1>3. Gate!GiveUp(r, f[1], f[2])
  BY <1>2 DEF Gate!GiveUp, Gate!Event, Event
<1>4. QED
  BY <1>3 DEF Gate!Next

\* A verdict that the evidence justifies.
LEMMA Responds ==
  ASSUME TypeOK, NEW r \in Reqs, ReplyOK(r), pc[r] \notin Over, UNCHANGED <<everPublished, pkg>>,
         NEW v \in Verdicts, NEW eventCode \in {200, 403}, v # "block" => eventCode = 200,
         Respond(r, v, eventCode), Justified(Sha(r), v)
  PROVE  Gate!Next
<1>1. Gate!Tell(r, <<Event("package_verdict", v, eventCode)>>,
                IF v = "block" THEN 403 ELSE 200, v = "warn")
  BY Tells DEF Respond
<1>2. Sha(r) = ShaOf[[q \in Reqs |-> pkg[q]][r]]
  BY DEF Sha
<1>3. CASE v = "block"
  <2>1. Gate!BlockJustified(ShaOf[[q \in Reqs |-> pkg[q]][r]])
    BY <1>2, <1>3 DEF Justified, BlockJustified, Gate!BlockJustified
  <2>2. Gate!Tell(r, <<Gate!Event("package_verdict", "block", eventCode)>>, 403, FALSE)
    <3>1. (v = "warn") = FALSE /\ (IF v = "block" THEN 403 ELSE 200) = 403
      BY <1>3
    <3>2. Gate!Event("package_verdict", "block", eventCode) =
            Event("package_verdict", v, eventCode)
      BY <1>3 DEF Event, Gate!Event
    <3>3. QED
      BY <1>1, <3>1, <3>2
  <2>3. Gate!Condemn(r, eventCode)
    BY <2>1, <2>2 DEF Gate!Condemn
  <2>4. QED
    BY <2>3 DEF Gate!Next
<1>4. CASE v # "block"
  <2>1. /\ Gate!Permitted(ShaOf[[q \in Reqs |-> pkg[q]][r]], v)
        /\ ShaOf[[q \in Reqs |-> pkg[q]][r]] \notin Oversized
    BY <1>2, <1>4, SameVerdicts DEF Justified, Permitted, Gate!Permitted
  <2>2. Gate!Tell(r, <<Gate!Event("package_verdict", v, 200)>>, 200, v = "warn")
    BY <1>1, <1>4 DEF Event, Gate!Event
  <2>3. Gate!Deliver(r, v)
    BY <1>4, <2>1, <2>2 DEF Gate!Deliver
  <2>4. QED
    BY <2>3, SameVerdicts DEF Gate!Next
<1>5. QED
  BY <1>3, <1>4

\* The handler's steps: all are silent but the last.
LEMMA HandlerGate ==
  ASSUME TypeOK, OsvInv, EvidenceInv, NEW r \in Reqs, ReplyOK(r),
         PassThrough(r) \/ Arrive(r) \/ HandlerStep(r)
  PROVE  GateStep
<1>1. pkg[r] \in Pkgs /\ decision[r] \in Verdicts
  BY WorkerApart DEF TypeOK
<1>2. UNCHANGED <<everPublished, pkg>>
  BY DEF PassThrough, Arrive, HandlerStep, FetchPackageMeta, OsvGet, OsvQuery, OsvSet,
     Layer1Decide, FetchTarball, GetVerdict, Analyze, StoreVerdict, EmitVerdict, Reply
<1>3. ASSUME UNCHANGED <<events, answer>> PROVE GateStep
  BY <1>2, <1>3, Stutters, SameQuestions DEF Seen
<1>4. ASSUME Gate!Next PROVE GateStep
  BY <1>4 DEF GateStep
<1>5. CASE \/ PassThrough(r) \/ Arrive(r) \/ OsvGet(r) \/ OsvQuery(r) \/ OsvSet(r)
           \/ StoreVerdict(r) \/ Reply(r)
  BY <1>3, <1>5 DEF PassThrough, Arrive, OsvGet, OsvQuery, OsvSet, StoreVerdict, Reply
<1>6. CASE FetchPackageMeta(r)
  <2>1. pc[r] \notin Over
    BY <1>6 DEF FetchPackageMeta, Over
  <2>2. CASE UNCHANGED <<events, answer>>
    BY <1>3, <2>2
  <2>3. CASE /\ answer' = [answer EXCEPT ![r] = [code |-> 404, warning |-> FALSE]]
             /\ UNCHANGED events
    <3>1. events[r] = <<>> /\ answer[r].code = 0
      BY <2>1 DEF ReplyOK
    <3>2. events' = [events EXCEPT ![r] = <<>>]
      BY <2>3, <3>1 DEF TypeOK
    <3>3. Gate!NotListed(r)
      BY <1>2, <2>3, <3>1, <3>2, SameQuestions DEF Gate!NotListed, Gate!Tell, Gate!Unanswered
    <3>4. QED
      BY <1>4, <3>3 DEF Gate!Next
  <2>4. CASE Refuse(r, "upstream_down", 502)
    <3>1. <<"upstream_down", 502>> \in Gate!Failures
      BY DEF Gate!Failures
    <3>2. QED
      BY <1>2, <1>4, <2>1, <2>4, <3>1, GivesUp
  <2>5. QED
    BY <1>6, <2>2, <2>3, <2>4 DEF FetchPackageMeta
<1>7. CASE Layer1Decide(r)
  <2>1. pc[r] \notin Over
    BY <1>7 DEF Layer1Decide, Over
  <2>2. PICK v \in Layer1Verdicts(r) :
          \/ v = "block" /\ Respond(r, v, 403)
          \/ v # "block" /\ Goto(r, "fetch") /\ UNCHANGED <<events, answer>>
    BY <1>7 DEF Layer1Decide
  <2>3. CASE v = "block" /\ Respond(r, v, 403)
    <3>1. Justified(Sha(r), v)
      BY <1>1, <2>2, <2>3, LayerOneJustified
    <3>2. QED
      BY <1>2, <1>4, <2>1, <2>3, <3>1, Responds DEF Verdicts
  <2>4. QED
    BY <1>3, <2>2, <2>3
<1>8. CASE FetchTarball(r)
  <2>1. pc[r] \notin Over
    BY <1>8 DEF FetchTarball, Over
  <2>2. /\ <<"upstream_down", 502>> \in Gate!Failures
        /\ <<"integrity_mismatch", 403>> \in Gate!Failures
    BY DEF Gate!Failures
  <2>3. CASE Refuse(r, "upstream_down", 502)
    BY <1>2, <1>4, <2>1, <2>2, <2>3, GivesUp
  <2>4. CASE Refuse(r, "integrity_mismatch", 403)
    BY <1>2, <1>4, <2>1, <2>2, <2>4, GivesUp
  <2>5. QED
    BY <1>3, <1>8, <2>3, <2>4 DEF FetchTarball
<1>9. CASE GetVerdict(r)
  <2>1. pc[r] \notin Over
    BY <1>9 DEF GetVerdict, Over
  <2>2. CASE verdicts[Sha(r)] # NoEntry /\ Respond(r, verdicts[Sha(r)].verdict, 200)
    <3>1. Sha(r) \in Shas
      BY <1>1, PackageAssumption DEF Sha
    <3>2. /\ verdicts[Sha(r)].verdict \in Verdicts
          /\ Justified(Sha(r), verdicts[Sha(r)].verdict)
      BY <2>2, <3>1 DEF TypeOK, Entry, EvidenceInv, CachedVerdictJustified
    <3>3. QED
      BY <1>2, <1>4, <2>1, <2>2, <3>2, Responds
  <2>3. QED
    BY <1>3, <1>9, <2>2 DEF GetVerdict
<1>10. CASE Analyze(r)
  <2>1. pc[r] \notin Over
    BY <1>10 DEF Analyze, Over
  <2>2. /\ <<"resource_limit_exceeded", 403>> \in Gate!Failures
        /\ <<"analysis_timeout", 403>> \in Gate!Failures
    BY DEF Gate!Failures
  <2>3. CASE Refuse(r, "resource_limit_exceeded", 403)
    BY <1>2, <1>4, <2>1, <2>2, <2>3, GivesUp
  <2>4. CASE Refuse(r, "analysis_timeout", 403)
    BY <1>2, <1>4, <2>1, <2>2, <2>4, GivesUp
  <2>5. QED
    BY <1>3, <1>10, <2>3, <2>4 DEF Analyze
<1>11. CASE EmitVerdict(r)
  <2>1. pc[r] \notin Over
    BY <1>11 DEF EmitVerdict, Over
  <2>2. Justified(Sha(r), decision[r])
    BY <1>1, <1>11, BackedJustified DEF EmitVerdict, EvidenceInv, HandsBacked, Sha
  <2>3. Respond(r, decision[r], IF decision[r] = "block" THEN 403 ELSE 200)
    BY <1>11 DEF EmitVerdict
  <2>4. QED
    BY <1>1, <1>2, <1>4, <2>1, <2>2, <2>3, Responds
<1>12. QED
  BY <1>5, <1>6, <1>7, <1>8, <1>9, <1>10, <1>11 DEF HandlerStep

\* The worker changes nothing the gate sees; outside, only an advisory does.
LEMMA OthersGate == TypeOK /\ (WorkerStep \/ Environment) => GateStep
<1> SUFFICES ASSUME TypeOK, WorkerStep \/ Environment PROVE GateStep
  OBVIOUS
<1>1. CASE WorkerStep
  <2>1. UNCHANGED <<everPublished, events, answer>>
    BY <1>1 DEF WorkerStep, Tick, ScanKey, ListDone, RoundDone, Invalidate, OsvGet,
       OsvQuery, OsvSet, RecheckDecide, EmitUpgrade
  <2>2. \A r \in Reqs : pkg'[r] = pkg[r]
    BY <1>1, WorkerApart DEF TypeOK, WorkerStep, Tick, ScanKey, ListDone, RoundDone,
       Invalidate, OsvGet, OsvQuery, OsvSet, RecheckDecide, EmitUpgrade
  <2>3. UNCHANGED Seen
    BY <2>1, <2>2 DEF Seen
  <2>4. QED
    BY <2>3, Stutters
<1>2. ASSUME NEW p \in Pkgs, Publish(p) PROVE GateStep
  <2>1. Gate!Advisory(p)
    BY <1>2, SameQuestions DEF Publish, Gate!Advisory
  <2>2. QED
    BY <2>1 DEF GateStep, Gate!Next
<1>3. CASE Environment /\ ~ \E p \in Pkgs : Publish(p)
  <2>1. UNCHANGED <<everPublished, pkg, events, answer>>
    BY <1>3 DEF Environment, Withdraw, ExpireOsv, ExpireVerdict, Restart
  <2>2. QED
    BY <2>1, Stutters, SameQuestions DEF Seen
<1>4. QED
  BY <1>1, <1>2, <1>3

LEMMA GateInit == Init => Gate!Init
<1> SUFFICES ASSUME Init PROVE Gate!Init
  OBVIOUS
<1>1. [r \in Reqs |-> pkg[r]] \in [Reqs -> Pkgs]
  BY WorkerApart DEF Init
<1>2. QED
  BY <1>1 DEF Init, Gate!Init

LEMMA GateNext ==
  TypeOK /\ OsvInv /\ EvidenceInv /\ ReplyInv /\ [Next]_vars => GateStep
<1> SUFFICES ASSUME TypeOK, OsvInv, EvidenceInv, ReplyInv, [Next]_vars PROVE GateStep
  OBVIOUS
<1>1. CASE UNCHANGED vars
  BY <1>1, Stutters, SameQuestions DEF Seen
<1>2. ASSUME NEW r \in Reqs, PassThrough(r) \/ Arrive(r) \/ HandlerStep(r)
      PROVE  GateStep
  BY <1>2, HandlerGate DEF ReplyInv
<1>3. QED
  BY <1>1, <1>2, OthersGate DEF Next

\* Every behaviour of the proxy is one of the gate: answers come once, with their
\* event, and on evidence.
THEOREM GateKept == Spec => GateSpec
<1>1. QED
  BY GateInit, GateNext, ReplyInit, SafetyInit, OsvNext, EvidenceNext, ReplyNext,
     TypeCorrect, PTL DEF Spec, GateSpec, Gate!Spec, GateStep
=============================================================================
