------------------------------- MODULE Proxy --------------------------------
(***************************************************************************)
(* The running proxy: request goroutines (internal/proxy/handler.go), the  *)
(* recheck worker (internal/recheck/worker.go) and the Redis they share    *)
(* (internal/cache/redis.go), with one step per call that leaves the       *)
(* process, so that everything that can happen between two calls does.     *)
(*                                                                         *)
(* Outside: the OSV database, which publishes and withdraws advisories;    *)
(* Redis, whose keys expire; and the failures of any call, MaxFaults of    *)
(* them in one behaviour.  A cancelled client context looks to the handler *)
(* like a failed call and is one of those failures.                        *)
(*                                                                         *)
(* Signals are abstracted to the verdict they lead to.  A detector may     *)
(* miss (its network call fails, or the concurrent appends to the Layer 1  *)
(* result overwrite its signal, as module Layer1 shows in detail), it adds *)
(* no score of its own making, and the policy engine is monotone           *)
(* (SearchProofs!DecideMonotone), so a decision is any verdict between     *)
(* what the surviving evidence and the full evidence justify.              *)
(***************************************************************************)
EXTENDS Verdicts, Sequences, FiniteSets

CONSTANTS
  Reqs,          \* tarball requests, one goroutine each
  Worker,        \* the recheck worker
  Pkgs,          \* name@version pairs
  Shas,          \* SHA-256 digests of tarballs
  ShaOf,         \* the digest of each package: two packages may share bytes
  Layer1Max,     \* harshest verdict on the Layer 1 signals of a package but OSV's
  BytesVerdict,  \* verdict on the post-download signals alone
  FullVerdict,   \* harshest verdict on all of its signals but OSV's
  Noisy,         \* packages with a Layer 1 signal beside the decisive one
  TypoBlocks,    \* packages the typosquat signals alone block
  Oversized,     \* digests whose extraction exceeds a limit
  WarnOnly,      \* recheck.warn_only
  BatchSize,     \* recheck.batch_size
  NoEntry,       \* the absence of a verdict key
  MaxFaults,     \* bound: failing calls in one behaviour
  MaxRestarts    \* bound: restarts of the proxy process in one behaviour

Callers == Reqs \union {Worker}

Entry == [verdict : Verdicts, pkg : Pkgs]

\* What extra evidence can make of verdict v for package p.
Between(v, p) == {w \in Verdicts : NoHarsher(v, w) /\ NoHarsher(w, FullVerdict[p])}

ASSUME PackageAssumption ==
  /\ Pkgs # {}
  /\ ShaOf \in [Pkgs -> Shas]
  /\ Layer1Max \in [Pkgs -> Verdicts]
  /\ BytesVerdict \in [Pkgs -> Verdicts]
  /\ FullVerdict \in [Pkgs -> Verdicts]
  /\ Noisy \subseteq Pkgs
  /\ TypoBlocks \subseteq Pkgs
  /\ Oversized \subseteq Shas
  /\ \A p \in Pkgs : /\ NoHarsher(Layer1Max[p], FullVerdict[p])
                     /\ NoHarsher(BytesVerdict[p], FullVerdict[p])
  /\ \A p \in TypoBlocks : Layer1Max[p] = "block"

ASSUME ParameterAssumption ==
  /\ Worker \notin Reqs
  /\ NoEntry \notin Entry
  /\ WarnOnly \in BOOLEAN
  /\ BatchSize \in Nat
  /\ MaxFaults \in Nat
  /\ MaxRestarts \in Nat

VARIABLES
  osvDB,        \* packages with a published advisory
  everPublished, \* history: packages that ever had one
  osvCache,     \* Redis osv: keys, "none" when absent
  verdicts,     \* Redis pkg: keys
  pc,           \* next step of each request and of the worker
  pkg,          \* package a request asks for; package the worker rechecks
  osv,          \* OSV answer each caller holds
  decision,     \* the handler's current Decision
  events,       \* SIEM events of each request
  answer,       \* what each client is sent
  unvisited,    \* worker: keys the running SCAN has still to return
  todo,         \* worker: CachedVerdicts listed and not yet rechecked
  current,      \* worker: the key being rechecked
  faults,       \* failing calls so far
  restarts      \* restarts so far

redis   == <<osvCache, verdicts>>
outside == <<osvDB, everPublished>>
request == <<decision, events, answer>>
worker  == <<unvisited, todo, current>>
vars    == <<outside, redis, pc, pkg, osv, request, worker, faults, restarts>>

Goto(c, l) == pc' = [pc EXCEPT ![c] = l]

\* A call to Redis, OSV or the registry fails, or does not.
Fault   == faults < MaxFaults /\ faults' = faults + 1
NoFault == UNCHANGED faults

-----------------------------------------------------------------------------
(* Events and answers. *)

Event(type, v, code) == [type |-> type, verdict |-> v, code |-> code]

\* emitEvent, then the response is written by Reply.
EmitAndReply(r, event, code, warning) ==
  /\ events' = [events EXCEPT ![r] = Append(@, event)]
  /\ answer' = [answer EXCEPT ![r] = [code |-> code, warning |-> warning]]
  /\ Goto(r, "reply")

\* An early return: an event without a verdict, and an error status.
Refuse(r, type, code) == EmitAndReply(r, Event(type, "none", code), code, FALSE)

\* The response a verdict leads to.
Respond(r, v, eventCode) ==
  EmitAndReply(r, Event("package_verdict", v, eventCode),
               IF v = "block" THEN 403 ELSE 200, v = "warn")

-----------------------------------------------------------------------------
(* OSVChecker.Check, called by the handler and by the worker.              *)

\* Slip: the key of the OSV cache names the digest instead of the package.
OsvGetByDigest(c) ==
  /\ pc[c] = "osv_get"
  /\ \E p \in Pkgs :
       /\ ShaOf[p] = ShaOf[pkg[c]]
       /\ IF osvCache[p] # "none"
          THEN osv' = [osv EXCEPT ![c] = osvCache[p]] /\ Goto(c, "decide")
          ELSE Goto(c, "osv_query") /\ UNCHANGED osv
  /\ UNCHANGED <<outside, redis, pkg, request, worker, faults, restarts>>

OsvGet(c) ==
  /\ pc[c] = "osv_get"
  /\ \/ /\ osvCache[pkg[c]] # "none"
        /\ osv' = [osv EXCEPT ![c] = osvCache[pkg[c]]]
        /\ Goto(c, "decide")
        /\ NoFault
     \/ /\ (osvCache[pkg[c]] = "none" /\ NoFault) \/ Fault
        /\ Goto(c, "osv_query")
        /\ UNCHANGED osv
  /\ UNCHANGED <<outside, redis, pkg, request, worker, restarts>>

\* Slip: no return after a failed query, so that SetOSV caches the failure.
OsvQueryCachesErrors(c) ==
  /\ pc[c] = "osv_query"
  /\ \/ osv' = [osv EXCEPT ![c] = IF pkg[c] \in osvDB THEN "1" ELSE "0"] /\ NoFault
     \/ osv' = [osv EXCEPT ![c] = "err"] /\ Fault
  /\ Goto(c, "osv_set")
  /\ UNCHANGED <<outside, redis, pkg, request, worker, restarts>>

OsvQuery(c) ==
  /\ pc[c] = "osv_query"
  /\ \/ /\ osv' = [osv EXCEPT ![c] = IF pkg[c] \in osvDB THEN "1" ELSE "0"]
        /\ Goto(c, "osv_set")
        /\ NoFault
     \/ /\ osv' = [osv EXCEPT ![c] = "err"]
        /\ Goto(c, "decide")
        /\ Fault
  /\ UNCHANGED <<outside, redis, pkg, request, worker, restarts>>

OsvSet(c) ==
  /\ pc[c] = "osv_set"
  /\ \/ osvCache' = [osvCache EXCEPT ![pkg[c]] = osv[c]] /\ NoFault
     \/ Fault /\ UNCHANGED osvCache
  /\ Goto(c, "decide")
  /\ UNCHANGED <<outside, verdicts, pkg, osv, request, worker, restarts>>

-----------------------------------------------------------------------------
(* The request handler.                                                    *)

\* ServeHTTP: anything but a tarball GET is passed to the registry unseen.
PassThrough(r) ==
  /\ pc[r] = "idle"
  /\ Goto(r, "done")
  /\ UNCHANGED <<outside, redis, pkg, osv, request, worker, faults, restarts>>

Arrive(r) ==
  /\ pc[r] = "idle"
  /\ Goto(r, "meta")
  /\ UNCHANGED <<outside, redis, pkg, osv, request, worker, faults, restarts>>

FetchPackageMeta(r) ==
  /\ pc[r] = "meta"
  /\ \/ Goto(r, "osv_get") /\ NoFault /\ UNCHANGED <<events, answer>>
     \/ \* the registry no longer lists the requested version: no event
        /\ answer' = [answer EXCEPT ![r] = [code |-> 404, warning |-> FALSE]]
        /\ Goto(r, "reply")
        /\ NoFault
        /\ UNCHANGED events
     \/ Fault /\ Refuse(r, "upstream_down", 502)
  /\ UNCHANGED <<outside, redis, pkg, osv, decision, worker, restarts>>

\* Slip: a failed OSV query counts as a positive answer.
CondemnedOnError(c) == osv[c] \in {"1", "err"} \/ pkg[c] \in TypoBlocks

\* The evidence Layer 1 condemns the package on, if every append survives.
Condemned(c) == osv[c] = "1" \/ pkg[c] \in TypoBlocks

\* Slip: OSV's signal is an ordinary score and not a veto.
Layer1VerdictsNoVeto(r) == UpTo(Layer1Max[pkg[r]])

\* The verdicts Layer 1 can reach: the concurrent appends may overwrite the
\* decisive signal when there is another one.
Layer1Verdicts(r) ==
  IF Condemned(r) /\ pkg[r] \notin Noisy
  THEN {"block"}
  ELSE UpTo(Layer1Max[pkg[r]]) \union (IF Condemned(r) THEN {"block"} ELSE {})

Layer1Decide(r) ==
  /\ pc[r] = "decide"
  /\ \E v \in Layer1Verdicts(r) :
       /\ decision' = [decision EXCEPT ![r] = v]
       /\ \/ v = "block" /\ Respond(r, v, 403)
          \/ v # "block" /\ Goto(r, "fetch") /\ UNCHANGED <<events, answer>>
  /\ UNCHANGED <<outside, redis, pkg, osv, worker, faults, restarts>>

\* FetchTarball and integrity.Verify.
FetchTarball(r) ==
  /\ pc[r] = "fetch"
  /\ \/ Goto(r, "lookup") /\ NoFault /\ UNCHANGED <<events, answer>>
     \/ Fault /\ Refuse(r, "upstream_down", 502)
     \/ Fault /\ Refuse(r, "integrity_mismatch", 403)
  /\ UNCHANGED <<outside, redis, pkg, osv, decision, worker, restarts>>

Sha(r) == ShaOf[pkg[r]]

\* Slip: respondFromCache without its event.
GetVerdictSilent(r) ==
  /\ pc[r] = "lookup"
  /\ \/ /\ verdicts[Sha(r)] # NoEntry
        /\ LET v == verdicts[Sha(r)].verdict IN
             answer' = [answer EXCEPT ![r] = [code |-> IF v = "block" THEN 403 ELSE 200,
                                              warning |-> v = "warn"]]
        /\ Goto(r, "reply")
     \/ /\ verdicts[Sha(r)] = NoEntry
        /\ Goto(r, "analyze")
        /\ UNCHANGED answer
  /\ UNCHANGED <<outside, redis, pkg, osv, decision, events, worker, faults, restarts>>

\* A hit is answered from the entry; its event always carries code 200.
GetVerdict(r) ==
  /\ pc[r] = "lookup"
  /\ \/ /\ verdicts[Sha(r)] # NoEntry
        /\ Respond(r, verdicts[Sha(r)].verdict, 200)
        /\ NoFault
     \/ /\ (verdicts[Sha(r)] = NoEntry /\ NoFault) \/ Fault
        /\ Goto(r, "analyze")
        /\ UNCHANGED <<events, answer>>
  /\ UNCHANGED <<outside, redis, pkg, osv, decision, worker, restarts>>

\* Slip: extraction stops at its limit, and what was read is analysed.
AnalyzeTruncated(r) ==
  /\ pc[r] = "analyze"
  /\ \E v \in Between(decision[r], pkg[r]) : decision' = [decision EXCEPT ![r] = v]
  /\ Goto(r, "store")
  /\ UNCHANGED <<outside, redis, pkg, osv, events, answer, worker, faults, restarts>>

\* Extract, Analyze under its timeout, and the decision on all signals.
Analyze(r) ==
  /\ pc[r] = "analyze"
  /\ \/ /\ Sha(r) \in Oversized
        /\ Refuse(r, "resource_limit_exceeded", 403)
        /\ NoFault
        /\ UNCHANGED decision
     \/ /\ Sha(r) \notin Oversized
        /\ Fault
        /\ Refuse(r, "analysis_timeout", 403)
        /\ UNCHANGED decision
     \/ /\ Sha(r) \notin Oversized
        /\ \E v \in Between(decision[r], pkg[r]) :
             /\ NoHarsher(BytesVerdict[pkg[r]], v)
             /\ decision' = [decision EXCEPT ![r] = v]
        /\ Goto(r, "store")
        /\ NoFault
        /\ UNCHANGED <<events, answer>>
  /\ UNCHANGED <<outside, redis, pkg, osv, worker, restarts>>

\* Slip: the handler waits until the key is free.
StoreVerdictOnce(r) ==
  /\ pc[r] = "store"
  /\ verdicts[Sha(r)] = NoEntry
  /\ verdicts' = [verdicts EXCEPT ![Sha(r)] = [verdict |-> decision[r], pkg |-> pkg[r]]]
  /\ Goto(r, "emit")
  /\ UNCHANGED <<outside, osvCache, pkg, osv, request, worker, faults, restarts>>

\* SetVerdict: its error is dropped.
StoreVerdict(r) ==
  /\ pc[r] = "store"
  /\ \/ /\ verdicts' = [verdicts EXCEPT ![Sha(r)] =
                          [verdict |-> decision[r], pkg |-> pkg[r]]]
        /\ NoFault
     \/ Fault /\ UNCHANGED verdicts
  /\ Goto(r, "emit")
  /\ UNCHANGED <<outside, osvCache, pkg, osv, request, worker, restarts>>

EmitVerdict(r) ==
  /\ pc[r] = "emit"
  /\ Respond(r, decision[r], IF decision[r] = "block" THEN 403 ELSE 200)
  /\ UNCHANGED <<outside, redis, pkg, osv, decision, worker, faults, restarts>>

Reply(r) ==
  /\ pc[r] = "reply"
  /\ Goto(r, "done")
  /\ UNCHANGED <<outside, redis, pkg, osv, request, worker, faults, restarts>>

HandlerStep(r) ==
  \/ FetchPackageMeta(r)
  \/ OsvGet(r) \/ OsvQuery(r) \/ OsvSet(r)
  \/ Layer1Decide(r)
  \/ FetchTarball(r)
  \/ GetVerdict(r)
  \/ Analyze(r)
  \/ StoreVerdict(r)
  \/ EmitVerdict(r)
  \/ Reply(r)

-----------------------------------------------------------------------------
(* The recheck worker.                                                     *)

Listed(s) ==
  /\ verdicts[s] # NoEntry
  /\ verdicts[s].verdict \in (IF WarnOnly THEN {"warn"} ELSE {"warn", "allow"})

\* The timer or the ticker fires: runOnce starts ListVerdicts.
Tick ==
  /\ pc[Worker] = "idle"
  /\ unvisited' = Shas
  /\ Goto(Worker, "scan")
  /\ UNCHANGED <<outside, redis, pkg, osv, request, todo, current,
                 faults, restarts>>

BatchFull == BatchSize > 0 /\ Cardinality(todo) >= BatchSize

\* SCAN returns a key and GET reads it, at some moment of its own; a key whose
\* GET fails is skipped.  BatchSize 0 is no limit.
ScanKey(s) ==
  /\ pc[Worker] = "scan"
  /\ s \in unvisited
  /\ ~BatchFull
  /\ \/ /\ Listed(s) /\ NoFault
        /\ todo' = todo \union {[sha |-> s, entry |-> verdicts[s]]}
     \/ /\ (~Listed(s) /\ NoFault) \/ Fault
        /\ UNCHANGED todo
  /\ unvisited' = unvisited \ {s}
  /\ UNCHANGED <<outside, redis, pc, pkg, osv, request, current, restarts>>

\* The list is complete or full, or SCAN fails and runOnce gives up.
ListDone ==
  /\ pc[Worker] = "scan"
  /\ \/ /\ unvisited = {} \/ BatchFull
        /\ Goto(Worker, "next")
        /\ NoFault
        /\ UNCHANGED todo
     \/ /\ unvisited # {}
        /\ Fault
        /\ Goto(Worker, "idle")
        /\ todo' = {}
  /\ unvisited' = {}
  /\ UNCHANGED <<outside, redis, pkg, osv, request, current, restarts>>

RoundDone ==
  /\ pc[Worker] = "next"
  /\ todo = {}
  /\ Goto(Worker, "idle")
  /\ UNCHANGED <<outside, redis, pkg, osv, request, worker, faults, restarts>>

\* Slip: the OSV key is left in place.
InvalidateNothing(ce) ==
  /\ pc[Worker] = "next"
  /\ ce \in todo
  /\ todo' = todo \ {ce}
  /\ current' = ce.sha
  /\ pkg' = [pkg EXCEPT ![Worker] = ce.entry.pkg]
  /\ osv' = [osv EXCEPT ![Worker] = "none"]
  /\ Goto(Worker, "osv_get")
  /\ UNCHANGED <<outside, redis, request, unvisited, faults, restarts>>

\* recheckOne takes the next entry and drops its OSV key, if Redis lets it.
Invalidate(ce) ==
  /\ pc[Worker] = "next"
  /\ ce \in todo
  /\ todo' = todo \ {ce}
  /\ current' = ce.sha
  /\ pkg' = [pkg EXCEPT ![Worker] = ce.entry.pkg]
  /\ osv' = [osv EXCEPT ![Worker] = "none"]
  /\ \/ osvCache' = [osvCache EXCEPT ![ce.entry.pkg] = "none"] /\ NoFault
     \/ Fault /\ UNCHANGED osvCache
  /\ Goto(Worker, "osv_get")
  /\ UNCHANGED <<outside, verdicts, request, unvisited, restarts>>

\* Only a block is written back, over whatever the key holds by then.
RecheckDecide ==
  /\ pc[Worker] = "decide"
  /\ \/ /\ Condemned(Worker)
        /\ verdicts' = [verdicts EXCEPT ![current] =
                          [verdict |-> "block", pkg |-> pkg[Worker]]]
        /\ Goto(Worker, "emit")
        /\ NoFault
     \/ /\ (~Condemned(Worker) /\ NoFault) \/ (Condemned(Worker) /\ Fault)
        /\ Goto(Worker, "next")
        /\ UNCHANGED verdicts
  /\ UNCHANGED <<outside, osvCache, pkg, osv, request, unvisited, todo, current,
                 restarts>>

EmitUpgrade ==
  /\ pc[Worker] = "emit"
  /\ Goto(Worker, "next")
  /\ UNCHANGED <<outside, redis, pkg, osv, request, unvisited, todo, current,
                 faults, restarts>>

WorkerStep ==
  \/ Tick
  \/ \E s \in Shas : ScanKey(s)
  \/ ListDone
  \/ RoundDone
  \/ \E ce \in todo : Invalidate(ce)
  \/ OsvGet(Worker) \/ OsvQuery(Worker) \/ OsvSet(Worker)
  \/ RecheckDecide
  \/ EmitUpgrade

-----------------------------------------------------------------------------
(* What happens around the process.                                        *)

Publish(p) ==
  /\ p \notin osvDB
  /\ osvDB' = osvDB \union {p}
  /\ everPublished' = everPublished \union {p}
  /\ UNCHANGED <<redis, pc, pkg, osv, request, worker, faults, restarts>>

Withdraw(p) ==
  /\ p \in osvDB
  /\ osvDB' = osvDB \ {p}
  /\ UNCHANGED <<everPublished, redis, pc, pkg, osv, request, worker, faults, restarts>>

\* TTLs; a Redis restart, which keeps nothing, is all of them at once.
ExpireOsv(p) ==
  /\ osvCache[p] # "none"
  /\ osvCache' = [osvCache EXCEPT ![p] = "none"]
  /\ UNCHANGED <<outside, verdicts, pc, pkg, osv, request, worker, faults, restarts>>

ExpireVerdict(s) ==
  /\ verdicts[s] # NoEntry
  /\ verdicts' = [verdicts EXCEPT ![s] = NoEntry]
  /\ UNCHANGED <<outside, osvCache, pc, pkg, osv, request, worker, faults, restarts>>

\* The proxy process dies and is started again: requests in flight are lost,
\* the worker begins afresh, Redis keeps what it has.
Restart ==
  /\ restarts < MaxRestarts
  /\ restarts' = restarts + 1
  /\ pc' = [c \in Callers |-> CASE c = Worker -> "idle"
                               [] c # Worker /\ pc[c] \in {"idle", "done"} -> pc[c]
                               [] OTHER -> "aborted"]
  /\ unvisited' = {}
  /\ todo' = {}
  /\ UNCHANGED <<outside, redis, pkg, osv, request, current, faults>>

Environment ==
  \/ \E p \in Pkgs : Publish(p) \/ Withdraw(p) \/ ExpireOsv(p)
  \/ \E s \in Shas : ExpireVerdict(s)
  \/ Restart

-----------------------------------------------------------------------------
SomePkg == CHOOSE p \in Pkgs : TRUE

\* Which package each client will ask for is fixed, and arbitrary.
Init ==
  /\ osvDB \in SUBSET Pkgs
  /\ everPublished = osvDB
  /\ osvCache = [p \in Pkgs |-> "none"]
  /\ verdicts = [s \in Shas |-> NoEntry]
  /\ pc = [c \in Callers |-> "idle"]
  /\ pkg \in [Callers -> Pkgs] /\ pkg[Worker] = SomePkg
  /\ osv = [c \in Callers |-> "none"]
  /\ decision = [r \in Reqs |-> "allow"]
  /\ events = [r \in Reqs |-> <<>>]
  /\ answer = [r \in Reqs |-> [code |-> 0, warning |-> FALSE]]
  /\ unvisited = {}
  /\ todo = {}
  /\ current = ShaOf[SomePkg]
  /\ faults = 0
  /\ restarts = 0

Next ==
  \/ \E r \in Reqs : PassThrough(r) \/ Arrive(r) \/ HandlerStep(r)
  \/ WorkerStep
  \/ Environment

\* Every call of the handler and of the worker has a timeout, so each of their
\* steps is eventually taken; the ticker never stops.  Clients, advisories and
\* expiry owe nothing.
Fairness ==
  /\ \A r \in Reqs : WF_vars(HandlerStep(r))
  /\ WF_vars(WorkerStep)

Spec == Init /\ [][Next]_vars

FairSpec == Spec /\ Fairness

-----------------------------------------------------------------------------
(* Properties.                                                             *)

HandlerLabels == {"idle", "meta", "osv_get", "osv_query", "osv_set", "decide", "fetch",
                  "lookup", "analyze", "store", "emit", "reply", "done", "aborted"}
WorkerLabels  == {"idle", "scan", "next", "osv_get", "osv_query", "osv_set",
                  "decide", "emit"}

EventTypes == {"package_verdict", "upstream_down", "integrity_mismatch",
               "resource_limit_exceeded", "analysis_timeout"}

EventRecord == [type : EventTypes, verdict : Verdicts \union {"none"},
                code : {200, 403, 502}]

Answer == [code : {0, 200, 403, 404, 502}, warning : BOOLEAN]

CachedVerdict == [sha : Shas, entry : Entry]

\* Every variable stays in its type.
TypeOK ==
  /\ osvDB \subseteq Pkgs
  /\ everPublished \subseteq Pkgs
  /\ osvCache \in [Pkgs -> {"none", "0", "1"}]
  /\ verdicts \in [Shas -> Entry \union {NoEntry}]
  /\ pc \in [Callers -> HandlerLabels \union WorkerLabels]
  /\ \A r \in Reqs : pc[r] \in HandlerLabels
  /\ pc[Worker] \in WorkerLabels
  /\ pkg \in [Callers -> Pkgs]
  /\ osv \in [Callers -> {"none", "0", "1", "err"}]
  /\ \A c \in Callers : pc[c] = "osv_set" => osv[c] \in {"0", "1"}
  /\ decision \in [Reqs -> Verdicts]
  /\ events \in [Reqs -> Seq(EventRecord)]
  /\ answer \in [Reqs -> Answer]
  /\ unvisited \subseteq Shas
  /\ todo \subseteq CachedVerdict
  /\ current \in Shas
  /\ faults \in Nat
  /\ restarts \in Nat

\* "Vulnerable" is never made up: a positive OSV answer, cached or held by a
\* handler or the worker across its own calls, goes back to an advisory.
OsvCacheSound ==
  /\ \A p \in Pkgs : osvCache[p] = "1" => p \in everPublished
  /\ \A c \in Callers : osv[c] = "1" => pkg[c] \in everPublished

\* The least verdict the evidence in the bytes of s can justify for some package
\* made of them, and whether anything about such a package justifies a block.
Permitted(s, v) ==
  \E p \in Pkgs : ShaOf[p] = s /\ NoHarsher(BytesVerdict[p], v)

BlockJustified(s) ==
  \E p \in Pkgs : ShaOf[p] = s /\ (FullVerdict[p] = "block" \/ p \in everPublished)

Justified(s, v) ==
  IF v = "block" THEN BlockJustified(s) ELSE Permitted(s, v) /\ s \notin Oversized

\* A cached verdict is one the analysis, or an advisory, of a package with those
\* very bytes can justify, whoever wrote it: handlers and worker write late,
\* from what they read before, over each other's entries.
CachedVerdictJustified ==
  \A s \in Shas : verdicts[s] # NoEntry =>
    /\ ShaOf[verdicts[s].pkg] = s
    /\ Justified(s, verdicts[s].verdict)

SentJustified(r) ==
  /\ answer[r].code = 200 =>
       /\ Permitted(Sha(r), IF answer[r].warning THEN "warn" ELSE "allow")
       /\ Sha(r) \notin Oversized
  /\ \A i \in 1 .. Len(events[r]) :
       events[r][i].verdict = "block" => BlockJustified(Sha(r))

\* What a client gets is justified the same way, through the cache or not:
\* bytes are handed over only at the level of warning they permit, and refused
\* by verdict only on some evidence for a block.
AnswerJustified == \A r \in Reqs : SentJustified(r)

\* A handler that heard of an advisory hands nothing over, unless a concurrent
\* append overwrote the veto.
VetoAnswerBlocks ==
  \A r \in Reqs : osv[r] = "1" /\ pkg[r] \notin Noisy => answer[r].code # 200

EventFaithful(r) ==
  IF answer[r].code = 404
  THEN events[r] = <<>>
  ELSE /\ Len(events[r]) = 1
       /\ events[r][1].type = "package_verdict" =>
            /\ (answer[r].code = 403) = (events[r][1].verdict = "block")
            /\ answer[r].warning = (events[r][1].verdict = "warn")
       /\ events[r][1].type # "package_verdict" => answer[r].code # 200

\* The SIEM hears exactly once of every answered tarball request, before the
\* client does, and hears the truth: a block event for a block and no other.
\* Only a version the registry no longer lists is refused in silence.
EventMatchesAnswer == \A r \in Reqs : pc[r] = "reply" => EventFaithful(r)

\* The proxy is a gate: every request is answered once, with the event that tells
\* the truth about it, on evidence that holds at that moment, although verdicts
\* come from a cache that others write and a failure may strike at any call
\* (handler.go handleTarball, respondFromCache, emitEvent).
Gate == INSTANCE Gate WITH
  published <- everPublished, asked <- [r \in Reqs |-> pkg[r]],
  events <- events, answer <- answer

GateSpec == Gate!Spec

\* A request that is being handled is answered, or lost with the process.
EveryRequestAnswered ==
  \A r \in Reqs : pc[r] \notin {"idle", "done", "aborted"} ~> pc[r] \in {"done", "aborted"}

\* No entry the worker may revisit stays while OSV or the typosquat list condemns
\* its package: some round turns it into a block, although handlers may put stale
\* OSV answers and stale verdicts back in between.
RecheckDue(s) == Listed(s) /\ verdicts[s].pkg \in osvDB \union TypoBlocks

DueEntryUpgraded == \A s \in Shas : RecheckDue(s) ~> ~RecheckDue(s)

\* proxy.yaml:92: the worker "rescans cached warn verdicts to catch newly published
\* OSV advisories": when the advisories stay as they are, no entry they condemn
\* stays a warning, however many entries are cached.
EveryVerdictRescanned == <>[][FALSE]_osvDB => DueEntryUpgraded

\* worker.go:114: the next OSV query of the worker goes to the network rather
\* than returning a stale "clean" result: a cached "clean" it takes is what the
\* network would have said.
RecheckNeverStale ==
  [][pc[Worker] = "osv_get" /\ pc'[Worker] = "decide" /\ osv'[Worker] = "0"
       => pkg[Worker] \notin osvDB]_vars
=============================================================================
