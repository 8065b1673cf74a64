-------------------------------- MODULE Siem --------------------------------
(***************************************************************************)
(* The SIEM emitter (internal/siem/emitter.go) with those who call it and  *)
(* the shutdown that closes it (cmd/proxy/main.go).  Handlers and the      *)
(* recheck worker emit into a buffered channel; one goroutine takes the    *)
(* events out and offers each to every sink in turn.  On a signal main     *)
(* stops the worker's context, waits for the handlers for as long as       *)
(* Shutdown is given, closes the channel and returns.                      *)
(*                                                                         *)
(* An event is named by its rank in the order of the calls of Emit.        *)
(***************************************************************************)
EXTENDS Naturals, Sequences, FiniteSets, Functions

CONSTANTS
  Requests,     \* tarball requests, one goroutine each
  Worker,       \* the recheck worker
  Mode,         \* siem.mode
  SyslogAddr,   \* whether siem.syslog_addr is set
  WebhookURL,   \* whether siem.webhook_url is set
  BufSize,      \* siem.buffer_size
  MaxUpgrades   \* bound: upgrades the worker makes in one behaviour

Producers == Requests \union {Worker}

Sinks == {"syslog", "webhook", "stderr"}

ASSUME EmitterAssumption ==
  /\ Worker \notin Requests
  /\ SyslogAddr \in BOOLEAN
  /\ WebhookURL \in BOOLEAN
  /\ BufSize \in Nat
  /\ MaxUpgrades \in Nat

VARIABLES
  sinks,     \* m.emitters
  emitted,   \* calls of Emit so far
  queue,     \* m.ch
  open,      \* m.ch is not closed
  inHand,    \* the event run() is offering, 0 when it waits for one
  next,      \* index in sinks of the sink it will be offered to
  got,       \* history: what each sink received, in order
  missed,    \* history: what each sink failed to take
  dropped,   \* history: events that met a full buffer
  stage,     \* where each request and the worker are
  main,      \* where main is
  graceOver, \* Shutdown gave up waiting
  upgrades   \* upgrades so far

emitter == <<sinks, queue, open, inHand, next, got, missed, dropped>>
vars    == <<emitter, emitted, stage, main, graceOver, upgrades>>

Running == main # "exited"

Goto(p, l) == stage' = [stage EXCEPT ![p] = l]

-----------------------------------------------------------------------------
(* The emitter. *)

UseSyslog(dialled) == Mode \in {"syslog", "both"} /\ SyslogAddr /\ dialled
UseWebhook         == Mode \in {"webhook", "both"} /\ WebhookURL

\* The list New builds; stderr stands in only for an empty one.
Emitters(dialled) ==
  IF UseSyslog(dialled)
  THEN IF UseWebhook THEN <<"syslog", "webhook">> ELSE <<"syslog">>
  ELSE IF UseWebhook THEN <<"webhook">> ELSE <<"stderr">>

\* Without a buffer an event can only be handed to a run() that is waiting.
CanSend == Len(queue) < BufSize \/ (BufSize = 0 /\ queue = <<>> /\ inHand = 0)

\* Slip: a slice instead of a channel, without its capacity.
EnqueueAlways(e) == queue' = Append(queue, e) /\ UNCHANGED dropped

Enqueue(e) ==
  /\ CanSend
  /\ queue' = Append(queue, e)
  /\ UNCHANGED dropped

Drop(e) ==
  /\ Len(queue) >= BufSize
  /\ dropped' = dropped \union {e}
  /\ UNCHANGED queue

\* Slip: a plain send, which waits for room.
SendBlocking ==
  /\ open
  /\ emitted' = emitted + 1
  /\ Enqueue(emitted')
  /\ UNCHANGED <<sinks, open, inHand, next, got, missed>>

\* Emit while the channel is open: it never waits.
Send ==
  /\ open
  /\ emitted' = emitted + 1
  /\ Enqueue(emitted') \/ Drop(emitted')
  /\ UNCHANGED <<sinks, open, inHand, next, got, missed>>

\* Slip: events are taken out in full batches.
TakeFullBatch ==
  /\ Running
  /\ inHand = 0
  /\ queue # <<>> /\ Len(queue) >= BufSize
  /\ inHand' = Head(queue)
  /\ queue' = Tail(queue)
  /\ next' = 1
  /\ UNCHANGED <<sinks, emitted, open, got, missed, dropped, stage, main, graceOver, upgrades>>

\* run(): the next event of the channel, closed or not.
Take ==
  /\ Running
  /\ inHand = 0
  /\ queue # <<>>
  /\ inHand' = Head(queue)
  /\ queue' = Tail(queue)
  /\ next' = 1
  /\ UNCHANGED <<sinks, emitted, open, got, missed, dropped, stage, main, graceOver, upgrades>>

\* Slip: run() leaves the inner loop at the first error.
OfferUntilError ==
  /\ Running
  /\ inHand # 0
  /\ LET k == sinks[next] IN
       \/ /\ got' = [got EXCEPT ![k] = Append(@, inHand)]
          /\ inHand' = IF next = Len(sinks) THEN 0 ELSE inHand
          /\ UNCHANGED missed
       \/ /\ missed' = [missed EXCEPT ![k] = @ \union {inHand}]
          /\ inHand' = 0
          /\ UNCHANGED got
  /\ next' = next + 1
  /\ UNCHANGED <<sinks, emitted, queue, open, dropped, stage, main, graceOver, upgrades>>

\* Slip: an event a sink did not take is put back at the end of the queue.
OfferAgain ==
  /\ Running
  /\ inHand # 0
  /\ LET k == sinks[next] IN
       \/ got' = [got EXCEPT ![k] = Append(@, inHand)] /\ UNCHANGED queue
       \/ queue' = Append(queue, inHand) /\ UNCHANGED got
  /\ next' = next + 1
  /\ inHand' = IF next = Len(sinks) THEN 0 ELSE inHand
  /\ UNCHANGED <<sinks, emitted, open, missed, dropped, stage, main, graceOver, upgrades>>

\* run(): a sink takes the event or returns an error, which is logged.
Offer ==
  /\ Running
  /\ inHand # 0
  /\ LET k == sinks[next] IN
       \/ /\ got' = [got EXCEPT ![k] = Append(@, inHand)]
          /\ UNCHANGED missed
       \/ /\ k # "stderr"
          /\ missed' = [missed EXCEPT ![k] = @ \union {inHand}]
          /\ UNCHANGED got
  /\ next' = next + 1
  /\ inHand' = IF next = Len(sinks) THEN 0 ELSE inHand
  /\ UNCHANGED <<sinks, emitted, queue, open, dropped, stage, main, graceOver, upgrades>>

-----------------------------------------------------------------------------
(* Those who emit. *)

Arrive(r) ==
  /\ main = "serving"
  /\ stage[r] = "idle"
  /\ Goto(r, "busy")
  /\ UNCHANGED <<emitter, emitted, main, graceOver, upgrades>>

\* The outcome of the request: an event will tell of it, unless the registry does
\* not list the version.
Decide(r) ==
  /\ Running
  /\ stage[r] = "busy"
  /\ Goto(r, "emit") \/ Goto(r, "reply")
  /\ UNCHANGED <<emitter, emitted, main, graceOver, upgrades>>

HandlerEmit(r) ==
  /\ Running
  /\ stage[r] = "emit"
  /\ Send
  /\ Goto(r, "reply")
  /\ UNCHANGED <<main, graceOver, upgrades>>

\* Sending on the closed channel panics; net/http aborts that request only.
HandlerPanic(r) ==
  /\ Running
  /\ ~open
  /\ stage[r] = "emit"
  /\ Goto(r, "aborted")
  /\ UNCHANGED <<emitter, emitted, main, graceOver, upgrades>>

Reply(r) ==
  /\ Running
  /\ stage[r] = "reply"
  /\ Goto(r, "done")
  /\ UNCHANGED <<emitter, emitted, main, graceOver, upgrades>>

HandlerStep(r) ==
  Decide(r) \/ HandlerEmit(r) \/ HandlerPanic(r) \/ Reply(r)

\* The worker is in recheckOne, its SetVerdict on the way.
Recheck ==
  /\ main = "serving"
  /\ stage[Worker] = "idle"
  /\ upgrades < MaxUpgrades
  /\ upgrades' = upgrades + 1
  /\ Goto(Worker, "busy")
  /\ UNCHANGED <<emitter, emitted, main, graceOver>>

\* SetVerdict fails, as it does once its context is cancelled or Redis closed.
RecheckFails ==
  /\ Running
  /\ stage[Worker] = "busy"
  /\ Goto(Worker, "idle")
  /\ UNCHANGED <<emitter, emitted, main, graceOver, upgrades>>

SetVerdict ==
  /\ Running
  /\ stage[Worker] = "busy"
  /\ Goto(Worker, "stored")
  /\ UNCHANGED <<emitter, emitted, main, graceOver, upgrades>>

WorkerEmit ==
  /\ Running
  /\ stage[Worker] = "stored"
  /\ Send
  /\ Goto(Worker, "idle")
  /\ UNCHANGED <<main, graceOver, upgrades>>

\* Nobody recovers a panic of the worker: the process dies of it.
WorkerPanic ==
  /\ Running
  /\ ~open
  /\ stage[Worker] = "stored"
  /\ main' = "exited"
  /\ UNCHANGED <<emitter, emitted, stage, graceOver, upgrades>>

WorkerStep == RecheckFails \/ SetVerdict \/ WorkerEmit \/ WorkerPanic

-----------------------------------------------------------------------------
(* main. *)

Signal ==
  /\ main = "serving"
  /\ main' = "draining"
  /\ UNCHANGED <<emitter, emitted, stage, graceOver, upgrades>>

Active == {r \in Requests : stage[r] \in {"busy", "emit", "reply"}}

\* Slip: the server is closed instead of shut down.
ShutdownAtOnce ==
  /\ main = "draining"
  /\ main' = "closing"
  /\ UNCHANGED <<emitter, emitted, stage, graceOver, upgrades>>

\* Shutdown returns when no request is active, or after its 15 seconds.
ShutdownReturns ==
  /\ main = "draining"
  /\ main' = "closing"
  /\ graceOver' = (Active # {})
  /\ UNCHANGED <<emitter, emitted, stage, upgrades>>

\* Slip: Close waits until run() has delivered what is buffered.
CloseDrained ==
  /\ main = "closing"
  /\ queue = <<>> /\ inHand = 0
  /\ open' = FALSE
  /\ main' = "closed"
  /\ UNCHANGED <<sinks, emitted, queue, inHand, next, got, missed, dropped, stage,
                 graceOver, upgrades>>

\* The deferred Close.
Close ==
  /\ main = "closing"
  /\ open' = FALSE
  /\ main' = "closed"
  /\ UNCHANGED <<sinks, emitted, queue, inHand, next, got, missed, dropped, stage,
                 graceOver, upgrades>>

Exit ==
  /\ main = "closed"
  /\ main' = "exited"
  /\ UNCHANGED <<emitter, emitted, stage, graceOver, upgrades>>

MainStep == ShutdownReturns \/ Close \/ Exit

-----------------------------------------------------------------------------
Init ==
  /\ \E dialled \in BOOLEAN : sinks = Emitters(dialled)
  /\ emitted = 0
  /\ queue = <<>>
  /\ open = TRUE
  /\ inHand = 0
  /\ next = 1
  /\ got = [k \in Sinks |-> <<>>]
  /\ missed = [k \in Sinks |-> {}]
  /\ dropped = {}
  /\ stage = [p \in Producers |-> "idle"]
  /\ main = "serving"
  /\ graceOver = FALSE
  /\ upgrades = 0

Next ==
  \/ Take \/ Offer
  \/ \E r \in Requests : Arrive(r) \/ HandlerStep(r)
  \/ Recheck \/ WorkerStep
  \/ Signal \/ MainStep

Spec == Init /\ [][Next]_vars

\* Every call a handler waits for has a timeout, Shutdown has its 15 seconds.
\* Nothing is assumed of the sinks: the syslog connection has no deadline.
FairCallers ==
  /\ \A r \in Requests : WF_vars(HandlerStep(r))
  /\ WF_vars(MainStep)

FairSpec == Spec /\ FairCallers

\* What a webhook, with its timeout of 5 seconds, and stderr do assure.
SinksReturn == WF_vars(Take) /\ WF_vars(Offer)

-----------------------------------------------------------------------------
(* Properties. *)

Stages == {"idle", "busy", "emit", "stored", "reply", "done", "aborted"}

Ranks == 1 .. emitted

\* Every variable stays in its type; the channel holds no more than it can.
TypeOK ==
  /\ sinks \in Seq(Sinks) /\ sinks # <<>>
  /\ emitted \in Nat
  /\ queue \in Seq(Ranks)
  /\ Len(queue) <= BufSize \/ (BufSize = 0 /\ Len(queue) = 1)
  /\ open \in BOOLEAN
  /\ inHand \in Ranks \union {0}
  /\ next \in Nat /\ next >= 1
  /\ inHand # 0 => next <= Len(sinks)
  /\ got \in [Sinks -> Seq(Ranks)]
  /\ missed \in [Sinks -> SUBSET Ranks]
  /\ dropped \subseteq Ranks
  /\ stage \in [Producers -> Stages]
  /\ main \in {"serving", "draining", "closing", "closed", "exited"}
  /\ graceOver \in BOOLEAN
  /\ upgrades \in Nat

Offered(k) == Range(got[k]) \union missed[k]

\* Events not yet offered to the j-th sink.
Awaiting(j) == Range(queue) \union (IF inHand # 0 /\ next <= j THEN {inHand} ELSE {})

\* No event vanishes: whatever Emit was called with was dropped at a full buffer,
\* or has been offered to every sink, failures of other sinks notwithstanding, or
\* still will be; and only one of these.
NoEventVanishes ==
  \A j \in 1 .. Len(sinks) :
    /\ Ranks = dropped \union Offered(sinks[j]) \union Awaiting(j)
    /\ dropped \intersect (Offered(sinks[j]) \union Awaiting(j)) = {}
    /\ Offered(sinks[j]) \intersect Awaiting(j) = {}

\* The emitter keeps what a SIEM may rely on: order, and no event twice.
Feed == INSTANCE EventFeed WITH Sinks <- Sinks, emitted <- emitted, got <- got

FeedSpec == Feed!Spec

\* Closing the channel aborts no request that Shutdown could still wait for.
AbortOnlyAfterGrace == \A r \in Requests : stage[r] = "aborted" => graceOver

\* However stuck the sinks are, a request that is being handled is answered, or
\* the process ends; and a signal ends it.
NobodyWaitsForSinks ==
  /\ \A r \in Requests :
       stage[r] = "busy" ~> (stage[r] \in {"done", "aborted"} \/ main = "exited")
  /\ main = "draining" ~> main = "exited"

\* As long as the sinks answer or fail, an event in the buffer is offered to every
\* sink, unless the process ends first.
BufferedEventOffered ==
  SinksReturn =>
    \A e \in 1 .. Cardinality(Requests) + MaxUpgrades :
      e \in Range(queue) ~>
        (main = "exited" \/ \A j \in 1 .. Len(sinks) : e \in Offered(sinks[j]))
=============================================================================
