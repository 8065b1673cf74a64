----------------------------- MODULE SiemProofs -----------------------------
(***************************************************************************)
(* For every number of requests, every buffer size and every list of       *)
(* sinks: the emitter keeps the order of events (it implements EventFeed), *)
(* no event vanishes unless the buffer was full, and no request is aborted *)
(* while Shutdown could still wait for it.                                 *)
(***************************************************************************)
EXTENDS Siem, TLAPS

USE DEF emitter, vars

LEMMA SeqMonotone ==
  ASSUME NEW S, NEW T, S \subseteq T, NEW s \in Seq(S)
  PROVE  s \in Seq(T)
  OBVIOUS

LEMMA RanksGrow ==
  ASSUME emitted \in Nat, emitted' = emitted + 1
  PROVE  Ranks \subseteq Ranks' /\ emitted' \in Ranks'
  BY DEF Ranks

\* New lists one or two distinct sinks.
LEMMA EmittersType ==
  ASSUME NEW dialled
  PROVE  /\ Emitters(dialled) \in Seq(Sinks)
         /\ Emitters(dialled) # <<>>
         /\ \A i, j \in 1 .. Len(Emitters(dialled)) :
              i # j => Emitters(dialled)[i] # Emitters(dialled)[j]
<1>1. CASE Emitters(dialled) \in {<<"syslog">>, <<"webhook">>, <<"stderr">>}
  <2>1. PICK k \in Sinks : Emitters(dialled) = <<k>>
    BY <1>1 DEF Sinks
  <2>2. QED
    BY <2>1
<1>2. CASE Emitters(dialled) = <<"syslog", "webhook">>
  BY <1>2 DEF Sinks
<1>3. QED
  BY <1>1, <1>2 DEF Emitters

\* Emit: a longer history, and the event in the buffer or dropped.
LEMMA SendType ==
  ASSUME TypeOK, Send
  PROVE  /\ emitted' \in Nat
         /\ queue' \in Seq(Ranks') /\ dropped' \subseteq Ranks'
         /\ Len(queue') <= BufSize \/ (BufSize = 0 /\ Len(queue') = 1)
         /\ inHand' \in Ranks' \union {0}
         /\ got' \in [Sinks -> Seq(Ranks')]
         /\ missed' \in [Sinks -> SUBSET Ranks']
<1>1. emitted' \in Nat /\ Ranks \subseteq Ranks' /\ emitted' \in Ranks'
  BY RanksGrow DEF TypeOK, Send
<1>2. queue \in Seq(Ranks') /\ dropped \subseteq Ranks'
  BY <1>1, SeqMonotone DEF TypeOK
<1>3. /\ queue' \in Seq(Ranks') /\ dropped' \subseteq Ranks'
      /\ Len(queue') <= BufSize \/ (BufSize = 0 /\ Len(queue') = 1)
  <2>1. CASE Enqueue(emitted')
    BY <1>1, <1>2, <2>1, EmitterAssumption DEF TypeOK, Enqueue, CanSend
  <2>2. CASE Drop(emitted')
    BY <1>1, <1>2, <2>2 DEF TypeOK, Drop
  <2>3. QED
    BY <2>1, <2>2 DEF Send
<1>4. inHand' \in Ranks' \union {0} /\ missed' \in [Sinks -> SUBSET Ranks']
  BY <1>1 DEF TypeOK, Send
<1>5. got' \in [Sinks -> Seq(Ranks')]
  <2>1. \A k \in Sinks : got[k] \in Seq(Ranks')
    BY <1>1, SeqMonotone DEF TypeOK
  <2>2. QED
    BY <2>1 DEF TypeOK, Send
<1>6. QED
  BY <1>1, <1>3, <1>4, <1>5

LEMMA StageType ==
  ASSUME TypeOK, NEW p \in Producers, NEW l \in Stages, stage' = [stage EXCEPT ![p] = l]
  PROVE  stage' \in [Producers -> Stages]
  BY DEF TypeOK

LEMMA InitType == Init => TypeOK
<1> SUFFICES ASSUME Init PROVE TypeOK
  OBVIOUS
<1>1. sinks \in Seq(Sinks) /\ sinks # <<>>
  BY EmittersType DEF Init
<1>2. /\ emitted \in Nat
      /\ queue \in Seq(Ranks) /\ Len(queue) <= BufSize
      /\ got \in [Sinks -> Seq(Ranks)] /\ missed \in [Sinks -> SUBSET Ranks]
  BY EmitterAssumption DEF Init
<1>3. stage \in [Producers -> Stages]
  BY DEF Init, Stages
<1>4. /\ open \in BOOLEAN /\ graceOver \in BOOLEAN
      /\ main \in {"serving", "draining", "closing", "closed", "exited"}
  BY DEF Init
<1>5. /\ inHand = 0 /\ next = 1 /\ dropped = {} /\ upgrades = 0
  BY DEF Init
<1>6. QED
  BY <1>1, <1>2, <1>3, <1>4, <1>5 DEF TypeOK

LEMMA RunType == TypeOK /\ (Take \/ Offer) => TypeOK'
<1> SUFFICES ASSUME TypeOK, Take \/ Offer PROVE TypeOK'
  OBVIOUS
<1>1. Ranks' = Ranks
  BY DEF Take, Offer, Ranks
<1>2. CASE Take
  <2>1. Head(queue) \in Ranks /\ Tail(queue) \in Seq(Ranks) /\ Len(Tail(queue)) <= Len(queue)
    BY <1>2 DEF TypeOK, Take
  <2>2. Len(queue') <= BufSize \/ (BufSize = 0 /\ Len(queue') = 1)
    BY <1>2, EmitterAssumption DEF TypeOK, Take
  <2>3. inHand' \in Ranks' \union {0} /\ queue' \in Seq(Ranks')
    BY <1>1, <1>2, <2>1 DEF Take
  <2>4. next' \in Nat /\ next' >= 1 /\ next' <= Len(sinks)
    BY <1>2 DEF TypeOK, Take
  <2>5. UNCHANGED <<sinks, emitted, open, got, missed, dropped, stage, main, graceOver, upgrades>>
    BY <1>2 DEF Take
  <2>6. QED
    BY <1>1, <2>2, <2>3, <2>4, <2>5 DEF TypeOK
<1>3. CASE Offer
  <2>1. sinks[next] \in Sinks /\ inHand \in Ranks
    BY <1>3 DEF TypeOK, Offer
  <2>2. got' \in [Sinks -> Seq(Ranks')]
    <3>1. CASE UNCHANGED got
      BY <1>1, <3>1 DEF TypeOK
    <3>2. CASE got' = [got EXCEPT ![sinks[next]] = Append(@, inHand)]
      <4>1. got[sinks[next]] \in Seq(Ranks)
        BY <2>1 DEF TypeOK
      <4>2. Append(got[sinks[next]], inHand) \in Seq(Ranks)
        BY <2>1, <4>1
      <4>3. QED
        BY <1>1, <2>1, <3>2, <4>2 DEF TypeOK
    <3>3. QED
      BY <1>3, <3>1, <3>2 DEF Offer
  <2>3. missed' \in [Sinks -> SUBSET Ranks']
    BY <1>1, <1>3, <2>1 DEF TypeOK, Offer
  <2>4. /\ next' \in Nat /\ next' >= 1 /\ inHand' \in Ranks' \union {0}
        /\ inHand' # 0 => next' <= Len(sinks)
    BY <1>1, <1>3, <2>1 DEF TypeOK, Offer
  <2>5. UNCHANGED <<sinks, emitted, queue, open, dropped, stage, main, graceOver, upgrades>>
    BY <1>3 DEF Offer
  <2>6. QED
    BY <1>1, <2>2, <2>3, <2>4, <2>5 DEF TypeOK
<1>4. QED
  BY <1>2, <1>3

\* The steps that leave the emitter alone.
LEMMA CallerType ==
  ASSUME TypeOK, UNCHANGED <<emitter, emitted>>,
         stage' \in [Producers -> Stages],
         main' \in {"serving", "draining", "closing", "closed", "exited"},
         graceOver' \in BOOLEAN, upgrades' \in Nat
  PROVE  TypeOK'
<1>1. Ranks' = Ranks
  BY DEF Ranks
<1>2. QED
  BY <1>1 DEF TypeOK

LEMMA EmitType ==
  ASSUME TypeOK, Send,
         stage' \in [Producers -> Stages], UNCHANGED <<main, graceOver, upgrades>>
  PROVE  TypeOK'
<1>1. UNCHANGED <<sinks, open, inHand, next>>
  BY DEF Send
<1>2. QED
  BY <1>1, SendType DEF TypeOK

LEMMA NextType == TypeOK /\ [Next]_vars => TypeOK'
<1> SUFFICES ASSUME TypeOK, [Next]_vars PROVE TypeOK'
  OBVIOUS
<1>1. Worker \in Producers /\ \A r \in Requests : r \in Producers
  BY DEF Producers
<1>2. ASSUME NEW r \in Requests, Arrive(r) \/ HandlerStep(r) PROVE TypeOK'
  <2>1. stage' \in [Producers -> Stages]
    <3>1. \E l \in Stages : stage' = [stage EXCEPT ![r] = l]
      BY <1>2 DEF Arrive, HandlerStep, Decide, HandlerEmit, HandlerPanic, Reply, Goto, Stages
    <3>2. QED
      BY <1>1, <3>1, StageType
  <2>2. UNCHANGED <<main, graceOver, upgrades>>
    BY <1>2 DEF Arrive, HandlerStep, Decide, HandlerEmit, HandlerPanic, Reply
  <2>3. CASE HandlerEmit(r)
    <3>1. Send
      BY <2>3 DEF HandlerEmit
    <3>2. QED
      BY <1>1, <2>1, <2>2, <3>1, EmitType
  <2>4. CASE ~HandlerEmit(r)
    <3>1. UNCHANGED <<emitter, emitted>>
      BY <1>2, <2>4 DEF Arrive, HandlerStep, Decide, HandlerPanic, Reply
    <3>2. /\ main \in {"serving", "draining", "closing", "closed", "exited"}
          /\ graceOver \in BOOLEAN /\ upgrades \in Nat
      BY DEF TypeOK
    <3>3. QED
      BY <2>1, <2>2, <3>1, <3>2, CallerType
  <2>5. QED
    BY <2>3, <2>4
<1>3. CASE Recheck \/ WorkerStep
  <2>1. stage' \in [Producers -> Stages]
    <3>1. CASE WorkerPanic
      BY <3>1 DEF TypeOK, WorkerPanic
    <3>2. CASE ~WorkerPanic
      <4>1. \E l \in Stages : stage' = [stage EXCEPT ![Worker] = l]
        BY <1>3, <3>2 DEF Recheck, WorkerStep, RecheckFails, SetVerdict, WorkerEmit,
           Goto, Stages
      <4>2. QED
        BY <1>1, <4>1, StageType
    <3>3. QED
      BY <3>1, <3>2
  <2>2. CASE WorkerEmit
    BY <2>1, <2>2, EmitType DEF WorkerEmit
  <2>3. CASE ~WorkerEmit
    <3>1. /\ UNCHANGED <<emitter, emitted>>
          /\ main' \in {"serving", "draining", "closing", "closed", "exited"}
          /\ upgrades' \in Nat
      BY <1>3, <2>3 DEF TypeOK, Recheck, WorkerStep, RecheckFails, SetVerdict, WorkerPanic
    <3>2. graceOver' \in BOOLEAN
      <4>1. UNCHANGED graceOver
        BY <1>3, <2>3 DEF Recheck, WorkerStep, RecheckFails, SetVerdict, WorkerPanic
      <4>2. QED
        BY <4>1 DEF TypeOK
    <3>3. QED
      BY <2>1, <3>1, <3>2, CallerType
  <2>4. QED
    BY <2>2, <2>3
<1>4. CASE Signal \/ ShutdownReturns \/ Exit
  <2>1. /\ UNCHANGED <<emitter, emitted, stage, upgrades>>
        /\ main' \in {"serving", "draining", "closing", "closed", "exited"}
    BY <1>4 DEF Signal, ShutdownReturns, Exit
  <2>2. graceOver' \in BOOLEAN
    <3>1. UNCHANGED graceOver \/ graceOver' = (Active # {})
      BY <1>4 DEF Signal, ShutdownReturns, Exit
    <3>2. QED
      BY <3>1 DEF TypeOK
  <2>3. stage \in [Producers -> Stages] /\ upgrades \in Nat
    BY DEF TypeOK
  <2>4. QED
    BY <2>1, <2>2, <2>3, CallerType
<1>5. CASE Close
  <2>1. Ranks' = Ranks
    BY <1>5 DEF Close, Ranks
  <2>2. open' \in BOOLEAN
    BY <1>5 DEF Close
  <2>3. main' \in {"serving", "draining", "closing", "closed", "exited"}
    BY <1>5 DEF Close
  <2>4. UNCHANGED <<sinks, emitted, queue, inHand, next, got, missed, dropped, stage,
                    graceOver, upgrades>>
    BY <1>5 DEF Close
  <2>5. QED
    BY <2>1, <2>2, <2>3, <2>4 DEF TypeOK
<1>6. CASE UNCHANGED vars
  <2>1. Ranks' = Ranks
    BY <1>6 DEF Ranks
  <2>2. QED
    BY <1>6, <2>1 DEF TypeOK
<1>7. QED
  BY <1>2, <1>3, <1>4, <1>5, <1>6, RunType DEF Next, MainStep

\* Every variable stays in its type; the channel holds no more than it can.
THEOREM TypeCorrect == Spec => []TypeOK
<1>1. QED
  BY InitType, NextType, PTL DEF Spec

-----------------------------------------------------------------------------
(* Shutdown.                                                               *)

\* The channel is closed late, and by then nothing is active unless Shutdown
\* gave up.
GraceInv ==
  /\ ~open => main \in {"closed", "exited"}
  /\ \A r \in Requests : stage[r] = "aborted" => main \in {"closed", "exited"}
  /\ main \in {"closing", "closed"} /\ ~graceOver =>
       \A r \in Requests : stage[r] \notin {"busy", "emit", "reply"}
  /\ AbortOnlyAfterGrace

LEMMA GraceNext == TypeOK /\ GraceInv /\ [Next]_vars => GraceInv'
<1> SUFFICES ASSUME TypeOK, GraceInv, [Next]_vars PROVE GraceInv'
  OBVIOUS
<1> USE DEF GraceInv, AbortOnlyAfterGrace
<1>1. Worker \notin Requests /\ Worker \in Producers /\ \A r \in Requests : r \in Producers
  BY EmitterAssumption DEF Producers
<1>2. ASSUME NEW r \in Requests, Arrive(r) \/ HandlerStep(r) PROVE GraceInv'
  <2>1. CASE Arrive(r)
    BY <1>1, <2>1 DEF TypeOK, Arrive, Goto
  <2>2. CASE Decide(r) \/ Reply(r)
    BY <1>1, <2>2 DEF TypeOK, Decide, Reply, Goto, Running
  <2>3. CASE HandlerEmit(r)
    BY <1>1, <2>3 DEF TypeOK, HandlerEmit, Send, Goto, Running
  <2>4. CASE HandlerPanic(r)
    BY <1>1, <2>4 DEF TypeOK, HandlerPanic, Goto, Running
  <2>5. QED
    BY <1>2, <2>1, <2>2, <2>3, <2>4 DEF HandlerStep
<1>3. CASE Recheck \/ WorkerStep
  <2>1. \A r \in Requests : stage'[r] = stage[r]
    BY <1>1, <1>3 DEF TypeOK, Recheck, WorkerStep, RecheckFails, SetVerdict, WorkerEmit,
       WorkerPanic, Goto
  <2>2. UNCHANGED <<open, graceOver>> /\ (main' = main \/ main' = "exited")
    BY <1>3 DEF Recheck, WorkerStep, RecheckFails, SetVerdict, WorkerEmit, WorkerPanic, Send
  <2>3. QED
    BY <2>1, <2>2
<1>4. CASE Signal \/ MainStep
  <2>1. CASE Signal \/ Close \/ Exit
    BY <2>1 DEF TypeOK, Signal, Close, Exit
  <2>2. CASE ShutdownReturns /\ Active = {}
    <3>1. main = "draining" /\ main' = "closing" /\ UNCHANGED <<open, stage>>
      BY <2>2 DEF ShutdownReturns
    <3>2. \A r \in Requests : stage[r] \notin {"busy", "emit", "reply"}
      BY <2>2 DEF Active
    <3>3. QED
      BY <3>1, <3>2
  <2>3. CASE ShutdownReturns /\ Active # {}
    <3>1. main = "draining" /\ main' = "closing" /\ graceOver' /\ UNCHANGED <<open, stage>>
      BY <2>3 DEF ShutdownReturns
    <3>2. QED
      BY <3>1
  <2>4. QED
    BY <1>4, <2>1, <2>2, <2>3 DEF MainStep
<1>5. CASE Take \/ Offer \/ UNCHANGED vars
  BY <1>5 DEF Take, Offer
<1>6. QED
  BY <1>2, <1>3, <1>4, <1>5 DEF Next

\* Closing the channel aborts no request that Shutdown could still wait for.
THEOREM AbortsExplained == Spec => []AbortOnlyAfterGrace
<1>1. Init => GraceInv
  BY DEF Init, GraceInv, AbortOnlyAfterGrace, Producers
<1>2. GraceInv => AbortOnlyAfterGrace
  BY DEF GraceInv
<1>3. QED
  BY <1>1, <1>2, GraceNext, TypeCorrect, PTL DEF Spec

-----------------------------------------------------------------------------
(* Order.                                                                  *)

\* Ranks grow along the channel; what run() holds is older than what is behind it,
\* and younger than what the sinks it has yet to reach have received.
OrderInv ==
  /\ \A i, j \in 1 .. Len(sinks) : i # j => sinks[i] # sinks[j]
  /\ \A i, j \in 1 .. Len(queue) : i < j => queue[i] < queue[j]
  /\ inHand # 0 => \A i \in 1 .. Len(queue) : inHand < queue[i]
  /\ \A k \in Sinks : \A i \in 1 .. Len(got[k]) : \A j \in 1 .. Len(queue) :
       got[k][i] < queue[j]
  /\ inHand # 0 => \A j \in next .. Len(sinks) : \A i \in 1 .. Len(got[sinks[j]]) :
       got[sinks[j]][i] < inHand

LEMMA OrderInit == Init => OrderInv
<1> SUFFICES ASSUME Init PROVE OrderInv
  OBVIOUS
<1>1. \A i, j \in 1 .. Len(sinks) : i # j => sinks[i] # sinks[j]
  BY EmittersType DEF Init
<1>2. QED
  BY <1>1 DEF Init, OrderInv

LEMMA SendOrder ==
  ASSUME TypeOK, OrderInv, Send
  PROVE  OrderInv'
<1> DEFINE e == emitted'
<1>1. UNCHANGED <<sinks, inHand, next, got>>
  BY DEF Send
<1>2. CASE UNCHANGED queue
  BY <1>1, <1>2 DEF OrderInv
<1>3. CASE queue' = Append(queue, e)
  <2>1. /\ Len(queue') = Len(queue) + 1
        /\ \A i \in 1 .. Len(queue) : queue'[i] = queue[i]
        /\ queue'[Len(queue) + 1] = e
    BY <1>3 DEF TypeOK
  <2>2. /\ \A i \in 1 .. Len(queue) : queue[i] \in Nat /\ queue[i] < e
        /\ inHand \in Nat /\ inHand < e
        /\ \A k \in Sinks : \A i \in 1 .. Len(got[k]) : got[k][i] \in Nat /\ got[k][i] < e
    <3>1. emitted \in Nat /\ e = emitted + 1 /\ Ranks = 1 .. emitted
      BY DEF TypeOK, Ranks, Send
    <3>2. \A i \in 1 .. Len(queue) : queue[i] \in Ranks
      BY DEF TypeOK
    <3>3. \A k \in Sinks : \A i \in 1 .. Len(got[k]) : got[k][i] \in Ranks
      BY DEF TypeOK
    <3>4. QED
      BY <3>1, <3>2, <3>3 DEF TypeOK
  <2> HIDE DEF e
  <2>3. Len(queue) \in Nat
    BY DEF TypeOK
  <2>4. \A i \in 1 .. Len(queue') : i \in 1 .. Len(queue) \/ i = Len(queue) + 1
    BY <2>1, <2>3
  <2>5. \A i, j \in 1 .. Len(queue') : i < j => queue'[i] < queue'[j]
    <3>1. ASSUME NEW i \in 1 .. Len(queue'), NEW j \in 1 .. Len(queue'), i < j
          PROVE  queue'[i] < queue'[j]
      <4>1. i \in 1 .. Len(queue)
        BY <2>1, <2>3, <3>1
      <4>2. CASE j = Len(queue) + 1
        BY <2>1, <2>2, <4>1, <4>2
      <4>3. CASE j \in 1 .. Len(queue)
        BY <2>1, <3>1, <4>1, <4>3 DEF OrderInv
      <4>4. QED
        BY <2>4, <4>2, <4>3
    <3>2. QED
      BY <3>1
  <2>6. inHand' # 0 => \A i \in 1 .. Len(queue') : inHand' < queue'[i]
    BY <1>1, <2>1, <2>2, <2>4 DEF OrderInv
  <2>7. \A k \in Sinks : \A i \in 1 .. Len(got'[k]) : \A j \in 1 .. Len(queue') :
          got'[k][i] < queue'[j]
    BY <1>1, <2>1, <2>2, <2>4 DEF OrderInv
  <2>8. QED
    BY <1>1, <2>5, <2>6, <2>7 DEF OrderInv
<1>4. QED
  BY <1>2, <1>3 DEF Send, Enqueue, Drop

LEMMA TakeOrder == TypeOK /\ OrderInv /\ Take => OrderInv'
<1> SUFFICES ASSUME TypeOK, OrderInv, Take PROVE OrderInv'
  OBVIOUS
<1>1. /\ queue \in Seq(Ranks) /\ Len(queue) >= 1
      /\ inHand' = queue[1] /\ queue' = Tail(queue) /\ UNCHANGED <<sinks, got>>
  BY DEF TypeOK, Take
<1>2. /\ Len(queue') = Len(queue) - 1
      /\ \A i \in 1 .. Len(queue') : queue'[i] = queue[i + 1]
  BY <1>1
<1>3. \A i, j \in 1 .. Len(queue') : i < j => queue'[i] < queue'[j]
  BY <1>1, <1>2 DEF OrderInv
<1>4. \A i \in 1 .. Len(queue') : inHand' < queue'[i]
  BY <1>1, <1>2 DEF OrderInv
<1>5. \A k \in Sinks : \A i \in 1 .. Len(got'[k]) :
        /\ \A j \in 1 .. Len(queue') : got'[k][i] < queue'[j]
        /\ got'[k][i] < inHand'
  BY <1>1, <1>2 DEF OrderInv
<1>6. \A j \in next' .. Len(sinks') : sinks'[j] \in Sinks
  BY <1>1 DEF TypeOK, Take
<1>7. QED
  BY <1>1, <1>3, <1>4, <1>5, <1>6 DEF OrderInv

\* A sink that takes the event received only older ones before.
LEMMA OfferOrder ==
  ASSUME TypeOK, OrderInv, Offer
  PROVE  /\ OrderInv'
         /\ \/ UNCHANGED got
            \/ \E k \in Sinks, e \in Ranks :
                 /\ \A i \in 1 .. Len(got[k]) : got[k][i] < e
                 /\ got' = [got EXCEPT ![k] = Append(@, e)]
<1> DEFINE k == sinks[next]
<1>1. /\ k \in Sinks /\ inHand \in Ranks /\ next \in 1 .. Len(sinks)
      /\ inHand # 0 /\ UNCHANGED <<sinks, queue>> /\ next' = next + 1
      /\ inHand' = inHand \/ inHand' = 0
  BY DEF TypeOK, Offer
<1>2. CASE UNCHANGED got
  BY <1>1, <1>2, SMTT(20) DEF OrderInv, TypeOK
<1>3. CASE got' = [got EXCEPT ![k] = Append(@, inHand)]
  <2>1. \A i \in 1 .. Len(got[k]) : got[k][i] < inHand
    BY <1>1 DEF OrderInv
  <2>2. /\ got[k] \in Seq(Ranks) /\ got'[k] = Append(got[k], inHand)
        /\ \A j \in Sinks : j # k => got'[j] = got[j]
    BY <1>1, <1>3 DEF TypeOK
  <2>3. \A i \in 1 .. Len(got'[k]) : \A j \in 1 .. Len(queue') : got'[k][i] < queue'[j]
    BY <1>1, <2>2 DEF OrderInv
  <2>4. \A s \in Sinks : \A i \in 1 .. Len(got'[s]) : \A j \in 1 .. Len(queue') :
          got'[s][i] < queue'[j]
    BY <1>1, <2>2, <2>3 DEF OrderInv
  <2>5. \A j \in next' .. Len(sinks) : sinks[j] \in Sinks /\ sinks[j] # k
    BY <1>1 DEF TypeOK, OrderInv
  <2>6. inHand' # 0 => \A j \in next' .. Len(sinks') : \A i \in 1 .. Len(got'[sinks'[j]]) :
          got'[sinks'[j]][i] < inHand'
    BY <1>1, <2>2, <2>5 DEF OrderInv, TypeOK
  <2>7. OrderInv'
    BY <1>1, <2>4, <2>6 DEF OrderInv
  <2>8. QED
    BY <1>1, <1>3, <2>1, <2>7
<1>4. QED
  BY <1>2, <1>3 DEF Offer

LEMMA OrderNext == TypeOK /\ OrderInv /\ [Next]_vars => OrderInv'
<1> SUFFICES ASSUME TypeOK, OrderInv, [Next]_vars PROVE OrderInv'
  OBVIOUS
<1>1. CASE Take \/ Offer
  BY <1>1, TakeOrder, OfferOrder
<1>2. CASE Send
  BY <1>2, SendOrder
<1>3. CASE UNCHANGED <<sinks, queue, inHand, next, got>>
  BY <1>3 DEF OrderInv
<1>4. QED
  BY <1>1, <1>2, <1>3 DEF Next, Arrive, HandlerStep, Decide, HandlerEmit, HandlerPanic,
     Reply, Recheck, WorkerStep, RecheckFails, SetVerdict, WorkerEmit, WorkerPanic,
     Signal, MainStep, ShutdownReturns, Close, Exit

LEMMA FeedInit == Init => Feed!Init
  BY DEF Init, Feed!Init

LEMMA FeedStep == TypeOK /\ OrderInv /\ [Next]_vars => [Feed!Next]_(Feed!vars)
<1> SUFFICES ASSUME TypeOK, OrderInv, [Next]_vars PROVE [Feed!Next]_(Feed!vars)
  OBVIOUS
<1>1. CASE Offer
  <2>1. CASE UNCHANGED got
    BY <1>1, <2>1 DEF Offer, Feed!vars
  <2>2. CASE \E k \in Sinks, e \in Ranks :
               /\ \A i \in 1 .. Len(got[k]) : got[k][i] < e
               /\ got' = [got EXCEPT ![k] = Append(@, e)]
    BY <1>1, <2>2 DEF Offer, Feed!Next, Feed!Receive, Ranks
  <2>3. QED
    BY <1>1, <2>1, <2>2, OfferOrder
<1>2. CASE Send
  <2>1. emitted' = emitted + 1 /\ UNCHANGED got
    BY <1>2 DEF Send
  <2>2. QED
    BY <2>1 DEF Feed!Next, Feed!Emit
<1>3. CASE UNCHANGED <<emitted, got>>
  BY <1>3 DEF Feed!vars
<1>4. QED
  BY <1>1, <1>2, <1>3 DEF Next, Take, Arrive, HandlerStep, Decide, HandlerEmit,
     HandlerPanic, Reply, Recheck, WorkerStep, RecheckFails, SetVerdict, WorkerEmit,
     WorkerPanic, Signal, MainStep, ShutdownReturns, Close, Exit

\* Each sink receives events in the order of emission, and none twice.
THEOREM FeedRefined == Spec => FeedSpec
<1>1. QED
  BY OrderInit, OrderNext, FeedInit, FeedStep, TypeCorrect, PTL DEF Spec, FeedSpec, Feed!Spec

-----------------------------------------------------------------------------
(* No event vanishes.                                                      *)

LEMMA RangeAppend ==
  ASSUME NEW S, NEW s \in Seq(S), NEW e \in S
  PROVE  Range(Append(s, e)) = Range(s) \union {e}
<1> DEFINE t == Append(s, e)
<1>1. /\ DOMAIN s = 1 .. Len(s) /\ DOMAIN t = 1 .. (Len(s) + 1)
      /\ t[Len(s) + 1] = e /\ \A i \in 1 .. Len(s) : t[i] = s[i]
      /\ Len(s) \in Nat
  OBVIOUS
<1> HIDE DEF t
<1>2. \A i \in 1 .. (Len(s) + 1) : i \in 1 .. Len(s) \/ i = Len(s) + 1
  BY <1>1
<1>3. Range(t) = Range(s) \union {e}
  BY <1>1, <1>2 DEF Range
<1>4. QED
  BY <1>3 DEF t

LEMMA RangeTail ==
  ASSUME NEW S, NEW s \in Seq(S), s # <<>>
  PROVE  Range(s) = {Head(s)} \union Range(Tail(s))
<1> DEFINE t == Tail(s)
<1>1. /\ DOMAIN s = 1 .. Len(s) /\ DOMAIN t = 1 .. (Len(s) - 1)
      /\ Head(s) = s[1] /\ \A i \in 1 .. (Len(s) - 1) : t[i] = s[i + 1]
      /\ Len(s) \in Nat /\ Len(s) >= 1
  OBVIOUS
<1> HIDE DEF t
<1>2. \A i \in 1 .. Len(s) : i = 1 \/ (i - 1 \in 1 .. (Len(s) - 1) /\ t[i - 1] = s[i])
  BY <1>1
<1>3. \A i \in 1 .. (Len(s) - 1) : i + 1 \in 1 .. Len(s)
  BY <1>1
<1>4. Range(s) = {Head(s)} \union Range(t)
  BY <1>1, <1>2, <1>3 DEF Range
<1>5. QED
  BY <1>4 DEF t

\* A new event is in the buffer or dropped, and was nowhere before.
LEMMA SendKeeps ==
  ASSUME TypeOK, NoEventVanishes, Send
  PROVE  NoEventVanishes'
<1> DEFINE e == emitted'
<1>1. /\ Ranks' = Ranks \union {e} /\ e \notin Ranks
      /\ UNCHANGED <<sinks, inHand, next, got, missed>>
  <2>1. emitted \in Nat /\ emitted' = emitted + 1 /\ UNCHANGED <<sinks, inHand, next, got, missed>>
    BY DEF TypeOK, Send
  <2>2. QED
    BY <2>1 DEF Ranks
<1> HIDE DEF e
<1>2. ASSUME NEW j \in 1 .. Len(sinks)
      PROVE  /\ Ranks = dropped \union Offered(sinks[j]) \union Awaiting(j)
             /\ dropped \intersect (Offered(sinks[j]) \union Awaiting(j)) = {}
             /\ Offered(sinks[j]) \intersect Awaiting(j) = {}
             /\ Offered(sinks[j])' = Offered(sinks[j])
  BY <1>1 DEF NoEventVanishes, Offered
<1>3. CASE Enqueue(emitted')
  <2>1. dropped' = dropped /\ Range(queue') = Range(queue) \union {e}
    BY <1>1, <1>3, SendType, RangeAppend, SMTT(20) DEF Enqueue, TypeOK, e
  <2>2. ASSUME NEW j \in 1 .. Len(sinks) PROVE Awaiting(j)' = Awaiting(j) \union {e}
    BY <1>1, <2>1 DEF Awaiting
  <2>3. QED
    BY <1>1, <1>2, <2>1, <2>2 DEF NoEventVanishes
<1>4. CASE Drop(emitted')
  <2>1. dropped' = dropped \union {e} /\ queue' = queue
    BY <1>4 DEF Drop, e
  <2>2. ASSUME NEW j \in 1 .. Len(sinks) PROVE Awaiting(j)' = Awaiting(j)
    BY <1>1, <2>1 DEF Awaiting
  <2>3. QED
    BY <1>1, <1>2, <2>1, <2>2 DEF NoEventVanishes
<1>5. QED
  BY <1>3, <1>4 DEF Send

LEMMA TakeKeeps ==
  ASSUME TypeOK, NoEventVanishes, Take
  PROVE  NoEventVanishes'
<1>1. /\ UNCHANGED <<sinks, emitted, got, missed, dropped>>
      /\ queue # <<>> /\ inHand = 0 /\ inHand' = Head(queue) /\ next' = 1
      /\ inHand' # 0 /\ queue' = Tail(queue)
  BY DEF Take, TypeOK, Ranks
<1>2. Range(queue) = {inHand'} \union Range(queue')
  BY <1>1, RangeTail DEF TypeOK
<1>3. ASSUME NEW j \in 1 .. Len(sinks)
      PROVE  Awaiting(j)' = Awaiting(j) /\ Offered(sinks[j])' = Offered(sinks[j])
  BY <1>1, <1>2 DEF Awaiting, Offered
<1>4. QED
  BY <1>1, <1>3 DEF NoEventVanishes, Ranks

\* The sink whose turn it is has been offered the event, and nothing changed for
\* the others.
LEMMA OfferKeeps ==
  ASSUME TypeOK, OrderInv, NoEventVanishes, Offer
  PROVE  NoEventVanishes'
<1>1. /\ sinks[next] \in Sinks /\ next \in 1 .. Len(sinks)
      /\ inHand \in Ranks /\ inHand # 0
      /\ next' = next + 1 /\ inHand' = IF next = Len(sinks) THEN 0 ELSE inHand
      /\ UNCHANGED <<sinks, emitted, queue, dropped>>
      /\ \A s \in Sinks : got[s] \in Seq(Ranks)
  BY DEF TypeOK, Offer
<1>2. PICK n \in 1 .. Len(sinks), k \in Sinks : n = next /\ k = sinks[n]
  BY <1>1
<1>3. inHand \notin Range(queue)
  <2>1. DOMAIN queue = 1 .. Len(queue) /\ \A i \in 1 .. Len(queue) : queue[i] \in Nat
    BY DEF TypeOK, Ranks
  <2>2. \A i \in 1 .. Len(queue) : inHand < queue[i]
    BY <1>1 DEF OrderInv
  <2>3. \A i \in 1 .. Len(queue) : inHand # queue[i]
    BY <1>1, <2>1, <2>2 DEF Ranks
  <2>4. QED
    BY <2>1, <2>3 DEF Range
<1>4. /\ Offered(k)' = Offered(k) \union {inHand}
      /\ \A s \in Sinks \ {k} : Offered(s)' = Offered(s)
  <2>1. CASE got' = [got EXCEPT ![k] = Append(@, inHand)] /\ UNCHANGED missed
    <3>1. got'[k] = Append(got[k], inHand) /\ \A s \in Sinks \ {k} : got'[s] = got[s]
      BY <2>1 DEF TypeOK
    <3>2. Range(got'[k]) = Range(got[k]) \union {inHand}
      BY <1>1, <3>1, RangeAppend
    <3>3. QED
      BY <2>1, <3>1, <3>2 DEF Offered
  <2>2. CASE missed' = [missed EXCEPT ![k] = @ \union {inHand}] /\ UNCHANGED got
    <3>1. /\ missed'[k] = missed[k] \union {inHand}
          /\ \A s \in Sinks \ {k} : missed'[s] = missed[s]
      BY <2>2 DEF TypeOK
    <3>2. QED
      BY <2>2, <3>1 DEF Offered
  <2>3. QED
    BY <1>2, <2>1, <2>2 DEF Offer
<1>5. \A j \in 1 .. Len(sinks) : sinks[j] \in Sinks /\ (j # n => sinks[j] # k)
  BY <1>2 DEF TypeOK, OrderInv
<1>6. Awaiting(n) = Range(queue) \union {inHand} /\ Awaiting(n)' = Range(queue)
  BY <1>1, <1>2 DEF Awaiting
<1>7. ASSUME NEW j \in 1 .. Len(sinks), j # n PROVE Awaiting(j)' = Awaiting(j)
  BY <1>1, <1>2, <1>7 DEF Awaiting
<1>8. ASSUME NEW j \in 1 .. Len(sinks)
      PROVE  /\ Ranks = dropped \union Offered(sinks[j])' \union Awaiting(j)'
             /\ dropped \intersect (Offered(sinks[j])' \union Awaiting(j)') = {}
             /\ Offered(sinks[j])' \intersect Awaiting(j)' = {}
  <2>1. /\ Ranks = dropped \union Offered(sinks[j]) \union Awaiting(j)
        /\ dropped \intersect (Offered(sinks[j]) \union Awaiting(j)) = {}
        /\ Offered(sinks[j]) \intersect Awaiting(j) = {}
    BY DEF NoEventVanishes
  <2>2. CASE j = n
    <3>1. Offered(sinks[j])' = Offered(sinks[j]) \union {inHand}
      BY <1>1, <1>2, <1>4, <2>2
    <3>2. QED
      BY <1>3, <1>6, <2>1, <2>2, <3>1
  <2>3. CASE j # n
    <3>1. Offered(sinks[j])' = Offered(sinks[j])
      <4>1. PICK s \in Sinks \ {k} : s = sinks[j]
        BY <1>5, <2>3
      <4>2. s = sinks'[j]
        BY <1>1, <4>1
      <4>3. QED
        BY <1>4, <4>1, <4>2
    <3>2. QED
      BY <1>7, <2>1, <2>3, <3>1
  <2>4. QED
    BY <2>2, <2>3
<1>9. QED
  BY <1>1, <1>8 DEF NoEventVanishes, Ranks

LEMMA VanishNext == TypeOK /\ OrderInv /\ NoEventVanishes /\ [Next]_vars => NoEventVanishes'
<1> SUFFICES ASSUME TypeOK, OrderInv, NoEventVanishes, [Next]_vars PROVE NoEventVanishes'
  OBVIOUS
<1>1. CASE Take \/ Offer
  BY <1>1, TakeKeeps, OfferKeeps
<1>2. CASE Send
  BY <1>2, SendKeeps
<1>3. CASE UNCHANGED <<sinks, emitted, queue, inHand, next, got, missed, dropped>>
  BY <1>3 DEF NoEventVanishes, Ranks, Offered, Awaiting
<1>4. QED
  BY <1>1, <1>2, <1>3 DEF Next, Arrive, HandlerStep, Decide, HandlerEmit, HandlerPanic,
     Reply, Recheck, WorkerStep, RecheckFails, SetVerdict, WorkerEmit, WorkerPanic,
     Signal, MainStep, ShutdownReturns, Close, Exit

LEMMA VanishInit == Init => NoEventVanishes
<1> SUFFICES ASSUME Init PROVE NoEventVanishes
  OBVIOUS
<1>1. /\ Ranks = {} /\ Range(queue) = {}
      /\ \A k \in Sinks : Range(got[k]) = {} /\ missed[k] = {}
  BY DEF Init, Ranks, Range
<1>2. \A j \in 1 .. Len(sinks) : sinks[j] \in Sinks
  BY EmittersType DEF Init
<1>3. QED
  BY <1>1, <1>2 DEF Init, NoEventVanishes, Offered, Awaiting

\* Whatever Emit was called with is dropped at a full buffer, or offered to each
\* sink, or still to be offered, and only one of these; for every buffer size,
\* 0 included.
THEOREM NothingVanishes == Spec => []NoEventVanishes
<1>1. QED
  BY VanishInit, VanishNext, OrderInit, OrderNext, TypeCorrect, PTL DEF Spec
=============================================================================
