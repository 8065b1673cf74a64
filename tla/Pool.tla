--------------------------------- MODULE Pool ---------------------------------
(***************************************************************************)
(* The analysis of tools/calibrate: runPipeline feeds the indexes of the   *)
(* corpus to worker goroutines over an unbuffered channel, and collects    *)
(* their results, in whatever order they come, over another one.  A        *)
(* channel operation is one step of its two ends.                          *)
(***************************************************************************)
EXTENDS Sequences, Naturals, FiniteSets

CONSTANTS
  Requested,   \* the flag -workers
  NumCPU       \* runtime.NumCPU()

ASSUME PoolAssumption == Requested \in Nat /\ NumCPU \in Nat \ {0}

VARIABLES
  corpus,      \* the entries LoadCorpus returned
  fed,         \* how many indexes the feeder has handed out
  closed,      \* the jobs channel is closed
  worker,      \* [at, index, ok] of each worker goroutine
  ordered,     \* the runs collected, by index; NoRun where there is none
  completed, droppedRuns,
  returned     \* what runPipeline returned, << >> before

poolVars == <<corpus, fed, closed, worker, ordered, completed, droppedRuns, returned>>

NoRun == 0

\* runPipeline's number of workers for a corpus.
Workers(entries) ==
  LET some == IF Requested = 0 THEN NumCPU ELSE Requested
  IN  IF some > Len(entries) THEN Len(entries) ELSE some

Receiving == [at |-> "receive", index |-> 0, ok |-> FALSE]

\* The benign labels come before the malicious ones.
LoadCorpus(benign, malicious) == benign \o malicious

PoolEmpty ==
  /\ corpus = << >> /\ worker = << >> /\ ordered = << >> /\ returned = << >>
  /\ fed = 0 /\ completed = 0 /\ droppedRuns = 0 /\ closed = FALSE

\* An empty corpus is an error.
PoolStart(benign, malicious) ==
  /\ corpus = << >>
  /\ corpus' = LoadCorpus(benign, malicious) /\ corpus' # << >>
  /\ worker' = [w \in 1..Workers(corpus') |-> Receiving]
  /\ ordered' = [i \in DOMAIN corpus' |-> NoRun]
  /\ UNCHANGED <<fed, closed, completed, droppedRuns, returned>>

FeedJob(w) ==
  /\ worker[w].at = "receive" /\ fed < Len(corpus)
  /\ fed' = fed + 1
  /\ worker' = [worker EXCEPT ![w] = [at |-> "run", index |-> fed', ok |-> FALSE]]
  /\ UNCHANGED <<corpus, closed, ordered, completed, droppedRuns, returned>>

CloseJobs ==
  /\ corpus # << >> /\ fed = Len(corpus) /\ ~closed
  /\ closed' = TRUE
  /\ UNCHANGED <<corpus, fed, worker, ordered, completed, droppedRuns, returned>>

\* Runner.Run ends with a run or with an error.
Analysed(w, ok) ==
  /\ worker[w].at = "run"
  /\ worker' = [worker EXCEPT ![w].at = "send", ![w].ok = ok]
  /\ UNCHANGED <<corpus, fed, closed, ordered, completed, droppedRuns, returned>>

\* Slip: a run is kept in the order it arrives.
PlaceArrived(i) == completed + 1

Place(i) == i

\* Slip: the loop ends one result early.
CollectingShort == completed + 1 < Len(corpus)

Collecting == completed < Len(corpus)

Collect(w) ==
  /\ worker[w].at = "send" /\ Collecting
  /\ completed' = completed + 1
  /\ LET i == worker[w].index IN
     \/ /\ worker[w].ok
        /\ ordered' = [ordered EXCEPT ![Place(i)] = i]
        /\ UNCHANGED droppedRuns
     \/ /\ ~worker[w].ok
        /\ droppedRuns' = droppedRuns + 1
        /\ UNCHANGED ordered
  /\ worker' = [worker EXCEPT ![w] = Receiving]
  /\ UNCHANGED <<corpus, fed, closed, returned>>

WorkerExit(w) ==
  /\ worker[w].at = "receive" /\ closed
  /\ worker' = [worker EXCEPT ![w].at = "exit"]
  /\ UNCHANGED <<corpus, fed, closed, ordered, completed, droppedRuns, returned>>

\* The runs there are, in the order of their places.
Kept(slots) ==
  LET kept[i \in 0..Len(slots)] ==
        IF i = 0 THEN << >>
        ELSE IF slots[i] = NoRun THEN kept[i - 1] ELSE Append(kept[i - 1], slots[i])
  IN  kept[Len(slots)]

\* runPipeline returns the runs of the entries that were not dropped.
Return ==
  /\ corpus # << >> /\ ~Collecting /\ returned = << >>
  /\ returned' = <<Kept(ordered)>>
  /\ UNCHANGED <<corpus, fed, closed, worker, ordered, completed, droppedRuns>>

\* calibrate goes on with the runs; its workers are gone.
Leave ==
  /\ returned # << >> /\ \A w \in DOMAIN worker : worker[w].at = "exit"
  /\ corpus' = << >> /\ worker' = << >> /\ ordered' = << >> /\ returned' = << >>
  /\ fed' = 0 /\ completed' = 0 /\ droppedRuns' = 0 /\ closed' = FALSE

PoolWorker(w) == FeedJob(w) \/ (\E ok \in BOOLEAN : Analysed(w, ok)) \/ Collect(w) \/ WorkerExit(w)

PoolNext == CloseJobs \/ Return \/ Leave \/ \E w \in DOMAIN worker : PoolWorker(w)

\* One analysis after the other, each of one of the Splits <<benign, malicious>>.
PoolRuns(Splits) == PoolNext \/ \E s \in Splits : PoolStart(s[1], s[2])

PoolSpec(Splits) == PoolEmpty /\ [][PoolRuns(Splits)]_poolVars

\* The Go scheduler runs every goroutine that can go on, and Runner.Run ends.
PoolFairness == WF_poolVars(PoolNext)

-----------------------------------------------------------------------------
(* Properties. *)

\* Every variable stays in its type.
PoolTypeOK ==
  /\ fed \in 0..Len(corpus) /\ completed \in 0..fed /\ droppedRuns \in 0..completed
  /\ closed \in BOOLEAN
  /\ Len(worker) = (IF corpus = << >> THEN 0 ELSE Workers(corpus))
  /\ \A w \in DOMAIN worker :
       /\ worker[w].at \in {"receive", "run", "send", "exit"}
       /\ worker[w].index \in 0..Len(corpus) /\ worker[w].ok \in BOOLEAN
  /\ DOMAIN ordered = DOMAIN corpus
  /\ \A i \in DOMAIN ordered : ordered[i] \in {NoRun} \union DOMAIN corpus
  /\ Len(returned) <= 1

InCorpusOrder(s) == \A i, j \in DOMAIN s : i < j => s[i] < s[j]

\* What runPipeline returns has every entry, as a run or among the dropped, and
\* the runs in the order of the corpus whatever order the workers finish in; and
\* it leaves no worker with a result that nobody will read (the send at line 218).
EntriesAccounted ==
  returned # << >> =>
    /\ Len(returned[1]) + droppedRuns = Len(corpus)
    /\ InCorpusOrder(returned[1])
    /\ \A w \in DOMAIN worker : worker[w].at \in {"receive", "exit"}

\* Every analysis returns, and its workers end.
PoolDelivers ==
  corpus # << >> ~> returned # << >> /\ \A w \in DOMAIN worker : worker[w].at = "exit"
=============================================================================
