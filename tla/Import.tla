-------------------------------- MODULE Import --------------------------------
(***************************************************************************)
(* tools/import-benign: the benign half of the calibration corpus.  A run  *)
(* takes the names of the package list that labels.jsonl does not hold yet *)
(* (all of them with -refresh), and one goroutine per name, at most        *)
(* Concurrency at a time, fetches the latest version's metadata and        *)
(* tarball, writes the two files and appends a label.  The tool is run     *)
(* again after a crash or to fetch what an earlier run skipped; the files  *)
(* and the labels are all that survives.                                   *)
(*                                                                         *)
(* os.WriteFile truncates and then writes: a file is "torn" in between,    *)
(* and stays so when the process dies or the disk fills up.                *)
(***************************************************************************)
EXTENDS Sequences, FiniteSets, Naturals, Functions

CONSTANTS
  PackageList,   \* the lines of the package list, a sequence of names
  Top,           \* the flag -top
  Safe,          \* the file name of a name: every "/" replaced by "_"
  Concurrency,   \* the flag -concurrency
  MaxAttempts,   \* requests per URL, 6 in httpGetBytes
  MaxVersion,    \* bound: the registry publishes versions 1..MaxVersion[n] of n
  MaxFaults,     \* bound: failed requests and failed writes
  MaxRuns        \* bound: runs of the tool

Listed == Range(PackageList)
Versions == UNION {1..MaxVersion[n] : n \in Listed}

\* Two names of a list could share their files ("@a_b/c" and "@a/b_c"): the
\* lists taken here have no such pair.
ASSUME ImportAssumption ==
  /\ PackageList \in Seq(Listed) /\ PackageList # << >>
  /\ "torn" \notin Listed   \* stands for the name in a torn line
  /\ Top \in Nat \ {0} /\ MaxAttempts \in Nat \ {0}
  /\ Concurrency \in Nat /\ MaxFaults \in Nat /\ MaxRuns \in Nat
  /\ MaxVersion \in [Listed -> Nat \ {0}]
  /\ DOMAIN Safe = Listed
  /\ \A a, b \in Listed : Safe[a] = Safe[b] => a = b

VARIABLES
  latest,     \* the registry's dist-tags.latest of each name
  tarballs,   \* <<file name, version>> -> "none", "torn" or "whole"
  metas,      \* file name -> "none", "torn" or "whole": one for all versions
  labels,     \* the lines of labels.jsonl: [name, version], or TornLine
  running,    \* a run is under way; the variables down to failures are its own
  pending,    \* the names of the run, as their lines of the list
  spawned,    \* the last of these lines that got its goroutine, 0 before
  step,       \* where each name's goroutine is
  version,    \* the version it fetched
  attempts,   \* the failed attempts of its current request
  imported, skipped,   \* the run's counters
  failures,   \* history: transient and permanent failures of the run
  opened,     \* history: names whose files were opened since their last label
  refreshed,  \* history: there was a -refresh run
  runs        \* runs started

disk == <<tarballs, metas, labels>>
counters == <<imported, skipped>>
history == <<opened, refreshed, runs>>
importVars == <<latest, disk, running, pending, spawned, step, version, attempts,
                counters, failures, history>>

TornLine == [name |-> "torn", version |-> 0]
Label(n, v) == [name |-> n, version |-> v]
Labelled == {l.name : l \in Range(labels) \ {TornLine}}

Fetches == {"meta", "tarball"}
Steps == Fetches \union {"openTarball", "fillTarball", "openMeta", "fillMeta", "label"}
Busy == {n \in Listed : step[n] # "none"}

\* Slip: the label is written as soon as the tarball is on disk.
NextStepEarlyLabel(s) ==
  CASE s = "meta"        -> "tarball"
    [] s = "tarball"     -> "openTarball"
    [] s = "openTarball" -> "fillTarball"
    [] s = "fillTarball" -> "label"
    [] s = "label"       -> "openMeta"
    [] s = "openMeta"    -> "fillMeta"
    [] OTHER             -> "none"

\* What a goroutine does after each step (main, fetchLatest).
NextStep(s) ==
  CASE s = "meta"        -> "tarball"
    [] s = "tarball"     -> "openTarball"
    [] s = "openTarball" -> "fillTarball"
    [] s = "fillTarball" -> "openMeta"
    [] s = "openMeta"    -> "fillMeta"
    [] s = "fillMeta"    -> "label"
    [] OTHER             -> "none"

\* The lines of the first limit distinct names.
loadPackageList(lines, limit) ==
  LET first == {i \in DOMAIN lines : \A j \in 1..(i - 1) : lines[j] # lines[i]}
  IN  {i \in first : Cardinality({j \in first : j < i}) < limit}

Slots == IF Concurrency < 1 THEN 1 ELSE Concurrency

NoneBusy == [n \in Listed |-> "none"]
Zeroes == [n \in Listed |-> 0]
Kinds == {"transient", "permanent"}
NoFailure == [kind \in Kinds |-> 0]

ImportInit ==
  /\ latest = [n \in Listed |-> 1]
  /\ tarballs = [f \in Range(Safe) \X Versions |-> "none"]
  /\ metas = [f \in Range(Safe) |-> "none"]
  /\ labels = << >> /\ pending = {}
  /\ running = FALSE
  /\ spawned = 0 /\ step = NoneBusy /\ version = Zeroes /\ attempts = Zeroes
  /\ imported = 0 /\ skipped = 0 /\ failures = NoFailure
  /\ opened = {} /\ refreshed = FALSE /\ runs = 0

\* No run, or a run that has just begun.
ProcessFresh ==
  /\ spawned' = 0 /\ step' = NoneBusy /\ version' = Zeroes /\ attempts' = Zeroes
  /\ imported' = 0 /\ skipped' = 0 /\ failures' = NoFailure

Faults == failures["transient"] + failures["permanent"]

-----------------------------------------------------------------------------
(* The process. *)

\* Slip: names with a label are imported again without -refresh.
PendingAll(again) == loadPackageList(PackageList, Top)

Pending(again) ==
  {i \in loadPackageList(PackageList, Top) : again \/ PackageList[i] \notin Labelled}

\* One line that does not parse makes loadExistingLabels fail, and the run with
\* it; a run with nothing pending ends at once.
Start(again) ==
  /\ ~running /\ runs < MaxRuns
  /\ runs' = runs + 1
  /\ refreshed' = (refreshed \/ again)
  /\ pending' = IF TornLine \in Range(labels) THEN {} ELSE Pending(again)
  /\ running' = (pending' # {})
  /\ ProcessFresh
  /\ UNCHANGED <<latest, disk, opened>>

Waiting == {i \in pending : i > spawned}

\* main takes a slot of the semaphore before it starts the next goroutine.
Spawn ==
  /\ running /\ Cardinality(Busy) < Slots
  /\ \E i \in Waiting :
       /\ \A j \in Waiting : i <= j
       /\ spawned' = i
       /\ step' = [step EXCEPT ![PackageList[i]] = "meta"]
  /\ UNCHANGED <<latest, disk, running, pending, version, attempts, counters,
                 failures, history>>

AllReturned == running /\ Waiting = {} /\ Busy = {}

\* main prints the counters, or the process dies.
Stop ==
  /\ running' = FALSE /\ pending' = {}
  /\ ProcessFresh
  /\ UNCHANGED <<latest, disk, history>>

Report == AllReturned /\ Stop

Crash == running /\ Stop

-----------------------------------------------------------------------------
(* The goroutine of name n. *)

Advance(n) == step' = [step EXCEPT ![n] = NextStep(@)]

\* The goroutine returns, and its local variables with it.
Forget(n) ==
  /\ version' = [version EXCEPT ![n] = 0]
  /\ attempts' = [attempts EXCEPT ![n] = 0]

\* Slip: only a goroutine that gets to the end gives its slot back.
SkipHolding(n) ==
  /\ step' = [step EXCEPT ![n] = "returned"]
  /\ Forget(n)
  /\ skipped' = skipped + 1
  /\ UNCHANGED imported

Skip(n) ==
  /\ step' = [step EXCEPT ![n] = "none"]
  /\ Forget(n)
  /\ skipped' = skipped + 1
  /\ UNCHANGED imported

Fault(kind) ==
  /\ Faults < MaxFaults
  /\ failures' = [failures EXCEPT ![kind] = @ + 1]

\* A response in the 200s that could be read to its end.  Versions may have
\* been published since the last time anyone asked.
Fetched(n) ==
  /\ \/ /\ step[n] = "meta"
        /\ \E v \in latest[n]..MaxVersion[n] :
             /\ latest' = [latest EXCEPT ![n] = v]
             /\ version' = [version EXCEPT ![n] = v]
     \/ /\ step[n] = "tarball"
        /\ UNCHANGED <<latest, version>>
  /\ attempts' = [attempts EXCEPT ![n] = 0]
  /\ Advance(n)
  /\ UNCHANGED <<disk, running, pending, spawned, counters, failures, history>>

\* Slip: the last attempt is never made.
OutOfAttemptsEarly(tried) == tried >= MaxAttempts - 1

OutOfAttempts(tried) == tried >= MaxAttempts

\* No response, 429 or a server's error: another attempt, if any is left.
RequestFails(n) ==
  /\ step[n] \in Fetches
  /\ Fault("transient")
  /\ \/ /\ OutOfAttempts(attempts[n] + 1)
        /\ Skip(n)
     \/ /\ ~OutOfAttempts(attempts[n] + 1)
        /\ attempts' = [attempts EXCEPT ![n] = @ + 1]
        /\ UNCHANGED <<step, version, counters>>
  /\ UNCHANGED <<latest, disk, running, pending, spawned, history>>

\* Another status, a body that breaks off or is too long, metadata without a
\* latest version: given up at once.
RequestRefused(n) ==
  /\ step[n] \in Fetches
  /\ Fault("permanent")
  /\ Skip(n)
  /\ UNCHANGED <<latest, disk, running, pending, spawned, history>>

SetFile(n, kind, state) ==
  \/ /\ kind = "tarball"
     /\ tarballs' = [tarballs EXCEPT ![<<Safe[n], version[n]>>] = state]
     /\ UNCHANGED metas
  \/ /\ kind = "meta"
     /\ metas' = [metas EXCEPT ![Safe[n]] = state]
     /\ UNCHANGED tarballs

FileOf(s) == IF s \in {"openTarball", "fillTarball"} THEN "tarball" ELSE "meta"

OpenFile(n) ==
  /\ step[n] \in {"openTarball", "openMeta"}
  /\ SetFile(n, FileOf(step[n]), "torn")
  /\ opened' = opened \union {n}
  /\ Advance(n)
  /\ UNCHANGED <<latest, labels, running, pending, spawned, version, attempts,
                 counters, failures, refreshed, runs>>

FillFile(n) ==
  /\ step[n] \in {"fillTarball", "fillMeta"}
  /\ SetFile(n, FileOf(step[n]), "whole")
  /\ Advance(n)
  /\ UNCHANGED <<latest, labels, running, pending, spawned, version, attempts,
                 counters, failures, history>>

\* The file cannot be opened, or what is written of it stays as it is.
WriteFails(n) ==
  /\ step[n] \in Steps \ (Fetches \union {"label"})
  /\ Fault("permanent")
  /\ Skip(n)
  /\ UNCHANGED <<latest, disk, running, pending, spawned, history>>

WriteLabel(n) ==
  /\ step[n] = "label"
  /\ labels' = Append(labels, Label(n, version[n]))
  /\ opened' = opened \ {n}
  /\ imported' = imported + 1
  /\ Advance(n)
  /\ Forget(n)
  /\ UNCHANGED <<latest, tarballs, metas, running, pending, spawned, skipped, failures,
                 refreshed, runs>>

\* The write is refused, or cut short in the middle of the line.
LabelFails(n) ==
  /\ step[n] = "label"
  /\ Fault("permanent")
  /\ labels' \in {labels, Append(labels, TornLine)}
  /\ Skip(n)
  /\ UNCHANGED <<latest, tarballs, metas, running, pending, spawned, history>>

Goroutine(n) ==
  \/ Fetched(n) \/ RequestFails(n) \/ RequestRefused(n)
  \/ OpenFile(n) \/ FillFile(n) \/ WriteFails(n)
  \/ WriteLabel(n) \/ LabelFails(n)

ImportNext ==
  \/ \E again \in BOOLEAN : Start(again)
  \/ Spawn
  \/ Report
  \/ Crash
  \/ \E n \in Listed : Goroutine(n)

ImportStep == Spawn \/ Report \/ \E n \in Listed : Goroutine(n)

\* Every request has a timeout and every goroutine is scheduled.  Nothing makes
\* anyone run the tool again.
ImportFairness == WF_importVars(ImportStep)

ImportSpec == ImportInit /\ [][ImportNext]_importVars /\ ImportFairness

-----------------------------------------------------------------------------
(* Properties. *)

FileStates == {"none", "torn", "whole"}

\* Every variable stays in its type.
ImportTypeOK ==
  /\ latest \in [Listed -> Versions]
  /\ tarballs \in [Range(Safe) \X Versions -> FileStates]
  /\ metas \in [Range(Safe) -> FileStates]
  /\ labels \in Seq([name : Listed, version : Versions] \union {TornLine})
  /\ running \in BOOLEAN /\ refreshed \in BOOLEAN
  /\ pending \subseteq DOMAIN PackageList /\ spawned \in {0} \union DOMAIN PackageList
  /\ step \in [Listed -> Steps \union {"none"}]
  /\ version \in [Listed -> {0} \union Versions]
  /\ attempts \in [Listed -> 0..MaxAttempts]
  /\ imported \in Nat /\ skipped \in Nat
  /\ opened \subseteq Listed
  /\ runs \in 0..MaxRuns
  /\ failures \in [Kinds -> Nat]

LastOfItsName(i) ==
  /\ labels[i] # TornLine
  /\ \A j \in DOMAIN labels : j > i => labels[j].name # labels[i].name

FilesWhole(l) == tarballs[<<Safe[l.name], l.version>>] = "whole" /\ metas[Safe[l.name]] = "whole"

\* A label is a promise to the calibration: whatever crashed, failed or was run
\* again, the files its name was last labelled for are whole.  Only a -refresh
\* run breaks it, for a name whose files it opened and has not labelled again.
LabelsBacked ==
  \A i \in DOMAIN labels :
    LastOfItsName(i) => FilesWhole(labels[i]) \/ (labels[i].name \in opened /\ refreshed)

\* What a run reports in the end is what it did: every name is counted once,
\* names are skipped only for failures a retry cannot mend, and when none is
\* skipped every name of the list has a label.
RunAccounted ==
  AllReturned =>
    /\ imported + skipped = Cardinality(pending)
    /\ skipped > 0 => failures["permanent"] > 0 \/ failures["transient"] >= MaxAttempts
    /\ skipped = 0 =>
         \A i \in loadPackageList(PackageList, Top) : PackageList[i] \in Labelled

\* A run ends: no goroutine waits for a slot forever, and retries run out.
ImportEnds == running ~> ~running
=============================================================================
