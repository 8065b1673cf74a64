---------------------------- MODULE ImportProofs ----------------------------
(***************************************************************************)
(* import-benign for any list, any concurrency and any number of failures, *)
(* crashes and runs: types, the promise of a label (LabelsBacked) and the  *)
(* counters of a run (RunAccounted).  The pool of the calibration, which   *)
(* answers with every entry (EntriesAccounted), and the two together, what *)
(* an analysis during imports drops (DropsExplained), follow.              *)
(*                                                                         *)
(* What makes them inductive: a busy goroutine is one of a pending line of *)
(* the run, and no two pending lines have a name in common (BusyOK,        *)
(* PendingOK), so that without -refresh nobody touches the files of a name *)
(* that has a label (NewOK); the step a goroutine is at tells which of its *)
(* files are whole (FilesOK); and the pending lines whose goroutine has    *)
(* returned are those the counters have counted (CountOK).                 *)
(***************************************************************************)
EXTENDS Corpus, Induction

USE DEF disk, counters, history, poolVars

Lines == [name : Listed, version : Versions] \union {TornLine}

LEMMA ListFacts ==
  /\ \A i \in DOMAIN PackageList : i \in Nat \ {0} /\ PackageList[i] \in Listed
  /\ DOMAIN PackageList = 1..Len(PackageList)
  /\ \A n \in Listed : Safe[n] \in Range(Safe)
  /\ \A n \in Listed : MaxVersion[n] \in Nat \ {0} /\ 1..MaxVersion[n] \subseteq Versions
  /\ MaxAttempts \in Nat \ {0} /\ MaxRuns \in Nat
<1> USE ImportAssumption
<1>1. DOMAIN PackageList = 1..Len(PackageList)
  OBVIOUS
<1>2. \A i \in DOMAIN PackageList : PackageList[i] \in Listed
  BY DEF Listed, Range
<1>3. \A n \in Listed : Safe[n] \in Range(Safe)
  BY DEF Range
<1>4. \A n \in Listed : MaxVersion[n] \in Nat \ {0} /\ 1..MaxVersion[n] \subseteq Versions
  BY DEF Versions
<1>5. QED
  BY <1>1, <1>2, <1>3, <1>4

LEMMA LoadedFacts ==
  LET loaded == loadPackageList(PackageList, Top)
  IN  /\ loaded \subseteq DOMAIN PackageList
      /\ \A i, j \in loaded : PackageList[i] = PackageList[j] => i = j
<1>1. \A i, j \in loadPackageList(PackageList, Top) : i < j => PackageList[i] # PackageList[j]
  BY ListFacts DEF loadPackageList
<1>2. QED
  BY <1>1, ListFacts DEF loadPackageList

-----------------------------------------------------------------------------
(* Types. *)

\* A version is known once the metadata are.
VersionOK == \A n \in Listed : step[n] \notin {"none", "meta"} => version[n] \in 1..MaxVersion[n]

LatestOK == \A n \in Listed : latest[n] \in 1..MaxVersion[n]

DiskTypes ==
  /\ latest \in [Listed -> Versions]
  /\ tarballs \in [Range(Safe) \X Versions -> FileStates]
  /\ metas \in [Range(Safe) -> FileStates]
  /\ labels \in Seq(Lines)
  /\ LatestOK

RunTypes ==
  /\ running \in BOOLEAN /\ refreshed \in BOOLEAN
  /\ pending \subseteq DOMAIN PackageList /\ spawned \in {0} \union DOMAIN PackageList
  /\ step \in [Listed -> Steps \union {"none"}]
  /\ version \in [Listed -> {0} \union Versions]
  /\ opened \subseteq Listed
  /\ VersionOK

CounterTypes ==
  /\ attempts \in [Listed -> 0..MaxAttempts]
  /\ imported \in Nat /\ skipped \in Nat
  /\ runs \in 0..MaxRuns
  /\ failures \in [Kinds -> Nat]

Types == DiskTypes /\ RunTypes /\ CounterTypes

LEMMA TypesAre == Types => ImportTypeOK
  BY DEF Types, DiskTypes, RunTypes, CounterTypes, ImportTypeOK, Lines

LEMMA TypesInit == ImportInit => Types
<1> SUFFICES ASSUME ImportInit PROVE Types
  OBVIOUS
<1>1. \A n \in Listed : 1 \in Versions /\ 1 \in 1..MaxVersion[n]
  BY ListFacts
<1>2. DiskTypes
  BY <1>1 DEF ImportInit, DiskTypes, LatestOK, FileStates
<1>3. RunTypes
  BY ListFacts DEF ImportInit, RunTypes, VersionOK, NoneBusy, Zeroes
<1>4. CounterTypes
  BY ListFacts DEF ImportInit, CounterTypes, Zeroes, NoFailure
<1>5. QED
  BY <1>2, <1>3, <1>4 DEF Types

\* What the registry may answer.
LEMMA Published ==
  ASSUME DiskTypes, NEW n \in Listed, NEW v \in latest[n]..MaxVersion[n]
  PROVE  v \in 1..MaxVersion[n] /\ v \in Versions
<1>1. MaxVersion[n] \in Nat /\ latest[n] \in 1..MaxVersion[n]
  BY ListFacts DEF DiskTypes, LatestOK
<1>2. v \in 1..MaxVersion[n]
  BY <1>1
<1>3. QED
  BY <1>2, ListFacts

LEMMA DiskTypesNext ==
  ASSUME Types, [ImportNext]_importVars
  PROVE  DiskTypes'
<1> USE ListFacts DEF Types, DiskTypes, LatestOK
<1>1. ASSUME NEW again \in BOOLEAN, Start(again)
      PROVE  DiskTypes'
  BY <1>1 DEF Start
<1>2. CASE Spawn
  BY <1>2 DEF Spawn
<1>3. CASE Report \/ Crash
  BY <1>3 DEF Report, Crash, Stop
<1>4. ASSUME NEW n \in Listed, Goroutine(n)
      PROVE  DiskTypes'
  <2>1. CASE Fetched(n)
    <3>1. UNCHANGED disk
      BY <2>1 DEF Fetched
    <3>2. CASE step[n] = "meta"
      <4>1. PICK v \in latest[n]..MaxVersion[n] : latest' = [latest EXCEPT ![n] = v]
        BY <2>1, <3>2 DEF Fetched
      <4>2. QED
        BY <3>1, <4>1, Published
    <3>3. CASE UNCHANGED latest
      BY <3>1, <3>3
    <3>4. QED
      BY <2>1, <3>2, <3>3 DEF Fetched
  <2>2. CASE RequestFails(n) \/ RequestRefused(n) \/ WriteFails(n)
    BY <2>2 DEF RequestFails, RequestRefused, WriteFails
  <2>3. CASE OpenFile(n) \/ FillFile(n)
    BY <2>3 DEF OpenFile, FillFile, SetFile, FileStates
  <2>4. CASE WriteLabel(n)
    <3>1. Label(n, version[n]) \in Lines
      BY <2>4 DEF WriteLabel, RunTypes, VersionOK, Label, Lines
    <3>2. QED
      BY <2>4, <3>1 DEF WriteLabel
  <2>5. CASE LabelFails(n)
    <3>1. TornLine \in Lines
      BY DEF Lines
    <3>2. labels' = labels \/ labels' = Append(labels, TornLine)
      BY <2>5 DEF LabelFails
    <3>3. labels' \in Seq(Lines)
      <4>1. labels \in Seq(Lines)
        OBVIOUS
      <4>2. Append(labels, TornLine) \in Seq(Lines)
        BY <3>1, <4>1
      <4>3. QED
        BY <3>2, <4>1, <4>2
    <3>4. QED
      BY <2>5, <3>3 DEF LabelFails
  <2>6. QED
    BY <1>4, <2>1, <2>2, <2>3, <2>4, <2>5 DEF Goroutine
<1>5. CASE UNCHANGED importVars
  BY <1>5 DEF importVars
<1>6. QED
  BY <1>1, <1>2, <1>3, <1>4, <1>5 DEF ImportNext

LEMMA RunTypesNext ==
  ASSUME Types, [ImportNext]_importVars
  PROVE  RunTypes'
<1> USE ListFacts DEF Types, RunTypes, VersionOK, Steps, Fetches
<1>1. ASSUME NEW again \in BOOLEAN, Start(again)
      PROVE  RunTypes'
  BY <1>1, LoadedFacts DEF Start, Pending, ProcessFresh, NoneBusy, Zeroes
<1>2. CASE Spawn
  BY <1>2 DEF Spawn, Waiting
<1>3. CASE Report \/ Crash
  BY <1>3 DEF Report, Crash, Stop, ProcessFresh, NoneBusy, Zeroes
<1>4. ASSUME NEW n \in Listed, Goroutine(n)
      PROVE  RunTypes'
  <2>1. CASE Fetched(n)
    <3>1. CASE step[n] = "meta"
      <4>1. PICK v \in latest[n]..MaxVersion[n] : version' = [version EXCEPT ![n] = v]
        BY <2>1, <3>1 DEF Fetched
      <4>2. v \in 1..MaxVersion[n] /\ v \in Versions
        BY Published
      <4>3. step' = [step EXCEPT ![n] = "tarball"]
        BY <2>1, <3>1 DEF Fetched, Advance, NextStep
      <4>4. UNCHANGED <<running, refreshed, pending, spawned, opened>>
        BY <2>1 DEF Fetched
      <4>5. QED
        BY <4>1, <4>2, <4>3, <4>4
    <3>2. CASE step[n] = "tarball"
      BY <2>1, <3>2 DEF Fetched, Advance, NextStep
    <3>3. QED
      BY <2>1, <3>1, <3>2 DEF Fetched
  <2>2. CASE RequestFails(n) \/ RequestRefused(n) \/ WriteFails(n)
    BY <2>2 DEF RequestFails, RequestRefused, WriteFails, Skip, Forget
  <2>3. CASE OpenFile(n) \/ FillFile(n)
    BY <2>3 DEF OpenFile, FillFile, Advance, NextStep
  <2>4. CASE WriteLabel(n)
    BY <2>4 DEF WriteLabel, Advance, NextStep, Forget
  <2>5. CASE LabelFails(n)
    BY <2>5 DEF LabelFails, Skip, Forget
  <2>6. QED
    BY <1>4, <2>1, <2>2, <2>3, <2>4, <2>5 DEF Goroutine
<1>5. CASE UNCHANGED importVars
  BY <1>5 DEF importVars
<1>6. QED
  BY <1>1, <1>2, <1>3, <1>4, <1>5 DEF ImportNext

LEMMA CounterTypesNext ==
  ASSUME Types, [ImportNext]_importVars
  PROVE  CounterTypes'
<1> USE ListFacts DEF Types, CounterTypes, Kinds
<1>1. ASSUME NEW again \in BOOLEAN, Start(again)
      PROVE  CounterTypes'
  BY <1>1 DEF Start, ProcessFresh, Zeroes, NoFailure
<1>2. CASE Spawn
  BY <1>2 DEF Spawn
<1>3. CASE Report \/ Crash
  BY <1>3 DEF Report, Crash, Stop, ProcessFresh, Zeroes, NoFailure
<1>4. ASSUME NEW n \in Listed, Goroutine(n)
      PROVE  CounterTypes'
  <2>1. CASE Fetched(n)
    BY <2>1 DEF Fetched
  <2>2. CASE RequestFails(n)
    BY <2>2, SMTT(20) DEF RequestFails, Fault, OutOfAttempts, Skip, Forget
  <2>3. CASE RequestRefused(n) \/ WriteFails(n) \/ LabelFails(n)
    BY <2>3, SMTT(20) DEF RequestRefused, WriteFails, LabelFails, Fault, Skip, Forget
  <2>4. CASE OpenFile(n) \/ FillFile(n)
    BY <2>4 DEF OpenFile, FillFile
  <2>5. CASE WriteLabel(n)
    BY <2>5 DEF WriteLabel, Forget
  <2>6. QED
    BY <1>4, <2>1, <2>2, <2>3, <2>4, <2>5 DEF Goroutine
<1>5. CASE UNCHANGED importVars
  BY <1>5 DEF importVars
<1>6. QED
  BY <1>1, <1>2, <1>3, <1>4, <1>5 DEF ImportNext

LEMMA TypesNext == Types /\ [ImportNext]_importVars => Types'
  BY DiskTypesNext, RunTypesNext, CounterTypesNext DEF Types

\* Every variable of the import stays in its type.
THEOREM ImportTyped == ImportSpec => []ImportTypeOK
  BY TypesInit, TypesNext, TypesAre, PTL DEF ImportSpec

-----------------------------------------------------------------------------
(* The schedule of a run. *)

BusyOK == \A n \in Busy : running /\ \E i \in pending : i <= spawned /\ PackageList[i] = n

PendingOK == \A i, j \in pending : PackageList[i] = PackageList[j] => i = j

\* Without -refresh no name has a label before its goroutine returns.
NewOK ==
  \A i \in pending :
    PackageList[i] \in Labelled => refreshed \/ (i <= spawned /\ step[PackageList[i]] = "none")

Schedule == BusyOK /\ PendingOK /\ NewOK

LEMMA BusyNew ==
  ASSUME Schedule, NEW n \in Busy, n \in Labelled
  PROVE  refreshed
  BY DEF Schedule, BusyOK, NewOK, Busy

LEMMA LabelledFacts ==
  ASSUME Types
  PROVE  /\ \A i \in DOMAIN labels : i \in 1..Len(labels) /\ labels[i] \in Lines
         /\ Labelled = {labels[i].name : i \in {j \in DOMAIN labels : labels[j] # TornLine}}
         /\ Labelled \subseteq Listed
<1>1. labels \in Seq(Lines)
  BY DEF Types, DiskTypes
<1>2. \A i \in DOMAIN labels : i \in 1..Len(labels) /\ labels[i] \in Lines
  BY <1>1
<1>3. Labelled = {labels[i].name : i \in {j \in DOMAIN labels : labels[j] # TornLine}}
  BY DEF Labelled, Range
<1>4. QED
  BY <1>2, <1>3 DEF Lines

LEMMA LabelledGrows ==
  ASSUME Types, Types', NEW l \in Lines, labels' = Append(labels, l)
  PROVE  /\ Labelled \subseteq Labelled'
         /\ Labelled' \subseteq Labelled \union {l.name}
         /\ l = TornLine => Labelled' = Labelled
         /\ l # TornLine => l.name \in Labelled'
<1>1. labels \in Seq(Lines)
  BY DEF Types, DiskTypes
<1>2. /\ DOMAIN labels' = 1..(Len(labels) + 1) /\ DOMAIN labels = 1..Len(labels) /\ Len(labels) \in Nat
      /\ \A i \in DOMAIN labels : labels'[i] = labels[i]
      /\ labels'[Len(labels) + 1] = l
  BY <1>1
<1>3. Labelled' = {labels'[i].name : i \in {j \in DOMAIN labels' : labels'[j] # TornLine}}
  BY DEF Labelled, Range
<1>4. QED
  BY <1>2, <1>3, LabelledFacts

\* What all steps of a goroutine have in common.
LEMMA OneStep ==
  ASSUME Types, NEW n \in Listed, Goroutine(n)
  PROVE  /\ step[n] # "none" /\ n \in Busy
         /\ UNCHANGED <<running, pending, spawned, refreshed>>
         /\ \E s \in Steps \union {"none"} : step' = [step EXCEPT ![n] = s]
<1> USE DEF Busy, Steps, Fetches, Types, RunTypes
<1>1. CASE Fetched(n)
  BY <1>1 DEF Fetched, Advance, NextStep
<1>2. CASE RequestFails(n)
  <2>1. step' = [step EXCEPT ![n] = "none"] \/ step' = [step EXCEPT ![n] = step[n]]
    BY <1>2 DEF RequestFails, Skip
  <2>2. QED
    BY <1>2, <2>1 DEF RequestFails
<1>3. CASE RequestRefused(n) \/ WriteFails(n)
  BY <1>3 DEF RequestRefused, WriteFails, Skip
<1>4. CASE OpenFile(n) \/ FillFile(n)
  BY <1>4 DEF OpenFile, FillFile, Advance, NextStep
<1>5. CASE WriteLabel(n)
  BY <1>5 DEF WriteLabel, Advance, NextStep
<1>6. CASE LabelFails(n)
  BY <1>6 DEF LabelFails, Skip
<1>7. QED
  BY <1>1, <1>2, <1>3, <1>4, <1>5, <1>6 DEF Goroutine

\* Only the step that writes a label changes the labelled names.
LEMMA WhoLabels ==
  ASSUME Types, Types', NEW n \in Listed, Goroutine(n)
  PROVE  \/ Labelled' = Labelled
         \/ WriteLabel(n) /\ step'[n] = "none" /\ Labelled' \subseteq Labelled \union {n}
<1> USE DEF Types, DiskTypes, RunTypes
<1>1. CASE WriteLabel(n)
  <2>1. Label(n, version[n]) \in Lines /\ Label(n, version[n]).name = n
    BY <1>1, ListFacts DEF WriteLabel, VersionOK, Label, Lines
  <2>2. step'[n] = "none"
    BY <1>1 DEF WriteLabel, Advance, NextStep
  <2>3. QED
    BY <1>1, <2>1, <2>2, LabelledGrows DEF WriteLabel
<1>2. CASE LabelFails(n)
  <2>1. labels' = labels \/ labels' = Append(labels, TornLine)
    BY <1>2 DEF LabelFails
  <2>2. CASE labels' = labels
    BY <2>2 DEF Labelled
  <2>3. CASE labels' = Append(labels, TornLine)
    BY <2>3, LabelledGrows DEF Lines
  <2>4. QED
    BY <2>1, <2>2, <2>3
<1>3. CASE UNCHANGED labels
  BY <1>3 DEF Labelled
<1>4. QED
  BY <1>1, <1>2, <1>3 DEF Goroutine, Fetched, RequestFails, RequestRefused, OpenFile, FillFile,
     WriteFails

LEMMA ScheduleInit == ImportInit => Schedule
  BY DEF ImportInit, Schedule, BusyOK, PendingOK, NewOK, Busy, NoneBusy

LEMMA ScheduleNext ==
  ASSUME Types, Types', Schedule, [ImportNext]_importVars
  PROVE  Schedule'
<1> USE ListFacts DEF Types, RunTypes, Schedule, Busy
<1>1. ASSUME NEW again \in BOOLEAN, Start(again)
      PROVE  Schedule'
  <2>1. Busy' = {}
    BY <1>1 DEF Start, ProcessFresh, NoneBusy
  <2>2. pending' \subseteq loadPackageList(PackageList, Top)
    BY <1>1 DEF Start, Pending
  <2>3. \A i \in pending' : again \/ PackageList[i] \notin Labelled
    BY <1>1 DEF Start, Pending
  <2>4. Labelled' = Labelled /\ (again => refreshed')
    BY <1>1 DEF Start, Labelled
  <2>5. QED
    BY <2>1, <2>2, <2>3, <2>4, LoadedFacts DEF BusyOK, PendingOK, NewOK
<1>2. CASE Spawn
  <2>1. PICK i \in Waiting : /\ \A j \in Waiting : i <= j
                             /\ spawned' = i
                             /\ step' = [step EXCEPT ![PackageList[i]] = "meta"]
    BY <1>2 DEF Spawn
  <2>2. i \in pending /\ i > spawned /\ i \in Nat /\ spawned \in Nat
    BY <2>1 DEF Waiting
  <2>3. UNCHANGED <<pending, running, refreshed, labels>> /\ running
    BY <1>2 DEF Spawn
  <2>4. Labelled' = Labelled
    BY <2>3 DEF Labelled
  <2>5. BusyOK'
    BY <2>1, <2>2, <2>3 DEF BusyOK
  <2>6. PendingOK'
    BY <2>3 DEF PendingOK
  <2>7. PackageList[i] \in Labelled => refreshed
    BY <2>2 DEF NewOK
  <2>8. NewOK'
    BY <2>1, <2>2, <2>3, <2>4, <2>7 DEF NewOK, PendingOK
  <2>9. QED
    BY <2>5, <2>6, <2>8
<1>3. CASE Report \/ Crash
  BY <1>3 DEF Report, Crash, Stop, ProcessFresh, NoneBusy, BusyOK, PendingOK, NewOK
<1>4. ASSUME NEW n \in Listed, Goroutine(n)
      PROVE  Schedule'
  <2>1. PICK s \in Steps \union {"none"} : step' = [step EXCEPT ![n] = s]
    BY <1>4, OneStep
  <2>2. step[n] # "none" /\ n \in Busy /\ UNCHANGED <<running, pending, spawned, refreshed>>
    BY <1>4, OneStep
  <2>3. BusyOK'
    BY <2>1, <2>2 DEF BusyOK
  <2>4. PendingOK'
    BY <2>2 DEF PendingOK
  <2>5. CASE Labelled' = Labelled
    BY <2>1, <2>2, <2>3, <2>4, <2>5, BusyNew DEF NewOK
  <2>6. CASE step'[n] = "none" /\ Labelled' \subseteq Labelled \union {n}
    <3>1. \A i \in pending : PackageList[i] = n => i <= spawned
      BY <2>2 DEF BusyOK, PendingOK
    <3>2. QED
      BY <2>1, <2>2, <2>3, <2>4, <2>6, <3>1 DEF NewOK
  <2>7. QED
    BY <1>4, <2>5, <2>6, WhoLabels
<1>5. CASE UNCHANGED importVars
  BY <1>5 DEF importVars, BusyOK, PendingOK, NewOK, Labelled
<1>6. QED
  BY <1>1, <1>2, <1>3, <1>4, <1>5 DEF ImportNext

-----------------------------------------------------------------------------
(* The files and the labels. *)

FilesAt(n) ==
  /\ step[n] \in {"openMeta", "fillMeta", "label"} => tarballs[<<Safe[n], version[n]>>] = "whole"
  /\ step[n] = "label" => metas[Safe[n]] = "whole"
  /\ step[n] \in {"fillTarball", "openMeta", "fillMeta", "label"} => n \in opened

FilesOK == \A n \in Listed : FilesAt(n)

\* No two goroutines share a file.
LEMMA OwnFiles ==
  ASSUME Types, NEW n \in Listed, NEW m \in Listed, m # n,
         NEW kind \in {"tarball", "meta"}, NEW state \in FileStates, SetFile(n, kind, state)
  PROVE  /\ \A v \in Versions : tarballs'[<<Safe[m], v>>] = tarballs[<<Safe[m], v>>]
         /\ metas'[Safe[m]] = metas[Safe[m]]
<1>1. Safe[n] # Safe[m] /\ Safe[n] \in Range(Safe) /\ Safe[m] \in Range(Safe)
  BY ImportAssumption, ListFacts
<1>2. QED
  BY <1>1 DEF SetFile, Types, DiskTypes

\* A file is opened, and then whole.
LEMMA FileStep ==
  ASSUME Types, NEW n \in Listed, OpenFile(n) \/ FillFile(n)
  PROVE  /\ \E kind \in {"tarball", "meta"}, state \in FileStates : SetFile(n, kind, state)
         /\ step[n] \in {"openTarball", "fillTarball", "openMeta", "fillMeta"}
         /\ step' = [step EXCEPT ![n] = NextStep(step[n])]
         /\ n \in Busy
         /\ UNCHANGED <<labels, version, refreshed>>
         /\ opened \subseteq opened'
         /\ step[n] = "fillTarball" =>
              tarballs'[<<Safe[n], version[n]>>] = "whole" /\ UNCHANGED metas
         /\ step[n] = "openMeta" => UNCHANGED tarballs
         /\ step[n] = "fillMeta" => metas'[Safe[n]] = "whole" /\ UNCHANGED tarballs
         /\ step[n] \in {"openTarball", "openMeta"} => n \in opened'
<1>1. version[n] \in Versions \/ step[n] \in {"none", "meta"}
  BY ListFacts DEF Types, RunTypes, VersionOK
<1>2. Safe[n] \in Range(Safe)
  BY ListFacts
<1>3. CASE OpenFile(n)
  <2>1. SetFile(n, FileOf(step[n]), "torn") /\ step[n] \in {"openTarball", "openMeta"}
    BY <1>3 DEF OpenFile
  <2>2. step' = [step EXCEPT ![n] = NextStep(step[n])] /\ opened' = opened \union {n}
    BY <1>3 DEF OpenFile, Advance
  <2>3. step[n] = "openMeta" => UNCHANGED tarballs
    BY <2>1 DEF SetFile, FileOf
  <2>4. FileOf(step[n]) \in {"tarball", "meta"} /\ "torn" \in FileStates
    BY DEF FileOf, FileStates
  <2>5. QED
    BY <1>3, <2>1, <2>2, <2>3, <2>4 DEF OpenFile, Busy
<1>4. CASE FillFile(n)
  <2>1. SetFile(n, FileOf(step[n]), "whole") /\ step[n] \in {"fillTarball", "fillMeta"}
    BY <1>4 DEF FillFile
  <2>2. step' = [step EXCEPT ![n] = NextStep(step[n])]
    BY <1>4 DEF FillFile, Advance
  <2>3. CASE step[n] = "fillTarball"
    BY <1>1, <1>2, <1>4, <2>1, <2>2, <2>3 DEF SetFile, FileOf, Types, DiskTypes, FillFile,
       FileStates, Busy
  <2>4. CASE step[n] = "fillMeta"
    BY <1>2, <1>4, <2>1, <2>2, <2>4 DEF SetFile, FileOf, Types, DiskTypes, FillFile, FileStates,
       Busy
  <2>5. QED
    BY <2>1, <2>3, <2>4
<1>5. QED
  BY <1>3, <1>4

LEMMA FilesInit == ImportInit => FilesOK
  BY DEF ImportInit, FilesOK, FilesAt, NoneBusy

LEMMA FilesNext ==
  ASSUME Types, Types', Schedule, FilesOK, [ImportNext]_importVars
  PROVE  FilesOK'
<1>1. ASSUME NEW again \in BOOLEAN, Start(again)
      PROVE  FilesOK'
  BY <1>1 DEF Start, ProcessFresh, NoneBusy, FilesOK, FilesAt
<1>2. CASE Spawn
  <2>1. \A m \in Listed : step'[m] = step[m] \/ step'[m] = "meta"
    BY <1>2, ListFacts DEF Spawn, Waiting, Types, RunTypes
  <2>2. QED
    BY <1>2, <2>1 DEF Spawn, FilesOK, FilesAt
<1>3. CASE Report \/ Crash
  BY <1>3 DEF Report, Crash, Stop, ProcessFresh, NoneBusy, FilesOK, FilesAt
<1>4. ASSUME NEW n \in Listed, Goroutine(n)
      PROVE  FilesOK'
  <2> USE DEF Types, RunTypes
  <2>1. CASE Fetched(n)
    <3>1. step' = [step EXCEPT ![n] = NextStep(step[n])] /\ step[n] \in Fetches
      BY <2>1 DEF Fetched, Advance, Fetches
    <3>2. \A m \in Listed : m # n => version'[m] = version[m] /\ step'[m] = step[m]
      BY <2>1, <3>1 DEF Fetched
    <3>3. step'[n] \in {"tarball", "openTarball"}
      BY <3>1 DEF NextStep, Fetches
    <3>4. UNCHANGED <<tarballs, metas, opened>>
      BY <2>1 DEF Fetched
    <3>5. QED
      BY <3>2, <3>3, <3>4 DEF FilesOK, FilesAt
  <2>2. CASE RequestFails(n)
    <3>1. step[n] \in Fetches /\ step'[n] \in Fetches \union {"none"}
      BY <2>2 DEF RequestFails, Skip, Fetches
    <3>2. \A m \in Listed : m # n => version'[m] = version[m] /\ step'[m] = step[m]
      BY <2>2 DEF RequestFails, Skip, Forget
    <3>3. QED
      BY <2>2, <3>1, <3>2 DEF RequestFails, FilesOK, FilesAt, Fetches
  <2>3. CASE RequestRefused(n) \/ WriteFails(n)
    BY <2>3 DEF RequestRefused, WriteFails, Skip, Forget, FilesOK, FilesAt
  <2>4. CASE OpenFile(n) \/ FillFile(n)
    <3>1. PICK kind \in {"tarball", "meta"}, state \in FileStates : SetFile(n, kind, state)
      BY <2>4, FileStep
    <3> HIDE DEF Types, RunTypes
    <3>2. ASSUME NEW m \in Listed, m # n
          PROVE  FilesAt(m)'
      <4>1. /\ \A v \in Versions : tarballs'[<<Safe[m], v>>] = tarballs[<<Safe[m], v>>]
            /\ metas'[Safe[m]] = metas[Safe[m]]
        BY <3>1, <3>2, OwnFiles
      <4>2. step'[m] = step[m] /\ version'[m] = version[m] /\ opened \subseteq opened'
        <5>1. step' = [step EXCEPT ![n] = NextStep(step[n])] /\ version' = version
          BY <2>4, FileStep
        <5>2. opened \subseteq opened'
          BY <2>4, FileStep
        <5>3. QED
          BY <3>2, <5>1, <5>2 DEF Types, RunTypes
      <4>3. step[m] \notin {"none", "meta"} => version[m] \in Versions
        BY ListFacts DEF Types, RunTypes, VersionOK
      <4>4. FilesAt(m)
        BY DEF FilesOK
      <4>5. QED
        BY <4>1, <4>2, <4>3, <4>4 DEF FilesAt
    <3>3. FilesAt(n)'
      <4>1. step'[n] = NextStep(step[n]) /\ version'[n] = version[n] /\ opened \subseteq opened'
        <5>1. step' = [step EXCEPT ![n] = NextStep(step[n])] /\ version' = version
          BY <2>4, FileStep
        <5>2. opened \subseteq opened'
          BY <2>4, FileStep
        <5>3. QED
          BY <5>1, <5>2 DEF Types, RunTypes
      <4>2. FilesAt(n)
        BY DEF FilesOK
      <4>3. QED
        BY <2>4, <4>1, <4>2, FileStep DEF FilesAt, NextStep, Types, RunTypes
    <3>4. QED
      BY <3>2, <3>3 DEF FilesOK
  <2>5. CASE WriteLabel(n)
    BY <2>5, SMTT(20) DEF WriteLabel, Advance, NextStep, Forget, FilesOK, FilesAt
  <2>6. CASE LabelFails(n)
    BY <2>6 DEF LabelFails, Skip, Forget, FilesOK, FilesAt
  <2>7. QED
    BY <1>4, <2>1, <2>2, <2>3, <2>4, <2>5, <2>6 DEF Goroutine
<1>5. CASE UNCHANGED importVars
  BY <1>5 DEF importVars, FilesOK, FilesAt
<1>6. QED
  BY <1>1, <1>2, <1>3, <1>4, <1>5 DEF ImportNext

LEMMA BackedInit == ImportInit => LabelsBacked
  BY DEF ImportInit, LabelsBacked

BackedAt(i) ==
  LastOfItsName(i) => FilesWhole(labels[i]) \/ (labels[i].name \in opened /\ refreshed)

\* A new line takes the place of the last one of its name.
LEMMA LineAppended ==
  ASSUME Types, NEW l \in Lines, labels' = Append(labels, l), NEW i \in DOMAIN labels',
         LastOfItsName(i)'
  PROVE  \/ i = Len(labels) + 1 /\ labels'[i] = l /\ l # TornLine
         \/ /\ i \in DOMAIN labels /\ LastOfItsName(i)
            /\ labels'[i] = labels[i] /\ l.name # labels[i].name
<1>1. labels \in Seq(Lines)
  BY DEF Types, DiskTypes
<1>2. /\ DOMAIN labels' = 1..(Len(labels) + 1) /\ DOMAIN labels = 1..Len(labels) /\ Len(labels) \in Nat
      /\ \A j \in DOMAIN labels : labels'[j] = labels[j]
      /\ labels'[Len(labels) + 1] = l
  BY <1>1
<1>3. QED
  BY <1>2 DEF LastOfItsName

LEMMA BackedNext ==
  ASSUME Types, Types', Schedule, FilesOK, LabelsBacked, [ImportNext]_importVars
  PROVE  LabelsBacked'
<1>1. ASSUME UNCHANGED <<tarballs, metas, labels>>, opened \subseteq opened', refreshed => refreshed'
      PROVE  LabelsBacked'
  BY <1>1 DEF LabelsBacked, LastOfItsName, FilesWhole
<1>2. ASSUME NEW n \in Listed, OpenFile(n) \/ FillFile(n)
      PROVE  LabelsBacked'
  <2>1. UNCHANGED <<labels, refreshed>> /\ opened \subseteq opened' /\ n \in Busy
    BY <1>2, FileStep
  <2>2. n \in opened'
    <3>1. step[n] \in {"fillTarball", "fillMeta"} => n \in opened
      BY DEF FilesOK, FilesAt
    <3>2. step[n] \in {"openTarball", "fillTarball", "openMeta", "fillMeta"}
      BY <1>2, FileStep
    <3>3. step[n] \in {"openTarball", "openMeta"} => n \in opened'
      BY <1>2, FileStep
    <3>4. QED
      BY <2>1, <3>1, <3>2, <3>3
  <2>3. PICK kind \in {"tarball", "meta"}, state \in FileStates : SetFile(n, kind, state)
    BY <1>2, FileStep
  <2>4. SUFFICES ASSUME NEW i \in DOMAIN labels, LastOfItsName(i)
                 PROVE  FilesWhole(labels[i])' \/ (labels[i].name \in opened' /\ refreshed)
    BY <2>1 DEF LabelsBacked, LastOfItsName
  <2>5. labels[i] \in Lines /\ labels[i] # TornLine /\ labels[i].name \in Labelled
    BY <2>4, LabelledFacts DEF LastOfItsName
  <2>6. labels[i].name \in Listed /\ labels[i].version \in Versions
    BY <2>5 DEF Lines
  <2>7. CASE labels[i].name = n
    BY <2>1, <2>2, <2>5, <2>7, BusyNew
  <2>8. CASE labels[i].name # n
    <3>1. FilesWhole(labels[i]) \/ (labels[i].name \in opened /\ refreshed)
      BY <2>4 DEF LabelsBacked
    <3>2. FilesWhole(labels[i]) => FilesWhole(labels[i])'
      BY <2>1, <2>3, <2>6, <2>8, OwnFiles DEF FilesWhole
    <3>3. QED
      BY <2>1, <3>1, <3>2
  <2>9. QED
    BY <2>7, <2>8
<1>3. ASSUME NEW n \in Listed, WriteLabel(n)
      PROVE  LabelsBacked'
  <2>1. /\ step[n] = "label" /\ labels' = Append(labels, Label(n, version[n]))
        /\ UNCHANGED <<tarballs, metas, refreshed>> /\ opened' = opened \ {n}
    BY <1>3 DEF WriteLabel
  <2>2. Label(n, version[n]) \in Lines
    BY <2>1, ListFacts DEF Types, RunTypes, VersionOK, Label, Lines
  <2>3. tarballs[<<Safe[n], version[n]>>] = "whole" /\ metas[Safe[n]] = "whole"
    BY <2>1 DEF FilesOK, FilesAt
  <2>4. ASSUME NEW i \in DOMAIN labels', LastOfItsName(i)'
        PROVE  BackedAt(i)'
    <3>1. CASE labels'[i] = Label(n, version[n])
      BY <2>1, <2>3, <3>1 DEF BackedAt, FilesWhole, Label
    <3>2. CASE i \in DOMAIN labels /\ LastOfItsName(i) /\ labels'[i] = labels[i] /\ labels[i].name # n
      BY <2>1, <3>2 DEF BackedAt, FilesWhole, LabelsBacked
    <3>3. QED
      BY <2>1, <2>2, <2>4, <3>1, <3>2, LineAppended DEF Label
  <2>5. QED
    BY <2>4 DEF LabelsBacked, BackedAt
<1>4. ASSUME NEW n \in Listed, LabelFails(n)
      PROVE  LabelsBacked'
  <2>1. UNCHANGED <<tarballs, metas, opened, refreshed>>
    BY <1>4 DEF LabelFails
  <2>2. CASE labels' = labels
    BY <1>1, <2>1, <2>2
  <2>3. CASE labels' = Append(labels, TornLine)
    <3>1. ASSUME NEW i \in DOMAIN labels', LastOfItsName(i)'
          PROVE  BackedAt(i)'
      <4>1. i \in DOMAIN labels /\ LastOfItsName(i) /\ labels'[i] = labels[i]
        BY <2>3, <3>1, LineAppended DEF Lines
      <4>2. QED
        BY <2>1, <4>1 DEF BackedAt, FilesWhole, LabelsBacked
    <3>2. QED
      BY <3>1 DEF LabelsBacked, BackedAt
  <2>4. QED
    BY <1>4, <2>2, <2>3 DEF LabelFails
<1>5. ASSUME NEW n \in Listed, Fetched(n) \/ RequestFails(n) \/ RequestRefused(n) \/ WriteFails(n)
      PROVE  LabelsBacked'
  BY <1>1, <1>5 DEF Fetched, RequestFails, RequestRefused, WriteFails
<1>6. ASSUME (\E again \in BOOLEAN : Start(again)) \/ Spawn \/ Report \/ Crash
      PROVE  LabelsBacked'
  BY <1>1, <1>6 DEF Start, Spawn, Report, Crash, Stop
<1>7. CASE UNCHANGED importVars
  BY <1>1, <1>7 DEF importVars
<1>8. QED
  BY <1>2, <1>3, <1>4, <1>5, <1>6, <1>7 DEF ImportNext, Goroutine

Promise == Types /\ Schedule /\ FilesOK /\ LabelsBacked

LEMMA PromiseKept == Promise /\ [ImportNext]_importVars => Promise'
<1> SUFFICES ASSUME Promise, [ImportNext]_importVars PROVE Promise'
  OBVIOUS
<1>1. Types'
  BY TypesNext DEF Promise
<1>2. QED
  BY <1>1, ScheduleNext, FilesNext, BackedNext DEF Promise

\* Whatever crashed, failed or was run again, the files a name was last labelled
\* for are whole, unless a -refresh run has opened them since.
THEOREM LabelsKept == ImportSpec => []LabelsBacked
<1>1. ImportInit => Promise
  BY TypesInit, ScheduleInit, FilesInit, BackedInit DEF Promise
<1>2. Promise => LabelsBacked
  BY DEF Promise
<1>3. QED
  BY <1>1, <1>2, PromiseKept, PTL DEF ImportSpec

-----------------------------------------------------------------------------
(* The counters. *)

Returned == {i \in pending : i <= spawned /\ step[PackageList[i]] = "none"}

CountOK ==
  /\ imported + skipped = Cardinality(Returned)
  /\ \A n \in Listed : attempts[n] <= failures["transient"]
  /\ skipped > 0 => failures["permanent"] > 0 \/ failures["transient"] >= MaxAttempts
  /\ running /\ skipped = 0 =>
       \A i \in loadPackageList(PackageList, Top) :
         PackageList[i] \in Labelled \/ i \in pending \ Returned

LEMMA CountIs == Types /\ CountOK => RunAccounted
<1> SUFFICES ASSUME Types, CountOK, AllReturned
             PROVE  RunAccounted
  BY DEF RunAccounted
<1>1. Returned = pending
  BY ListFacts DEF AllReturned, Waiting, Busy, Returned, Types, RunTypes
<1>2. QED
  BY <1>1 DEF CountOK, RunAccounted, AllReturned

LEMMA GoesOn ==
  ASSUME Types, Schedule, NEW n \in Listed, Goroutine(n), step'[n] # "none"
  PROVE  Returned' = Returned
<1>1. step[n] # "none" /\ UNCHANGED <<pending, spawned>>
  BY OneStep
<1>2. \A m \in Listed : m # n => step'[m] = step[m]
  BY OneStep DEF Types, RunTypes
<1>3. QED
  BY <1>1, <1>2, ListFacts DEF Returned, Types, RunTypes

LEMMA Returns ==
  ASSUME Types, Schedule, NEW n \in Listed, Goroutine(n), step'[n] = "none"
  PROVE  /\ Cardinality(Returned') = Cardinality(Returned) + 1
         /\ \A i \in Returned' \ Returned : PackageList[i] = n
<1>1. step[n] # "none" /\ n \in Busy /\ UNCHANGED <<pending, spawned>>
  BY OneStep
<1>2. \A m \in Listed : m # n => step'[m] = step[m]
  BY OneStep DEF Types, RunTypes
<1>3. PICK i \in pending : i <= spawned /\ PackageList[i] = n
  BY <1>1 DEF Schedule, BusyOK
<1>4. \A j \in pending : PackageList[j] = n => j = i
  BY <1>3 DEF Schedule, PendingOK
<1>5. Returned' = Returned \union {i} /\ i \notin Returned
  BY <1>1, <1>2, <1>3, <1>4, ListFacts DEF Returned, Types, RunTypes
<1>6. IsFiniteSet(Returned)
  <2>1. Returned \subseteq 1..Len(PackageList)
    BY ListFacts DEF Returned, Types, RunTypes
  <2>2. Len(PackageList) \in Nat
    BY ImportAssumption
  <2>3. IsFiniteSet(1..Len(PackageList))
    BY <2>2, FS_Interval, SMT
  <2>4. QED
    BY <2>1, <2>3, FS_Subset, Zenon
<1>7. QED
  BY <1>3, <1>5, <1>6, FS_AddElement

LEMMA CountInit == ImportInit => CountOK
<1> SUFFICES ASSUME ImportInit PROVE CountOK
  OBVIOUS
<1>1. Returned = {}
  BY DEF ImportInit, Returned
<1>2. QED
  BY <1>1, FS_EmptySet DEF ImportInit, CountOK, Zeroes, NoFailure, Kinds

\* A step after which the goroutine goes on.
LEMMA CountGoesOn ==
  ASSUME Types, Types', Schedule, CountOK, NEW n \in Listed, Goroutine(n), step'[n] # "none"
  PROVE  CountOK'
<1>1. Returned' = Returned /\ UNCHANGED <<running, pending>>
  BY GoesOn, OneStep
<1>2. Labelled' = Labelled
  BY WhoLabels
<1>3. UNCHANGED counters
  BY DEF Goroutine, Fetched, RequestFails, Skip, RequestRefused, OpenFile, FillFile, WriteFails,
     WriteLabel, Advance, NextStep, LabelFails, Types, RunTypes
<1>4. /\ failures'["permanent"] >= failures["permanent"]
      /\ failures'["transient"] >= failures["transient"]
      /\ \A m \in Listed : attempts'[m] <= failures'["transient"]
  <2> USE DEF Types, RunTypes, CounterTypes, Kinds
  <2>1. CASE Fetched(n)
    BY <2>1 DEF Fetched, CountOK
  <2>2. CASE RequestFails(n)
    BY <2>2 DEF RequestFails, Skip, Fault, CountOK
  <2>3. CASE RequestRefused(n) \/ WriteFails(n) \/ LabelFails(n)
    BY <2>3 DEF RequestRefused, WriteFails, LabelFails, Skip
  <2>4. CASE OpenFile(n) \/ FillFile(n)
    BY <2>4 DEF OpenFile, FillFile, CountOK
  <2>5. CASE WriteLabel(n)
    BY <2>5 DEF WriteLabel, Advance, NextStep
  <2>6. QED
    BY <2>1, <2>2, <2>3, <2>4, <2>5 DEF Goroutine
<1>5. QED
  BY <1>1, <1>2, <1>3, <1>4, ListFacts DEF CountOK, Types, CounterTypes, Kinds

\* A step with which the name is given up.
LEMMA CountSkipped ==
  ASSUME Types, Types', Schedule, CountOK, NEW n \in Listed, Goroutine(n), Skip(n)
  PROVE  CountOK'
<1> USE DEF Types, CounterTypes, RunTypes, Kinds
<1>1. step'[n] = "none" /\ skipped' = skipped + 1 /\ UNCHANGED imported
  BY DEF Skip
<1>2. Cardinality(Returned') = Cardinality(Returned) + 1
  BY <1>1, Returns
<1>3. \A m \in Listed : attempts'[m] <= attempts[m]
  BY DEF Skip, Forget
<1>4. /\ failures'["transient"] >= failures["transient"]
      /\ failures'["permanent"] > 0 \/ failures'["transient"] >= MaxAttempts
  <2>1. CASE RequestFails(n)
    <3>1. OutOfAttempts(attempts[n] + 1)
      BY <1>1, <2>1 DEF RequestFails
    <3>2. failures' = [failures EXCEPT !["transient"] = @ + 1]
      BY <2>1 DEF RequestFails, Fault
    <3>3. QED
      BY <3>1, <3>2, ListFacts DEF OutOfAttempts, CountOK
  <2>2. CASE RequestRefused(n) \/ WriteFails(n) \/ LabelFails(n)
    BY <2>2 DEF RequestRefused, WriteFails, LabelFails, Fault
  <2>3. CASE UNCHANGED skipped
    BY <1>1, <2>3
  <2>4. QED
    BY <2>1, <2>2, <2>3 DEF Goroutine, Fetched, OpenFile, FillFile, WriteLabel
<1>5. QED
  BY <1>1, <1>2, <1>3, <1>4, ListFacts DEF CountOK

LEMMA CountWritten ==
  ASSUME Types, Types', Schedule, CountOK, NEW n \in Listed, WriteLabel(n)
  PROVE  CountOK'
<1>1. Goroutine(n) /\ step'[n] = "none"
  BY DEF Goroutine, WriteLabel, Advance, NextStep, Types, RunTypes
<1>2. /\ Cardinality(Returned') = Cardinality(Returned) + 1
      /\ \A i \in Returned' \ Returned : PackageList[i] = n
  BY <1>1, Returns
<1>3. imported' = imported + 1 /\ UNCHANGED <<skipped, failures, running, pending>>
  BY DEF WriteLabel
<1>4. \A m \in Listed : attempts'[m] <= attempts[m]
  BY DEF WriteLabel, Forget, Types, CounterTypes
<1>5. Labelled \subseteq Labelled' /\ n \in Labelled'
  <2>1. Label(n, version[n]) \in Lines /\ Label(n, version[n]).name = n
    BY ListFacts DEF WriteLabel, Types, RunTypes, VersionOK, Label, Lines
  <2>2. Label(n, version[n]) # TornLine
    BY ImportAssumption DEF Label, TornLine
  <2>3. QED
    BY <2>1, <2>2, LabelledGrows DEF WriteLabel
<1>6. QED
  BY <1>2, <1>3, <1>4, <1>5 DEF CountOK, Types, CounterTypes, Kinds

LEMMA CountNext ==
  ASSUME Types, Types', Schedule, CountOK, [ImportNext]_importVars
  PROVE  CountOK'
<1>1. ASSUME NEW again \in BOOLEAN, Start(again)
      PROVE  CountOK'
  <2>1. /\ Returned' = {}
        /\ imported' = 0 /\ skipped' = 0 /\ attempts' = Zeroes /\ failures' = NoFailure
    BY <1>1, ListFacts DEF Start, ProcessFresh, Returned, Types, RunTypes
  <2>2. running' => pending' = Pending(again)
    BY <1>1 DEF Start
  <2>3. Labelled' = Labelled
    BY <1>1 DEF Start, Labelled
  <2>4. \A i \in loadPackageList(PackageList, Top) :
          PackageList[i] \in Labelled \/ i \in Pending(again)
    BY DEF Pending
  <2>5. QED
    BY <2>1, <2>2, <2>3, <2>4, FS_EmptySet DEF CountOK, Zeroes, NoFailure, Kinds
<1>2. CASE Spawn
  <2>1. PICK i \in Waiting : /\ \A j \in Waiting : i <= j
                             /\ spawned' = i
                             /\ step' = [step EXCEPT ![PackageList[i]] = "meta"]
    BY <1>2 DEF Spawn
  <2>2. UNCHANGED <<pending, running, labels, attempts, failures, counters>>
    BY <1>2 DEF Spawn
  <2>3. Returned' = Returned
    BY <2>1, <2>2, ListFacts DEF Returned, Waiting, Schedule, PendingOK, Types, RunTypes
  <2>4. QED
    BY <2>2, <2>3 DEF CountOK, Labelled
<1>3. CASE Report \/ Crash
  <2>1. /\ Returned' = {} /\ ~running'
        /\ imported' = 0 /\ skipped' = 0 /\ attempts' = Zeroes /\ failures' = NoFailure
    BY <1>3 DEF Returned, Report, Crash, Stop, ProcessFresh
  <2>2. QED
    BY <2>1, FS_EmptySet DEF CountOK, Zeroes, NoFailure, Kinds
<1>4. ASSUME NEW n \in Listed, Goroutine(n)
      PROVE  CountOK'
  <2>1. step'[n] # "none" \/ Skip(n) \/ WriteLabel(n)
    <3> USE DEF Types, RunTypes
    <3>1. CASE Fetched(n) \/ OpenFile(n) \/ FillFile(n)
      <4>1. step' = [step EXCEPT ![n] = NextStep(step[n])]
        BY <3>1 DEF Fetched, OpenFile, FillFile, Advance
      <4>2. step[n] \in Steps \ {"label"}
        BY <3>1 DEF Fetched, OpenFile, FillFile, Steps, Fetches
      <4>3. QED
        BY <4>1, <4>2 DEF NextStep, Steps, Fetches
    <3>2. CASE RequestFails(n)
      BY <3>2 DEF RequestFails, Fetches
    <3>3. CASE RequestRefused(n) \/ WriteFails(n) \/ LabelFails(n)
      BY <3>3 DEF RequestRefused, WriteFails, LabelFails
    <3>4. QED
      BY <1>4, <3>1, <3>2, <3>3 DEF Goroutine
  <2>2. QED
    BY <1>4, <2>1, CountGoesOn, CountSkipped, CountWritten
<1>5. CASE UNCHANGED importVars
  <2>1. Returned' = Returned
    BY <1>5 DEF importVars, Returned
  <2>2. QED
    BY <1>5, <2>1 DEF importVars, CountOK, Labelled
<1>6. QED
  BY <1>1, <1>2, <1>3, <1>4, <1>5 DEF ImportNext

\* What a run reports is what it did, for any list and any failures.
THEOREM RunsAccounted == ImportSpec => []RunAccounted
<1>1. ImportInit => Promise /\ CountOK
  BY TypesInit, ScheduleInit, FilesInit, BackedInit, CountInit DEF Promise
<1>2. Promise /\ CountOK /\ [ImportNext]_importVars => (Promise /\ CountOK)'
  BY PromiseKept, CountNext DEF Promise
<1>3. Promise /\ CountOK => RunAccounted
  BY CountIs DEF Promise
<1>4. QED
  BY <1>1, <1>2, <1>3, PTL DEF ImportSpec

-----------------------------------------------------------------------------
(***************************************************************************)
(* The pool of workers, for any corpus, any number of workers and any      *)
(* order in which they finish: each entry ends as a run at its own place   *)
(* or as a dropped one (EntriesAccounted).                                 *)
(*                                                                         *)
(* What has been fed is in the hands of exactly one worker or settled      *)
(* (HeldOK), and the two counters of runPipeline are the settled entries   *)
(* and those of them without a run (FlowOK).  The loop that collects ends  *)
(* with everything settled, so that no worker stands at a send any more.   *)
(***************************************************************************)

WorkerState == [at : {"receive", "run", "send", "exit"}, index : Nat, ok : BOOLEAN]

PoolTypes ==
  /\ Len(corpus) \in Nat /\ DOMAIN corpus = 1..Len(corpus)
  /\ fed \in 0..Len(corpus)
  /\ worker \in [DOMAIN worker -> WorkerState]
  /\ ordered \in [DOMAIN corpus -> Nat]

Holds(w, i) == worker[w].at \in {"run", "send"} /\ worker[w].index = i

HeldOK ==
  /\ \A i \in DOMAIN corpus : i > fed => ordered[i] = NoRun
  /\ \A w \in DOMAIN worker : worker[w].at \in {"run", "send"} =>
       worker[w].index \in 1..fed /\ ordered[worker[w].index] = NoRun
  /\ \A w, u \in DOMAIN worker : \A i \in 1..fed : Holds(w, i) /\ Holds(u, i) => w = u

Settled == {i \in 1..fed : \A w \in DOMAIN worker : ~Holds(w, i)}

DroppedSet == {i \in Settled : ordered[i] = NoRun}

FlowOK ==
  /\ completed = Cardinality(Settled)
  /\ droppedRuns = Cardinality(DroppedSet)
  /\ \A i \in DOMAIN corpus : ordered[i] \in {NoRun, i}

ReturnedOK ==
  returned # << >> => /\ returned = <<Kept(ordered)>>
                      /\ completed = Len(corpus) /\ corpus # << >>

PoolInv == PoolTypes /\ HeldOK /\ FlowOK /\ ReturnedOK

\* What PoolInv is about when only the other variables change.
poolState == <<corpus, fed, worker, ordered, completed, droppedRuns, returned>>

LEMMA PoolFrame == PoolInv /\ UNCHANGED poolState => PoolInv'
BY DEF poolState, PoolInv, PoolTypes, HeldOK, FlowOK, ReturnedOK, Settled, DroppedSet, Holds

LEMMA SettledFinite ==
  ASSUME PoolTypes
  PROVE  /\ IsFiniteSet(Settled) /\ IsFiniteSet(DroppedSet)
         /\ Cardinality(Settled) \in Nat /\ Cardinality(DroppedSet) \in Nat
<1>1. Settled \subseteq 1..fed /\ DroppedSet \subseteq 1..fed /\ fed \in Int
  BY DEF Settled, DroppedSet, PoolTypes
<1>2. IsFiniteSet(1..fed)
  BY <1>1, FS_Interval, SMT
<1>3. IsFiniteSet(Settled) /\ IsFiniteSet(DroppedSet)
  BY <1>1, <1>2, FS_Subset, Zenon
<1>4. QED
  BY <1>3, FS_CardinalityType

LEMMA PoolEmptied ==
  ASSUME corpus' = << >>, worker' = << >>, ordered' = << >>, returned' = << >>,
         fed' = 0, completed' = 0, droppedRuns' = 0
  PROVE  PoolInv'
<1>1. Settled' = {} /\ DroppedSet' = {}
  BY DEF Settled, DroppedSet
<1>2. PoolTypes'
  BY DEF PoolTypes, WorkerState
<1>3. HeldOK' /\ ReturnedOK'
  BY DEF HeldOK, ReturnedOK
<1>4. FlowOK'
  BY <1>1, FS_EmptySet DEF FlowOK
<1>5. QED
  BY <1>2, <1>3, <1>4 DEF PoolInv

LEMMA PoolInitially == PoolEmpty => PoolInv
<1> SUFFICES ASSUME PoolEmpty PROVE PoolInv
  OBVIOUS
<1>1. Settled = {} /\ DroppedSet = {}
  BY DEF PoolEmpty, Settled, DroppedSet
<1>2. QED
  BY <1>1, FS_EmptySet DEF PoolEmpty, PoolInv, PoolTypes, WorkerState, HeldOK, FlowOK, ReturnedOK

LEMMA PoolStarted ==
  ASSUME PoolInv, NEW E, NEW benign \in Seq(E), NEW malicious \in Seq(E),
         PoolStart(benign, malicious)
  PROVE  PoolInv'
<1>1. /\ corpus = << >> /\ corpus' = benign \o malicious
      /\ worker' = [w \in 1..Workers(corpus') |-> Receiving]
      /\ ordered' = [i \in DOMAIN corpus' |-> NoRun]
      /\ UNCHANGED <<fed, completed, droppedRuns, returned>>
  BY DEF PoolStart, LoadCorpus
<1>2. corpus' \in Seq(E)
  BY <1>1
<1>3. fed = 0 /\ returned = << >>
  BY <1>1 DEF PoolInv, PoolTypes, ReturnedOK
<1>4. Settled = {} /\ Settled' = {} /\ DroppedSet = {} /\ DroppedSet' = {}
  BY <1>1, <1>3 DEF Settled, DroppedSet
<1>5. PoolTypes'
  BY <1>1, <1>2, <1>3 DEF PoolTypes, WorkerState, Receiving, NoRun
<1>6. HeldOK'
  BY <1>1, <1>3 DEF HeldOK, Receiving, Holds
<1>7. FlowOK'
  BY <1>1, <1>4 DEF PoolInv, FlowOK
<1>8. ReturnedOK'
  BY <1>1, <1>3 DEF ReturnedOK
<1>9. QED
  BY <1>5, <1>6, <1>7, <1>8 DEF PoolInv

LEMMA JobFed ==
  ASSUME PoolInv, NEW w \in DOMAIN worker, FeedJob(w)
  PROVE  PoolInv' /\ DroppedSet' = DroppedSet
<1> USE DEF PoolInv, PoolTypes, WorkerState
<1>1. /\ worker[w].at = "receive" /\ fed < Len(corpus) /\ fed' = fed + 1
      /\ worker' = [worker EXCEPT ![w] = [at |-> "run", index |-> fed + 1, ok |-> FALSE]]
      /\ UNCHANGED <<corpus, ordered, completed, droppedRuns, returned>>
  BY DEF FeedJob
<1>2. fed + 1 \in DOMAIN corpus
  BY <1>1
<1>3. PoolTypes'
  BY <1>1, <1>2
<1>4. HeldOK'
  BY <1>1, <1>2 DEF HeldOK, Holds
<1>5. Settled' = Settled
  BY <1>1, <1>2 DEF Settled, Holds
<1>6. DroppedSet' = DroppedSet
  BY <1>1, <1>5 DEF DroppedSet
<1>7. FlowOK' /\ ReturnedOK'
  BY <1>1, <1>5, <1>6 DEF FlowOK, ReturnedOK
<1>8. QED
  BY <1>3, <1>4, <1>6, <1>7

LEMMA JobDone ==
  ASSUME PoolInv, NEW w \in DOMAIN worker, NEW ok \in BOOLEAN, Analysed(w, ok)
  PROVE  PoolInv' /\ DroppedSet' = DroppedSet
<1> USE DEF PoolInv, PoolTypes, WorkerState
<1>1. /\ worker[w].at = "run"
      /\ worker' = [worker EXCEPT ![w].at = "send", ![w].ok = ok]
      /\ UNCHANGED <<corpus, fed, ordered, completed, droppedRuns, returned>>
  BY DEF Analysed
<1>2. PoolTypes'
  BY <1>1, ZenonT(30)
<1>3. \A u \in DOMAIN worker : \A j \in 1..fed : Holds(u, j)' <=> Holds(u, j)
  BY <1>1 DEF Holds
<1>4. Settled' = Settled /\ DroppedSet' = DroppedSet
  BY <1>1, <1>3 DEF Settled, DroppedSet
<1>5. HeldOK'
  BY <1>1, <1>3 DEF HeldOK
<1>6. FlowOK' /\ ReturnedOK'
  BY <1>1, <1>4 DEF FlowOK, ReturnedOK
<1>7. QED
  BY <1>2, <1>4, <1>5, <1>6

LEMMA JobCollected ==
  ASSUME PoolInv, NEW w \in DOMAIN worker, Collect(w)
  PROVE  /\ PoolInv'
         /\ DroppedSet' = IF worker[w].ok THEN DroppedSet ELSE DroppedSet \union {worker[w].index}
<1> USE DEF PoolInv, PoolTypes, WorkerState
<1> DEFINE i == worker[w].index
<1>1. /\ worker[w].at = "send" /\ worker' = [worker EXCEPT ![w] = Receiving]
      /\ completed < Len(corpus) /\ completed' = completed + 1
      /\ UNCHANGED <<corpus, fed, returned>>
  BY DEF Collect, Collecting
<1>2. i \in 1..fed /\ i \in DOMAIN corpus /\ ordered[i] = NoRun /\ Holds(w, i)
  BY <1>1 DEF HeldOK, Holds
<1>3. \A u \in DOMAIN worker : \A j \in 1..fed : Holds(u, j)' <=> Holds(u, j) /\ u # w
  BY <1>1 DEF Holds, Receiving
<1>4. \A u \in DOMAIN worker : Holds(u, i) => u = w
  BY <1>2 DEF HeldOK
<1>5. \A j \in 1..fed : Holds(w, j) => j = i
  BY DEF Holds
<1> HIDE DEF i
<1>6. Settled' = Settled \union {i} /\ i \notin Settled
  <2>1. i \notin Settled
    BY <1>2 DEF Settled
  <2>2. \A j \in 1..fed : j \in Settled' <=> j \in Settled \/ j = i
    BY <1>1, <1>2, <1>3, <1>4, <1>5 DEF Settled
  <2>3. Settled \subseteq 1..fed /\ Settled' \subseteq 1..fed
    BY <1>1 DEF Settled
  <2>4. QED
    BY <1>2, <2>1, <2>2, <2>3
<1>7. completed' = Cardinality(Settled')
  BY <1>1, <1>6, SettledFinite, FS_AddElement DEF FlowOK
<1>8. returned = << >>
  BY <1>1 DEF ReturnedOK
<1>9. ReturnedOK'
  BY <1>1, <1>8 DEF ReturnedOK
<1>10. CASE worker[w].ok
  <2>1. ordered' = [ordered EXCEPT ![i] = i] /\ UNCHANGED droppedRuns /\ i # NoRun
    BY <1>2, <1>10 DEF Collect, Place, i, NoRun
  <2>2. PoolTypes'
    BY <1>1, <1>2, <2>1 DEF Receiving
  <2>3. DroppedSet' = DroppedSet
    BY <1>2, <1>6, <2>1 DEF DroppedSet, Settled
  <2>4. HeldOK'
    BY <1>1, <1>2, <1>3, <1>4, <2>1 DEF HeldOK, Receiving, Holds
  <2>5. FlowOK'
    BY <1>1, <1>7, <2>1, <2>3 DEF FlowOK
  <2>6. QED
    BY <1>9, <1>10, <2>2, <2>3, <2>4, <2>5
<1>11. CASE ~worker[w].ok
  <2>1. droppedRuns' = droppedRuns + 1 /\ UNCHANGED ordered
    BY <1>11 DEF Collect
  <2>2. PoolTypes'
    BY <1>1, <2>1 DEF Receiving
  <2>3. DroppedSet' = DroppedSet \union {i} /\ i \notin DroppedSet
    BY <1>2, <1>6, <2>1 DEF DroppedSet
  <2>4. HeldOK'
    BY <1>1, <1>3, <2>1 DEF HeldOK, Receiving
  <2>5. Cardinality(DroppedSet') = Cardinality(DroppedSet) + 1
    BY <2>3, SettledFinite, FS_AddElement
  <2>6. FlowOK'
    BY <1>1, <1>7, <2>1, <2>5 DEF FlowOK
  <2>7. QED
    BY <1>9, <1>11, <2>2, <2>3, <2>4, <2>6 DEF i
<1>12. QED
  BY <1>10, <1>11

LEMMA JobsOver ==
  ASSUME PoolInv, NEW w \in DOMAIN worker, WorkerExit(w)
  PROVE  PoolInv' /\ DroppedSet' = DroppedSet
<1> USE DEF PoolInv, PoolTypes, WorkerState
<1>1. /\ worker[w].at = "receive" /\ worker' = [worker EXCEPT ![w].at = "exit"]
      /\ UNCHANGED <<corpus, fed, ordered, completed, droppedRuns, returned>>
  BY DEF WorkerExit
<1>2. PoolTypes'
  BY <1>1
<1>3. \A u \in DOMAIN worker : \A j \in 1..fed : Holds(u, j)' <=> Holds(u, j)
  BY <1>1 DEF Holds
<1>4. Settled' = Settled /\ DroppedSet' = DroppedSet
  BY <1>1, <1>3 DEF Settled, DroppedSet
<1>5. HeldOK'
  BY <1>1, <1>3 DEF HeldOK
<1>6. FlowOK' /\ ReturnedOK'
  BY <1>1, <1>4 DEF FlowOK, ReturnedOK
<1>7. QED
  BY <1>2, <1>4, <1>5, <1>6

\* The counters cannot pass the end: everything completed has been fed.
LEMMA PoolReturns ==
  ASSUME PoolInv, Return
  PROVE  PoolInv' /\ DroppedSet' = DroppedSet
<1> USE DEF PoolInv
<1>1. /\ returned' = <<Kept(ordered)>> /\ corpus # << >> /\ ~(completed < Len(corpus))
      /\ UNCHANGED <<corpus, fed, worker, ordered, completed, droppedRuns>>
  BY DEF Return, Collecting
<1>2. Settled' = Settled /\ DroppedSet' = DroppedSet
  BY <1>1 DEF Settled, DroppedSet, Holds
<1>3. PoolTypes' /\ HeldOK' /\ FlowOK'
  BY <1>1, <1>2 DEF PoolTypes, HeldOK, FlowOK, Holds
<1>4. completed <= Len(corpus)
  <2>1. Settled \subseteq 1..fed /\ fed \in Nat /\ fed <= Len(corpus) /\ Len(corpus) \in Nat
    BY DEF Settled, PoolTypes
  <2>2. IsFiniteSet(1..fed) /\ Cardinality(1..fed) = fed
    BY <2>1, FS_Interval, SMT
  <2>3. Cardinality(Settled) <= fed
    BY <2>1, <2>2, FS_Subset, Zenon
  <2>4. QED
    BY <2>1, <2>3, SettledFinite DEF FlowOK
<1>5. completed \in Nat /\ Len(corpus) \in Nat
  BY SettledFinite DEF FlowOK, PoolTypes
<1>6. ReturnedOK'
  BY <1>1, <1>4, <1>5 DEF ReturnedOK
<1>7. QED
  BY <1>2, <1>3, <1>6

LEMMA PoolSteps ==
  ASSUME NEW E, NEW Splits \in SUBSET (Seq(E) \X Seq(E)), PoolInv, [PoolRuns(Splits)]_poolVars
  PROVE  PoolInv'
<1>1. CASE CloseJobs \/ UNCHANGED poolVars
  BY <1>1, PoolFrame DEF CloseJobs, poolVars, poolState
<1>2. CASE Return
  BY <1>2, PoolReturns
<1>3. CASE Leave
  BY <1>3, PoolEmptied DEF Leave
<1>4. ASSUME NEW w \in DOMAIN worker, PoolWorker(w)
      PROVE  PoolInv'
  BY <1>4, JobFed, JobDone, JobCollected, JobsOver DEF PoolWorker
<1>5. ASSUME NEW s \in Splits, PoolStart(s[1], s[2])
      PROVE  PoolInv'
  <2>1. s[1] \in Seq(E) /\ s[2] \in Seq(E)
    OBVIOUS
  <2>2. QED
    BY <1>5, <2>1, PoolStarted
<1>6. QED
  BY <1>1, <1>2, <1>3, <1>4, <1>5 DEF PoolRuns, PoolNext

\* runPipeline's last loop, as the function its definition chooses.
IsKept(kept, slots) ==
  kept = [i \in 0..Len(slots) |->
            IF i = 0 THEN << >>
            ELSE IF slots[i] = NoRun THEN kept[i - 1] ELSE Append(kept[i - 1], slots[i])]

LEMMA KeptExists ==
  ASSUME NEW slots \in Seq(Nat)
  PROVE  \E kept \in [0..Len(slots) -> Seq(Nat)] : IsKept(kept, slots)
<1> DEFINE V == Seq(Nat)
           n == Len(slots)
           G == [i \in 1..n |-> [k \in V |-> IF slots[i] = NoRun THEN k ELSE Append(k, slots[i])]]
<1>1. n \in Nat /\ << >> \in V
  OBVIOUS
<1>2. G \in [1..n -> [V -> V]]
  <2>1. \A i \in 1..n : \A k \in V : (IF slots[i] = NoRun THEN k ELSE Append(k, slots[i])) \in V
    OBVIOUS
  <2> HIDE DEF V, n
  <2> QED
    BY <2>1
<1>3. PICK r \in [0..n -> V] : IsRecursion(r, n, << >>, G)
  <2> HIDE DEF G, V, n
  <2> QED
    BY <1>1, <1>2, RecursionExists
<1>4. r = [i \in 0..n |-> IF i = 0 THEN << >> ELSE G[i][r[i - 1]]]
  BY <1>3 DEF IsRecursion
<1>5. \A i \in 0..n : i # 0 =>
        G[i][r[i - 1]] = IF slots[i] = NoRun THEN r[i - 1] ELSE Append(r[i - 1], slots[i])
  <2> SUFFICES ASSUME NEW i \in 0..n, i # 0
               PROVE  G[i][r[i - 1]] = IF slots[i] = NoRun THEN r[i - 1] ELSE Append(r[i - 1], slots[i])
    OBVIOUS
  <2> HIDE DEF n, V, G
  <2>1. i \in 1..n /\ i - 1 \in 0..n
    BY <1>1
  <2>2. r[i - 1] \in V
    BY <1>3, <2>1
  <2> QED
    BY <2>1, <2>2, Zenon DEF G
<1> HIDE DEF G
<1>6. \A i \in 0..n : r[i] = IF i = 0 THEN << >>
                             ELSE IF slots[i] = NoRun THEN r[i - 1] ELSE Append(r[i - 1], slots[i])
  BY <1>4, <1>5
<1>7. r = [i \in 0..n |-> r[i]]
  BY <1>3
<1>8. IsKept(r, slots)
  BY <1>6, <1>7, Zenon DEF IsKept
<1> QED
  BY <1>3, <1>8

\* The places without a run, up to the one at i.
Gaps(slots, i) == {j \in 1..i : slots[j] = NoRun}

LEMMA KeptFacts ==
  ASSUME NEW slots \in Seq(Nat), \A i \in 1..Len(slots) : slots[i] \in {NoRun, i}
  PROVE  /\ Kept(slots) \in Seq(Nat) /\ InCorpusOrder(Kept(slots))
         /\ Len(Kept(slots)) + Cardinality(Gaps(slots, Len(slots))) = Len(slots)
<1> DEFINE n == Len(slots)
           kept == CHOOSE kept : IsKept(kept, slots)
           Good == {i \in Nat : i <= n =>
                      /\ kept[i] \in Seq(1..i) /\ InCorpusOrder(kept[i])
                      /\ Len(kept[i]) + Cardinality(Gaps(slots, i)) = i}
<1>1. IsKept(kept, slots)
  BY KeptExists, Zenon
<1>2. Kept(slots) = kept[n]
  BY DEF Kept, IsKept
<1> HIDE DEF kept
<1>3. ASSUME NEW i \in Nat, \A m \in Nat : m < i => m \in Good
      PROVE  i \in Good
  <2> SUFFICES ASSUME i <= n
               PROVE  /\ kept[i] \in Seq(1..i) /\ InCorpusOrder(kept[i])
                      /\ Len(kept[i]) + Cardinality(Gaps(slots, i)) = i
    OBVIOUS
  <2>1. kept[i] = IF i = 0 THEN << >>
                  ELSE IF slots[i] = NoRun THEN kept[i - 1] ELSE Append(kept[i - 1], slots[i])
    <3>1. i \in 0..n
      OBVIOUS
    <3> HIDE DEF n
    <3> QED
      BY <1>1, <3>1, Zenon DEF IsKept, n
  <2>2. CASE i = 0
    <3>1. Gaps(slots, i) = {}
      BY <2>2 DEF Gaps
    <3>2. Cardinality(Gaps(slots, i)) = 0
      BY <3>1, FS_EmptySet
    <3>3. kept[i] = << >>
      BY <2>1, <2>2
    <3> QED
      BY <2>2, <3>2, <3>3 DEF InCorpusOrder
  <2>3. CASE i # 0
    <3> DEFINE k == kept[i - 1]
    <3>1. /\ k \in Seq(1..(i - 1)) /\ InCorpusOrder(k)
          /\ Len(k) + Cardinality(Gaps(slots, i - 1)) = i - 1
      BY <1>3, <2>3
    <3>2. i \in 1..n /\ i - 1 \in Nat /\ i \notin Gaps(slots, i - 1)
      BY <2>3 DEF Gaps
    <3>3. IsFiniteSet(Gaps(slots, i - 1))
      <4>1. IsFiniteSet(1..(i - 1)) /\ Gaps(slots, i - 1) \subseteq 1..(i - 1)
        BY <3>2, FS_Interval DEF Gaps
      <4> QED
        BY <4>1, FS_Subset
    <3>4. Cardinality(Gaps(slots, i - 1)) \in Nat
      BY <3>3, FS_CardinalityType
    <3> HIDE DEF k
    <3>5. k \in Seq(1..i)
      BY <3>1, <3>2
    <3>6. CASE slots[i] = NoRun
      <4>1. Gaps(slots, i) = Gaps(slots, i - 1) \union {i}
        BY <3>2, <3>6 DEF Gaps
      <4>2. Cardinality(Gaps(slots, i)) = Cardinality(Gaps(slots, i - 1)) + 1
        BY <3>2, <3>3, <4>1, FS_AddElement
      <4> QED
        BY <2>1, <2>3, <3>1, <3>4, <3>5, <3>6, <4>2 DEF k
    <3>7. CASE slots[i] # NoRun
      <4>1. Gaps(slots, i) = Gaps(slots, i - 1)
        BY <3>2, <3>7 DEF Gaps
      <4>2. kept[i] = Append(k, i)
        BY <2>1, <2>3, <3>2, <3>7 DEF k
      <4>3. InCorpusOrder(Append(k, i))
        BY <3>1, <3>2 DEF InCorpusOrder
      <4>4. Append(k, i) \in Seq(1..i) /\ Len(Append(k, i)) = Len(k) + 1 /\ Len(k) \in Nat
        BY <3>2, <3>5
      <4>5. Len(Append(k, i)) + Cardinality(Gaps(slots, i)) = i
        <5>1. Cardinality(Gaps(slots, i)) = Cardinality(Gaps(slots, i - 1))
          BY <4>1, Zenon
        <5>2. \A l, c \in Nat : l + c = i - 1 => (l + 1) + c = i
          OBVIOUS
        <5> QED
          BY <3>1, <3>4, <4>4, <5>1, <5>2, Zenon
      <4> QED
        BY <4>2, <4>3, <4>4, <4>5, Zenon
    <3> QED
      BY <3>6, <3>7
  <2> QED
    BY <2>2, <2>3
<1>4. \A i \in Nat : i \in Good
  <2> HIDE DEF Good
  <2> QED
    BY <1>3, InductionOn
<1>5. n \in Nat /\ n \in Good
  BY <1>4
<1>6. kept[n] \in Seq(1..n) /\ InCorpusOrder(kept[n]) /\ Len(kept[n]) + Cardinality(Gaps(slots, n)) = n
  BY <1>5
<1>7. kept[n] \in Seq(Nat)
  BY <1>5, <1>6
<1> QED
  BY <1>2, <1>6, <1>7

LEMMA AllAccounted == PoolInv => EntriesAccounted
<1> SUFFICES ASSUME PoolInv, returned # << >>
             PROVE  /\ Len(returned[1]) + droppedRuns = Len(corpus)
                    /\ InCorpusOrder(returned[1])
                    /\ \A w \in DOMAIN worker : worker[w].at \in {"receive", "exit"}
  BY DEF EntriesAccounted
<1> USE DEF PoolInv
<1> DEFINE n == Len(corpus)
<1>1. /\ returned = <<Kept(ordered)>> /\ Cardinality(Settled) = n
      /\ droppedRuns = Cardinality(DroppedSet)
  BY DEF ReturnedOK, FlowOK
<1>2. n \in Nat /\ fed \in 0..n /\ Settled \subseteq 1..n
  BY DEF PoolTypes, Settled
<1>3. Settled = 1..n
  <2> HIDE DEF n
  <2>1. IsFiniteSet(1..n) /\ Cardinality(1..n) = n
    BY <1>2, FS_Interval, SMT
  <2>2. QED
    BY <1>1, <1>2, <2>1, FS_Subset, Zenon
<1>4. ordered \in Seq(Nat) /\ Len(ordered) = n
  BY <1>2 DEF PoolTypes
<1>5. \A i \in 1..Len(ordered) : ordered[i] \in {NoRun, i}
  BY <1>4 DEF FlowOK, PoolTypes
<1>6. DroppedSet = Gaps(ordered, n)
  BY <1>3 DEF DroppedSet, Gaps
<1>7. \A w \in DOMAIN worker : worker[w].at \in {"receive", "exit"}
  <2> SUFFICES ASSUME NEW w \in DOMAIN worker, worker[w].at \in {"run", "send"} PROVE FALSE
    BY DEF PoolTypes, WorkerState
  <2>1. worker[w].index \in 1..fed /\ Holds(w, worker[w].index)
    BY DEF HeldOK, Holds
  <2>2. worker[w].index \in 1..n
    BY <1>2, <2>1
  <2> QED
    BY <1>3, <2>1, <2>2 DEF Settled
<1>8. QED
  BY <1>1, <1>4, <1>5, <1>6, <1>7, KeptFacts

\* Whatever the order of the results, runPipeline's answer has every entry of the
\* corpus in its place or counted as dropped, and no worker is left at its send.
THEOREM PoolAccounts ==
  ASSUME NEW E, NEW Splits \in SUBSET (Seq(E) \X Seq(E))
  PROVE  PoolSpec(Splits) => []EntriesAccounted
<1>1. PoolInv /\ [PoolRuns(Splits)]_poolVars => PoolInv'
  BY PoolSteps
<1>2. QED
  BY <1>1, PoolInitially, AllAccounted, PTL DEF PoolSpec

\* The workers are as many as runPipeline started, and each is of an entry.
ShapeOK ==
  /\ closed \in BOOLEAN
  /\ worker \in Seq(WorkerState)
  /\ Len(worker) = IF corpus = << >> THEN 0 ELSE Workers(corpus)
  /\ \A w \in DOMAIN worker : worker[w].index \in 0..fed

\* One worker's state changes.
LEMMA WorkerMoves ==
  ASSUME PoolInv, ShapeOK, NEW w \in DOMAIN worker, NEW state \in WorkerState,
         worker' = [worker EXCEPT ![w] = state], UNCHANGED <<corpus, closed>>,
         fed' \in Nat, fed <= fed', state.index <= fed'
  PROVE  ShapeOK'
<1>1. fed \in Nat /\ Len(worker) \in Nat /\ DOMAIN worker = 1..Len(worker) /\ state.index \in Nat
  BY DEF PoolInv, PoolTypes, ShapeOK, WorkerState
<1>2. worker' \in Seq(WorkerState) /\ Len(worker') = Len(worker) /\ DOMAIN worker' = DOMAIN worker
  BY <1>1 DEF ShapeOK
<1>3. \A u \in DOMAIN worker : worker'[u].index \in 0..fed'
  <2> SUFFICES ASSUME NEW u \in DOMAIN worker PROVE worker'[u].index \in 0..fed'
    OBVIOUS
  <2>1. worker'[u] = IF u = w THEN state ELSE worker[u]
    OBVIOUS
  <2>2. worker[u].index \in 0..fed
    BY DEF ShapeOK
  <2> QED
    BY <1>1, <2>1, <2>2
<1> QED
  BY <1>2, <1>3 DEF ShapeOK

LEMMA ShapeEmpty ==
  ASSUME corpus = << >>, worker = << >>, closed = FALSE
  PROVE  ShapeOK
<1>1. worker \in Seq(WorkerState) /\ Len(worker) = 0
  OBVIOUS
<1>2. \A w \in DOMAIN worker : worker[w].index \in 0..fed
  OBVIOUS
<1>3. closed \in BOOLEAN
  OBVIOUS
<1>4. Len(worker) = IF corpus = << >> THEN 0 ELSE Workers(corpus)
  BY <1>1
<1> QED
  BY <1>1, <1>2, <1>3, <1>4, Zenon DEF ShapeOK

LEMMA ShapeNext ==
  ASSUME NEW E, NEW Splits \in SUBSET (Seq(E) \X Seq(E)),
         PoolInv, ShapeOK, [PoolRuns(Splits)]_poolVars
  PROVE  ShapeOK'
<1>1. fed \in Nat /\ Len(corpus) \in Nat /\ \A w \in DOMAIN worker : worker[w] \in WorkerState /\ worker[w].index \in 0..fed
  BY DEF PoolInv, PoolTypes, ShapeOK
<1>2. CASE CloseJobs \/ Return \/ UNCHANGED poolVars
  BY <1>2 DEF ShapeOK, CloseJobs, Return, poolVars
<1>3. CASE Leave
  <2>1. corpus' = << >> /\ worker' = << >> /\ closed' = FALSE
    BY <1>3 DEF Leave
  <2> HIDE <1>3
  <2>2. worker' \in Seq(WorkerState) /\ Len(worker') = 0
    BY <2>1
  <2>3. \A w \in DOMAIN worker' : worker'[w].index \in 0..fed'
    BY <2>1
  <2>4. closed' \in BOOLEAN
    BY <2>1
  <2>5. Len(worker') = IF corpus' = << >> THEN 0 ELSE Workers(corpus')
    BY <2>1, <2>2
  <2> QED
    BY <2>2, <2>3, <2>4, <2>5, Zenon DEF ShapeOK
<1>4. ASSUME NEW w \in DOMAIN worker, PoolWorker(w)
      PROVE  ShapeOK'
  <2>1. /\ worker[w].at \in {"receive", "run", "send", "exit"} /\ worker[w].index \in 0..fed
        /\ worker[w].ok \in BOOLEAN /\ worker[w] \in WorkerState
    BY <1>1 DEF WorkerState
  <2>2. CASE FeedJob(w)
    <3>1. [at |-> "run", index |-> fed + 1, ok |-> FALSE] \in WorkerState
      BY <1>1 DEF WorkerState
    <3>2. /\ worker' = [worker EXCEPT ![w] = [at |-> "run", index |-> fed + 1, ok |-> FALSE]]
          /\ fed' = fed + 1 /\ UNCHANGED <<corpus, closed>>
      BY <2>2 DEF FeedJob
    <3>3. fed' \in Nat /\ fed <= fed' /\ [at |-> "run", index |-> fed + 1, ok |-> FALSE].index <= fed'
      BY <1>1, <3>2
    <3> QED
      BY <3>1, <3>2, <3>3, WorkerMoves, Zenon
  <2>3. ASSUME NEW ok \in BOOLEAN, Analysed(w, ok) PROVE ShapeOK'
    <3> DEFINE state == [worker[w] EXCEPT !.at = "send", !.ok = ok]
    <3>1. state \in WorkerState /\ state.index = worker[w].index
      BY <2>1 DEF WorkerState
    <3>2. worker' = [worker EXCEPT ![w] = state] /\ UNCHANGED <<corpus, closed, fed>>
      BY <2>3 DEF Analysed
    <3> HIDE DEF state
    <3>3. fed' \in Nat /\ fed <= fed' /\ state.index <= fed'
      BY <1>1, <2>1, <3>1, <3>2
    <3> QED
      BY <3>1, <3>2, <3>3, WorkerMoves, Zenon
  <2>4. CASE Collect(w)
    <3>1. Receiving \in WorkerState /\ Receiving.index = 0
      BY DEF Receiving, WorkerState
    <3>2. worker' = [worker EXCEPT ![w] = Receiving] /\ UNCHANGED <<corpus, closed, fed>>
      BY <2>4 DEF Collect
    <3>3. fed' \in Nat /\ fed <= fed' /\ Receiving.index <= fed'
      BY <1>1, <3>1, <3>2
    <3> QED
      BY <3>1, <3>2, <3>3, WorkerMoves, Zenon
  <2>5. CASE WorkerExit(w)
    <3> DEFINE state == [worker[w] EXCEPT !.at = "exit"]
    <3>1. state \in WorkerState /\ state.index = worker[w].index
      BY <2>1 DEF WorkerState
    <3>2. worker' = [worker EXCEPT ![w] = state] /\ UNCHANGED <<corpus, closed, fed>>
      BY <2>5 DEF WorkerExit
    <3> HIDE DEF state
    <3>3. fed' \in Nat /\ fed <= fed' /\ state.index <= fed'
      BY <1>1, <2>1, <3>1, <3>2
    <3> QED
      BY <3>1, <3>2, <3>3, WorkerMoves, Zenon
  <2> QED
    BY <1>4, <2>2, <2>3, <2>4, <2>5 DEF PoolWorker
<1>5. ASSUME NEW s \in Splits, PoolStart(s[1], s[2])
      PROVE  ShapeOK'
  <2>1. /\ corpus' \in Seq(E) /\ corpus' # << >>
        /\ worker' = [w \in 1..Workers(corpus') |-> Receiving] /\ UNCHANGED <<fed, closed>>
    BY <1>5 DEF PoolStart, LoadCorpus
  <2>2. Workers(corpus') \in Nat
    BY <2>1, PoolAssumption DEF Workers
  <2>3. Receiving \in WorkerState /\ Receiving.index = 0
    BY DEF Receiving, WorkerState
  <2>4. worker' \in Seq(WorkerState) /\ Len(worker') = Workers(corpus')
    BY <2>1, <2>2, <2>3
  <2>5. \A w \in DOMAIN worker' : worker'[w] = Receiving
    BY <2>1
  <2>6. \A w \in DOMAIN worker' : worker'[w].index \in 0..fed'
    <3>1. fed' \in Nat
      BY <1>1, <2>1
    <3> QED
      BY <2>3, <2>5, <3>1
  <2>7. closed' \in BOOLEAN
    BY <2>1 DEF ShapeOK
  <2> QED
    BY <2>1, <2>4, <2>6, <2>7, Zenon DEF ShapeOK
<1> QED
  BY <1>2, <1>3, <1>4, <1>5 DEF PoolRuns, PoolNext

LEMMA PoolTypesAre ==
  ASSUME PoolInv, ShapeOK
  PROVE  PoolTypeOK
<1>1. /\ fed \in Nat /\ Len(corpus) \in Nat /\ fed <= Len(corpus)
      /\ DOMAIN ordered = DOMAIN corpus
  BY DEF PoolInv, PoolTypes
<1>2. completed \in 0..fed /\ droppedRuns \in 0..completed
  <2>1. Settled \subseteq 1..fed /\ DroppedSet \subseteq Settled
    BY DEF Settled, DroppedSet
  <2>2. IsFiniteSet(1..fed) /\ Cardinality(1..fed) = fed
    BY <1>1, FS_Interval, SMT
  <2>3. IsFiniteSet(Settled) /\ Cardinality(Settled) \in Nat /\ Cardinality(DroppedSet) \in Nat
    BY SettledFinite DEF PoolInv
  <2>4. Cardinality(Settled) <= fed /\ Cardinality(DroppedSet) <= Cardinality(Settled)
    BY <2>1, <2>2, <2>3, FS_Subset, Zenon
  <2> QED
    BY <1>1, <2>3, <2>4 DEF PoolInv, FlowOK
<1>3. \A i \in DOMAIN ordered : ordered[i] \in {NoRun} \union DOMAIN corpus
  BY <1>1 DEF PoolInv, FlowOK
<1>4. \A w \in DOMAIN worker :
        /\ worker[w].at \in {"receive", "run", "send", "exit"}
        /\ worker[w].index \in 0..Len(corpus) /\ worker[w].ok \in BOOLEAN
  BY <1>1 DEF PoolInv, PoolTypes, WorkerState, ShapeOK
<1>5. Len(returned) <= 1
  <2>1. returned = << >> \/ returned = <<Kept(ordered)>>
    BY DEF PoolInv, ReturnedOK
  <2> QED
    BY <2>1
<1> QED
  BY <1>1, <1>2, <1>3, <1>4, <1>5 DEF PoolTypeOK, ShapeOK

\* The types of the pool, for any corpus and any number of workers.
THEOREM PoolTyped ==
  ASSUME NEW E, NEW Splits \in SUBSET (Seq(E) \X Seq(E))
  PROVE  PoolSpec(Splits) => []PoolTypeOK
<1>1. PoolEmpty => ShapeOK
  BY ShapeEmpty DEF PoolEmpty
<1>2. PoolInv /\ ShapeOK /\ [PoolRuns(Splits)]_poolVars => PoolInv' /\ ShapeOK'
  BY PoolSteps, ShapeNext
<1>3. PoolInv /\ ShapeOK => PoolTypeOK
  BY PoolTypesAre
<1> QED
  BY <1>1, <1>2, <1>3, PoolInitially, PTL DEF PoolSpec

-----------------------------------------------------------------------------
(***************************************************************************)
(* The calibration reads a corpus that imports may be writing: for any     *)
(* list, any corpus, any number of workers, failures, crashes and runs, it *)
(* drops only packages that cannot be unpacked, as long as no -refresh run *)
(* has taken place (DropsExplained).                                       *)
(*                                                                         *)
(* Without -refresh the files of every label, not only of the last of its  *)
(* name, stay whole (LinesOK), and a corpus is made of labels (EntriesOK); *)
(* so a worker fails only for a corrupt package (ReasonOK).                *)
(***************************************************************************)

IsCorrupt(i) == corpus[i].name \in Corrupt

ReasonOK ==
  ~refreshed =>
    /\ \A w \in DOMAIN worker : worker[w].at = "send" /\ ~worker[w].ok => IsCorrupt(worker[w].index)
    /\ \A i \in DroppedSet : IsCorrupt(i)

\* Without -refresh, a label once written stays true.
LinesOK == ~refreshed => \A i \in DOMAIN labels : labels[i] # TornLine => FilesWhole(labels[i])

EntriesOK ==
  \A i \in DOMAIN corpus : corpus[i] # TornLine /\ \E j \in DOMAIN labels : corpus[i] = labels[j]

-----------------------------------------------------------------------------
(* The labels. *)

LEMMA LinesNext ==
  ASSUME Types, Types', Schedule, FilesOK, LinesOK, [ImportNext]_importVars
  PROVE  LinesOK'
<1>1. ASSUME UNCHANGED <<tarballs, metas, labels>>, refreshed => refreshed'
      PROVE  LinesOK'
  BY <1>1 DEF LinesOK, FilesWhole
<1>2. ASSUME NEW n \in Listed, OpenFile(n) \/ FillFile(n)
      PROVE  LinesOK'
  <2>1. UNCHANGED <<labels, refreshed>> /\ n \in Busy
    BY <1>2, FileStep
  <2>2. PICK kind \in {"tarball", "meta"}, state \in FileStates : SetFile(n, kind, state)
    BY <1>2, FileStep
  <2>3. SUFFICES ASSUME ~refreshed, NEW i \in DOMAIN labels, labels[i] # TornLine
                 PROVE  FilesWhole(labels[i])'
    BY <2>1 DEF LinesOK
  <2>4. labels[i] \in Lines /\ labels[i].name \in Labelled
    BY <2>3, LabelledFacts
  <2>5. labels[i].name \in Listed /\ labels[i].version \in Versions
    BY <2>3, <2>4 DEF Lines
  <2>6. labels[i].name # n
    BY <2>1, <2>3, <2>4, BusyNew
  <2>7. FilesWhole(labels[i])
    BY <2>3 DEF LinesOK
  <2>8. QED
    BY <2>1, <2>2, <2>5, <2>6, <2>7, OwnFiles DEF FilesWhole
<1>3. ASSUME NEW n \in Listed, WriteLabel(n)
      PROVE  LinesOK'
  <2>1. /\ step[n] = "label" /\ labels' = Append(labels, Label(n, version[n]))
        /\ UNCHANGED <<tarballs, metas, refreshed>>
    BY <1>3 DEF WriteLabel
  <2>2. tarballs[<<Safe[n], version[n]>>] = "whole" /\ metas[Safe[n]] = "whole"
    BY <2>1 DEF FilesOK, FilesAt
  <2>3. labels \in Seq(Lines)
    BY DEF Types, DiskTypes
  <2>4. \A i \in DOMAIN labels' :
          labels'[i] = Label(n, version[n]) \/ (i \in DOMAIN labels /\ labels'[i] = labels[i])
    BY <2>1, <2>3
  <2>5. QED
    BY <2>1, <2>2, <2>4 DEF LinesOK, FilesWhole, Label
<1>4. ASSUME NEW n \in Listed, LabelFails(n)
      PROVE  LinesOK'
  <2>1. UNCHANGED <<tarballs, metas, refreshed>>
    BY <1>4 DEF LabelFails
  <2>2. labels \in Seq(Lines) /\ (labels' = labels \/ labels' = Append(labels, TornLine))
    BY <1>4 DEF LabelFails, Types, DiskTypes
  <2>3. \A i \in DOMAIN labels' :
          labels'[i] = TornLine \/ (i \in DOMAIN labels /\ labels'[i] = labels[i])
    BY <2>2
  <2>4. QED
    BY <2>1, <2>3 DEF LinesOK, FilesWhole
<1>5. ASSUME NEW n \in Listed, Fetched(n) \/ RequestFails(n) \/ RequestRefused(n) \/ WriteFails(n)
      PROVE  LinesOK'
  BY <1>1, <1>5 DEF Fetched, RequestFails, RequestRefused, WriteFails
<1>6. ASSUME (\E again \in BOOLEAN : Start(again)) \/ Spawn \/ Report \/ Crash
      PROVE  LinesOK'
  BY <1>1, <1>6 DEF Start, Spawn, Report, Crash, Stop
<1>7. CASE UNCHANGED importVars
  BY <1>1, <1>7 DEF importVars
<1>8. QED
  BY <1>2, <1>3, <1>4, <1>5, <1>6, <1>7 DEF ImportNext, Goroutine

\* labels.jsonl only grows.
LEMMA LabelsKeep ==
  ASSUME Types, [ImportNext]_importVars
  PROVE  /\ \A j \in DOMAIN labels : j \in DOMAIN labels' /\ labels'[j] = labels[j]
         /\ refreshed => refreshed'
<1>1. labels \in Seq(Lines)
  BY DEF Types, DiskTypes
<1>2. UNCHANGED labels \/ \E l : labels' = Append(labels, l)
  BY DEF ImportNext, Start, Spawn, Report, Crash, Stop, Goroutine, Fetched, RequestFails,
     RequestRefused, OpenFile, FillFile, WriteFails, WriteLabel, LabelFails, importVars
<1>3. refreshed => refreshed'
  BY DEF ImportNext, Start, Spawn, Report, Crash, Stop, Goroutine, Fetched, RequestFails,
     RequestRefused, OpenFile, FillFile, WriteFails, WriteLabel, LabelFails, importVars
<1>4. QED
  BY <1>1, <1>2, <1>3

-----------------------------------------------------------------------------
(* The pool on the labels. *)

\* What concerns the labels and the history only.
LEMMA LabelsOnly ==
  ASSUME UNCHANGED poolVars, refreshed => refreshed', ReasonOK
  PROVE  ReasonOK'
<1>1. DroppedSet' = DroppedSet
  BY DEF poolVars, DroppedSet, Settled, Holds
<1>2. QED
  BY <1>1 DEF poolVars, ReasonOK, IsCorrupt

\* A worker fails only for a corrupt package, as long as the labels are true.
LEMMA Tried ==
  ASSUME PoolInv, ReasonOK, LinesOK, EntriesOK, UNCHANGED refreshed,
         NEW w \in DOMAIN worker, Analyse(w)
  PROVE  PoolInv' /\ ReasonOK'
<1> DEFINE i == worker[w].index
           ok == Readable(corpus[i])
<1>1. /\ worker[w].at = "run" /\ Analysed(w, ok)
      /\ worker' = [worker EXCEPT ![w].at = "send", ![w].ok = ok]
      /\ UNCHANGED corpus
  BY DEF Analyse, Analysed
<1>2. ok \in BOOLEAN
  BY DEF Readable, loadMeta
<1>3. i \in DOMAIN corpus
  BY <1>1 DEF PoolInv, PoolTypes, HeldOK
<1>4. ~refreshed /\ ~ok => IsCorrupt(i)
  <2>1. corpus[i] # TornLine /\ \E j \in DOMAIN labels : corpus[i] = labels[j]
    BY <1>3 DEF EntriesOK
  <2>2. ~refreshed => FilesWhole(corpus[i])
    BY <2>1 DEF LinesOK
  <2>3. QED
    BY <2>2 DEF FilesWhole, Readable, loadMeta, IsCorrupt
<1> HIDE DEF i, ok
<1>5. PoolInv' /\ DroppedSet' = DroppedSet
  BY <1>1, <1>2, JobDone
<1>6. worker \in [DOMAIN worker -> WorkerState]
  BY DEF PoolInv, PoolTypes
<1>7. ReasonOK'
  BY <1>1, <1>2, <1>4, <1>5, <1>6 DEF ReasonOK, IsCorrupt, WorkerState, i
<1>8. QED
  BY <1>5, <1>7

LEMMA Taken ==
  ASSUME PoolInv, ReasonOK, UNCHANGED refreshed, NEW w \in DOMAIN worker,
         FeedJob(w) \/ Collect(w) \/ WorkerExit(w)
  PROVE  PoolInv' /\ ReasonOK'
<1>1. worker \in [DOMAIN worker -> WorkerState]
  BY DEF PoolInv, PoolTypes
<1>2. CASE FeedJob(w)
  <2>1. PoolInv' /\ DroppedSet' = DroppedSet
    BY <1>2, JobFed
  <2>2. /\ worker' = [worker EXCEPT ![w] = [at |-> "run", index |-> fed', ok |-> FALSE]]
        /\ UNCHANGED corpus
    BY <1>2 DEF FeedJob
  <2>3. QED
    BY <1>1, <2>1, <2>2 DEF ReasonOK, IsCorrupt, WorkerState
<1>3. CASE Collect(w)
  <2>1. /\ PoolInv'
        /\ DroppedSet' = IF worker[w].ok THEN DroppedSet ELSE DroppedSet \union {worker[w].index}
    BY <1>3, JobCollected
  <2>2. worker[w].at = "send" /\ worker' = [worker EXCEPT ![w] = Receiving] /\ UNCHANGED corpus
    BY <1>3 DEF Collect
  <2>3. QED
    BY <1>1, <2>1, <2>2 DEF ReasonOK, IsCorrupt, Receiving, WorkerState
<1>4. CASE WorkerExit(w)
  <2>1. PoolInv' /\ DroppedSet' = DroppedSet
    BY <1>4, JobsOver
  <2>2. worker' = [worker EXCEPT ![w].at = "exit"] /\ UNCHANGED corpus
    BY <1>4 DEF WorkerExit
  <2>3. QED
    BY <1>1, <2>1, <2>2 DEF ReasonOK, IsCorrupt, WorkerState
<1>5. QED
  BY <1>2, <1>3, <1>4

-----------------------------------------------------------------------------
(* The composition. *)

CorpusInv == Promise /\ LinesOK /\ EntriesOK /\ PoolInv /\ ReasonOK

LEMMA CorpusInitially == CorpusInit => CorpusInv
<1> SUFFICES ASSUME CorpusInit PROVE CorpusInv
  OBVIOUS
<1>1. Promise
  BY TypesInit, ScheduleInit, FilesInit, BackedInit DEF CorpusInit, Promise
<1>2. LinesOK /\ EntriesOK
  BY DEF CorpusInit, ImportInit, PoolEmpty, LinesOK, EntriesOK
<1>3. DroppedSet = {}
  BY DEF CorpusInit, PoolEmpty, DroppedSet, Settled
<1>4. PoolInv /\ ReasonOK
  BY <1>3, PoolInitially DEF CorpusInit, PoolEmpty, ReasonOK
<1>5. QED
  BY <1>1, <1>2, <1>4 DEF CorpusInv

LEMMA CorpusSteps == CorpusInv /\ [CorpusNext]_corpusVars => CorpusInv'
<1> SUFFICES ASSUME CorpusInv, [CorpusNext]_corpusVars PROVE CorpusInv'
  OBVIOUS
<1> USE DEF CorpusInv
<1>1. CASE [ImportNext]_importVars /\ UNCHANGED poolVars
  <2>1. Promise'
    BY <1>1, PromiseKept
  <2>2. LinesOK'
    BY <1>1, <2>1, LinesNext DEF Promise
  <2>3. /\ \A j \in DOMAIN labels : j \in DOMAIN labels' /\ labels'[j] = labels[j]
        /\ refreshed => refreshed'
    BY <1>1, LabelsKeep DEF Promise
  <2>4. EntriesOK'
    BY <1>1, <2>3 DEF EntriesOK
  <2>5. PoolInv' /\ ReasonOK'
    BY <1>1, <2>3, LabelsOnly, PoolFrame DEF poolVars, poolState
  <2>6. QED
    BY <2>1, <2>2, <2>4, <2>5
<1>2. CASE UNCHANGED importVars /\ (Calibrate \/ PoolStep)
  <2>1. Promise'
    BY <1>2, PromiseKept
  <2>2. LinesOK'
    BY <1>2 DEF importVars, LinesOK, FilesWhole
  <2>3. UNCHANGED <<labels, refreshed>>
    BY <1>2 DEF importVars
  <2>4. CASE Calibrate
    <3>1. CASE calibrator' = "started"
      <4>2. /\ labels \in Seq(Lines) /\ corpus' = labels \o << >>
            /\ TornLine \notin Range(labels) /\ PoolStart(labels, << >>)
        BY <2>4, <3>1 DEF Promise, Types, DiskTypes, Calibrate, PoolStart, LoadCorpus
      <4>1. PoolInv' /\ ReasonOK'
        <5>1. << >> \in Seq(Lines)
          OBVIOUS
        <5>2. PoolInv'
          BY <4>2, <5>1, PoolStarted
        <5>3. corpus = << >> /\ worker' = [w \in 1..Workers(corpus') |-> Receiving] /\ UNCHANGED fed
          BY <4>2 DEF PoolStart
        <5>4. DroppedSet' = {}
          BY <5>3 DEF PoolInv, PoolTypes, DroppedSet, Settled
        <5>5. QED
          BY <5>2, <5>3, <5>4 DEF ReasonOK, Receiving
      <4>3. \A i \in DOMAIN corpus' : i \in DOMAIN labels /\ corpus'[i] = labels[i]
        BY <4>2
      <4>4. EntriesOK'
        BY <2>3, <4>2, <4>3 DEF EntriesOK, Range
      <4>5. QED
        BY <2>1, <2>2, <4>1, <4>4
    <3>2. CASE UNCHANGED poolVars
      BY <2>1, <2>2, <2>3, <3>2, LabelsOnly, PoolFrame DEF EntriesOK, poolVars, poolState
    <3>3. QED
      BY <2>4, <3>1, <3>2 DEF Calibrate
  <2>5. CASE CloseJobs \/ Return
    <3>1. UNCHANGED <<corpus, fed, worker, ordered, droppedRuns>>
      BY <2>5 DEF CloseJobs, Return
    <3>2. PoolInv'
      BY <2>5, PoolReturns, PoolFrame DEF CloseJobs, poolState
    <3>3. DroppedSet' = DroppedSet
      BY <3>1 DEF DroppedSet, Settled, Holds
    <3>4. QED
      BY <2>1, <2>2, <2>3, <3>1, <3>2, <3>3 DEF EntriesOK, ReasonOK, IsCorrupt
  <2>6. CASE Leave
    <3>1. PoolInv' /\ corpus' = << >> /\ worker' = << >> /\ fed' = 0
      BY <2>6, PoolEmptied DEF Leave
    <3>2. DroppedSet' = {}
      BY <3>1 DEF DroppedSet, Settled
    <3>3. QED
      BY <2>1, <2>2, <3>1, <3>2 DEF EntriesOK, ReasonOK
  <2>7. ASSUME NEW w \in DOMAIN worker, FeedJob(w) \/ Analyse(w) \/ Collect(w) \/ WorkerExit(w)
        PROVE  CorpusInv'
    <3>1. PoolInv' /\ ReasonOK'
      BY <2>3, <2>7, Tried, Taken
    <3>2. UNCHANGED corpus
      BY <2>7 DEF FeedJob, Analyse, Analysed, Collect, WorkerExit
    <3>3. QED
      BY <2>1, <2>2, <2>3, <3>1, <3>2 DEF EntriesOK
  <2>8. QED
    BY <1>2, <2>4, <2>5, <2>6, <2>7 DEF PoolStep
<1>3. QED
  BY <1>1, <1>2 DEF CorpusNext, corpusVars, Calibrate

LEMMA DropsAre == CorpusInv => DropsExplained
<1> SUFFICES ASSUME CorpusInv, ~refreshed
             PROVE  droppedRuns <= Cardinality({i \in DOMAIN corpus : corpus[i].name \in Corrupt})
  BY DEF DropsExplained
<1> DEFINE bad == {i \in DOMAIN corpus : corpus[i].name \in Corrupt}
<1> USE DEF CorpusInv, PoolInv
<1>1. DOMAIN corpus = 1..Len(corpus) /\ Len(corpus) \in Int /\ fed \in 0..Len(corpus)
  BY DEF PoolTypes
<1>2. DroppedSet \subseteq bad
  BY <1>1 DEF ReasonOK, DroppedSet, Settled, IsCorrupt
<1>3. IsFiniteSet(1..Len(corpus))
  BY <1>1, FS_Interval, SMT
<1>4. IsFiniteSet(bad)
  BY <1>1, <1>3, FS_Subset, Zenon
<1>5. Cardinality(DroppedSet) <= Cardinality(bad)
  BY <1>2, <1>4, FS_Subset, Zenon
<1>6. QED
  BY <1>5 DEF FlowOK

\* Without -refresh the analysis drops no package but those it cannot unpack,
\* however imports and their crashes lie around it.
THEOREM OnlyCorruptDropped == CorpusSpec => []DropsExplained
  BY CorpusInitially, CorpusSteps, DropsAre, PTL DEF CorpusSpec

\* The labels keep their promise while the corpus is read.
THEOREM LabelsKeptInCorpus == CorpusSpec => []LabelsBacked
<1>1. CorpusInv => LabelsBacked
  BY DEF CorpusInv, Promise
<1>2. QED
  BY CorpusInitially, CorpusSteps, <1>1, PTL DEF CorpusSpec

\* An analysis started at any time is, of itself, an analysis of the pool, and the
\* imports around it are imports as they are without it.
THEOREM CorpusComposes ==
  CorpusSpec => /\ ImportInit /\ [][ImportNext]_importVars
                /\ PoolSpec(Seq(Lines) \X Seq(Lines))
<1> DEFINE Splits == Seq(Lines) \X Seq(Lines)
<1>1. CorpusInit => ImportInit /\ PoolEmpty
  BY DEF CorpusInit
<1>2. ASSUME CorpusInv, [CorpusNext]_corpusVars
      PROVE  [ImportNext]_importVars /\ [PoolRuns(Splits)]_poolVars
  <2>1. CASE ImportNext /\ UNCHANGED poolVars
    BY <2>1
  <2>2. CASE Calibrate
    <3>1. UNCHANGED importVars
      BY <2>2 DEF Calibrate
    <3>2. CASE PoolStart(labels, << >>)
      <4>1. labels \in Seq(Lines)
        BY <1>2 DEF CorpusInv, Promise, Types, DiskTypes
      <4>2. << >> \in Seq(Lines)
        OBVIOUS
      <4>4. <<labels, << >> >> \in Splits
        BY <4>1, <4>2
      <4>3. <<labels, << >> >>[1] = labels /\ <<labels, << >> >>[2] = << >>
        OBVIOUS
      <4>5. PoolRuns(Splits)
        BY <3>2, <4>3, <4>4, Zenon DEF PoolRuns
      <4> QED
        BY <3>1, <4>5
    <3>3. CASE UNCHANGED poolVars
      BY <3>1, <3>3
    <3> QED
      BY <2>2, <3>2, <3>3 DEF Calibrate
  <2>3. CASE PoolStep /\ UNCHANGED importVars
    <3>1. ASSUME NEW w \in DOMAIN worker, FeedJob(w) \/ Analyse(w) \/ Collect(w) \/ WorkerExit(w)
          PROVE  PoolWorker(w)
      <4>1. Analyse(w) => \E ok \in BOOLEAN : Analysed(w, ok)
        <5>1. \A e : Readable(e) \in BOOLEAN
          BY DEF Readable, loadMeta
        <5> QED
          BY <5>1 DEF Analyse
      <4> QED
        BY <3>1, <4>1 DEF PoolWorker
    <3> QED
      BY <2>3, <3>1 DEF PoolStep, PoolRuns, PoolNext
  <2>4. CASE UNCHANGED corpusVars
    BY <2>4 DEF corpusVars
  <2> QED
    BY <1>2, <2>1, <2>2, <2>3, <2>4 DEF CorpusNext
<1> QED
  BY <1>1, <1>2, CorpusInitially, CorpusSteps, PTL DEF CorpusSpec, PoolSpec

\* Imports, crashes and all, the analysis they meet with loses no entry.
THEOREM CorpusAccounts == CorpusSpec => []EntriesAccounted
<1>1. PoolSpec(Seq(Lines) \X Seq(Lines)) => []EntriesAccounted
  BY PoolAccounts
<1> QED
  BY <1>1, CorpusComposes, PTL

\* The types of both.
THEOREM CorpusTyped == CorpusSpec => [](ImportTypeOK /\ PoolTypeOK)
<1>1. PoolSpec(Seq(Lines) \X Seq(Lines)) => []PoolTypeOK
  BY PoolTyped
<1> QED
  BY <1>1, CorpusComposes, TypesInit, TypesNext, TypesAre, PTL
=============================================================================
