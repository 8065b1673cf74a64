-------------------------------- MODULE Corpus --------------------------------
(***************************************************************************)
(* The calibration tools on one corpus directory: import-benign (Import)   *)
(* fills dataset/benign, and calibrate (Pool) loads its labels and         *)
(* analyses the files they name, while the import runs, crashes or runs    *)
(* again.  Nothing but the files connects the two.                         *)
(***************************************************************************)
EXTENDS Import, Pool

CONSTANTS
  Corrupt   \* names whose tarball the extractor rejects

VARIABLES
  calibrator   \* "new", "started", "refused", "done": one run of tools/calibrate

corpusVars == <<importVars, poolVars, calibrator>>

CorpusInit == ImportInit /\ PoolEmpty /\ calibrator = "new"

\* loadSplit: a line that does not parse fails the whole corpus.
Calibrate ==
  /\ calibrator = "new" /\ labels # << >>
  /\ \/ /\ TornLine \in Range(labels)
        /\ calibrator' = "refused"
        /\ UNCHANGED poolVars
     \/ /\ TornLine \notin Range(labels)
        /\ calibrator' = "started"
        /\ PoolStart(labels, << >>)
  /\ UNCHANGED importVars

\* Metadata without a file are absent; a file has to parse.
loadMeta(entry) == metas[Safe[entry.name]] # "torn"

\* Runner.Run ends with a run if it can read and unpack what the label names.
Readable(entry) ==
  /\ tarballs[<<Safe[entry.name], entry.version>>] = "whole"
  /\ loadMeta(entry)
  /\ entry.name \notin Corrupt

Analyse(w) ==
  /\ worker[w].at = "run"
  /\ Analysed(w, Readable(corpus[worker[w].index]))

PoolStep ==
  \/ (CloseJobs \/ Return) /\ UNCHANGED calibrator
  \/ Leave /\ calibrator' = "done"
  \/ /\ \E w \in DOMAIN worker : FeedJob(w) \/ Analyse(w) \/ Collect(w) \/ WorkerExit(w)
     /\ UNCHANGED calibrator

CorpusNext ==
  \/ ImportNext /\ UNCHANGED <<poolVars, calibrator>>
  \/ Calibrate
  \/ PoolStep /\ UNCHANGED importVars

CorpusSpec == CorpusInit /\ [][CorpusNext]_corpusVars

-----------------------------------------------------------------------------
(* Properties. *)

\* The analysis loses no package a plain import labelled: it may start, and read
\* the files, at any moment of any import, and drops an entry only because the
\* package itself cannot be unpacked or a -refresh run is writing its files.
DropsExplained ==
  ~refreshed => droppedRuns <= Cardinality({i \in DOMAIN corpus : corpus[i].name \in Corrupt})
=============================================================================
