------------------------------ MODULE MCParts -------------------------------
(* What works behind the handlers and beside them, one component at a time:   *)
(* the SIEM emitter and its shutdown, a download and its analysis, the runs   *)
(* of import-benign, or the pool of calibrate.                                *)
EXTENDS Siem, MCDownload, Import, Pool

CONSTANTS r1, r2

MCPackageList == <<"p", "p", "q", "r">>
MCSafe == [n \in {"p", "q", "r"} |-> n]
MCMaxVersion == [n \in {"p", "q", "r"} |-> IF n = "p" THEN 2 ELSE 1]

\* Two of the entries are benign; three workers or one, and two jobs or three.
MCSplits == {<<<<"p", "q">>, <<"m", "o">>>>, <<<<"p">>, << >>>>}

VARIABLE part

all == <<vars, downloadVars, importVars, poolVars, part>>

OthersStay(p) ==
    /\ part = p
    /\ IF p = "siem" THEN TRUE ELSE UNCHANGED vars
    /\ IF p = "download" THEN TRUE ELSE UNCHANGED downloadVars
    /\ IF p = "import" THEN TRUE ELSE UNCHANGED importVars
    /\ IF p = "pool" THEN TRUE ELSE UNCHANGED poolVars
    /\ UNCHANGED part

PartsInit ==
    /\ part \in {"siem", "download", "import", "pool"}
    /\ Init /\ (part = "siem" \/ sinks = Emitters(TRUE))
    /\ IF part = "download" THEN DownloadInit
       ELSE pc = "done" /\ Idle /\ case = CHOOSE c \in Cases : TRUE
    /\ ImportInit /\ PoolEmpty

Answering(r) == OthersStay("siem") /\ HandlerStep(r)
ShuttingDown == OthersStay("siem") /\ MainStep
Analysing == OthersStay("download") /\ AnalysisStep
Importing == OthersStay("import") /\ ImportStep
Pooling == OthersStay("pool") /\ PoolNext

\* The emitter's process may stop, the import may not be run again.
Stopped ==
    /\ part = "siem" \/ (part = "import" /\ ~running)
    /\ UNCHANGED all

PartsNext ==
    \/ OthersStay("siem") /\ Next
    \/ OthersStay("download") /\ DownloadNext
    \/ OthersStay("import") /\ ImportNext
    \/ OthersStay("pool") /\ PoolRuns(MCSplits)
    \/ Stopped

PartsSpec ==
    /\ PartsInit /\ [][PartsNext]_all
    /\ \A r \in Requests : WF_all(Answering(r))
    /\ WF_all(ShuttingDown)
    /\ WF_all(Analysing) /\ WF_all(Importing) /\ WF_all(Pooling)

\* Every variable stays in its type.
PartsTypeOK == TypeOK /\ DownloadTypeOK /\ ImportTypeOK /\ PoolTypeOK
=============================================================================
