---------------------------- MODULE MCAlgorithms ----------------------------
(* The algorithms and the offline tools, one at a time: a source grows and is *)
(* scrubbed, a tree of names grows and is searched, a list of popular names   *)
(* is loaded and a name checked, the signals of a package become a verdict,   *)
(* weights are searched, or a corpus is imported and analysed.                *)
EXTENDS JsLex, MCTyposquat, Policy, MCSearch, Corpus

Scored(r, score) == [rule |-> r, score |-> score, veto |-> FALSE]

\* Signals with scores taken from configs/proxy.yaml.
MCLayer1Signals ==
  {OSV, New, Scored("typosquat_close", 55), Scored("license_patch_change", 15),
   Scored("anomaly_version_spike", 20)}

MCPostSignals ==
  {[rule |-> "install_script_curl_pipe_", score |-> 0, veto |-> TRUE], Script, Exec,
   Scored("install_script_child_process_", 20), Scored("install_script_external_url_", 8),
   Scored("obfuscation_high_entropy", 30), Scored("sink_with_obfuscation", 55),
   Scored("version_diff_new_dependency", 35)}

MCComboScore ==
  [typosquat_with_install_script |-> 20, install_script_with_exec |-> 20,
   install_script_with_network |-> 15, install_script_with_obfuscation |-> 20]

MCList == <<"p", "p", "q">>
MCSafe == [n \in {"p", "q"} |-> n]
MCMaxVersion == [n \in {"p", "q"} |-> IF n = "p" THEN 2 ELSE 1]

VARIABLE part

parts == <<src, typoVars, vars, calibVars, corpusVars, part>>

OthersStay(p) ==
  /\ part = p
  /\ IF p = "source" THEN TRUE ELSE UNCHANGED src
  /\ IF p \in {"tree", "names"} THEN TRUE ELSE UNCHANGED typoVars
  /\ IF p = "verdict" THEN TRUE ELSE UNCHANGED vars
  /\ IF p = "search" THEN TRUE ELSE UNCHANGED calibVars
  /\ IF p = "corpus" THEN TRUE ELSE UNCHANGED corpusVars
  /\ UNCHANGED part

AlgInit ==
  /\ part \in {"source", "tree", "names", "verdict", "search", "corpus"}
  /\ LexInit /\ TypoInit /\ Init /\ CorpusInit
  /\ SearchInit /\ (part = "search" \/ analysed = CHOOSE c \in Corpora : TRUE)

TreeGrows ==
  \/ \E w \in MCTreeWords : NextWord(w) \/ Search(w) \/ Visit(w)
  \/ Insert \/ Check

AlgNext ==
  \/ OthersStay("source") /\ LexNext
  \/ OthersStay("tree") /\ TreeGrows /\ UNCHANGED <<lines, scopeCount, asked, early>>
  \/ OthersStay("names") /\ TypoNext
  \/ OthersStay("verdict") /\ Next
  \/ OthersStay("search") /\ SearchNext
  \/ OthersStay("corpus") /\ CorpusNext

AlgSpec == AlgInit /\ [][AlgNext]_parts

\* Every variable stays in its type.
AlgTypeOK == TypoTypeOK /\ TypeOK /\ SearchTypeOK /\ ImportTypeOK /\ PoolTypeOK
=============================================================================
