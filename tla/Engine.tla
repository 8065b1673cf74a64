-------------------------------- MODULE Engine --------------------------------
(***************************************************************************)
(* The policy engine (internal/policy) and the combination signals         *)
(* (internal/analyzer/combo.go), as operators on a Result.  The proxy asks *)
(* it for verdicts (Policy) and the calibration replays recorded signals   *)
(* through it (Search).                                                    *)
(*                                                                         *)
(* A Result is kept as what the engine reads of it: whether a veto fired,  *)
(* the uncapped sum of the scores and the set of rule names.  Scores are   *)
(* integers, hundredths of the code's float64.  A rule is one              *)
(* representative of each class of names the code tells apart.             *)
(***************************************************************************)
EXTENDS Verdicts, FiniteSets

CONSTANTS
  AllowThreshold,   \* policy.allow_threshold, in hundredths
  BlockThreshold,   \* policy.block_threshold, in hundredths
  MinCategories,    \* policy.min_categories
  ComboScore        \* the score of each combination rule

Combos == {"typosquat_with_install_script", "install_script_with_exec",
           "install_script_with_network", "install_script_with_obfuscation"}

TyposquatRules  == {"typosquat_close", "typosquat_with_install_script"}
HookRules       == {"install_script_present", "install_script_curl_pipe_",
                    "install_script_child_process_",
                    "install_script_external_url_"}
InstallRules    == HookRules \union (Combos \ {"typosquat_with_install_script"})
ExecRules       == {"capability_exec", "install_script_child_process_"}
NetworkRules    == {"install_script_external_url_"}
ObfuscationRules == {"obfuscation_high_entropy", "sink_with_obfuscation"}

Rules == TyposquatRules \union InstallRules \union ExecRules
           \union NetworkRules \union ObfuscationRules
           \union {"osv_known_vulnerability", "metadata_new_package",
                   "license_patch_change", "anomaly_version_spike",
                   "version_diff_new_dependency"}

ASSUME ThresholdAssumption ==
  /\ AllowThreshold \in Nat
  /\ BlockThreshold \in Nat
  /\ AllowThreshold <= BlockThreshold
  /\ BlockThreshold <= 100
  /\ MinCategories \in Nat

-----------------------------------------------------------------------------
(* The policy engine. *)

Result == [veto : BOOLEAN, sum : Nat, rules : SUBSET Rules]

EmptyResult == [veto |-> FALSE, sum |-> 0, rules |-> {}]

Add(res, s) == [veto  |-> res.veto \/ s.veto,
                sum   |-> res.sum + s.score,
                rules |-> res.rules \union {s.rule}]

TotalScore(res) == IF res.sum > 100 THEN 100 ELSE res.sum

ruleCategory(rule) ==
  CASE rule \in Combos               -> "combo"
    [] rule \in TyposquatRules       -> "typosquat"
    [] rule \in {"metadata_new_package", "license_patch_change"} -> "metadata"
    [] rule = "anomaly_version_spike" -> "anomaly"
    [] rule \in InstallRules         -> "install"
    [] rule = "capability_exec"      -> "capability"
    [] rule = "sink_with_obfuscation" -> "sink"
    [] rule = "version_diff_new_dependency" -> "version_diff"
    [] OTHER                         -> "other"

Categories(rules) == {ruleCategory(rule) : rule \in rules}

GatePasses(rules) ==
  MinCategories <= 1 \/ Cardinality(Categories(rules)) >= MinCategories

Decide(res) ==
  CASE res.veto                              -> "block"
    [] ~res.veto /\ TotalScore(res) >= BlockThreshold -> "block"
    [] ~res.veto /\ TotalScore(res) < BlockThreshold
         /\ TotalScore(res) >= AllowThreshold
         /\ GatePasses(res.rules)            -> "warn"
    [] OTHER                                 -> "allow"

-----------------------------------------------------------------------------
(* The combination signals. *)

Fires(rules, classA, classB) ==
  rules \intersect classA # {} /\ rules \intersect classB # {}

\* A typosquat_ name is tested before install_script_, so the combination rule
\* typosquat_with_install_script counts as a typosquat.
CombosOf(rules) ==
  {c \in Combos :
     /\ ComboScore[c] > 0
     /\ c \notin rules
     /\ \/ /\ c = "typosquat_with_install_script"
           /\ Fires(rules, TyposquatRules, InstallRules)
        \/ /\ c = "install_script_with_exec"
           /\ Fires(rules, InstallRules, ExecRules)
        \/ /\ c = "install_script_with_network"
           /\ Fires(rules, InstallRules, NetworkRules)
        \/ /\ c = "install_script_with_obfuscation"
           /\ Fires(rules, InstallRules, ObfuscationRules)}

ScoreOf(c, fired) == IF c \in fired THEN ComboScore[c] ELSE 0

ComboSum(fired) ==
  ScoreOf("typosquat_with_install_script", fired)
    + ScoreOf("install_script_with_exec", fired)
    + ScoreOf("install_script_with_network", fired)
    + ScoreOf("install_script_with_obfuscation", fired)

\* Slip: the combinations go into a Result of their own.
AddComboSignalsApart(res) ==
  LET fired == CombosOf(res.rules)
  IN  [veto |-> res.veto, sum |-> ComboSum(fired), rules |-> fired]

AddComboSignals(res) ==
  LET fired == CombosOf(res.rules)
  IN  [veto  |-> res.veto,
       sum   |-> res.sum + ComboSum(fired),
       rules |-> res.rules \union fired]
=============================================================================
