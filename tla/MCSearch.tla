------------------------------ MODULE MCSearch ------------------------------
(* Search over a small corpus with scores taken from configs/proxy.yaml. *)
EXTENDS Search

S(rule, score) == [rule |-> rule, score |-> score, veto |-> FALSE]
OSV == [rule |-> "osv_known_vulnerability", score |-> 0, veto |-> TRUE]
Script == S("install_script_present", 20)
Exec == S("capability_exec", 30)
Combo == S("install_script_with_exec", 20)
New == S("metadata_new_package", 20)

Run(sha, label, signals) == [sha |-> sha, label |-> label, signals |-> signals]

All == <<Script, Exec, New, Combo>>

MCCorpora ==
  { { Run(1, "benign", << >>), Run(2, "benign", <<Script>>),
      Run(3, "benign", <<New, Script>>), Run(4, "benign", <<New>>),
      Run(5, "malicious", <<Script, Exec, Combo>>), Run(6, "malicious", <<New, Script>>),
      Run(7, "malicious", <<New, Exec>>), Run(8, "malicious", <<OSV>>) },
    { Run(1, "benign", All), Run(2, "benign", << >>),
      Run(3, "benign", << >>), Run(4, "benign", <<Exec>>),
      Run(5, "malicious", All), Run(6, "malicious", <<New, Script>>),
      Run(7, "malicious", <<New>>), Run(8, "malicious", All) },
    { Run(1, "benign", <<Exec>>), Run(2, "benign", <<Exec, New>>),
      Run(3, "benign", <<Exec, New>>), Run(4, "benign", <<Script>>),
      Run(5, "malicious", <<Exec, New>>), Run(6, "malicious", <<Script, New>>),
      Run(7, "malicious", <<New>>), Run(8, "malicious", <<Exec>>) } }

\* A rotation by half the draws so far.
MCShuffle(spent, n) == [i \in 1..n |-> ((i + spent \div 2) % n) + 1]

MCTunable == <<"install_script_present", "cap_exec", "install_script_with_exec", "metadata_new_package">>
MCBase == [k \in {"install_script_present", "cap_exec", "install_script_with_exec",
                  "metadata_new_package"} |-> IF k = "cap_exec" THEN 30 ELSE 20]
MCSamples ==
  {[weights |-> [MCBase EXCEPT !["install_script_present"] = s, !["metadata_new_package"] = n],
    allow |-> a, block |-> b] : 
        <<s, n, a, b>> \in {<<5, 70, 25, 45>>, <<90, 10, 55, 45>>, <<15, 10, 25, 80>>, <<45, 70, 55, 80>>}}
MCAllowRange == <<10, 60>>
MCBlockRange == <<40, 95>>
MCCandidates == <<2, 1, 2>>
=============================================================================
