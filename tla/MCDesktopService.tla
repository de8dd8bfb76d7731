-------------------------- MODULE MCDesktopService --------------------------
(* A small instance of DesktopService for TLC.                             *)
EXTENDS DesktopService

CONSTANTS win, micro, vm
MCOrder == <<win, micro, vm>>

(* Prereleases whose order as numbers and as text differs.                 *)
Id(v, t) == [numeric |-> TRUE, value |-> v, text |-> t]
Alpha == [numeric |-> FALSE, value |-> 0, text |-> 4]
Version(p, pre) == [core |-> <<1, 0, p>>, prerelease |-> pre]
MCPrecedence ==
    <<Version(0, <<Id(1, 1)>>), Version(0, <<Id(2, 3)>>), Version(0, <<Id(10, 2)>>),
      Version(0, <<Alpha>>), Version(0, <<Alpha, Id(1, 1)>>), Version(0, <<>>), Version(1, <<>>)>>
MCInstalled == MCPrecedence[1]
MCReleases == [sequence : 1..2, version : Range(MCPrecedence)]

(* Weights, severities and combinations as in rules.json and in the script *)
(* analyser: several of a category, some that combine, and weak ones.      *)
Finding(r, c, s, w, k) ==
    [rule |-> r, category |-> c, severity |-> s, weight |-> w, confidence |-> k]
Combo(cs, min, n, b, f) ==
    [categories |-> cs, min |-> min, rules |-> n, bonus |-> b, floor |-> f]
MCFindings ==
    {Finding("r1", "process_injection", "high", 20, "high"),
     Finding("r2", "process_injection", "high", 20, "medium"),
     Finding("r3", "process_injection", "medium", 10, "medium"),
     Finding("r4", "process_recon", "medium", 10, "medium"),
     Finding("r5", "credential_theft", "high", 20, "high"),
     Finding("r6", "c2_networking", "low", 4, "low"),
     Finding("r7", "metadata_anomaly", "medium", 10, "medium")}
MCCombos ==
    {Combo({"credential_theft", "c2_networking"}, 2, 0, 25, "suspicious"),
     Combo({"process_injection", "process_recon"}, 2, 0, 20, "suspicious"),
     Combo({"process_injection"}, 1, 3, 20, "suspicious")}
MCScriptFindings ==
    {Finding("r1", "command_execution", "high", 18, "high"),
     Finding("r2", "file_destruction", "critical", 28, "high"),
     Finding("r3", "file_destruction", "medium", 10, "medium"),
     Finding("r4", "credential_theft", "high", 18, "high"),
     Finding("r5", "credential_theft", "high", 18, "high"),
     Finding("r6", "data_exfiltration", "medium", 10, "medium")}
MCScriptCombos ==
    {Combo({"credential_theft", "data_exfiltration"}, 2, 0, 34, "malicious"),
     Combo({"file_destruction", "command_execution"}, 2, 0, 38, "malicious")}
=============================================================================
