--------------------------- MODULE DesktopService ---------------------------
(***************************************************************************)
(* The parts of the desktop service beside the guard, and the scan that its*)
(* bridge and the page's worker run: threat intelligence, model scans,     *)
(* behavioral analysis, updates, files, and the static scan of one file.   *)
(*                                                                         *)
(* The parts share no state: what one asks of another is a value, and each *)
(* module lets that value be anything the other can answer.  A behaviour   *)
(* therefore moves one part, and the others stay as they start.            *)
(***************************************************************************)
EXTENDS ThreatIntel, ScanPipeline, Sandbox, UpdateManager, ServiceFiles, FileScan

VARIABLE part  \* bound: the part of the service that moves

serviceVars ==
    <<part, intelVars, pipelineVars, sandboxVars, updateVars, filesVars, fileScanVars>>

Parts == {"intel", "pipeline", "sandbox", "update", "files", "scan"}

(* A part that does not move starts in the first of its initial states.    *)
Init ==
    /\ part \in Parts
    /\ IntelInit /\ FilesInit
    /\ part # "intel" => published = {} /\ file = [ok |-> TRUE, list |-> <<>>]
    /\ part # "files" => settingsFile = "missing"
    /\ PipelineInit /\ SandboxInit /\ UpdateInit /\ FileScanInit

Intel == IntelNext /\ UNCHANGED <<pipelineVars, sandboxVars, updateVars, filesVars, fileScanVars>>
Pipeline == PipelineNext /\ UNCHANGED <<intelVars, sandboxVars, updateVars, filesVars, fileScanVars>>
Behavior == SandboxNext /\ UNCHANGED <<intelVars, pipelineVars, updateVars, filesVars, fileScanVars>>
Updates == UpdateNext /\ UNCHANGED <<intelVars, pipelineVars, sandboxVars, filesVars, fileScanVars>>
Files == FilesNext /\ UNCHANGED <<intelVars, pipelineVars, sandboxVars, updateVars, fileScanVars>>
StaticScan == FileScanNext /\ UNCHANGED <<intelVars, pipelineVars, sandboxVars, updateVars, filesVars>>

Next ==
    /\ UNCHANGED part
    /\ \/ part = "intel" /\ Intel
       \/ part = "pipeline" /\ Pipeline
       \/ part = "sandbox" /\ Behavior
       \/ part = "update" /\ Updates
       \/ part = "files" /\ Files
       \/ part = "scan" /\ StaticScan

Spec == Init /\ [][Next]_serviceVars

FairSpec == Spec /\ IntelFairness /\ PipelineFairness /\ SandboxFairness

------------------------------------------------------------------------------
(* The inductive invariants of the parts together: what a lookup, a scan,  *)
(* an analysis, an update or a file write stands on between two awaits, on *)
(* which the safety properties of each part rest.                          *)
ServiceInv ==
    /\ IntelInv /\ PipelineInv /\ SandboxInv /\ UpdateInv /\ FilesInv
    /\ FileScanInv /\ JudgementInv
=============================================================================
