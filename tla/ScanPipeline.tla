---------------------------- MODULE ScanPipeline ----------------------------
(***************************************************************************)
(* A model scan of the desktop service: the upload route with its limit,   *)
(* the session table, the three pipelines (standard, plus, pro), the       *)
(* scanner bridge that reads, analyses and reads the file again, and the   *)
(* fusion of the evidence into a verdict.  A scan stands at one of its     *)
(* awaits; another program may rewrite the file between two of them.       *)
(***************************************************************************)
EXTENDS Naturals, Sequences, SequencesExt, FiniteSetsExt

CONSTANTS
    Scans,        \* bound: scans of a behaviour
    PlainScans,   \* bound: those that use the standard model on a benign file nobody rewrites
    MaxSessions,  \* maxSessions of the pipeline manager
    UploadLimit,  \* uploads staged or scanned at once (4 in the handler)
    MaxRewrites   \* bound: changes of scanned files by other programs

ASSUME PipelineAssumption ==
    /\ IsFiniteSet(Scans) /\ PlainScans \subseteq Scans
    /\ MaxSessions \in Nat \ {0} /\ UploadLimit \in Nat \ {0} /\ MaxRewrites \in Nat

VARIABLES
    scan,      \* Scans -> a request and the session it started
    sessions,  \* ModelScanPipelineManager.sessions, the least recently updated first
    slots,     \* activeStagedScans
    disk,      \* Scans -> version of the file at the scan's path, or Gone
    rewrites

pipelineVars == <<scan, sessions, slots, disk, rewrites>>

Verdicts == {"safe", "suspicious", "malicious", "inconclusive"}
Gone == 2
Models == {"standard", "plus", "pro"}

(* What scanPath returns: no evidence, or a verdict with what backs it.    *)
(* detected, same: whether the threat database or ClamAV knew the file,    *)
(* and whether both reads of it saw the same version.                      *)
NoLocal == [verdict |-> "inconclusive", covered |-> FALSE, yara |-> FALSE,
            few |-> FALSE, revalidated |-> FALSE, detected |-> FALSE, same |-> FALSE]
NoSandbox == [proven |-> FALSE, verdict |-> "inconclusive", releaseGrade |-> FALSE]
(* alarm: history, some phase of the scan has found the file malicious.    *)
NoScan == [at |-> "idle", upload |-> FALSE, model |-> "standard", bytes |-> 0, alarm |-> FALSE,
           local |-> NoLocal, sandbox |-> NoSandbox, fallback |-> FALSE,
           state |-> "none", verdict |-> "none", cleanupPending |-> FALSE]

PipelineInit ==
    /\ scan = [s \in Scans |-> NoScan] /\ sessions = <<>> /\ slots = 0
    /\ disk = [s \in Scans |-> 0] /\ rewrites = 0

(* _emit: the session becomes the most recently updated one.               *)
Touched(s) == IF Contains(sessions, s) THEN Append(Remove(sessions, s), s) ELSE sessions

Running(s) == scan[s].at \notin {"idle", "staging", "cleanup", "done"}
Holds(s) == scan[s].upload /\ scan[s].at \notin {"idle", "done"}

Goes(s, at) == scan' = [scan EXCEPT ![s].at = at] /\ sessions' = Touched(s)

------------------------------------------------------------------------------
(* Verdicts from evidence.                                                 *)

ProvenMalicious(sandbox) == sandbox.proven /\ sandbox.verdict = "malicious"

(* mergeSandboxVerdict, for the plus model.                                *)
MergeSandboxVerdict(local, sandbox) ==
    IF ~sandbox.proven THEN local
    ELSE IF "malicious" \in {local, sandbox.verdict} THEN "malicious"
    ELSE IF "suspicious" \in {local, sandbox.verdict} THEN "suspicious"
    ELSE local

(* directSandboxVerdict, for the pro model.                                *)
DirectSandboxVerdict(sandbox) ==
    IF sandbox.proven /\ (sandbox.verdict = "safe" => sandbox.releaseGrade)
    THEN sandbox.verdict ELSE "inconclusive"

(* standardVerdictWithCoverage: safe needs every analyzer to be complete   *)
(* and the file to be unchanged.                                           *)
StandardVerdict(local) ==
    IF local.verdict = "safe" /\ ~(local.covered /\ local.revalidated)
    THEN "inconclusive" ELSE local.verdict

(* Mutant of FuseEvidence: a doubt is looked at before a detection.        *)
FuseEvidenceDoubtFirst(local, sandbox, model) ==
    IF local.yara \/ local.verdict = "suspicious" THEN "suspicious" ELSE local.verdict

(* localStaticCoverage: the analyzers were complete and the file unchanged.*)
LocalStaticCoverage(local) == local.covered /\ local.revalidated

(* fuseEvidence.  A hit of the threat database or of ClamAV has made the   *)
(* local verdict malicious before.                                         *)
FuseEvidence(local, sandbox, model) ==
    LET says(v) == local.verdict = v \/ (sandbox.proven /\ sandbox.verdict = v)
    IN IF says("malicious") THEN "malicious"
       ELSE IF says("suspicious") \/ local.yara THEN "suspicious"
       ELSE IF sandbox.proven /\ sandbox.verdict = "safe" /\ sandbox.releaseGrade THEN "safe"
       ELSE IF /\ local.verdict = "safe" /\ LocalStaticCoverage(local)
               /\ ~(model = "pro" /\ local.few)
            THEN "safe"
       ELSE "inconclusive"

------------------------------------------------------------------------------
(* The request.                                                            *)

(* _prune and the new entry of start: sessions past their time to live and *)
(* then the least recently updated ones go, running or not.                *)
Registered(s) ==
    \E k \in 0..Len(sessions) :
        /\ Len(sessions) - k < MaxSessions
        /\ sessions' = Append(SubSeq(sessions, k + 1, Len(sessions)), s)

Started(s, upload, model) ==
    /\ scan' = [scan EXCEPT ![s] = [NoScan EXCEPT !.at = "queued", !.upload = upload,
                  !.model = model, !.state = "queued", !.cleanupPending = upload]]
    /\ Registered(s)

Asked(s) == IF s \in PlainScans THEN {"standard"} ELSE Models

(* POST /api/model-scan/start: a file of the user, no clean-up.            *)
StartPath(s, model) ==
    /\ scan[s].at = "idle" /\ Started(s, FALSE, model)
    /\ UNCHANGED <<slots, disk, rewrites>>

(* POST /api/model-scan/upload: the limit, then the body is staged.        *)
Upload(s, model) ==
    /\ scan[s].at = "idle" /\ slots < UploadLimit
    /\ slots' = slots + 1
    /\ scan' = [scan EXCEPT ![s].at = "staging", ![s].upload = TRUE, ![s].model = model]
    /\ UNCHANGED <<sessions, disk, rewrites>>

(* stageScanUpload ends: the scan starts, or the upload was refused or cut *)
(* off and its directory and slot are given back.                          *)
Staged(s) ==
    /\ scan[s].at = "staging"
    /\ \/ Started(s, TRUE, scan[s].model) /\ UNCHANGED <<slots, disk>>
       \/ /\ scan' = [scan EXCEPT ![s] = [NoScan EXCEPT !.at = "done"]]
          /\ disk' = [disk EXCEPT ![s] = Gone] /\ slots' = slots - 1
          /\ UNCHANGED sessions
    /\ UNCHANGED rewrites

(* _run: the pipeline of the model begins.                                 *)
Run(s) ==
    /\ scan[s].at = "queued"
    /\ scan' = [scan EXCEPT ![s].state = "running",
                  ![s].at = IF scan[s].model = "pro" THEN "preflight" ELSE "read"]
    /\ sessions' = Touched(s)
    /\ UNCHANGED <<slots, disk, rewrites>>

(* A verdict is there; what is attached to it is awaited.                  *)
Concludes(s, verdict, local, sandbox) ==
    /\ scan' = [scan EXCEPT ![s].at = "attach", ![s].state = "finalizing", ![s].verdict = verdict,
                            ![s].local = local, ![s].sandbox = sandbox,
                            ![s].alarm = @ \/ ProvenMalicious(sandbox)]
    /\ sessions' = Touched(s)

(* Mutant of Fails: nothing catches the rejection of _run.                 *)
FailsUncaught(s) == scan' = [scan EXCEPT ![s].at = "rejected"] /\ UNCHANGED sessions

(* An await rejects: the scan fails closed.                                *)
Fails(s) ==
    /\ scan' = [scan EXCEPT ![s].state = "failed", ![s].verdict = "inconclusive",
                  ![s].at = IF scan[s].upload THEN "cleanup" ELSE "done"]
    /\ sessions' = Touched(s)

------------------------------------------------------------------------------
(* ScannerBridge.scanPath.                                                 *)

(* Its result reaches the pipeline that waits for it: standard is done;    *)
(* plus goes on to the sandbox unless the file is malicious; a fallback    *)
(* goes on to the cloud inspection.                                        *)
LocalDone(s, local) ==
    LET got == [scan EXCEPT ![s].local = local, ![s].bytes = 0] IN
    CASE scan[s].model = "standard" ->
            Concludes(s, StandardVerdict(local), local, scan[s].sandbox)
      [] scan[s].model = "plus" /\ local.verdict = "malicious" ->
            Concludes(s, "malicious", local, scan[s].sandbox)
      [] scan[s].model = "plus" /\ local.verdict # "malicious" ->
            scan' = [got EXCEPT ![s].at = "sandbox"] /\ sessions' = Touched(s)
      [] OTHER -> scan' = [got EXCEPT ![s].at = "cloud"] /\ sessions' = Touched(s)

(* lstat, open and read: the file's version, no result for a file that     *)
(* cannot be read or changes meanwhile, an exception for a link.           *)
Read(s) ==
    /\ scan[s].at = "read"
    /\ \/ scan' = [scan EXCEPT ![s].at = "analyze", ![s].bytes = disk[s]] /\ UNCHANGED sessions
       \/ s \notin PlainScans /\ LocalDone(s, NoLocal)
       \/ s \notin PlainScans /\ Fails(s)
    /\ UNCHANGED <<slots, disk, rewrites>>

(* scanBuffer with _applyThreatIntel: the analyzers' verdict and coverage, *)
(* overridden by a known hash.                                             *)
Analyze(s) ==
    /\ scan[s].at = "analyze"
    /\ \E v \in IF s \in PlainScans THEN {"safe"} ELSE Verdicts,
          covered \in IF s \in PlainScans THEN {TRUE} ELSE BOOLEAN,
          known \in IF s \in PlainScans THEN {FALSE} ELSE BOOLEAN :
         scan' = [scan EXCEPT ![s].at = "engines", ![s].alarm = known \/ v = "malicious",
                    ![s].local = [NoLocal EXCEPT !.verdict = IF known THEN "malicious" ELSE v,
                                                 !.covered = covered, !.detected = known]]
    /\ UNCHANGED <<sessions, slots, disk, rewrites>>

(* runExternalEngines: what ClamAV, YARA or Defender found at the path.    *)
WithEngines(local, found) ==
    [local EXCEPT
       !.verdict = IF found = "clamav" THEN "malicious"
                   ELSE IF found # "nothing" /\ @ = "safe" THEN "suspicious" ELSE @,
       !.yara = found = "yara",
       !.detected = @ \/ found = "clamav"]

Engines(s) ==
    /\ scan[s].at = "engines"
    /\ \E found \in IF s \in PlainScans THEN {"nothing"} ELSE {"nothing", "clamav", "yara", "defender"},
          few \in IF scan[s].model = "pro" THEN BOOLEAN ELSE {FALSE} :
         scan' = [scan EXCEPT ![s].at = "check", ![s].alarm = @ \/ found = "clamav",
                    ![s].local = [WithEngines(@, found) EXCEPT !.few = few]]
    /\ UNCHANGED <<sessions, slots, disk, rewrites>>

(* Mutant of Unchanged: the second read is not compared.                   *)
UnchangedAlways(s) == disk[s] # Gone

(* The file is read again; its hash must be the scanned one.  Otherwise,   *)
(* or if it cannot be read, the result says inconclusive and what was      *)
(* found is attached to it.                                                *)
Unchanged(s) == disk[s] = scan[s].bytes

Check(s) ==
    /\ scan[s].at = "check"
    /\ \/ LocalDone(s, IF Unchanged(s)
                       THEN [scan[s].local EXCEPT !.revalidated = TRUE,
                                                  !.same = disk[s] = scan[s].bytes]
                       ELSE NoLocal)
       \/ s \notin PlainScans /\ LocalDone(s, NoLocal)
    /\ UNCHANGED <<slots, disk, rewrites>>

------------------------------------------------------------------------------
(* The sandbox, the cloud inspection and what is attached.                 *)

(* preflightSample of the pro model: on to the sandbox; a plugin that      *)
(* cannot be launched is analysed statically; otherwise no verdict.        *)
Preflight(s) ==
    /\ scan[s].at = "preflight"
    /\ \/ Goes(s, "sandbox")
       \/ scan' = [scan EXCEPT ![s].at = "read", ![s].fallback = TRUE] /\ sessions' = Touched(s)
       \/ Concludes(s, "inconclusive", scan[s].local, scan[s].sandbox)
       \/ Fails(s)
    /\ UNCHANGED <<slots, disk, rewrites>>

SandboxResults == {NoSandbox} \cup [proven : {TRUE}, verdict : Verdicts, releaseGrade : BOOLEAN]

(* analyzeUntrustedSample: without proof of execution the static fallback  *)
(* takes over, for which plus has its local result already.                *)
Sandbox(s) ==
    /\ scan[s].at = "sandbox"
    /\ \/ \E r \in SandboxResults :
            IF r.proven
            THEN Concludes(s, IF scan[s].model = "plus"
                              THEN MergeSandboxVerdict(scan[s].local.verdict, r)
                              ELSE DirectSandboxVerdict(r), scan[s].local, r)
            ELSE /\ scan' = [scan EXCEPT ![s].fallback = TRUE,
                               ![s].at = IF scan[s].model = "plus" THEN "cloud" ELSE "read"]
                 /\ sessions' = Touched(s)
       \/ Fails(s)
    /\ UNCHANGED <<slots, disk, rewrites>>

(* The end of _runDeepStaticFallback: the cloud's report, if asked for,    *)
(* has no say in the verdict.                                              *)
Cloud(s) ==
    /\ scan[s].at = "cloud"
    /\ \/ Concludes(s, FuseEvidence(scan[s].local, scan[s].sandbox, scan[s].model),
                   scan[s].local, scan[s].sandbox)
       \/ Fails(s)
    /\ UNCHANGED <<slots, disk, rewrites>>

(* _attachGtaSimulationAndAiEvidence: failures are part of the result, and *)
(* a fallback is fused once more.                                          *)
Attach(s) ==
    /\ scan[s].at = "attach"
    /\ scan' = [scan EXCEPT ![s].state = "completed",
                  ![s].at = IF scan[s].upload THEN "cleanup" ELSE "done",
                  ![s].verdict = IF scan[s].fallback
                                 THEN FuseEvidence(scan[s].local, scan[s].sandbox, scan[s].model)
                                 ELSE @]
    /\ sessions' = Touched(s)
    /\ UNCHANGED <<slots, disk, rewrites>>

(* Mutant of Released: a directory that cannot be removed keeps its slot.  *)
ReleasedIfRemoved(s) == IF disk'[s] = Gone THEN slots - 1 ELSE slots

(* The finally of onFinish.                                                *)
Released(s) == slots - 1

(* onFinish: the upload is discarded; if it cannot be removed it stays.    *)
Discard(s) ==
    /\ scan[s].at = "cleanup"
    /\ disk' = [disk EXCEPT ![s] = Gone] \/ UNCHANGED disk
    /\ slots' = Released(s)
    /\ scan' = [scan EXCEPT ![s].at = "done", ![s].cleanupPending = FALSE]
    /\ sessions' = Touched(s)
    /\ UNCHANGED rewrites

(* Mutant of Shown: the clean-up is not looked at.                         *)
ShownState(s) == IF Contains(sessions, s) THEN scan[s].state ELSE "unknown"

(* snapshot: what a client that polls the session is told.                 *)
Shown(s) ==
    IF ~Contains(sessions, s) THEN "unknown"
    ELSE IF scan[s].cleanupPending /\ scan[s].state \in {"completed", "failed"} THEN "finishing"
    ELSE scan[s].state

(* Another program rewrites the file of a running scan.                    *)
Rewrite(s) ==
    /\ s \notin PlainScans
    /\ rewrites < MaxRewrites /\ Running(s) /\ rewrites' = rewrites + 1
    /\ disk' = [disk EXCEPT ![s] = 1 - @]
    /\ UNCHANGED <<scan, sessions, slots>>

ScanStep(s) ==
    \/ Staged(s) \/ Run(s) \/ Read(s) \/ Analyze(s) \/ Engines(s) \/ Check(s)
    \/ Preflight(s) \/ Sandbox(s) \/ Cloud(s) \/ Attach(s) \/ Discard(s)

PipelineNext ==
    \E s \in Scans :
        \/ \E model \in Asked(s) : StartPath(s, model) \/ Upload(s, model)
        \/ ScanStep(s)
        \/ Rewrite(s)

PipelineSpec == PipelineInit /\ [][PipelineNext]_pipelineVars

(* Every await of a scan ends: the callees have timeouts of their own.     *)
PipelineFairness ==
    \A s \in Scans : WF_pipelineVars(scan[s].at \notin {"idle", "done"} /\ ScanStep(s))

------------------------------------------------------------------------------
(* Malicious evidence wins.  Once the analysis, the threat database, ClamAV*)
(* or a proven execution found the file malicious, the scan never says     *)
(* safe, also if the file changes before it is read again, so that the     *)
(* result with the detection is set aside, or if a later phase fails.  And *)
(* if the second read found the scanned file, or it was the execution that *)
(* found it, the completed scan says malicious.                            *)
MaliciousEvidenceWins ==
    \A s \in Scans : scan[s].alarm =>
        /\ scan[s].verdict # "safe"
        /\ /\ scan[s].state = "completed"
           /\ scan[s].local.revalidated \/ ProvenMalicious(scan[s].sandbox)
           => scan[s].verdict = "malicious"

(* Safe is never said without evidence: either the unchanged file was      *)
(* found safe, with full coverage unless plus saw it run, or the pro model *)
(* has a release-grade execution; and nothing it knows speaks against it.  *)
SafeIsBacked ==
    \A s \in Scans : scan[s].verdict = "safe" =>
        LET l == scan[s].local
            b == scan[s].sandbox
        IN \/ /\ l.verdict = "safe" /\ l.same
              /\ l.covered \/ (scan[s].model = "plus" /\ b.proven)
              /\ b.proven => b.verdict \in {"safe", "inconclusive"}
           \/ scan[s].model = "pro" /\ b.proven /\ b.releaseGrade /\ b.verdict = "safe"

(* Every slot is given back exactly once: the count is that of the uploads *)
(* that are staged, scanned or cleaned up, whatever fails on the way and   *)
(* also when the session has been dropped from the table.                  *)
SlotsAreExact == slots = Cardinality({s \in Scans : Holds(s)}) /\ slots <= UploadLimit

(* A client that is told "completed" or "failed" can upload the next file: *)
(* the slot of the scan it polled is free again.                           *)
FinishedMeansReleased ==
    \A s \in Scans : Shown(s) \in {"completed", "failed"} => ~Holds(s)

(* Every accepted scan is answered and cleaned up.                         *)
ScansEnd == \A s \in Scans : scan[s].at = "queued" ~> scan[s].at = "done"
------------------------------------------------------------------------------
(* The inductive invariant.                                                *)

Locals == [verdict : Verdicts, covered : BOOLEAN, yara : BOOLEAN, few : BOOLEAN,
           revalidated : BOOLEAN, detected : BOOLEAN, same : BOOLEAN]
ScanRecords ==
    [at : {"idle", "staging", "queued", "preflight", "read", "analyze", "engines", "check",
           "sandbox", "cloud", "attach", "cleanup", "done"},
     upload : BOOLEAN, model : Models, bytes : 0..Gone, alarm : BOOLEAN, local : Locals,
     sandbox : SandboxResults, fallback : BOOLEAN,
     state : {"none", "queued", "running", "finalizing", "completed", "failed"},
     verdict : Verdicts \cup {"none"}, cleanupPending : BOOLEAN]

(* A local result is malicious when something was detected, and the second *)
(* read has seen the version of the first, or there was none.              *)
LocalIsMeasured(local) ==
    /\ local.detected => local.verdict = "malicious"
    /\ local.revalidated = local.same

(* What an await finds: the pipelines do not mix.  Only plus goes to the   *)
(* sandbox with a local result, and only a fallback reaches the cloud.     *)
StageIsOrdered(r) ==
    /\ r.at \in {"idle", "staging", "queued", "preflight", "read", "analyze"} => r.local = NoLocal
    /\ r.at \notin {"attach", "cleanup", "done"} =>
          r.sandbox = NoSandbox /\ r.verdict = "none" /\ r.state \notin {"completed", "failed"}
    /\ r.at \in {"idle", "staging", "queued", "preflight"} => ~r.fallback
    /\ r.at = "preflight" => r.model = "pro"
    /\ r.at \in {"read", "analyze", "engines", "check"} => (r.fallback <=> r.model = "pro")
    /\ r.at = "sandbox" => /\ ~r.fallback /\ r.model # "standard"
                           /\ r.model = "pro" => r.local = NoLocal
    /\ r.at = "cloud" => r.fallback /\ r.model # "standard"
    /\ r.at \in {"sandbox", "cloud"} => (r.local.verdict = "safe" => r.local.same)
    /\ r.fallback => r.sandbox = NoSandbox
    /\ r.at = "attach" => r.state = "finalizing"

(* The verdict of a scan that has one follows from its evidence.           *)
VerdictFollows(r) ==
    /\ /\ r.at = "attach" \/ r.state = "completed"
       /\ r.local.verdict = "malicious" \/ r.local.detected \/ ProvenMalicious(r.sandbox)
       => r.verdict = "malicious"
    /\ r.verdict = "safe" =>
          \/ /\ r.local.verdict = "safe" /\ r.local.same
             /\ r.local.covered \/ (r.model = "plus" /\ r.sandbox.proven)
             /\ r.sandbox.proven => r.sandbox.verdict \in {"safe", "inconclusive"}
          \/ /\ r.model = "pro" /\ r.sandbox.proven
             /\ r.sandbox.releaseGrade /\ r.sandbox.verdict = "safe"

(* An alarm lives in the local result or in the execution's, or the result *)
(* it was part of has been set aside; the verdict is never safe.           *)
AlarmIsKept(r) ==
    r.alarm =>
        /\ r.at \notin {"idle", "staging", "queued", "preflight", "read", "analyze"}
        /\ ~(r.at = "sandbox" /\ r.model = "pro")
        /\ \/ r.local.verdict = "malicious" \/ ProvenMalicious(r.sandbox)
           \/ r.at \notin {"engines", "check"} /\ r.local = NoLocal
        /\ r.verdict # "safe"

(* An upload is marked for its clean-up until it is over.                  *)
CleanupIsOwed(r) ==
    /\ r.upload /\ r.at \notin {"idle", "staging", "done"} => r.cleanupPending
    /\ r.at \in {"staging", "cleanup"} => r.upload

ScanIsSound(r) ==
    /\ r \in ScanRecords
    /\ LocalIsMeasured(r.local) /\ StageIsOrdered(r) /\ VerdictFollows(r)
    /\ AlarmIsKept(r) /\ CleanupIsOwed(r)

(* Only the file of a finished scan is gone.                               *)
PipelineInv ==
    /\ scan = [s \in Scans |-> scan[s]] /\ disk \in [Scans -> 0..Gone]
    /\ \A s \in Scans : ScanIsSound(scan[s]) /\ (disk[s] = Gone => scan[s].at = "done")
    /\ slots \in Nat /\ SlotsAreExact
=============================================================================
