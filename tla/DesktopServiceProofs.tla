------------------------ MODULE DesktopServiceProofs ------------------------
(***************************************************************************)
(* The desktop service: the model scans and the behavioral analyses it     *)
(* runs, for any number of scans, sessions and backends, and the service   *)
(* itself, which implements the specification of each of its parts: what is*)
(* proved of a part holds of the service.                                  *)
(***************************************************************************)
EXTENDS DesktopService, ServiceStateProofs, FileScanProofs

------------------------------------------------------------------------------
(* Model scans.                                                            *)

(* A scan occupies one of the upload slots.                                *)
Holder(r) == r.upload /\ r.at \notin {"idle", "done"}

LEMMA SlotsAreCounted ==
    ASSUME PipelineAssumption, PipelineInv, NEW s \in Scans, NEW t,
           scan' = [scan EXCEPT ![s] = t],
           \/ slots' = slots /\ Holder(t) = Holder(scan[s])
           \/ slots' = slots + 1 /\ slots < UploadLimit /\ Holder(t) /\ ~Holder(scan[s])
           \/ slots' = slots - 1 /\ ~Holder(t) /\ Holder(scan[s])
    PROVE  slots' \in Nat /\ SlotsAreExact'
<1> DEFINE H == {x \in Scans : Holds(x)}
           G == {x \in Scans : Holds(x)'}
<1>1. IsFiniteSet(H) /\ slots = Cardinality(H) /\ slots <= UploadLimit /\ slots \in Nat
  <2>1. IsFiniteSet(Scans) /\ H \subseteq Scans
    BY DEF PipelineAssumption
  <2>2. IsFiniteSet(H)
    BY <2>1, FS_Subset
  <2> QED BY <2>2 DEF PipelineInv, SlotsAreExact
<1>2. \A x \in Scans : scan'[x] = IF x = s THEN t ELSE scan[x]
  BY DEF PipelineInv
<1>3. \A x \in Scans : Holds(x)' = IF x = s THEN Holder(t) ELSE Holds(x)
  BY <1>2 DEF Holds, Holder
<1>4. Holds(s) = Holder(scan[s])
  BY DEF Holds, Holder
<1>5. Cardinality(G) = slots' /\ slots' \in Nat /\ slots' <= UploadLimit
  <2>1. CASE slots' = slots /\ Holder(t) = Holder(scan[s])
    <3>1. G = H
      BY <1>3, <1>4, <2>1
    <3> QED BY <1>1, <2>1, <3>1
  <2>2. CASE slots' = slots + 1 /\ slots < UploadLimit /\ Holder(t) /\ ~Holder(scan[s])
    <3>1. G = H \cup {s} /\ s \notin H
      BY <1>3, <1>4, <2>2
    <3>2. Cardinality(G) = Cardinality(H) + 1
      BY <1>1, <3>1, FS_AddElement
    <3> QED BY <1>1, <2>2, <3>2 DEF PipelineAssumption
  <2>3. CASE slots' = slots - 1 /\ ~Holder(t) /\ Holder(scan[s])
    <3>1. G = H \ {s} /\ s \in H
      BY <1>3, <1>4, <2>3
    <3>2. Cardinality(G) = Cardinality(H) - 1 /\ IsFiniteSet(G)
      <4>1. IsFiniteSet(H \ {s})
        BY <1>1, FS_RemoveElement
      <4>2. Cardinality(H \ {s}) = IF s \in H THEN Cardinality(H) - 1 ELSE Cardinality(H)
        BY <1>1, FS_RemoveElement
      <4> QED BY <3>1, <4>1, <4>2
    <3>3. Cardinality(G) \in Nat
      BY <3>2, FS_CardinalityType
    <3> QED BY <1>1, <2>3, <3>2, <3>3 DEF PipelineAssumption
  <2> QED BY <2>1, <2>2, <2>3
<1> QED BY <1>5 DEF SlotsAreExact

(* A step of one scan keeps the invariant when its record stays sound, its *)
(* file is gone only at its end, and its slot is counted.                  *)
LEMMA ScanMoves ==
    ASSUME PipelineAssumption, PipelineInv, NEW s \in Scans, NEW t, ScanIsSound(t),
           scan' = [scan EXCEPT ![s] = t],
           \/ UNCHANGED disk /\ scan[s].at # "done"
           \/ disk' = [disk EXCEPT ![s] = Gone] /\ t.at = "done",
           \/ slots' = slots /\ Holder(t) = Holder(scan[s])
           \/ slots' = slots + 1 /\ slots < UploadLimit /\ Holder(t) /\ ~Holder(scan[s])
           \/ slots' = slots - 1 /\ ~Holder(t) /\ Holder(scan[s])
    PROVE  PipelineInv'
<1>1. slots' \in Nat /\ SlotsAreExact'
  BY SlotsAreCounted
<1>2. \A x \in Scans : scan'[x] = IF x = s THEN t ELSE scan[x]
  BY DEF PipelineInv
<1>3. scan' = [x \in Scans |-> scan'[x]]
  BY DEF PipelineInv
<1>4. /\ disk' \in [Scans -> 0..Gone]
      /\ \A x \in Scans : disk'[x] = Gone => scan'[x].at = "done"
  <2>1. CASE UNCHANGED disk /\ scan[s].at # "done"
    BY <1>2, <2>1 DEF PipelineInv
  <2>2. CASE disk' = [disk EXCEPT ![s] = Gone] /\ t.at = "done"
    BY <1>2, <2>2 DEF PipelineInv, Gone
  <2> QED BY <2>1, <2>2
<1>5. \A x \in Scans : ScanIsSound(scan'[x])
  BY <1>2 DEF PipelineInv
<1> QED BY <1>1, <1>3, <1>4, <1>5 DEF PipelineInv

Began == {"preflight", "read", "analyze", "engines", "check", "sandbox", "cloud"}

(* A scan concludes soundly when its verdict follows from its evidence.    *)
LEMMA ConclusionIsSound ==
    ASSUME PipelineAssumption, PipelineInv, NEW s \in Scans, scan[s].at \in Began,
           UNCHANGED <<slots, disk>>,
           NEW verdict \in Verdicts, NEW local \in Locals, NEW sandbox \in SandboxResults,
           Concludes(s, verdict, local, sandbox),
           LocalIsMeasured(local), scan[s].fallback => sandbox = NoSandbox,
           local.verdict = "malicious" \/ local.detected \/ ProvenMalicious(sandbox)
              => verdict = "malicious",
           scan[s].alarm => local.verdict = "malicious" \/ (local = NoLocal /\ verdict # "safe"),
           verdict = "safe" =>
              \/ /\ local.verdict = "safe" /\ local.same
                 /\ local.covered \/ (scan[s].model = "plus" /\ sandbox.proven)
                 /\ sandbox.proven => sandbox.verdict \in {"safe", "inconclusive"}
              \/ /\ scan[s].model = "pro" /\ sandbox.proven
                 /\ sandbox.releaseGrade /\ sandbox.verdict = "safe"
    PROVE  PipelineInv'
<1>1. PICK r : r = scan[s]
  OBVIOUS
<1>7. PICK alarm : alarm = (r.alarm \/ ProvenMalicious(sandbox))
  OBVIOUS
<1>2. PICK t : t = [r EXCEPT !.at = "attach", !.state = "finalizing", !.verdict = verdict,
                             !.local = local, !.sandbox = sandbox, !.alarm = alarm]
  OBVIOUS
<1>3. ScanIsSound(r)
  BY <1>1 DEF PipelineInv
<1>4. scan' = [scan EXCEPT ![s] = t]
  BY <1>1, <1>2, <1>3, <1>7 DEF Concludes, PipelineInv
<1>5. ScanIsSound(t)
  <2>1. t \in ScanRecords
    BY <1>2, <1>3, <1>7 DEF ScanIsSound, ScanRecords
  <2>2. StageIsOrdered(t) /\ CleanupIsOwed(t)
    BY <1>1, <1>2, <1>3 DEF ScanIsSound, ScanRecords, StageIsOrdered, CleanupIsOwed, Began
  <2>3. VerdictFollows(t)
    BY <1>1, <1>2, <1>3 DEF ScanIsSound, ScanRecords, VerdictFollows
  <2>4. AlarmIsKept(t)
    <3>1. /\ t.at = "attach" /\ t.verdict = verdict /\ t.local = local
          /\ t.sandbox = sandbox /\ t.alarm = alarm
      BY <1>2, <1>3 DEF ScanIsSound, ScanRecords
    <3>2. ProvenMalicious(sandbox) => verdict # "safe"
      OBVIOUS
    <3>3. r.alarm => /\ verdict # "safe"
                     /\ local.verdict = "malicious" \/ local = NoLocal
      BY <1>1
    <3> QED BY <1>7, <3>1, <3>2, <3>3 DEF AlarmIsKept
  <2> QED BY <1>2, <1>3, <2>1, <2>2, <2>3, <2>4 DEF ScanIsSound, ScanRecords
<1>6. Holder(t) = Holder(r)
  BY <1>1, <1>2, <1>3 DEF Holder, Began, ScanIsSound, ScanRecords
<1> QED BY <1>1, <1>4, <1>5, <1>6, ScanMoves DEF Began

LEMMA FailureIsSound ==
    ASSUME PipelineAssumption, PipelineInv, NEW s \in Scans, scan[s].at \in Began,
           UNCHANGED <<slots, disk>>, Fails(s)
    PROVE  PipelineInv'
<1>1. PICK r : r = scan[s]
  OBVIOUS
<1>0. PICK end : end = IF r.upload THEN "cleanup" ELSE "done"
  OBVIOUS
<1>2. PICK t : t = [r EXCEPT !.state = "failed", !.verdict = "inconclusive", !.at = end]
  OBVIOUS
<1>3. ScanIsSound(r)
  BY <1>1 DEF PipelineInv
<1>4. scan' = [scan EXCEPT ![s] = t]
  BY <1>0, <1>1, <1>2, <1>3 DEF Fails, PipelineInv
<1>5. ScanIsSound(t)
  <2>1. t \in ScanRecords
    <3>1. end \in {"cleanup", "done"} /\ "inconclusive" \in Verdicts
      BY <1>0 DEF Verdicts
    <3> QED BY <1>2, <1>3, <3>1 DEF ScanIsSound, ScanRecords
  <2>2. StageIsOrdered(t) /\ CleanupIsOwed(t)
    BY <1>0, <1>1, <1>2, <1>3 DEF ScanIsSound, ScanRecords, StageIsOrdered, CleanupIsOwed, Began
  <2>3. VerdictFollows(t)
    BY <1>0, <1>2, <1>3 DEF ScanIsSound, ScanRecords, VerdictFollows
  <2>4. AlarmIsKept(t)
    BY <1>0, <1>2, <1>3 DEF ScanIsSound, ScanRecords, AlarmIsKept
  <2> QED BY <1>2, <1>3, <2>1, <2>2, <2>3, <2>4 DEF ScanIsSound, ScanRecords
<1>6. Holder(t) = Holder(r)
  BY <1>0, <1>1, <1>2, <1>3 DEF Holder, Began, ScanIsSound, ScanRecords
<1> QED BY <1>1, <1>4, <1>5, <1>6, ScanMoves DEF Began

(* What is left of a scan when it goes on: it keeps its upload and its     *)
(* files, and its next stage is in order.                                  *)
LEMMA ProgressIsSound ==
    ASSUME PipelineAssumption, PipelineInv, NEW s \in Scans, scan[s].at \in Began \cup {"queued"},
           UNCHANGED <<slots, disk>>,
           NEW t \in ScanRecords, scan' = [scan EXCEPT ![s] = t], t.at \in Began,
           t.upload = scan[s].upload, t.cleanupPending = scan[s].cleanupPending,
           LocalIsMeasured(t.local), StageIsOrdered(t), AlarmIsKept(t)
    PROVE  PipelineInv'
<1>1. PICK r : r = scan[s]
  OBVIOUS
<1>2. ScanIsSound(r)
  BY <1>1 DEF PipelineInv
<1>3. ScanIsSound(t)
  <2>1. CleanupIsOwed(t)
    BY <1>1, <1>2 DEF ScanIsSound, CleanupIsOwed, Began
  <2>2. VerdictFollows(t)
    BY DEF StageIsOrdered, VerdictFollows, Began
  <2> QED BY <2>1, <2>2 DEF ScanIsSound
<1>4. Holder(t) = Holder(r)
  BY <1>1 DEF Holder, Began
<1> QED BY <1>1, <1>3, <1>4, ScanMoves DEF Began

(* The result of a local scan: what the three pipelines make of it.        *)
LEMMA LocalDoneIsSound ==
    ASSUME PipelineAssumption, PipelineInv, NEW s \in Scans, scan[s].at \in {"read", "check"},
           UNCHANGED <<slots, disk>>,
           NEW local \in Locals, LocalIsMeasured(local), local.verdict = "safe" => local.same,
           scan[s].alarm => local.verdict = "malicious" \/ local = NoLocal,
           LocalDone(s, local)
    PROVE  PipelineInv'
<1>1. PICK r : r = scan[s]
  OBVIOUS
<1>2. ScanIsSound(r) /\ r \in ScanRecords /\ StageIsOrdered(r)
  BY <1>1 DEF PipelineInv, ScanIsSound
<1>3. r.sandbox = NoSandbox /\ (r.fallback <=> r.model = "pro") /\ r.verdict = "none"
  BY <1>1, <1>2 DEF StageIsOrdered
<1>4. CASE r.model = "standard"
  <2>1. Concludes(s, StandardVerdict(local), local, NoSandbox)
    BY <1>1, <1>3, <1>4 DEF LocalDone
  <2>2. StandardVerdict(local) \in Verdicts
    BY DEF StandardVerdict, Locals, Verdicts
  <2>3. NoSandbox \in SandboxResults /\ NoSandbox.proven = FALSE
    BY DEF SandboxResults, NoSandbox
  <2>4. StandardVerdict(local) = "safe" => local.verdict = "safe" /\ local.covered /\ local.same
    BY DEF StandardVerdict
  <2>5. local.verdict = "malicious" \/ local.detected => StandardVerdict(local) = "malicious"
    BY DEF StandardVerdict, LocalIsMeasured
  <2>6. ~ProvenMalicious(NoSandbox) /\ NoLocal.verdict # "safe"
    BY <2>3 DEF ProvenMalicious, NoLocal
  <2> QED BY <1>1, <2>1, <2>2, <2>3, <2>4, <2>5, <2>6, ConclusionIsSound DEF Began
<1>5. CASE r.model = "plus" /\ local.verdict = "malicious"
  <2>1. Concludes(s, "malicious", local, NoSandbox)
    BY <1>1, <1>3, <1>5 DEF LocalDone
  <2>2. NoSandbox \in SandboxResults /\ NoSandbox.proven = FALSE /\ "malicious" \in Verdicts
    BY DEF SandboxResults, NoSandbox, Verdicts
  <2> QED BY <1>1, <1>5, <2>1, <2>2, ConclusionIsSound DEF Began, ProvenMalicious
<1>6. CASE r.model = "plus" /\ local.verdict # "malicious"
  <2>1. PICK t : t = [r EXCEPT !.local = local, !.bytes = 0, !.at = "sandbox"]
    OBVIOUS
  <2>2. scan' = [scan EXCEPT ![s] = t]
    BY <1>1, <1>2, <1>6, <2>1 DEF LocalDone, PipelineInv
  <2>3. t \in ScanRecords
    <3>1. 0 \in 0..Gone
      BY DEF Gone
    <3> QED BY <1>2, <2>1, <3>1 DEF ScanRecords
  <2>4. StageIsOrdered(t)
    BY <1>1, <1>2, <1>3, <1>6, <2>1 DEF ScanRecords, StageIsOrdered
  <2>5. /\ t.at \in Began /\ t.upload = r.upload /\ t.cleanupPending = r.cleanupPending
        /\ t.local = local
    BY <1>2, <2>1 DEF ScanRecords, Began
  <2>6. AlarmIsKept(t)
    BY <1>1, <1>2, <1>3, <1>6, <2>1 DEF ScanRecords, AlarmIsKept
  <2> QED BY <1>1, <2>2, <2>3, <2>4, <2>5, <2>6, ProgressIsSound DEF Began
<1>7. CASE r.model = "pro"
  <2>1. PICK t : t = [r EXCEPT !.local = local, !.bytes = 0, !.at = "cloud"]
    OBVIOUS
  <2>2. scan' = [scan EXCEPT ![s] = t]
    BY <1>1, <1>2, <1>7, <2>1 DEF LocalDone, PipelineInv
  <2>3. t \in ScanRecords
    <3>1. 0 \in 0..Gone
      BY DEF Gone
    <3> QED BY <1>2, <2>1, <3>1 DEF ScanRecords
  <2>4. StageIsOrdered(t)
    BY <1>1, <1>2, <1>3, <1>7, <2>1 DEF ScanRecords, StageIsOrdered
  <2>5. /\ t.at \in Began /\ t.upload = r.upload /\ t.cleanupPending = r.cleanupPending
        /\ t.local = local
    BY <1>2, <2>1 DEF ScanRecords, Began
  <2>6. AlarmIsKept(t)
    BY <1>1, <1>2, <1>3, <1>7, <2>1 DEF ScanRecords, AlarmIsKept
  <2> QED BY <1>1, <2>2, <2>3, <2>4, <2>5, <2>6, ProgressIsSound DEF Began
<1> QED BY <1>2, <1>4, <1>5, <1>6, <1>7 DEF ScanRecords, Models

LEMMA NothingIsSound ==
    /\ NoLocal \in Locals /\ LocalIsMeasured(NoLocal) /\ NoLocal.verdict = "inconclusive"
    /\ NoSandbox \in SandboxResults /\ ~NoSandbox.proven
    /\ NoScan \in ScanRecords /\ NoScan.local = NoLocal /\ NoScan.sandbox = NoSandbox
<1>1. NoLocal \in Locals /\ LocalIsMeasured(NoLocal) /\ NoLocal.verdict = "inconclusive"
  BY DEF NoLocal, Locals, Verdicts, LocalIsMeasured
<1>2. NoSandbox \in SandboxResults /\ ~NoSandbox.proven
  BY DEF NoSandbox, SandboxResults
<1>3. NoScan \in ScanRecords /\ NoScan.local = NoLocal /\ NoScan.sandbox = NoSandbox
  <2>1. 0 \in 0..Gone
    BY DEF Gone
  <2> QED BY <1>1, <1>2, <2>1 DEF NoScan, ScanRecords, Models
<1> QED BY <1>1, <1>2, <1>3

LEMMA ResultsHaveVerdicts ==
    ASSUME NEW result \in SandboxResults
    PROVE  result.verdict \in Verdicts
<1>1. CASE result = NoSandbox
  BY <1>1 DEF NoSandbox, Verdicts
<1>2. CASE result \in [proven : {TRUE}, verdict : Verdicts, releaseGrade : BOOLEAN]
  BY <1>2
<1> QED BY <1>1, <1>2 DEF SandboxResults

LEMMA RunStep ==
    ASSUME PipelineAssumption, PipelineInv, NEW s \in Scans, Run(s)
    PROVE  PipelineInv'
<1>1. PICK r : r = scan[s]
  OBVIOUS
<1>2. ScanIsSound(r) /\ r \in ScanRecords /\ StageIsOrdered(r) /\ LocalIsMeasured(r.local)
  BY <1>1 DEF PipelineInv, ScanIsSound
<1>3. PICK first : first = IF r.model = "pro" THEN "preflight" ELSE "read"
  OBVIOUS
<1>4. PICK t : t = [r EXCEPT !.state = "running", !.at = first]
  OBVIOUS
<1>5. scan' = [scan EXCEPT ![s] = t]
  BY <1>1, <1>2, <1>3, <1>4 DEF Run, PipelineInv
<1>6. t \in ScanRecords
  <2>1. first \in {"preflight", "read"}
    BY <1>3
  <2> QED BY <1>2, <1>4, <2>1 DEF ScanRecords
<1>7. StageIsOrdered(t)
  BY <1>1, <1>2, <1>3, <1>4 DEF Run, ScanRecords, StageIsOrdered
<1>8. /\ t.at \in Began /\ t.upload = r.upload /\ t.cleanupPending = r.cleanupPending
      /\ t.local = r.local
  BY <1>2, <1>3, <1>4 DEF ScanRecords, Began
<1>9. ~r.alarm /\ t.alarm = r.alarm
  BY <1>1, <1>2, <1>4 DEF Run, ScanIsSound, AlarmIsKept, ScanRecords
<1> QED BY <1>1, <1>2, <1>5, <1>6, <1>7, <1>8, <1>9, ProgressIsSound DEF Run, AlarmIsKept

LEMMA ReadStep ==
    ASSUME PipelineAssumption, PipelineInv, NEW s \in Scans, Read(s)
    PROVE  PipelineInv'
<1>1. PICK r : r = scan[s]
  OBVIOUS
<1>2. /\ ScanIsSound(r) /\ r \in ScanRecords /\ StageIsOrdered(r) /\ LocalIsMeasured(r.local)
      /\ disk[s] \in 0..Gone
  BY <1>1 DEF PipelineInv, ScanIsSound
<1>3. CASE scan' = [scan EXCEPT ![s].at = "analyze", ![s].bytes = disk[s]]
  <2>1. PICK t : t = [r EXCEPT !.at = "analyze", !.bytes = disk[s]]
    OBVIOUS
  <2>2. scan' = [scan EXCEPT ![s] = t]
    BY <1>1, <1>2, <1>3, <2>1 DEF PipelineInv
  <2>3. t \in ScanRecords
    BY <1>2, <2>1 DEF ScanRecords
  <2>4. StageIsOrdered(t)
    BY <1>1, <1>2, <2>1 DEF Read, ScanRecords, StageIsOrdered
  <2>5. /\ t.at \in Began /\ t.upload = r.upload /\ t.cleanupPending = r.cleanupPending
        /\ t.local = r.local
    BY <1>2, <2>1 DEF ScanRecords, Began
  <2>6. ~r.alarm /\ t.alarm = r.alarm
    BY <1>1, <1>2, <2>1 DEF Read, ScanIsSound, AlarmIsKept, ScanRecords
  <2> QED BY <1>1, <1>2, <2>2, <2>3, <2>4, <2>5, <2>6, ProgressIsSound DEF Read, Began, AlarmIsKept
<1>4. CASE LocalDone(s, NoLocal)
  BY <1>4, NothingIsSound, LocalDoneIsSound DEF Read
<1>5. CASE Fails(s)
  BY <1>5, FailureIsSound DEF Read, Began
<1> QED BY <1>3, <1>4, <1>5 DEF Read

LEMMA AnalyzeStep ==
    ASSUME PipelineAssumption, PipelineInv, NEW s \in Scans, Analyze(s)
    PROVE  PipelineInv'
<1>1. PICK r : r = scan[s]
  OBVIOUS
<1>2. ScanIsSound(r) /\ r \in ScanRecords /\ StageIsOrdered(r)
  BY <1>1 DEF PipelineInv, ScanIsSound
<1>3. PICK v \in Verdicts, covered \in BOOLEAN, known \in BOOLEAN :
        scan' = [scan EXCEPT ![s].at = "engines", ![s].alarm = known \/ v = "malicious",
                   ![s].local = [NoLocal EXCEPT !.verdict = IF known THEN "malicious" ELSE v,
                                                !.covered = covered, !.detected = known]]
  BY DEF Analyze, Verdicts
<1>4. PICK verdict : verdict = IF known THEN "malicious" ELSE v
  OBVIOUS
<1>5. PICK local : local = [NoLocal EXCEPT !.verdict = verdict, !.covered = covered,
                                           !.detected = known]
  OBVIOUS
<1>6. local \in Locals /\ LocalIsMeasured(local)
  <2>1. verdict \in Verdicts /\ (known => verdict = "malicious")
    BY <1>4 DEF Verdicts
  <2> QED BY <1>5, <2>1 DEF Locals, NoLocal, LocalIsMeasured
<1>12. PICK alarm : alarm = (known \/ v = "malicious")
  OBVIOUS
<1>7. PICK t : t = [r EXCEPT !.at = "engines", !.local = local, !.alarm = alarm]
  OBVIOUS
<1>8. scan' = [scan EXCEPT ![s] = t]
  BY <1>1, <1>2, <1>3, <1>4, <1>5, <1>7, <1>12 DEF PipelineInv
<1>9. t \in ScanRecords
  BY <1>2, <1>6, <1>7, <1>12 DEF ScanRecords
<1>10. StageIsOrdered(t)
  BY <1>1, <1>2, <1>7 DEF Analyze, ScanRecords, StageIsOrdered
<1>11. /\ t.at \in Began /\ t.upload = r.upload /\ t.cleanupPending = r.cleanupPending
       /\ t.local = local /\ t.alarm = alarm /\ t.verdict = r.verdict /\ t.at = "engines"
  BY <1>2, <1>7 DEF ScanRecords, Began
<1>13. AlarmIsKept(t)
  <2>1. local.verdict = verdict /\ r.verdict = "none"
    BY <1>1, <1>2, <1>5 DEF NoLocal, Analyze, StageIsOrdered
  <2> QED BY <1>4, <1>11, <1>12, <2>1 DEF AlarmIsKept
<1> QED BY <1>1, <1>6, <1>8, <1>9, <1>10, <1>11, <1>13, ProgressIsSound DEF Analyze, Began

LEMMA EnginesStep ==
    ASSUME PipelineAssumption, PipelineInv, NEW s \in Scans, Engines(s)
    PROVE  PipelineInv'
<1>1. PICK r : r = scan[s]
  OBVIOUS
<1>2. /\ ScanIsSound(r) /\ r \in ScanRecords /\ StageIsOrdered(r) /\ LocalIsMeasured(r.local)
      /\ r.local \in Locals
  BY <1>1 DEF PipelineInv, ScanIsSound, ScanRecords
<1>3. PICK found \in {"nothing", "clamav", "yara", "defender"}, few \in BOOLEAN :
        scan' = [scan EXCEPT ![s].at = "check", ![s].alarm = @ \/ found = "clamav",
                             ![s].local = [WithEngines(@, found) EXCEPT !.few = few]]
  BY DEF Engines
<1>4. PICK verdict : verdict = IF found = "clamav" THEN "malicious"
                               ELSE IF found # "nothing" /\ r.local.verdict = "safe"
                               THEN "suspicious" ELSE r.local.verdict
  OBVIOUS
<1>5. PICK yara : yara = (found = "yara")
  OBVIOUS
<1>6. PICK detected : detected = (r.local.detected \/ found = "clamav")
  OBVIOUS
<1>7. PICK local : local = [r.local EXCEPT !.verdict = verdict, !.yara = yara,
                                           !.detected = detected, !.few = few]
  OBVIOUS
<1>8. local \in Locals /\ LocalIsMeasured(local)
  <2>1. verdict \in Verdicts
    BY <1>2, <1>4 DEF Locals, Verdicts
  <2>2. yara \in BOOLEAN /\ detected \in BOOLEAN
    BY <1>5, <1>6
  <2>3. detected => verdict = "malicious"
    BY <1>2, <1>4, <1>6 DEF LocalIsMeasured
  <2> QED BY <1>2, <1>7, <2>1, <2>2, <2>3 DEF Locals, LocalIsMeasured
<1>14. PICK alarm : alarm = (r.alarm \/ found = "clamav")
  OBVIOUS
<1>9. PICK t : t = [r EXCEPT !.at = "check", !.local = local, !.alarm = alarm]
  OBVIOUS
<1>10. scan' = [scan EXCEPT ![s] = t]
  <2>1. local = [WithEngines(r.local, found) EXCEPT !.few = few]
    BY <1>2, <1>4, <1>5, <1>6, <1>7 DEF WithEngines, Locals
  <2> QED BY <1>1, <1>2, <1>3, <1>9, <1>14, <2>1 DEF PipelineInv
<1>11. t \in ScanRecords
  BY <1>2, <1>8, <1>9, <1>14 DEF ScanRecords
<1>12. StageIsOrdered(t)
  BY <1>1, <1>2, <1>9 DEF Engines, ScanRecords, StageIsOrdered
<1>13. /\ t.at \in Began /\ t.upload = r.upload /\ t.cleanupPending = r.cleanupPending
       /\ t.local = local /\ t.alarm = alarm /\ t.verdict = r.verdict /\ t.at = "check"
  BY <1>2, <1>9 DEF ScanRecords, Began
<1>15. AlarmIsKept(t)
  <2>1. /\ local.verdict = verdict /\ r.verdict = "none" /\ ~ProvenMalicious(r.sandbox)
        /\ r.alarm => r.local.verdict = "malicious"
    BY <1>1, <1>2, <1>7, NothingIsSound
    DEF Engines, ScanIsSound, StageIsOrdered, AlarmIsKept, ProvenMalicious, Locals
  <2> QED BY <1>4, <1>13, <1>14, <2>1 DEF AlarmIsKept
<1> QED BY <1>1, <1>8, <1>10, <1>11, <1>12, <1>13, <1>15, ProgressIsSound DEF Engines, Began

(* The second read: equal versions, or no result.                          *)
LEMMA CheckStep ==
    ASSUME PipelineAssumption, PipelineInv, NEW s \in Scans, Check(s)
    PROVE  PipelineInv'
<1>1. /\ scan[s].local \in Locals /\ LocalIsMeasured(scan[s].local)
      /\ scan[s].alarm => scan[s].local.verdict = "malicious"
  <2>1. /\ ScanIsSound(scan[s]) /\ scan[s].at = "check" /\ scan[s].sandbox = NoSandbox
    BY DEF PipelineInv, ScanIsSound, StageIsOrdered, Check
  <2> QED BY <2>1, NothingIsSound DEF ScanIsSound, ScanRecords, AlarmIsKept, ProvenMalicious
<1>2. PICK same : same = (disk[s] = scan[s].bytes)
  OBVIOUS
<1>3. CASE LocalDone(s, [scan[s].local EXCEPT !.revalidated = TRUE, !.same = same]) /\ Unchanged(s)
  <2>1. PICK local : local = [scan[s].local EXCEPT !.revalidated = TRUE, !.same = same]
    OBVIOUS
  <2>2. same = TRUE
    BY <1>2, <1>3 DEF Unchanged
  <2>3. /\ local \in Locals /\ LocalIsMeasured(local) /\ local.same
        /\ local.verdict = scan[s].local.verdict
    BY <1>1, <2>1, <2>2 DEF Locals, LocalIsMeasured
  <2>4. LocalDone(s, local)
    BY <1>3, <2>1
  <2> QED BY <1>1, <2>3, <2>4, LocalDoneIsSound DEF Check
<1>4. CASE LocalDone(s, NoLocal)
  BY <1>4, NothingIsSound, LocalDoneIsSound DEF Check
<1> QED BY <1>2, <1>3, <1>4 DEF Check

LEMMA PreflightStep ==
    ASSUME PipelineAssumption, PipelineInv, NEW s \in Scans, Preflight(s)
    PROVE  PipelineInv'
<1>1. PICK r : r = scan[s]
  OBVIOUS
<1>2. ScanIsSound(r) /\ r \in ScanRecords /\ StageIsOrdered(r) /\ LocalIsMeasured(r.local)
  BY <1>1 DEF PipelineInv, ScanIsSound
<1>3. /\ r.at = "preflight" /\ r.local = NoLocal /\ r.sandbox = NoSandbox /\ ~r.fallback
      /\ ~r.alarm
  BY <1>1, <1>2 DEF Preflight, ScanIsSound, StageIsOrdered, AlarmIsKept
<1>4. CASE Goes(s, "sandbox")
  <2>1. PICK t : t = [r EXCEPT !.at = "sandbox"]
    OBVIOUS
  <2>2. scan' = [scan EXCEPT ![s] = t]
    BY <1>1, <1>2, <1>4, <2>1 DEF Goes, PipelineInv
  <2>3. t \in ScanRecords
    BY <1>2, <2>1 DEF ScanRecords
  <2>4. StageIsOrdered(t)
    BY <1>2, <1>3, <2>1, NothingIsSound DEF ScanRecords, StageIsOrdered
  <2>5. /\ t.at \in Began /\ t.upload = r.upload /\ t.cleanupPending = r.cleanupPending
        /\ t.local = r.local /\ t.alarm = r.alarm
    BY <1>2, <2>1 DEF ScanRecords, Began
  <2> QED BY <1>1, <1>2, <1>3, <2>2, <2>3, <2>4, <2>5, ProgressIsSound
          DEF Preflight, Began, AlarmIsKept
<1>5. CASE scan' = [scan EXCEPT ![s].at = "read", ![s].fallback = TRUE]
  <2>1. PICK t : t = [r EXCEPT !.at = "read", !.fallback = TRUE]
    OBVIOUS
  <2>2. scan' = [scan EXCEPT ![s] = t]
    BY <1>1, <1>2, <1>5, <2>1 DEF PipelineInv
  <2>3. t \in ScanRecords
    BY <1>2, <2>1 DEF ScanRecords
  <2>4. StageIsOrdered(t)
    BY <1>2, <1>3, <2>1 DEF ScanRecords, StageIsOrdered
  <2>5. /\ t.at \in Began /\ t.upload = r.upload /\ t.cleanupPending = r.cleanupPending
        /\ t.local = r.local /\ t.alarm = r.alarm
    BY <1>2, <2>1 DEF ScanRecords, Began
  <2> QED BY <1>1, <1>2, <1>3, <2>2, <2>3, <2>4, <2>5, ProgressIsSound
          DEF Preflight, Began, AlarmIsKept
<1>6. CASE Concludes(s, "inconclusive", scan[s].local, scan[s].sandbox)
  <2>1. "inconclusive" \in Verdicts /\ ~NoLocal.detected
    BY DEF Verdicts, NoLocal
  <2>2. Concludes(s, "inconclusive", NoLocal, NoSandbox)
    BY <1>1, <1>3, <1>6
  <2>3. ~ProvenMalicious(NoSandbox)
    BY NothingIsSound DEF ProvenMalicious
  <2> QED BY <1>1, <1>3, <2>1, <2>2, <2>3, NothingIsSound, ConclusionIsSound DEF Preflight, Began
<1>7. CASE Fails(s)
  BY <1>7, FailureIsSound DEF Preflight, Began
<1> QED BY <1>4, <1>5, <1>6, <1>7 DEF Preflight

(* A proven execution is merged with the local result for plus and stands  *)
(* alone for pro; without proof the scan falls back.                       *)
LEMMA SandboxStep ==
    ASSUME PipelineAssumption, PipelineInv, NEW s \in Scans, Sandbox(s)
    PROVE  PipelineInv'
<1>1. PICK r : r = scan[s]
  OBVIOUS
<1>2. /\ ScanIsSound(r) /\ r \in ScanRecords /\ StageIsOrdered(r) /\ LocalIsMeasured(r.local)
      /\ r.local \in Locals
  BY <1>1 DEF PipelineInv, ScanIsSound, ScanRecords
<1>3. /\ r.at = "sandbox" /\ r.sandbox = NoSandbox /\ ~r.fallback
      /\ r.model = "plus" \/ (r.model = "pro" /\ r.local = NoLocal)
      /\ r.local.verdict = "safe" => r.local.same
      /\ r.verdict = "none"
  BY <1>1, <1>2 DEF Sandbox, StageIsOrdered, ScanRecords, Models
<1>8. r.alarm => r.model # "pro" /\ (r.local.verdict = "malicious" \/ r.local = NoLocal)
  BY <1>2, <1>3, NothingIsSound DEF ScanIsSound, AlarmIsKept, ProvenMalicious
<1>4. CASE Fails(s)
  BY <1>4, FailureIsSound DEF Sandbox, Began
<1>5. ASSUME NEW result \in SandboxResults, result.proven, r.model = "plus",
             Concludes(s, MergeSandboxVerdict(r.local.verdict, result), r.local, result)
      PROVE  PipelineInv'
  <2>1. PICK verdict : verdict = MergeSandboxVerdict(r.local.verdict, result)
    OBVIOUS
  <2>2. r.local.verdict \in Verdicts /\ result.verdict \in Verdicts
    BY <1>2, ResultsHaveVerdicts DEF Locals
  <2>3. verdict \in Verdicts
    BY <2>1, <2>2 DEF MergeSandboxVerdict, Verdicts
  <2>4. "malicious" \in {r.local.verdict, result.verdict} => verdict = "malicious"
    BY <1>5, <2>1 DEF MergeSandboxVerdict
  <2>5. r.local.detected => r.local.verdict = "malicious"
    BY <1>2 DEF LocalIsMeasured
  <2>6. verdict = "safe" => /\ r.local.verdict = "safe"
                            /\ result.verdict \in {"safe", "inconclusive"}
    BY <1>5, <2>1, <2>2 DEF MergeSandboxVerdict, Verdicts
  <2>7. r.alarm => r.local.verdict = "malicious" \/ (r.local = NoLocal /\ verdict # "safe")
    BY <1>8, <2>6, NothingIsSound
  <2> QED BY <1>1, <1>2, <1>3, <1>5, <2>1, <2>3, <2>4, <2>5, <2>6, <2>7, ConclusionIsSound
          DEF Sandbox, Began, ProvenMalicious
<1>6. ASSUME NEW result \in SandboxResults, result.proven, r.model = "pro",
             Concludes(s, DirectSandboxVerdict(result), r.local, result)
      PROVE  PipelineInv'
  <2>1. PICK verdict : verdict = DirectSandboxVerdict(result)
    OBVIOUS
  <2>2. result.verdict \in Verdicts
    BY ResultsHaveVerdicts
  <2>3. verdict \in Verdicts
    BY <2>1, <2>2 DEF DirectSandboxVerdict, Verdicts
  <2>4. result.verdict = "malicious" => verdict = "malicious"
    BY <1>6, <2>1 DEF DirectSandboxVerdict
  <2>5. verdict = "safe" => result.verdict = "safe" /\ result.releaseGrade
    BY <2>1 DEF DirectSandboxVerdict
  <2>6. r.local = NoLocal /\ ~NoLocal.detected
    BY <1>3, <1>6 DEF NoLocal
  <2>7. Concludes(s, verdict, NoLocal, result)
    BY <1>6, <2>1, <2>6
  <2> QED BY <1>1, <1>3, <1>6, <1>8, <2>3, <2>4, <2>5, <2>6, <2>7, NothingIsSound,
             ConclusionIsSound
          DEF Sandbox, Began, ProvenMalicious
<1>7. ASSUME scan' = [scan EXCEPT ![s].fallback = TRUE,
                        ![s].at = IF scan[s].model = "plus" THEN "cloud" ELSE "read"]
      PROVE  PipelineInv'
  <2>1. PICK next : next = IF r.model = "plus" THEN "cloud" ELSE "read"
    OBVIOUS
  <2>2. PICK t : t = [r EXCEPT !.fallback = TRUE, !.at = next]
    OBVIOUS
  <2>3. scan' = [scan EXCEPT ![s] = t]
    BY <1>1, <1>2, <1>7, <2>1, <2>2 DEF PipelineInv
  <2>4. t \in ScanRecords
    <3>1. next \in {"cloud", "read"}
      BY <2>1
    <3> QED BY <1>2, <2>2, <3>1 DEF ScanRecords
  <2>5. StageIsOrdered(t)
    BY <1>2, <1>3, <2>1, <2>2 DEF ScanRecords, StageIsOrdered
  <2>6. /\ t.at \in Began /\ t.upload = r.upload /\ t.cleanupPending = r.cleanupPending
        /\ t.local = r.local /\ t.alarm = r.alarm /\ t.verdict = r.verdict /\ t.model = r.model
        /\ t.at = next
    BY <1>2, <2>1, <2>2 DEF ScanRecords, Began
  <2>7. AlarmIsKept(t)
    BY <1>3, <1>8, <2>1, <2>6 DEF AlarmIsKept
  <2> QED BY <1>1, <1>2, <2>3, <2>4, <2>5, <2>6, <2>7, ProgressIsSound DEF Sandbox, Began
<1> QED BY <1>1, <1>3, <1>4, <1>5, <1>6, <1>7 DEF Sandbox

(* A fallback has no execution: what fuses to "safe" is the unchanged file.*)
LEMMA FusionOfFallback ==
    ASSUME NEW local \in Locals, LocalIsMeasured(local), NEW model
    PROVE  LET verdict == FuseEvidence(local, NoSandbox, model) IN
           /\ verdict \in Verdicts
           /\ local.verdict = "malicious" \/ local.detected => verdict = "malicious"
           /\ verdict = "safe" => local.verdict = "safe" /\ local.same /\ local.covered
<1>1. ~NoSandbox.proven
  BY NothingIsSound
<1> QED BY <1>1 DEF FuseEvidence, LocalStaticCoverage, Verdicts, LocalIsMeasured

LEMMA CloudStep ==
    ASSUME PipelineAssumption, PipelineInv, NEW s \in Scans, Cloud(s)
    PROVE  PipelineInv'
<1>1. PICK r : r = scan[s]
  OBVIOUS
<1>2. /\ ScanIsSound(r) /\ r \in ScanRecords /\ StageIsOrdered(r) /\ LocalIsMeasured(r.local)
      /\ r.local \in Locals
  BY <1>1 DEF PipelineInv, ScanIsSound, ScanRecords
<1>3. r.at = "cloud" /\ r.sandbox = NoSandbox
  BY <1>1, <1>2 DEF Cloud, StageIsOrdered
<1>4. CASE Fails(s)
  BY <1>4, FailureIsSound DEF Cloud, Began
<1>5. CASE Concludes(s, FuseEvidence(r.local, r.sandbox, r.model), r.local, r.sandbox)
  <2>1. PICK verdict : verdict = FuseEvidence(r.local, NoSandbox, r.model)
    OBVIOUS
  <2>2. /\ verdict \in Verdicts
        /\ r.local.verdict = "malicious" \/ r.local.detected => verdict = "malicious"
        /\ verdict = "safe" => r.local.verdict = "safe" /\ r.local.same /\ r.local.covered
    BY <1>2, <2>1, FusionOfFallback
  <2>3. Concludes(s, verdict, r.local, NoSandbox)
    BY <1>3, <1>5, <2>1
  <2>4. r.alarm => r.local.verdict = "malicious" \/ (r.local = NoLocal /\ verdict # "safe")
    BY <1>2, <1>3, <2>2, NothingIsSound DEF ScanIsSound, AlarmIsKept, ProvenMalicious
  <2> QED BY <1>1, <1>2, <1>3, <2>2, <2>3, <2>4, NothingIsSound, ConclusionIsSound
          DEF Cloud, Began, ProvenMalicious
<1> QED BY <1>1, <1>4, <1>5 DEF Cloud

(* What is attached does not change the verdict; a fallback is fused again.*)
LEMMA AttachStep ==
    ASSUME PipelineAssumption, PipelineInv, NEW s \in Scans, Attach(s)
    PROVE  PipelineInv'
<1>1. PICK r : r = scan[s]
  OBVIOUS
<1>2. /\ ScanIsSound(r) /\ r \in ScanRecords /\ StageIsOrdered(r) /\ LocalIsMeasured(r.local)
      /\ r.local \in Locals /\ VerdictFollows(r)
  BY <1>1 DEF PipelineInv, ScanIsSound, ScanRecords
<1>3. PICK end : end = IF r.upload THEN "cleanup" ELSE "done"
  OBVIOUS
<1>4. PICK verdict : verdict = IF r.fallback THEN FuseEvidence(r.local, r.sandbox, r.model)
                               ELSE r.verdict
  OBVIOUS
<1>5. PICK t : t = [r EXCEPT !.state = "completed", !.at = end, !.verdict = verdict]
  OBVIOUS
<1>6. scan' = [scan EXCEPT ![s] = t]
  BY <1>1, <1>2, <1>3, <1>4, <1>5 DEF Attach, PipelineInv
<1>7. r.fallback => /\ r.sandbox = NoSandbox /\ verdict \in Verdicts
                    /\ r.local.verdict = "malicious" \/ r.local.detected => verdict = "malicious"
                    /\ verdict = "safe" => /\ r.local.verdict = "safe" /\ r.local.same
                                           /\ r.local.covered
  BY <1>2, <1>4, FusionOfFallback DEF StageIsOrdered
<1>8. r.at = "attach" /\ (~r.fallback => verdict = r.verdict)
  BY <1>1, <1>4 DEF Attach
<1>9. t \in ScanRecords
  <2>1. verdict \in Verdicts \cup {"none"}
    BY <1>2, <1>7, <1>8 DEF ScanRecords
  <2>2. end \in {"cleanup", "done"}
    BY <1>3
  <2> QED BY <1>2, <1>5, <2>1, <2>2 DEF ScanRecords
<1>10. VerdictFollows(t)
  <2>1. CASE r.fallback
    BY <1>2, <1>5, <1>7, <2>1, NothingIsSound DEF ScanRecords, VerdictFollows, ProvenMalicious
  <2>2. CASE ~r.fallback
    BY <1>2, <1>5, <1>8, <2>2 DEF ScanRecords, VerdictFollows
  <2> QED BY <2>1, <2>2
<1>11. StageIsOrdered(t) /\ CleanupIsOwed(t) /\ LocalIsMeasured(t.local)
  BY <1>2, <1>3, <1>5, <1>8 DEF ScanIsSound, ScanRecords, StageIsOrdered, CleanupIsOwed
<1>12. Holder(t) = Holder(r)
  BY <1>2, <1>3, <1>5, <1>8 DEF ScanRecords, Holder
<1>14. AlarmIsKept(t)
  <2>1. /\ t.at = end /\ t.alarm = r.alarm /\ t.local = r.local /\ t.sandbox = r.sandbox
        /\ t.verdict = verdict
    BY <1>2, <1>5 DEF ScanRecords
  <2>2. r.alarm => /\ r.verdict # "safe"
                   /\ \/ r.local.verdict = "malicious" \/ ProvenMalicious(r.sandbox)
                      \/ r.local = NoLocal
    BY <1>2 DEF ScanIsSound, AlarmIsKept
  <2>3. r.alarm => verdict # "safe"
    BY <1>7, <1>8, <2>2, NothingIsSound DEF ProvenMalicious
  <2> QED BY <1>3, <2>1, <2>2, <2>3 DEF AlarmIsKept
<1>13. ScanIsSound(t)
  BY <1>9, <1>10, <1>11, <1>14 DEF ScanIsSound
<1> QED BY <1>1, <1>6, <1>8, <1>12, <1>13, ScanMoves DEF Attach

(* A scan starts from nothing; an upload is marked for its clean-up.       *)
LEMMA StartIsSound ==
    ASSUME PipelineAssumption, PipelineInv, NEW s \in Scans, NEW upload \in BOOLEAN,
           NEW model \in Models, Started(s, upload, model), UNCHANGED <<slots, disk>>,
           scan[s].at # "done",
           Holder(scan[s]) = upload
    PROVE  PipelineInv'
<1>1. PICK t : t = [NoScan EXCEPT !.at = "queued", !.upload = upload, !.model = model,
                                  !.state = "queued", !.cleanupPending = upload]
  OBVIOUS
<1>2. scan' = [scan EXCEPT ![s] = t]
  BY <1>1 DEF Started
<1>3. t \in ScanRecords
  BY <1>1, NothingIsSound DEF ScanRecords
<1>4. t = [NoScan EXCEPT !.at = "queued", !.upload = upload, !.model = model,
             !.state = "queued", !.cleanupPending = upload]
      /\ t.at = "queued" /\ t.upload = upload /\ t.cleanupPending = upload /\ t.state = "queued"
      /\ t.local = NoLocal /\ t.sandbox = NoSandbox /\ ~t.fallback /\ t.verdict = "none"
      /\ ~t.alarm
  BY <1>1 DEF NoScan
<1>5. ScanIsSound(t)
  BY <1>3, <1>4, NothingIsSound
  DEF ScanIsSound, StageIsOrdered, VerdictFollows, AlarmIsKept, CleanupIsOwed
<1>6. Holder(t) = upload
  BY <1>4 DEF Holder
<1> QED BY <1>2, <1>5, <1>6, ScanMoves

LEMMA StartPathStep ==
    ASSUME PipelineAssumption, PipelineInv, NEW s \in Scans, NEW model \in Models,
           StartPath(s, model)
    PROVE  PipelineInv'
<1>1. Holder(scan[s]) = FALSE /\ scan[s].at # "done"
  BY DEF StartPath, Holder
<1> QED BY <1>1, StartIsSound DEF StartPath

LEMMA UploadStep ==
    ASSUME PipelineAssumption, PipelineInv, NEW s \in Scans, NEW model \in Models,
           Upload(s, model)
    PROVE  PipelineInv'
<1>1. PICK r : r = scan[s]
  OBVIOUS
<1>2. ScanIsSound(r) /\ r \in ScanRecords /\ StageIsOrdered(r) /\ r.at = "idle"
  BY <1>1 DEF PipelineInv, ScanIsSound, Upload
<1>3. PICK t : t = [r EXCEPT !.at = "staging", !.upload = TRUE, !.model = model]
  OBVIOUS
<1>4. scan' = [scan EXCEPT ![s] = t]
  BY <1>1, <1>2, <1>3 DEF Upload, PipelineInv
<1>5. ScanIsSound(t)
  <2>1. t \in ScanRecords
    BY <1>2, <1>3 DEF ScanRecords
  <2>2. StageIsOrdered(t) /\ CleanupIsOwed(t)
    BY <1>2, <1>3 DEF ScanRecords, StageIsOrdered, CleanupIsOwed
  <2>3. VerdictFollows(t) /\ LocalIsMeasured(t.local)
    BY <1>2, <1>3, NothingIsSound DEF ScanRecords, StageIsOrdered, VerdictFollows
  <2>4. AlarmIsKept(t)
    BY <1>2, <1>3 DEF ScanIsSound, ScanRecords, AlarmIsKept
  <2> QED BY <2>1, <2>2, <2>3, <2>4 DEF ScanIsSound
<1>6. Holder(t) /\ ~Holder(r)
  BY <1>2, <1>3 DEF Holder, ScanRecords
<1> QED BY <1>1, <1>2, <1>4, <1>5, <1>6, ScanMoves DEF Upload

LEMMA StagedStep ==
    ASSUME PipelineAssumption, PipelineInv, NEW s \in Scans, Staged(s)
    PROVE  PipelineInv'
<1>1. scan[s].model \in Models /\ scan[s].at = "staging" /\ Holder(scan[s])
  BY DEF PipelineInv, ScanIsSound, ScanRecords, CleanupIsOwed, Staged, Holder
<1>2. CASE Started(s, TRUE, scan[s].model) /\ UNCHANGED <<slots, disk>>
  BY <1>1, <1>2, StartIsSound
<1>3. CASE /\ scan' = [scan EXCEPT ![s] = [NoScan EXCEPT !.at = "done"]]
           /\ disk' = [disk EXCEPT ![s] = Gone] /\ slots' = slots - 1
  <2>1. PICK t : t = [NoScan EXCEPT !.at = "done"]
    OBVIOUS
  <2>2. /\ t \in ScanRecords /\ t.at = "done" /\ ~t.upload /\ t.state = "none"
        /\ t.local = NoLocal /\ t.sandbox = NoSandbox /\ ~t.fallback /\ t.verdict = "none"
        /\ ~t.alarm
    <3>1. t \in ScanRecords
      BY <2>1, NothingIsSound DEF ScanRecords
    <3> QED BY <2>1, <3>1 DEF NoScan
  <2>3. ScanIsSound(t)
    BY <2>2, NothingIsSound
    DEF ScanIsSound, StageIsOrdered, VerdictFollows, AlarmIsKept, CleanupIsOwed
  <2>4. ~Holder(t)
    BY <2>2 DEF Holder
  <2> QED BY <1>1, <1>3, <2>1, <2>2, <2>3, <2>4, ScanMoves
<1> QED BY <1>2, <1>3 DEF Staged

(* The slot is given back with the clean-up, also when the file stays.     *)
LEMMA DiscardStep ==
    ASSUME PipelineAssumption, PipelineInv, NEW s \in Scans, Discard(s)
    PROVE  PipelineInv'
<1>1. PICK r : r = scan[s]
  OBVIOUS
<1>2. /\ ScanIsSound(r) /\ r \in ScanRecords /\ r.at = "cleanup" /\ r.upload
  BY <1>1 DEF PipelineInv, ScanIsSound, CleanupIsOwed, Discard
<1>3. PICK t : t = [r EXCEPT !.at = "done", !.cleanupPending = FALSE]
  OBVIOUS
<1>4. scan' = [scan EXCEPT ![s] = t]
  BY <1>1, <1>2, <1>3 DEF Discard, PipelineInv
<1>5. ScanIsSound(t)
  <2>1. t \in ScanRecords
    BY <1>2, <1>3 DEF ScanRecords
  <2>2. StageIsOrdered(t) /\ CleanupIsOwed(t)
    BY <1>2, <1>3 DEF ScanIsSound, ScanRecords, StageIsOrdered, CleanupIsOwed
  <2>3. VerdictFollows(t) /\ LocalIsMeasured(t.local)
    BY <1>2, <1>3 DEF ScanIsSound, ScanRecords, VerdictFollows
  <2>4. AlarmIsKept(t)
    BY <1>2, <1>3 DEF ScanIsSound, ScanRecords, AlarmIsKept
  <2> QED BY <2>1, <2>2, <2>3, <2>4 DEF ScanIsSound
<1>6. Holder(r) /\ ~Holder(t) /\ t.at = "done"
  BY <1>2, <1>3 DEF Holder, ScanRecords
<1>7. slots' = slots - 1
  BY DEF Discard, Released
<1>8. CASE disk' = [disk EXCEPT ![s] = Gone]
  BY <1>1, <1>4, <1>5, <1>6, <1>7, <1>8, ScanMoves
<1>9. CASE UNCHANGED disk
  BY <1>1, <1>2, <1>4, <1>5, <1>6, <1>7, <1>9, ScanMoves
<1> QED BY <1>8, <1>9 DEF Discard

(* A file that another program rewrites is there, and so it stays.         *)
LEMMA RewriteStep ==
    ASSUME PipelineAssumption, PipelineInv, NEW s \in Scans, Rewrite(s)
    PROVE  PipelineInv'
<1>1. disk[s] \in {0, 1}
  BY DEF PipelineInv, Rewrite, Running, Gone
<1>2. 1 - disk[s] \in {0, 1} /\ UNCHANGED <<scan, slots>>
  BY <1>1 DEF Rewrite
<1>3. disk' \in [Scans -> 0..Gone] /\ \A x \in Scans : disk'[x] = Gone => disk[x] = Gone
  BY <1>2 DEF PipelineInv, Rewrite, Gone
<1> QED BY <1>2, <1>3 DEF PipelineInv, SlotsAreExact, Holds

LEMMA PipelineInitInv == PipelineAssumption /\ PipelineInit => PipelineInv
<1> SUFFICES ASSUME PipelineAssumption, PipelineInit PROVE PipelineInv
  OBVIOUS
<1>1. scan = [s \in Scans |-> NoScan] /\ slots = 0 /\ disk = [s \in Scans |-> 0]
  BY DEF PipelineInit
<1>2. ScanIsSound(NoScan)
  <2>1. /\ NoScan.at = "idle" /\ ~NoScan.upload /\ NoScan.state = "none"
        /\ ~NoScan.fallback /\ NoScan.verdict = "none" /\ ~NoScan.alarm
    BY DEF NoScan
  <2> QED BY <2>1, NothingIsSound
          DEF ScanIsSound, StageIsOrdered, VerdictFollows, AlarmIsKept, CleanupIsOwed
<1>3. SlotsAreExact
  <2>1. {s \in Scans : Holds(s)} = {}
    BY <1>1 DEF Holds, NoScan
  <2> QED BY <1>1, <2>1, FS_EmptySet DEF SlotsAreExact, PipelineAssumption
<1>4. 0 \in 0..Gone /\ Gone # 0
  BY DEF Gone
<1> QED BY <1>1, <1>2, <1>3, <1>4 DEF PipelineInv

(* Every step of a scan keeps the invariant.                               *)
LEMMA PipelineStepInv == PipelineAssumption /\ PipelineInv /\ [PipelineNext]_pipelineVars => PipelineInv'
<1> SUFFICES ASSUME PipelineAssumption, PipelineInv, [PipelineNext]_pipelineVars
             PROVE  PipelineInv'
  OBVIOUS
<1>1. CASE UNCHANGED pipelineVars
  BY <1>1 DEF pipelineVars, PipelineInv, SlotsAreExact, Holds
<1>2. ASSUME NEW s \in Scans, NEW model \in Asked(s), StartPath(s, model) \/ Upload(s, model)
      PROVE  PipelineInv'
  <2>1. model \in Models
    BY DEF Asked, Models
  <2> QED BY <1>2, <2>1, StartPathStep, UploadStep
<1>3. ASSUME NEW s \in Scans, ScanStep(s)
      PROVE  PipelineInv'
  BY <1>3, StagedStep, RunStep, ReadStep, AnalyzeStep, EnginesStep, CheckStep, PreflightStep,
     SandboxStep, CloudStep, AttachStep, DiscardStep
  DEF ScanStep
<1>4. ASSUME NEW s \in Scans, Rewrite(s)
      PROVE  PipelineInv'
  BY <1>4, RewriteStep
<1> QED BY <1>1, <1>2, <1>3, <1>4 DEF PipelineNext

(* The invariant of the model scans: a scan past its first read stands in  *)
(* the order of its pipeline with what it measured, a finished one has the *)
(* verdict its evidence gives, an upload's staged copy is owed a cleanup   *)
(* as long as it exists, and the slots count the uploads in progress.      *)
THEOREM PipelineInvariant == PipelineSpec => []PipelineInv
BY PipelineAssumption, PipelineInitInv, PipelineStepInv, PTL DEF PipelineSpec

(* Once the analysis, the threat database, ClamAV or a proven execution has*)
(* found a file malicious, its scan never says safe, also if the detection *)
(* is set aside because the file changed before it was read again, or a    *)
(* later phase fails; and a completed scan says malicious if the second    *)
(* read found the scanned file, or the execution was what found it         *)
(* (scanPath, the fusion of evidence and its three callers).               *)
THEOREM MaliciousAlwaysWins == PipelineSpec => []MaliciousEvidenceWins
<1>1. PipelineInv => MaliciousEvidenceWins
  <2> SUFFICES ASSUME PipelineInv, NEW s \in Scans, scan[s].alarm
               PROVE  /\ scan[s].verdict # "safe"
                      /\ /\ scan[s].state = "completed"
                         /\ scan[s].local.revalidated \/ ProvenMalicious(scan[s].sandbox)
                         => scan[s].verdict = "malicious"
    BY DEF MaliciousEvidenceWins
  <2>1. AlarmIsKept(scan[s]) /\ VerdictFollows(scan[s])
    BY DEF PipelineInv, ScanIsSound
  <2>2. ~NoLocal.revalidated
    BY DEF NoLocal
  <2> QED BY <2>1, <2>2 DEF AlarmIsKept, VerdictFollows
<1> QED BY <1>1, PipelineInvariant, PTL

(* A safe verdict rests on evidence: the unchanged file was found safe with*)
(* full coverage or a proven run, or the pro model saw a release-grade run *)
(* of it, for any number of scans and of rewrites by other programs.       *)
THEOREM SafeHasEvidence == PipelineSpec => []SafeIsBacked
<1>1. PipelineInv => SafeIsBacked
  BY DEF PipelineInv, ScanIsSound, VerdictFollows, SafeIsBacked
<1> QED BY <1>1, PipelineInvariant, PTL

(* The limit's counter is exact: each upload that is staged or scanned     *)
(* holds one slot, on every path through the handler, its failures         *)
(* included (activeStagedScans).                                           *)
THEOREM SlotsStayExact == PipelineSpec => []SlotsAreExact
<1>1. PipelineInv => SlotsAreExact
  BY DEF PipelineInv
<1> QED BY <1>1, PipelineInvariant, PTL

(* A client that is told its scan completed or failed can upload again:    *)
(* the slot was given back before, on every path (the finally of the       *)
(* handler).                                                               *)
THEOREM FinishedScansHaveReleased == PipelineSpec => []FinishedMeansReleased
<1>1. PipelineInv => FinishedMeansReleased
  BY DEF PipelineInv, ScanIsSound, StageIsOrdered, CleanupIsOwed, FinishedMeansReleased, Shown, Holds
<1> QED BY <1>1, PipelineInvariant, PTL

------------------------------------------------------------------------------
(* Behavioral analysis.                                                    *)

LEMMA OrderIsOfBackends ==
    /\ Order \in Seq(Backends) /\ Len(Order) \in Nat \ {0} /\ DOMAIN Order = 1..Len(Order)
    /\ \A i, j \in DOMAIN Order : Order[i] = Order[j] => i = j
    /\ \A i \in DOMAIN Order : Order[i] \in Backends
    /\ \A b \in Backends : \E i \in DOMAIN Order : Order[i] = b
<1>1. Order \in Seq(Backends) /\ Order # <<>>
  BY SandboxAssumption DEF Backends
<1>2. Len(Order) \in Nat \ {0} /\ DOMAIN Order = 1..Len(Order)
  BY <1>1
<1>3. \A i, j \in DOMAIN Order : Order[i] = Order[j] => i = j
  BY SandboxAssumption DEF IsInjective
<1>4. /\ \A i \in DOMAIN Order : Order[i] \in Backends
      /\ \A b \in Backends : \E i \in DOMAIN Order : Order[i] = b
  BY DEF Backends, Range
<1> QED BY <1>1, <1>2, <1>3, <1>4

LEMMA CandidatesAreBackends ==
    ASSUME NEW shown, shown = {} \/ \E b \in Backends : shown = {b}
    PROVE  Candidates(shown) \in Seq(Backends) /\ Candidates(shown) # <<>>
<1>1. CASE shown = {}
  BY <1>1, OrderIsOfBackends DEF Candidates
<1>2. CASE shown # {}
  <2>1. PICK k \in DOMAIN Order : Candidates(shown) = FirstThenOthers(k)
    BY <1>2, OrderIsOfBackends DEF Candidates
  <2>2. PICK n \in Nat \ {0} : n = Len(Order) /\ DOMAIN Order = 1..n
    BY OrderIsOfBackends
  <2>3. FirstThenOthers(k) \in [1..n -> Backends]
    BY <2>2, OrderIsOfBackends DEF FirstThenOthers
  <2> QED BY <2>1, <2>2, <2>3
<1> QED BY <1>1, <1>2

(* The router shows at most one backend; if any that it shows is of        *)
(* release grade, all are accepted.                                        *)
LEMMA SelectedIsOne ==
    ASSUME SandboxInv
    PROVE  /\ Selected = {} \/ \E b \in Backends : Selected = {b}
           /\ SelectedIsReleaseGrade => Selected \subseteq accepted
<1>1. CASE active # {}
  BY <1>1 DEF Selected, SelectedIsReleaseGrade, SandboxInv, SandboxTypes, AcceptanceIsKept
<1>2. CASE active = {}
  <2>1. PICK first : first = {i \in DOMAIN Order : /\ ReleaseGrade(Order[i])
                                                   /\ \A j \in 1..(i - 1) : ~ReleaseGrade(Order[j])}
    OBVIOUS
  <2>2. \A i, j \in first : i = j
    <3> SUFFICES ASSUME NEW i \in first, NEW j \in first, i # j PROVE FALSE
      OBVIOUS
    <3>1. i \in Nat \ {0} /\ j \in Nat \ {0} /\ (i < j \/ j < i)
      BY <2>1, OrderIsOfBackends
    <3> QED BY <2>1, <3>1
  <2>3. Selected = {Order[i] : i \in first}
    BY <1>2, <2>1 DEF Selected
  <2>4. \A i \in first : Order[i] \in Backends /\ Order[i] \in accepted
    BY <2>1, OrderIsOfBackends DEF SandboxInv, AcceptanceIsKept
  <2>5. Selected = {} \/ \E b \in Backends : Selected = {b}
    <3>1. ASSUME NEW i \in first PROVE Selected = {Order[i]}
      BY <2>2, <2>3
    <3> QED BY <2>3, <2>4, <3>1
  <2> QED BY <2>3, <2>4, <2>5
<1> QED BY <1>1, <1>2

(* What SetAcc keeps.                                                      *)
LEMMA SetAccKeeps ==
    ASSUME SandboxInv, NEW b \in Backends, NEW what \in SUBSET {"containment", "isolation"},
           SetAcc(b, what)
    PROVE  /\ acc' \in [Backends -> SUBSET {"containment", "isolation"}]
           /\ AcceptanceIsKept' /\ accepted \subseteq accepted'
<1>1. acc' \in [Backends -> SUBSET {"containment", "isolation"}]
  BY DEF SandboxInv, SandboxTypes, SetAcc
<1>2. AcceptanceIsKept'
  BY DEF SandboxInv, SandboxTypes, AcceptanceIsKept, ReleaseGrade, SetAcc
<1> QED BY <1>1, <1>2 DEF SetAcc

LEMMA GotAndLostKeep ==
    ASSUME SandboxInv, NEW b \in Backends, NEW what \in {"containment", "isolation"},
           Got(b, what) \/ Lost(b, what)
    PROVE  /\ acc' \in [Backends -> SUBSET {"containment", "isolation"}]
           /\ AcceptanceIsKept' /\ accepted \subseteq accepted'
<1>1. acc[b] \cup {what} \in SUBSET {"containment", "isolation"}
      /\ acc[b] \ {what} \in SUBSET {"containment", "isolation"}
  BY DEF SandboxInv, SandboxTypes
<1> QED BY <1>1, SetAccKeeps DEF Got, Lost

LEMMA BoundStaysBound ==
    ASSUME NEW call, NEW known, NEW more, known \subseteq more, AnalysisIsBound(call, known)
    PROVE  AnalysisIsBound(call, more)
BY DEF AnalysisIsBound
LEMMA AnalysesStayBound ==
    ASSUME SandboxInv, UNCHANGED analysis, accepted \subseteq accepted'
    PROVE  AnalysesAreBound'
BY BoundStaysBound DEF SandboxInv, AnalysesAreBound

(* A self-test that goes on, or ends and wakes who awaits it.              *)
LEMMA TurnsKeeps ==
    ASSUME SandboxInv, NEW t \in Testers, NEW todo \in Seq(Backends),
           NEW at \in {"contain", "containing", "isolate", "recontaining", "isolating", "caps",
                       "probe", "probing"},
           at \notin {"caps", "probe", "probing"} => todo # <<>>, Turns(t, at, todo), accepted \subseteq accepted'
    PROVE  TestTypes' /\ certified' \in BOOLEAN /\ AnalysesAreBound'
<1>1. TestTypes'
  BY DEF SandboxInv, TestTypes, Turns
<1>2. certified' \in BOOLEAN /\ AnalysesAreBound'
  BY AnalysesStayBound DEF SandboxInv, SandboxTypes, Turns
<1> QED BY <1>1, <1>2

LEMMA WokenIsBound ==
    ASSUME SandboxInv, NEW a \in Analyses, NEW ok \in BOOLEAN, NEW threw \in BOOLEAN
    PROVE  AnalysisIsBound(Woken(a, ok, threw), accepted)
<1>1. AnalysisIsBound(analysis[a], accepted)
  BY DEF SandboxInv, AnalysesAreBound
<1>2. PICK call : call = Woken(a, ok, threw)
  OBVIOUS
<1>3. CASE analysis[a].at # "waiting"
  BY <1>1, <1>3 DEF Woken
<1>4. CASE analysis[a].at = "waiting" /\ ok
  <2>1. call = [analysis[a] EXCEPT !.at = "caps"]
    BY <1>2, <1>4 DEF Woken
  <2> QED BY <1>1, <1>2, <1>4, <2>1 DEF AnalysisIsBound
<1>5. CASE analysis[a].at = "waiting" /\ ~ok
  BY <1>5 DEF Woken, NoAnalysis, AnalysisIsBound
<1> QED BY <1>3, <1>4, <1>5

LEMMA EndsKeeps ==
    ASSUME SandboxInv, NEW t \in Testers, NEW ok \in BOOLEAN, NEW threw \in BOOLEAN,
           Ends(t, ok, threw), accepted \subseteq accepted'
    PROVE  TestTypes' /\ certified' \in BOOLEAN /\ AnalysesAreBound'
<1>1. TestTypes'
  BY DEF SandboxInv, TestTypes, Ends, NoTest
<1>2. CASE t = "own"
  <2>1. analysis' = [a \in Analyses |-> Woken(a, ok, threw)] /\ certified' = ok
    BY <1>2 DEF Ends
  <2>2. \A a \in Analyses : AnalysisIsBound(analysis'[a], accepted')
    BY <2>1, WokenIsBound, BoundStaysBound
  <2> QED BY <1>1, <2>1, <2>2 DEF AnalysesAreBound
<1>3. CASE t # "own"
  BY <1>1, <1>3, AnalysesStayBound DEF Ends, SandboxInv, SandboxTypes
<1> QED BY <1>2, <1>3

(* The self-test is at one of the candidates.                              *)
Looks(t) == test[t].at \notin {"idle", "caps", "probe", "probing"}

LEMMA NextCandidateKeeps ==
    ASSUME SandboxInv, NEW t \in Testers, Looks(t), NextCandidate(t), accepted \subseteq accepted'
    PROVE  /\ TestTypes' /\ certified' \in BOOLEAN /\ AnalysesAreBound'
           /\ active' = {} \/ active' = active
<1>1. CASE Tail(test[t].todo) = <<>>
  BY <1>1, EndsKeeps DEF NextCandidate
<1>2. CASE Tail(test[t].todo) # <<>>
  <2>1. Tail(test[t].todo) \in Seq(Backends)
    BY DEF SandboxInv, TestTypes, Looks
  <2> QED BY <1>2, <2>1, TurnsKeeps DEF NextCandidate
<1> QED BY <1>1, <1>2

(* The first of the candidates left.                                       *)
LEMMA HeadIsBackend ==
    ASSUME SandboxInv, NEW t \in Testers, Looks(t)
    PROVE  /\ test[t].todo \in Seq(Backends) /\ test[t].todo # <<>>
           /\ Head(test[t].todo) \in Backends /\ Tail(test[t].todo) \in Seq(Backends)
BY DEF SandboxInv, TestTypes, Looks

LEMMA ContainmentStep ==
    ASSUME SandboxInv, NEW t \in Testers,
           ContainmentBegins(t) \/ ContainmentThrows(t) \/ ContainmentEnds(t), UNCHANGED sample
    PROVE  SandboxInv'
<1>1. Looks(t)
  BY DEF Looks, ContainmentBegins, ContainmentEnds, ContainmentThrows
<1>2. PICK b \in Backends : b = Head(test[t].todo)
  BY <1>1, HeadIsBackend
<1>3. Got(b, "containment") \/ Lost(b, "containment")
  BY <1>2 DEF ContainmentBegins, ContainmentEnds, ContainmentThrows
<1>4. /\ acc' \in [Backends -> SUBSET {"containment", "isolation"}]
      /\ AcceptanceIsKept' /\ accepted \subseteq accepted'
  BY <1>3, GotAndLostKeep
<1>5. TestTypes' /\ certified' \in BOOLEAN /\ AnalysesAreBound'
  <2>1. CASE ContainmentBegins(t)
    <3>1. Turns(t, "containing", test[t].todo)
      BY <2>1 DEF ContainmentBegins
    <3> QED BY <1>1, <1>4, <3>1, HeadIsBackend, TurnsKeeps
  <2>2. CASE /\ test' = [test EXCEPT ![t] = [at |-> "isolate", todo |-> Candidates({b}),
                                             contained |-> TRUE]]
             /\ UNCHANGED <<certified, analysis>>
    <3>1. Candidates({b}) \in Seq(Backends) /\ Candidates({b}) # <<>>
      BY CandidatesAreBackends
    <3>2. TestTypes'
      BY <2>2, <3>1 DEF SandboxInv, TestTypes
    <3> QED BY <1>4, <2>2, <3>2, AnalysesStayBound DEF SandboxInv, SandboxTypes
  <2>3. CASE IF Tail(test[t].todo) = <<>> THEN Turns(t, "isolate", Candidates({}))
                                          ELSE Turns(t, "contain", Tail(test[t].todo))
    <3>1. Candidates({}) \in Seq(Backends) /\ Candidates({}) # <<>>
      BY CandidatesAreBackends
    <3> QED BY <1>1, <1>4, <2>3, <3>1, HeadIsBackend, TurnsKeeps
  <2>4. CASE Ends(t, FALSE, TRUE)
    BY <1>4, <2>4, EndsKeeps
  <2> QED BY <1>2, <2>1, <2>2, <2>3, <2>4 DEF ContainmentEnds, ContainmentThrows
<1>6. active' = {} \/ (\E d \in Backends : active' = {d})
  BY <1>2 DEF SandboxInv, SandboxTypes, ContainmentBegins, ContainmentEnds, ContainmentThrows
<1>7. UNCHANGED late
  BY DEF ContainmentBegins, ContainmentEnds, ContainmentThrows
<1> QED BY <1>4, <1>5, <1>6, <1>7 DEF SandboxInv, SandboxTypes

LEMMA IsolationStep ==
    ASSUME SandboxInv, NEW t \in Testers,
           IsolationBegins(t) \/ Recontained(t) \/ IsolationEnds(t), UNCHANGED sample
    PROVE  SandboxInv'
<1>1. Looks(t)
  BY DEF Looks, IsolationBegins, Recontained, IsolationEnds
<1>2. PICK b \in Backends : b = Head(test[t].todo)
  BY <1>1, HeadIsBackend
<1>3. \/ Got(b, "isolation") \/ Lost(b, "isolation") \/ Lost(b, "containment")
      \/ SetAcc(b, {"containment"}) \/ UNCHANGED <<acc, accepted>>
  BY <1>2 DEF IsolationBegins, Recontained, IsolationEnds
<1>4. /\ acc' \in [Backends -> SUBSET {"containment", "isolation"}]
      /\ AcceptanceIsKept' /\ accepted \subseteq accepted'
  <2>1. CASE UNCHANGED <<acc, accepted>>
    BY <2>1 DEF SandboxInv, SandboxTypes, AcceptanceIsKept, ReleaseGrade
  <2> QED BY <1>3, <2>1, GotAndLostKeep, SetAccKeeps
<1>5. \/ NextCandidate(t)
      \/ \E at \in {"recontaining", "isolating"} : Turns(t, at, test[t].todo) /\ UNCHANGED active
      \/ Turns(t, "caps", <<>>) /\ active' = {b}
      \/ Ends(t, FALSE, TRUE) /\ UNCHANGED active
  BY <1>2 DEF IsolationBegins, Recontained, IsolationEnds
<1>6. TestTypes' /\ certified' \in BOOLEAN /\ AnalysesAreBound'
  <2>1. CASE NextCandidate(t)
    BY <1>1, <1>4, <2>1, NextCandidateKeeps
  <2>2. ASSUME NEW at \in {"recontaining", "isolating"}, Turns(t, at, test[t].todo)
        PROVE  TestTypes' /\ certified' \in BOOLEAN /\ AnalysesAreBound'
    BY <1>1, <1>4, <2>2, HeadIsBackend, TurnsKeeps
  <2>3. CASE Turns(t, "caps", <<>>)
    <3>1. <<>> \in Seq(Backends)
      OBVIOUS
    <3> QED BY <1>4, <2>3, <3>1, TurnsKeeps
  <2>4. CASE Ends(t, FALSE, TRUE)
    BY <1>4, <2>4, EndsKeeps
  <2> QED BY <1>5, <2>1, <2>2, <2>3, <2>4
<1>7. active' = {} \/ (\E d \in Backends : active' = {d})
  <2>1. active' = {} \/ active' = active \/ active' = {b}
    BY <1>1, <1>4, <1>5, NextCandidateKeeps
  <2> QED BY <2>1 DEF SandboxInv, SandboxTypes
<1>8. late' \subseteq Backends
  BY <1>2 DEF SandboxInv, SandboxTypes, IsolationBegins, Recontained, IsolationEnds
<1> QED BY <1>4, <1>6, <1>7, <1>8 DEF SandboxInv, SandboxTypes

LEMMA BegunKeeps ==
    ASSUME SandboxInv, NEW t \in Testers, test' = Begun(t)
    PROVE  TestTypes'
<1>1. PICK new : new = [NoTest EXCEPT !.at = "contain", !.todo = Order]
  OBVIOUS
<1>2. new = [at |-> "contain", todo |-> Order, contained |-> FALSE]
  BY <1>1 DEF NoTest
<1>3. Order \in Seq(Backends) /\ Order # <<>>
  BY OrderIsOfBackends
<1>4. test' = [test EXCEPT ![t] = new]
  BY <1>1 DEF Begun
<1> QED BY <1>2, <1>3, <1>4 DEF SandboxInv, TestTypes

(* The harmless launch ends the self-test, or a new one begins, or a poll  *)
(* that was reading accepts its backend late.                              *)
LEMMA OtherTestStep ==
    ASSUME SandboxInv,
           \/ \E t \in Testers : /\ Ready(t) \/ ProbeBegins(t) \/ ProbeEnds(t)
                                /\ UNCHANGED sample
           \/ \E t \in Testers : StartTest(t)
           \/ \E b \in Backends : LatePoll(b)
    PROVE  SandboxInv'
<1>1. ASSUME NEW t \in Testers, Ready(t) \/ ProbeBegins(t) \/ ProbeEnds(t), UNCHANGED sample
      PROVE  SandboxInv'
  <2>1. UNCHANGED <<acc, accepted, late, sample>>
    BY <1>1 DEF Ready, ProbeBegins, ProbeEnds
  <2>2. active' = active \/ active' = Selected
    BY <1>1 DEF Ready, ProbeBegins, ProbeEnds
  <2>3. active' = {} \/ \E b \in Backends : active' = {b}
    BY <2>2, SelectedIsOne DEF SandboxInv, SandboxTypes
  <2>4. TestTypes' /\ certified' \in BOOLEAN /\ AnalysesAreBound'
    <3>1. ASSUME NEW at \in {"probe", "probing"}, Turns(t, at, <<>>)
          PROVE  TestTypes' /\ certified' \in BOOLEAN /\ AnalysesAreBound'
      <4>1. <<>> \in Seq(Backends)
        OBVIOUS
      <4> QED BY <2>1, <3>1, <4>1, TurnsKeeps
    <3>2. ASSUME NEW ok \in BOOLEAN, NEW threw \in BOOLEAN, Ends(t, ok, threw)
          PROVE  TestTypes' /\ certified' \in BOOLEAN /\ AnalysesAreBound'
      BY <2>1, <3>2, EndsKeeps
    <3> QED BY <1>1, <3>1, <3>2 DEF Ready, ProbeBegins, ProbeEnds
  <2> QED BY <2>1, <2>3, <2>4 DEF SandboxInv, SandboxTypes, AcceptanceIsKept, ReleaseGrade
<1>2. ASSUME NEW t \in Testers, StartTest(t) PROVE SandboxInv'
  <2>1. UNCHANGED <<acc, active, late, analysis, sample, accepted>> /\ certified' \in BOOLEAN
    BY <1>2 DEF StartTest, SandboxInv, SandboxTypes
  <2>2. TestTypes'
    BY <1>2, BegunKeeps DEF StartTest
  <2> QED BY <2>1, <2>2, AnalysesStayBound
          DEF SandboxInv, SandboxTypes, AcceptanceIsKept, ReleaseGrade
<1>3. ASSUME NEW b \in Backends, LatePoll(b) PROVE SandboxInv'
  <2>1. /\ acc' \in [Backends -> SUBSET {"containment", "isolation"}]
        /\ AcceptanceIsKept' /\ accepted \subseteq accepted'
    BY <1>3, GotAndLostKeep DEF LatePoll
  <2>2. UNCHANGED <<active, certified, test, analysis, sample>> /\ late' \subseteq Backends
    BY <1>3 DEF LatePoll, SandboxInv, SandboxTypes
  <2> QED BY <2>1, <2>2, AnalysesStayBound DEF SandboxInv, SandboxTypes, TestTypes
<1> QED BY <1>1, <1>2, <1>3

(* One analysis changes, and is bound as before.                           *)
LEMMA CallStep ==
    ASSUME SandboxInv, NEW a \in Analyses, NEW call, AnalysisIsBound(call, accepted),
           Steps(a, call), TestTypes', UNCHANGED certified,
           active' = {} \/ \E b \in Backends : active' = {b}
    PROVE  SandboxInv'
<1>1. AnalysesAreBound'
  BY DEF SandboxInv, AnalysesAreBound, Steps
<1> QED BY <1>1 DEF SandboxInv, SandboxTypes, AcceptanceIsKept, ReleaseGrade, Steps

LEMMA DoneIsBound ==
    ASSUME NEW known PROVE AnalysisIsBound([NoAnalysis EXCEPT !.at = "done"], known)
BY DEF NoAnalysis, AnalysisIsBound

LEMMA AnalysisStepInv ==
    ASSUME SandboxInv, NEW a \in Analyses, PreflightSample(a) \/ AnalysisStep(a)
    PROVE  SandboxInv'
<1>0. /\ AnalysisIsBound(analysis[a], accepted) /\ TestTypes /\ sample \in {0, 1}
      /\ active = {} \/ \E b \in Backends : active = {b}
  BY DEF SandboxInv, SandboxTypes, AnalysesAreBound
<1>1. CASE /\ Steps(a, [NoAnalysis EXCEPT !.at = "done"]) /\ UNCHANGED <<certified, test>>
           /\ active' = Selected \/ active' = active
  <2>1. TestTypes' /\ (active' = {} \/ \E b \in Backends : active' = {b})
    BY <1>0, <1>1, SelectedIsOne DEF TestTypes
  <2> QED BY <1>1, <2>1, DoneIsBound, CallStep
<1>2. ASSUME NEW call, AnalysisIsBound(call, accepted), Steps(a, call),
             UNCHANGED <<active, certified, test>>
      PROVE  SandboxInv'
  <2>1. TestTypes' /\ (active' = {} \/ \E b \in Backends : active' = {b})
    BY <1>0, <1>2 DEF TestTypes
  <2> QED BY <1>2, <2>1, CallStep
<1>3. CASE PreflightSample(a)
  <2>1. AnalysisIsBound([NoAnalysis EXCEPT !.at = "certify", !.seen = sample], accepted)
    BY <1>0 DEF NoAnalysis, AnalysisIsBound
  <2> QED BY <1>2, <1>3, <2>1, DoneIsBound DEF PreflightSample
<1>4. CASE Certify(a)
  <2>1. PICK at \in {"caps", "waiting"} : Steps(a, [analysis[a] EXCEPT !.at = at])
    BY <1>4 DEF Certify
  <2>2. PICK call : call = [analysis[a] EXCEPT !.at = at]
    OBVIOUS
  <2>3. AnalysisIsBound(call, accepted)
    BY <1>0, <1>4, <2>2 DEF AnalysisIsBound, Certify
  <2>4. TestTypes'
    <3>1. test' = test \/ test' = Begun("own")
      BY <1>4 DEF Certify
    <3>2. "own" \in Testers
      BY DEF Testers
    <3> QED BY <1>0, <3>1, <3>2, BegunKeeps DEF TestTypes
  <2> QED BY <1>0, <1>4, <2>1, <2>2, <2>3, <2>4, CallStep DEF Certify
<1>5. CASE Caps(a)
  <2>1. PICK call : call = [analysis[a] EXCEPT !.at = "route"]
    OBVIOUS
  <2>2. AnalysisIsBound(call, accepted)
    BY <1>0, <1>5, <2>1 DEF AnalysisIsBound, Caps
  <2> QED BY <1>1, <1>2, <1>5, <2>1, <2>2 DEF Caps, Refused
<1>6. CASE Route(a)
  <2>1. CASE \E b \in Selected : Admits(b)
    <3>1. /\ Selected \subseteq accepted
          /\ Selected = {} \/ \E b \in Backends : Selected = {b}
      BY <2>1, SelectedIsOne DEF Admits, SelectedIsReleaseGrade
    <3>2. PICK call : call = [analysis[a] EXCEPT !.at = "stage", !.backend = Selected]
      OBVIOUS
    <3>3. AnalysisIsBound(call, accepted)
      BY <1>0, <1>6, <3>1, <3>2 DEF AnalysisIsBound, Route
    <3>4. /\ Steps(a, call) /\ active' = Selected /\ UNCHANGED <<certified, test>>
      BY <1>6, <2>1, <3>2 DEF Route
    <3>5. TestTypes'
      BY <1>0, <3>4 DEF TestTypes
    <3> QED BY <3>1, <3>3, <3>4, <3>5, CallStep
  <2>2. CASE ~\E b \in Selected : Admits(b)
    BY <1>1, <1>6, <2>2 DEF Route
  <2> QED BY <2>1, <2>2
<1>7. CASE Stage(a)
  <2>1. PICK call : call = [analysis[a] EXCEPT !.at = "launched", !.staged = sample]
    OBVIOUS
  <2>2. Identical(a) => AnalysisIsBound(call, accepted)
    BY <1>0, <1>7, <2>1 DEF AnalysisIsBound, Stage, Identical
  <2> QED BY <1>1, <1>2, <1>7, <2>1, <2>2 DEF Stage, Refused
<1>8. CASE Finish(a)
  <2>1. CASE Steps(a, [NoAnalysis EXCEPT !.at = "done"])
    BY <1>1, <1>8, <2>1 DEF Finish
  <2>2. ASSUME NEW b \in analysis[a].backend, NEW r \in Reports, Accepted(b, r),
               Steps(a, [analysis[a] EXCEPT !.at = "done", !.ok = TRUE,
                 !.report = {[session |-> r.session, started |-> r.started,
                              verdict |-> BehaviorVerdict(b, r)]}])
        PROVE  SandboxInv'
    <3>1. PICK told : told = [session |-> r.session, started |-> r.started,
                              verdict |-> BehaviorVerdict(b, r)]
      OBVIOUS
    <3>2. r.session = "this" /\ r.started
      BY <2>2 DEF Accepted, VmProven, ValidateMicroVmEvidence, ValidateTelemetry
    <3>3. BehaviorVerdict(b, r) \in {"malicious", "suspicious", "inconclusive"}
      BY DEF Reports, BehaviorVerdict, VmVerdict, EvaluateTelemetry
    <3>4. /\ told \in [session : {"this", "other"}, started : BOOLEAN,
                       verdict : {"malicious", "suspicious", "inconclusive"}]
          /\ told.session = "this" /\ told.started
      BY <3>1, <3>2, <3>3
    <3>5. PICK call : call = [analysis[a] EXCEPT !.at = "done", !.ok = TRUE, !.report = {told}]
      OBVIOUS
    <3>6. AnalysisIsBound(call, accepted)
      BY <1>0, <1>8, <3>4, <3>5 DEF AnalysisIsBound, Finish
    <3>7. Steps(a, call)
      BY <2>2, <3>1, <3>5
    <3> QED BY <1>2, <1>8, <3>6, <3>7 DEF Finish
  <2> QED BY <1>8, <2>1, <2>2 DEF Finish
<1> QED BY <1>3, <1>4, <1>5, <1>6, <1>7, <1>8 DEF AnalysisStep

LEMMA SandboxInitInv == SandboxInit => SandboxInv
<1> SUFFICES ASSUME SandboxInit PROVE SandboxInv
  OBVIOUS
<1>1. SandboxTypes /\ AcceptanceIsKept
  BY DEF SandboxInit, SandboxTypes, AcceptanceIsKept, ReleaseGrade
<1>2. TestTypes
  BY DEF SandboxInit, TestTypes, NoTest
<1>3. AnalysesAreBound
  BY DEF SandboxInit, AnalysesAreBound, AnalysisIsBound, NoAnalysis
<1> QED BY <1>1, <1>2, <1>3 DEF SandboxInv

(* Every step keeps the invariant.                                         *)
LEMMA SandboxStepInv == SandboxInv /\ [SandboxNext]_sandboxVars => SandboxInv'
<1> SUFFICES ASSUME SandboxInv, [SandboxNext]_sandboxVars PROVE SandboxInv'
  OBVIOUS
<1>1. CASE UNCHANGED sandboxVars
  BY <1>1 DEF sandboxVars, SandboxInv, SandboxTypes, TestTypes, AcceptanceIsKept, ReleaseGrade,
     AnalysesAreBound
<1>2. ASSUME NEW t \in Testers, TestStep(t) PROVE SandboxInv'
  BY <1>2, ContainmentStep, IsolationStep, OtherTestStep DEF TestStep
<1>3. CASE WriteSample
  <2>1. sample' \in {0, 1} /\ UNCHANGED <<acc, active, certified, test, late, analysis, accepted>>
    BY <1>3 DEF WriteSample, SandboxInv, SandboxTypes
  <2> QED BY <2>1, AnalysesStayBound
          DEF SandboxInv, SandboxTypes, TestTypes, AcceptanceIsKept, ReleaseGrade
<1> QED BY <1>1, <1>2, <1>3, OtherTestStep, AnalysisStepInv DEF SandboxNext

(* The sandbox's invariant holds for any number of backends of any kinds,  *)
(* analyses, self-tests and changes of the sample.                         *)
THEOREM SandboxInvariant == SandboxSpec => []SandboxInv
BY SandboxInitInv, SandboxStepInv, PTL DEF SandboxSpec

(* A sample is only launched in a backend whose containment and isolation  *)
(* tests this process has seen pass, whatever the router, the two          *)
(* controllers and late polls do between the check and the launch.         *)
THEOREM SamplesRunWhereAccepted == SandboxSpec => []LaunchedWhereAccepted
<1>1. SandboxInv => LaunchedWhereAccepted
  BY DEF SandboxInv, AnalysesAreBound, AnalysisIsBound, LaunchedWhereAccepted
<1> QED BY <1>1, SandboxInvariant, PTL

(* A result is about the preflighted file, run in a session of its own,    *)
(* and calls nothing safe.                                                 *)
THEOREM ResultsAreOfTheirSample == SandboxSpec => []ResultsAreOwn
<1>1. SandboxInv => ResultsAreOwn
  BY DEF SandboxInv, AnalysesAreBound, AnalysisIsBound, ResultsAreOwn
<1> QED BY <1>1, SandboxInvariant, PTL

------------------------------------------------------------------------------
(* The service.                                                            *)

LEMMA ServiceInit ==
    Init => /\ IntelInit /\ PipelineInit /\ SandboxInit /\ UpdateInit /\ FilesInit
            /\ FileScanInit
BY DEF Init

(* A step of the service moves one part; for the others it is a stutter.   *)
LEMMA ServiceStep ==
    ASSUME [Next]_serviceVars
    PROVE  /\ [IntelNext]_intelVars /\ [PipelineNext]_pipelineVars /\ [SandboxNext]_sandboxVars
           /\ [UpdateNext]_updateVars /\ [FilesNext]_filesVars /\ [FileScanNext]_fileScanVars
<1>1. CASE UNCHANGED serviceVars
  BY <1>1 DEF serviceVars
<1>2. CASE Next
  BY <1>2 DEF Next, Intel, Pipeline, Behavior, Updates, Files, StaticScan
<1> QED BY <1>1, <1>2

(* The service's behaviours are behaviours of each of its parts.           *)
THEOREM ServiceImplementsParts ==
    Spec => IntelSpec /\ PipelineSpec /\ SandboxSpec /\ UpdateSpec /\ FilesSpec /\ FileScanSpec
BY ServiceInit, ServiceStep, PTL
   DEF Spec, IntelSpec, PipelineSpec, SandboxSpec, UpdateSpec, FilesSpec, FileScanSpec

(* All parts' inductive invariants hold of the service together.           *)
THEOREM ServiceInvariant == Spec => []ServiceInv
BY ServiceImplementsParts, IntelInvariant, PipelineInvariant, SandboxInvariant, UpdateInvariant,
   FilesInvariant, FileScanInvariant, VerdictsAreOfTheirFindings, PTL DEF ServiceInv

(* Every safety invariant of the parts holds of the service as it runs:    *)
(* verdicts and cached answers, slots, backends, updates, the settings' and*)
(* the counters' files, and the static scan.                               *)
THEOREM ServiceIsSafe ==
    Spec => [](/\ NoManufacturedVerdict /\ CachedAnswerWithinTtl
               /\ MaliciousEvidenceWins /\ SafeIsBacked /\ SlotsAreExact /\ FinishedMeansReleased
               /\ LaunchedWhereAccepted /\ ResultsAreOwn /\ AcceptedIsStaged
               /\ CountedOnce /\ MarkersAreHonest /\ SafeIsEarned /\ MaliciousIsKept
               /\ MoreFindingsNeverMilder /\ ScriptScoreIsMeasured)
BY ServiceImplementsParts, NoVerdictIsMadeUp, CacheAnswersInTime, MaliciousAlwaysWins,
   SafeHasEvidence, SlotsStayExact, FinishedScansHaveReleased, SamplesRunWhereAccepted,
   ResultsAreOfTheirSample, AcceptedReleaseIsStaged, InstallationCountedOnce, MarkersHonest,
   SafeVerdictsAreEarned, DetectionsAreKept, MoreEvidenceNeverMilder, ScriptScoresAreMeasured, PTL
=============================================================================
