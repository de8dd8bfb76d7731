--------------------------- MODULE ManagedInstall ---------------------------
(***************************************************************************)
(* ManagedInstallGuard.install(source, destination): the file is copied to *)
(* the staging directory, scanned there, and moved into the game tree only *)
(* when the verdict is SAFE and its bytes have not changed.  An error is   *)
(* thrown to the caller and leaves the staged copy where it is.            *)
(***************************************************************************)
EXTENDS GuardStores

(* copyFile to a fresh .stage name and the hash taken before the scan.     *)
InstallBegin(i) ==
    /\ task[i].at = "idle"
    /\ issued < MaxIds
    /\ issued' = issued + 1
    /\ \E p \in Paths, c \in Contents :
          /\ fs' = [fs EXCEPT ![Staged(issued + 1)] = c]
          /\ Become(i, [Idle EXCEPT !.at = "scan", !.id = issued + 1,
                                    !.path = p, !.ident = c])
    /\ UNCHANGED <<manifest, notices, degraded, faults>>

InstallScan(i) ==
    /\ task[i].at = "scan"
    /\ \E v \in ScanVerdicts(fs[Staged(task[i].id)]) :
          Become(i, [task[i] EXCEPT !.at = "verify", !.verdict = v])
    /\ UNCHANGED <<fs, manifest, issued, notices, degraded, faults>>

(* The hash taken after the scan, and the containment decision.            *)
InstallVerify(i) ==
    /\ task[i].at = "verify"
    /\ Become(i, IF fs[Staged(task[i].id)] = None THEN Idle
                 ELSE [task[i] EXCEPT !.verdict = "none", !.at =
                   IF fs[Staged(task[i].id)] = task[i].ident /\ Releases(task[i].verdict)
                   THEN "access" ELSE "quarantine"])
    /\ UNCHANGED <<fs, manifest, issued, notices, degraded, faults>>

(* An existing destination or a staged file that changed is an error.      *)
InstallAccess(i) ==
    /\ task[i].at = "access"
    /\ Become(i, IF fs[Tree(task[i].path)] = None
                    /\ fs[Staged(task[i].id)] = task[i].ident
                 THEN Moving(task[i], "release", task[i].ident)
                 ELSE Idle)
    /\ UNCHANGED <<fs, manifest, issued, notices, degraded, faults>>

(* The move or the quarantine is over; the hash of the installed file only *)
(* decides what the caller is told.                                        *)
InstallEnd(i) ==
    /\ \/ task[i].at = "moved" /\ task[i].goal = "release"
       \/ task[i].at = "failed" /\ task[i].goal = "release"
       \/ task[i].at = "incident"
    /\ Become(i, Idle)
    /\ UNCHANGED <<fs, manifest, issued, notices, degraded, faults>>

InstallQuarantineFailed(i) ==
    /\ task[i].at = "failed" /\ task[i].goal = "quarantine"
    /\ RecordFailure(i)
    /\ Become(i, Idle)
    /\ UNCHANGED <<fs, issued, notices, degraded>>

(* Any other operation that throws: hash, scan aside, access, manifest.    *)
InstallFault(i) ==
    /\ \/ task[i].at \in {"verify", "access", "quarantine"} /\ Fault
       \/ task[i].at = "quarantine" /\ fs[Staged(task[i].id)] = None /\ UNCHANGED faults
    /\ Become(i, Idle)
    /\ UNCHANGED <<fs, manifest, issued, notices, degraded>>

(* One await of install call i.                                            *)
InstallStep(i) ==
    \/ InstallScan(i) \/ InstallVerify(i) \/ InstallAccess(i)
    \/ InstallEnd(i) \/ InstallQuarantineFailed(i) \/ InstallFault(i)
    \/ QuarantineBegin(i) \/ QuarantineRecord(i) \/ Move(i)
=============================================================================
