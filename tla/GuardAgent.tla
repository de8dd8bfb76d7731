----------------------------- MODULE GuardAgent -----------------------------
(***************************************************************************)
(* WindowsUserSpaceGuardAgent: every notification of a protected path is   *)
(* processed as hold, scan, verify, then release or quarantine.  At most   *)
(* one task runs per path (agent.processing); a notification that arrives  *)
(* meanwhile is answered with the running task.  The task of path p is     *)
(* task[p].                                                                *)
(***************************************************************************)
EXTENDS GuardStores

VARIABLES
    trusted,   \* agent.trustedIdentities: Paths -> identity released there
    incidents, \* ids the incident journal has a report for
    watcherDegraded  \* agent.watcher.health.state = "degraded"

agentVars == <<trusted, incidents, watcherDegraded>>

AgentInit ==
    /\ trusted = [p \in Paths |-> None]
    /\ incidents = {}
    /\ watcherDegraded = FALSE

(* Mutant of End: the .finally that forgets the task is missing.           *)
EndForgotten(p) == p \in Paths /\ UNCHANGED task

(* The end of a task: agent.processing forgets it (.finally).              *)
End(p) == Become(p, Idle)

(* Mutant of Notify: a path that was released once is never looked at.     *)
NotifyUntrustedOnly(p) ==
    /\ p \in notices
    /\ notices' = notices \ {p}
    /\ IF fs[Tree(p)] # None /\ task[p].at = "idle" /\ trusted[p] = None
       THEN Become(p, [Idle EXCEPT !.path = p, !.at = "stage"])
       ELSE UNCHANGED task
    /\ UNCHANGED <<fs, manifest, issued, degraded, faults, agentVars>>

(* The watcher hands over a notification.  A file that is gone is not      *)
(* processed; a path in process is not processed again.                    *)
Notify(p) ==
    /\ p \in notices
    /\ notices' = notices \ {p}
    /\ IF fs[Tree(p)] # None /\ task[p].at = "idle"
       THEN Become(p, [Idle EXCEPT !.path = p,
                          !.at = IF trusted[p] = None THEN "stage" ELSE "recheck"])
       ELSE UNCHANGED task
    /\ UNCHANGED <<fs, manifest, issued, degraded, faults, agentVars>>

(* Mutant of Recheck: a path whose file changed keeps its trusted identity. *)
RecheckKeepsTrust(p) ==
    /\ task[p].at = "recheck"
    /\ \/ fs[Tree(p)] = trusted[p] /\ End(p)
       \/ fs[Tree(p)] # trusted[p] /\ Become(p, [task[p] EXCEPT !.at = "stage"])
    /\ UNCHANGED <<fs, manifest, issued, notices, degraded, faults, agentVars>>

(* A path with a trusted identity is hashed again before anything else.    *)
Recheck(p) ==
    /\ task[p].at = "recheck"
    /\ \/ /\ fs[Tree(p)] = trusted[p]
          /\ End(p)
          /\ UNCHANGED trusted
       \/ /\ fs[Tree(p)] # trusted[p]
          /\ trusted' = [trusted EXCEPT ![p] = None]
          /\ Become(p, [task[p] EXCEPT !.at = "stage"])
    /\ UNCHANGED <<fs, manifest, issued, notices, degraded, faults, incidents, watcherDegraded>>

(* The hash of a trusted path fails: processPath throws and the watcher    *)
(* reports event_processing_error.                                         *)
RecheckFault(p) ==
    /\ task[p].at = "recheck"
    /\ Fault
    /\ degraded' = TRUE /\ watcherDegraded' = TRUE
    /\ End(p)
    /\ UNCHANGED <<fs, manifest, issued, notices, trusted, incidents>>

(* holds.stage(filePath): hash, draw an id, move out of the tree.          *)
Stage(p) ==
    /\ task[p].at = "stage"
    /\ \/ /\ fs[Tree(p)] = None
          /\ End(p)
          /\ UNCHANGED issued
       \/ /\ fs[Tree(p)] # None
          /\ issued < MaxIds
          /\ issued' = issued + 1
          /\ Become(p, Moving([task[p] EXCEPT !.id = issued + 1], "stage", fs[Tree(p)]))
    /\ UNCHANGED <<fs, manifest, notices, degraded, faults, agentVars>>

StageFault(p) ==
    /\ task[p].at = "stage"
    /\ Fault
    /\ degraded' = TRUE
    /\ End(p)
    /\ UNCHANGED <<fs, manifest, issued, notices, agentVars>>

(* Mutant of StageFailed: every failure passes for a disappeared file.     *)
StageFailedSilently(p) ==
    /\ task[p].at = "failed" /\ task[p].goal = "stage"
    /\ End(p)
    /\ UNCHANGED <<fs, manifest, issued, notices, degraded, faults, agentVars>>

(* A file that disappeared is no failure; anything else degrades health.   *)
StageFailed(p) ==
    /\ task[p].at = "failed" /\ task[p].goal = "stage"
    /\ degraded' = (degraded \/ task[p].code # "ENOENT")
    /\ End(p)
    /\ UNCHANGED <<fs, manifest, issued, notices, faults, agentVars>>

(* The scanner reads the held file and answers; a scanner error is         *)
(* INCONCLUSIVE.                                                           *)
Scan(p) ==
    /\ task[p].at = "moved" /\ task[p].goal = "stage"
    /\ \E v \in ScanVerdicts(fs[Held(task[p].id)]) :
          Become(p, [task[p] EXCEPT !.at = "verify", !.verdict = v])
    /\ UNCHANGED <<fs, manifest, issued, notices, degraded, faults, agentVars>>

(* holds.verify and the containment decision: a changed or unreadable held *)
(* file makes the verdict INCONCLUSIVE.                                    *)
Verify(p) ==
    /\ task[p].at = "verify"
    /\ \/ /\ UNCHANGED faults
          /\ Become(p, [task[p] EXCEPT !.verdict = "none", !.at =
                IF fs[Held(task[p].id)] = task[p].ident /\ Releases(task[p].verdict)
                THEN "release" ELSE "quarantine"])
       \/ /\ Fault
          /\ Become(p, [task[p] EXCEPT !.verdict = "none", !.at = "quarantine"])
    /\ UNCHANGED <<fs, manifest, issued, notices, degraded, agentVars>>

(* holds.release: verify again, refuse an existing target, move back.      *)
Release(p) ==
    /\ task[p].at = "release"
    /\ \/ /\ UNCHANGED faults
          /\ Become(p, IF fs[Held(task[p].id)] = task[p].ident /\ fs[Tree(p)] = None
                       THEN Moving(task[p], "release", task[p].ident)
                       ELSE [task[p] EXCEPT !.at = "quarantine"])
       \/ /\ Fault
          /\ Become(p, [task[p] EXCEPT !.at = "quarantine"])
    /\ UNCHANGED <<fs, manifest, issued, notices, degraded, agentVars>>

Released(p) ==
    /\ task[p].at = "moved" /\ task[p].goal = "release"
    /\ trusted' = [trusted EXCEPT ![p] = task[p].ident]
    /\ End(p)
    /\ UNCHANGED <<fs, manifest, issued, notices, degraded, faults, incidents, watcherDegraded>>

(* Mutant of ReleaseFailed: a release that fails ends the task.            *)
ReleaseFailedForgets(p) ==
    /\ task[p].at = "failed" /\ task[p].goal = "release"
    /\ End(p)
    /\ UNCHANGED <<fs, manifest, issued, notices, degraded, faults, agentVars>>

(* A release that fails makes the file one to contain.                     *)
ReleaseFailed(p) ==
    /\ task[p].at = "failed" /\ task[p].goal = "release"
    /\ Become(p, [task[p] EXCEPT !.at = "quarantine", !.code = "none"])
    /\ UNCHANGED <<fs, manifest, issued, notices, degraded, faults, agentVars>>

(* store.quarantine throws before its move: the held file is missing, or   *)
(* hashing it or writing the pending manifest fails.                       *)
QuarantineRefused(p) ==
    /\ task[p].at = "quarantine"
    /\ \/ fs[Held(task[p].id)] = None /\ UNCHANGED faults
       \/ Fault
    /\ degraded' = TRUE
    /\ End(p)
    /\ UNCHANGED <<fs, manifest, issued, notices, agentVars>>

QuarantineFailed(p) ==
    /\ task[p].at = "failed" /\ task[p].goal = "quarantine"
    /\ RecordFailure(p)
    /\ degraded' = TRUE
    /\ End(p)
    /\ UNCHANGED <<fs, issued, notices, agentVars>>

(* The incident report; a journal that cannot be written fails the task    *)
(* and the watcher reports it.                                             *)
Incident(p) ==
    /\ task[p].at = "incident"
    /\ trusted' = [trusted EXCEPT ![p] = None]
    /\ \/ /\ incidents' = incidents \cup {task[p].id}
          /\ UNCHANGED <<faults, degraded, watcherDegraded>>
       \/ /\ Fault
          /\ degraded' = TRUE /\ watcherDegraded' = TRUE
          /\ UNCHANGED incidents
    /\ End(p)
    /\ UNCHANGED <<fs, manifest, issued, notices>>

(* The watcher's reconcile timer finds every root watched and reports      *)
(* "healthy" if its own health is not; the agent takes over what it says.  *)
Reconciled ==
    /\ watcherDegraded
    /\ watcherDegraded' = FALSE /\ degraded' = FALSE
    /\ UNCHANGED <<fs, manifest, issued, task, notices, faults, trusted, incidents>>

(* isTrustedPath, asked by the runtime process guard while it inspects the *)
(* modules of a game: a file that changed since its release is forgotten.  *)
IsTrustedPath(p) ==
    /\ trusted[p] # None
    /\ fs[Tree(p)] # trusted[p]
    /\ trusted' = [trusted EXCEPT ![p] = None]
    /\ UNCHANGED <<storeVars, incidents, watcherDegraded>>

(* One await of the task of path p.                                        *)
AgentStep(p) ==
    \/ Recheck(p) \/ RecheckFault(p)
    \/ Stage(p) \/ StageFault(p) \/ StageFailed(p)
    \/ Scan(p) \/ Verify(p)
    \/ Release(p) \/ Released(p) \/ ReleaseFailed(p)
    \/ QuarantineRefused(p) \/ QuarantineFailed(p)
    \/ Incident(p)
    \/ (QuarantineBegin(p) \/ QuarantineRecord(p) \/ Move(p)) /\ UNCHANGED agentVars
=============================================================================
