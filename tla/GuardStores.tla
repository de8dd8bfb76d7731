---------------------------- MODULE GuardStores ----------------------------
(***************************************************************************)
(* The file stores of the desktop guard and the one way files move between *)
(* them: movePreservingIdentity (hash, rename or copy+unlink, hash again), *)
(* the quarantine store and its manifests, the pending-hold store.         *)
(*                                                                         *)
(* A file is its identity (SHA-256 and size): two files are the same value *)
(* exactly when sameIdentity says so.  Every await of the JavaScript is a  *)
(* point where other tasks and other programs run, so an operation is a    *)
(* task that advances one await at a time through task[a].at.              *)
(***************************************************************************)
EXTENDS Naturals

CONSTANTS
    Paths,       \* protected paths inside the watched game roots
    RemotePaths, \* those on another volume than the guard's own stores
    MaxIds,      \* bound: private copies (held or staged) made in a behaviour
    Restorers,   \* concurrent calls of the restore API
    Installers,  \* concurrent calls of the managed-install API
    Benign,      \* identities the scanner may judge SAFE
    Hostile,     \* identities it never judges SAFE
    Corrupt,     \* what a file becomes when another program damages it
    None,        \* no file, no manifest, no identity
    MaxFaults    \* bound: failed file operations in a behaviour

Contents == Benign \cup Hostile
Identities == Contents \cup {Corrupt}
Ids == 1 .. MaxIds
Actors == Paths \cup Restorers \cup Installers

ManifestStates == {"pending", "quarantined", "failed", "restored"}
Manifests == [state : ManifestStates, path : Paths, ident : Identities]

ASSUME StoreAssumption ==
    /\ RemotePaths \subseteq Paths
    /\ MaxIds \in Nat /\ MaxFaults \in Nat
    /\ Benign \cap Hostile = {}
    /\ Corrupt \notin Contents
    /\ None \notin Identities /\ None \notin Manifests
    /\ Paths \cap Restorers = {}
    /\ Paths \cap Installers = {}
    /\ Restorers \cap Installers = {}

(* Where a file can be.  Held and vault files have random UUID names: each *)
(* private copy has a fresh id, and its quarantine entry the same one.     *)
Tree(p)   == <<"tree", p>>
Held(i)   == <<"held", i>>
Staged(i) == <<"staged", i>>
Vault(i)  == <<"vault", i>>
Locations == ({"tree"} \X Paths) \cup ({"held", "staged", "vault"} \X Ids)

VARIABLES
    fs,        \* Locations -> what is there
    manifest,  \* Ids -> quarantine manifest on disk
    issued,    \* how many ids have been drawn
    task,      \* Actors -> the operation the actor is in the middle of
    notices,   \* paths with a file-change notification not yet handled
    degraded,  \* agent.health.state = "degraded"
    faults     \* file operations that have failed so far

storeVars == <<fs, manifest, issued, task, notices, degraded, faults>>

Goals == {"none", "stage", "release", "quarantine", "restore"}
Codes == {"none", "ENOENT", "error"}
Verdicts == {"SAFE", "SUSPICIOUS", "MALICIOUS", "INCONCLUSIVE"}
MovePoints == {"hash", "rename", "unlink", "confirm"}
Points == MovePoints \cup {"idle", "recheck", "stage", "verify", "release",
            "quarantine", "moved", "failed", "incident", "scan", "access"}

Idle == [at |-> "idle", goal |-> "none", id |-> 0, path |-> None,
         ident |-> None, verdict |-> "none", code |-> "none"]

Tasks == [at : Points, goal : Goals, id : Ids \cup {0}, path : Paths \cup {None},
          ident : Identities \cup {None}, verdict : Verdicts \cup {"none"}, code : Codes]

StoreInit ==
    /\ \E game \in [Paths -> Contents \cup {None}] :
          fs = [l \in Locations |-> IF l[1] = "tree" THEN game[l[2]] ELSE None]
    /\ manifest = [i \in Ids |-> None]
    /\ issued = 0
    /\ task = [a \in Actors |-> Idle]
    /\ notices = {p \in Paths : fs[Tree(p)] # None}
    /\ degraded = FALSE
    /\ faults = 0

------------------------------------------------------------------------------
(* Helpers shared by every task.                                           *)

Become(a, t) == task' = [task EXCEPT ![a] = t]

(* A change that leaves a file at a watched path produces a notification.  *)
Changed == notices' = notices \cup
    {p \in Paths : fs'[Tree(p)] # None /\ fs'[Tree(p)] # fs[Tree(p)]}

(* A file operation fails (locked file, full disk, denied access).         *)
Fault == faults < MaxFaults /\ faults' = faults + 1

(* Mutant of Releases: everything but a MALICIOUS verdict is released.     *)
ReleasesUnlessMalicious(verdict) == verdict # "MALICIOUS"

(* decideContainment: only SAFE is released, all else is contained.        *)
Releases(verdict) == verdict = "SAFE"

(* What the scanner may answer about bytes c; an error counts INCONCLUSIVE.*)
ScanVerdicts(c) == IF c \in Benign THEN Verdicts ELSE Verdicts \ {"SAFE"}

(* The private copy an agent task or a managed install works on.           *)
PrivateCopy(a, i) == IF a \in Installers THEN Staged(i) ELSE Held(i)
Private(a) == PrivateCopy(a, task[a].id)

Src(a) == IF task[a].goal = "stage" THEN Tree(task[a].path)
          ELSE IF task[a].goal = "restore" THEN Vault(task[a].id)
          ELSE Private(a)

Dst(a) == IF task[a].goal = "stage" THEN Private(a)
          ELSE IF task[a].goal = "quarantine" THEN Vault(task[a].id)
          ELSE Tree(task[a].path)

CrossVolume(a) == task[a].goal # "quarantine" /\ task[a].path \in RemotePaths

Moving(t, goal, ident) ==
    [t EXCEPT !.at = "hash", !.goal = goal, !.ident = ident]

(* Mutant of Failed: a file of another identity passes for a missing one.  *)
FailedAsMissing(a, content) ==
    [task[a] EXCEPT !.at = "failed", !.code = "ENOENT"]

Failed(a, content) ==
    [task[a] EXCEPT !.at = "failed", !.code = IF content = None THEN "ENOENT" ELSE "error"]

------------------------------------------------------------------------------
(* movePreservingIdentity(source, destination, expectedIdentity).          *)

MoveHash(a) ==
    /\ task[a].at = "hash"
    /\ Become(a, IF fs[Src(a)] = task[a].ident
                 THEN [task[a] EXCEPT !.at = "rename"]
                 ELSE Failed(a, fs[Src(a)]))
    /\ UNCHANGED <<fs, manifest, issued, notices, degraded, faults>>

(* fs.promises.rename replaces whatever is at the destination.             *)
MoveRename(a) ==
    /\ task[a].at = "rename" /\ ~CrossVolume(a)
    /\ \/ /\ fs[Src(a)] # None
          /\ fs' = [fs EXCEPT ![Src(a)] = None, ![Dst(a)] = fs[Src(a)]]
          /\ Become(a, [task[a] EXCEPT !.at = "confirm"])
       \/ /\ fs[Src(a)] = None
          /\ Become(a, Failed(a, None))
          /\ UNCHANGED fs
    /\ Changed
    /\ UNCHANGED <<manifest, issued, degraded, faults>>

(* EXDEV: copy to a .partial file, check its hash, rename it into place.   *)
(* Nothing sees the .partial file, so this is one step.                    *)
MoveCopy(a) ==
    /\ task[a].at = "rename" /\ CrossVolume(a)
    /\ \/ /\ fs[Src(a)] = task[a].ident
          /\ fs' = [fs EXCEPT ![Dst(a)] = task[a].ident]
          /\ Become(a, [task[a] EXCEPT !.at = "unlink"])
       \/ /\ fs[Src(a)] # task[a].ident
          /\ Become(a, Failed(a, fs[Src(a)]))
          /\ UNCHANGED fs
    /\ Changed
    /\ UNCHANGED <<manifest, issued, degraded, faults>>

(* Mutant of MoveUnlink: unlink with { force: true }, a missing source is  *)
(* no error.                                                               *)
MoveUnlinkForced(a) ==
    /\ task[a].at = "unlink"
    /\ fs' = [fs EXCEPT ![Src(a)] = None]
    /\ Become(a, [task[a] EXCEPT !.at = "confirm"])
    /\ UNCHANGED <<manifest, issued, notices, degraded, faults>>

MoveUnlink(a) ==
    /\ task[a].at = "unlink"
    /\ fs' = [fs EXCEPT ![Src(a)] = None]
    /\ Become(a, IF fs[Src(a)] = None THEN Failed(a, None)
                 ELSE [task[a] EXCEPT !.at = "confirm"])
    /\ UNCHANGED <<manifest, issued, notices, degraded, faults>>

MoveConfirm(a) ==
    /\ task[a].at = "confirm"
    /\ Become(a, IF fs[Dst(a)] = task[a].ident
                 THEN [task[a] EXCEPT !.at = "moved"]
                 ELSE Failed(a, fs[Dst(a)]))
    /\ UNCHANGED <<fs, manifest, issued, notices, degraded, faults>>

MoveFault(a) ==
    /\ task[a].at \in MovePoints
    /\ Fault
    /\ Become(a, [task[a] EXCEPT !.at = "failed", !.code = "error"])
    /\ UNCHANGED <<fs, manifest, issued, notices, degraded>>

Move(a) == \/ MoveHash(a) \/ MoveRename(a) \/ MoveCopy(a)
           \/ MoveUnlink(a) \/ MoveConfirm(a) \/ MoveFault(a)

------------------------------------------------------------------------------
(* QuarantineStore.quarantine(filePath): hash, write the "pending"         *)
(* manifest, move, write the "quarantined" manifest; "failed" on an error. *)

(* Mutant of QuarantineBegin: the manifest is written only after the move. *)
QuarantineWithoutPending(a) ==
    /\ task[a].at = "quarantine"
    /\ fs[Private(a)] # None
    /\ Become(a, Moving(task[a], "quarantine", fs[Private(a)]))
    /\ UNCHANGED <<fs, manifest, issued, notices, degraded, faults>>

QuarantineBegin(a) ==
    /\ task[a].at = "quarantine"
    /\ fs[Private(a)] # None
    /\ manifest' = [manifest EXCEPT ![task[a].id] =
           [state |-> "pending", path |-> task[a].path, ident |-> fs[Private(a)]]]
    /\ Become(a, Moving(task[a], "quarantine", fs[Private(a)]))
    /\ UNCHANGED <<fs, issued, notices, degraded, faults>>

QuarantineRecord(a) ==
    /\ task[a].at = "moved" /\ task[a].goal = "quarantine"
    /\ \/ /\ manifest' = [manifest EXCEPT ![task[a].id].state = "quarantined"]
          /\ Become(a, [task[a] EXCEPT !.at = "incident"])
          /\ UNCHANGED faults
       \/ /\ Fault
          /\ Become(a, [task[a] EXCEPT !.at = "failed", !.code = "error"])
          /\ UNCHANGED manifest
    /\ UNCHANGED <<fs, issued, notices, degraded>>

(* The catch block of quarantine: the "failed" manifest is best effort.    *)
RecordFailure(a) ==
    \/ /\ manifest' = [manifest EXCEPT ![task[a].id].state = "failed"]
       /\ UNCHANGED faults
    \/ Fault /\ UNCHANGED manifest

(* QuarantineStore.restore(id).  The manifest read, the payload hash and   *)
(* the target check end here; a move to the target then begins.            *)
RestoreBegin(r) ==
    /\ task[r].at = "idle"
    /\ \E i \in 1 .. issued :
          /\ manifest[i] # None
          /\ manifest[i].state = "quarantined"
          /\ fs[Vault(i)] = manifest[i].ident
          /\ fs[Tree(manifest[i].path)] = None
          /\ Become(r, Moving([Idle EXCEPT !.id = i, !.path = manifest[i].path],
                              "restore", manifest[i].ident))
    /\ UNCHANGED <<fs, manifest, issued, notices, degraded, faults>>

RestoreRecord(r) ==
    /\ task[r].at = "moved"
    /\ \/ /\ manifest' = [manifest EXCEPT ![task[r].id].state = "restored"]
          /\ UNCHANGED faults
       \/ Fault /\ UNCHANGED manifest
    /\ Become(r, Idle)
    /\ UNCHANGED <<fs, issued, notices, degraded>>

RestoreFailed(r) ==
    /\ task[r].at = "failed"
    /\ Become(r, Idle)
    /\ UNCHANGED <<fs, manifest, issued, notices, degraded, faults>>

Restore(r) == RestoreBegin(r) \/ RestoreRecord(r) \/ RestoreFailed(r) \/ Move(r)
=============================================================================
