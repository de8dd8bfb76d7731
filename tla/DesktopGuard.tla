---------------------------- MODULE DesktopGuard ----------------------------
(***************************************************************************)
(* The desktop guard at work: the agent's task of every protected path,    *)
(* restore and managed-install calls from the local API, all on the same   *)
(* stores, while other programs write, remove and damage files and the     *)
(* service process may be killed and started again.                        *)
(***************************************************************************)
EXTENDS GuardAgent, ManagedInstall, FiniteSets

CONSTANTS
    MaxWrites,  \* bound: changes made by other programs
    MaxCrashes  \* bound: kills of the service process

ASSUME BoundAssumption == MaxWrites \in Nat /\ MaxCrashes \in Nat

VARIABLES
    writes,   \* changes made by other programs so far
    crashes   \* kills so far

vars == <<storeVars, agentVars, writes, crashes>>

Init ==
    /\ StoreInit
    /\ AgentInit
    /\ writes = 0
    /\ crashes = 0

------------------------------------------------------------------------------
(* Another program creates, replaces or removes a file of the game.        *)
Write(p) ==
    /\ writes < MaxWrites
    /\ writes' = writes + 1
    /\ \E c \in (Contents \cup {None}) \ {fs[Tree(p)]} :
          fs' = [fs EXCEPT ![Tree(p)] = c]
    /\ Changed
    /\ UNCHANGED <<manifest, issued, task, degraded, faults, agentVars, crashes>>

(* Another program damages a private or quarantined copy.  The bytes it    *)
(* leaves are those of no other file.                                      *)
Damage(l) ==
    /\ writes < MaxWrites
    /\ writes' = writes + 1
    /\ l[1] # "tree" /\ fs[l] \notin {None, Corrupt}
    /\ fs' = [fs EXCEPT ![l] = Corrupt]
    /\ UNCHANGED <<manifest, issued, task, notices, degraded, faults, agentVars, crashes>>

(* The process is killed and started again: tasks, trusted identities and  *)
(* health are memory only; the watcher's baseline reports every file.      *)
Restart ==
    /\ crashes < MaxCrashes
    /\ crashes' = crashes + 1
    /\ task' = [a \in Actors |-> Idle]
    /\ trusted' = [p \in Paths |-> None]
    /\ degraded' = FALSE /\ watcherDegraded' = FALSE
    /\ notices' = {p \in Paths : fs[Tree(p)] # None}
    /\ UNCHANGED <<fs, manifest, issued, faults, incidents, writes>>

Agent(p) == (Notify(p) \/ AgentStep(p)) /\ UNCHANGED <<writes, crashes>>
RestoreCall(r) == Restore(r) /\ UNCHANGED <<agentVars, writes, crashes>>
InstallCall(i) == (InstallBegin(i) \/ InstallStep(i))
                  /\ UNCHANGED <<agentVars, writes, crashes>>

Next ==
    \/ \E p \in Paths : Agent(p)
    \/ \E p \in Paths : IsTrustedPath(p) /\ UNCHANGED <<writes, crashes>>
    \/ Reconciled /\ UNCHANGED <<writes, crashes>>
    \/ \E r \in Restorers : RestoreCall(r)
    \/ \E i \in Installers : InstallCall(i)
    \/ \E p \in Paths : Write(p)
    \/ \E l \in Locations : Damage(l)
    \/ Restart

Spec == Init /\ [][Next]_vars

(* Every promise of a task settles (file operations end, the scanner has   *)
(* its own timeout) and the watcher's debounce timer fires.  Nothing makes *)
(* other programs, the API's callers or the kill of the process fair.      *)
Fairness == /\ \A p \in Paths : WF_vars(Agent(p))
            /\ \A i \in Installers : WF_vars(InstallStep(i) /\
                                            UNCHANGED <<agentVars, writes, crashes>>)
FairSpec == Spec /\ Fairness

------------------------------------------------------------------------------
TypeOK ==
    /\ fs \in [Locations -> Identities \cup {None}]
    /\ manifest \in [Ids -> Manifests \cup {None}]
    /\ issued \in 0 .. MaxIds
    /\ task \in [Actors -> Tasks]
    /\ notices \subseteq Paths
    /\ degraded \in BOOLEAN
    /\ faults \in 0 .. MaxFaults
    /\ trusted \in [Paths -> Identities \cup {None}]
    /\ incidents \subseteq Ids
    /\ watcherDegraded \in BOOLEAN
    /\ writes \in 0 .. MaxWrites
    /\ crashes \in 0 .. MaxCrashes

(* A release that has not put the judged bytes into the game.              *)
Unconfirmed(t) == t.goal = "release" /\ t.at \in MovePoints \cup {"failed", "quarantine"}

(* Only what the scanner judged SAFE goes back into the game by the agent  *)
(* or an install, whatever is written, damaged, failing or restarted       *)
(* meanwhile (agent.js processPath, managed-install.js install).  The code *)
(* leaves one window, between the hash and the rename of a move: a private *)
(* copy that another program changes there goes back unjudged.  It is then *)
(* not confirmed, never trusted, and the agent's task does not end without *)
(* degrading health.                                                       *)
OnlyJudgedSafe ==
    [][/\ \A a \in Actors : task[a].goal = "release" =>
            LET l == Tree(task[a].path) IN
            /\ (MoveRename(a) \/ MoveCopy(a)) /\ fs'[l] # fs[l] =>
                  fs'[l] \in Benign \/ fs[Private(a)] = Corrupt
            /\ MoveConfirm(a) /\ task'[a].at = "moved" => fs[l] \in Benign
       /\ \A p \in Paths :
            /\ trusted'[p] \in Benign \cup {None}
            /\ Unconfirmed(task[p]) /\ task'[p].at = "idle" => degraded' \/ Restart]_vars

(* The inductive invariant behind OnlyJudgedSafe: a task works on its own  *)
(* path and on a private copy no other task has; between the move into the *)
(* private store and the scan, and between the hash and the rename of its  *)
(* release, that copy is what was hashed or damaged; a SAFE answer about it*)
(* is an answer about the identity to be released.                         *)
Holding(t) == t.at \notin {"idle", "recheck", "stage"}

Shaped(a, t) ==
    /\ Holding(t) => t.id \in 1 .. issued
    /\ t.at # "idle" => t.path \in Paths
    /\ a \in Paths /\ t.at # "idle" => t.path = a
    /\ t.at \in MovePoints \cup {"moved"} => t.ident \in Identities
    /\ a \in Restorers /\ t.at # "idle" =>
          t.goal = "restore" /\ t.at \in MovePoints \cup {"moved", "failed"}
    /\ a \notin Restorers => t.goal # "restore"
    /\ a \in Installers => t.goal # "stage" /\ t.at \notin {"recheck", "stage"}
    /\ Holding(t) /\ t.goal \in {"quarantine", "restore"} => manifest[t.id] # None

PrivateCopies ==
    \A a, b \in Paths \cup Installers :
        a # b /\ Holding(task[a]) /\ Holding(task[b]) => task[a].id # task[b].id

CopyKept(a, t) ==
    /\ a \notin Restorers
    /\ \/ t.at = "moved" /\ t.goal = "stage"
       \/ t.at = "scan"
       \/ t.at = "rename" /\ t.goal = "release"
    => fs[PrivateCopy(a, t.id)] \in {t.ident, Corrupt, None}

Judged(t) ==
    (t.at = "verify" /\ t.verdict = "SAFE") \/ t.at \in {"release", "access"} \/ t.goal = "release"
        => t.ident \in Benign

GuardInv ==
    /\ TypeOK
    /\ \A a \in Actors : Shaped(a, task[a]) /\ CopyKept(a, task[a]) /\ Judged(task[a])
    /\ PrivateCopies
    /\ \A p \in Paths : trusted[p] \in Benign \cup {None}

(* A held file that no task works on any more: it is in pending-holds for  *)
(* good, nothing lists that directory or moves files out of it.            *)
Stranded(i) ==
    i <= issued /\ fs[Held(i)] # None /\ \A p \in Paths : task[p].id # i

(* On one volume, the step that strands a held file leaves the guard's     *)
(* health degraded, unless the process is killed in that step (the catch   *)
(* blocks of _processPathOnce).                                            *)
StrandingReported ==
    [][\A i \in Ids : Stranded(i)' /\ ~Stranded(i) => degraded' \/ Restart]_vars

(* What StrandingReported rests on beside GuardInv, when no protected path *)
(* is on another volume: the held copy is not there before its move out of *)
(* the tree nor when a failure passes for a disappeared file, and is gone  *)
(* again once a move out of the hold store has been made.                  *)
CopyGone(t) ==
    \/ t.goal = "stage" /\ t.at \in {"hash", "rename"}
    \/ t.goal = "stage" /\ t.at = "failed" /\ t.code = "ENOENT"
    \/ t.goal \in {"release", "quarantine"} /\ t.at \in {"confirm", "moved"}
    \/ t.at = "incident"

Accounted(t) ==
    /\ ~Holding(t) => t.id = 0
    /\ t.at # "unlink"
    /\ CopyGone(t) => fs[Held(t.id)] = None

HoldsInv ==
    /\ \A i \in Ids : i > issued => fs[Held(i)] = None
    /\ \A p \in Paths : Accounted(task[p])

(* What is held, and the types, on one volume.                             *)
HeldInv == TypeOK /\ HoldsInv

(* While a held file is stranded the guard's health says so (without a     *)
(* restart): "surface degraded health", as the comment in                  *)
(* _processPathOnce has it.                                                *)
StrandedStaysReported ==
    \A i \in Ids : Stranded(i) => degraded \/ crashes > 0

(* A payload is reported restored once: concurrent restores of one entry   *)
(* do not both succeed (QuarantineStore.restore).                          *)
RestoredOnce ==
    [][\A r \in Restorers : RestoreRecord(r) =>
           manifest[task[r].id].state = "quarantined"]_vars

(* No file of the game is replaced by the move of a release, an install or *)
(* a restore.                                                              *)
NeverOverwrites ==
    [][\A a \in Actors : (MoveRename(a) \/ MoveCopy(a)) =>
           \A p \in Paths : fs[Tree(p)] # None /\ fs'[Tree(p)] # fs[Tree(p)]
                                => fs'[Tree(p)] = None]_vars

(* A file of the game the guard has not released.                          *)
Unjudged(p) == fs[Tree(p)] \notin {None, trusted[p]}

(* A task always ends, so agent.processing never keeps a path for ever.    *)
TaskEnds == \A p \in Paths : task[p].at # "idle" ~> task[p].at = "idle"

(* A file reported while no task runs for its path leaves the game, is     *)
(* released, or degrades health.                                           *)
ArrivalAtRestHandled ==
    \A p \in Paths : (p \in notices /\ task[p].at = "idle" /\ Unjudged(p))
                       ~> (~Unjudged(p) \/ degraded)

(* Every new or changed protected file leaves the game, is released, or    *)
(* degrades health.                                                        *)
EveryArrivalHandled ==
    \A p \in Paths : Unjudged(p) ~> (~Unjudged(p) \/ degraded)
=============================================================================
