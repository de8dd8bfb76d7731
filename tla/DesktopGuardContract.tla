------------------------ MODULE DesktopGuardContract ------------------------
(***************************************************************************)
(* DesktopGuard implements GuardContract: what the abstract state is in    *)
(* terms of tasks, manifests and health.                                   *)
(***************************************************************************)
EXTENDS DesktopGuard

Holders == Paths \cup Installers

(* A watched file is in custody once its move into the private store is    *)
(* confirmed, an install's copy once it is staged.                         *)
StageOf(t) ==
    IF t.at \in {"quarantine", "incident"} \/ t.goal = "quarantine" THEN "condemned"
    ELSE IF t.at \in {"release", "access"} \/ t.goal = "release" THEN "cleared"
    ELSE IF t.at \in {"scan", "moved", "verify"} THEN "judging"
    ELSE "free"

CopyOf(t)  == IF StageOf(t) = "free" THEN None ELSE t.id
FileOf(t)  == IF StageOf(t) \in {"judging", "cleared"} THEN t.ident ELSE None
EntryOf(m) == IF m = None \/ m.state \in {"pending", "failed"} THEN "none"
              ELSE IF m.state = "quarantined" THEN "contained" ELSE "returned"

custodyCopy  == [a \in Holders |-> CopyOf(task[a])]
custodyStage == [a \in Holders |-> StageOf(task[a])]
custodyFile  == [a \in Holders |-> FileOf(task[a])]
entries      == [i \in Ids |-> EntryOf(manifest[i])]

Contract == INSTANCE GuardContract WITH
    Watched  <- Paths,
    Files    <- Identities,
    copy     <- custodyCopy,
    stage    <- custodyStage,
    file     <- custodyFile,
    entry    <- entries,
    reported <- incidents,
    alarm    <- degraded

(* Whatever is written, damaged, failing or killed, a file the guard took  *)
(* is judged once, goes back only as the benign bytes that were judged,    *)
(* and otherwise ends contained and reported or with degraded health       *)
(* (agent.js processPath, quarantine-store.js, managed-install.js).        *)
ImplementsContract == Contract!Spec

------------------------------------------------------------------------------
(* What the implementation rests on beside GuardInv: how far the manifest  *)
(* of a private copy is tells how far the task is that holds it.           *)
State(i, states) == manifest[i] # None /\ manifest[i].state \in states

Recorded(t) ==
    /\ ~Holding(t) => t.goal = "none"
    /\ t.at \in MovePoints => t.goal # "none"
    /\ t.at = "incident" => t.goal = "quarantine" /\ State(t.id, {"quarantined", "restored"})
    /\ t.goal = "quarantine" => t.at \in MovePoints \cup {"moved", "failed", "incident"}
    /\ t.goal = "quarantine" /\ t.at # "incident" => State(t.id, {"pending"})
    /\ Holding(t) /\ t.goal # "quarantine" => manifest[t.id] = None

(* A drawn id is the only one with a manifest; a watched path has no       *)
(* trusted identity while its task holds a file; manifest and task agree;  *)
(* only quarantined copies are restored.                                   *)
CustodyInv ==
    /\ \A i \in Ids : i > issued => manifest[i] = None
    /\ \A p \in Paths : task[p].at \notin {"idle", "recheck"} => trusted[p] = None
    /\ \A a \in Holders : Recorded(task[a])
    /\ \A r \in Restorers :
          task[r].at # "idle" => State(task[r].id, {"quarantined", "restored"})

(* What RestoredOnce rests on beside CustodyInv: a restored payload is not *)
(* in the vault; a restore that has moved its payload out of the vault     *)
(* finds the manifest still quarantined, and no other restore has moved    *)
(* the same one.                                                           *)
Returning(r) == task[r].at \in {"confirm", "moved"}

RestoresApart ==
    /\ \A i \in Ids : State(i, {"restored"}) => fs[Vault(i)] = None
    /\ \A r \in Restorers : Returning(r) =>
          State(task[r].id, {"quarantined"}) /\ fs[Vault(task[r].id)] = None
    /\ \A q, r \in Restorers : q # r /\ Returning(q) /\ Returning(r) =>
          task[q].id # task[r].id

(* The entries of the quarantine, seen by the contract and by restores.    *)
RestoresInv == CustodyInv /\ RestoresApart
=============================================================================
