------------------------- MODULE DesktopGuardProofs -------------------------
(***************************************************************************)
(* For all paths, volumes, callers, contents and bounds: the guard's types *)
(* are kept, and only bytes the scanner judged SAFE return to the game or  *)
(* are trusted.                                                            *)
(***************************************************************************)
EXTENDS DesktopGuard, TLAPS

(* What the assumptions say of the constants, in the form the provers use. *)
LEMMA ConstantFacts ==
    /\ None \notin Identities
    /\ Corrupt \notin Benign
    /\ Benign \subseteq Identities
    /\ Corrupt \in Identities
    /\ MaxIds \in Nat /\ MaxFaults \in Nat
    /\ MaxWrites \in Nat /\ MaxCrashes \in Nat
BY StoreAssumption, BoundAssumption DEF Identities, Contents

LEMMA IdleIsTask == Idle \in Tasks
BY DEF Idle, Tasks, Points, MovePoints, Goals, Codes

(* Locations of different kinds or names are different.                    *)
LEMMA LocationFacts ==
    /\ \A p \in Paths : Tree(p) \in Locations
    /\ \A i \in Ids : {Held(i), Staged(i), Vault(i)} \subseteq Locations
    /\ \A p, q, i, j : Tree(p) \notin {Held(i), Staged(i), Vault(i)}
    /\ \A i, j : Vault(i) \notin {Held(j), Staged(j)} /\ Held(i) # Staged(j)
    /\ \A i, j : i # j => Held(i) # Held(j) /\ Staged(i) # Staged(j) /\ Vault(i) # Vault(j)
BY DEF Tree, Held, Staged, Vault, Locations

(* Two actors that hold a private copy hold different ones.                *)
LEMMA PrivateCopyFacts ==
    /\ \A a, i : PrivateCopy(a, i) \notin {Vault(j) : j \in Ids} \cup {Tree(p) : p \in Paths}
    /\ \A a, b, i, j : i # j => PrivateCopy(a, i) # PrivateCopy(b, j)
    /\ \A a : \A i \in Ids : PrivateCopy(a, i) \in Locations
BY LocationFacts DEF PrivateCopy

(* A step of one actor keeps the invariant when the actor's new task does, *)
(* the private copy it takes is fresh, and the copies of others get no new *)
(* content.                                                                *)
LEMMA ActorStep ==
    ASSUME GuardInv, NEW a \in Actors, NEW t \in Tasks,
           Become(a, t),
           TypeOK',
           issued' \in {issued, issued + 1},
           \A i \in Ids : manifest[i] # None => manifest'[i] # None,
           Shaped(a, t)', CopyKept(a, t)', Judged(t),
           Holding(t) => \/ Holding(task[a]) /\ t.id = task[a].id
                         \/ a \in Restorers
                         \/ t.id = issued + 1,
           \A b \in Paths \cup Installers : b # a /\ Holding(task[b]) =>
               fs'[PrivateCopy(b, task[b].id)]
                   \in {fs[PrivateCopy(b, task[b].id)], Corrupt, None},
           \A p \in Paths : trusted'[p] \in Benign \cup {None}
    PROVE  GuardInv'
<1>1. task'[a] = t /\ \A b \in Actors : b # a => task'[b] = task[b]
  BY DEF Become, GuardInv, TypeOK
<1>2. ASSUME NEW b \in Actors
      PROVE  (Shaped(b, task[b]) /\ CopyKept(b, task[b]) /\ Judged(task[b]))'
  <2>1. CASE b = a
    BY <1>1, <2>1 DEF Shaped, CopyKept, Judged, Holding
  <2>2. CASE b # a
    <3>1. task'[b] = task[b]
      BY <1>1, <2>2
    <3>2. Shaped(b, task[b]) /\ CopyKept(b, task[b]) /\ Judged(task[b])
      BY DEF GuardInv
    <3>3. issued \in Nat /\ task[b] \in Tasks
      BY DEF GuardInv, TypeOK
    <3>4. Shaped(b, task[b])'
      <4>1. Holding(task[b]) => task[b].id \in 1 .. issued'
        BY <3>2, <3>3 DEF Shaped
      <4>2. Holding(task[b]) /\ task[b].goal \in {"quarantine", "restore"}
                => manifest'[task[b].id] # None
        <5>1. SUFFICES ASSUME Holding(task[b]), task[b].goal \in {"quarantine", "restore"}
                       PROVE  manifest'[task[b].id] # None
          OBVIOUS
        <5>2. task[b].id \in 1 .. issued /\ manifest[task[b].id] # None
          BY <3>2, <5>1 DEF Shaped
        <5>3. issued \in 0 .. MaxIds
          BY DEF GuardInv, TypeOK
        <5>4. task[b].id \in Ids
          BY <5>2, <5>3, StoreAssumption DEF Ids
        <5>. QED BY <5>2, <5>4
      <4>. QED BY <3>1, <3>2, <4>1, <4>2 DEF Shaped, Holding
    <3>5. CopyKept(b, task[b])'
      <4>1. SUFFICES ASSUME b \notin Restorers,
                            \/ task[b].at = "moved" /\ task[b].goal = "stage"
                            \/ task[b].at = "scan"
                            \/ task[b].at = "rename" /\ task[b].goal = "release"
                     PROVE  fs'[PrivateCopy(b, task[b].id)] \in {task[b].ident, Corrupt, None}
        BY <3>1 DEF CopyKept
      <4>2. b \in Paths \cup Installers /\ Holding(task[b])
        BY <4>1 DEF Actors, Holding
      <4>3. fs[PrivateCopy(b, task[b].id)] \in {task[b].ident, Corrupt, None}
        BY <3>2, <4>1 DEF CopyKept
      <4>. QED BY <2>2, <4>2, <4>3
    <3>. QED BY <3>1, <3>2, <3>4, <3>5 DEF Judged
  <2>. QED BY <2>1, <2>2
<1>3. PrivateCopies'
  <2>1. SUFFICES ASSUME NEW b \in Paths \cup Installers, NEW c \in Paths \cup Installers,
                        b # c, Holding(task'[b]), Holding(task'[c])
                 PROVE  task'[b].id # task'[c].id
    BY DEF PrivateCopies, Holding
  <2>2. b \in Actors /\ c \in Actors /\ b \notin Restorers /\ c \notin Restorers
    BY StoreAssumption DEF Actors
  <2>3. \A d \in Actors : Holding(task[d]) => task[d].id \in 1 .. issued
    BY DEF GuardInv, Shaped
  <2>4. issued \in Nat
    BY ConstantFacts DEF GuardInv, TypeOK
  <2>5. Holding(task[b]) /\ Holding(task[c]) => task[b].id # task[c].id
    BY <2>1 DEF GuardInv, PrivateCopies
  <2>6. CASE b = a
    BY <1>1, <2>1, <2>2, <2>3, <2>4, <2>5, <2>6
  <2>7. CASE c = a
    BY <1>1, <2>1, <2>2, <2>3, <2>4, <2>5, <2>7
  <2>8. CASE b # a /\ c # a
    BY <1>1, <2>1, <2>2, <2>5, <2>8
  <2>. QED BY <2>6, <2>7, <2>8
<1>. QED BY <1>2, <1>3 DEF GuardInv

(* The common case: files, manifests, ids and trusted identities stay.     *)
LEMMA QuietStep ==
    ASSUME GuardInv, NEW a \in Actors, NEW t \in Tasks,
           Become(a, t),
           UNCHANGED <<fs, manifest, issued, trusted>>,
           notices' \subseteq Paths, degraded' \in BOOLEAN,
           faults' = faults \/ Fault, incidents' \subseteq Ids,
           watcherDegraded' \in BOOLEAN,
           writes' = writes, crashes' = crashes,
           Shaped(a, t), CopyKept(a, t), Judged(t),
           Holding(t) => \/ Holding(task[a]) /\ t.id = task[a].id
                         \/ a \in Restorers
    PROVE  GuardInv'
<1>1. TypeOK'
  <2>1. task' \in [Actors -> Tasks]
    BY DEF GuardInv, TypeOK, Become
  <2>2. faults' \in 0 .. MaxFaults
    BY ConstantFacts DEF GuardInv, TypeOK, Fault
  <2>. QED BY <2>1, <2>2 DEF GuardInv, TypeOK
<1>2. Shaped(a, t)' /\ CopyKept(a, t)'
  BY DEF Shaped, CopyKept
<1>3. \A p \in Paths : trusted'[p] \in Benign \cup {None}
  BY DEF GuardInv
<1>. QED BY <1>1, <1>2, <1>3, ActorStep

(* A task that ends.                                                       *)
LEMMA EndStep ==
    ASSUME GuardInv, NEW a \in Actors, Become(a, Idle),
           UNCHANGED <<fs, manifest, issued, trusted>>,
           notices' \subseteq Paths, degraded' \in BOOLEAN,
           faults' = faults \/ Fault, incidents' \subseteq Ids,
           watcherDegraded' \in BOOLEAN,
           writes' = writes, crashes' = crashes
    PROVE  GuardInv'
<1>1. Shaped(a, Idle) /\ CopyKept(a, Idle) /\ Judged(Idle) /\ ~Holding(Idle)
  BY DEF Idle, Shaped, CopyKept, Judged, Holding, MovePoints
<1>. QED BY <1>1, IdleIsTask, QuietStep

(* Steps of a move that leave the files alone.                             *)
LEMMA QuietMove ==
    ASSUME GuardInv, NEW a \in Actors,
           MoveHash(a) \/ MoveConfirm(a) \/ MoveFault(a),
           UNCHANGED <<agentVars, writes, crashes>>
    PROVE  GuardInv'
<1>0. task[a] \in Tasks /\ Shaped(a, task[a]) /\ Judged(task[a])
  BY DEF GuardInv, TypeOK
<1>1. CASE MoveHash(a)
  <2>. DEFINE t == IF fs[Src(a)] = task[a].ident
                   THEN [task[a] EXCEPT !.at = "rename"] ELSE Failed(a, fs[Src(a)])
  <2>1. t \in Tasks
    BY <1>0 DEF Tasks, Failed, Points, MovePoints, Codes
  <2>5. Shaped(a, t) /\ Judged(t)
    BY <1>0, <1>1 DEF MoveHash, Shaped, Judged, Failed, Holding, MovePoints, Tasks
  <2>6. CopyKept(a, t)
    <3>1. CASE fs[Src(a)] = task[a].ident
      <4>1. t.id = task[a].id /\ t.goal = task[a].goal /\ t.ident = task[a].ident /\ t.at = "rename"
        BY <1>0, <3>1 DEF Tasks
      <4>2. task[a].goal = "release" => Src(a) = PrivateCopy(a, t.id)
        BY <4>1 DEF Src, Private
      <4>. QED BY <3>1, <4>1, <4>2 DEF CopyKept
    <3>2. CASE fs[Src(a)] # task[a].ident
      <4>1. t.at = "failed"
        BY <1>0, <3>2 DEF Failed, Tasks
      <4>. QED BY <4>1 DEF CopyKept
    <3>. QED BY <3>1, <3>2
  <2>2. Shaped(a, t) /\ CopyKept(a, t) /\ Judged(t)
    BY <2>5, <2>6
  <2>3. Holding(task[a]) /\ t.id = task[a].id
    BY <1>0, <1>1 DEF MoveHash, Holding, Failed, Tasks
  <2>4. Become(a, t) /\ UNCHANGED <<fs, manifest, issued, notices, degraded, faults>>
    BY <1>1 DEF MoveHash
  <2>. QED BY <2>1, <2>2, <2>3, <2>4, QuietStep DEF agentVars, GuardInv, TypeOK
<1>2. CASE MoveConfirm(a)
  <2>. DEFINE t == IF fs[Dst(a)] = task[a].ident
                   THEN [task[a] EXCEPT !.at = "moved"] ELSE Failed(a, fs[Dst(a)])
  <2>1. t \in Tasks
    BY <1>0 DEF Tasks, Failed, Points, MovePoints, Codes
  <2>2. Shaped(a, t) /\ Judged(t)
    BY <1>0, <1>2 DEF MoveConfirm, Shaped, Judged, Failed, Holding, MovePoints, Tasks
  <2>3. CopyKept(a, t)
    BY <1>0, <1>2 DEF MoveConfirm, CopyKept, Failed, Tasks, Dst, Private
  <2>4. Holding(task[a]) /\ t.id = task[a].id
    BY <1>0, <1>2 DEF MoveConfirm, Holding, Failed, Tasks
  <2>5. Become(a, t) /\ UNCHANGED <<fs, manifest, issued, notices, degraded, faults>>
    BY <1>2 DEF MoveConfirm
  <2>. QED BY <2>1, <2>2, <2>3, <2>4, <2>5, QuietStep DEF agentVars, GuardInv, TypeOK
<1>3. CASE MoveFault(a)
  <2>. DEFINE t == [task[a] EXCEPT !.at = "failed", !.code = "error"]
  <2>1. t \in Tasks
    BY <1>0 DEF Tasks, Points, Codes
  <2>2. Shaped(a, t) /\ CopyKept(a, t) /\ Judged(t)
    BY <1>0, <1>3 DEF MoveFault, Shaped, CopyKept, Judged, Holding, MovePoints, Tasks
  <2>3. Holding(task[a]) /\ t.id = task[a].id
    BY <1>0, <1>3 DEF MoveFault, Holding, MovePoints, Tasks
  <2>4. Become(a, t) /\ Fault /\ UNCHANGED <<fs, manifest, issued, notices, degraded>>
    BY <1>3 DEF MoveFault
  <2>. QED BY <2>1, <2>2, <2>3, <2>4, QuietStep DEF agentVars, GuardInv, TypeOK
<1>. QED BY <1>1, <1>2, <1>3

(* A moving task names two locations, neither of them the private copy of  *)
(* another task.                                                           *)
LEMMA MoveLocations ==
    ASSUME GuardInv, NEW a \in Actors, task[a].at \in MovePoints
    PROVE  /\ Src(a) \in Locations /\ Dst(a) \in Locations
           /\ \A b \in Paths \cup Installers : b # a /\ Holding(task[b]) =>
                  PrivateCopy(b, task[b].id) \notin {Src(a), Dst(a)}
<1>1. /\ task[a] \in Tasks /\ Shaped(a, task[a]) /\ Holding(task[a])
      /\ issued \in 0 .. MaxIds
  BY DEF GuardInv, TypeOK, Holding, MovePoints
<1>2. task[a].id \in Ids /\ task[a].path \in Paths
  BY <1>1, ConstantFacts DEF Shaped, Ids, MovePoints, Holding
<1>3. Src(a) \in Locations /\ Dst(a) \in Locations
  BY <1>2, LocationFacts, PrivateCopyFacts DEF Src, Dst, Private
<1>4. ASSUME NEW b \in Paths \cup Installers, b # a, Holding(task[b])
      PROVE  PrivateCopy(b, task[b].id) \notin {Src(a), Dst(a)}
  <2>1. PrivateCopy(b, task[b].id) \notin
            {Vault(task[a].id), Tree(task[a].path)}
    BY <1>2, PrivateCopyFacts
  <2>2. CASE a \in Restorers
    <3>1. task[a].goal = "restore"
      BY <1>1, <2>2 DEF Shaped, MovePoints
    <3>. QED BY <2>1, <3>1 DEF Src, Dst
  <2>3. CASE a \notin Restorers
    <3>1. task[a].id # task[b].id
      BY <1>1, <1>4, <2>3 DEF GuardInv, PrivateCopies, Actors
    <3>2. PrivateCopy(b, task[b].id) # Private(a)
      BY <3>1, PrivateCopyFacts DEF Private
    <3>. QED BY <2>1, <3>2 DEF Src, Dst
  <2>. QED BY <2>2, <2>3
<1>. QED BY <1>3, <1>4

(* Steps of a move that write files.                                       *)
LEMMA FileMove ==
    ASSUME GuardInv, NEW a \in Actors,
           MoveRename(a) \/ MoveCopy(a) \/ MoveUnlink(a),
           UNCHANGED <<agentVars, writes, crashes>>
    PROVE  GuardInv'
<1>0. task[a] \in Tasks /\ Shaped(a, task[a]) /\ Judged(task[a])
  BY DEF GuardInv, TypeOK
<1>1. task[a].at \in MovePoints /\ task[a].ident \in Identities
  BY <1>0 DEF MoveRename, MoveCopy, MoveUnlink, MovePoints, Shaped
<1>2. /\ \A l \in Locations : fs[l] \in Identities \cup {None}
      /\ fs' \in [Locations -> Identities \cup {None}]
      /\ \A l \in Locations : l \notin {Src(a), Dst(a)} => fs'[l] = fs[l]
  BY <1>1, MoveLocations DEF GuardInv, TypeOK, MoveRename, MoveCopy, MoveUnlink
<1>3. ASSUME NEW b \in Paths \cup Installers, b # a, Holding(task[b])
      PROVE  fs'[PrivateCopy(b, task[b].id)]
                   \in {fs[PrivateCopy(b, task[b].id)], Corrupt, None}
  <2>1. task[b].id \in Ids
    BY <1>3, ConstantFacts DEF GuardInv, TypeOK, Shaped, Ids, Actors
  <2>. QED BY <1>1, <1>2, <1>3, <2>1, MoveLocations, PrivateCopyFacts
<1>4. PICK t : /\ Become(a, t)
               /\ t \in { [task[a] EXCEPT !.at = "confirm"], [task[a] EXCEPT !.at = "unlink"],
                          Failed(a, None), Failed(a, fs[Src(a)]) }
  BY DEF MoveRename, MoveCopy, MoveUnlink
<1>5. t \in Tasks /\ t.id = task[a].id /\ Holding(task[a])
  BY <1>0, <1>1, <1>4 DEF Tasks, Failed, Points, MovePoints, Codes, Holding
<1>6. Shaped(a, t) /\ Judged(t) /\ t.at \notin {"moved", "scan", "rename"}
  BY <1>0, <1>1, <1>4 DEF Shaped, Judged, Failed, Holding, MovePoints, Tasks
<1>7. UNCHANGED <<manifest, issued, degraded, faults, agentVars, writes, crashes>>
  BY DEF MoveRename, MoveCopy, MoveUnlink
<1>8. notices' \subseteq Paths
  BY DEF MoveRename, MoveCopy, MoveUnlink, Changed, GuardInv, TypeOK
<1>9. TypeOK'
  <2>1. task' \in [Actors -> Tasks]
    BY <1>4, <1>5 DEF GuardInv, TypeOK, Become
  <2>. QED BY <1>2, <1>7, <1>8, <2>1 DEF GuardInv, TypeOK, agentVars
<1>10. Shaped(a, t)' /\ CopyKept(a, t)'
  BY <1>6, <1>7 DEF Shaped, CopyKept
<1>11. \A p \in Paths : trusted'[p] \in Benign \cup {None}
  BY <1>7 DEF agentVars, GuardInv
<1>. QED BY <1>3, <1>4, <1>5, <1>6, <1>7, <1>9, <1>10, <1>11, ActorStep

LEMMA MoveStep ==
    ASSUME GuardInv, NEW a \in Actors, Move(a),
           UNCHANGED <<agentVars, writes, crashes>>
    PROVE  GuardInv'
BY QuietMove, FileMove DEF Move

------------------------------------------------------------------------------
(* The agent's own steps.                                                  *)

(* Steps that only take the task from one point to the next.               *)
LEMMA AgentQuiet ==
    ASSUME GuardInv, NEW p \in Paths, UNCHANGED <<writes, crashes>>,
           Notify(p) \/ Scan(p) \/ Verify(p) \/ Release(p) \/ ReleaseFailed(p)
    PROVE  GuardInv'
<1>0. /\ task[p] \in Tasks /\ Shaped(p, task[p]) /\ Judged(task[p]) /\ CopyKept(p, task[p])
      /\ p \in Actors /\ p \notin Restorers /\ p \notin Installers
  BY StoreAssumption DEF GuardInv, TypeOK, Actors
<1>1. CASE Notify(p)
  <2>1. CASE task' = task
    <3>1. notices' \subseteq Paths /\ UNCHANGED <<fs, manifest, issued, task, trusted>>
      BY <1>1, <2>1 DEF Notify, agentVars, GuardInv, TypeOK
    <3>2. TypeOK'
      BY <1>1, <3>1 DEF Notify, agentVars, GuardInv, TypeOK
    <3>. QED BY <3>1, <3>2 DEF GuardInv, Shaped, CopyKept, PrivateCopies
  <2>2. CASE task' # task
    <3>1. PICK x \in {"stage", "recheck"} : Become(p, [Idle EXCEPT !.path = p, !.at = x])
      BY <1>1, <2>2 DEF Notify
    <3>. DEFINE t == [Idle EXCEPT !.path = p, !.at = x]
    <3>2. /\ t.at = x /\ t.path = p /\ t.goal = "none" /\ t.verdict = "none"
          /\ t \in Tasks
      BY DEF Idle, Tasks, Points, MovePoints, Goals, Codes
    <3>. HIDE DEF t
    <3>3. Shaped(p, t) /\ CopyKept(p, t) /\ Judged(t) /\ ~Holding(t)
      BY <1>0, <3>2 DEF Shaped, CopyKept, Judged, Holding, MovePoints
    <3>4. Become(p, t)
      BY <3>1 DEF t
    <3>. QED BY <1>0, <1>1, <3>2, <3>3, <3>4, QuietStep
             DEF Notify, agentVars, GuardInv, TypeOK
  <2>. QED BY <2>1, <2>2
<1>2. CASE Scan(p)
  <2>1. PICK v \in ScanVerdicts(fs[Held(task[p].id)]) :
            Become(p, [task[p] EXCEPT !.at = "verify", !.verdict = v])
    BY <1>2 DEF Scan
  <2>. DEFINE t == [task[p] EXCEPT !.at = "verify", !.verdict = v]
  <2>2. fs[Held(task[p].id)] \in {task[p].ident, Corrupt, None}
    BY <1>0, <1>2 DEF Scan, CopyKept, PrivateCopy
  <2>3. v \in Verdicts /\ (v = "SAFE" => fs[Held(task[p].id)] \in Benign)
    BY DEF ScanVerdicts, Verdicts
  <2>4. v = "SAFE" => task[p].ident \in Benign
    BY <2>2, <2>3, ConstantFacts
  <2>5. t \in Tasks /\ Holding(task[p]) /\ t.id = task[p].id
    BY <1>0, <1>2, <2>3 DEF Scan, Tasks, Points, Holding
  <2>6. Shaped(p, t) /\ CopyKept(p, t) /\ Judged(t)
    BY <1>0, <1>2, <2>4 DEF Scan, Shaped, CopyKept, Judged, Holding, Tasks, MovePoints
  <2>. QED BY <1>0, <1>2, <2>1, <2>5, <2>6, QuietStep DEF Scan, agentVars, GuardInv, TypeOK
<1>3. CASE Verify(p)
  <2>1. PICK x \in {"release", "quarantine"} :
            /\ Become(p, [task[p] EXCEPT !.verdict = "none", !.at = x])
            /\ x = "release" => Releases(task[p].verdict)
            /\ UNCHANGED faults \/ Fault
    BY <1>3 DEF Verify
  <2>. DEFINE t == [task[p] EXCEPT !.verdict = "none", !.at = x]
  <2>2. t \in Tasks /\ Holding(task[p]) /\ t.id = task[p].id
    BY <1>0, <1>3 DEF Verify, Tasks, Points, Holding
  <2>3. Shaped(p, t) /\ CopyKept(p, t) /\ Judged(t)
    BY <1>0, <1>3, <2>1 DEF Verify, Shaped, CopyKept, Judged, Holding, Tasks, MovePoints, Releases
  <2>. QED BY <1>0, <1>3, <2>1, <2>2, <2>3, QuietStep DEF Verify, agentVars, GuardInv, TypeOK
<1>4. CASE Release(p)
  <2>1. PICK t \in {Moving(task[p], "release", task[p].ident),
                    [task[p] EXCEPT !.at = "quarantine"]} :
            /\ Become(p, t)
            /\ t.at = "hash" => fs[Held(task[p].id)] = task[p].ident
            /\ UNCHANGED faults \/ Fault
    BY <1>0, <1>4 DEF Release, Moving, Tasks
  <2>2. t \in Tasks /\ Holding(task[p]) /\ t.id = task[p].id
    <3>1. task[p] \in Tasks
      BY <1>0
    <3>2. Holding(task[p])
      BY <1>4 DEF Release, Holding
    <3>3. CASE t = Moving(task[p], "release", task[p].ident)
      BY <3>1, <3>2, <3>3 DEF Moving, Tasks, Points, MovePoints, Goals
    <3>4. CASE t = [task[p] EXCEPT !.at = "quarantine"]
      BY <3>1, <3>2, <3>4 DEF Tasks, Points
    <3>. QED BY <3>3, <3>4
  <2>3. task[p].ident \in Benign /\ task[p].ident \in Identities
    BY <1>0, <1>4, ConstantFacts DEF Release, Judged
  <2>4. Shaped(p, t) /\ CopyKept(p, t) /\ Judged(t)
    BY <1>0, <1>4, <2>1, <2>3
       DEF Release, Moving, Shaped, CopyKept, Judged, Holding, Tasks, MovePoints
  <2>. QED BY <1>0, <1>4, <2>1, <2>2, <2>4, QuietStep DEF Release, agentVars, GuardInv, TypeOK
<1>5. CASE ReleaseFailed(p)
  <2>. DEFINE t == [task[p] EXCEPT !.at = "quarantine", !.code = "none"]
  <2>1. t \in Tasks /\ Holding(task[p]) /\ t.id = task[p].id
    BY <1>0, <1>5 DEF ReleaseFailed, Tasks, Points, Codes, Holding
  <2>2. Shaped(p, t) /\ CopyKept(p, t) /\ Judged(t)
    BY <1>0, <1>5 DEF ReleaseFailed, Shaped, CopyKept, Judged, Holding, Tasks, MovePoints
  <2>. QED BY <1>0, <1>5, <2>1, <2>2, QuietStep DEF ReleaseFailed, agentVars, GuardInv, TypeOK
<1>. QED BY <1>1, <1>2, <1>3, <1>4, <1>5

(* Steps that end the task and change no file or manifest.                 *)
LEMMA AgentEnds ==
    ASSUME GuardInv, NEW p \in Paths, UNCHANGED <<writes, crashes>>,
           RecheckFault(p) \/ StageFault(p) \/ StageFailed(p) \/ QuarantineRefused(p)
    PROVE  GuardInv'
<1>1. p \in Actors /\ Become(p, Idle)
  BY DEF Actors, RecheckFault, StageFault, StageFailed, QuarantineRefused, End
<1>2. /\ UNCHANGED <<fs, manifest, issued, notices, trusted, incidents>>
      /\ UNCHANGED faults \/ Fault
      /\ degraded' \in BOOLEAN /\ watcherDegraded' \in BOOLEAN
  BY DEF agentVars, RecheckFault, StageFault, StageFailed, QuarantineRefused, GuardInv, TypeOK
<1>. QED BY <1>1, <1>2, EndStep DEF agentVars, GuardInv, TypeOK

(* Steps that change which identity is trusted at the path.                *)
LEMMA AgentTrusts ==
    ASSUME GuardInv, NEW p \in Paths, UNCHANGED <<writes, crashes>>,
           Recheck(p) \/ Released(p) \/ Incident(p)
    PROVE  GuardInv'
<1>0. /\ task[p] \in Tasks /\ Shaped(p, task[p]) /\ Judged(task[p])
      /\ p \in Actors /\ p \notin Restorers /\ p \notin Installers
  BY StoreAssumption DEF GuardInv, TypeOK, Actors
<1>1. \A q \in Paths : trusted'[q] \in Benign \cup {None}
  BY <1>0 DEF Recheck, Released, Incident, Judged, GuardInv, TypeOK
<1>2. trusted' \in [Paths -> Identities \cup {None}]
  BY <1>0, ConstantFacts DEF Recheck, Released, Incident, Judged, GuardInv, TypeOK
<1>3. PICK t \in {Idle, [task[p] EXCEPT !.at = "stage"]} :
          Become(p, t) /\ (t # Idle => task[p].at = "recheck")
  BY DEF Recheck, Released, Incident, End
<1>4. /\ UNCHANGED <<fs, manifest, issued, notices, writes, crashes>>
      /\ faults' \in 0 .. MaxFaults
      /\ degraded' \in BOOLEAN /\ watcherDegraded' \in BOOLEAN
      /\ incidents' \subseteq Ids
  <2>1. Holding(task[p]) => task[p].id \in Ids
    BY <1>0, ConstantFacts DEF Shaped, Ids, GuardInv, TypeOK
  <2>2. incidents' \subseteq Ids
    BY <2>1 DEF Recheck, Released, Incident, Holding, GuardInv, TypeOK
  <2>3. faults' \in 0 .. MaxFaults
    BY ConstantFacts DEF Recheck, Released, Incident, Fault, GuardInv, TypeOK
  <2>4. /\ UNCHANGED <<fs, manifest, issued, notices, writes, crashes>>
        /\ degraded' \in BOOLEAN /\ watcherDegraded' \in BOOLEAN
    BY DEF Recheck, Released, Incident, GuardInv, TypeOK
  <2>. QED BY <2>2, <2>3, <2>4
<1>5. t \in Tasks /\ ~Holding(t)
  BY <1>0, <1>3, IdleIsTask DEF Idle, Tasks, Points, Holding
<1>6. CASE t = Idle
  <2>1. Shaped(p, t)' /\ CopyKept(p, t)' /\ Judged(t)
    BY <1>0, <1>6 DEF Idle, Shaped, CopyKept, Judged, Holding, MovePoints
  <2>2. TypeOK'
    BY <1>2, <1>3, <1>4, <1>5 DEF GuardInv, TypeOK, Become
  <2>. QED BY <1>0, <1>1, <1>3, <1>4, <1>5, <2>1, <2>2, ActorStep
<1>7. CASE t # Idle
  <2>1. task[p].at = "recheck" /\ t = [task[p] EXCEPT !.at = "stage"]
    BY <1>3, <1>7
  <2>2. Shaped(p, t)' /\ CopyKept(p, t)' /\ Judged(t)
    BY <1>0, <1>4, <2>1 DEF Shaped, CopyKept, Judged, Holding, Tasks, MovePoints
  <2>3. TypeOK'
    BY <1>2, <1>3, <1>4, <1>5 DEF GuardInv, TypeOK, Become
  <2>. QED BY <1>0, <1>1, <1>3, <1>4, <1>5, <2>2, <2>3, ActorStep
<1>. QED BY <1>6, <1>7

(* The step that draws the id of a hold.                                   *)
LEMMA StageStep ==
    ASSUME GuardInv, NEW p \in Paths, UNCHANGED <<writes, crashes>>, Stage(p)
    PROVE  GuardInv'
<1>0. /\ task[p] \in Tasks /\ Shaped(p, task[p]) /\ Judged(task[p])
      /\ p \in Actors /\ p \notin Restorers /\ p \notin Installers
  BY StoreAssumption DEF GuardInv, TypeOK, Actors
<1>1. CASE End(p) /\ UNCHANGED issued
  BY <1>0, <1>1, EndStep DEF Stage, End, agentVars, GuardInv, TypeOK
<1>2. CASE /\ issued < MaxIds /\ issued' = issued + 1 /\ fs[Tree(p)] # None
           /\ Become(p, Moving([task[p] EXCEPT !.id = issued + 1], "stage", fs[Tree(p)]))
  <2>0. PICK t : t = Moving([task[p] EXCEPT !.id = issued + 1], "stage", fs[Tree(p)])
    OBVIOUS
  <2>1. /\ issued \in Nat /\ issued' \in 0 .. MaxIds /\ issued + 1 \in Ids
        /\ fs[Tree(p)] \in Identities
        /\ task[p].path = p
    BY <1>0, <1>2, ConstantFacts, LocationFacts DEF Stage, Ids, GuardInv, TypeOK, Shaped
  <2>2. /\ t \in Tasks /\ t.id = issued + 1 /\ t.at = "hash" /\ t.goal = "stage"
        /\ t.path = p /\ t.ident \in Identities /\ t.verdict = task[p].verdict
    BY <1>0, <2>0, <2>1 DEF Moving, Tasks, Points, MovePoints, Goals
  <2>3. UNCHANGED <<fs, manifest, notices, degraded, faults, trusted, incidents,
                   watcherDegraded, writes, crashes>>
    BY DEF Stage, agentVars
  <2>4. Become(p, t)
    BY <1>2, <2>0
  <2>5. TypeOK'
    BY <2>1, <2>2, <2>3, <2>4 DEF GuardInv, TypeOK, Become
  <2>6. issued' = issued + 1 /\ t.id \in 1 .. issued'
    BY <1>2, <2>1, <2>2
  <2>7. Shaped(p, t)'
    BY <1>0, <2>2, <2>6 DEF Shaped, MovePoints
  <2>8. CopyKept(p, t)' /\ Judged(t)
    BY <2>2 DEF CopyKept, Judged
  <2>9. /\ \A q \in Paths : trusted'[q] \in Benign \cup {None}
        /\ \A i \in Ids : manifest[i] # None => manifest'[i] # None
        /\ \A b \in Paths \cup Installers : b # p /\ Holding(task[b]) =>
               fs'[PrivateCopy(b, task[b].id)]
                   \in {fs[PrivateCopy(b, task[b].id)], Corrupt, None}
    BY <2>3 DEF GuardInv
  <2>10. issued' \in {issued, issued + 1} /\ t \in Tasks /\ t.id = issued + 1
    BY <2>2, <2>6
  <2>. QED BY <1>0, <2>4, <2>5, <2>7, <2>8, <2>9, <2>10, ActorStep
<1>. QED BY <1>1, <1>2 DEF Stage, End

------------------------------------------------------------------------------
(* The quarantine store.                                                   *)

(* A step that writes a manifest: files and ids stay.                      *)
LEMMA ManifestStep ==
    ASSUME GuardInv, NEW a \in Actors, NEW t \in Tasks, Become(a, t),
           NEW i \in Ids, NEW m \in Manifests,
           manifest' = [manifest EXCEPT ![i] = m],
           UNCHANGED <<fs, issued, notices, trusted, incidents,
                   watcherDegraded, writes, crashes>>,
           degraded' \in BOOLEAN,
           faults' = faults,
           Shaped(a, t)', CopyKept(a, t), Judged(t),
           Holding(t) => Holding(task[a]) /\ t.id = task[a].id
    PROVE  GuardInv'
<1>0. None \notin Manifests
  BY StoreAssumption
<1>1. TypeOK'
  BY DEF GuardInv, TypeOK, Become
<1>2. \A j \in Ids : manifest[j] # None => manifest'[j] # None
  BY <1>0 DEF GuardInv, TypeOK
<1>3. CopyKept(a, t)' /\ \A p \in Paths : trusted'[p] \in Benign \cup {None}
  BY DEF CopyKept, GuardInv
<1>. QED BY <1>1, <1>2, <1>3, ActorStep

LEMMA QuarantineStep ==
    ASSUME GuardInv, NEW a \in Paths \cup Installers,
           QuarantineBegin(a) \/ QuarantineRecord(a),
           UNCHANGED <<agentVars, writes, crashes>>
    PROVE  GuardInv'
<1>0. /\ task[a] \in Tasks /\ Shaped(a, task[a]) /\ Judged(task[a])
      /\ a \in Actors /\ a \notin Restorers
      /\ issued \in 0 .. MaxIds
  BY StoreAssumption DEF GuardInv, TypeOK, Actors
<1>1. /\ Holding(task[a]) /\ task[a].id \in 1 .. issued /\ task[a].id \in Ids
      /\ task[a].path \in Paths
  BY <1>0, ConstantFacts DEF QuarantineBegin, QuarantineRecord, Shaped, Holding, Ids
<1>2. fs[Private(a)] \in Identities \cup {None}
  BY <1>1, PrivateCopyFacts DEF Private, GuardInv, TypeOK
<1>3. CASE QuarantineBegin(a)
  <2>1. PICK m, t :
          /\ m = [state |-> "pending", path |-> task[a].path, ident |-> fs[Private(a)]]
          /\ t = Moving(task[a], "quarantine", fs[Private(a)])
          /\ manifest' = [manifest EXCEPT ![task[a].id] = m]
          /\ Become(a, t)
    BY <1>3 DEF QuarantineBegin
  <2>2. m \in Manifests
    BY <1>1, <1>2, <1>3, <2>1 DEF QuarantineBegin, Manifests, ManifestStates
  <2>3. /\ t \in Tasks /\ t.id = task[a].id /\ t.at = "hash" /\ t.goal = "quarantine"
        /\ t.path = task[a].path /\ t.ident \in Identities
    BY <1>0, <1>2, <1>3, <2>1 DEF QuarantineBegin, Moving, Tasks, Points, MovePoints, Goals
  <2>4. UNCHANGED <<fs, issued, notices, degraded, faults, trusted, incidents,
                   watcherDegraded, writes, crashes>>
    BY <1>3 DEF QuarantineBegin, agentVars
  <2>5. manifest'[t.id] # None
    BY <1>1, <2>1, <2>2, <2>3, StoreAssumption DEF GuardInv, TypeOK
  <2>6. Shaped(a, t)'
    BY <1>0, <1>1, <2>3, <2>4, <2>5 DEF Shaped, MovePoints, Holding
  <2>7. CopyKept(a, t) /\ Judged(t)
    BY <2>3 DEF CopyKept, Judged
  <2>8. degraded' \in BOOLEAN
    BY <2>4 DEF GuardInv, TypeOK
  <2>. QED BY <1>0, <1>1, <2>1, <2>2, <2>3, <2>4, <2>6, <2>7, <2>8, ManifestStep
<1>4. CASE QuarantineRecord(a)
  <2>0. task[a].goal = "quarantine" /\ manifest[task[a].id] \in Manifests
    BY <1>0, <1>1, <1>4 DEF QuarantineRecord, Shaped, GuardInv, TypeOK
  <2>1. CASE /\ manifest' = [manifest EXCEPT ![task[a].id].state = "quarantined"]
             /\ Become(a, [task[a] EXCEPT !.at = "incident"])
             /\ UNCHANGED faults
    <3>1. PICK m, t :
            /\ m = [manifest[task[a].id] EXCEPT !.state = "quarantined"]
            /\ t = [task[a] EXCEPT !.at = "incident"]
            /\ manifest' = [manifest EXCEPT ![task[a].id] = m]
            /\ Become(a, t)
      BY <2>1
    <3>2. m \in Manifests
      BY <2>0, <3>1 DEF Manifests, ManifestStates
    <3>3. /\ t \in Tasks /\ t.id = task[a].id /\ t.at = "incident"
          /\ t.goal = "quarantine" /\ t.path = task[a].path
      BY <1>0, <2>0, <3>1 DEF Tasks, Points
    <3>4. UNCHANGED <<fs, issued, notices, degraded, faults, trusted, incidents,
                   watcherDegraded, writes, crashes>>
      BY <1>4, <2>1 DEF QuarantineRecord, agentVars
    <3>5. manifest'[t.id] # None
      BY <1>1, <3>1, <3>2, <3>3, StoreAssumption DEF GuardInv, TypeOK
    <3>6. task[a].at # "idle"
      BY <1>4 DEF QuarantineRecord
    <3>7. Shaped(a, t)'
      BY <1>0, <1>1, <3>3, <3>4, <3>5, <3>6 DEF Shaped, MovePoints, Holding
    <3>8. CopyKept(a, t) /\ Judged(t)
      BY <3>3 DEF CopyKept, Judged
    <3>9. degraded' \in BOOLEAN
      BY <3>4 DEF GuardInv, TypeOK
    <3>. QED BY <1>0, <1>1, <3>1, <3>2, <3>3, <3>4, <3>7, <3>8, <3>9, ManifestStep
  <2>2. CASE /\ Fault /\ UNCHANGED manifest
             /\ Become(a, [task[a] EXCEPT !.at = "failed", !.code = "error"])
    <3>. DEFINE t == [task[a] EXCEPT !.at = "failed", !.code = "error"]
    <3>1. t \in Tasks /\ t.id = task[a].id
      BY <1>0 DEF Tasks, Points, Codes
    <3>2. Shaped(a, t) /\ CopyKept(a, t) /\ Judged(t)
      BY <1>0, <1>1, <2>0, <1>4 DEF QuarantineRecord, Shaped, CopyKept, Judged, Holding,
                                    MovePoints, Tasks
    <3>. QED BY <1>0, <1>1, <1>4, <2>2, <3>1, <3>2, QuietStep
             DEF QuarantineRecord, agentVars, GuardInv, TypeOK
  <2>. QED BY <1>4, <2>1, <2>2 DEF QuarantineRecord
<1>. QED BY <1>3, <1>4

(* The catch block of quarantine, for the agent and for an install.        *)
LEMMA FailureStep ==
    ASSUME GuardInv, NEW a \in Paths \cup Installers,
           task[a].at = "failed", task[a].goal = "quarantine",
           RecordFailure(a), Become(a, Idle),
           degraded' \in BOOLEAN,
           UNCHANGED <<fs, issued, notices, agentVars, writes, crashes>>
    PROVE  GuardInv'
<1>0. /\ task[a] \in Tasks /\ Shaped(a, task[a]) /\ a \in Actors /\ issued \in 0 .. MaxIds
  BY DEF GuardInv, TypeOK, Actors
<1>1. CASE Fault /\ UNCHANGED manifest
  BY <1>0, <1>1, EndStep DEF agentVars, GuardInv, TypeOK
<1>2. CASE /\ manifest' = [manifest EXCEPT ![task[a].id].state = "failed"]
           /\ UNCHANGED faults
  <2>1. task[a].id \in Ids /\ manifest[task[a].id] \in Manifests
    BY <1>0, ConstantFacts DEF Shaped, Holding, Ids, GuardInv, TypeOK
  <2>2. PICK m : /\ m = [manifest[task[a].id] EXCEPT !.state = "failed"]
                 /\ manifest' = [manifest EXCEPT ![task[a].id] = m]
    BY <1>2
  <2>3. m \in Manifests
    BY <2>1, <2>2 DEF Manifests, ManifestStates
  <2>4. Shaped(a, Idle)' /\ CopyKept(a, Idle) /\ Judged(Idle) /\ ~Holding(Idle)
    BY DEF Idle, Shaped, CopyKept, Judged, Holding, MovePoints
  <2>. QED BY <1>0, <1>2, <2>1, <2>2, <2>3, <2>4, IdleIsTask, ManifestStep DEF agentVars
<1>. QED BY <1>1, <1>2 DEF RecordFailure

LEMMA AgentInv ==
    ASSUME GuardInv, NEW p \in Paths, Agent(p)
    PROVE  GuardInv'
<1>1. CASE QuarantineFailed(p)
  BY <1>1, FailureStep DEF QuarantineFailed, End, Agent
<1>2. CASE (QuarantineBegin(p) \/ QuarantineRecord(p) \/ Move(p)) /\ UNCHANGED agentVars
  BY <1>2, QuarantineStep, MoveStep DEF Agent, Actors
<1>. QED BY <1>1, <1>2, AgentQuiet, AgentEnds, AgentTrusts, StageStep DEF Agent, AgentStep

------------------------------------------------------------------------------
(* Calls of the restore API.                                               *)

LEMMA RestoreInv ==
    ASSUME GuardInv, NEW r \in Restorers, RestoreCall(r)
    PROVE  GuardInv'
<1>0. /\ task[r] \in Tasks /\ Shaped(r, task[r]) /\ r \in Actors
      /\ r \notin Paths /\ r \notin Installers
      /\ issued \in 0 .. MaxIds
      /\ UNCHANGED <<agentVars, writes, crashes>>
  BY StoreAssumption DEF GuardInv, TypeOK, Actors, RestoreCall
<1>1. CASE RestoreBegin(r)
  <2>1. PICK i \in 1 .. issued :
          /\ manifest[i] # None
          /\ Become(r, Moving([Idle EXCEPT !.id = i, !.path = manifest[i].path],
                              "restore", manifest[i].ident))
    BY <1>1 DEF RestoreBegin
  <2>2. i \in Ids /\ manifest[i] \in Manifests
    BY <1>0, <2>1, ConstantFacts DEF Ids, GuardInv, TypeOK
  <2>3. PICK t : t = Moving([Idle EXCEPT !.id = i, !.path = manifest[i].path],
                            "restore", manifest[i].ident)
    OBVIOUS
  <2>4. /\ t \in Tasks /\ t.id = i /\ t.at = "hash" /\ t.goal = "restore"
        /\ t.path \in Paths /\ t.ident \in Identities
    BY <2>2, <2>3 DEF Moving, Idle, Tasks, Points, MovePoints, Goals, Codes, Manifests
  <2>5. Shaped(r, t) /\ CopyKept(r, t) /\ Judged(t)
    BY <1>0, <2>1, <2>4 DEF Shaped, CopyKept, Judged, MovePoints, Holding
  <2>6. Become(r, t)
    BY <2>1, <2>3
  <2>. QED BY <1>0, <1>1, <2>4, <2>5, <2>6, QuietStep
           DEF RestoreBegin, agentVars, GuardInv, TypeOK
<1>2. CASE RestoreRecord(r)
  <2>1. Become(r, Idle) /\ UNCHANGED <<fs, issued, notices, degraded>>
    BY <1>2 DEF RestoreRecord
  <2>2. CASE Fault /\ UNCHANGED manifest
    BY <1>0, <2>1, <2>2, EndStep DEF agentVars, GuardInv, TypeOK
  <2>3. CASE /\ manifest' = [manifest EXCEPT ![task[r].id].state = "restored"]
             /\ UNCHANGED faults
    <3>1. task[r].id \in Ids /\ manifest[task[r].id] \in Manifests
      BY <1>0, <1>2, ConstantFacts DEF RestoreRecord, Shaped, Holding, Ids, GuardInv, TypeOK
    <3>2. PICK m : /\ m = [manifest[task[r].id] EXCEPT !.state = "restored"]
                   /\ manifest' = [manifest EXCEPT ![task[r].id] = m]
      BY <2>3
    <3>3. m \in Manifests
      BY <3>1, <3>2 DEF Manifests, ManifestStates
    <3>4. Shaped(r, Idle)' /\ CopyKept(r, Idle) /\ Judged(Idle) /\ ~Holding(Idle)
      BY DEF Idle, Shaped, CopyKept, Judged, Holding, MovePoints
    <3>5. degraded' \in BOOLEAN
      BY <2>1 DEF GuardInv, TypeOK
    <3>. QED BY <1>0, <2>1, <2>3, <3>1, <3>2, <3>3, <3>4, <3>5, IdleIsTask, ManifestStep
             DEF agentVars
  <2>. QED BY <1>2, <2>2, <2>3 DEF RestoreRecord
<1>3. CASE RestoreFailed(r)
  BY <1>0, <1>3, EndStep DEF RestoreFailed, agentVars, GuardInv, TypeOK
<1>4. CASE Move(r)
  BY <1>0, <1>4, MoveStep
<1>. QED BY <1>1, <1>2, <1>3, <1>4 DEF RestoreCall, Restore

------------------------------------------------------------------------------
(* Calls of the managed-install API.                                       *)

LEMMA InstallBeginStep ==
    ASSUME GuardInv, NEW i \in Installers, InstallBegin(i),
           UNCHANGED <<agentVars, writes, crashes>>
    PROVE  GuardInv'
<1>0. /\ i \in Actors /\ i \notin Paths /\ i \notin Restorers
      /\ issued \in Nat /\ issued' = issued + 1 /\ issued' \in 0 .. MaxIds
      /\ issued + 1 \in Ids
  BY StoreAssumption DEF GuardInv, TypeOK, Actors, InstallBegin, Ids
<1>1. PICK p \in Paths, c \in Contents :
          /\ fs' = [fs EXCEPT ![Staged(issued + 1)] = c]
          /\ Become(i, [Idle EXCEPT !.at = "scan", !.id = issued + 1,
                                    !.path = p, !.ident = c])
  BY DEF InstallBegin
<1>2. PICK t : t = [Idle EXCEPT !.at = "scan", !.id = issued + 1, !.path = p, !.ident = c]
  OBVIOUS
<1>3. /\ t \in Tasks /\ t.id = issued + 1 /\ t.at = "scan" /\ t.goal = "none"
      /\ t.path = p /\ t.ident = c
  BY <1>0, <1>2 DEF Idle, Tasks, Points, MovePoints, Goals, Codes, Identities
<1>4. UNCHANGED <<manifest, notices, degraded, faults, trusted, incidents,
                   watcherDegraded, writes, crashes>>
  BY DEF InstallBegin, agentVars
<1>5. Staged(issued + 1) \in Locations /\ c \in Identities
  BY <1>0, LocationFacts DEF Identities
<1>6. fs' \in [Locations -> Identities \cup {None}]
  BY <1>1, <1>5 DEF GuardInv, TypeOK
<1>7. TypeOK'
  BY <1>0, <1>1, <1>2, <1>3, <1>4, <1>6 DEF GuardInv, TypeOK, Become
<1>8. Shaped(i, t)'
  BY <1>0, <1>3 DEF Shaped, MovePoints, Holding
<1>9. CopyKept(i, t)'
  <2>1. fs'[Staged(issued + 1)] = c
    BY <1>1, <1>5 DEF GuardInv, TypeOK
  <2>. QED BY <1>0, <1>3, <2>1 DEF CopyKept, PrivateCopy
<1>10. Judged(t)
  BY <1>3 DEF Judged
<1>11. ASSUME NEW b \in Paths \cup Installers, b # i, Holding(task[b])
       PROVE  fs'[PrivateCopy(b, task[b].id)]
                    \in {fs[PrivateCopy(b, task[b].id)], Corrupt, None}
  <2>1. task[b].id \in 1 .. issued
    BY <1>11 DEF GuardInv, Shaped, Actors
  <2>2. task[b].id \in Ids /\ task[b].id # issued + 1
    BY <1>0, <2>1, ConstantFacts DEF Ids
  <2>3. PrivateCopy(b, task[b].id) # PrivateCopy(i, issued + 1)
    BY <2>2, PrivateCopyFacts
  <2>4. PrivateCopy(i, issued + 1) = Staged(issued + 1)
    BY DEF PrivateCopy
  <2>. QED BY <1>1, <2>2, <2>3, <2>4, PrivateCopyFacts DEF GuardInv, TypeOK
<1>12. /\ \A q \in Paths : trusted'[q] \in Benign \cup {None}
       /\ \A j \in Ids : manifest[j] # None => manifest'[j] # None
       /\ Become(i, t)
       /\ issued' \in {issued, issued + 1}
  BY <1>0, <1>1, <1>2, <1>4 DEF GuardInv
<1>13. Holding(t) => t.id = issued + 1
  BY <1>3
<1>. QED BY <1>0, <1>3, <1>7, <1>8, <1>9, <1>10, <1>11, <1>12, <1>13, ActorStep

(* Steps of an install that only take the call from one point to the next. *)
LEMMA InstallQuiet ==
    ASSUME GuardInv, NEW i \in Installers, UNCHANGED <<agentVars, writes, crashes>>,
           \/ InstallScan(i) \/ InstallVerify(i) \/ InstallAccess(i)
           \/ InstallEnd(i) \/ InstallFault(i)
    PROVE  GuardInv'
<1>0. /\ task[i] \in Tasks /\ Shaped(i, task[i]) /\ Judged(task[i]) /\ CopyKept(i, task[i])
      /\ i \in Actors /\ i \notin Paths /\ i \notin Restorers
  BY StoreAssumption DEF GuardInv, TypeOK, Actors
<1>1. CASE Become(i, Idle)
  <2>1. /\ UNCHANGED <<fs, manifest, issued, notices, degraded, agentVars>>
        /\ faults' = faults \/ Fault
    BY DEF InstallScan, InstallVerify, InstallAccess, InstallEnd, InstallFault
  <2>. QED BY <1>0, <1>1, <2>1, EndStep DEF agentVars, GuardInv, TypeOK
<1>2. CASE InstallScan(i)
  <2>1. PICK v \in ScanVerdicts(fs[Staged(task[i].id)]) :
            Become(i, [task[i] EXCEPT !.at = "verify", !.verdict = v])
    BY <1>2 DEF InstallScan
  <2>. DEFINE t == [task[i] EXCEPT !.at = "verify", !.verdict = v]
  <2>2. fs[Staged(task[i].id)] \in {task[i].ident, Corrupt, None}
    BY <1>0, <1>2 DEF InstallScan, CopyKept, PrivateCopy
  <2>3. v \in Verdicts /\ (v = "SAFE" => fs[Staged(task[i].id)] \in Benign)
    BY DEF ScanVerdicts, Verdicts
  <2>4. v = "SAFE" => task[i].ident \in Benign
    BY <2>2, <2>3, ConstantFacts
  <2>5. t \in Tasks /\ Holding(task[i]) /\ t.id = task[i].id
    BY <1>0, <1>2, <2>3 DEF InstallScan, Tasks, Points, Holding
  <2>6. Shaped(i, t) /\ CopyKept(i, t) /\ Judged(t)
    BY <1>0, <1>2, <2>4 DEF InstallScan, Shaped, CopyKept, Judged, Holding, Tasks, MovePoints
  <2>. QED BY <1>0, <1>2, <2>1, <2>5, <2>6, QuietStep
           DEF InstallScan, agentVars, GuardInv, TypeOK
<1>3. CASE InstallVerify(i) /\ ~Become(i, Idle)
  <2>1. PICK x \in {"access", "quarantine"} :
            /\ Become(i, [task[i] EXCEPT !.verdict = "none", !.at = x])
            /\ x = "access" => Releases(task[i].verdict)
    BY <1>3 DEF InstallVerify
  <2>. DEFINE t == [task[i] EXCEPT !.verdict = "none", !.at = x]
  <2>2. t \in Tasks /\ Holding(task[i]) /\ t.id = task[i].id
    BY <1>0, <1>3 DEF InstallVerify, Tasks, Points, Holding
  <2>3. Shaped(i, t) /\ CopyKept(i, t) /\ Judged(t)
    BY <1>0, <1>3, <2>1 DEF InstallVerify, Shaped, CopyKept, Judged, Holding, Tasks,
                            MovePoints, Releases
  <2>. QED BY <1>0, <1>3, <2>1, <2>2, <2>3, QuietStep
           DEF InstallVerify, agentVars, GuardInv, TypeOK
<1>4. CASE InstallAccess(i) /\ ~Become(i, Idle)
  <2>. DEFINE t == Moving(task[i], "release", task[i].ident)
  <2>1. Become(i, t)
    BY <1>4 DEF InstallAccess
  <2>2. t \in Tasks /\ Holding(task[i]) /\ t.id = task[i].id
    BY <1>0, <1>4 DEF InstallAccess, Moving, Tasks, Points, MovePoints, Goals, Holding
  <2>3. task[i].ident \in Benign /\ task[i].ident \in Identities
    BY <1>0, <1>4, ConstantFacts DEF InstallAccess, Judged
  <2>4. Shaped(i, t) /\ CopyKept(i, t) /\ Judged(t)
    BY <1>0, <1>4, <2>3
       DEF InstallAccess, Moving, Shaped, CopyKept, Judged, Holding, Tasks, MovePoints
  <2>. QED BY <1>0, <1>4, <2>1, <2>2, <2>4, QuietStep
           DEF InstallAccess, agentVars, GuardInv, TypeOK
<1>. QED BY <1>1, <1>2, <1>3, <1>4 DEF InstallEnd, InstallFault

LEMMA InstallInv ==
    ASSUME GuardInv, NEW i \in Installers, InstallCall(i)
    PROVE  GuardInv'
<1>1. UNCHANGED <<agentVars, writes, crashes>> /\ i \in Actors
  BY DEF InstallCall, Actors
<1>2. CASE InstallQuarantineFailed(i)
  BY <1>1, <1>2, FailureStep DEF InstallQuarantineFailed, GuardInv, TypeOK
<1>. QED BY <1>1, <1>2, InstallBeginStep, InstallQuiet, QuarantineStep, MoveStep
         DEF InstallCall, InstallStep

------------------------------------------------------------------------------
(* Other programs, and the restart of the process.                         *)

LEMMA EnvironmentInv ==
    ASSUME GuardInv,
           (\E p \in Paths : Write(p)) \/ (\E l \in Locations : Damage(l)) \/ Restart
           \/ (Reconciled /\ UNCHANGED <<writes, crashes>>)
           \/ (\E p \in Paths : IsTrustedPath(p) /\ UNCHANGED <<writes, crashes>>)
    PROVE  GuardInv'
<1>1. CASE \E p \in Paths : Write(p)
  <2>1. PICK p \in Paths : Write(p)
    BY <1>1
  <2>2. PICK c \in Contents \cup {None} : fs' = [fs EXCEPT ![Tree(p)] = c]
    BY <2>1 DEF Write
  <2>3. TypeOK'
    <3>1. fs' \in [Locations -> Identities \cup {None}]
      BY <2>2 DEF Identities, GuardInv, TypeOK
    <3>2. notices' \subseteq Paths /\ writes' \in 0 .. MaxWrites
      BY <2>1, ConstantFacts DEF Write, Changed, GuardInv, TypeOK
    <3>. QED BY <2>1, <3>1, <3>2 DEF Write, GuardInv, TypeOK, agentVars
  <2>4. \A a : \A i \in Ids : fs'[PrivateCopy(a, i)] = fs[PrivateCopy(a, i)]
    BY <2>2, PrivateCopyFacts DEF GuardInv, TypeOK
  <2>5. UNCHANGED <<manifest, issued, task, trusted>>
    BY <2>1 DEF Write, agentVars
  <2>6. \A a \in Actors : Shaped(a, task[a])' /\ Judged(task[a])'
    BY <2>5 DEF Shaped, Judged, GuardInv
  <2>7. ASSUME NEW a \in Actors PROVE CopyKept(a, task[a])'
    <3>1. CASE task[a].id \in Ids
      BY <2>4, <2>5, <3>1 DEF CopyKept, GuardInv
    <3>2. CASE task[a].id \notin Ids
      <4>1. ~Holding(task[a])
        BY <3>2, ConstantFacts DEF GuardInv, Shaped, TypeOK, Ids
      <4>. QED BY <2>5, <4>1 DEF CopyKept, Holding
    <3>. QED BY <3>1, <3>2
  <2>. QED BY <2>3, <2>5, <2>6, <2>7 DEF GuardInv, PrivateCopies
<1>2. CASE \E l \in Locations : Damage(l)
  <2>1. PICK l \in Locations : Damage(l)
    BY <1>2
  <2>2. fs' = [fs EXCEPT ![l] = Corrupt]
    BY <2>1 DEF Damage
  <2>3. TypeOK'
    BY <2>1, <2>2, ConstantFacts DEF Damage, GuardInv, TypeOK, agentVars
  <2>4. \A a : \A i \in Ids : fs'[PrivateCopy(a, i)] \in {fs[PrivateCopy(a, i)], Corrupt}
    BY <2>2, PrivateCopyFacts DEF GuardInv, TypeOK
  <2>5. UNCHANGED <<manifest, issued, task, trusted>>
    BY <2>1 DEF Damage, agentVars
  <2>6. \A a \in Actors : Shaped(a, task[a])' /\ Judged(task[a])'
    BY <2>5 DEF Shaped, Judged, GuardInv
  <2>7. ASSUME NEW a \in Actors PROVE CopyKept(a, task[a])'
    <3>1. CASE task[a].id \in Ids
      BY <2>4, <2>5, <3>1 DEF CopyKept, GuardInv
    <3>2. CASE task[a].id \notin Ids
      <4>1. ~Holding(task[a])
        BY <3>2, ConstantFacts DEF GuardInv, Shaped, TypeOK, Ids
      <4>. QED BY <2>5, <4>1 DEF CopyKept, Holding
    <3>. QED BY <3>1, <3>2
  <2>. QED BY <2>3, <2>5, <2>6, <2>7 DEF GuardInv, PrivateCopies
<1>3. CASE Restart
  <2>1. \A a \in Actors : task'[a] = Idle
    BY <1>3 DEF Restart
  <2>2. TypeOK'
    <3>1. task' \in [Actors -> Tasks] /\ trusted' \in [Paths -> Identities \cup {None}]
      BY <1>3, IdleIsTask DEF Restart
    <3>2. notices' \subseteq Paths /\ degraded' \in BOOLEAN /\ watcherDegraded' \in BOOLEAN
      BY <1>3 DEF Restart
    <3>3. crashes' \in 0 .. MaxCrashes
      BY <1>3, ConstantFacts DEF Restart, GuardInv, TypeOK
    <3>. QED BY <1>3, <3>1, <3>2, <3>3 DEF Restart, GuardInv, TypeOK
  <2>3. \A a \in Actors : (Shaped(a, task[a]) /\ CopyKept(a, task[a]) /\ Judged(task[a]))'
    BY <2>1 DEF Shaped, CopyKept, Judged, Idle, Holding, MovePoints
  <2>4. PrivateCopies'
    BY <2>1 DEF PrivateCopies, Holding, Idle, Actors
  <2>5. \A p \in Paths : trusted'[p] = None
    BY <1>3 DEF Restart
  <2>. QED BY <2>2, <2>3, <2>4, <2>5 DEF GuardInv
<1>4. CASE Reconciled /\ UNCHANGED <<writes, crashes>>
  <2>1. UNCHANGED <<fs, manifest, issued, task, notices, faults, trusted, incidents,
                    writes, crashes>>
    BY <1>4 DEF Reconciled
  <2>2. TypeOK'
    BY <1>4, <2>1 DEF Reconciled, GuardInv, TypeOK
  <2>3. \A a \in Actors : Shaped(a, task[a])' /\ CopyKept(a, task[a])' /\ Judged(task[a])'
    BY <2>1 DEF Shaped, CopyKept, Judged, GuardInv
  <2>. QED BY <2>1, <2>2, <2>3 DEF GuardInv, PrivateCopies
<1>5. CASE \E p \in Paths : IsTrustedPath(p) /\ UNCHANGED <<writes, crashes>>
  <2>1. PICK p \in Paths : IsTrustedPath(p) /\ UNCHANGED <<writes, crashes>>
    BY <1>5
  <2>2. UNCHANGED <<fs, manifest, issued, task, notices, degraded, faults, incidents,
                    watcherDegraded, writes, crashes>>
    BY <2>1 DEF IsTrustedPath, storeVars
  <2>3. trusted' = [trusted EXCEPT ![p] = None]
    BY <2>1 DEF IsTrustedPath
  <2>4. TypeOK' /\ \A q \in Paths : trusted'[q] \in Benign \cup {None}
    BY <2>2, <2>3 DEF GuardInv, TypeOK
  <2>5. \A a \in Actors : Shaped(a, task[a])' /\ CopyKept(a, task[a])' /\ Judged(task[a])'
    BY <2>2 DEF Shaped, CopyKept, Judged, GuardInv
  <2>. QED BY <2>2, <2>4, <2>5 DEF GuardInv, PrivateCopies
<1>. QED BY <1>1, <1>2, <1>3, <1>4, <1>5

------------------------------------------------------------------------------
LEMMA InitInv == Init => GuardInv
<1>. SUFFICES ASSUME Init PROVE GuardInv
  OBVIOUS
<1>1. \A a \in Actors : task[a] = Idle
  BY DEF Init, StoreInit
<1>2. TypeOK
  <2>1. task \in [Actors -> Tasks]
    BY IdleIsTask DEF Init, StoreInit
  <2>2. fs \in [Locations -> Identities \cup {None}]
    <3>1. PICK game \in [Paths -> Contents \cup {None}] :
            fs = [l \in Locations |-> IF l[1] = "tree" THEN game[l[2]] ELSE None]
      BY DEF Init, StoreInit
    <3>2. \A l \in Locations : l[1] = "tree" => l[2] \in Paths
      BY DEF Locations
    <3>3. \A l \in Locations : fs[l] \in Contents \cup {None}
      BY <3>1, <3>2, Zenon
    <3>. QED BY <3>1, <3>3 DEF Identities
  <2>5. /\ manifest \in [Ids -> Manifests \cup {None}]
        /\ trusted \in [Paths -> Identities \cup {None}]
    BY DEF Init, StoreInit, AgentInit
  <2>3. /\ issued \in 0 .. MaxIds /\ faults \in 0 .. MaxFaults
        /\ writes \in 0 .. MaxWrites /\ crashes \in 0 .. MaxCrashes
    <3>1. issued = 0 /\ faults = 0 /\ writes = 0 /\ crashes = 0
      BY Zenon DEF Init, StoreInit
    <3>. QED BY <3>1, ConstantFacts
  <2>4. /\ notices \subseteq Paths /\ incidents \subseteq Ids
        /\ degraded \in BOOLEAN /\ watcherDegraded \in BOOLEAN
    BY DEF Init, StoreInit, AgentInit
  <2>. QED BY <2>1, <2>2, <2>3, <2>4, <2>5 DEF TypeOK
<1>3. \A a \in Actors : Shaped(a, task[a]) /\ CopyKept(a, task[a]) /\ Judged(task[a])
  BY <1>1 DEF Shaped, CopyKept, Judged, Idle, Holding, MovePoints
<1>4. PrivateCopies
  BY <1>1 DEF PrivateCopies, Holding, Idle, Actors
<1>. QED BY <1>2, <1>3, <1>4 DEF Init, AgentInit, GuardInv

LEMMA NextInv == GuardInv /\ [Next]_vars => GuardInv'
<1>1. SUFFICES ASSUME GuardInv, [Next]_vars PROVE GuardInv'
  OBVIOUS
<1>2. CASE UNCHANGED vars
  BY <1>1, <1>2 DEF vars, storeVars, agentVars, GuardInv, TypeOK, Shaped, CopyKept, PrivateCopies
<1>3. CASE Next
  BY <1>1, <1>3, AgentInv, RestoreInv, InstallInv, EnvironmentInv DEF Next
<1>. QED BY <1>1, <1>2, <1>3

(* The inductive invariant holds in every behaviour of the desktop guard:  *)
(* tasks keep their private copies apart and a SAFE answer stays an answer *)
(* about the identity that is released (agent.js, hold-store.js).          *)
THEOREM GuardInvariant == Spec => []GuardInv
BY InitInv, NextInv, PTL DEF Spec

(* Type correctness of the stores, tasks, manifests and counters.          *)
THEOREM GuardTypes == Spec => []TypeOK
<1>1. GuardInv => TypeOK
  BY DEF GuardInv
<1>. QED BY <1>1, GuardInvariant, PTL

(* What the move of a release puts into the game is what was judged, or    *)
(* what another program made of the private copy after its hash.           *)
LEMMA ReleasePutsJudged ==
    ASSUME GuardInv, NEW a \in Actors, task[a].goal = "release",
           MoveRename(a) \/ MoveCopy(a),
           fs'[Tree(task[a].path)] # fs[Tree(task[a].path)]
    PROVE  fs'[Tree(task[a].path)] \in Benign \/ fs[Private(a)] = Corrupt
<1>1. /\ task[a].at = "rename" /\ Shaped(a, task[a]) /\ CopyKept(a, task[a])
      /\ task[a].ident \in Benign
  BY DEF GuardInv, Judged, MoveRename, MoveCopy
<1>2. a \notin Restorers
  BY <1>1 DEF Shaped
<1>3. fs[Private(a)] \in {task[a].ident, Corrupt, None}
  BY <1>1, <1>2 DEF CopyKept, Private
<1>4. Src(a) = Private(a) /\ Dst(a) = Tree(task[a].path) /\ Dst(a) \in Locations
  BY <1>1, MoveLocations DEF Src, Dst, MovePoints
<1>5. CASE MoveRename(a)
  <2>1. fs' = [fs EXCEPT ![Src(a)] = None, ![Dst(a)] = fs[Src(a)]] /\ fs[Src(a)] # None
    BY <1>4, <1>5 DEF MoveRename
  <2>2. fs'[Dst(a)] = fs[Src(a)]
    BY <1>4, <2>1 DEF GuardInv, TypeOK
  <2>. QED BY <1>1, <1>3, <1>4, <2>1, <2>2
<1>6. CASE MoveCopy(a)
  <2>1. fs' = [fs EXCEPT ![Dst(a)] = task[a].ident]
    BY <1>4, <1>6 DEF MoveCopy
  <2>2. fs'[Dst(a)] = task[a].ident
    BY <1>4, <2>1 DEF GuardInv, TypeOK
  <2>. QED BY <1>1, <1>4, <2>2
<1>. QED BY <1>5, <1>6

(* A release is confirmed only with judged bytes in the game.              *)
LEMMA ConfirmedIsJudged ==
    ASSUME GuardInv, NEW a \in Actors, task[a].goal = "release",
           MoveConfirm(a), task'[a].at = "moved"
    PROVE  fs[Tree(task[a].path)] \in Benign
<1>1. task[a] \in Tasks /\ task[a].ident \in Benign /\ Dst(a) = Tree(task[a].path)
  BY DEF GuardInv, TypeOK, Judged, Dst
<1>2. ASSUME fs[Dst(a)] # task[a].ident PROVE FALSE
  <2>1. task'[a] = Failed(a, fs[Dst(a)])
    BY <1>2 DEF MoveConfirm, Become, GuardInv, TypeOK
  <2>. QED BY <1>1, <2>1 DEF Failed, Tasks
<1>. QED BY <1>1, <1>2

(* The agent ends a release it could not confirm with degraded health.     *)
LEMMA UnconfirmedDegrades ==
    ASSUME GuardInv, Next, NEW p \in Paths, Unconfirmed(task[p]), task'[p].at = "idle"
    PROVE  degraded' \/ Restart
<1>1. task \in [Actors -> Tasks] /\ p \in Actors /\ task[p].at # "idle" /\ task[p].goal = "release"
  BY DEF GuardInv, TypeOK, Actors, Unconfirmed, MovePoints
<1>2. task' # task
  BY <1>1
<1>3. ASSUME NEW q \in Paths, Notify(q) PROVE FALSE
  <2>1. task[q].at = "idle" /\ \E t : Become(q, t)
    BY <1>2, <1>3 DEF Notify
  <2>2. task'[p] = task[p]
    BY <1>1, <2>1 DEF Become
  <2>. QED BY <1>1, <2>2
<1>4. ASSUME NEW b \in Actors, b # p, \E t : Become(b, t) PROVE FALSE
  <2>1. task'[p] = task[p]
    BY <1>1, <1>4 DEF Become
  <2>. QED BY <1>1, <2>1
<1>5. ASSUME NEW b \in Actors, Move(b) PROVE b # p /\ \E t : Become(b, t)
  <2>1. \E t : Become(b, t)
    BY <1>5 DEF Move, MoveHash, MoveRename, MoveCopy, MoveUnlink, MoveConfirm, MoveFault
  <2>2. ASSUME b = p PROVE FALSE
    <3>1. PICK t : /\ Become(p, t)
                   /\ \/ t \in {[task[p] EXCEPT !.at = "rename"], [task[p] EXCEPT !.at = "unlink"],
                               [task[p] EXCEPT !.at = "confirm"], [task[p] EXCEPT !.at = "moved"],
                               [task[p] EXCEPT !.at = "failed", !.code = "error"]}
                      \/ \E content : t = Failed(p, content)
      BY <1>5, <2>2 DEF Move, MoveHash, MoveRename, MoveCopy, MoveUnlink, MoveConfirm, MoveFault
    <3>2. t.at # "idle"
      BY <1>1, <3>1 DEF Tasks, Failed
    <3>3. task'[p] = t
      BY <1>1, <3>1 DEF Become
    <3>. QED BY <3>2, <3>3
  <2>. QED BY <2>1, <2>2
<1>6. ASSUME NEW q \in Paths, AgentStep(q) PROVE degraded'
  <2>1. \E t : Become(q, t)
    <3>1. CASE Move(q)
      BY <1>5, <3>1 DEF Actors
    <3>2. CASE \/ Recheck(q) \/ RecheckFault(q) \/ Stage(q) \/ StageFault(q) \/ StageFailed(q)
              \/ Scan(q) \/ Verify(q) \/ Release(q) \/ Released(q) \/ ReleaseFailed(q)
      BY <3>2 DEF Recheck, RecheckFault, Stage, StageFault, StageFailed, Scan, Verify, Release,
                  Released, ReleaseFailed, End
    <3>3. CASE \/ QuarantineRefused(q) \/ QuarantineFailed(q) \/ Incident(q)
              \/ QuarantineBegin(q) \/ QuarantineRecord(q)
      BY <3>3 DEF QuarantineRefused, QuarantineFailed, Incident, QuarantineBegin,
                  QuarantineRecord, End
    <3>. QED BY <1>6, <3>1, <3>2, <3>3 DEF AgentStep
  <2>2. q = p
    BY <1>4, <2>1 DEF Actors
  <2>3. ~Move(p)
    BY <1>1, <1>5
  <2>4. CASE QuarantineRefused(p)
    BY <2>4 DEF QuarantineRefused
  <2>5. CASE ReleaseFailed(p)
    <3>1. task'[p].at = "quarantine"
      BY <1>1, <2>5 DEF ReleaseFailed, Become, Tasks
    <3>. QED BY <3>1
  <2>6. CASE QuarantineBegin(p)
    <3>1. task'[p].at = "hash"
      BY <1>1, <2>6 DEF QuarantineBegin, Become, Moving, Tasks
    <3>. QED BY <3>1
  <2>7. CASE \/ Recheck(p) \/ RecheckFault(p) \/ Stage(p) \/ StageFault(p) \/ StageFailed(p)
            \/ Scan(p) \/ Verify(p) \/ Release(p) \/ Released(p)
            \/ QuarantineFailed(p) \/ Incident(p) \/ QuarantineRecord(p)
    BY <1>1, <2>7 DEF Recheck, RecheckFault, Stage, StageFault, StageFailed, Scan, Verify, Release,
                      Released, QuarantineFailed, Incident, QuarantineRecord, Unconfirmed, MovePoints
  <2>. QED BY <1>6, <2>2, <2>3, <2>4, <2>5, <2>6, <2>7 DEF AgentStep
<1>7. ASSUME NEW r \in Restorers, Restore(r) PROVE FALSE
  <2>1. r \in Actors /\ r # p
    BY StoreAssumption DEF Actors
  <2>2. \E t : Become(r, t)
    BY <1>5, <1>7, <2>1 DEF Restore, RestoreBegin, RestoreRecord, RestoreFailed
  <2>. QED BY <1>4, <2>1, <2>2
<1>8. ASSUME NEW i \in Installers, InstallBegin(i) \/ InstallStep(i) PROVE FALSE
  <2>1. i \in Actors /\ i # p
    BY StoreAssumption DEF Actors
  <2>2. \E t : Become(i, t)
    BY <1>5, <1>8, <2>1
    DEF InstallBegin, InstallStep, InstallScan, InstallVerify, InstallAccess, InstallEnd,
        InstallQuarantineFailed, InstallFault, QuarantineBegin, QuarantineRecord
  <2>. QED BY <1>4, <2>1, <2>2
<1>. QED BY <1>2, <1>3, <1>6, <1>7, <1>8
         DEF Next, Agent, RestoreCall, InstallCall, IsTrustedPath, Reconciled, Write, Damage, storeVars

(* Only what the scanner judged SAFE goes back into the game by the agent  *)
(* or a managed install, but for a private copy that another program       *)
(* changes between the hash and the rename of its move; such bytes are not *)
(* confirmed, not trusted, and the agent's health is degraded when its task*)
(* ends (movePreservingIdentity, processPath).                             *)
THEOREM OnlyJudgedSafeReleased == Spec => OnlyJudgedSafe
<1>. DEFINE Judicious ==
       /\ \A a \in Actors : task[a].goal = "release" =>
            LET l == Tree(task[a].path) IN
            /\ (MoveRename(a) \/ MoveCopy(a)) /\ fs'[l] # fs[l] =>
                  fs'[l] \in Benign \/ fs[Private(a)] = Corrupt
            /\ MoveConfirm(a) /\ task'[a].at = "moved" => fs[l] \in Benign
       /\ \A p \in Paths :
            /\ trusted'[p] \in Benign \cup {None}
            /\ Unconfirmed(task[p]) /\ task'[p].at = "idle" => degraded' \/ Restart
<1>1. GuardInv /\ GuardInv' /\ Next => Judicious
  BY ReleasePutsJudged, ConfirmedIsJudged, UnconfirmedDegrades DEF GuardInv
<1>2. GuardInv /\ GuardInv' /\ [Next]_vars => [Judicious]_vars
  BY <1>1
<1>. QED BY <1>2, GuardInvariant, PTL DEF Spec, OnlyJudgedSafe

------------------------------------------------------------------------------
(* Held files are not forgotten silently.                                  *)

(* A step that leaves a held file without a task says so.                  *)
Reports == \A i \in Ids : Stranded(i)' /\ ~Stranded(i) => degraded'

(* A step of one actor fills no private copy but the one its own task goes *)
(* on with, and lets go of none that is still there unless health says so. *)
LEMMA HoldStep ==
    ASSUME GuardInv, HoldsInv, NEW a \in Actors, NEW t, Become(a, t),
           issued' \in {issued, issued + 1},
           \A i \in Ids : fs[Held(i)] = None /\ fs'[Held(i)] # None =>
               a \in Paths /\ Holding(task[a]) /\ i = task[a].id /\ t.id = i,
           a \in Paths => Accounted(t)',
           a \in Paths /\ t.id # task[a].id /\ task[a].id \in Ids =>
               degraded' \/ fs'[Held(task[a].id)] = None
    PROVE  HoldsInv' /\ Reports
<1>1. /\ issued \in Nat /\ issued' \in Nat /\ issued' >= issued
      /\ \A b \in Actors : task'[b] = IF b = a THEN t ELSE task[b]
      /\ Paths \subseteq Actors
  BY ConstantFacts DEF GuardInv, TypeOK, Become, Actors
<1>2. \A b \in Paths : Holding(task[b]) => task[b].id \in Ids /\ task[b].id <= issued
  BY <1>1, ConstantFacts DEF GuardInv, TypeOK, Shaped, Ids
<1>3. \A i \in Ids : i > issued => fs'[Held(i)] = None
  BY <1>1, <1>2 DEF HoldsInv, Ids
<1>4. ASSUME NEW b \in Paths PROVE Accounted(task[b])'
  <2>1. CASE b = a
    BY <1>1, <2>1 DEF Accounted, CopyGone, Holding
  <2>2. CASE b # a
    <3>1. task'[b] = task[b] /\ Accounted(task[b])
      BY <1>1, <2>2 DEF HoldsInv
    <3>2. CopyGone(task[b]) => Holding(task[b])
      BY DEF CopyGone, Holding
    <3>3. CopyGone(task[b]) => fs'[Held(task[b].id)] = None
      BY <1>1, <1>2, <2>2, <3>1, <3>2 DEF Accounted, GuardInv, PrivateCopies
    <3>. QED BY <3>1, <3>3 DEF Accounted, CopyGone, Holding
  <2>. QED BY <2>1, <2>2
<1>5. HoldsInv'
  BY <1>1, <1>3, <1>4 DEF HoldsInv, Ids
<1>6. ASSUME NEW i \in Ids, Stranded(i)', ~Stranded(i) PROVE degraded'
  <2>1. i <= issued' /\ fs'[Held(i)] # None /\ \A p \in Paths : task'[p].id # i
    BY <1>6 DEF Stranded
  <2>2. fs[Held(i)] # None
    BY <1>1, <2>1
  <2>3. i <= issued
    BY <1>1, <1>3, <2>1 DEF Ids
  <2>4. PICK p \in Paths : task[p].id = i
    BY <1>6, <2>2, <2>3 DEF Stranded
  <2>. QED BY <1>1, <2>1, <2>4
<1>. QED BY <1>5, <1>6 DEF Reports

(* A task that is no watched path's, and moves nothing into the holds.     *)
LEMMA HoldElsewhere ==
    ASSUME GuardInv, HoldsInv, NEW a \in Restorers \cup Installers, NEW t, Become(a, t),
           issued' \in {issued, issued + 1},
           \A i \in Ids : fs[Held(i)] = None => fs'[Held(i)] = None
    PROVE  HoldsInv' /\ Reports
<1>1. a \in Actors /\ a \notin Paths
  BY StoreAssumption DEF Actors
<1>. QED BY <1>1, HoldStep

(* A step of a path's task that moves no file.                             *)
LEMMA HoldQuiet ==
    ASSUME GuardInv, HoldsInv, NEW p \in Paths, NEW t, Become(p, t),
           UNCHANGED <<fs, issued>>, Accounted(t), t.id = task[p].id
    PROVE  HoldsInv' /\ Reports
<1>1. p \in Actors /\ issued' \in {issued, issued + 1}
  BY DEF Actors
<1>2. Accounted(t)'
  BY DEF Accounted, CopyGone, Holding
<1>. QED BY <1>1, <1>2, HoldStep

LEMMA HoldEnd ==
    ASSUME GuardInv, HoldsInv, NEW p \in Paths, Become(p, Idle), UNCHANGED <<fs, issued>>,
           ~Holding(task[p]) \/ degraded' \/ CopyGone(task[p])
    PROVE  HoldsInv' /\ Reports
<1>1. p \in Actors /\ issued' \in {issued, issued + 1}
  BY DEF Actors
<1>2. Accounted(Idle)'
  BY DEF Accounted, CopyGone, Holding, Idle
<1>3. Accounted(task[p]) /\ 0 \notin Ids
  BY DEF HoldsInv, Ids
<1>4. Idle.id # task[p].id /\ task[p].id \in Ids => degraded' \/ fs'[Held(task[p].id)] = None
  BY <1>3 DEF Accounted
<1>. QED BY <1>1, <1>2, <1>4, HoldStep

(* The moves of one volume.                                                *)
LEMMA HoldMove ==
    ASSUME RemotePaths = {}, GuardInv, HoldsInv, NEW a \in Actors, Move(a),
           UNCHANGED issued
    PROVE  HoldsInv' /\ Reports
<1>0. /\ task[a] \in Tasks /\ Shaped(a, task[a]) /\ issued \in 0 .. MaxIds
      /\ fs \in [Locations -> Identities \cup {None}]
      /\ task[a].at \in MovePoints
      /\ issued' \in {issued, issued + 1}
      /\ \A i \in Ids : Held(i) \in Locations
  BY LocationFacts DEF GuardInv, TypeOK, Move, MoveHash, MoveRename, MoveCopy, MoveUnlink,
     MoveConfirm, MoveFault, MovePoints
<1>1. ~CrossVolume(a)
  BY DEF CrossVolume
<1>2. /\ Holding(task[a]) /\ task[a].id \in Ids /\ task[a].path \in Paths
      /\ Src(a) \in Locations /\ Dst(a) \in Locations
  BY <1>0, MoveLocations, ConstantFacts DEF Shaped, Holding, MovePoints, Ids
<1>3. \A x : Failed(a, x).at = "failed" /\ Failed(a, x).id = task[a].id
             /\ Failed(a, x).goal = task[a].goal
             /\ Failed(a, x).code = IF x = None THEN "ENOENT" ELSE "error"
  BY <1>0 DEF Failed, Tasks
<1>4. CASE a \notin Paths
  <2>1. a \in Restorers \cup Installers
    BY <1>4 DEF Actors
  <2>2. PICK t : Become(a, t)
    BY DEF Move, MoveHash, MoveRename, MoveCopy, MoveUnlink, MoveConfirm, MoveFault
  <2>3. \A i \in Ids : Held(i) # Dst(a)
    <3>1. task[a].goal # "stage"
      BY <1>0, <1>2, <2>1 DEF Shaped, Holding
    <3>. QED BY <3>1, LocationFacts DEF Dst
  <2>4. \A i \in Ids : fs[Held(i)] = None => fs'[Held(i)] = None
    BY <1>0, <1>2, <2>3 DEF Move, MoveHash, MoveRename, MoveCopy, MoveUnlink, MoveConfirm, MoveFault
  <2>. QED BY <1>0, <2>1, <2>2, <2>4, HoldElsewhere
<1>5. CASE a \in Paths
  <2>0. /\ Accounted(task[a]) /\ Private(a) = Held(task[a].id)
        /\ task[a].goal # "restore" /\ a \notin Restorers
    BY <1>0, <1>5, StoreAssumption DEF HoldsInv, Private, PrivateCopy, Shaped
  <2>1. CASE MoveHash(a)
    <3>1. PICK t : t = [task[a] EXCEPT !.at = "rename"]
      OBVIOUS
    <3>2. t.at = "rename" /\ t.id = task[a].id /\ t.goal = task[a].goal
      BY <1>0, <3>1 DEF Tasks
    <3>3. task[a].at = "hash" /\ UNCHANGED <<fs, issued>>
      BY <2>1 DEF MoveHash
    <3>4. CASE Become(a, t)
      <4>1. Accounted(t)
        BY <2>0, <3>2, <3>3 DEF Accounted, CopyGone, Holding
      <4>. QED BY <1>5, <3>2, <3>3, <3>4, <4>1, HoldQuiet
    <3>5. CASE Become(a, Failed(a, fs[Src(a)]))
      <4>1. PICK u : u = Failed(a, fs[Src(a)])
        OBVIOUS
      <4>2. u.at = "failed" /\ u.id = task[a].id /\ u.goal = task[a].goal
        BY <1>3, <4>1
      <4>3. Accounted(u)
        BY <2>0, <3>3, <4>2 DEF Accounted, CopyGone, Holding
      <4>. QED BY <1>5, <3>3, <3>5, <4>1, <4>2, <4>3, HoldQuiet
    <3>. QED BY <2>1, <3>1, <3>4, <3>5 DEF MoveHash
  <2>2. CASE MoveRename(a)
    <3>1. task[a].at = "rename"
      BY <2>2 DEF MoveRename
    <3>2. CASE Become(a, Failed(a, None)) /\ UNCHANGED fs
      <4>1. PICK u : u = Failed(a, None)
        OBVIOUS
      <4>2. u.at = "failed" /\ u.id = task[a].id /\ u.goal = task[a].goal
        BY <1>3, <4>1
      <4>3. Accounted(u)
        BY <2>0, <3>1, <4>2 DEF Accounted, CopyGone, Holding
      <4>. QED BY <1>5, <3>2, <4>1, <4>2, <4>3, HoldQuiet
    <3>3. CASE /\ fs' = [fs EXCEPT ![Src(a)] = None, ![Dst(a)] = fs[Src(a)]]
               /\ Become(a, [task[a] EXCEPT !.at = "confirm"])
      <4>1. PICK t : t = [task[a] EXCEPT !.at = "confirm"]
        OBVIOUS
      <4>2. t.at = "confirm" /\ t.id = task[a].id /\ t.goal = task[a].goal
        BY <1>0, <4>1 DEF Tasks
      <4>3. \A l \in Locations : fs'[l] = IF l = Dst(a) THEN fs[Src(a)]
                                          ELSE IF l = Src(a) THEN None ELSE fs[l]
        BY <1>0, <1>2, <3>3
      <4>4. task[a].goal = "stage" => Dst(a) = Held(task[a].id)
        BY <2>0 DEF Dst
      <4>5. task[a].goal # "stage" => /\ Src(a) = Held(task[a].id)
                                      /\ \A i \in Ids : Held(i) # Dst(a)
        BY <2>0, LocationFacts DEF Src, Dst
      <4>6. \A i \in Ids : fs[Held(i)] = None /\ fs'[Held(i)] # None => i = task[a].id
        BY <1>0, <1>2, <4>3, <4>4, <4>5, LocationFacts
      <4>7. task[a].goal # "stage" => fs'[Held(task[a].id)] = None
        BY <1>0, <1>2, <4>3, <4>5
      <4>8. Accounted(t)'
        BY <4>2, <4>7 DEF Accounted, CopyGone, Holding
      <4>9. Become(a, t)
        BY <3>3, <4>1
      <4>10. \A i \in Ids : fs[Held(i)] = None /\ fs'[Held(i)] # None =>
                 a \in Paths /\ Holding(task[a]) /\ i = task[a].id /\ t.id = i
        BY <1>2, <1>5, <4>2, <4>6
      <4>. QED BY <1>0, <1>5, <4>2, <4>8, <4>9, <4>10, HoldStep
    <3>. QED BY <2>2, <3>2, <3>3 DEF MoveRename
  <2>3. CASE MoveConfirm(a)
    <3>1. task[a].at = "confirm" /\ UNCHANGED <<fs, issued>>
      BY <2>3 DEF MoveConfirm
    <3>2. CASE Become(a, [task[a] EXCEPT !.at = "moved"])
      <4>1. PICK t : t = [task[a] EXCEPT !.at = "moved"]
        OBVIOUS
      <4>2. t.at = "moved" /\ t.id = task[a].id /\ t.goal = task[a].goal
        BY <1>0, <4>1 DEF Tasks
      <4>3. Accounted(t)
        BY <2>0, <3>1, <4>2 DEF Accounted, CopyGone, Holding
      <4>. QED BY <1>5, <3>1, <3>2, <4>1, <4>2, <4>3, HoldQuiet
    <3>3. CASE Become(a, Failed(a, fs[Dst(a)]))
      <4>1. PICK u : u = Failed(a, fs[Dst(a)])
        OBVIOUS
      <4>2. /\ u.at = "failed" /\ u.id = task[a].id /\ u.goal = task[a].goal
            /\ u.code = "ENOENT" => fs[Dst(a)] = None
        BY <1>3, <4>1
      <4>3. task[a].goal = "stage" => Dst(a) = Held(task[a].id)
        BY <2>0 DEF Dst
      <4>4. Accounted(u)
        BY <2>0, <3>1, <4>2, <4>3 DEF Accounted, CopyGone, Holding
      <4>. QED BY <1>5, <3>1, <3>3, <4>1, <4>2, <4>4, HoldQuiet
    <3>. QED BY <2>3, <3>2, <3>3 DEF MoveConfirm
  <2>4. CASE MoveFault(a)
    <3>1. PICK t : t = [task[a] EXCEPT !.at = "failed", !.code = "error"]
      OBVIOUS
    <3>2. t.at = "failed" /\ t.code = "error" /\ t.id = task[a].id
      BY <1>0, <3>1 DEF Tasks
    <3>3. Accounted(t)
      BY <2>0, <3>2 DEF Accounted, CopyGone, Holding
    <3>4. Become(a, t) /\ UNCHANGED <<fs, issued>>
      BY <2>4, <3>1 DEF MoveFault
    <3>. QED BY <1>5, <3>2, <3>3, <3>4, HoldQuiet
  <2>5. ~MoveCopy(a) /\ ~MoveUnlink(a)
    BY <1>1, <2>0 DEF MoveCopy, MoveUnlink, Accounted
  <2>. QED BY <2>1, <2>2, <2>3, <2>4, <2>5 DEF Move
<1>. QED BY <1>4, <1>5

LEMMA HoldAgent ==
    ASSUME RemotePaths = {}, GuardInv, HoldsInv, NEW p \in Paths, Agent(p)
    PROVE  HoldsInv' /\ Reports
<1>0. /\ p \in Actors /\ task[p] \in Tasks /\ Accounted(task[p])
      /\ issued \in 0 .. MaxIds /\ issued \in Nat
      /\ task \in [Actors -> Tasks]
  BY ConstantFacts DEF Actors, GuardInv, TypeOK, HoldsInv
<1>1. CASE Notify(p)
  <2>1. UNCHANGED <<fs, issued>>
    BY <1>1 DEF Notify
  <2>2. CASE UNCHANGED task
    <3>1. Become(p, task[p])
      BY <1>0, <2>2 DEF Become
    <3>. QED BY <1>0, <2>1, <3>1, HoldQuiet
  <2>3. CASE task[p].at = "idle" /\
             Become(p, [Idle EXCEPT !.path = p,
                          !.at = IF trusted[p] = None THEN "stage" ELSE "recheck"])
    <3>1. PICK t : t = [Idle EXCEPT !.path = p,
                          !.at = IF trusted[p] = None THEN "stage" ELSE "recheck"]
      OBVIOUS
    <3>2. t.at \in {"stage", "recheck"} /\ t.id = 0 /\ t.goal = "none"
      BY <3>1 DEF Idle
    <3>3. Accounted(t) /\ task[p].id = 0
      BY <1>0, <2>3, <3>2 DEF Accounted, CopyGone, Holding
    <3>. QED BY <2>1, <2>3, <3>1, <3>2, <3>3, HoldQuiet
  <2>. QED BY <1>1, <2>2, <2>3 DEF Notify
<1>2. CASE Recheck(p) \/ RecheckFault(p) \/ StageFault(p)
  <2>1. task[p].at \in {"recheck", "stage"} /\ UNCHANGED <<fs, issued>>
    BY <1>2 DEF Recheck, RecheckFault, StageFault
  <2>2. CASE Become(p, Idle)
    BY <2>1, <2>2, HoldEnd DEF Holding
  <2>3. CASE Become(p, [task[p] EXCEPT !.at = "stage"])
    <3>1. PICK t : t = [task[p] EXCEPT !.at = "stage"]
      OBVIOUS
    <3>2. t.at = "stage" /\ t.id = task[p].id
      BY <1>0, <3>1 DEF Tasks
    <3>3. Accounted(t)
      BY <1>0, <2>1, <3>2 DEF Accounted, CopyGone, Holding
    <3>. QED BY <2>1, <2>3, <3>1, <3>2, <3>3, HoldQuiet
  <2>. QED BY <1>2, <2>2, <2>3 DEF Recheck, RecheckFault, StageFault, End
<1>3. CASE Stage(p)
  <2>1. task[p].at = "stage" /\ UNCHANGED fs /\ task[p].id = 0
    BY <1>0, <1>3 DEF Stage, Accounted, Holding
  <2>2. CASE Become(p, Idle) /\ UNCHANGED issued
    BY <2>1, <2>2, HoldEnd DEF Holding
  <2>3. CASE /\ issued < MaxIds /\ issued' = issued + 1
             /\ Become(p, Moving([task[p] EXCEPT !.id = issued + 1], "stage", fs[Tree(p)]))
    <3>1. PICK t : t = Moving([task[p] EXCEPT !.id = issued + 1], "stage", fs[Tree(p)])
      OBVIOUS
    <3>2. t.at = "hash" /\ t.id = issued + 1
      BY <1>0, <3>1 DEF Moving, Tasks
    <3>3. issued + 1 \in Ids /\ 0 \notin Ids
      BY <1>0, <2>3, ConstantFacts DEF Ids
    <3>4. fs[Held(issued + 1)] = None
      BY <1>0, <3>3 DEF HoldsInv
    <3>5. Accounted(t)'
      BY <2>1, <3>2, <3>4 DEF Accounted, CopyGone, Holding
    <3>. QED BY <1>0, <2>1, <2>3, <3>1, <3>3, <3>5, HoldStep
  <2>. QED BY <1>3, <2>2, <2>3 DEF Stage, End
<1>4. CASE StageFailed(p)
  BY <1>0, <1>4, HoldEnd DEF StageFailed, End, CopyGone
<1>5. CASE Scan(p) \/ Verify(p) \/ Release(p) \/ ReleaseFailed(p)
  <2>1. UNCHANGED <<fs, issued>> /\ Holding(task[p])
    BY <1>5 DEF Scan, Verify, Release, ReleaseFailed, Holding
  <2>2. ASSUME NEW t, Become(p, t), t.id = task[p].id,
               \/ t.at \in {"verify", "release", "quarantine"}
               \/ t.at = "hash" /\ t.goal = "release"
        PROVE  HoldsInv' /\ Reports
    <3>1. Accounted(t)
      BY <1>0, <2>2 DEF Accounted, CopyGone, Holding
    <3>. QED BY <2>1, <2>2, <3>1, HoldQuiet
  <2>3. CASE Scan(p)
    <3>1. PICK v : Become(p, [task[p] EXCEPT !.at = "verify", !.verdict = v])
      BY <2>3 DEF Scan
    <3>2. PICK t : t = [task[p] EXCEPT !.at = "verify", !.verdict = v]
      OBVIOUS
    <3>3. t.at = "verify" /\ t.id = task[p].id
      BY <1>0, <3>2 DEF Tasks
    <3>. QED BY <2>2, <3>1, <3>2, <3>3
  <2>4. CASE Verify(p)
    <3>1. PICK x \in {"release", "quarantine"} :
              Become(p, [task[p] EXCEPT !.verdict = "none", !.at = x])
      BY <2>4 DEF Verify
    <3>2. PICK t : t = [task[p] EXCEPT !.verdict = "none", !.at = x]
      OBVIOUS
    <3>3. t.at = x /\ t.id = task[p].id
      BY <1>0, <3>2 DEF Tasks
    <3>. QED BY <2>2, <3>1, <3>2, <3>3
  <2>5. CASE Release(p)
    <3>1. PICK t : t = Moving(task[p], "release", task[p].ident)
      OBVIOUS
    <3>2. t.at = "hash" /\ t.goal = "release" /\ t.id = task[p].id
      BY <1>0, <3>1 DEF Moving, Tasks
    <3>3. PICK u : u = [task[p] EXCEPT !.at = "quarantine"]
      OBVIOUS
    <3>4. u.at = "quarantine" /\ u.id = task[p].id
      BY <1>0, <3>3 DEF Tasks
    <3>5. Become(p, t) \/ Become(p, u)
      BY <2>5, <3>1, <3>3 DEF Release
    <3>. QED BY <2>2, <3>2, <3>4, <3>5
  <2>6. CASE ReleaseFailed(p)
    <3>1. PICK t : t = [task[p] EXCEPT !.at = "quarantine", !.code = "none"]
      OBVIOUS
    <3>2. t.at = "quarantine" /\ t.id = task[p].id
      BY <1>0, <3>1 DEF Tasks
    <3>. QED BY <2>2, <2>6, <3>1, <3>2 DEF ReleaseFailed
  <2>. QED BY <1>5, <2>3, <2>4, <2>5, <2>6
<1>6. CASE Released(p)
  BY <1>6, HoldEnd DEF Released, End, CopyGone
<1>7. CASE QuarantineRefused(p) \/ QuarantineFailed(p)
  BY <1>7, HoldEnd DEF QuarantineRefused, QuarantineFailed, End
<1>8. CASE Incident(p)
  BY <1>8, HoldEnd DEF Incident, End, CopyGone
<1>9. CASE QuarantineBegin(p)
  <2>1. PICK t : t = Moving(task[p], "quarantine", fs[Private(p)])
    OBVIOUS
  <2>2. t.at = "hash" /\ t.goal = "quarantine" /\ t.id = task[p].id
    BY <1>0, <2>1 DEF Moving, Tasks
  <2>3. Accounted(t)
    BY <1>0, <2>2 DEF Accounted, CopyGone, Holding
  <2>. QED BY <1>9, <2>1, <2>2, <2>3, HoldQuiet DEF QuarantineBegin
<1>10. CASE QuarantineRecord(p)
  <2>0. task[p].at = "moved" /\ task[p].goal = "quarantine" /\ UNCHANGED <<fs, issued>>
    BY <1>10 DEF QuarantineRecord
  <2>1. CASE Become(p, [task[p] EXCEPT !.at = "incident"])
    <3>1. PICK t : t = [task[p] EXCEPT !.at = "incident"]
      OBVIOUS
    <3>2. t.at = "incident" /\ t.id = task[p].id
      BY <1>0, <3>1 DEF Tasks
    <3>3. Accounted(t)
      BY <1>0, <2>0, <3>2 DEF Accounted, CopyGone, Holding
    <3>. QED BY <2>0, <2>1, <3>1, <3>2, <3>3, HoldQuiet
  <2>2. CASE Become(p, [task[p] EXCEPT !.at = "failed", !.code = "error"])
    <3>1. PICK t : t = [task[p] EXCEPT !.at = "failed", !.code = "error"]
      OBVIOUS
    <3>2. t.at = "failed" /\ t.code = "error" /\ t.id = task[p].id
      BY <1>0, <3>1 DEF Tasks
    <3>3. Accounted(t)
      BY <1>0, <3>2 DEF Accounted, CopyGone, Holding
    <3>. QED BY <2>0, <2>2, <3>1, <3>2, <3>3, HoldQuiet
  <2>. QED BY <1>10, <2>1, <2>2 DEF QuarantineRecord
<1>11. CASE Move(p)
  <2>1. UNCHANGED issued
    BY <1>11 DEF Move, MoveHash, MoveRename, MoveCopy, MoveUnlink, MoveConfirm, MoveFault
  <2>. QED BY <1>0, <1>11, <2>1, HoldMove
<1>. QED BY <1>1, <1>2, <1>3, <1>4, <1>5, <1>6, <1>7, <1>8, <1>9, <1>10, <1>11
         DEF Agent, AgentStep

LEMMA HoldCalls ==
    ASSUME RemotePaths = {}, GuardInv, HoldsInv, NEW a \in Restorers \cup Installers,
           RestoreCall(a) \/ InstallCall(a)
    PROVE  HoldsInv' /\ Reports
<1>1. a \in Actors
  BY DEF Actors
<1>2. CASE Move(a)
  <2>1. UNCHANGED issued
    BY <1>2 DEF Move, MoveHash, MoveRename, MoveCopy, MoveUnlink, MoveConfirm, MoveFault
  <2>. QED BY <1>1, <1>2, <2>1, HoldMove
<1>3. CASE InstallBegin(a)
  <2>1. issued' = issued + 1 /\ \E t : Become(a, t)
    BY <1>3 DEF InstallBegin
  <2>2. \A i \in Ids : fs'[Held(i)] = fs[Held(i)]
    BY <1>3, LocationFacts DEF InstallBegin, GuardInv, TypeOK
  <2>. QED BY <2>1, <2>2, HoldElsewhere
<1>4. CASE RestoreBegin(a) \/ RestoreRecord(a) \/ RestoreFailed(a)
  <2>1. UNCHANGED <<fs, issued>> /\ \E t : Become(a, t)
    BY <1>4 DEF RestoreBegin, RestoreRecord, RestoreFailed
  <2>. QED BY <2>1, HoldElsewhere
<1>5. CASE \/ InstallScan(a) \/ InstallVerify(a) \/ InstallAccess(a) \/ InstallEnd(a)
           \/ InstallQuarantineFailed(a) \/ InstallFault(a)
           \/ QuarantineBegin(a) \/ QuarantineRecord(a)
  <2>1. UNCHANGED <<fs, issued>> /\ \E t : Become(a, t)
    BY <1>5 DEF InstallScan, InstallVerify, InstallAccess, InstallEnd,
       InstallQuarantineFailed, InstallFault, QuarantineBegin, QuarantineRecord
  <2>. QED BY <2>1, HoldElsewhere
<1>. QED BY <1>2, <1>3, <1>4, <1>5 DEF RestoreCall, Restore, InstallCall, InstallStep

LEMMA HoldEnvironment ==
    ASSUME GuardInv, HoldsInv,
           (\E p \in Paths : Write(p)) \/ (\E l \in Locations : Damage(l))
           \/ Reconciled \/ (\E p \in Paths : IsTrustedPath(p)) \/ UNCHANGED vars
    PROVE  HoldsInv' /\ Reports
<1>1. ASSUME UNCHANGED <<issued, task>>,
             \A i \in Ids : fs'[Held(i)] = None <=> fs[Held(i)] = None
      PROVE  HoldsInv' /\ Reports
  <2>1. \A p \in Paths : CopyGone(task[p]) => task[p].id \in Ids
    <3>1. SUFFICES ASSUME NEW p \in Paths, CopyGone(task[p]) PROVE task[p].id \in Ids
      OBVIOUS
    <3>2. Holding(task[p]) /\ Shaped(p, task[p]) /\ issued \in 0 .. MaxIds
      BY <3>1 DEF CopyGone, Holding, GuardInv, TypeOK, Actors
    <3>. QED BY <3>2, ConstantFacts DEF Shaped, Ids
  <2>2. HoldsInv'
    BY <1>1, <2>1 DEF HoldsInv, Accounted, CopyGone, Holding
  <2>3. Reports
    BY <1>1 DEF Reports, Stranded
  <2>. QED BY <2>2, <2>3
<1>2. CASE \E p \in Paths : Write(p)
  <2>1. PICK p \in Paths : Write(p)
    BY <1>2
  <2>2. \A i \in Ids : fs'[Held(i)] = fs[Held(i)]
    BY <2>1, LocationFacts DEF Write, GuardInv, TypeOK
  <2>. QED BY <1>1, <2>1, <2>2 DEF Write
<1>3. CASE \E l \in Locations : Damage(l)
  <2>1. PICK l \in Locations : Damage(l)
    BY <1>3
  <2>2. \A i \in Ids : fs'[Held(i)] = None <=> fs[Held(i)] = None
    <3>1. Corrupt # None
      BY ConstantFacts
    <3>. QED BY <2>1, <3>1, LocationFacts DEF Damage, GuardInv, TypeOK
  <2>. QED BY <1>1, <2>1, <2>2 DEF Damage
<1>4. CASE Reconciled \/ (\E p \in Paths : IsTrustedPath(p)) \/ UNCHANGED vars
  BY <1>1, <1>4 DEF Reconciled, IsTrustedPath, vars, storeVars
<1>. QED BY <1>2, <1>3, <1>4

LEMMA HoldRestart == ASSUME GuardInv, HoldsInv, Restart PROVE HoldsInv'
<1>1. Accounted(Idle)'
  BY DEF Accounted, CopyGone, Holding, Idle
<1>2. \A p \in Paths : task'[p] = Idle
  BY DEF Restart, Actors
<1>3. \A p \in Paths : Accounted(task[p])'
  BY <1>1, <1>2 DEF Accounted, CopyGone, Holding
<1>. QED BY <1>3 DEF HoldsInv, Restart

LEMMA InitHolds == Init => HoldsInv
<1>. SUFFICES ASSUME Init PROVE HoldsInv
  OBVIOUS
<1>1. \A i \in Ids : fs[Held(i)] = None
  BY LocationFacts DEF Init, StoreInit, Held
<1>2. \A p \in Paths : task[p] = Idle
  BY DEF Init, StoreInit, Actors
<1>. QED BY <1>1, <1>2 DEF HoldsInv, Accounted, CopyGone, Holding, Idle

LEMMA NextHolds ==
    ASSUME RemotePaths = {}
    PROVE  GuardInv /\ HoldsInv /\ [Next]_vars => HoldsInv' /\ (Reports \/ Restart)
<1>1. SUFFICES ASSUME GuardInv, HoldsInv, [Next]_vars PROVE HoldsInv' /\ (Reports \/ Restart)
  OBVIOUS
<1>. QED BY <1>1, HoldAgent, HoldCalls, HoldEnvironment, HoldRestart DEF Next

(* When the game and the guard's stores are on one volume: the held copy   *)
(* is not there before its move out of the tree, nor after one out of the  *)
(* hold store, nor when a failure passes for a disappeared file.           *)
THEOREM HeldInvariant == ASSUME RemotePaths = {} PROVE Spec => []HeldInv
<1>1. GuardInv /\ HoldsInv /\ [Next]_vars => HoldsInv'
  BY NextHolds
<1>. QED BY <1>1, GuardInvariant, GuardTypes, InitHolds, PTL DEF Spec, HeldInv

(* When the game and the guard's stores are on one volume, the step that   *)
(* leaves a file in the hold store with no task working on it degrades the *)
(* guard's health, unless it is the kill of the process (the catch blocks  *)
(* of _processPathOnce).                                                   *)
THEOREM StrandingIsReported == ASSUME RemotePaths = {} PROVE Spec => StrandingReported
<1>1. GuardInv /\ HoldsInv /\ [Next]_vars =>
          HoldsInv' /\ [\A i \in Ids : Stranded(i)' /\ ~Stranded(i) => degraded' \/ Restart]_vars
  BY NextHolds DEF Reports
<1>. QED BY <1>1, GuardInvariant, InitHolds, PTL DEF Spec, StrandingReported
=============================================================================
