--------------------- MODULE DesktopGuardContractProofs ---------------------
(***************************************************************************)
(* For all paths, volumes, callers, contents and bounds: the desktop guard *)
(* implements its contract.  Every step of DesktopGuard is a step of       *)
(* GuardContract or leaves the abstract state alone.                       *)
(***************************************************************************)
EXTENDS DesktopGuardContract, DesktopGuardProofs

HolderVars == <<custodyCopy, custodyStage, custodyFile>>

(* What a task shows of itself, at each kind of point.                     *)
LEMMA IdleIsFree ==
    StageOf(Idle) = "free" /\ CopyOf(Idle) = None /\ FileOf(Idle) = None
BY DEF Idle, StageOf, CopyOf, FileOf

LEMMA HolderFacts ==
    ASSUME GuardInv, NEW a \in Holders
    PROVE  /\ a \in Actors /\ a \notin Restorers
           /\ task[a] \in Tasks /\ Shaped(a, task[a]) /\ Judged(task[a])
           /\ custodyCopy[a] = CopyOf(task[a])
           /\ custodyStage[a] = StageOf(task[a])
           /\ custodyFile[a] = FileOf(task[a])
           /\ issued \in 0 .. MaxIds
           /\ Holding(task[a]) => task[a].id \in 1 .. issued /\ task[a].id \in Ids
<1>1. a \in Actors /\ a \notin Restorers
  BY StoreAssumption DEF Holders, Actors
<1>2. task[a] \in Tasks /\ Shaped(a, task[a]) /\ Judged(task[a]) /\ issued \in 0 .. MaxIds
  BY <1>1 DEF GuardInv, TypeOK
<1>3. Holding(task[a]) => task[a].id \in 1 .. issued /\ task[a].id \in Ids
  BY <1>2, ConstantFacts DEF Shaped, Ids
<1>. QED BY <1>1, <1>2, <1>3 DEF custodyCopy, custodyStage, custodyFile

(* The abstract custody follows the task.                                  *)
LEMMA CustodyFollows ==
    ASSUME GuardInv, NEW a \in Holders, NEW t, Become(a, t)
    PROVE  Contract!Custody(a, CopyOf(t), StageOf(t), FileOf(t))
<1>1. a \in Actors /\ Holders \subseteq Actors
  BY DEF Holders, Actors
<1>2. \A b \in Actors : task'[b] = IF b = a THEN t ELSE task[b]
  BY <1>1 DEF Become, GuardInv, TypeOK
<1>3. custodyCopy' = [custodyCopy EXCEPT ![a] = CopyOf(t)]
  BY <1>1, <1>2 DEF custodyCopy
<1>4. custodyStage' = [custodyStage EXCEPT ![a] = StageOf(t)]
  BY <1>1, <1>2 DEF custodyStage
<1>5. custodyFile' = [custodyFile EXCEPT ![a] = FileOf(t)]
  BY <1>1, <1>2 DEF custodyFile
<1>. QED BY <1>3, <1>4, <1>5 DEF Contract!Custody

LEMMA CustodySame ==
    ASSUME GuardInv, NEW a \in Holders, NEW t, Become(a, t),
           CopyOf(t) = CopyOf(task[a]), StageOf(t) = StageOf(task[a]), FileOf(t) = FileOf(task[a])
    PROVE  UNCHANGED HolderVars
<1>1. Contract!Custody(a, CopyOf(t), StageOf(t), FileOf(t))
  BY CustodyFollows
<1>2. /\ custodyCopy[a] = CopyOf(t) /\ custodyStage[a] = StageOf(t)
      /\ custodyFile[a] = FileOf(t)
  BY HolderFacts
<1>. QED BY <1>1, <1>2 DEF Contract!Custody, HolderVars, custodyCopy, custodyStage, custodyFile

(* What restore calls do is not custody.                                   *)
LEMMA CustodyElsewhere ==
    ASSUME GuardInv, NEW r \in Restorers, NEW t, Become(r, t)
    PROVE  UNCHANGED HolderVars
<1>1. r \notin Holders /\ Holders \subseteq Actors
  BY StoreAssumption DEF Holders, Actors
<1>2. \A b \in Holders : task'[b] = task[b]
  BY <1>1 DEF Become, GuardInv, TypeOK
<1>. QED BY <1>2 DEF HolderVars, custodyCopy, custodyStage, custodyFile

LEMMA EntryFollows ==
    ASSUME GuardInv, NEW i \in Ids, NEW m, manifest' = [manifest EXCEPT ![i] = m]
    PROVE  /\ entries' = [entries EXCEPT ![i] = EntryOf(m)]
           /\ EntryOf(m) = EntryOf(manifest[i]) => UNCHANGED entries
<1>1. \A j \in Ids : manifest'[j] = IF j = i THEN m ELSE manifest[j]
  BY DEF GuardInv, TypeOK
<1>2. entries' = [j \in Ids |-> EntryOf(manifest'[j])]
  BY DEF entries, EntryOf
<1>3. \A j \in Ids : EntryOf(manifest'[j]) = IF j = i THEN EntryOf(m) ELSE EntryOf(manifest[j])
  BY <1>1
<1>4. entries' = [entries EXCEPT ![i] = EntryOf(m)]
  BY <1>2, <1>3, Zenon DEF entries
<1>5. ASSUME EntryOf(m) = EntryOf(manifest[i]) PROVE UNCHANGED entries
  BY <1>2, <1>3, <1>5 DEF entries
<1>. QED BY <1>4, <1>5

LEMMA EntriesKept == UNCHANGED manifest => UNCHANGED entries
BY DEF entries, EntryOf

------------------------------------------------------------------------------
(* CustodyInv is kept.                                                     *)

(* A step of a watched path or an install: it may write the manifest of    *)
(* its own copy, never one that is quarantined already.                    *)
LEMMA HolderKeeps ==
    ASSUME GuardInv, CustodyInv, NEW a \in Holders, NEW t, Become(a, t),
           issued' \in {issued, issued + 1},
           \A i \in Ids : manifest'[i] # manifest[i] =>
               /\ Holding(task[a]) /\ i = task[a].id
               /\ ~State(i, {"quarantined", "restored"}),
           Recorded(t)',
           a \in Paths /\ t.at \notin {"idle", "recheck"} => trusted'[a] = None,
           \A p \in Paths : p # a => trusted'[p] \in {trusted[p], None}
    PROVE  CustodyInv'
<1>1. task' = [task EXCEPT ![a] = t] /\ a \in Actors /\ a \notin Restorers
  BY HolderFacts DEF Become
<1>2. /\ \A b \in Actors : task'[b] = IF b = a THEN t ELSE task[b]
      /\ Paths \subseteq Actors /\ Holders \subseteq Actors /\ Restorers \subseteq Actors
  BY <1>1 DEF GuardInv, TypeOK, Actors, Holders
<1>3. issued \in Nat /\ issued \in 0 .. MaxIds /\ issued' >= issued
  BY ConstantFacts DEF GuardInv, TypeOK
<1>4. \A i \in Ids : i > issued' => manifest'[i] = None
  <2>1. SUFFICES ASSUME NEW i \in Ids, i > issued' PROVE manifest'[i] = None
    OBVIOUS
  <2>2. i > issued
    BY <1>3, <2>1, ConstantFacts DEF Ids
  <2>3. manifest[i] = None
    BY <2>2 DEF CustodyInv
  <2>4. manifest'[i] = manifest[i]
    BY <1>3, <2>2, HolderFacts DEF Ids
  <2>. QED BY <2>3, <2>4
<1>5. \A p \in Paths : task'[p].at \notin {"idle", "recheck"} => trusted'[p] = None
  BY <1>2 DEF CustodyInv
<1>6. ASSUME NEW b \in Holders, b # a PROVE Recorded(task[b])'
  <2>1. task'[b] = task[b] /\ Recorded(task[b])
    BY <1>2, <1>6 DEF CustodyInv
  <2>2. Holding(task[b]) => task[b].id \in Ids /\ manifest'[task[b].id] = manifest[task[b].id]
    <3>1. SUFFICES ASSUME Holding(task[b])
                   PROVE  task[b].id \in Ids /\ manifest'[task[b].id] = manifest[task[b].id]
      OBVIOUS
    <3>2. task[b].id \in Ids
      BY <3>1, HolderFacts
    <3>3. Holding(task[a]) => task[b].id # task[a].id
      BY <1>6, <3>1 DEF GuardInv, PrivateCopies, Holders
    <3>. QED BY <3>2, <3>3
  <2>3. \A s : Holding(task[b]) => (State(task[b].id, s)' <=> State(task[b].id, s))
    BY <2>1, <2>2 DEF State
  <2>. QED BY <2>1, <2>2, <2>3 DEF Recorded, Holding, MovePoints
<1>7. Recorded(task[a])'
  BY <1>1, <1>2 DEF Recorded, Holding
<1>8. ASSUME NEW r \in Restorers, task'[r].at # "idle"
      PROVE  State(task[r].id, {"quarantined", "restored"})'
  <2>1. task'[r] = task[r] /\ State(task[r].id, {"quarantined", "restored"})
    BY <1>1, <1>2, <1>8 DEF CustodyInv
  <2>2. task[r].id \in Ids
    <3>1. Shaped(r, task[r]) /\ task[r].at # "idle"
      BY <1>2, <1>8, <2>1 DEF GuardInv
    <3>2. Holding(task[r])
      BY <3>1 DEF Shaped, Holding, MovePoints
    <3>. QED BY <1>3, <3>1, <3>2, ConstantFacts DEF Shaped, Ids
  <2>3. manifest'[task[r].id] = manifest[task[r].id]
    BY <2>1, <2>2
  <2>. QED BY <2>1, <2>3 DEF State
<1>. QED BY <1>4, <1>5, <1>6, <1>7, <1>8 DEF CustodyInv

(* A restore call may only write the manifest of a quarantined copy.       *)
LEMMA RestorerKeeps ==
    ASSUME GuardInv, CustodyInv, NEW r \in Restorers, NEW t, Become(r, t),
           UNCHANGED <<issued, trusted>>,
           \A i \in Ids : manifest'[i] # manifest[i] =>
               /\ State(i, {"quarantined", "restored"})
               /\ State(i, {"quarantined", "restored"})',
           t.at # "idle" => t.id \in Ids /\ State(t.id, {"quarantined", "restored"})
    PROVE  CustodyInv'
<1>. DEFINE Vaulted(i) == State(i, {"quarantined", "restored"})
<1>1. r \in Actors /\ r \notin Holders
  BY StoreAssumption DEF Actors, Holders
<1>2. /\ \A b \in Actors : task'[b] = IF b = r THEN t ELSE task[b]
      /\ Holders \subseteq Actors /\ Restorers \subseteq Actors /\ Paths \subseteq Holders
  BY <1>1 DEF GuardInv, TypeOK, Actors, Holders, Become
<1>3. \A i \in Ids : Vaulted(i) => Vaulted(i)'
  BY DEF State
<1>4. \A i \in Ids : i > issued' => manifest'[i] = None
  <2>1. SUFFICES ASSUME NEW i \in Ids, i > issued' PROVE manifest'[i] = None
    OBVIOUS
  <2>2. manifest[i] = None
    BY <2>1 DEF CustodyInv
  <2>. QED BY <2>2 DEF State
<1>5. \A p \in Paths : task'[p].at \notin {"idle", "recheck"} => trusted'[p] = None
  BY <1>1, <1>2 DEF CustodyInv
<1>6. ASSUME NEW b \in Holders PROVE Recorded(task[b])'
  <2>1. task'[b] = task[b] /\ Recorded(task[b])
    BY <1>1, <1>2 DEF CustodyInv
  <2>2. Holding(task[b]) => task[b].id \in Ids
    BY HolderFacts
  <2>3. Holding(task[b]) => (State(task[b].id, {"pending"}) => State(task[b].id, {"pending"})')
    BY <2>1, <2>2 DEF State
  <2>4. Holding(task[b]) => (manifest[task[b].id] = None => manifest'[task[b].id] = None)
    BY <2>1, <2>2 DEF State
  <2>5. Holding(task[b]) => (Vaulted(task[b].id) => Vaulted(task[b].id)')
    BY <1>3, <2>1, <2>2 DEF State
  <2>. QED BY <2>1, <2>3, <2>4, <2>5 DEF Recorded, Holding, MovePoints
<1>7. ASSUME NEW q \in Restorers, task'[q].at # "idle" PROVE Vaulted(task[q].id)'
  <2>1. CASE q = r
    BY <1>1, <1>2, <1>3, <1>7, <2>1 DEF State
  <2>2. CASE q # r
    <3>1. task'[q] = task[q] /\ Vaulted(task[q].id)
      BY <1>2, <1>7, <2>2 DEF CustodyInv
    <3>2. Shaped(q, task[q]) /\ task[q].at # "idle" /\ issued \in 0 .. MaxIds
      BY <1>2, <1>7, <3>1 DEF GuardInv, TypeOK
    <3>3. Holding(task[q])
      BY <3>2 DEF Shaped, Holding, MovePoints
    <3>4. task[q].id \in Ids
      BY <3>2, <3>3, ConstantFacts DEF Shaped, Ids
    <3>. QED BY <1>3, <3>1, <3>4 DEF State
  <2>. QED BY <2>1, <2>2
<1>. QED BY <1>4, <1>5, <1>6, <1>7 DEF CustodyInv

------------------------------------------------------------------------------
(* The abstract steps, from what the concrete step does to the task.       *)

Simulated == Contract!Next \/ UNCHANGED Contract!contractVars
Others == <<incidents, degraded, trusted>>

LEMMA Stutters ==
    ASSUME UNCHANGED HolderVars, UNCHANGED entries, UNCHANGED Others
    PROVE  Simulated
BY DEF Simulated, HolderVars, Others, Contract!contractVars

LEMMA StuttersInPlace ==
    ASSUME GuardInv, NEW a \in Holders, NEW t, Become(a, t),
           CopyOf(t) = CopyOf(task[a]), StageOf(t) = StageOf(task[a]), FileOf(t) = FileOf(task[a]),
           UNCHANGED entries, UNCHANGED Others
    PROVE  Simulated
BY CustodySame, Stutters

(* A free task that stays free.                                            *)
LEMMA StuttersFree ==
    ASSUME GuardInv, NEW a \in Holders, NEW t, Become(a, t),
           StageOf(task[a]) = "free", StageOf(t) = "free",
           UNCHANGED manifest, UNCHANGED Others
    PROVE  Simulated
<1>1. CopyOf(t) = CopyOf(task[a]) /\ FileOf(t) = FileOf(task[a])
  BY DEF CopyOf, FileOf
<1>. QED BY <1>1, StuttersInPlace, EntriesKept

LEMMA Alarms ==
    ASSUME UNCHANGED HolderVars, UNCHANGED entries, UNCHANGED <<incidents, trusted>>,
           degraded' \in BOOLEAN
    PROVE  Simulated
<1>1. Contract!Alarm
  BY DEF Contract!Alarm, HolderVars
<1>. QED BY <1>1 DEF Simulated, Contract!Next

LEMMA Forgets ==
    ASSUME UNCHANGED HolderVars, UNCHANGED entries, UNCHANGED <<incidents, degraded>>,
           NEW p \in Paths, trusted' = [trusted EXCEPT ![p] = None]
    PROVE  Simulated
<1>1. Contract!Forget(p)
  BY DEF Contract!Forget, HolderVars
<1>. QED BY <1>1 DEF Simulated, Contract!Next

LEMMA Takes ==
    ASSUME GuardInv, CustodyInv, NEW a \in Holders, NEW t, Become(a, t),
           StageOf(task[a]) = "free", StageOf(t) = "judging",
           a \in Paths => trusted[a] = None,
           t.id \in Ids, t.ident \in Identities, manifest[t.id] = None,
           \A b \in Holders : b # a /\ Holding(task[b]) => task[b].id # t.id,
           UNCHANGED manifest, UNCHANGED Others
    PROVE  Simulated
<1>1. CopyOf(t) = t.id /\ FileOf(t) = t.ident
  BY DEF CopyOf, FileOf
<1>2. Contract!Custody(a, t.id, "judging", t.ident)
  BY <1>1, CustodyFollows
<1>3. entries[t.id] = "none"
  BY DEF entries, EntryOf
<1>4. ASSUME NEW b \in Holders, custodyStage[b] # "free" PROVE custodyCopy[b] # t.id
  <2>1. b # a /\ StageOf(task[b]) # "free" /\ custodyCopy[b] = task[b].id
    BY <1>4, HolderFacts DEF CopyOf
  <2>2. Recorded(task[b])
    BY DEF CustodyInv
  <2>3. Holding(task[b])
    BY <2>1, <2>2 DEF StageOf, Recorded, Holding
  <2>. QED BY <2>1, <2>3
<1>5. custodyStage[a] = "free"
  BY HolderFacts
<1>6. UNCHANGED entries
  BY EntriesKept
<1>7. Contract!Take(a)
  BY <1>2, <1>3, <1>4, <1>5, <1>6 DEF Contract!Take, Others
<1>. QED BY <1>7 DEF Simulated, Contract!Next

LEMMA Clears ==
    ASSUME GuardInv, NEW a \in Holders, NEW t, Become(a, t),
           StageOf(task[a]) = "judging", StageOf(t) = "cleared",
           t.id = task[a].id, t.ident = task[a].ident, t.ident \in Benign,
           UNCHANGED manifest, UNCHANGED Others
    PROVE  Simulated
<1>1. CopyOf(t) = custodyCopy[a] /\ FileOf(t) = custodyFile[a]
  BY HolderFacts DEF CopyOf, FileOf
<1>2. Contract!Custody(a, custodyCopy[a], "cleared", custodyFile[a])
  BY <1>1, CustodyFollows
<1>3. custodyStage[a] = "judging" /\ custodyFile[a] \in Benign
  BY HolderFacts DEF FileOf
<1>4. Contract!Clear(a)
  BY <1>2, <1>3, EntriesKept DEF Contract!Clear, Others
<1>. QED BY <1>4 DEF Simulated, Contract!Next

LEMMA Condemns ==
    ASSUME GuardInv, NEW a \in Holders, NEW t, Become(a, t),
           StageOf(task[a]) \in {"judging", "cleared"}, StageOf(t) = "condemned",
           t.id = task[a].id,
           UNCHANGED manifest, UNCHANGED Others
    PROVE  Simulated
<1>1. CopyOf(t) = custodyCopy[a] /\ FileOf(t) = None
  BY HolderFacts DEF CopyOf, FileOf
<1>2. Contract!Custody(a, custodyCopy[a], "condemned", None)
  BY <1>1, CustodyFollows
<1>3. custodyStage[a] \in {"judging", "cleared"}
  BY HolderFacts
<1>4. Contract!Condemn(a)
  BY <1>2, <1>3, EntriesKept DEF Contract!Condemn, Others
<1>. QED BY <1>4 DEF Simulated, Contract!Next

(* The end of a task that held nothing, or a refused install.              *)
LEMMA Ends ==
    ASSUME GuardInv, NEW a \in Holders, Become(a, Idle)
    PROVE  /\ Contract!Custody(a, None, "free", None)
           /\ StageOf(task[a]) = "free" => UNCHANGED HolderVars
<1>1. Contract!Custody(a, None, "free", None)
  BY IdleIsFree, CustodyFollows
<1>2. ASSUME StageOf(task[a]) = "free" PROVE UNCHANGED HolderVars
  <2>1. CopyOf(task[a]) = None /\ FileOf(task[a]) = None
    BY <1>2 DEF CopyOf, FileOf
  <2>. QED BY <1>2, <2>1, IdleIsFree, CustodySame
<1>. QED BY <1>1, <1>2

LEMMA Refuses ==
    ASSUME GuardInv, NEW i \in Installers, Become(i, Idle),
           UNCHANGED entries, UNCHANGED Others
    PROVE  Simulated
<1>1. i \in Holders \ Paths
  BY StoreAssumption DEF Holders
<1>2. CASE StageOf(task[i]) = "free"
  BY <1>1, <1>2, Ends, Stutters
<1>3. CASE StageOf(task[i]) # "free"
  <2>1. custodyStage[i] # "free"
    BY <1>1, <1>3, HolderFacts
  <2>2. Contract!Refuse(i)
    BY <1>1, <2>1, Ends DEF Contract!Refuse, Others
  <2>. QED BY <1>1, <2>2 DEF Simulated, Contract!Next
<1>. QED BY <1>2, <1>3

LEMMA GivesUp ==
    ASSUME GuardInv, NEW p \in Paths, Become(p, Idle), StageOf(task[p]) = "condemned",
           degraded' = TRUE, UNCHANGED entries, UNCHANGED <<incidents, trusted>>
    PROVE  Simulated
<1>1. p \in Holders
  BY DEF Holders
<1>2. custodyStage[p] = "condemned"
  BY <1>1, HolderFacts
<1>3. Contract!GiveUp(p)
  BY <1>1, <1>2, Ends DEF Contract!GiveUp
<1>. QED BY <1>1, <1>3 DEF Simulated, Contract!Next

------------------------------------------------------------------------------
(* Steps of the guard: each keeps CustodyInv and is an abstract step.      *)

LEMMA HolderState ==
    ASSUME GuardInv, CustodyInv, NEW a \in Holders
    PROVE  /\ Recorded(task[a])
           /\ a \in Paths /\ task[a].at \notin {"idle", "recheck"} => trusted[a] = None
BY DEF CustodyInv

(* A task that ends, when no manifest is written.                          *)
LEMMA EndKeeps ==
    ASSUME GuardInv, CustodyInv, NEW a \in Holders, Become(a, Idle),
           UNCHANGED <<manifest, issued>>,
           \A p \in Paths : p # a => trusted'[p] \in {trusted[p], None}
    PROVE  CustodyInv'
<1>1. Recorded(Idle)' /\ Idle.at = "idle"
  BY DEF Recorded, Idle, Holding, MovePoints
<1>. QED BY <1>1, HolderKeeps

LEMMA MoveBecomes ==
    ASSUME GuardInv, NEW a \in Actors, Move(a)
    PROVE  /\ task[a].at \in MovePoints /\ UNCHANGED <<manifest, issued, degraded>>
           /\ \E t : /\ Become(a, t)
                     /\ t.id = task[a].id /\ t.goal = task[a].goal
                     /\ t.ident = task[a].ident /\ t.path = task[a].path
                     /\ t.at \in MovePoints \cup {"moved", "failed"}
<1>1. task[a] \in Tasks
  BY DEF GuardInv, TypeOK
<1>2. PICK t : /\ Become(a, t)
               /\ t \in { [task[a] EXCEPT !.at = "rename"], [task[a] EXCEPT !.at = "unlink"],
                          [task[a] EXCEPT !.at = "confirm"], [task[a] EXCEPT !.at = "moved"],
                          [task[a] EXCEPT !.at = "failed", !.code = "error"],
                          Failed(a, None), Failed(a, fs[Src(a)]), Failed(a, fs[Dst(a)]) }
  BY DEF Move, MoveHash, MoveRename, MoveCopy, MoveUnlink, MoveConfirm, MoveFault
<1>3. /\ t.id = task[a].id /\ t.goal = task[a].goal
      /\ t.ident = task[a].ident /\ t.path = task[a].path
      /\ t.at \in MovePoints \cup {"moved", "failed"}
  BY <1>1, <1>2 DEF Tasks, Failed, MovePoints
<1>4. task[a].at \in MovePoints /\ UNCHANGED <<manifest, issued, degraded>>
  BY DEF Move, MoveHash, MoveRename, MoveCopy, MoveUnlink, MoveConfirm, MoveFault, MovePoints
<1>. QED BY <1>2, <1>3, <1>4

(* A confirmed move into the private store takes the file; no other step   *)
(* of a move is one of the contract.                                       *)
LEMMA HolderMove ==
    ASSUME GuardInv, CustodyInv, NEW a \in Holders, Move(a), UNCHANGED agentVars
    PROVE  CustodyInv' /\ Simulated
<1>0. /\ a \in Actors /\ a \notin Restorers /\ Shaped(a, task[a]) /\ task[a] \in Tasks
      /\ Recorded(task[a]) /\ UNCHANGED <<incidents, trusted>>
  BY HolderFacts, HolderState DEF agentVars
<1>1. task[a].at \in MovePoints /\ UNCHANGED <<manifest, issued, degraded>>
  BY <1>0, MoveBecomes
<1>2. PICK t : /\ Become(a, t)
               /\ t.id = task[a].id /\ t.goal = task[a].goal
               /\ t.ident = task[a].ident /\ t.path = task[a].path
               /\ t.at \in MovePoints \cup {"moved", "failed"}
  BY <1>0, MoveBecomes
<1>3. Holding(task[a]) /\ task[a].at \notin {"idle", "recheck"} /\ task[a].id \in Ids
  BY <1>1, HolderFacts DEF Holding, MovePoints
<1>4. task[a].goal \in {"stage", "release", "quarantine"}
  BY <1>0, <1>1 DEF Shaped, Recorded, Tasks, Goals
<1>5. Recorded(t)'
  BY <1>0, <1>1, <1>2, <1>3, <1>4 DEF Recorded, Holding, MovePoints, State
<1>6. CustodyInv'
  BY <1>0, <1>1, <1>2, <1>3, <1>5, HolderKeeps, HolderState
<1>7. CASE task[a].goal # "stage"
  <2>1. StageOf(t) = StageOf(task[a])
    BY <1>1, <1>2, <1>4, <1>7 DEF StageOf, MovePoints
  <2>2. CopyOf(t) = CopyOf(task[a]) /\ FileOf(t) = FileOf(task[a])
    BY <1>2, <2>1 DEF CopyOf, FileOf
  <2>. QED BY <1>0, <1>1, <1>2, <1>6, <2>1, <2>2, StuttersInPlace, EntriesKept DEF Others
<1>8. CASE task[a].goal = "stage"
  <2>1. StageOf(task[a]) = "free" /\ a \in Paths
    BY <1>0, <1>1, <1>8 DEF StageOf, MovePoints, Shaped, Holders
  <2>2. CASE t.at # "moved"
    <3>1. StageOf(t) = "free"
      BY <1>2, <1>8, <2>2 DEF StageOf, MovePoints
    <3>. QED BY <1>0, <1>1, <1>2, <1>6, <2>1, <3>1, StuttersFree DEF Others
  <2>3. CASE t.at = "moved"
    <3>1. StageOf(t) = "judging"
      BY <1>2, <1>8, <2>3 DEF StageOf
    <3>2. t.id \in Ids /\ t.ident \in Identities /\ manifest[t.id] = None
      BY <1>0, <1>1, <1>2, <1>3, <1>8 DEF Shaped, Recorded
    <3>3. trusted[a] = None
      BY <1>3, <2>1, HolderState
    <3>4. \A b \in Holders : b # a /\ Holding(task[b]) => task[b].id # t.id
      BY <1>2, <1>3 DEF GuardInv, PrivateCopies, Holders
    <3>5. Simulated
      BY <1>0, <1>1, <1>2, <2>1, <3>1, <3>2, <3>3, <3>4, Takes DEF Others
    <3>. QED BY <1>6, <3>5
  <2>. QED BY <2>2, <2>3
<1>. QED BY <1>7, <1>8

(* Before the file is held.                                                *)
LEMMA AgentStarts ==
    ASSUME GuardInv, CustodyInv, NEW p \in Paths,
           Notify(p) \/ Recheck(p) \/ Stage(p)
    PROVE  CustodyInv' /\ Simulated
<1>0. /\ p \in Holders /\ Recorded(task[p]) /\ task[p] \in Tasks
      /\ task[p].at \notin {"idle", "recheck"} => trusted[p] = None
      /\ task' = task => UNCHANGED HolderVars
  BY HolderFacts, HolderState DEF Holders, HolderVars, custodyCopy, custodyStage, custodyFile,
     CopyOf, StageOf, FileOf
<1>1. CASE Notify(p)
  <2>1. UNCHANGED <<manifest, issued, degraded, trusted, incidents>>
    BY <1>1 DEF Notify, agentVars
  <2>2. CASE task' = task
    <3>1. CustodyInv'
      BY <2>1, <2>2 DEF CustodyInv, Recorded, State
    <3>. QED BY <1>0, <2>1, <2>2, <3>1, Stutters, EntriesKept DEF Others
  <2>3. CASE task' # task
    <3>1. PICK x \in {"stage", "recheck"} :
              /\ Become(p, [Idle EXCEPT !.path = p, !.at = x])
              /\ x = "stage" => trusted[p] = None
              /\ task[p].at = "idle"
      BY <1>1, <2>3 DEF Notify
    <3>. DEFINE t == [Idle EXCEPT !.path = p, !.at = x]
    <3>2. t.at = x /\ t.goal = "none" /\ Become(p, t)
      BY <3>1 DEF Idle
    <3>. HIDE DEF t
    <3>3. Recorded(t)' /\ StageOf(t) = "free" /\ StageOf(task[p]) = "free"
      BY <1>0, <3>1, <3>2 DEF Recorded, StageOf, Holding, MovePoints
    <3>4. CustodyInv'
      BY <1>0, <2>1, <3>1, <3>2, <3>3, HolderKeeps
    <3>. QED BY <1>0, <2>1, <3>2, <3>3, <3>4, StuttersFree DEF Others
  <2>. QED BY <2>2, <2>3
<1>2. CASE Recheck(p)
  <2>1. /\ UNCHANGED <<manifest, issued, degraded, incidents>>
        /\ \A q \in Paths : trusted'[q] \in {trusted[q], None}
        /\ UNCHANGED trusted \/ trusted' = [trusted EXCEPT ![p] = None]
    BY <1>2 DEF Recheck, GuardInv, TypeOK
  <2>2. PICK t : /\ Become(p, t)
                 /\ \/ t = Idle /\ UNCHANGED trusted
                    \/ t.at = "stage" /\ t.goal = task[p].goal /\ trusted'[p] = None
    BY <1>0, <1>2 DEF Recheck, End, Tasks, GuardInv, TypeOK
  <2>3. task[p].at = "recheck" /\ task[p].goal = "none"
    BY <1>0, <1>2 DEF Recheck, Recorded, Holding
  <2>4. Recorded(t)' /\ StageOf(t) = "free" /\ StageOf(task[p]) = "free"
    BY <2>2, <2>3, IdleIsFree DEF Recorded, StageOf, Idle, Holding, MovePoints
  <2>5. CustodyInv'
    <3>1. t.at \notin {"idle", "recheck"} => trusted'[p] = None
      BY <2>2 DEF Idle
    <3>. QED BY <1>0, <2>1, <2>2, <2>4, <3>1, HolderKeeps
  <2>6. UNCHANGED HolderVars
    <3>1. CopyOf(t) = CopyOf(task[p]) /\ FileOf(t) = FileOf(task[p])
      BY <2>4 DEF CopyOf, FileOf
    <3>. QED BY <1>0, <2>2, <2>4, <3>1, CustodySame
  <2>7. Simulated
    BY <2>1, <2>6, Stutters, Forgets, EntriesKept DEF Others
  <2>. QED BY <2>5, <2>7
<1>3. CASE Stage(p)
  <2>1. UNCHANGED <<manifest, degraded, trusted, incidents>>
    BY <1>3 DEF Stage, agentVars
  <2>2. task[p].at = "stage" /\ task[p].goal = "none" /\ StageOf(task[p]) = "free"
    BY <1>0, <1>3 DEF Stage, Recorded, Holding, StageOf
  <2>3. CASE Become(p, Idle) /\ UNCHANGED issued
    BY <1>0, <2>1, <2>2, <2>3, EndKeeps, StuttersFree, IdleIsFree DEF Others
  <2>4. CASE ~(Become(p, Idle) /\ UNCHANGED issued)
    <3>1. /\ issued' = issued + 1 /\ issued < MaxIds
          /\ Become(p, Moving([task[p] EXCEPT !.id = issued + 1], "stage", fs[Tree(p)]))
      BY <1>3, <2>4 DEF Stage, End
    <3>0. PICK t : t = Moving([task[p] EXCEPT !.id = issued + 1], "stage", fs[Tree(p)])
      OBVIOUS
    <3>2. Become(p, t) /\ t.at = "hash" /\ t.goal = "stage" /\ t.id = issued + 1
      BY <1>0, <3>0, <3>1 DEF Moving, Tasks
    <3>3. t.id \in Ids /\ t.id > issued
      BY <3>1, <3>2, ConstantFacts DEF GuardInv, TypeOK, Ids
    <3>4. Recorded(t)' /\ StageOf(t) = "free"
      <4>1. manifest'[t.id] = None
        BY <2>1, <3>3 DEF CustodyInv
      <4>. QED BY <3>2, <4>1 DEF Recorded, StageOf, Holding, MovePoints
    <3>5. CustodyInv'
      <4>1. trusted'[p] = None
        BY <1>0, <2>1, <2>2
      <4>. QED BY <1>0, <2>1, <3>1, <3>2, <3>4, <4>1, HolderKeeps
    <3>. QED BY <1>0, <2>1, <2>2, <3>2, <3>4, <3>5, StuttersFree DEF Others
  <2>. QED BY <2>3, <2>4
<1>. QED BY <1>1, <1>2, <1>3

(* A task that ends without having held the file.                          *)
LEMMA AgentStops ==
    ASSUME GuardInv, GuardInv', CustodyInv, NEW p \in Paths,
           RecheckFault(p) \/ StageFault(p) \/ StageFailed(p)
    PROVE  CustodyInv' /\ Simulated
<1>1. /\ p \in Holders /\ Become(p, Idle)
      /\ UNCHANGED <<manifest, issued, trusted, incidents>> /\ degraded' \in BOOLEAN
  BY DEF Holders, RecheckFault, StageFault, StageFailed, End, agentVars, GuardInv, TypeOK
<1>2. StageOf(task[p]) = "free"
  <2>1. Recorded(task[p])
    BY <1>1, HolderState
  <2>2. \/ task[p].at \in {"recheck", "stage"}
        \/ task[p].at = "failed" /\ task[p].goal = "stage"
    BY DEF RecheckFault, StageFault, StageFailed
  <2>. QED BY <2>1, <2>2 DEF Recorded, Holding, StageOf
<1>3. CustodyInv'
  BY <1>1, EndKeeps
<1>. QED BY <1>1, <1>2, <1>3, Ends, Alarms, EntriesKept

(* A step of a task that has not begun to quarantine its copy.             *)
LEMMA HeldKeeps ==
    ASSUME GuardInv, CustodyInv, NEW a \in Holders, NEW t, Become(a, t),
           UNCHANGED <<manifest, issued, trusted>>,
           Holding(task[a]), Holding(t), t.id = task[a].id,
           task[a].goal # "quarantine", t.goal # "quarantine", t.at # "incident",
           t.at \in MovePoints => t.goal # "none"
    PROVE  CustodyInv'
<1>1. manifest[task[a].id] = None
  BY HolderState DEF Recorded
<1>2. Recorded(t)'
  BY <1>1 DEF Recorded, Holding
<1>3. a \in Paths => trusted'[a] = None
  BY HolderState DEF Holding
<1>. QED BY <1>2, <1>3, HolderKeeps

LEMMA JudgeStep ==
    ASSUME GuardInv, CustodyInv, NEW a \in Holders, NEW t, Become(a, t),
           UNCHANGED <<manifest, issued, degraded, agentVars>>,
           t.id = task[a].id, t.ident = task[a].ident,
           \/ /\ task[a].at \in {"moved", "scan"} /\ task[a].goal # "quarantine"
              /\ t.at = "verify" /\ t.goal = task[a].goal
           \/ /\ task[a].at = "verify" /\ t.at \in {"release", "access", "quarantine"}
              /\ t.goal = task[a].goal
              /\ t.at # "quarantine" => task[a].verdict = "SAFE"
           \/ /\ task[a].at \in {"release", "access"}
              /\ \/ t.at = "hash" /\ t.goal = "release"
                 \/ t.at = "quarantine" /\ t.goal = task[a].goal
           \/ /\ task[a].at = "failed" /\ task[a].goal = "release"
              /\ t.at = "quarantine" /\ t.goal = "release"
    PROVE  CustodyInv' /\ Simulated
<1>1. Recorded(task[a]) /\ Judged(task[a]) /\ UNCHANGED Others
  BY HolderState, HolderFacts DEF agentVars, Others
<1>2. task[a].goal # "quarantine" /\ t.goal # "quarantine"
  BY <1>1 DEF Recorded, MovePoints
<1>3. Holding(task[a]) /\ Holding(t) /\ t.at # "incident"
      /\ (t.at \in MovePoints => t.goal # "none")
  BY DEF Holding, MovePoints
<1>4. CustodyInv'
  BY <1>2, <1>3, HeldKeeps DEF agentVars
<1>5. CASE StageOf(t) = StageOf(task[a])
  <2>1. CopyOf(t) = CopyOf(task[a]) /\ FileOf(t) = FileOf(task[a])
    BY <1>5 DEF CopyOf, FileOf
  <2>. QED BY <1>1, <1>4, <1>5, <2>1, StuttersInPlace, EntriesKept
<1>6. CASE StageOf(t) = "condemned" /\ StageOf(task[a]) # "condemned"
  <2>1. StageOf(task[a]) \in {"judging", "cleared"}
    BY <1>6 DEF StageOf
  <2>. QED BY <1>1, <1>4, <1>6, <2>1, Condemns
<1>7. CASE StageOf(t) # "condemned" /\ StageOf(t) # StageOf(task[a])
  <2>1. /\ StageOf(t) = "cleared" /\ StageOf(task[a]) = "judging"
        /\ task[a].at = "verify" /\ task[a].verdict = "SAFE"
    BY <1>2, <1>7 DEF StageOf
  <2>2. task[a].ident \in Benign
    BY <1>1, <2>1 DEF Judged
  <2>. QED BY <1>1, <1>4, <2>1, <2>2, Clears
<1>. QED BY <1>5, <1>6, <1>7

LEMMA AgentJudges ==
    ASSUME GuardInv, CustodyInv, NEW p \in Paths,
           Scan(p) \/ Verify(p) \/ Release(p) \/ ReleaseFailed(p)
    PROVE  CustodyInv' /\ Simulated
<1>1. p \in Holders /\ task[p] \in Tasks
  BY HolderFacts DEF Holders
<1>2. UNCHANGED <<manifest, issued, degraded, agentVars>>
  BY DEF Scan, Verify, Release, ReleaseFailed
<1>3. CASE Scan(p)
  <2>1. PICK v : Become(p, [task[p] EXCEPT !.at = "verify", !.verdict = v])
    BY <1>3 DEF Scan
  <2>2. PICK t : t = [task[p] EXCEPT !.at = "verify", !.verdict = v]
    OBVIOUS
  <2>3. /\ Become(p, t) /\ t.at = "verify" /\ t.goal = task[p].goal
        /\ t.id = task[p].id /\ t.ident = task[p].ident
    BY <1>1, <2>1, <2>2 DEF Tasks
  <2>. QED BY <1>1, <1>2, <1>3, <2>3, JudgeStep DEF Scan
<1>4. CASE Verify(p)
  <2>1. PICK x \in {"release", "quarantine"} :
            /\ Become(p, [task[p] EXCEPT !.verdict = "none", !.at = x])
            /\ x = "release" => Releases(task[p].verdict)
    BY <1>4 DEF Verify
  <2>2. PICK t : t = [task[p] EXCEPT !.verdict = "none", !.at = x]
    OBVIOUS
  <2>3. /\ Become(p, t) /\ t.at = x /\ t.goal = task[p].goal
        /\ t.id = task[p].id /\ t.ident = task[p].ident
        /\ x = "release" => task[p].verdict = "SAFE"
    BY <1>1, <2>1, <2>2 DEF Tasks, Releases
  <2>. QED BY <1>1, <1>2, <1>4, <2>3, JudgeStep DEF Verify
<1>5. CASE Release(p)
  <2>1. PICK t : /\ Become(p, t)
                 /\ t \in {Moving(task[p], "release", task[p].ident),
                           [task[p] EXCEPT !.at = "quarantine"]}
    BY <1>5 DEF Release
  <2>2. /\ t.id = task[p].id /\ t.ident = task[p].ident
        /\ \/ t.at = "hash" /\ t.goal = "release"
           \/ t.at = "quarantine" /\ t.goal = task[p].goal
    BY <1>1, <2>1 DEF Tasks, Moving
  <2>. QED BY <1>1, <1>2, <1>5, <2>1, <2>2, JudgeStep DEF Release
<1>6. CASE ReleaseFailed(p)
  <2>1. PICK t : t = [task[p] EXCEPT !.at = "quarantine", !.code = "none"]
    OBVIOUS
  <2>2. /\ Become(p, t) /\ t.at = "quarantine" /\ t.goal = task[p].goal
        /\ t.id = task[p].id /\ t.ident = task[p].ident
    BY <1>1, <1>6, <2>1 DEF Tasks, ReleaseFailed
  <2>. QED BY <1>1, <1>2, <1>6, <2>2, JudgeStep DEF ReleaseFailed
<1>. QED BY <1>3, <1>4, <1>5, <1>6

(* What was cleared goes back and is trusted from then on.                 *)
LEMMA AgentReturns ==
    ASSUME GuardInv, CustodyInv, NEW p \in Paths, Released(p)
    PROVE  CustodyInv' /\ Simulated
<1>1. /\ p \in Holders /\ Become(p, Idle)
      /\ UNCHANGED <<manifest, issued, degraded, incidents>>
      /\ trusted' = [trusted EXCEPT ![p] = task[p].ident]
  BY DEF Holders, Released, End
<1>2. \A q \in Paths : q # p => trusted'[q] \in {trusted[q], None}
  BY <1>1 DEF GuardInv, TypeOK
<1>3. CustodyInv'
  BY <1>1, <1>2, EndKeeps
<1>4. StageOf(task[p]) = "cleared"
  BY DEF Released, StageOf
<1>5. custodyStage[p] = "cleared" /\ custodyFile[p] = task[p].ident
  BY <1>1, <1>4, HolderFacts DEF FileOf
<1>6. Contract!Return(p)
  BY <1>1, <1>5, Ends, EntriesKept DEF Contract!Return
<1>. QED BY <1>1, <1>3, <1>6 DEF Simulated, Contract!Next

------------------------------------------------------------------------------
(* Quarantine, by the agent or an install.                                 *)

(* The pending manifest is not an entry of the contract yet.               *)
LEMMA HolderBeginsQuarantine ==
    ASSUME GuardInv, CustodyInv, NEW a \in Holders, QuarantineBegin(a), UNCHANGED agentVars
    PROVE  CustodyInv' /\ Simulated
<1>1. /\ task[a] \in Tasks /\ Recorded(task[a]) /\ task[a].at = "quarantine"
      /\ UNCHANGED <<issued, Others>> /\ UNCHANGED trusted
  BY HolderFacts, HolderState DEF QuarantineBegin, agentVars, Others
<1>2. Holding(task[a]) /\ task[a].goal # "quarantine" /\ task[a].id \in Ids
  BY <1>1, HolderFacts DEF Recorded, Holding, MovePoints
<1>3. manifest[task[a].id] = None
  BY <1>1, <1>2 DEF Recorded
<1>4. PICK m : /\ m = [state |-> "pending", path |-> task[a].path, ident |-> fs[Private(a)]]
               /\ manifest' = [manifest EXCEPT ![task[a].id] = m]
  BY DEF QuarantineBegin
<1>5. /\ m.state = "pending" /\ m # None
      /\ \A i \in Ids : manifest'[i] = IF i = task[a].id THEN m ELSE manifest[i]
  <2>1. m.state = "pending"
    BY <1>4
  <2>2. \A i \in Ids : manifest'[i] = IF i = task[a].id THEN m ELSE manifest[i]
    BY <1>4 DEF GuardInv, TypeOK
  <2>3. m \in Manifests
    <3>1. task[a].path \in Paths /\ a \in Actors /\ a \notin Restorers
      BY <1>1, HolderFacts DEF Shaped
    <3>2. fs[Private(a)] \in Identities
      <4>1. Private(a) \in Locations
        BY <1>2, PrivateCopyFacts DEF Private
      <4>. QED BY <4>1 DEF GuardInv, TypeOK, QuarantineBegin
    <3>. QED BY <1>4, <3>1, <3>2 DEF Manifests, ManifestStates
  <2>. QED BY <2>1, <2>2, <2>3, StoreAssumption
<1>6. PICK t : /\ Become(a, t) /\ t = Moving(task[a], "quarantine", fs[Private(a)])
  BY DEF QuarantineBegin
<1>7. t.at = "hash" /\ t.goal = "quarantine" /\ t.id = task[a].id
  BY <1>1, <1>6 DEF Moving, Tasks
<1>8. Recorded(t)'
  BY <1>2, <1>5, <1>7 DEF Recorded, Holding, MovePoints, State
<1>9. CustodyInv'
  <2>1. \A i \in Ids : manifest'[i] # manifest[i] =>
            i = task[a].id /\ ~State(i, {"quarantined", "restored"})
    BY <1>3, <1>5 DEF State
  <2>2. a \in Paths => trusted'[a] = None
    BY <1>1, HolderState
  <2>. QED BY <1>1, <1>2, <1>6, <1>8, <2>1, <2>2, HolderKeeps
<1>10. StageOf(t) = "condemned" /\ StageOf(task[a]) = "condemned"
  BY <1>1, <1>7 DEF StageOf
<1>11. CopyOf(t) = CopyOf(task[a]) /\ FileOf(t) = FileOf(task[a])
  BY <1>7, <1>10 DEF CopyOf, FileOf
<1>12. UNCHANGED entries
  BY <1>2, <1>3, <1>4, <1>5, EntryFollows DEF EntryOf
<1>. QED BY <1>1, <1>6, <1>9, <1>10, <1>11, <1>12, StuttersInPlace

(* The quarantined manifest is the entry, the copy is contained.           *)
LEMMA HolderRecords ==
    ASSUME GuardInv, CustodyInv, NEW a \in Holders, QuarantineRecord(a), UNCHANGED agentVars
    PROVE  CustodyInv' /\ Simulated
<1>1. /\ task[a] \in Tasks /\ Recorded(task[a])
      /\ task[a].at = "moved" /\ task[a].goal = "quarantine"
      /\ UNCHANGED <<issued, degraded, incidents, trusted>>
  BY HolderFacts, HolderState DEF QuarantineRecord, agentVars
<1>2. Holding(task[a]) /\ task[a].id \in Ids /\ StageOf(task[a]) = "condemned"
  BY <1>1, HolderFacts DEF Holding, StageOf
<1>3. State(task[a].id, {"pending"}) /\ manifest[task[a].id] \in Manifests
  BY <1>1, <1>2 DEF Recorded, State, GuardInv, TypeOK
<1>4. a \in Paths => trusted'[a] = None
  BY <1>1, HolderState
<1>5. \/ /\ manifest' = [manifest EXCEPT ![task[a].id].state = "quarantined"]
         /\ Become(a, [task[a] EXCEPT !.at = "incident"])
      \/ /\ UNCHANGED manifest
         /\ Become(a, [task[a] EXCEPT !.at = "failed", !.code = "error"])
  BY DEF QuarantineRecord
<1>6. CASE /\ UNCHANGED manifest
           /\ Become(a, [task[a] EXCEPT !.at = "failed", !.code = "error"])
  <2>1. PICK u : u = [task[a] EXCEPT !.at = "failed", !.code = "error"]
    OBVIOUS
  <2>2. /\ Become(a, u) /\ u.id = task[a].id /\ u.goal = "quarantine" /\ u.at = "failed"
    BY <1>1, <1>6, <2>1 DEF Tasks
  <2>3. Recorded(u)'
    BY <1>3, <1>6, <2>2 DEF Recorded, Holding, MovePoints, State
  <2>4. CustodyInv'
    BY <1>1, <1>4, <1>6, <2>2, <2>3, HolderKeeps
  <2>5. StageOf(u) = "condemned" /\ CopyOf(u) = CopyOf(task[a]) /\ FileOf(u) = FileOf(task[a])
    BY <1>2, <2>2 DEF StageOf, CopyOf, FileOf
  <2>. QED BY <1>1, <1>2, <1>6, <2>2, <2>4, <2>5, StuttersInPlace, EntriesKept DEF Others
<1>7. CASE /\ manifest' = [manifest EXCEPT ![task[a].id].state = "quarantined"]
            /\ Become(a, [task[a] EXCEPT !.at = "incident"])
  <2>1. PICK u : u = [task[a] EXCEPT !.at = "incident"]
    OBVIOUS
  <2>2. /\ Become(a, u) /\ u.id = task[a].id /\ u.goal = "quarantine" /\ u.at = "incident"
    BY <1>1, <1>7, <2>1 DEF Tasks
  <2>3. PICK m : m = [manifest[task[a].id] EXCEPT !.state = "quarantined"]
    OBVIOUS
  <2>4. manifest' = [manifest EXCEPT ![task[a].id] = m]
    BY <1>7, <2>3
  <2>5. m \in Manifests /\ m.state = "quarantined"
    BY <1>3, <2>3 DEF Manifests, ManifestStates
  <2>6. /\ m # None
        /\ \A i \in Ids : manifest'[i] = IF i = task[a].id THEN m ELSE manifest[i]
    BY <2>4, <2>5, StoreAssumption DEF GuardInv, TypeOK
  <2>7. Recorded(u)'
    BY <1>2, <2>2, <2>5, <2>6 DEF Recorded, Holding, MovePoints, State
  <2>8. CustodyInv'
    <3>1. \A i \in Ids : manifest'[i] # manifest[i] =>
              i = task[a].id /\ ~State(i, {"quarantined", "restored"})
      BY <1>3, <2>6 DEF State
    <3>. QED BY <1>1, <1>2, <1>4, <2>2, <2>7, <3>1, HolderKeeps
  <2>9. StageOf(u) = "condemned" /\ CopyOf(u) = CopyOf(task[a]) /\ FileOf(u) = FileOf(task[a])
    BY <1>2, <2>2 DEF StageOf, CopyOf, FileOf
  <2>10. UNCHANGED HolderVars
    BY <1>2, <2>2, <2>9, CustodySame
  <2>11. custodyStage[a] = "condemned" /\ custodyCopy[a] = task[a].id
    BY <1>2, HolderFacts DEF CopyOf
  <2>12. entries' = [entries EXCEPT ![task[a].id] = "contained"]
    BY <1>2, <2>4, <2>5, <2>6, EntryFollows DEF EntryOf
  <2>13. entries[task[a].id] = "none"
    BY <1>2, <1>3 DEF entries, EntryOf, State
  <2>14. Contract!Contain(a)
    BY <1>1, <2>10, <2>11, <2>12, <2>13 DEF Contract!Contain, HolderVars
  <2>. QED BY <2>8, <2>14 DEF Simulated, Contract!Next
<1>. QED BY <1>5, <1>6, <1>7

(* A quarantine that does not come about leaves no entry.                  *)
LEMMA FailureKeeps ==
    ASSUME GuardInv, CustodyInv, NEW a \in Holders, Become(a, Idle),
           task[a].at = "failed", task[a].goal = "quarantine",
           RecordFailure(a), UNCHANGED <<issued, trusted>>
    PROVE  CustodyInv' /\ UNCHANGED entries /\ StageOf(task[a]) = "condemned"
<1>1. task[a] \in Tasks /\ Recorded(task[a]) /\ StageOf(task[a]) = "condemned"
  BY HolderFacts, HolderState DEF StageOf
<1>2. Holding(task[a]) /\ task[a].id \in Ids
  BY HolderFacts DEF Holding
<1>3. State(task[a].id, {"pending"}) /\ manifest[task[a].id] \in Manifests
  BY <1>1, <1>2 DEF Recorded, State, GuardInv, TypeOK
<1>4. Recorded(Idle)' /\ Idle.at = "idle"
  BY DEF Recorded, Idle, Holding, MovePoints
<1>5. CASE UNCHANGED manifest
  BY <1>1, <1>4, <1>5, HolderKeeps, EntriesKept
<1>6. CASE manifest' = [manifest EXCEPT ![task[a].id].state = "failed"]
  <2>1. PICK m : m = [manifest[task[a].id] EXCEPT !.state = "failed"]
    OBVIOUS
  <2>2. manifest' = [manifest EXCEPT ![task[a].id] = m]
    BY <1>6, <2>1
  <2>3. m \in Manifests /\ m.state = "failed"
    BY <1>3, <2>1 DEF Manifests, ManifestStates
  <2>4. \A i \in Ids : manifest'[i] # manifest[i] =>
            i = task[a].id /\ ~State(i, {"quarantined", "restored"})
    BY <1>3, <2>2 DEF State, GuardInv, TypeOK
  <2>5. CustodyInv'
    BY <1>2, <1>4, <2>4, HolderKeeps
  <2>6. UNCHANGED entries
    BY <1>2, <1>3, <2>2, <2>3, EntryFollows DEF EntryOf, State
  <2>. QED BY <1>1, <2>5, <2>6
<1>. QED BY <1>5, <1>6 DEF RecordFailure

(* The agent gives a condemned file up with the alarm, or reports it.      *)
LEMMA AgentCondemns ==
    ASSUME GuardInv, CustodyInv, NEW p \in Paths,
           QuarantineRefused(p) \/ QuarantineFailed(p) \/ Incident(p)
    PROVE  CustodyInv' /\ Simulated
<1>1. p \in Holders /\ Become(p, Idle) /\ UNCHANGED issued
  BY DEF Holders, QuarantineRefused, QuarantineFailed, Incident, End
<1>2. CASE QuarantineRefused(p)
  <2>1. UNCHANGED <<manifest, trusted, incidents>> /\ degraded' = TRUE
    BY <1>2 DEF QuarantineRefused, agentVars
  <2>2. StageOf(task[p]) = "condemned"
    BY <1>2 DEF QuarantineRefused, StageOf
  <2>. QED BY <1>1, <2>1, <2>2, EndKeeps, GivesUp, EntriesKept
<1>3. CASE QuarantineFailed(p)
  <2>1. /\ task[p].at = "failed" /\ task[p].goal = "quarantine" /\ RecordFailure(p)
        /\ UNCHANGED <<trusted, incidents>> /\ degraded' = TRUE
    BY <1>3 DEF QuarantineFailed, agentVars
  <2>. QED BY <1>1, <2>1, FailureKeeps, GivesUp
<1>4. CASE Incident(p)
  <2>1. task[p].at = "incident" /\ UNCHANGED manifest
    BY <1>4 DEF Incident
  <2>2. trusted[p] = None /\ UNCHANGED trusted
    BY <1>1, <1>4, <2>1, HolderState DEF Incident, GuardInv, TypeOK
  <2>3. StageOf(task[p]) = "condemned" /\ CustodyInv'
    BY <1>1, <2>1, <2>2, EndKeeps DEF StageOf
  <2>4. CASE degraded' = TRUE /\ UNCHANGED incidents
    BY <1>1, <2>1, <2>2, <2>3, <2>4, GivesUp, EntriesKept
  <2>5. CASE incidents' = incidents \cup {task[p].id} /\ UNCHANGED degraded
    <3>1. Recorded(task[p]) /\ task[p].id \in Ids
      BY <1>1, <2>1, HolderState, HolderFacts DEF Holding
    <3>2. custodyStage[p] = "condemned" /\ custodyCopy[p] = task[p].id
      BY <1>1, <2>3, HolderFacts DEF CopyOf
    <3>3. entries[task[p].id] # "none"
      BY <2>1, <3>1 DEF Recorded, State, entries, EntryOf
    <3>4. Contract!Report(p)
      BY <1>1, <2>1, <2>2, <2>5, <3>2, <3>3, Ends, EntriesKept DEF Contract!Report
    <3>. QED BY <1>1, <2>3, <3>4 DEF Simulated, Contract!Next
  <2>. QED BY <1>4, <2>4, <2>5 DEF Incident
<1>. QED BY <1>2, <1>3, <1>4

LEMMA AgentFollows ==
    ASSUME GuardInv, GuardInv', CustodyInv, NEW p \in Paths, Agent(p)
    PROVE  CustodyInv' /\ Simulated
<1>1. p \in Holders
  BY DEF Holders
<1>. QED BY <1>1, AgentStarts, AgentStops, AgentJudges, AgentReturns, AgentCondemns,
            HolderBeginsQuarantine, HolderRecords, HolderMove DEF Agent, AgentStep

------------------------------------------------------------------------------
(* Restore calls: only the last write of the manifest is an abstract step. *)
LEMMA RestoreFollows ==
    ASSUME GuardInv, CustodyInv, NEW r \in Restorers, RestoreCall(r)
    PROVE  CustodyInv' /\ Simulated
<1>1. /\ r \in Actors /\ task[r] \in Tasks /\ Shaped(r, task[r]) /\ issued \in 0 .. MaxIds
      /\ UNCHANGED <<incidents, trusted>>
  BY DEF Actors, GuardInv, TypeOK, RestoreCall, agentVars
<1>2. task[r].at # "idle" =>
          task[r].id \in Ids /\ State(task[r].id, {"quarantined", "restored"})
  <2>1. task[r].at # "idle" => Holding(task[r])
    BY <1>1 DEF Shaped, Holding, MovePoints
  <2>. QED BY <1>1, <2>1, ConstantFacts DEF Shaped, Ids, CustodyInv
<1>3. CASE RestoreBegin(r)
  <2>1. PICK i \in 1 .. issued :
            /\ State(i, {"quarantined"})
            /\ Become(r, Moving([Idle EXCEPT !.id = i, !.path = manifest[i].path],
                                "restore", manifest[i].ident))
    BY <1>3 DEF RestoreBegin, State
  <2>2. PICK t : t = Moving([Idle EXCEPT !.id = i, !.path = manifest[i].path],
                            "restore", manifest[i].ident)
    OBVIOUS
  <2>3. Become(r, t) /\ t.id = i /\ i \in Ids
    BY <1>1, <2>1, <2>2, ConstantFacts DEF Moving, Idle, Ids
  <2>4. UNCHANGED <<manifest, issued, degraded>>
    BY <1>3 DEF RestoreBegin
  <2>5. CustodyInv'
    BY <1>1, <2>1, <2>3, <2>4, RestorerKeeps DEF State
  <2>. QED BY <1>1, <2>3, <2>4, <2>5, CustodyElsewhere, Stutters, EntriesKept DEF Others
<1>4. CASE RestoreFailed(r)
  <2>1. Become(r, Idle) /\ UNCHANGED <<manifest, issued, degraded>> /\ Idle.at = "idle"
    BY <1>4 DEF RestoreFailed, Idle
  <2>2. CustodyInv'
    BY <1>1, <2>1, RestorerKeeps
  <2>. QED BY <1>1, <2>1, <2>2, CustodyElsewhere, Stutters, EntriesKept DEF Others
<1>5. CASE Move(r)
  <2>1. task[r].at \in MovePoints /\ UNCHANGED <<manifest, issued, degraded>>
    BY <1>1, <1>5, MoveBecomes
  <2>2. PICK t : Become(r, t) /\ t.id = task[r].id
    BY <1>1, <1>5, MoveBecomes
  <2>3. t.id \in Ids /\ State(t.id, {"quarantined", "restored"})
    BY <1>2, <2>1, <2>2 DEF MovePoints
  <2>4. CustodyInv'
    BY <1>1, <2>1, <2>2, <2>3, RestorerKeeps
  <2>. QED BY <1>1, <2>1, <2>2, <2>4, CustodyElsewhere, Stutters, EntriesKept DEF Others
<1>6. CASE RestoreRecord(r)
  <2>1. /\ task[r].at = "moved" /\ Become(r, Idle) /\ Idle.at = "idle"
        /\ UNCHANGED <<issued, degraded>> /\ UNCHANGED HolderVars
    BY <1>6, CustodyElsewhere DEF RestoreRecord, Idle
  <2>2. /\ task[r].id \in Ids /\ State(task[r].id, {"quarantined", "restored"})
        /\ manifest[task[r].id] \in Manifests
    BY <1>2, <2>1 DEF State, GuardInv, TypeOK
  <2>3. CASE UNCHANGED manifest
    <3>1. CustodyInv'
      BY <1>1, <2>1, <2>3, RestorerKeeps
    <3>. QED BY <1>1, <2>1, <2>3, <3>1, Stutters, EntriesKept DEF Others
  <2>4. CASE manifest' = [manifest EXCEPT ![task[r].id].state = "restored"]
    <3>1. PICK m : m = [manifest[task[r].id] EXCEPT !.state = "restored"]
      OBVIOUS
    <3>2. manifest' = [manifest EXCEPT ![task[r].id] = m]
      BY <2>4, <3>1
    <3>3. m \in Manifests /\ m.state = "restored" /\ m # None
      BY <2>2, <3>1, StoreAssumption DEF Manifests, ManifestStates
    <3>4. \A i \in Ids : manifest'[i] = IF i = task[r].id THEN m ELSE manifest[i]
      BY <3>2 DEF GuardInv, TypeOK
    <3>5. \A i \in Ids : manifest'[i] # manifest[i] =>
              /\ State(i, {"quarantined", "restored"})
              /\ State(i, {"quarantined", "restored"})'
      BY <2>2, <3>3, <3>4 DEF State
    <3>6. CustodyInv'
      BY <1>1, <2>1, <3>5, RestorerKeeps
    <3>7. entries' = [entries EXCEPT ![task[r].id] = "returned"]
      BY <2>2, <3>2, <3>3, EntryFollows DEF EntryOf
    <3>8. CASE entries[task[r].id] = "contained"
      <4>1. Contract!GiveBack(task[r].id)
        BY <1>1, <2>1, <3>7, <3>8 DEF Contract!GiveBack, HolderVars
      <4>. QED BY <2>2, <3>6, <4>1 DEF Simulated, Contract!Next
    <3>9. CASE entries[task[r].id] # "contained"
      <4>1. UNCHANGED entries
        BY <2>2, <3>2, <3>3, <3>9, EntryFollows DEF entries, EntryOf, State
      <4>. QED BY <1>1, <2>1, <3>6, <4>1, Stutters DEF Others
    <3>. QED BY <3>8, <3>9
  <2>. QED BY <1>6, <2>3, <2>4 DEF RestoreRecord
<1>. QED BY <1>3, <1>4, <1>5, <1>6 DEF RestoreCall, Restore

------------------------------------------------------------------------------
(* Managed installs.                                                       *)

LEMMA InstallTakes ==
    ASSUME GuardInv, CustodyInv, NEW i \in Installers, InstallBegin(i), UNCHANGED agentVars
    PROVE  CustodyInv' /\ Simulated
<1>1. /\ i \in Holders /\ i \notin Paths
      /\ issued < MaxIds /\ issued' = issued + 1
      /\ UNCHANGED <<manifest, degraded, incidents, trusted>>
  BY StoreAssumption DEF Holders, InstallBegin, agentVars
<1>2. PICK p \in Paths, c \in Contents :
          Become(i, [Idle EXCEPT !.at = "scan", !.id = issued + 1, !.path = p, !.ident = c])
  BY DEF InstallBegin
<1>3. PICK t : t = [Idle EXCEPT !.at = "scan", !.id = issued + 1, !.path = p, !.ident = c]
  OBVIOUS
<1>4. /\ Become(i, t) /\ t.at = "scan" /\ t.goal = "none" /\ t.id = issued + 1
      /\ t.ident \in Identities
  BY <1>2, <1>3 DEF Idle, Identities
<1>5. issued \in Nat /\ t.id \in Ids /\ t.id > issued
  BY <1>1, <1>4, ConstantFacts DEF GuardInv, TypeOK, Ids
<1>6. manifest[t.id] = None
  BY <1>5 DEF CustodyInv
<1>7. Recorded(t)'
  BY <1>1, <1>4, <1>6 DEF Recorded, Holding, MovePoints
<1>8. CustodyInv'
  BY <1>1, <1>4, <1>7, HolderKeeps
<1>9. StageOf(t) = "judging" /\ StageOf(task[i]) = "free"
  BY <1>1, <1>4, HolderState DEF StageOf, InstallBegin, Recorded, Holding
<1>10. \A b \in Holders : b # i /\ Holding(task[b]) => task[b].id # t.id
  BY <1>5, HolderFacts
<1>. QED BY <1>1, <1>4, <1>5, <1>6, <1>8, <1>9, <1>10, Takes DEF Others

LEMMA InstallJudges ==
    ASSUME GuardInv, CustodyInv, NEW i \in Installers,
           InstallScan(i) \/ InstallVerify(i) \/ InstallAccess(i), UNCHANGED agentVars
    PROVE  CustodyInv' /\ Simulated
<1>1. /\ i \in Holders /\ task[i] \in Tasks /\ Recorded(task[i])
      /\ UNCHANGED <<manifest, issued, degraded>> /\ UNCHANGED Others
      /\ \A p \in Paths : p # i => trusted'[p] \in {trusted[p], None}
  BY HolderFacts, HolderState DEF Holders, InstallScan, InstallVerify, InstallAccess,
     agentVars, Others
<1>2. CASE Become(i, Idle)
  BY <1>1, <1>2, EndKeeps, Refuses, EntriesKept
<1>3. CASE ~Become(i, Idle)
  <2>1. CASE InstallScan(i)
    <3>1. PICK v : Become(i, [task[i] EXCEPT !.at = "verify", !.verdict = v])
      BY <2>1 DEF InstallScan
    <3>2. PICK t : t = [task[i] EXCEPT !.at = "verify", !.verdict = v]
      OBVIOUS
    <3>3. /\ Become(i, t) /\ t.at = "verify" /\ t.goal = task[i].goal
          /\ t.id = task[i].id /\ t.ident = task[i].ident
      BY <1>1, <3>1, <3>2 DEF Tasks
    <3>4. task[i].at = "scan" /\ task[i].goal # "quarantine"
      BY <1>1, <2>1 DEF InstallScan, Recorded, MovePoints
    <3>. QED BY <1>1, <3>3, <3>4, JudgeStep
  <2>2. CASE InstallVerify(i)
    <3>1. PICK x \in {"access", "quarantine"} :
              /\ Become(i, [task[i] EXCEPT !.verdict = "none", !.at = x])
              /\ x = "access" => Releases(task[i].verdict)
      BY <1>3, <2>2 DEF InstallVerify
    <3>2. PICK t : t = [task[i] EXCEPT !.verdict = "none", !.at = x]
      OBVIOUS
    <3>3. /\ Become(i, t) /\ t.at = x /\ t.goal = task[i].goal
          /\ t.id = task[i].id /\ t.ident = task[i].ident
          /\ x = "access" => task[i].verdict = "SAFE"
      BY <1>1, <3>1, <3>2 DEF Tasks, Releases
    <3>. QED BY <1>1, <2>2, <3>3, JudgeStep DEF InstallVerify
  <2>3. CASE InstallAccess(i)
    <3>1. PICK t : t = Moving(task[i], "release", task[i].ident)
      OBVIOUS
    <3>2. /\ Become(i, t) /\ t.at = "hash" /\ t.goal = "release"
          /\ t.id = task[i].id /\ t.ident = task[i].ident
      BY <1>1, <1>3, <2>3, <3>1 DEF InstallAccess, Moving, Tasks
    <3>. QED BY <1>1, <2>3, <3>2, JudgeStep DEF InstallAccess
  <2>. QED BY <2>1, <2>2, <2>3
<1>. QED BY <1>2, <1>3

LEMMA InstallFollows ==
    ASSUME GuardInv, CustodyInv, NEW i \in Installers, InstallCall(i)
    PROVE  CustodyInv' /\ Simulated
<1>1. /\ i \in Holders /\ UNCHANGED agentVars /\ UNCHANGED <<incidents, trusted>>
      /\ \A p \in Paths : p # i => trusted'[p] \in {trusted[p], None}
  BY DEF Holders, InstallCall, agentVars
<1>2. CASE InstallEnd(i) \/ InstallFault(i)
  <2>1. Become(i, Idle) /\ UNCHANGED <<manifest, issued, degraded>>
    BY <1>2 DEF InstallEnd, InstallFault
  <2>. QED BY <1>1, <2>1, EndKeeps, Refuses, EntriesKept DEF Others
<1>3. CASE InstallQuarantineFailed(i)
  <2>1. /\ Become(i, Idle) /\ RecordFailure(i) /\ UNCHANGED <<issued, degraded>>
        /\ task[i].at = "failed" /\ task[i].goal = "quarantine"
    BY <1>3 DEF InstallQuarantineFailed
  <2>. QED BY <1>1, <2>1, FailureKeeps, Refuses DEF Others
<1>. QED BY <1>1, <1>2, <1>3, InstallTakes, InstallJudges, HolderBeginsQuarantine,
            HolderRecords, HolderMove DEF InstallCall, InstallStep

------------------------------------------------------------------------------
(* Other programs, health, and the restart of the process.                 *)
LEMMA TasksKept == UNCHANGED task => UNCHANGED HolderVars
BY DEF HolderVars, custodyCopy, custodyStage, custodyFile, CopyOf, StageOf, FileOf

LEMMA EnvironmentFollows ==
    ASSUME GuardInv, CustodyInv,
           (\E p \in Paths : Write(p)) \/ (\E l \in Locations : Damage(l)) \/ Restart
           \/ (Reconciled /\ UNCHANGED <<writes, crashes>>)
           \/ (\E p \in Paths : IsTrustedPath(p) /\ UNCHANGED <<writes, crashes>>)
    PROVE  CustodyInv' /\ Simulated
<1>1. ASSUME UNCHANGED <<manifest, issued, task>>,
             \A p \in Paths : trusted'[p] \in {trusted[p], None}
      PROVE  CustodyInv'
  BY <1>1 DEF CustodyInv, Recorded, State
<1>2. CASE (\E p \in Paths : Write(p)) \/ (\E l \in Locations : Damage(l))
  <2>1. UNCHANGED <<manifest, issued, task, degraded, trusted, incidents>>
    BY <1>2 DEF Write, Damage, agentVars
  <2>. QED BY <1>1, <2>1, TasksKept, Stutters, EntriesKept DEF Others
<1>3. CASE Reconciled
  <2>1. UNCHANGED <<manifest, issued, task, trusted, incidents>> /\ degraded' \in BOOLEAN
    BY <1>3 DEF Reconciled
  <2>. QED BY <1>1, <2>1, TasksKept, Alarms, EntriesKept
<1>4. CASE \E p \in Paths : IsTrustedPath(p)
  <2>1. PICK p \in Paths : IsTrustedPath(p)
    BY <1>4
  <2>2. /\ UNCHANGED <<manifest, issued, task, degraded, incidents>>
        /\ trusted' = [trusted EXCEPT ![p] = None]
    BY <2>1 DEF IsTrustedPath, storeVars
  <2>3. \A q \in Paths : trusted'[q] \in {trusted[q], None}
    BY <2>2 DEF GuardInv, TypeOK
  <2>. QED BY <1>1, <2>2, <2>3, TasksKept, Forgets, EntriesKept
<1>5. CASE Restart
  <2>1. /\ \A a \in Actors : task'[a] = Idle
        /\ \A p \in Paths : trusted'[p] = None
        /\ Holders \subseteq Actors /\ Restorers \subseteq Actors /\ Paths \subseteq Actors
        /\ UNCHANGED <<manifest, issued, incidents>>
    BY <1>5 DEF Restart, Actors, Holders
  <2>2. Recorded(Idle)' /\ Idle.at = "idle"
    BY DEF Recorded, Idle, Holding, MovePoints
  <2>3. \A a \in Holders : Recorded(task[a])'
    BY <2>1, <2>2 DEF Recorded, Holding
  <2>4. CustodyInv'
    BY <2>1, <2>2, <2>3 DEF CustodyInv
  <2>5. /\ custodyCopy' = [a \in Holders |-> None]
        /\ custodyStage' = [a \in Holders |-> "free"]
        /\ custodyFile' = [a \in Holders |-> None]
    BY <2>1, IdleIsFree DEF custodyCopy, custodyStage, custodyFile
  <2>6. Contract!Kill
    BY <1>5, <2>1, <2>5, EntriesKept DEF Restart, Contract!Kill
  <2>. QED BY <2>4, <2>6 DEF Simulated, Contract!Next
<1>. QED BY <1>2, <1>3, <1>4, <1>5

------------------------------------------------------------------------------
LEMMA InitCustody == Init => CustodyInv /\ Contract!Init
<1>. SUFFICES ASSUME Init PROVE CustodyInv /\ Contract!Init
  OBVIOUS
<1>1. /\ \A a \in Actors : task[a] = Idle
      /\ \A i \in Ids : manifest[i] = None
      /\ trusted = [p \in Paths |-> None] /\ incidents = {} /\ degraded = FALSE
      /\ Holders \subseteq Actors /\ Restorers \subseteq Actors /\ Paths \subseteq Actors
  BY DEF Init, StoreInit, AgentInit, Actors, Holders
<1>2. Recorded(Idle) /\ Idle.at = "idle"
  BY DEF Recorded, Idle, Holding, MovePoints
<1>3. CustodyInv
  BY <1>1, <1>2 DEF CustodyInv
<1>4. /\ custodyCopy = [a \in Holders |-> None]
      /\ custodyStage = [a \in Holders |-> "free"]
      /\ custodyFile = [a \in Holders |-> None]
      /\ entries = [i \in Ids |-> "none"]
  BY <1>1, IdleIsFree DEF custodyCopy, custodyStage, custodyFile, entries, EntryOf
<1>. QED BY <1>1, <1>3, <1>4 DEF Contract!Init

LEMMA NextCustody ==
    GuardInv /\ GuardInv' /\ CustodyInv /\ [Next]_vars => CustodyInv' /\ Simulated
<1>1. SUFFICES ASSUME GuardInv, GuardInv', CustodyInv, [Next]_vars
               PROVE  CustodyInv' /\ Simulated
  OBVIOUS
<1>2. CASE UNCHANGED vars
  <2>1. UNCHANGED <<manifest, issued, task, trusted, incidents, degraded>>
    BY <1>2 DEF vars, storeVars, agentVars
  <2>2. CustodyInv'
    BY <1>1, <2>1 DEF CustodyInv, Recorded, State
  <2>. QED BY <2>1, <2>2, TasksKept, Stutters, EntriesKept DEF Others
<1>3. CASE Next
  BY <1>1, <1>3, AgentFollows, RestoreFollows, InstallFollows, EnvironmentFollows DEF Next
<1>. QED BY <1>1, <1>2, <1>3

(* Task and manifest of a private copy agree in every behaviour, and no    *)
(* watched path is trusted while its file is held (quarantine-store.js     *)
(* quarantine and restore, agent.js trustedIdentities).                    *)
THEOREM CustodyInvariant == Spec => []CustodyInv
BY GuardInvariant, InitCustody, NextCustody, PTL DEF Spec

(* The desktop guard implements the contract: a file it took is judged     *)
(* once, goes back only as the benign bytes that were judged, and          *)
(* otherwise ends contained and reported or with degraded health           *)
(* (agent.js processPath, quarantine-store.js, managed-install.js).        *)
THEOREM ContractImplemented == Spec => ImplementsContract
<1>1. GuardInv /\ GuardInv' /\ CustodyInv /\ [Next]_vars
          => [Contract!Next]_Contract!contractVars
  BY NextCustody DEF Simulated
<1>. QED BY <1>1, GuardInvariant, CustodyInvariant, InitCustody, PTL
         DEF Spec, ImplementsContract, Contract!Spec

------------------------------------------------------------------------------
(* Concurrent restores.                                                    *)

(* What a restore call in progress works on.                               *)
LEMMA RestorerFacts ==
    ASSUME GuardInv, CustodyInv, NEW r \in Restorers
    PROVE  /\ r \in Actors /\ r \notin Holders
           /\ task[r] \in Tasks /\ Shaped(r, task[r]) /\ issued \in 0 .. MaxIds
           /\ task[r].at # "idle" =>
                  /\ task[r].id \in Ids /\ task[r].goal = "restore"
                  /\ State(task[r].id, {"quarantined", "restored"})
<1>1. /\ r \in Actors /\ r \notin Holders
      /\ task[r] \in Tasks /\ Shaped(r, task[r]) /\ issued \in 0 .. MaxIds
  BY StoreAssumption DEF Actors, Holders, GuardInv, TypeOK
<1>2. ASSUME task[r].at # "idle"
      PROVE  /\ task[r].id \in Ids /\ task[r].goal = "restore"
             /\ State(task[r].id, {"quarantined", "restored"})
  <2>1. Holding(task[r]) /\ task[r].goal = "restore"
    BY <1>1, <1>2 DEF Shaped, Holding, MovePoints
  <2>2. task[r].id \in Ids
    BY <1>1, <2>1, ConstantFacts DEF Shaped, Ids
  <2>. QED BY <1>2, <2>1, <2>2 DEF CustodyInv
<1>. QED BY <1>1, <1>2

(* Whatever leaves the restores and the quarantined copies alone.          *)
LEMMA RestoresUndisturbed ==
    ASSUME GuardInv, CustodyInv, RestoresApart,
           \A r \in Restorers : Returning(r)' => Returning(r) /\ task'[r] = task[r],
           \A i \in Ids : State(i, {"quarantined", "restored"}) =>
               /\ manifest'[i] = manifest[i]
               /\ fs[Vault(i)] = None => fs'[Vault(i)] = None,
           \A i \in Ids : State(i, {"restored"})' => State(i, {"restored"})
    PROVE  RestoresApart'
<1>1. ASSUME NEW i \in Ids, State(i, {"restored"})' PROVE fs'[Vault(i)] = None
  BY <1>1 DEF RestoresApart, State
<1>2. ASSUME NEW r \in Restorers, Returning(r)'
      PROVE  /\ State(task[r].id, {"quarantined"})' /\ fs'[Vault(task'[r].id)] = None
  <2>1. Returning(r) /\ task'[r] = task[r]
    BY <1>2
  <2>2. State(task[r].id, {"quarantined"}) /\ fs[Vault(task[r].id)] = None /\ task[r].id \in Ids
    BY <2>1, RestorerFacts DEF RestoresApart, Returning
  <2>. QED BY <2>1, <2>2 DEF State
<1>3. ASSUME NEW q \in Restorers, NEW r \in Restorers, q # r, Returning(q)', Returning(r)'
      PROVE  task'[q].id # task'[r].id
  BY <1>3 DEF RestoresApart
<1>. QED BY <1>1, <1>2, <1>3 DEF RestoresApart

(* A task that is no restore and leaves manifests and vault alone.         *)
LEMMA RestoresElsewhere ==
    ASSUME GuardInv, CustodyInv, RestoresApart, NEW a \in Holders, NEW t, Become(a, t),
           UNCHANGED manifest,
           \A i \in Ids : State(i, {"quarantined", "restored"}) /\ fs[Vault(i)] = None =>
               fs'[Vault(i)] = None
    PROVE  RestoresApart'
<1>1. \A r \in Restorers : task'[r] = task[r]
  BY RestorerFacts, HolderFacts DEF Become, GuardInv, TypeOK
<1>2. \A i \in Ids : State(i, {"restored"})' => State(i, {"restored"})
  BY DEF State
<1>. QED BY <1>1, <1>2, RestoresUndisturbed DEF Returning

(* A task writes the manifest of its own copy, which is not quarantined.   *)
LEMMA RestoresOtherManifest ==
    ASSUME GuardInv, CustodyInv, RestoresApart, NEW a \in Holders, NEW t, Become(a, t),
           UNCHANGED fs, NEW i \in Ids, ~State(i, {"quarantined", "restored"}),
           NEW m, manifest' = [manifest EXCEPT ![i] = m], m.state # "restored"
    PROVE  RestoresApart'
<1>1. \A r \in Restorers : task'[r] = task[r]
  BY RestorerFacts, HolderFacts DEF Become, GuardInv, TypeOK
<1>2. \A j \in Ids : manifest'[j] = IF j = i THEN m ELSE manifest[j]
  BY DEF GuardInv, TypeOK
<1>3. \A j \in Ids : State(j, {"quarantined", "restored"}) => manifest'[j] = manifest[j]
  BY <1>2
<1>4. \A j \in Ids : State(j, {"restored"})' => State(j, {"restored"})
  BY <1>2 DEF State
<1>. QED BY <1>1, <1>3, <1>4, RestoresUndisturbed DEF Returning

(* Nothing is moved into the vault over a quarantined copy.                *)
LEMMA VaultMove ==
    ASSUME GuardInv, CustodyInv, NEW a \in Holders, Move(a),
           NEW i \in Ids, State(i, {"quarantined", "restored"}), fs[Vault(i)] = None
    PROVE  fs'[Vault(i)] = None
<1>1. /\ task[a].at \in MovePoints /\ Recorded(task[a]) /\ a \in Actors
      /\ Src(a) \in Locations /\ Dst(a) \in Locations /\ Vault(i) \in Locations
      /\ fs \in [Locations -> Identities \cup {None}]
  BY MoveBecomes, HolderFacts, HolderState, MoveLocations, LocationFacts DEF GuardInv, TypeOK
<1>2. Dst(a) # Vault(i)
  <2>1. CASE task[a].goal = "quarantine"
    <3>1. task[a].at # "incident" /\ State(task[a].id, {"pending"})
      BY <1>1, <2>1 DEF Recorded, MovePoints
    <3>2. task[a].id # i
      BY <3>1 DEF State
    <3>. QED BY <2>1, <3>2, LocationFacts DEF Dst
  <2>2. CASE task[a].goal # "quarantine"
    <3>1. \A p : Vault(i) # Tree(p)
      BY LocationFacts
    <3>2. Vault(i) # Private(a)
      BY PrivateCopyFacts DEF Private
    <3>. QED BY <2>2, <3>1, <3>2 DEF Dst
  <2>. QED BY <2>1, <2>2
<1>3. CASE MoveRename(a)
  BY <1>1, <1>2, <1>3 DEF MoveRename
<1>4. CASE MoveCopy(a)
  BY <1>1, <1>2, <1>4 DEF MoveCopy
<1>5. CASE MoveUnlink(a)
  BY <1>1, <1>5 DEF MoveUnlink
<1>. QED BY <1>3, <1>4, <1>5 DEF Move, MoveHash, MoveConfirm, MoveFault

LEMMA HolderRestores ==
    ASSUME GuardInv, CustodyInv, RestoresApart, NEW a \in Holders,
           QuarantineBegin(a) \/ QuarantineRecord(a) \/ Move(a)
    PROVE  RestoresApart'
<1>1. /\ task[a] \in Tasks /\ Recorded(task[a])
      /\ Holding(task[a]) => task[a].id \in Ids
  BY HolderFacts, HolderState
<1>2. CASE Move(a)
  <2>1. UNCHANGED manifest /\ \E t : Become(a, t)
    BY <1>2, MoveBecomes, HolderFacts
  <2>. QED BY <1>2, <2>1, VaultMove, RestoresElsewhere
<1>3. CASE QuarantineBegin(a)
  <2>1. PICK m : m = [state |-> "pending", path |-> task[a].path, ident |-> fs[Private(a)]]
    OBVIOUS
  <2>2. /\ task[a].at = "quarantine" /\ UNCHANGED fs
        /\ manifest' = [manifest EXCEPT ![task[a].id] = m]
        /\ Become(a, Moving(task[a], "quarantine", fs[Private(a)]))
        /\ m.state # "restored"
    BY <1>3, <2>1 DEF QuarantineBegin
  <2>3. task[a].id \in Ids /\ manifest[task[a].id] = None
    BY <1>1, <2>2 DEF Recorded, Holding, MovePoints
  <2>. QED BY <2>2, <2>3, RestoresOtherManifest DEF State
<1>4. CASE QuarantineRecord(a)
  <2>1. /\ task[a].at = "moved" /\ task[a].goal = "quarantine" /\ UNCHANGED fs
        /\ \E t : Become(a, t)
    BY <1>4 DEF QuarantineRecord
  <2>2. task[a].id \in Ids /\ State(task[a].id, {"pending"})
    BY <1>1, <2>1 DEF Recorded, Holding, MovePoints
  <2>3. PICK m : m = [manifest[task[a].id] EXCEPT !.state = "quarantined"]
    OBVIOUS
  <2>4. m.state # "restored"
    BY <2>2, <2>3 DEF State, GuardInv, TypeOK, Manifests
  <2>5. UNCHANGED manifest \/ manifest' = [manifest EXCEPT ![task[a].id] = m]
    BY <1>4, <2>3 DEF QuarantineRecord
  <2>. QED BY <2>1, <2>2, <2>4, <2>5, RestoresOtherManifest, RestoresElsewhere DEF State
<1>. QED BY <1>2, <1>3, <1>4

(* The catch block of quarantine.                                          *)
LEMMA FailureRestores ==
    ASSUME GuardInv, CustodyInv, RestoresApart, NEW a \in Holders, Become(a, Idle),
           task[a].at = "failed", task[a].goal = "quarantine", RecordFailure(a), UNCHANGED fs
    PROVE  RestoresApart'
<1>1. /\ task[a] \in Tasks /\ Recorded(task[a])
      /\ Holding(task[a]) => task[a].id \in Ids
  BY HolderFacts, HolderState
<1>2. task[a].id \in Ids /\ State(task[a].id, {"pending"})
  BY <1>1 DEF Recorded, Holding, MovePoints
<1>3. PICK m : m = [manifest[task[a].id] EXCEPT !.state = "failed"]
  OBVIOUS
<1>4. m.state # "restored"
  BY <1>2, <1>3 DEF State, GuardInv, TypeOK, Manifests
<1>5. UNCHANGED manifest \/ manifest' = [manifest EXCEPT ![task[a].id] = m]
  BY <1>3 DEF RecordFailure
<1>. QED BY <1>2, <1>4, <1>5, RestoresOtherManifest, RestoresElsewhere DEF State

(* The calls of the restore API.                                           *)
LEMMA RestoreApart ==
    ASSUME GuardInv, CustodyInv, RestoresApart, NEW r \in Restorers, Restore(r)
    PROVE  RestoresApart'
<1>0. /\ r \in Actors /\ task[r] \in Tasks /\ Restorers \subseteq Actors
      /\ task[r].at # "idle" =>
             /\ task[r].id \in Ids /\ task[r].goal = "restore"
             /\ State(task[r].id, {"quarantined", "restored"})
      /\ \A i \in Ids : Vault(i) \in Locations /\ \A p : Vault(i) # Tree(p)
      /\ \A i, j : i # j => Vault(i) # Vault(j)
      /\ fs \in [Locations -> Identities \cup {None}]
  BY RestorerFacts, LocationFacts DEF GuardInv, TypeOK, Actors
<1>1. ASSUME NEW t, Become(r, t), t.at \notin {"confirm", "moved"}, UNCHANGED manifest,
             \A i \in Ids : fs'[Vault(i)] = fs[Vault(i)]
      PROVE  RestoresApart'
  <2>1. \A q \in Restorers : task'[q] = IF q = r THEN t ELSE task[q]
    BY <1>0, <1>1 DEF Become, GuardInv, TypeOK
  <2>2. \A q \in Restorers : Returning(q)' => Returning(q) /\ task'[q] = task[q]
    BY <1>1, <2>1 DEF Returning
  <2>3. \A i \in Ids : State(i, {"restored"})' => State(i, {"restored"})
    BY <1>1 DEF State
  <2>. QED BY <1>1, <2>2, <2>3, RestoresUndisturbed
<1>2. CASE RestoreBegin(r)
  <2>1. PICK i \in 1 .. issued :
            Become(r, Moving([Idle EXCEPT !.id = i, !.path = manifest[i].path],
                             "restore", manifest[i].ident))
    BY <1>2 DEF RestoreBegin
  <2>2. PICK t : t = Moving([Idle EXCEPT !.id = i, !.path = manifest[i].path],
                            "restore", manifest[i].ident)
    OBVIOUS
  <2>3. Become(r, t) /\ t.at = "hash"
    BY <2>1, <2>2 DEF Moving, Idle
  <2>. QED BY <1>1, <1>2, <2>3 DEF RestoreBegin
<1>3. CASE RestoreFailed(r)
  BY <1>1, <1>3 DEF RestoreFailed, Idle
<1>4. CASE RestoreRecord(r)
  <2>1. task[r].at = "moved" /\ Become(r, Idle) /\ UNCHANGED fs
    BY <1>4 DEF RestoreRecord
  <2>2. CASE UNCHANGED manifest
    BY <1>1, <2>1, <2>2 DEF Idle
  <2>3. CASE manifest' = [manifest EXCEPT ![task[r].id].state = "restored"]
    <3>1. \A q \in Restorers : task'[q] = IF q = r THEN Idle ELSE task[q]
      BY <1>0, <2>1 DEF Become, GuardInv, TypeOK
    <3>2. task[r].id \in Ids /\ fs[Vault(task[r].id)] = None
      BY <1>0, <2>1 DEF RestoresApart, Returning
    <3>3. \A i \in Ids : i # task[r].id => manifest'[i] = manifest[i]
      BY <2>3 DEF GuardInv, TypeOK
    <3>4. \A i \in Ids : State(i, {"restored"})' => fs'[Vault(i)] = None
      BY <2>1, <3>2, <3>3 DEF RestoresApart, State
    <3>5. \A q \in Restorers : Returning(q)' =>
              Returning(q) /\ task'[q] = task[q] /\ q # r
      BY <3>1 DEF Returning, Idle
    <3>6. \A q \in Restorers : Returning(q)' =>
              State(task[q].id, {"quarantined"})' /\ fs'[Vault(task'[q].id)] = None
      <4>1. SUFFICES ASSUME NEW q \in Restorers, Returning(q)'
                     PROVE  State(task[q].id, {"quarantined"})' /\ fs'[Vault(task'[q].id)] = None
        OBVIOUS
      <4>2. Returning(q) /\ task'[q] = task[q] /\ q # r
        BY <3>5, <4>1
      <4>3. task[q].id \in Ids /\ task[q].id # task[r].id
        BY <2>1, <4>2, RestorerFacts DEF RestoresApart, Returning
      <4>. QED BY <2>1, <3>3, <4>2, <4>3 DEF RestoresApart, State
    <3>. QED BY <3>4, <3>5, <3>6 DEF RestoresApart
  <2>. QED BY <1>4, <2>2, <2>3 DEF RestoreRecord
<1>5. CASE Move(r)
  <2>1. task[r].at \in MovePoints /\ UNCHANGED manifest
    BY <1>0, <1>5, MoveBecomes
  <2>2. PICK t : /\ Become(r, t) /\ t.id = task[r].id
                 /\ t.at \in MovePoints \cup {"moved", "failed"}
    BY <1>0, <1>5, MoveBecomes
  <2>3. /\ Src(r) = Vault(task[r].id) /\ \E p : Dst(r) = Tree(p)
        /\ task[r].id \in Ids /\ State(task[r].id, {"quarantined", "restored"})
    BY <1>0, <2>1 DEF Src, Dst, MovePoints
  <2>4. \A q \in Restorers : task'[q] = IF q = r THEN t ELSE task[q]
    BY <1>0, <2>2 DEF Become, GuardInv, TypeOK
  <2>5. \A i \in Ids : i # task[r].id => fs'[Vault(i)] = fs[Vault(i)]
    BY <1>0, <1>5, <2>3 DEF Move, MoveHash, MoveRename, MoveCopy, MoveUnlink, MoveConfirm, MoveFault
  <2>6. \A i \in Ids : fs[Vault(i)] = None => fs'[Vault(i)] = None
    BY <1>0, <1>5, <2>3 DEF Move, MoveHash, MoveRename, MoveCopy, MoveUnlink, MoveConfirm, MoveFault
  <2>7. CASE Returning(r)
    <3>1. \A q \in Restorers : Returning(q)' => Returning(q) /\ task'[q].id = task[q].id
      BY <2>2, <2>4, <2>7 DEF Returning
    <3>2. \A i \in Ids : State(i, {"restored"})' => fs'[Vault(i)] = None
      BY <2>1, <2>6 DEF RestoresApart, State
    <3>3. \A q \in Restorers : Returning(q)' =>
              State(task[q].id, {"quarantined"})' /\ fs'[Vault(task'[q].id)] = None
      <4>1. SUFFICES ASSUME NEW q \in Restorers, Returning(q)'
                     PROVE  State(task[q].id, {"quarantined"}) /\ fs'[Vault(task[q].id)] = None
        BY <2>1, <3>1 DEF State
      <4>. QED BY <2>6, <3>1, <4>1, RestorerFacts DEF RestoresApart, Returning
    <3>. QED BY <3>1, <3>2, <3>3 DEF RestoresApart
  <2>8. CASE t.at \notin {"confirm", "moved"}
    <3>1. \A q \in Restorers : Returning(q)' => Returning(q) /\ task'[q] = task[q]
      BY <2>4, <2>8 DEF Returning
    <3>. QED BY <2>1, <2>6, <3>1, RestoresUndisturbed DEF State
  <2>9. CASE ~Returning(r) /\ t.at \in {"confirm", "moved"}
    <3>1. fs[Vault(task[r].id)] # None /\ fs'[Vault(task[r].id)] = None
      <4>1. task'[r].at \in {"confirm", "moved"} /\ task[r].at \notin {"confirm", "moved"}
        BY <2>4, <2>9 DEF Returning
      <4>2. \A u : Become(r, u) => task'[r] = u
        BY <1>0 DEF Become, GuardInv, TypeOK
      <4>3. \A x : Failed(r, x).at = "failed"
        BY <1>0 DEF Failed, Tasks
      <4>4. ~MoveHash(r)
        <5>1. [task[r] EXCEPT !.at = "rename"].at = "rename"
          BY <1>0 DEF Tasks
        <5>. QED BY <4>1, <4>2, <4>3, <5>1 DEF MoveHash
      <4>5. ~MoveCopy(r)
        <5>1. [task[r] EXCEPT !.at = "unlink"].at = "unlink"
          BY <1>0 DEF Tasks
        <5>. QED BY <4>1, <4>2, <4>3, <5>1 DEF MoveCopy
      <4>6. ~MoveFault(r)
        <5>1. [task[r] EXCEPT !.at = "failed", !.code = "error"].at = "failed"
          BY <1>0 DEF Tasks
        <5>. QED BY <4>1, <4>2, <5>1 DEF MoveFault
      <4>7. ~MoveConfirm(r)
        BY <4>1 DEF MoveConfirm
      <4>8. CASE MoveRename(r)
        <5>1. ~Become(r, Failed(r, None))
          BY <4>1, <4>2, <4>3
        <5>2. fs[Src(r)] # None /\ fs' = [fs EXCEPT ![Src(r)] = None, ![Dst(r)] = fs[Src(r)]]
          BY <4>8, <5>1 DEF MoveRename
        <5>. QED BY <1>0, <2>3, <5>2
      <4>9. CASE MoveUnlink(r)
        <5>1. ~Become(r, Failed(r, None))
          BY <4>1, <4>2, <4>3
        <5>2. fs[Src(r)] # None /\ fs' = [fs EXCEPT ![Src(r)] = None]
          BY <4>9, <5>1 DEF MoveUnlink
        <5>. QED BY <1>0, <2>3, <5>2
      <4>. QED BY <1>5, <4>4, <4>5, <4>6, <4>7, <4>8, <4>9 DEF Move
    <3>2. State(task[r].id, {"quarantined"})
      BY <2>3, <3>1 DEF RestoresApart, State
    <3>3. \A q \in Restorers : q # r /\ Returning(q) => task[q].id # task[r].id
      BY <3>1 DEF RestoresApart
    <3>4. \A q \in Restorers : Returning(q)' => q = r \/ Returning(q)
      BY <2>4 DEF Returning
    <3>5. \A q \in Restorers : task'[q].id = task[q].id
      BY <2>2, <2>4
    <3>6. \A i \in Ids : State(i, {"restored"})' => fs'[Vault(i)] = None
      BY <2>1, <2>6 DEF RestoresApart, State
    <3>7. \A q \in Restorers : Returning(q)' =>
              State(task[q].id, {"quarantined"})' /\ fs'[Vault(task'[q].id)] = None
      <4>1. SUFFICES ASSUME NEW q \in Restorers, Returning(q)'
                     PROVE  State(task[q].id, {"quarantined"}) /\ fs'[Vault(task[q].id)] = None
        BY <2>1, <3>5 DEF State
      <4>2. CASE q = r
        BY <3>1, <3>2, <4>2
      <4>3. CASE q # r
        BY <2>6, <3>4, <4>1, <4>3, RestorerFacts DEF RestoresApart, Returning
      <4>. QED BY <4>2, <4>3
    <3>. QED BY <3>3, <3>4, <3>5, <3>6, <3>7 DEF RestoresApart
  <2>. QED BY <2>7, <2>8, <2>9
<1>. QED BY <1>2, <1>3, <1>4, <1>5 DEF Restore

LEMMA AgentApart ==
    ASSUME GuardInv, CustodyInv, RestoresApart, NEW p \in Paths, Agent(p)
    PROVE  RestoresApart'
<1>1. p \in Holders /\ p \in Actors /\ task \in [Actors -> Tasks]
  BY DEF Holders, Actors, GuardInv, TypeOK
<1>2. CASE QuarantineFailed(p)
  BY <1>1, <1>2, FailureRestores DEF QuarantineFailed, End
<1>3. CASE QuarantineBegin(p) \/ QuarantineRecord(p) \/ Move(p)
  BY <1>1, <1>3, HolderRestores
<1>4. CASE Notify(p) \/ Recheck(p) \/ RecheckFault(p) \/ Stage(p) \/ StageFault(p) \/ StageFailed(p)
  <2>1. UNCHANGED <<fs, manifest>> /\ \E t : Become(p, t)
    <3>1. UNCHANGED task => Become(p, task[p])
      BY <1>1 DEF Become
    <3>. QED BY <1>4, <3>1 DEF Notify, Recheck, RecheckFault, Stage, StageFault, StageFailed, End
  <2>. QED BY <1>1, <2>1, RestoresElsewhere
<1>5. CASE Scan(p) \/ Verify(p) \/ Release(p) \/ Released(p) \/ ReleaseFailed(p)
           \/ QuarantineRefused(p) \/ Incident(p)
  <2>1. UNCHANGED <<fs, manifest>> /\ \E t : Become(p, t)
    BY <1>5 DEF Scan, Verify, Release, Released, ReleaseFailed, QuarantineRefused, Incident, End
  <2>. QED BY <1>1, <2>1, RestoresElsewhere
<1>. QED BY <1>2, <1>3, <1>4, <1>5 DEF Agent, AgentStep

LEMMA InstallApart ==
    ASSUME GuardInv, CustodyInv, RestoresApart, NEW i \in Installers, InstallCall(i)
    PROVE  RestoresApart'
<1>1. i \in Holders
  BY DEF Holders
<1>2. CASE InstallQuarantineFailed(i)
  BY <1>1, <1>2, FailureRestores DEF InstallQuarantineFailed
<1>3. CASE QuarantineBegin(i) \/ QuarantineRecord(i) \/ Move(i)
  BY <1>1, <1>3, HolderRestores
<1>4. CASE InstallBegin(i)
  <2>1. UNCHANGED manifest /\ \E t : Become(i, t)
    BY <1>4 DEF InstallBegin
  <2>2. \A j \in Ids : fs'[Vault(j)] = fs[Vault(j)]
    BY <1>4, LocationFacts DEF InstallBegin, GuardInv, TypeOK
  <2>. QED BY <1>1, <2>1, <2>2, RestoresElsewhere
<1>5. CASE InstallScan(i) \/ InstallVerify(i) \/ InstallAccess(i) \/ InstallEnd(i) \/ InstallFault(i)
  <2>1. UNCHANGED <<fs, manifest>> /\ \E t : Become(i, t)
    BY <1>5 DEF InstallScan, InstallVerify, InstallAccess, InstallEnd, InstallFault
  <2>. QED BY <1>1, <2>1, RestoresElsewhere
<1>. QED BY <1>2, <1>3, <1>4, <1>5 DEF InstallCall, InstallStep

LEMMA EnvironmentApart ==
    ASSUME GuardInv, CustodyInv, RestoresApart,
           (\E p \in Paths : Write(p)) \/ (\E l \in Locations : Damage(l)) \/ Restart
           \/ Reconciled \/ (\E p \in Paths : IsTrustedPath(p))
    PROVE  RestoresApart'
<1>1. ASSUME UNCHANGED <<manifest, task>>,
             \A i \in Ids : fs[Vault(i)] = None => fs'[Vault(i)] = None
      PROVE  RestoresApart'
  BY <1>1, RestoresUndisturbed DEF State, Returning
<1>2. CASE \E p \in Paths : Write(p)
  <2>1. PICK p \in Paths : Write(p)
    BY <1>2
  <2>2. \A i \in Ids : fs'[Vault(i)] = fs[Vault(i)]
    BY <2>1, LocationFacts DEF Write, GuardInv, TypeOK
  <2>. QED BY <1>1, <2>1, <2>2 DEF Write
<1>3. CASE \E l \in Locations : Damage(l)
  <2>1. PICK l \in Locations : Damage(l)
    BY <1>3
  <2>2. \A i \in Ids : fs[Vault(i)] = None => fs'[Vault(i)] = None
    BY <2>1, LocationFacts DEF Damage, GuardInv, TypeOK
  <2>. QED BY <1>1, <2>1, <2>2 DEF Damage
<1>4. CASE Reconciled \/ (\E p \in Paths : IsTrustedPath(p))
  BY <1>1, <1>4 DEF Reconciled, IsTrustedPath, storeVars
<1>5. CASE Restart
  <2>1. \A r \in Restorers : ~Returning(r)'
    BY <1>5 DEF Restart, Returning, Actors, Idle
  <2>2. UNCHANGED <<fs, manifest>>
    BY <1>5 DEF Restart
  <2>. QED BY <2>1, <2>2, RestoresUndisturbed DEF State
<1>. QED BY <1>2, <1>3, <1>4, <1>5

LEMMA InitApart == Init => RestoresApart
<1>. SUFFICES ASSUME Init PROVE RestoresApart
  OBVIOUS
<1>1. /\ \A r \in Restorers : ~Returning(r)
      /\ \A i \in Ids : manifest[i] = None
  BY DEF Init, StoreInit, Returning, Actors, Idle
<1>. QED BY <1>1 DEF RestoresApart, State

LEMMA NextApart ==
    GuardInv /\ CustodyInv /\ RestoresApart /\ [Next]_vars => RestoresApart'
<1>1. SUFFICES ASSUME GuardInv, CustodyInv, RestoresApart, [Next]_vars PROVE RestoresApart'
  OBVIOUS
<1>2. CASE UNCHANGED vars
  BY <1>1, <1>2, RestoresUndisturbed DEF vars, storeVars, State, Returning
<1>3. CASE Next
  BY <1>1, <1>3, AgentApart, RestoreApart, InstallApart, EnvironmentApart DEF Next, RestoreCall
<1>. QED BY <1>1, <1>2, <1>3

(* A restored payload has left the vault, and of all restores of one entry *)
(* at most one has moved the payload (QuarantineStore.restore).            *)
THEOREM RestoresInvariant == Spec => []RestoresInv
BY GuardInvariant, CustodyInvariant, InitApart, NextApart, PTL DEF Spec, RestoresInv

(* A payload is reported restored once: of any number of concurrent        *)
(* restores of one quarantine entry, on one volume or across volumes, at   *)
(* most one reaches its success (QuarantineStore.restore).                 *)
THEOREM RestoredAtMostOnce == Spec => RestoredOnce
<1>1. GuardInv /\ CustodyInv /\ RestoresApart =>
          [\A r \in Restorers : RestoreRecord(r) =>
               manifest[task[r].id].state = "quarantined"]_vars
  BY DEF RestoresApart, Returning, RestoreRecord, State
<1>. QED BY <1>1, GuardInvariant, CustodyInvariant, InitApart, NextApart, PTL DEF Spec, RestoredOnce
=============================================================================
