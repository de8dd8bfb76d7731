-------------------------- MODULE DirectoryWatcher --------------------------
(***************************************************************************)
(* The watcher of the protected game tree: one watch handle per directory, *)
(* debounced change events, a baseline snapshot of every directory when it *)
(* is first watched, and a timer that watches a lost root again.           *)
(*                                                                         *)
(* start, _reconcile and _handle are asynchronous: each call is a job that *)
(* advances one await at a time, and jobs interleave with one another, with*)
(* stop and with the programs that change the tree.  The tree has one root *)
(* and one level of subdirectories.  onEvent (the agent) scans the file as *)
(* it is when the event reaches it.                                        *)
(***************************************************************************)
EXTENDS Naturals, Sequences

CONSTANTS
    Root, Subdirs, Files,
    Home,        \* Files -> the directory a file is in
    Jobs,        \* bound: asynchronous calls in progress at once
    MaxChanges,  \* bound: changes made by other programs
    MaxFaults,   \* bound: watch errors, lost names, events whose scan throws
    MaxStops     \* bound: calls of stop

Dirs == {Root} \cup Subdirs
Targets == Dirs \cup Files

ASSUME WatcherAssumption ==
    /\ Root \notin Subdirs /\ Dirs \cap Files = {}
    /\ Home \in [Files -> Dirs]
    /\ MaxChanges \in Nat /\ MaxFaults \in Nat /\ MaxStops \in Nat

VARIABLES
    there,    \* files and directories that exist
    version,  \* Files -> how often the file has been written
    attached, \* directories whose handle follows the directory that exists
    raised,   \* changes the system will report to a watch handle
    watchers, \* keys of this.watchers
    known,    \* this.knownFiles
    pending,  \* keys of this.pending: debounce timers running
    active, timer, health,
    job,      \* Jobs -> a call in progress
    scanned,  \* Files -> the version last handed to onEvent
    lost,     \* history: directories whose handle was closed or went with them
    changes, faults, stops

treeVars == <<there, version, attached>>
watchVars == <<watchers, known, pending, active, timer, health>>
vars == <<treeVars, raised, watchVars, job, scanned, lost, changes, faults, stops>>

Kinds == {"none", "handle", "reconcile", "start"}
Points == {"idle", "stat", "root", "watch", "read", "walk", "emit"}
Idle == [kind |-> "none", at |-> "idle", target |-> Root, walk |-> <<>>]

Below(d) == IF d = Root THEN Dirs ELSE {d}
Parent(t) == IF t \in Files THEN Home[t] ELSE Root
Children(d) == {t \in there \ {Root} : Parent(t) = d}

Init ==
    /\ there \in {ts \in SUBSET Targets : Root \in ts /\ \A t \in ts : Parent(t) \in ts}
    /\ version = [f \in Files |-> IF f \in there THEN 1 ELSE 0]
    /\ attached = {} /\ raised = {} /\ watchers = {} /\ known = {} /\ pending = {}
    /\ active = FALSE /\ timer = FALSE /\ health = "stopped"
    /\ job = [j \in Jobs |-> Idle]
    /\ scanned = [f \in Files |-> 0] /\ lost = {}
    /\ changes = 0 /\ faults = 0 /\ stops = 0

------------------------------------------------------------------------------
(* Helpers.                                                                *)

Become(j, r) == job' = [job EXCEPT ![j] = r]
Fault == faults < MaxFaults /\ faults' = faults + 1

(* Closing handles loses what the system had still to report to them.      *)
CloseHandles(ds) ==
    /\ watchers' = watchers \ ds
    /\ attached' = attached \ ds
    /\ raised' = {t \in raised : Parent(t) \notin ds}
    /\ lost' = lost \cup (watchers \cap ds)

KeepHandles == UNCHANGED <<watchers, attached, raised, lost>>

(* What a job does after an entry is dealt with: back to the directory     *)
(* being read, or at its end.                                              *)
Resume(r) == [r EXCEPT !.at = "walk"]

(* Mutant of Visit: a directory that appears later is not watched.         *)
VisitBaselineOnly(r, d) ==
    IF d \in watchers \/ r.kind = "handle" THEN Resume(r)
    ELSE [r EXCEPT !.at = "watch", !.target = d]

(* _watchDirectory(d): a directory that is already watched is not visited. *)
Visit(r, d) == IF d \in watchers THEN Resume(r) ELSE [r EXCEPT !.at = "watch", !.target = d]

------------------------------------------------------------------------------
(* Other programs and the system.                                          *)

Save(f) ==
    /\ changes < MaxChanges /\ changes' = changes + 1
    /\ Home[f] \in there
    /\ there' = there \cup {f}
    /\ version' = [version EXCEPT ![f] = @ + 1]
    /\ raised' = IF Home[f] \in attached THEN raised \cup {f} ELSE raised
    /\ UNCHANGED <<attached, watchVars, job, scanned, lost, faults, stops>>

MakeDir(d) ==
    /\ changes < MaxChanges /\ changes' = changes + 1
    /\ d \notin there /\ (d = Root \/ Root \in there)
    /\ there' = there \cup {d}
    /\ raised' = IF d # Root /\ Root \in attached THEN raised \cup {d} ELSE raised
    /\ UNCHANGED <<version, attached, watchVars, job, scanned, lost, faults, stops>>

(* A directory goes with everything in it; its handle follows nothing.     *)
Remove(t) ==
    /\ changes < MaxChanges /\ changes' = changes + 1
    /\ t \in there
    /\ LET gone == IF t \in Files THEN {t}
                   ELSE Below(t) \cup {f \in Files : Home[f] \in Below(t)}
       IN /\ there' = there \ gone
          /\ attached' = attached \ gone
          /\ lost' = lost \cup (watchers \cap gone)
    /\ raised' = IF t # Root /\ Parent(t) \in attached THEN raised \cup {t} ELSE raised
    /\ UNCHANGED <<version, watchVars, job, scanned, faults, stops>>

(* The 'error' event of a handle.                                          *)
WatcherError(d) ==
    /\ Fault
    /\ d \in watchers
    /\ CloseHandles(Below(d))
    /\ health' = "degraded"
    /\ UNCHANGED <<there, version, known, pending, active, timer, job, scanned, changes, stops>>

(* A change reported without a file name.                                  *)
NamelessEvent(t) ==
    /\ Fault
    /\ t \in raised
    /\ raised' = raised \ {t}
    /\ health' = "degraded"
    /\ UNCHANGED <<treeVars, watchers, known, pending, active, timer, job, scanned, lost,
                   changes, stops>>

(* The handle's callback: _schedule (re)starts the debounce timer.         *)
Schedule(t) ==
    /\ t \in raised
    /\ raised' = raised \ {t}
    /\ pending' = pending \cup {t}
    /\ UNCHANGED <<treeVars, watchers, known, active, timer, health, job, scanned, lost,
                   changes, faults, stops>>

------------------------------------------------------------------------------
(* The calls.                                                              *)

Fire(j, t) ==
    /\ job[j] = Idle /\ t \in pending
    /\ pending' = pending \ {t}
    /\ Become(j, [Idle EXCEPT !.kind = "handle", !.at = "stat", !.target = t])
    /\ UNCHANGED <<treeVars, raised, watchers, known, active, timer, health, scanned,
                   lost, changes, faults, stops>>

(* Mutant of Stat: a change of a file that is already known is not handled.*)
StatUnknownOnly(j) ==
    /\ job[j].at = "stat"
    /\ LET t == job[j].target IN
       \/ /\ t \in there \cap Dirs
          /\ Become(j, Visit(job[j], t))
          /\ KeepHandles /\ UNCHANGED known
       \/ /\ t \in there \cap Files
          /\ known' = known \cup {t}
          /\ Become(j, IF t \in known THEN Idle ELSE [job[j] EXCEPT !.at = "emit"])
          /\ KeepHandles
       \/ /\ t \notin there
          /\ IF t \in watchers THEN CloseHandles(Below(t)) ELSE KeepHandles
          /\ known' = known \ {t}
          /\ Become(j, Idle)
    /\ UNCHANGED <<there, version, pending, active, timer, health, scanned,
                   changes, faults, stops>>

(* _handle up to its emit: a file_removed event is ignored by the agent.   *)
Stat(j) ==
    /\ job[j].at = "stat"
    /\ LET t == job[j].target IN
       \/ /\ t \in there \cap Dirs
          /\ Become(j, Visit(job[j], t))
          /\ KeepHandles /\ UNCHANGED known
       \/ /\ t \in there \cap Files
          /\ known' = known \cup {t}
          /\ Become(j, [job[j] EXCEPT !.at = "emit"])
          /\ KeepHandles
       \/ /\ t \notin there
          /\ IF t \in watchers THEN CloseHandles(Below(t)) ELSE KeepHandles
          /\ known' = known \ {t}
          /\ Become(j, Idle)
    /\ UNCHANGED <<there, version, pending, active, timer, health, scanned,
                   changes, faults, stops>>

(* start: active is set before the first await.                            *)
Start(j) ==
    /\ job[j] = Idle /\ ~active
    /\ active' = TRUE
    /\ Become(j, [Idle EXCEPT !.kind = "start", !.at = "root"])
    /\ UNCHANGED <<treeVars, raised, watchers, known, pending, timer, health, scanned,
                   lost, changes, faults, stops>>

(* The reconcile timer; a call that finds the watcher stopped does nothing.*)
Reconcile(j) ==
    /\ job[j] = Idle /\ timer /\ active
    /\ Become(j, [Idle EXCEPT !.kind = "reconcile", !.at = "root"])
    /\ UNCHANGED <<treeVars, raised, watchVars, scanned, lost, changes, faults, stops>>

(* Mutant of RunsTimer: the interval is not installed.                     *)
RunsTimerNever(j) == timer /\ job[j].kind # "none"

(* start installs the reconcile interval when its own reconcile is over.   *)
RunsTimer(j) == timer \/ job[j].kind = "start"

(* An exception: _handle's caller reports it; _reconcile drops the tree of *)
(* the root and counts a failure.                                          *)
Throw(j) ==
    /\ IF job[j].kind = "handle" THEN KeepHandles ELSE CloseHandles(Dirs)
    /\ timer' = RunsTimer(j)
    /\ health' = "degraded"
    /\ Become(j, Idle)

(* _reconcile stats the root before it watches it.                         *)
RootStat(j) ==
    /\ job[j].at = "root"
    /\ \/ /\ Root \in there
          /\ Become(j, Visit(job[j], Root))
          /\ KeepHandles /\ UNCHANGED <<timer, health>>
       \/ Root \notin there /\ Throw(j)
    /\ UNCHANGED <<there, version, known, pending, active, scanned, changes, faults, stops>>

(* lstat and fs.watch; the handle exists before the directory is read.     *)
Watch(j) ==
    /\ job[j].at = "watch"
    /\ LET d == job[j].target IN
       \/ /\ d \in there
          /\ watchers' = watchers \cup {d}
          /\ attached' = attached \cup {d}
          /\ Become(j, [job[j] EXCEPT !.at = "read"])
          /\ UNCHANGED <<raised, lost, timer, health>>
       \/ d \notin there /\ Throw(j)
    /\ UNCHANGED <<there, version, known, pending, active, scanned, changes, faults, stops>>

Read(j) ==
    /\ job[j].at = "read"
    /\ \/ /\ job[j].target \in there
          /\ Become(j, Resume([job[j] EXCEPT !.walk = Append(@, Children(job[j].target))]))
          /\ KeepHandles /\ UNCHANGED <<timer, health>>
       \/ job[j].target \notin there /\ Throw(j)
    /\ UNCHANGED <<there, version, known, pending, active, scanned, changes, faults, stops>>

(* The loop of _snapshotDirectory.  Entries that need nothing are passed   *)
(* over without an await; the order of the others is the file system's.    *)
Open(j) == {t \in job[j].walk[Len(job[j].walk)] : t \notin watchers \cup known}

Walk(j) ==
    /\ job[j].at = "walk" /\ job[j].walk # <<>>
    /\ LET last == Len(job[j].walk)
           Without(t) == [job[j] EXCEPT !.walk[last] = @ \ {t}]
       IN \/ /\ Open(j) = {}
             /\ Become(j, [job[j] EXCEPT !.walk = SubSeq(@, 1, last - 1)])
             /\ UNCHANGED known
          \/ \E d \in Open(j) \cap Dirs :
                Become(j, Visit(Without(d), d)) /\ UNCHANGED known
          \/ \E f \in Open(j) \cap Files :
                /\ known' = known \cup {f}
                /\ Become(j, [Without(f) EXCEPT !.at = "emit", !.target = f])
    /\ UNCHANGED <<treeVars, raised, watchers, pending, active, timer, health, scanned,
                   lost, changes, faults, stops>>

(* lstat and onEvent; the agent scans what is there, or throws.            *)
Emit(j) ==
    /\ job[j].at = "emit"
    /\ \/ /\ scanned' = IF job[j].target \in there
                        THEN [scanned EXCEPT ![job[j].target] = version[job[j].target]]
                        ELSE scanned
          /\ Become(j, Resume(job[j]))
          /\ KeepHandles /\ UNCHANGED <<timer, health, faults>>
       \/ Fault /\ Throw(j) /\ UNCHANGED scanned
    /\ UNCHANGED <<there, version, known, pending, active, changes, stops>>

(* The call is over: _reconcile reports healthy when every root is watched *)
(* and health is not healthy, start also when health is not degraded.      *)
Finish(j) ==
    /\ job[j].at = "walk" /\ job[j].walk = <<>>
    /\ health' = IF \/ job[j].kind # "handle" /\ watchers # {}
                    \/ job[j].kind = "start" /\ health # "degraded"
                 THEN "healthy" ELSE health
    /\ timer' = RunsTimer(j)
    /\ Become(j, Idle)
    /\ KeepHandles
    /\ UNCHANGED <<there, version, known, pending, active, scanned, changes, faults, stops>>

Stop ==
    /\ stops < MaxStops /\ stops' = stops + 1
    /\ active
    /\ CloseHandles(Dirs)
    /\ pending' = {}
    /\ active' = FALSE /\ timer' = FALSE /\ health' = "stopped"
    /\ UNCHANGED <<there, version, known, job, scanned, changes, faults>>

(* One await of a call in progress.                                        *)
Step(j) == \/ Stat(j) \/ RootStat(j) \/ Watch(j) \/ Read(j)
           \/ Walk(j) \/ Emit(j) \/ Finish(j)

Next ==
    \/ \E f \in Files : Save(f)
    \/ \E d \in Dirs : MakeDir(d) \/ WatcherError(d)
    \/ \E t \in Targets : Remove(t) \/ NamelessEvent(t) \/ Schedule(t)
    \/ \E j \in Jobs : Start(j) \/ Reconcile(j) \/ Step(j)
    \/ \E j \in Jobs, t \in Targets : Fire(j, t)
    \/ Stop

Spec == Init /\ [][Next]_vars

(* The event loop runs every promise, debounce timer and interval.         *)
Fairness ==
    /\ \A j \in Jobs : WF_vars(Step(j))
    /\ \A t \in Targets : WF_vars(Schedule(t)) /\ WF_vars(\E j \in Jobs : Fire(j, t))
    /\ WF_vars(\E j \in Jobs : Reconcile(j))

FairSpec == Spec /\ Fairness

------------------------------------------------------------------------------
Calls == [kind : Kinds, at : Points, target : Targets, walk : Seq(SUBSET Targets)]

TypeOK ==
    /\ there \subseteq Targets /\ version \in [Files -> Nat]
    /\ attached \subseteq Dirs /\ raised \subseteq Targets
    /\ watchers \subseteq Dirs /\ known \subseteq Files /\ pending \subseteq Targets
    /\ active \in BOOLEAN /\ timer \in BOOLEAN
    /\ health \in {"stopped", "healthy", "degraded"}
    /\ job \in [Jobs -> Calls]
    /\ scanned \in [Files -> Nat] /\ lost \subseteq Dirs
    /\ changes \in 0 .. MaxChanges /\ faults \in 0 .. MaxFaults /\ stops \in 0 .. MaxStops

(* Something that leads to a scan of f, or of the directory it is in, is   *)
(* still to come.                                                          *)
Coming(t) ==
    \/ t \in raised \cup pending
    \/ \E j \in Jobs :
          \/ job[j].at \in {"stat", "watch", "read", "emit"} /\ job[j].target = t
          \/ job[j].at = "root" /\ t = Root
          \/ \E n \in 1 .. Len(job[j].walk) : t \in job[j].walk[n]

OnItsWay(f) == Coming(f) \/ Coming(Home[f]) \/ Coming(Root)

(* Healthy means nothing is missed: while the watcher is active, reports   *)
(* healthy, has its root and no watch or scan failed, every file of the    *)
(* tree is known or on its way to a scan, and was scanned in its last      *)
(* version unless the handle of its directory was closed or removed with   *)
(* the directory meanwhile; handles that follow a removed directory aside  *)
(* (_snapshotDirectory, _schedule, _handle).                               *)
Trustworthy == /\ active /\ health = "healthy" /\ faults = 0
               /\ Root \in watchers /\ watchers \subseteq attached

HealthyMissesNothing ==
    Trustworthy => \A f \in Files \cap there :
        \/ OnItsWay(f)
        \/ f \in known /\ (scanned[f] = version[f] \/ Home[f] \in lost)

(* The inductive invariant behind HealthyMissesNothing.                    *)
At(point, t) == \E j \in Jobs : job[j].at = point /\ job[j].target = t
Listed(t) == \E j \in Jobs : \E n \in 1 .. Len(job[j].walk) : t \in job[j].walk[n]

(* Whether a call still has to look at t itself, or lists it again.        *)
Noticed(t) == t \in raised \cup pending \/ At("stat", t)

(* A file is only dealt with once its directory has had a handle.          *)
Touched(f) == \/ Noticed(f) \/ f \in known \/ At("emit", f)
              \/ Listed(f) \/ At("read", Home[f])

(* A file below a handle that works: a new one will be found, and a known  *)
(* one scanned again, unless its directory was without a handle meanwhile. *)
Covered(f) ==
    /\ f \notin known => Noticed(f) \/ Listed(f) \/ At("read", Home[f])
    /\ f \in known /\ Home[f] \notin lost =>
          Noticed(f) \/ At("emit", f) \/ scanned[f] = version[f]

(* A directory below the root's handle: it is watched or will be.          *)
Followed(d) == d \in watchers \/ Noticed(d) \/ At("watch", d) \/ Listed(d) \/ At("read", Root)

(* A call that handles an event holds at most one listing, of files: the   *)
(* root is never reported to anyone.                                       *)
Shaped(r) ==
    /\ r.at \in {"watch", "read"} => r.target \in Dirs
    /\ r.at = "emit" => r.target \in Files
    /\ r.at = "stat" => r.kind = "handle"
    /\ r.at = "root" => r.kind # "handle"
    /\ r.kind = "handle" =>
          /\ r.target # Root
          /\ \A n \in 1 .. Len(r.walk) : r.walk[n] \subseteq Files
          /\ r.at \in {"stat", "watch", "read"} => r.walk = <<>>

NothingMissed ==
    /\ \A f \in Files : Touched(f) => Home[f] \in attached \cup lost
    /\ \A f \in Files \cap there : Home[f] \in attached => Covered(f)
    /\ Root \in attached => \A d \in Subdirs \cap there : Followed(d)

WatcherInv ==
    /\ TypeOK
    /\ \A t \in there : Parent(t) \in there
    /\ attached \subseteq watchers /\ Root \notin raised \cup pending
    /\ \A j \in Jobs : Shaped(job[j])
    /\ faults = 0 => NothingMissed

(* The handle of the root is lost and the root exists: the reconcile timer *)
(* watches it again, until the watcher is stopped.                         *)
LostRootRecreated ==
    (active /\ Root \notin watchers) ~> (Root \in watchers \/ Root \notin there \/ ~active)

(* When start reports healthy, every file of the tree has been scanned in  *)
(* its current version or is on its way to a scan.                         *)
BaselineBeforeStartReturns ==
    [][\A j \in Jobs : Finish(j) /\ job[j].kind = "start" /\ active /\ health' = "healthy" =>
           \A f \in Files \cap there : scanned[f] = version[f] \/ OnItsWay(f)]_vars
=============================================================================
