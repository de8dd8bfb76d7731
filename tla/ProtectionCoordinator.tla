------------------------ MODULE ProtectionCoordinator ------------------------
(***************************************************************************)
(* Real-time protection as the service composes it: the ACL gate that locks*)
(* the protected roots, the directory watcher, the runtime process guard,  *)
(* and the coordinator that starts, checks and stops the three and tells   *)
(* the desktop whether protection is complete.                             *)
(*                                                                         *)
(* Nothing serialises the calls: the HTTP handler and two intervals begin  *)
(* them, and each advances one helper process, baseline or poll at a time. *)
(* A step is what runs between two such waits.  The service runs on Windows*)
(* and requires the runtime guard (server.js); elsewhere start only answers*)
(* "blocked".                                                              *)
(***************************************************************************)
EXTENDS Naturals

CONSTANTS
    NRoots,      \* the configured watch roots
    Jobs,        \* bound: calls in progress at once
    MaxFaults,   \* bound: failed helpers, baselines and polls
    MaxLosses    \* bound: locks and watches lost to other programs

ASSUME CoordinatorAssumption ==
    NRoots \in Nat \ {0} /\ MaxFaults \in Nat /\ MaxLosses \in Nat

Roots == 1 .. NRoots

VARIABLES
    locked,   \* roots that carry the protecting ACL
    saved,    \* roots with an ACL backup below the state root
    watch,    \* the agent's watcher: [active, health]
    guard,    \* RuntimeGameProcessGuard: [active, timer, state]
    active, timer, status,   \* ProtectionCoordinator
    job,      \* Jobs -> a call in progress
    faults, losses

gateVars == <<locked, saved>>
coordVars == <<active, timer, status>>
vars == <<gateVars, watch, guard, coordVars, job, faults, losses>>

Kinds == {"none", "start", "stop", "check", "enable", "disable", "poll"}
Points == {"idle", "protect", "status", "restore", "watch", "baseline", "poll", "recount"}

(* n: the next root of a helper loop.  seen: every root so far is locked.  *)
(* again: the gate has been repaired.  watch: the watcher was healthy.     *)
(* alone: a stop that no other call has overlapped (history).              *)
Idle == [kind |-> "none", at |-> "idle", n |-> 1, seen |-> TRUE,
         again |-> FALSE, watch |-> FALSE, alone |-> TRUE]

Up == [active |-> TRUE, healthy |-> TRUE]
Down == [active |-> FALSE, healthy |-> FALSE]

(* The locks and backups of an earlier run of the service are still there. *)
Init ==
    /\ saved \in SUBSET Roots /\ locked \in SUBSET saved
    /\ watch = [active |-> FALSE, health |-> "stopped"]
    /\ guard = [active |-> FALSE, timer |-> FALSE, state |-> Down]
    /\ active = FALSE /\ timer = FALSE
    /\ status = [active |-> FALSE, complete |-> FALSE, gate |-> FALSE, state |-> "stopped"]
    /\ job = [j \in Jobs |-> Idle]
    /\ faults = 0 /\ losses = 0

------------------------------------------------------------------------------
(* Helpers.                                                                *)

Fault == faults < MaxFaults /\ faults' = faults + 1
NoFault == UNCHANGED faults
Loss == losses < MaxLosses /\ losses' = losses + 1

Become(j, r) == job' = [job EXCEPT ![j] = r]
End(j) == Become(j, Idle)

(* A call begins: a stop is alone if no other call is in progress, and no  *)
(* longer when one begins.                                                 *)
Begin(j, kind, at) ==
    job' = [k \in Jobs |->
              IF k = j THEN [Idle EXCEPT !.kind = kind, !.at = at, !.alone =
                               kind = "stop" => \A o \in Jobs : job[o] = Idle]
              ELSE [job[k] EXCEPT !.alone = job[k].kind # "stop"]]

(* ProtectionCoordinator._set, the fields a caller acts on.                *)
SetStatus(a, complete, gate, state) ==
    status' = [active |-> a, complete |-> complete, gate |-> gate, state |-> state]

(* _checkGate's _set.                                                      *)
Conclude(j, gate, watched, runtime) ==
    LET complete == gate /\ watched /\ runtime = Up IN
    /\ SetStatus(TRUE, complete, gate, IF complete THEN "healthy" ELSE "degraded")
    /\ End(j)

(* The catch of each call: start looks at the gate once more, a check says *)
(* degraded, a stop goes on with nothing restored, the others give up.     *)
Fail(j) ==
    CASE job[j].kind = "start" ->
            /\ Become(j, [job[j] EXCEPT !.at = "recount", !.n = 1, !.seen = TRUE])
            /\ UNCHANGED coordVars
      [] job[j].kind = "check" ->
            /\ SetStatus(TRUE, FALSE, status.gate, "degraded")
            /\ End(j) /\ UNCHANGED <<active, timer>>
      [] job[j].kind = "stop" ->
            /\ SetStatus(FALSE, FALSE, TRUE, "degraded")
            /\ active' = FALSE
            /\ End(j) /\ UNCHANGED timer
      [] OTHER -> End(j) /\ UNCHANGED coordVars

------------------------------------------------------------------------------
(* The calls begin.                                                        *)

(* POST /api/guard/start.                                                  *)
Start(j) ==
    /\ job[j] = Idle
    /\ ~(active /\ status.complete)
    /\ Begin(j, "start", "protect")
    /\ UNCHANGED <<gateVars, watch, guard, coordVars, faults, losses>>

(* Mutant of WatcherUp: only what the coordinator itself has started.      *)
WatcherUpIfActive == active

(* stop stops the watcher of an active coordinator and of a failed start.  *)
WatcherUp == active \/ watch.active

(* POST /api/guard/stop up to the first helper of restoreAll.              *)
Stop(j) ==
    /\ job[j] = Idle
    /\ timer' = FALSE
    /\ guard' = [active |-> FALSE, timer |-> FALSE, state |-> Down]
    /\ watch' = IF WatcherUp THEN [active |-> FALSE, health |-> "stopped"] ELSE watch
    /\ Begin(j, "stop", "restore")
    /\ UNCHANGED <<gateVars, active, status, faults, losses>>

(* The monitor interval.                                                   *)
Tick(j) ==
    /\ job[j] = Idle /\ timer /\ active
    /\ Begin(j, "check", "status")
    /\ UNCHANGED <<gateVars, watch, guard, coordVars, faults, losses>>

(* GET /api/guard/status refreshes without the timer.                      *)
Refresh(j) ==
    /\ job[j] = Idle /\ active
    /\ Begin(j, "check", "status")
    /\ UNCHANGED <<gateVars, watch, guard, coordVars, faults, losses>>

(* The runtime guard's own interval, and GET /api/runtime-process/status.  *)
BeginPoll(j) ==
    /\ job[j] = Idle /\ guard.active
    /\ Begin(j, "poll", "poll")
    /\ UNCHANGED <<gateVars, watch, guard, coordVars, faults, losses>>

(* POST /api/access-gate/enable, and /disable unless protection is active. *)
Enable(j) ==
    /\ job[j] = Idle
    /\ Begin(j, "enable", "protect")
    /\ UNCHANGED <<gateVars, watch, guard, coordVars, faults, losses>>

Disable(j) ==
    /\ job[j] = Idle /\ ~status.active
    /\ Begin(j, "disable", "restore")
    /\ UNCHANGED <<gateVars, watch, guard, coordVars, faults, losses>>

------------------------------------------------------------------------------
(* The ACL helper, one root at a time.  A run that fails (an exit code, a  *)
(* timeout, an answer that does not parse) may have set the ACL.           *)

(* Mutant of More: one root too many.                                      *)
MoreInclusive(j) == job[j].n <= NRoots

(* The loop over the roots has another one.                                *)
More(j) == job[j].n < NRoots

Protect(j) ==
    /\ job[j].at = "protect"
    /\ \/ /\ locked' = locked \cup {job[j].n} /\ saved' = saved \cup {job[j].n}
          /\ CASE More(j) -> Become(j, [job[j] EXCEPT !.n = @ + 1])
               [] ~More(j) /\ job[j].kind = "enable" -> End(j)
               [] OTHER -> Become(j, [job[j] EXCEPT !.at = "status", !.n = 1, !.seen = TRUE])
          /\ NoFault /\ UNCHANGED coordVars
       \/ /\ Fault
          /\ \/ locked' = locked \cup {job[j].n} /\ saved' = saved \cup {job[j].n}
             \/ UNCHANGED gateVars
          /\ Fail(j)
    /\ UNCHANGED <<watch, guard, losses>>

(* Without a backup there is nothing to restore and the helper throws.     *)
Restore(j) ==
    /\ job[j].at = "restore"
    /\ \/ /\ job[j].n \in saved
          /\ locked' = locked \ {job[j].n}
          /\ CASE More(j) -> Become(j, [job[j] EXCEPT !.n = @ + 1]) /\ UNCHANGED coordVars
               [] ~More(j) /\ job[j].kind = "stop" ->
                     /\ SetStatus(FALSE, FALSE, FALSE, "stopped")
                     /\ active' = FALSE
                     /\ End(j) /\ UNCHANGED timer
               [] OTHER -> End(j) /\ UNCHANGED coordVars
          /\ NoFault
       \/ /\ job[j].n \notin saved
          /\ Fail(j) /\ NoFault /\ UNCHANGED locked
       \/ /\ Fault
          /\ Fail(j)
          /\ locked' \in {locked, locked \ ({job[j].n} \cap saved)}
    /\ UNCHANGED <<saved, watch, guard, losses>>

(* status reads the ACL of one root; the last answer is judged below.      *)
ReadStatus(j) ==
    /\ job[j].at \in {"status", "recount"} /\ job[j].n \in Roots
    /\ \/ /\ Become(j, [job[j] EXCEPT !.n = @ + 1, !.seen = @ /\ job[j].n \in locked])
          /\ NoFault /\ UNCHANGED coordVars
       \/ /\ Fault
          /\ IF job[j].at = "recount"
             THEN /\ Become(j, [job[j] EXCEPT !.n = NRoots + 1, !.seen = FALSE])
                  /\ UNCHANGED coordVars
             ELSE Fail(j)
    /\ UNCHANGED <<gateVars, watch, guard, losses>>

Answered(j, kind) == /\ job[j].kind = kind /\ job[j].at = "status"
                     /\ job[j].n = NRoots + 1

------------------------------------------------------------------------------
(* start, after the gate.                                                  *)

(* The gate must verify before the watcher is started.                     *)
Verify(j) ==
    /\ Answered(j, "start")
    /\ \/ /\ job[j].seen
          /\ Become(j, [job[j] EXCEPT !.at = "watch"])
          /\ UNCHANGED coordVars
       \/ ~job[j].seen /\ Fail(j)
    /\ UNCHANGED <<gateVars, watch, guard, faults, losses>>

(* start's success: the claim, and the interval that keeps it.             *)
Succeed(j) ==
    /\ active' = TRUE /\ timer' = TRUE
    /\ SetStatus(TRUE, TRUE, TRUE, "healthy")
    /\ End(j)

(* The watcher reports healthy: a runtime guard that is up is not polled.  *)
StartRuntime(j) ==
    IF guard.active /\ guard.state.healthy
    THEN /\ IF guard.state = Up THEN Succeed(j) ELSE Fail(j)
         /\ UNCHANGED guard
    ELSE /\ guard' = [guard EXCEPT !.active = TRUE]
         /\ Become(j, [job[j] EXCEPT !.at = "poll"])
         /\ UNCHANGED coordVars

(* agent.startWatching: a watcher that is active answers with its health.  *)
StartWatch(j) ==
    /\ job[j].at = "watch"
    /\ \/ /\ ~watch.active
          /\ watch' = [watch EXCEPT !.active = TRUE]
          /\ Become(j, [job[j] EXCEPT !.at = "baseline"])
          /\ UNCHANGED <<guard, coordVars>> /\ NoFault
       \/ /\ watch.active /\ watch.health = "healthy"
          /\ StartRuntime(j) /\ NoFault /\ UNCHANGED watch
       \/ /\ watch.active /\ watch.health # "healthy"
          /\ Fail(j) /\ NoFault /\ UNCHANGED <<watch, guard>>
       \/ Fault /\ Fail(j) /\ UNCHANGED <<watch, guard>>
    /\ UNCHANGED <<gateVars, losses>>

(* The baseline ends; a watcher stopped meanwhile answers all the same.    *)
Baseline(j) ==
    /\ job[j].at = "baseline"
    /\ \/ /\ watch' = [watch EXCEPT !.health = "healthy"]
          /\ StartRuntime(j) /\ NoFault
       \/ /\ Fault
          /\ watch' = [watch EXCEPT !.health = "degraded"]
          /\ Fail(j) /\ UNCHANGED guard
    /\ UNCHANGED <<gateVars, losses>>

(* start failed and has looked at the gate again.                          *)
FailClosed(j) ==
    /\ job[j].at = "recount" /\ job[j].n = NRoots + 1
    /\ active' = FALSE /\ timer' = FALSE
    /\ SetStatus(FALSE, FALSE, job[j].seen, IF job[j].seen THEN "fail_closed" ELSE "blocked")
    /\ End(j)
    /\ UNCHANGED <<gateVars, watch, guard, faults, losses>>

------------------------------------------------------------------------------
(* _checkGate, and the polls of the runtime guard.                         *)

(* Mutant of Seen: a gate that answers is taken for protected.             *)
SeenAlways(j) == job[j].seen \/ job[j].kind = "check"

Seen(j) == job[j].seen

(* An unlocked root is locked again once; then the watcher's health is     *)
(* read, and an active runtime guard polled.                               *)
Judge(j) ==
    LET watched == watch.active /\ watch.health = "healthy" IN
    /\ Answered(j, "check")
    /\ \/ /\ ~Seen(j) /\ ~job[j].again
          /\ Become(j, [job[j] EXCEPT !.at = "protect", !.n = 1, !.again = TRUE])
          /\ UNCHANGED coordVars
       \/ /\ Seen(j) \/ job[j].again
          /\ guard.active
          /\ Become(j, [job[j] EXCEPT !.at = "poll", !.watch = watched])
          /\ UNCHANGED coordVars
       \/ /\ Seen(j) \/ job[j].again
          /\ ~guard.active
          /\ Conclude(j, Seen(j), watched, guard.state)
          /\ UNCHANGED <<active, timer>>
    /\ UNCHANGED <<gateVars, watch, guard, faults, losses>>

(* RuntimeGameProcessGuard.poll ends: it writes active into the state even *)
(* if the guard has been stopped meanwhile; a start that fails takes it    *)
(* down, one that succeeds installs its interval.                          *)
Poll(j) ==
    /\ job[j].at = "poll"
    /\ \E ok \in BOOLEAN :
        LET result == [active |-> TRUE, healthy |-> ok] IN
        /\ IF ok THEN NoFault ELSE Fault
        /\ CASE job[j].kind = "start" /\ ok ->
                   guard' = [guard EXCEPT !.timer = TRUE, !.state = result] /\ Succeed(j)
             [] job[j].kind = "start" /\ ~ok ->
                   guard' = [guard EXCEPT !.active = FALSE, !.state = Down] /\ Fail(j)
             [] job[j].kind = "check" ->
                   /\ guard' = [guard EXCEPT !.state = result]
                   /\ Conclude(j, Seen(j), job[j].watch, result)
                   /\ UNCHANGED <<active, timer>>
             [] OTHER ->
                   /\ guard' = [guard EXCEPT !.state = result]
                   /\ End(j) /\ UNCHANGED coordVars
    /\ UNCHANGED <<gateVars, watch, losses>>

------------------------------------------------------------------------------
(* Other programs.                                                         *)

(* An administrator or an installer replaces the ACL of a root.            *)
Unlock(r) ==
    /\ Loss
    /\ r \in locked /\ locked' = locked \ {r}
    /\ UNCHANGED <<saved, watch, guard, coordVars, job, faults>>

(* A watch fails; the watcher's reconcile watches again.                   *)
WatchFails ==
    /\ Loss
    /\ watch = [active |-> TRUE, health |-> "healthy"]
    /\ watch' = [watch EXCEPT !.health = "degraded"]
    /\ UNCHANGED <<gateVars, guard, coordVars, job, faults>>

WatchRecovers ==
    /\ watch = [active |-> TRUE, health |-> "degraded"]
    /\ watch' = [watch EXCEPT !.health = "healthy"]
    /\ UNCHANGED <<gateVars, guard, coordVars, job, faults, losses>>

Step(j) ==
    \/ Protect(j) \/ Restore(j) \/ ReadStatus(j) \/ Verify(j) \/ StartWatch(j)
    \/ Baseline(j) \/ FailClosed(j) \/ Judge(j) \/ Poll(j)

Next ==
    \/ \E j \in Jobs : \/ Start(j) \/ Stop(j) \/ Tick(j) \/ Refresh(j)
                       \/ BeginPoll(j) \/ Enable(j) \/ Disable(j) \/ Step(j)
    \/ \E r \in Roots : Unlock(r)
    \/ WatchFails \/ WatchRecovers

Spec == Init /\ [][Next]_vars

(* Helper processes end or are killed by their timeout, so every call goes *)
(* on; the interval fires whatever else is in progress, and must find a    *)
(* place among the Jobs because those are only a bound of the model.       *)
Fairness ==
    /\ \A j \in Jobs : WF_vars(Step(j))
    /\ SF_vars(\E j \in Jobs : Tick(j))

FairSpec == Spec /\ Fairness

------------------------------------------------------------------------------
Calls == [kind : Kinds, at : Points, n : 1 .. NRoots + 1, seen : BOOLEAN,
          again : BOOLEAN, watch : BOOLEAN, alone : BOOLEAN]

Statuses == [active : BOOLEAN, complete : BOOLEAN, gate : BOOLEAN,
             state : {"stopped", "healthy", "degraded", "fail_closed", "blocked"}]

TypeOK ==
    /\ saved \subseteq Roots /\ locked \subseteq Roots
    /\ watch \in [active : BOOLEAN, health : {"stopped", "healthy", "degraded"}]
    /\ guard \in [active : BOOLEAN, timer : BOOLEAN,
                  state : [active : BOOLEAN, healthy : BOOLEAN]]
    /\ active \in BOOLEAN /\ timer \in BOOLEAN
    /\ status \in Statuses
    /\ job \in [Jobs -> Calls]
    /\ faults \in 0 .. MaxFaults /\ losses \in 0 .. MaxLosses

(* The part of a claim of complete protection that the monitor looks after.*)
Watched == locked = Roots /\ watch = [active |-> TRUE, health |-> "healthy"]

(* The monitor keeps the claim honest: while the coordinator is active and *)
(* its interval runs, complete protection that has lost a lock or the      *)
(* watcher gets it back or is no longer claimed (_checkGate with all its   *)
(* overlapping calls).                                                     *)
LossIsNoticed ==
    (status.complete /\ ~Watched)
        ~> (~status.complete \/ Watched \/ ~(active /\ timer))

(* A stop that no other call overlaps and that reports "stopped" leaves    *)
(* nothing on, whatever a failed start, a check or a loss has left before  *)
(* it: no root locked, nothing watched, polled or ticking (stop).          *)
StoppedMeansOff ==
    [][\A j \in Jobs :
        /\ job[j].kind = "stop" /\ job[j].alone
        /\ job'[j] = Idle /\ status'.state = "stopped"
        => /\ locked' = {} /\ ~watch.active
           /\ ~guard.active /\ ~guard.timer /\ ~timer /\ ~active']_vars

(* The inductive invariant behind TypeOK and StoppedMeansOff: a loop over  *)
(* the roots is at a root, a stop only restores, and behind a stop that    *)
(* nothing overlaps everything it has switched off stays off and the roots *)
(* it has restored stay unlocked.                                          *)
Formed(c) ==
    /\ c.at \in {"protect", "restore"} => c.n \in Roots
    /\ c.kind = "stop" => c.at = "restore"

AloneStop(c) == c.kind = "stop" /\ c.alone

OffBehind(j) ==
    /\ \A k \in Jobs \ {j} : job[k] = Idle
    /\ ~timer /\ ~guard.active /\ ~guard.timer /\ ~watch.active
    /\ \A r \in locked : r >= job[j].n

CoordinatorInv ==
    /\ TypeOK
    /\ \A j \in Jobs : Formed(job[j])
    /\ \A j \in Jobs : AloneStop(job[j]) => OffBehind(j)

(* Complete protection that has been disturbed - a root unlocked, nothing  *)
(* watched, the runtime guard off - is repaired or no longer claimed (what *)
(* tests/protection-coordinator.test.js says of _checkGate).               *)
DisturbedIsRepaired ==
    (status.complete /\ ~(Watched /\ guard.active))
        ~> (~status.complete \/ (Watched /\ guard.active))
=============================================================================
