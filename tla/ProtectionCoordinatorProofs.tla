--------------------- MODULE ProtectionCoordinatorProofs ---------------------
(***************************************************************************)
(* For any number of roots, of calls in progress and of failures: the      *)
(* types of the coordinator's state, and that a stop nothing overlaps      *)
(* leaves nothing on when it reports "stopped".                            *)
(***************************************************************************)
EXTENDS ProtectionCoordinator, TLAPS

LEMMA ConstantFacts ==
    /\ NRoots \in Nat /\ NRoots >= 1
    /\ MaxFaults \in Nat /\ MaxLosses \in Nat
    /\ 1 \in Roots /\ 1 \in 1 .. NRoots + 1
BY CoordinatorAssumption DEF Roots

LEMMA IdleFacts ==
    /\ Idle \in Calls /\ Formed(Idle) /\ ~AloneStop(Idle)
    /\ Idle.kind = "none" /\ Idle.at = "idle"
BY ConstantFacts DEF Idle, Calls, Kinds, Points, Formed, AloneStop

LEMMA UpDown == Up \in [active : BOOLEAN, healthy : BOOLEAN]
                /\ Down \in [active : BOOLEAN, healthy : BOOLEAN]
BY DEF Up, Down

(* TypeOK but for the calls in progress.                                   *)
Parts ==
    /\ saved \subseteq Roots /\ locked \subseteq Roots
    /\ watch \in [active : BOOLEAN, health : {"stopped", "healthy", "degraded"}]
    /\ guard \in [active : BOOLEAN, timer : BOOLEAN,
                  state : [active : BOOLEAN, healthy : BOOLEAN]]
    /\ active \in BOOLEAN /\ timer \in BOOLEAN
    /\ status \in Statuses
    /\ faults \in 0 .. MaxFaults /\ losses \in 0 .. MaxLosses

CoordTypes == active \in BOOLEAN /\ timer \in BOOLEAN /\ status \in Statuses

(* What StoppedMeansOff says of a step.                                    *)
StopsAreOff ==
    \A j \in Jobs :
        /\ job[j].kind = "stop" /\ job[j].alone
        /\ job'[j] = Idle /\ status'.state = "stopped"
        => /\ locked' = {} /\ ~watch.active
           /\ ~guard.active /\ ~guard.timer /\ ~timer /\ ~active'

LEMMA PartsOfType == TypeOK <=> Parts /\ job \in [Jobs -> Calls]
BY DEF TypeOK, Parts

LEMMA FaultTypes ==
    ASSUME Parts PROVE /\ NoFault => faults' \in 0 .. MaxFaults
                       /\ Fault => faults' \in 0 .. MaxFaults
                       /\ Loss => losses' \in 0 .. MaxLosses
BY ConstantFacts DEF Parts, Fault, NoFault, Loss

LEMMA CallFacts ==
    ASSUME CoordinatorInv, NEW j \in Jobs
    PROVE  /\ job[j] \in Calls /\ Formed(job[j]) /\ job \in [Jobs -> Calls]
           /\ AloneStop(job[j]) => OffBehind(j)
           /\ Parts
BY PartsOfType DEF CoordinatorInv

(* A call that is no stop on its own goes on or ends: while it is in       *)
(* progress no other stop is alone.                                        *)
LEMMA CallStep ==
    ASSUME CoordinatorInv, NEW j \in Jobs, NEW c \in Calls, Become(j, c),
           job[j].at # "idle", ~AloneStop(job[j]), ~AloneStop(c), Formed(c), Parts'
    PROVE  CoordinatorInv' /\ StopsAreOff
<1>1. /\ job \in [Jobs -> Calls] /\ job[j] # Idle
      /\ \A k \in Jobs : job'[k] = IF k = j THEN c ELSE job[k]
  BY CallFacts, IdleFacts DEF Become
<1>2. \A k \in Jobs : ~AloneStop(job[k])
  BY <1>1, CallFacts DEF OffBehind
<1>3. TypeOK'
  <2>1. job' \in [Jobs -> Calls]
    BY <1>1 DEF Become
  <2>. QED BY <2>1, PartsOfType DEF TypeOK, Parts
<1>4. \A k \in Jobs : Formed(job'[k]) /\ ~AloneStop(job'[k])
  BY <1>1, <1>2, CallFacts
<1>5. CoordinatorInv'
  BY <1>3, <1>4 DEF CoordinatorInv, Formed, AloneStop
<1>6. StopsAreOff
  BY <1>2 DEF StopsAreOff, AloneStop
<1>. QED BY <1>5, <1>6

(* What the catch of a call makes of it.                                   *)
LEMMA FailBecomes ==
    ASSUME CoordinatorInv, NEW j \in Jobs, Fail(j)
    PROVE  /\ CoordTypes'
           /\ \E c \in Calls : Become(j, c) /\ Formed(c) /\ ~AloneStop(c)
           /\ job[j].kind = "stop" => End(j) /\ status'.state = "degraded"
<1>0. job[j] \in Calls /\ CoordTypes /\ status.gate \in BOOLEAN
  BY CallFacts DEF Parts, CoordTypes, Statuses
<1>1. CASE job[j].kind = "start"
  <2>1. PICK c : c = [job[j] EXCEPT !.at = "recount", !.n = 1, !.seen = TRUE]
    OBVIOUS
  <2>2. c \in Calls /\ c.at = "recount" /\ c.kind = "start"
    BY <1>0, <1>1, <2>1, ConstantFacts DEF Calls, Points
  <2>3. Become(j, c) /\ UNCHANGED coordVars
    BY <1>1, <2>1 DEF Fail
  <2>4. Formed(c) /\ ~AloneStop(c)
    BY <2>2 DEF Formed, AloneStop
  <2>. QED BY <1>0, <1>1, <2>2, <2>3, <2>4 DEF coordVars, CoordTypes
<1>2. CASE job[j].kind = "check"
  <2>1. SetStatus(TRUE, FALSE, status.gate, "degraded") /\ Become(j, Idle) /\ UNCHANGED <<active, timer>>
    BY <1>2 DEF Fail, End
  <2>2. status' \in Statuses
    BY <1>0, <2>1 DEF SetStatus, Statuses
  <2>. QED BY <1>0, <1>2, <2>1, <2>2, IdleFacts DEF CoordTypes
<1>3. CASE job[j].kind = "stop"
  <2>1. /\ SetStatus(FALSE, FALSE, TRUE, "degraded") /\ Become(j, Idle)
        /\ active' = FALSE /\ UNCHANGED timer
    BY <1>3 DEF Fail, End
  <2>2. status' \in Statuses /\ status'.state = "degraded"
    BY <2>1 DEF SetStatus, Statuses
  <2>. QED BY <1>0, <2>1, <2>2, IdleFacts DEF CoordTypes, End
<1>4. CASE job[j].kind \notin {"start", "check", "stop"}
  <2>1. Become(j, Idle) /\ UNCHANGED coordVars
    BY <1>4 DEF Fail, End
  <2>. QED BY <1>0, <1>4, <2>1, IdleFacts DEF coordVars, CoordTypes
<1>. QED BY <1>1, <1>2, <1>3, <1>4

LEMMA FailStep ==
    ASSUME CoordinatorInv, NEW j \in Jobs, Fail(j), job[j].at # "idle", ~AloneStop(job[j]),
           CoordTypes' => Parts'
    PROVE  CoordinatorInv' /\ StopsAreOff
BY FailBecomes, CallStep

LEMMA EndStep ==
    ASSUME CoordinatorInv, NEW j \in Jobs, End(j), job[j].at # "idle", ~AloneStop(job[j]), Parts'
    PROVE  CoordinatorInv' /\ StopsAreOff
BY IdleFacts, CallStep DEF End

(* A call that begins leaves no earlier stop alone.                        *)
LEMMA BeginStep ==
    ASSUME CoordinatorInv, NEW j \in Jobs, job[j] = Idle,
           NEW kind, NEW at, Begin(j, kind, at), Parts',
           \/ kind \in {"start", "enable"} /\ at = "protect"
           \/ kind = "check" /\ at = "status"
           \/ kind = "poll" /\ at = "poll"
           \/ kind = "disable" /\ at = "restore"
           \/ /\ kind = "stop" /\ at = "restore"
              /\ ~timer' /\ ~guard'.active /\ ~guard'.timer /\ ~watch'.active
    PROVE  CoordinatorInv' /\ StopsAreOff
<1>1. PICK c : c = [Idle EXCEPT !.kind = kind, !.at = at, !.alone =
                      kind = "stop" => \A o \in Jobs : job[o] = Idle]
  OBVIOUS
<1>2. /\ c.kind = kind /\ c.at = at /\ c.n = 1
      /\ c.alone = (kind = "stop" => \A o \in Jobs : job[o] = Idle)
  BY <1>1 DEF Idle
<1>3. c \in Calls
  <2>1. kind \in Kinds /\ at \in Points
    BY DEF Kinds, Points
  <2>2. (kind = "stop" => \A o \in Jobs : job[o] = Idle) \in BOOLEAN
    OBVIOUS
  <2>. QED BY <1>1, <2>1, <2>2, ConstantFacts DEF Idle, Calls
<1>4. Formed(c)
  BY <1>2, ConstantFacts DEF Formed
<1>5. \A k \in Jobs : k # j => job'[k] = [job[k] EXCEPT !.alone = job[k].kind # "stop"]
  BY DEF Begin
<1>6. job'[j] = c
  BY <1>1 DEF Begin
<1>7. ASSUME NEW k \in Jobs, k # j
      PROVE  /\ job'[k] \in Calls /\ Formed(job'[k]) /\ ~AloneStop(job'[k])
             /\ job[k] = Idle => job'[k] = Idle
             /\ job'[k].kind = job[k].kind
  <2>1. job[k] \in Calls /\ Formed(job[k])
    BY CallFacts
  <2>2. PICK d : d = [job[k] EXCEPT !.alone = job[k].kind # "stop"]
    OBVIOUS
  <2>3. (job[k].kind # "stop") \in BOOLEAN
    OBVIOUS
  <2>4. /\ d \in Calls /\ d.kind = job[k].kind /\ d.at = job[k].at /\ d.n = job[k].n
        /\ d.alone = (job[k].kind # "stop")
    BY <2>1, <2>2, <2>3 DEF Calls
  <2>5. ASSUME job[k] = Idle PROVE d = Idle
    <3>1. (job[k].kind # "stop") = TRUE
      BY <2>5, IdleFacts
    <3>2. d = [Idle EXCEPT !.alone = TRUE]
      BY <2>2, <2>5, <3>1
    <3>. QED BY <3>2 DEF Idle
  <2>6. Formed(d) /\ ~AloneStop(d)
    BY <2>1, <2>4 DEF Formed, AloneStop
  <2>. QED BY <1>5, <1>7, <2>2, <2>4, <2>5, <2>6
<1>8. TypeOK'
  <2>1. job' \in [Jobs -> Calls]
    BY <1>3, <1>6, <1>7 DEF Begin
  <2>. QED BY <2>1 DEF TypeOK, Parts
<1>9. AloneStop(c) => OffBehind(j)'
  <2>1. SUFFICES ASSUME AloneStop(c) PROVE OffBehind(j)'
    OBVIOUS
  <2>2. kind = "stop" /\ \A o \in Jobs : job[o] = Idle
    BY <1>2, <2>1 DEF AloneStop
  <2>3. \A k \in Jobs \ {j} : job'[k] = Idle
    BY <1>7, <2>2
  <2>4. \A r \in locked' : r >= job'[j].n
    BY <1>2, <1>6, ConstantFacts DEF Parts, Roots
  <2>. QED BY <2>2, <2>3, <2>4 DEF OffBehind
<1>10. CoordinatorInv'
  BY <1>4, <1>6, <1>7, <1>8, <1>9 DEF CoordinatorInv, Formed, AloneStop
<1>11. StopsAreOff
  BY <1>6, <1>2, <1>7, IdleFacts DEF StopsAreOff
<1>. QED BY <1>10, <1>11

LEMMA Begins ==
    ASSUME CoordinatorInv, NEW j \in Jobs,
           \/ Start(j) \/ Stop(j) \/ Tick(j) \/ Refresh(j)
           \/ BeginPoll(j) \/ Enable(j) \/ Disable(j)
    PROVE  CoordinatorInv' /\ StopsAreOff
<1>0. Parts
  BY CallFacts
<1>1. CASE Start(j)
  BY <1>0, <1>1, BeginStep DEF Start, Parts, gateVars, coordVars
<1>2. CASE Stop(j)
  <2>1. guard' = [active |-> FALSE, timer |-> FALSE, state |-> Down] /\ timer' = FALSE
    BY <1>2 DEF Stop
  <2>2. /\ guard' \in [active : BOOLEAN, timer : BOOLEAN,
                       state : [active : BOOLEAN, healthy : BOOLEAN]]
        /\ ~guard'.active /\ ~guard'.timer
    BY <2>1, UpDown
  <2>3. ~watch'.active /\ watch' \in [active : BOOLEAN, health : {"stopped", "healthy", "degraded"}]
    BY <1>0, <1>2 DEF Stop, WatcherUp, Parts
  <2>4. Parts'
    BY <1>0, <1>2, <2>2, <2>3 DEF Stop, Parts, gateVars
  <2>. QED BY <1>2, <2>1, <2>2, <2>3, <2>4, BeginStep DEF Stop
<1>3. CASE Tick(j)
  BY <1>0, <1>3, BeginStep DEF Tick, Parts, gateVars, coordVars
<1>4. CASE Refresh(j)
  BY <1>0, <1>4, BeginStep DEF Refresh, Parts, gateVars, coordVars
<1>5. CASE BeginPoll(j)
  BY <1>0, <1>5, BeginStep DEF BeginPoll, Parts, gateVars, coordVars
<1>6. CASE Enable(j)
  BY <1>0, <1>6, BeginStep DEF Enable, Parts, gateVars, coordVars
<1>7. CASE Disable(j)
  BY <1>0, <1>7, BeginStep DEF Disable, Parts, gateVars, coordVars
<1>. QED BY <1>1, <1>2, <1>3, <1>4, <1>5, <1>6, <1>7

------------------------------------------------------------------------------
(* The helper loops.                                                       *)

LEMMA ProtectStep ==
    ASSUME CoordinatorInv, NEW j \in Jobs, Protect(j)
    PROVE  CoordinatorInv' /\ StopsAreOff
<1>0. /\ Parts /\ job[j] \in Calls /\ job[j].at = "protect" /\ job[j].n \in Roots
      /\ job[j].kind # "stop" /\ ~AloneStop(job[j])
  BY CallFacts DEF Protect, Formed, AloneStop
<1>1. locked' \subseteq Roots /\ saved' \subseteq Roots /\ UNCHANGED <<watch, guard, losses>>
  BY <1>0 DEF Protect, Parts, gateVars
<1>2. faults' \in 0 .. MaxFaults
  BY <1>0, FaultTypes DEF Protect
<1>3. CoordTypes' => Parts'
  BY <1>0, <1>1, <1>2 DEF Parts, CoordTypes
<1>4. CASE Fail(j)
  BY <1>0, <1>3, <1>4, FailStep
<1>5. CASE UNCHANGED coordVars
           /\ CASE More(j) -> Become(j, [job[j] EXCEPT !.n = @ + 1])
                [] ~More(j) /\ job[j].kind = "enable" -> End(j)
                [] OTHER -> Become(j, [job[j] EXCEPT !.at = "status", !.n = 1, !.seen = TRUE])
  <2>1. Parts'
    BY <1>0, <1>3, <1>5 DEF Parts, CoordTypes, coordVars
  <2>2. CASE More(j)
    <3>1. PICK c : c = [job[j] EXCEPT !.n = @ + 1]
      OBVIOUS
    <3>2. job[j].n + 1 \in Roots /\ job[j].n + 1 \in 1 .. NRoots + 1
      BY <1>0, <2>2, ConstantFacts DEF More, Roots
    <3>3. c \in Calls /\ c.kind = job[j].kind /\ c.at = "protect" /\ c.n \in Roots
      BY <1>0, <3>1, <3>2 DEF Calls
    <3>4. Become(j, c)
      BY <1>5, <2>2, <3>1
    <3>. QED BY <1>0, <2>1, <3>3, <3>4, CallStep DEF Formed, AloneStop
  <2>3. CASE End(j)
    BY <1>0, <2>1, <2>3, EndStep
  <2>4. CASE Become(j, [job[j] EXCEPT !.at = "status", !.n = 1, !.seen = TRUE])
    <3>1. PICK c : c = [job[j] EXCEPT !.at = "status", !.n = 1, !.seen = TRUE]
      OBVIOUS
    <3>2. c \in Calls /\ c.kind = job[j].kind /\ c.at = "status"
      BY <1>0, <3>1, ConstantFacts DEF Calls, Points
    <3>. QED BY <1>0, <2>1, <2>4, <3>1, <3>2, CallStep DEF Formed, AloneStop
  <2>. QED BY <1>5, <2>2, <2>3, <2>4
<1>. QED BY <1>4, <1>5 DEF Protect

(* Restoring the next root, by a stop on its own or by another call.       *)
LEMMA RestoreNext ==
    ASSUME CoordinatorInv, NEW j \in Jobs, job[j].at = "restore", More(j),
           locked' = locked \ {job[j].n}, Become(j, [job[j] EXCEPT !.n = @ + 1]),
           Parts', UNCHANGED <<saved, watch, guard, coordVars>>
    PROVE  CoordinatorInv' /\ StopsAreOff
<1>0. Parts /\ job[j] \in Calls /\ job[j].n \in Roots /\ Formed(job[j])
  BY CallFacts DEF Formed
<1>1. PICK c : c = [job[j] EXCEPT !.n = @ + 1]
  OBVIOUS
<1>2. job[j].n + 1 \in Roots /\ job[j].n + 1 \in 1 .. NRoots + 1
  BY <1>0, ConstantFacts DEF More, Roots
<1>3. /\ c \in Calls /\ c.kind = job[j].kind /\ c.at = "restore"
      /\ c.n = job[j].n + 1 /\ c.alone = job[j].alone
  BY <1>0, <1>1, <1>2 DEF Calls
<1>4. Formed(c) /\ (AloneStop(c) <=> AloneStop(job[j]))
  BY <1>2, <1>3 DEF Formed, AloneStop
<1>5. Become(j, c)
  BY <1>1
<1>6. CASE ~AloneStop(job[j])
  BY <1>3, <1>4, <1>5, <1>6, CallStep
<1>7. CASE AloneStop(job[j])
  <2>1. OffBehind(j) /\ \A k \in Jobs : job'[k] = IF k = j THEN c ELSE job[k]
    BY <1>5, <1>7, CallFacts DEF Become
  <2>2. \A k \in Jobs : k # j => job'[k] = Idle
    BY <2>1 DEF OffBehind
  <2>3. OffBehind(j)'
    <3>1. \A r \in locked' : r >= c.n
      BY <1>0, <1>3, <2>1 DEF OffBehind, Parts, Roots
    <3>. QED BY <2>1, <2>2, <3>1 DEF OffBehind, coordVars
  <2>4. TypeOK'
    <3>1. job' \in [Jobs -> Calls]
      BY <1>3, <1>5, CallFacts DEF Become
    <3>. QED BY <3>1 DEF TypeOK, Parts
  <2>5. CoordinatorInv'
    BY <1>4, <2>1, <2>2, <2>3, <2>4, IdleFacts DEF CoordinatorInv, Formed, AloneStop
  <2>6. StopsAreOff
    BY <1>3, <2>1, IdleFacts DEF StopsAreOff, OffBehind
  <2>. QED BY <2>5, <2>6
<1>. QED BY <1>6, <1>7

(* A stop on its own ends, with every root restored or without a claim.    *)
LEMMA StopEnds ==
    ASSUME CoordinatorInv, NEW j \in Jobs, AloneStop(job[j]), End(j), Parts',
           UNCHANGED <<watch, guard, timer>>,
           \/ status'.state # "stopped"
           \/ ~active' /\ ~More(j) /\ locked' = locked \ {job[j].n}
    PROVE  CoordinatorInv' /\ StopsAreOff
<1>0. Parts /\ job[j] \in Calls /\ Formed(job[j]) /\ OffBehind(j)
  BY CallFacts
<1>1. \A k \in Jobs : job'[k] = Idle
  BY <1>0, CallFacts DEF End, Become, OffBehind
<1>2. TypeOK'
  <2>1. job' \in [Jobs -> Calls]
    BY CallFacts, IdleFacts DEF End, Become
  <2>. QED BY <2>1 DEF TypeOK, Parts
<1>3. CoordinatorInv'
  BY <1>1, <1>2, IdleFacts DEF CoordinatorInv, Formed, AloneStop
<1>4. status'.state = "stopped" => locked' = {}
  <2>1. job[j].n \in Roots
    BY <1>0 DEF Formed, AloneStop
  <2>2. \A r \in locked : r \in 1 .. NRoots /\ r >= job[j].n
    BY <1>0 DEF OffBehind, Parts, Roots
  <2>. QED BY <2>1, <2>2, ConstantFacts DEF More, Roots
<1>5. StopsAreOff
  <2>1. \A k \in Jobs : job[k].kind = "stop" => k = j
    BY <1>0, IdleFacts DEF OffBehind
  <2>. QED BY <1>0, <1>4, <2>1 DEF StopsAreOff, OffBehind
<1>. QED BY <1>3, <1>5

LEMMA RestoreStep ==
    ASSUME CoordinatorInv, NEW j \in Jobs, Restore(j)
    PROVE  CoordinatorInv' /\ StopsAreOff
<1>0. /\ Parts /\ job[j] \in Calls /\ job[j].at = "restore"
      /\ UNCHANGED <<saved, watch, guard, losses>>
  BY CallFacts DEF Restore
<1>1. locked' \subseteq Roots
  BY <1>0 DEF Restore, Parts
<1>2. faults' \in 0 .. MaxFaults
  BY <1>0, FaultTypes DEF Restore
<1>3. CoordTypes' => Parts'
  BY <1>0, <1>1, <1>2 DEF Parts, CoordTypes
<1>4. CASE Fail(j)
  <2>1. CASE ~AloneStop(job[j])
    BY <1>0, <1>3, <1>4, <2>1, FailStep
  <2>2. CASE AloneStop(job[j])
    <3>1. job[j].kind = "stop"
      BY <2>2 DEF AloneStop
    <3>2. End(j) /\ status'.state = "degraded" /\ Parts' /\ UNCHANGED timer
      BY <1>3, <1>4, <3>1, FailBecomes DEF Fail
    <3>. QED BY <1>0, <2>2, <3>2, StopEnds
  <2>. QED BY <2>1, <2>2
<1>5. CASE /\ locked' = locked \ {job[j].n}
           /\ CASE More(j) -> Become(j, [job[j] EXCEPT !.n = @ + 1]) /\ UNCHANGED coordVars
                [] ~More(j) /\ job[j].kind = "stop" ->
                      /\ SetStatus(FALSE, FALSE, FALSE, "stopped")
                      /\ active' = FALSE
                      /\ End(j) /\ UNCHANGED timer
                [] OTHER -> End(j) /\ UNCHANGED coordVars
  <2>1. CASE More(j)
    <3>1. Become(j, [job[j] EXCEPT !.n = @ + 1]) /\ UNCHANGED coordVars
      BY <1>5, <2>1
    <3>2. Parts'
      BY <1>0, <1>3, <3>1 DEF Parts, CoordTypes, coordVars
    <3>. QED BY <1>0, <1>5, <2>1, <3>1, <3>2, RestoreNext
  <2>2. CASE ~More(j) /\ job[j].kind = "stop"
    <3>1. /\ SetStatus(FALSE, FALSE, FALSE, "stopped") /\ active' = FALSE
          /\ End(j) /\ UNCHANGED timer
      BY <1>5, <2>2
    <3>2. status' \in Statuses
      BY <3>1 DEF SetStatus, Statuses
    <3>3. Parts'
      BY <1>0, <1>3, <3>1, <3>2 DEF Parts, CoordTypes
    <3>. QED BY <1>0, <1>5, <2>2, <3>1, <3>3, StopEnds, EndStep
  <2>3. CASE ~More(j) /\ job[j].kind # "stop"
    <3>1. End(j) /\ UNCHANGED coordVars
      BY <1>5, <2>3
    <3>2. Parts'
      BY <1>0, <1>3, <3>1 DEF Parts, CoordTypes, coordVars
    <3>. QED BY <1>0, <2>3, <3>1, <3>2, EndStep DEF AloneStop
  <2>. QED BY <2>1, <2>2, <2>3
<1>. QED BY <1>4, <1>5 DEF Restore

LEMMA ReadStatusStep ==
    ASSUME CoordinatorInv, NEW j \in Jobs, ReadStatus(j)
    PROVE  CoordinatorInv' /\ StopsAreOff
<1>0. /\ Parts /\ job[j] \in Calls /\ job[j].at \in {"status", "recount"} /\ job[j].n \in Roots
      /\ job[j].kind # "stop" /\ ~AloneStop(job[j])
      /\ UNCHANGED <<gateVars, watch, guard, losses>>
  BY CallFacts DEF ReadStatus, Formed, AloneStop
<1>1. faults' \in 0 .. MaxFaults
  BY <1>0, FaultTypes DEF ReadStatus
<1>2. CoordTypes' => Parts'
  BY <1>0, <1>1 DEF Parts, CoordTypes, gateVars
<1>3. CASE Fail(j)
  BY <1>0, <1>2, <1>3, FailStep
<1>4. CASE UNCHANGED coordVars /\
           Become(j, [job[j] EXCEPT !.n = @ + 1, !.seen = @ /\ job[j].n \in locked])
  <2>1. PICK c : c = [job[j] EXCEPT !.n = @ + 1, !.seen = @ /\ job[j].n \in locked]
    OBVIOUS
  <2>2. job[j].n + 1 \in 1 .. NRoots + 1
    BY <1>0, ConstantFacts DEF Roots
  <2>3. (job[j].seen /\ job[j].n \in locked) \in BOOLEAN
    OBVIOUS
  <2>4. c \in Calls /\ c.kind = job[j].kind /\ c.at = job[j].at
    BY <1>0, <2>1, <2>2, <2>3 DEF Calls
  <2>5. Parts'
    BY <1>0, <1>2, <1>4 DEF Parts, CoordTypes, coordVars
  <2>6. Formed(c) /\ ~AloneStop(c)
    BY <1>0, <2>4 DEF Formed, AloneStop
  <2>. QED BY <1>0, <1>4, <2>1, <2>4, <2>5, <2>6, CallStep
<1>5. CASE UNCHANGED coordVars /\
           Become(j, [job[j] EXCEPT !.n = NRoots + 1, !.seen = FALSE])
  <2>1. PICK c : c = [job[j] EXCEPT !.n = NRoots + 1, !.seen = FALSE]
    OBVIOUS
  <2>2. NRoots + 1 \in 1 .. NRoots + 1
    BY ConstantFacts
  <2>3. c \in Calls /\ c.kind = job[j].kind /\ c.at = job[j].at
    BY <1>0, <2>1, <2>2 DEF Calls
  <2>4. Parts'
    BY <1>0, <1>2, <1>5 DEF Parts, CoordTypes, coordVars
  <2>5. Formed(c) /\ ~AloneStop(c)
    BY <1>0, <2>3 DEF Formed, AloneStop
  <2>. QED BY <1>0, <1>5, <2>1, <2>3, <2>4, <2>5, CallStep
<1>. QED BY <1>3, <1>4, <1>5 DEF ReadStatus

------------------------------------------------------------------------------
(* start, the checks and the polls.                                        *)

(* A call that goes on at another point of its way.                        *)
LEMMA MoveOn ==
    ASSUME CoordinatorInv, NEW j \in Jobs, job[j].at # "idle", job[j].kind # "stop",
           NEW at \in {"watch", "baseline", "poll"}, Become(j, [job[j] EXCEPT !.at = at]), Parts'
    PROVE  CoordinatorInv' /\ StopsAreOff
<1>0. job[j] \in Calls /\ ~AloneStop(job[j])
  BY CallFacts DEF AloneStop
<1>1. PICK c : c = [job[j] EXCEPT !.at = at]
  OBVIOUS
<1>2. c \in Calls /\ c.kind = job[j].kind /\ c.at = at
  BY <1>0, <1>1 DEF Calls, Points
<1>3. Formed(c) /\ ~AloneStop(c)
  BY <1>2 DEF Formed, AloneStop
<1>. QED BY <1>0, <1>1, <1>2, <1>3, CallStep

LEMMA VerifyStep ==
    ASSUME CoordinatorInv, NEW j \in Jobs, Verify(j)
    PROVE  CoordinatorInv' /\ StopsAreOff
<1>0. /\ Parts /\ job[j].at = "status" /\ job[j].kind = "start" /\ ~AloneStop(job[j])
      /\ UNCHANGED <<gateVars, watch, guard, faults, losses>>
  BY CallFacts DEF Verify, Answered, AloneStop
<1>1. CoordTypes' => Parts'
  BY <1>0 DEF Parts, CoordTypes, gateVars
<1>2. CASE Fail(j)
  BY <1>0, <1>1, <1>2, FailStep
<1>3. CASE Become(j, [job[j] EXCEPT !.at = "watch"]) /\ UNCHANGED coordVars
  <2>1. Parts'
    BY <1>0, <1>1, <1>3 DEF Parts, CoordTypes, coordVars
  <2>. QED BY <1>0, <1>3, <2>1, MoveOn
<1>. QED BY <1>2, <1>3 DEF Verify

LEMMA StartRuntimeStep ==
    ASSUME CoordinatorInv, NEW j \in Jobs, job[j].at # "idle", job[j].kind # "stop",
           StartRuntime(j), UNCHANGED <<gateVars, losses>>,
           watch' \in [active : BOOLEAN, health : {"stopped", "healthy", "degraded"}],
           faults' \in 0 .. MaxFaults
    PROVE  CoordinatorInv' /\ StopsAreOff
<1>0. Parts /\ ~AloneStop(job[j])
  BY CallFacts DEF AloneStop
<1>1. CASE UNCHANGED guard /\ Succeed(j)
  <2>1. status' \in Statuses
    BY <1>1 DEF Succeed, SetStatus, Statuses
  <2>2. Parts'
    BY <1>0, <1>1, <2>1 DEF Succeed, Parts, gateVars
  <2>. QED BY <1>0, <1>1, <2>2, EndStep DEF Succeed
<1>2. CASE UNCHANGED guard /\ Fail(j)
  <2>1. CoordTypes' => Parts'
    BY <1>0, <1>2 DEF CoordTypes, Parts, gateVars
  <2>. QED BY <1>0, <1>2, <2>1, FailStep
<1>3. CASE /\ guard' = [guard EXCEPT !.active = TRUE]
           /\ Become(j, [job[j] EXCEPT !.at = "poll"]) /\ UNCHANGED coordVars
  <2>1. guard' \in [active : BOOLEAN, timer : BOOLEAN,
                    state : [active : BOOLEAN, healthy : BOOLEAN]]
    BY <1>0, <1>3 DEF Parts
  <2>2. Parts'
    BY <1>0, <1>3, <2>1 DEF Parts, gateVars, coordVars
  <2>. QED BY <1>3, <2>2, MoveOn
<1>. QED BY <1>1, <1>2, <1>3 DEF StartRuntime

LEMMA StartWatchStep ==
    ASSUME CoordinatorInv, NEW j \in Jobs, StartWatch(j)
    PROVE  CoordinatorInv' /\ StopsAreOff
<1>0. /\ Parts /\ job[j].at = "watch" /\ job[j].kind # "stop" /\ ~AloneStop(job[j])
      /\ UNCHANGED <<gateVars, losses>>
  BY CallFacts DEF StartWatch, Formed, AloneStop
<1>1. faults' \in 0 .. MaxFaults
  BY <1>0, FaultTypes DEF StartWatch
<1>2. CASE /\ watch' = [watch EXCEPT !.active = TRUE] /\ UNCHANGED <<guard, coordVars>>
           /\ Become(j, [job[j] EXCEPT !.at = "baseline"])
  <2>1. watch' \in [active : BOOLEAN, health : {"stopped", "healthy", "degraded"}]
    BY <1>0, <1>2 DEF Parts
  <2>2. Parts'
    BY <1>0, <1>1, <1>2, <2>1 DEF Parts, gateVars, coordVars
  <2>. QED BY <1>0, <1>2, <2>2, MoveOn
<1>3. CASE StartRuntime(j) /\ UNCHANGED watch
  BY <1>0, <1>1, <1>3, StartRuntimeStep DEF Parts
<1>4. CASE Fail(j) /\ UNCHANGED <<watch, guard>>
  <2>1. CoordTypes' => Parts'
    BY <1>0, <1>1, <1>4 DEF Parts, CoordTypes, gateVars
  <2>. QED BY <1>0, <1>4, <2>1, FailStep
<1>. QED BY <1>2, <1>3, <1>4 DEF StartWatch

LEMMA BaselineStep ==
    ASSUME CoordinatorInv, NEW j \in Jobs, Baseline(j)
    PROVE  CoordinatorInv' /\ StopsAreOff
<1>0. /\ Parts /\ job[j].at = "baseline" /\ job[j].kind # "stop" /\ ~AloneStop(job[j])
      /\ UNCHANGED <<gateVars, losses>>
  BY CallFacts DEF Baseline, Formed, AloneStop
<1>1. faults' \in 0 .. MaxFaults
  BY <1>0, FaultTypes DEF Baseline
<1>2. watch' \in [active : BOOLEAN, health : {"stopped", "healthy", "degraded"}]
  BY <1>0 DEF Baseline, Parts
<1>3. CASE StartRuntime(j)
  BY <1>0, <1>1, <1>2, <1>3, StartRuntimeStep
<1>4. CASE Fail(j) /\ UNCHANGED guard
  <2>1. CoordTypes' => Parts'
    BY <1>0, <1>1, <1>2, <1>4 DEF Parts, CoordTypes, gateVars
  <2>. QED BY <1>0, <1>4, <2>1, FailStep
<1>. QED BY <1>3, <1>4 DEF Baseline

LEMMA FailClosedStep ==
    ASSUME CoordinatorInv, NEW j \in Jobs, FailClosed(j)
    PROVE  CoordinatorInv' /\ StopsAreOff
<1>0. /\ Parts /\ job[j] \in Calls /\ job[j].at = "recount" /\ ~AloneStop(job[j])
  BY CallFacts DEF FailClosed, Formed, AloneStop
<1>1. status' \in Statuses
  <2>1. job[j].seen \in BOOLEAN
    BY <1>0 DEF Calls
  <2>2. (IF job[j].seen THEN "fail_closed" ELSE "blocked") \in {"fail_closed", "blocked"}
    OBVIOUS
  <2>. QED BY <2>1, <2>2 DEF FailClosed, SetStatus, Statuses
<1>2. Parts'
  BY <1>0, <1>1 DEF FailClosed, Parts, gateVars
<1>. QED BY <1>0, <1>2, EndStep DEF FailClosed

(* The end of a check: complete only with all three parts.                 *)
LEMMA ConcludeStep ==
    ASSUME CoordinatorInv, NEW j \in Jobs, job[j].at # "idle", job[j].kind # "stop",
           NEW gate \in BOOLEAN, NEW watched \in BOOLEAN, NEW runtime,
           Conclude(j, gate, watched, runtime), status' \in Statuses => Parts'
    PROVE  CoordinatorInv' /\ StopsAreOff
<1>1. PICK complete \in BOOLEAN : complete = (gate /\ watched /\ runtime = Up)
  OBVIOUS
<1>2. (IF complete THEN "healthy" ELSE "degraded") \in {"healthy", "degraded"}
  OBVIOUS
<1>3. End(j) /\ SetStatus(TRUE, complete, gate, IF complete THEN "healthy" ELSE "degraded")
  BY <1>1 DEF Conclude
<1>4. status' \in Statuses
  BY <1>2, <1>3 DEF SetStatus, Statuses
<1>. QED BY <1>3, <1>4, EndStep DEF AloneStop

LEMMA JudgeStep ==
    ASSUME CoordinatorInv, NEW j \in Jobs, Judge(j)
    PROVE  CoordinatorInv' /\ StopsAreOff
<1>0. /\ Parts /\ job[j] \in Calls /\ job[j].at = "status" /\ job[j].kind = "check"
      /\ ~AloneStop(job[j]) /\ UNCHANGED <<gateVars, watch, guard, faults, losses>>
  BY CallFacts DEF Judge, Answered, AloneStop
<1>1. PICK watched \in BOOLEAN : watched = (watch.active /\ watch.health = "healthy")
  OBVIOUS
<1>2. UNCHANGED coordVars => Parts'
  BY <1>0 DEF Parts, gateVars, coordVars
<1>3. CASE Become(j, [job[j] EXCEPT !.at = "protect", !.n = 1, !.again = TRUE]) /\ UNCHANGED coordVars
  <2>1. PICK c : c = [job[j] EXCEPT !.at = "protect", !.n = 1, !.again = TRUE]
    OBVIOUS
  <2>2. c \in Calls /\ c.kind = "check" /\ c.n = 1
    BY <1>0, <2>1, ConstantFacts DEF Calls, Points
  <2>3. Formed(c) /\ ~AloneStop(c)
    BY <2>2, ConstantFacts DEF Formed, AloneStop
  <2>. QED BY <1>0, <1>2, <1>3, <2>1, <2>2, <2>3, CallStep
<1>4. CASE Become(j, [job[j] EXCEPT !.at = "poll", !.watch = watched]) /\ UNCHANGED coordVars
  <2>1. PICK c : c = [job[j] EXCEPT !.at = "poll", !.watch = watched]
    OBVIOUS
  <2>2. c \in Calls /\ c.kind = "check" /\ c.at = "poll"
    BY <1>0, <2>1 DEF Calls, Points
  <2>3. Formed(c) /\ ~AloneStop(c)
    BY <2>2 DEF Formed, AloneStop
  <2>. QED BY <1>0, <1>2, <1>4, <2>1, <2>2, <2>3, CallStep
<1>5. CASE Conclude(j, Seen(j), watched, guard.state) /\ UNCHANGED <<active, timer>>
  <2>1. Seen(j) \in BOOLEAN
    BY <1>0 DEF Seen, Calls
  <2>2. status' \in Statuses => Parts'
    BY <1>0, <1>5 DEF Parts, gateVars
  <2>3. PICK gate \in BOOLEAN : gate = Seen(j)
    BY <2>1
  <2>4. Conclude(j, gate, watched, guard.state)
    BY <1>5, <2>3
  <2>. QED BY <1>0, <2>2, <2>4, ConcludeStep
<1>. QED BY <1>1, <1>3, <1>4, <1>5 DEF Judge

LEMMA PollStep ==
    ASSUME CoordinatorInv, NEW j \in Jobs, Poll(j)
    PROVE  CoordinatorInv' /\ StopsAreOff
<1>0. /\ Parts /\ job[j] \in Calls /\ job[j].at = "poll" /\ job[j].kind # "stop"
      /\ ~AloneStop(job[j]) /\ UNCHANGED <<gateVars, watch, losses>>
  BY CallFacts DEF Poll, Formed, AloneStop
<1>1. PICK ok \in BOOLEAN :
        LET result == [active |-> TRUE, healthy |-> ok] IN
        /\ IF ok THEN NoFault ELSE Fault
        /\ CASE job[j].kind = "start" /\ ok ->
                   guard' = [guard EXCEPT !.timer = TRUE, !.state = result] /\ Succeed(j)
             [] job[j].kind = "start" /\ ~ok ->
                   guard' = [guard EXCEPT !.active = FALSE, !.state = Down] /\ Fail(j)
             [] job[j].kind = "check" ->
                   /\ guard' = [guard EXCEPT !.state = result]
                   /\ Conclude(j, Seen(j), job[j].watch, result)
                   /\ UNCHANGED <<active, timer>>
             [] OTHER ->
                   /\ guard' = [guard EXCEPT !.state = result]
                   /\ End(j) /\ UNCHANGED coordVars
  BY DEF Poll
<1>2. PICK result \in [active : BOOLEAN, healthy : BOOLEAN] :
          result = [active |-> TRUE, healthy |-> ok]
  OBVIOUS
<1>3. faults' \in 0 .. MaxFaults
  BY <1>0, <1>1, FaultTypes
<1>4. ASSUME CoordTypes', guard' \in [active : BOOLEAN, timer : BOOLEAN,
                                      state : [active : BOOLEAN, healthy : BOOLEAN]]
      PROVE  Parts'
  BY <1>0, <1>3, <1>4 DEF Parts, CoordTypes, gateVars
<1>5. CASE job[j].kind = "start" /\ ok
  <2>1. guard' = [guard EXCEPT !.timer = TRUE, !.state = result] /\ Succeed(j)
    BY <1>1, <1>2, <1>5
  <2>2. guard' \in [active : BOOLEAN, timer : BOOLEAN,
                    state : [active : BOOLEAN, healthy : BOOLEAN]]
    BY <1>0, <2>1 DEF Parts
  <2>3. CoordTypes'
    BY <2>1 DEF Succeed, SetStatus, Statuses, CoordTypes
  <2>. QED BY <1>0, <1>4, <2>1, <2>2, <2>3, EndStep DEF Succeed
<1>6. CASE job[j].kind = "start" /\ ~ok
  <2>1. guard' = [guard EXCEPT !.active = FALSE, !.state = Down] /\ Fail(j)
    BY <1>1, <1>6
  <2>2. guard' \in [active : BOOLEAN, timer : BOOLEAN,
                    state : [active : BOOLEAN, healthy : BOOLEAN]]
    BY <1>0, <2>1, UpDown DEF Parts
  <2>3. CoordTypes' => Parts'
    BY <1>4, <2>2
  <2>. QED BY <1>0, <2>1, <2>3, FailStep
<1>7. CASE job[j].kind = "check"
  <2>1. /\ guard' = [guard EXCEPT !.state = result]
        /\ Conclude(j, Seen(j), job[j].watch, result) /\ UNCHANGED <<active, timer>>
    BY <1>1, <1>2, <1>7
  <2>2. guard' \in [active : BOOLEAN, timer : BOOLEAN,
                    state : [active : BOOLEAN, healthy : BOOLEAN]]
    BY <1>0, <2>1 DEF Parts
  <2>3. status' \in Statuses => Parts'
    BY <1>0, <1>4, <2>1, <2>2 DEF Parts, CoordTypes
  <2>4. PICK gate \in BOOLEAN, watched \in BOOLEAN : gate = Seen(j) /\ watched = job[j].watch
    BY <1>0 DEF Seen, Calls
  <2>5. Conclude(j, gate, watched, result)
    BY <2>1, <2>4
  <2>. QED BY <1>0, <2>3, <2>5, ConcludeStep
<1>8. CASE job[j].kind \notin {"start", "check"}
  <2>1. guard' = [guard EXCEPT !.state = result] /\ End(j) /\ UNCHANGED coordVars
    BY <1>1, <1>2, <1>8
  <2>2. guard' \in [active : BOOLEAN, timer : BOOLEAN,
                    state : [active : BOOLEAN, healthy : BOOLEAN]]
    BY <1>0, <2>1 DEF Parts
  <2>3. CoordTypes'
    BY <1>0, <2>1 DEF Parts, CoordTypes, coordVars
  <2>. QED BY <1>0, <1>4, <2>1, <2>2, <2>3, EndStep
<1>. QED BY <1>5, <1>6, <1>7, <1>8

------------------------------------------------------------------------------
(* Other programs.                                                         *)
LEMMA EnvironmentStep ==
    ASSUME CoordinatorInv, (\E r \in Roots : Unlock(r)) \/ WatchFails \/ WatchRecovers
                           \/ UNCHANGED vars
    PROVE  CoordinatorInv' /\ StopsAreOff
<1>0. Parts /\ job \in [Jobs -> Calls]
  BY PartsOfType DEF CoordinatorInv
<1>1. /\ UNCHANGED <<guard, active, timer, status, job>>
      /\ locked' \subseteq locked /\ UNCHANGED saved
  BY DEF Unlock, WatchFails, WatchRecovers, vars, gateVars, coordVars
<1>2. /\ watch' \in [active : BOOLEAN, health : {"stopped", "healthy", "degraded"}]
      /\ watch'.active = watch.active
  BY <1>0 DEF Unlock, WatchFails, WatchRecovers, vars, Parts
<1>3. faults' \in 0 .. MaxFaults /\ losses' \in 0 .. MaxLosses
  BY <1>0, FaultTypes DEF Unlock, WatchFails, WatchRecovers, vars, Parts
<1>4. TypeOK'
  BY <1>0, <1>1, <1>2, <1>3 DEF TypeOK, Parts
<1>5. \A j \in Jobs : Formed(job'[j])
  BY <1>1 DEF CoordinatorInv
<1>6. \A j \in Jobs : AloneStop(job'[j]) => OffBehind(j)'
  BY <1>1, <1>2 DEF CoordinatorInv, OffBehind
<1>7. CoordinatorInv'
  BY <1>1, <1>4, <1>5, <1>6 DEF CoordinatorInv, Formed, AloneStop
<1>8. StopsAreOff
  BY <1>1, IdleFacts DEF StopsAreOff
<1>. QED BY <1>7, <1>8

LEMMA InitInv == Init => CoordinatorInv
<1>. SUFFICES ASSUME Init PROVE CoordinatorInv
  OBVIOUS
<1>1. \A j \in Jobs : job[j] = Idle
  BY DEF Init
<1>2. TypeOK
  <2>1. job \in [Jobs -> Calls]
    BY IdleFacts DEF Init
  <2>2. /\ saved \subseteq Roots /\ locked \subseteq Roots /\ status \in Statuses
        /\ watch \in [active : BOOLEAN, health : {"stopped", "healthy", "degraded"}]
    BY DEF Init, Statuses
  <2>3. guard \in [active : BOOLEAN, timer : BOOLEAN,
                   state : [active : BOOLEAN, healthy : BOOLEAN]]
    BY UpDown DEF Init
  <2>4. active \in BOOLEAN /\ timer \in BOOLEAN
    BY DEF Init
  <2>5. faults \in 0 .. MaxFaults /\ losses \in 0 .. MaxLosses
    BY ConstantFacts DEF Init
  <2>. QED BY <2>1, <2>2, <2>3, <2>4, <2>5 DEF TypeOK
<1>. QED BY <1>1, <1>2, IdleFacts DEF CoordinatorInv

LEMMA NextInv == CoordinatorInv /\ [Next]_vars => CoordinatorInv' /\ StopsAreOff
<1>. SUFFICES ASSUME CoordinatorInv, [Next]_vars PROVE CoordinatorInv' /\ StopsAreOff
  OBVIOUS
<1>. QED BY Begins, ProtectStep, RestoreStep, ReadStatusStep, VerifyStep, StartWatchStep,
            BaselineStep, FailClosedStep, JudgeStep, PollStep, EnvironmentStep DEF Next, Step

(* Whatever calls overlap, fail or are repeated, the helper loops stay on  *)
(* the configured roots, a stop only restores, and what a stop on its own  *)
(* has switched off or restored stays off (protection-coordinator.js,      *)
(* acl-access-gate.js).                                                    *)
THEOREM CoordinatorInvariant == Spec => []CoordinatorInv
<1>1. CoordinatorInv /\ [Next]_vars => CoordinatorInv'
  BY NextInv
<1>. QED BY <1>1, InitInv, PTL DEF Spec

(* A stop that no other call overlaps and that reports "stopped" leaves no *)
(* root locked, nothing watched, polled or ticking, whatever a failed      *)
(* start, a check or a loss has left before it (stop).                     *)
THEOREM StoppedIsOff == Spec => StoppedMeansOff
<1>1. CoordinatorInv /\ [Next]_vars =>
          [\A j \in Jobs :
              /\ job[j].kind = "stop" /\ job[j].alone
              /\ job'[j] = Idle /\ status'.state = "stopped"
              => /\ locked' = {} /\ ~watch.active
                 /\ ~guard.active /\ ~guard.timer /\ ~timer /\ ~active']_vars
  BY NextInv DEF StopsAreOff
<1>. QED BY <1>1, CoordinatorInvariant, PTL DEF Spec, StoppedMeansOff
=============================================================================
