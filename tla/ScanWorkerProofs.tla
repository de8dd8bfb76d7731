-------------------------- MODULE ScanWorkerProofs --------------------------
(***************************************************************************)
(* For any number of scans, workers and faults: the worker only ever works *)
(* for the scan the page waits for, no scan is lost by the gate, and an    *)
(* active scan has a worker unless one was dropped while it booted.        *)
(***************************************************************************)
EXTENDS ScanWorker, TLAPS

(* The worker is killed and the active scan rejected.                      *)
LEMMA TerminateStep ==
    ASSUME ScanInv, Terminate, UNCHANGED <<made, booting, reserved, awaits>>,
           aborted' \subseteq Scans, faults' \in 0 .. MaxFaults,
           dropped' \in BOOLEAN, dropped => dropped',
           dropped' \/ worker \notin booting
    PROVE  ScanInv'
<1> USE ScanWorkerAssumption DEF Terminate, Kill
<1>0. TypeOK /\ WorksForActive /\ OnePending /\ Waiting
  BY DEF ScanInv
<1>1. TypeOK'
  <2>1. outcome' \in [Scans -> {"new", "pending", "resolved", "rejected"}]
    BY <1>0 DEF TypeOK
  <2> QED BY <1>0, <2>1 DEF TypeOK
<1>2. WorksForActive' /\ ActiveIsServed'
  BY <1>0 DEF WorksForActive, ActiveIsServed, Has, TypeOK
<1>3. OnePending'
  BY <1>0 DEF OnePending, TypeOK, Waiting
<1>4. Waiting'
  BY <1>0 DEF Waiting
<1> QED BY <1>1, <1>2, <1>3, <1>4 DEF ScanInv

(* The initial state satisfies the invariant.                             *)
LEMMA InitInv == Init => ScanInv
<1> SUFFICES ASSUME Init PROVE ScanInv
  OBVIOUS
<1> USE ScanWorkerAssumption DEF Init
<1>1. TypeOK
  <2>1. outcome \in [Scans -> {"new", "pending", "resolved", "rejected"}]
    OBVIOUS
  <2>2. made \in 0 .. MaxWorkers /\ worker \in 0 .. made /\ awaits \in 0 .. made
        /\ faults \in 0 .. MaxFaults
    BY ScanWorkerAssumption
  <2>3. dropped \in BOOLEAN
    OBVIOUS
  <2> QED BY <2>1, <2>2, <2>3 DEF TypeOK
<1>2. WorksForActive /\ ActiveIsServed /\ Waiting
  BY DEF WorksForActive, ActiveIsServed, Waiting, Has
<1>3. OnePending
  <2>1. \A s \in Scans : outcome[s] = "new" /\ s # None
    OBVIOUS
  <2> QED BY <2>1 DEF OnePending
<1> QED BY <1>1, <1>2, <1>3 DEF ScanInv

(* Every step keeps it.                                                    *)
LEMMA StepInv == ScanInv /\ [Next]_vars => ScanInv'
<1> SUFFICES ASSUME ScanInv, [Next]_vars PROVE ScanInv'
  OBVIOUS
<1> USE ScanWorkerAssumption
<1>0. TypeOK /\ WorksForActive /\ ActiveIsServed /\ OnePending /\ Waiting
  BY DEF ScanInv
<1>1. CASE Warmup
  <2>1. TypeOK'
    BY <1>0, <1>1 DEF Warmup, Create, TypeOK, host
  <2>2. WorksForActive' /\ ActiveIsServed' /\ OnePending' /\ Waiting'
    BY <1>0, <1>1 DEF Warmup, Create, TypeOK, host, WorksForActive, ActiveIsServed,
       OnePending, Waiting, Has
  <2> QED BY <2>1, <2>2 DEF ScanInv
<1>2. CASE Ready
  <2>1. TypeOK'
    BY <1>0, <1>2 DEF Ready, Post, Return, Fault, NoFault, TypeOK
  <2>2. WorksForActive' /\ ActiveIsServed'
    <3>1. CASE active' = active /\ inbox' = inbox
      BY <1>0, <1>2, <3>1 DEF Ready, WorksForActive, ActiveIsServed, Has
    <3>2. CASE /\ active' = reserved /\ inbox' = inbox \cup {reserved}
               /\ reserved # None
      BY <1>0, <1>2, <3>2 DEF Ready, TypeOK, Waiting, WorksForActive, ActiveIsServed, Has, Answers
    <3> QED BY <1>2, <3>1, <3>2 DEF Ready, Post
  <2>3. OnePending' /\ Waiting'
    BY <1>0, <1>2 DEF Ready, Post, Return, Fault, NoFault, TypeOK, OnePending, Waiting
  <2> QED BY <2>1, <2>2, <2>3 DEF ScanInv
<1>3. CASE BootFails \/ \E w \in Workers : InitTimeout(w)
  <2>1. PICK w \in booting : FailInit(w) /\ faults' \in 0 .. MaxFaults
    <3>1. CASE BootFails
      BY <1>0, <3>1 DEF BootFails, Fault, TypeOK
    <3>2. CASE \E w \in Workers : InitTimeout(w)
      BY <1>0, <3>2 DEF InitTimeout, NoFault, TypeOK
    <3> QED BY <1>3, <3>1, <3>2
  <2>2. TypeOK'
    BY <1>0, <2>1 DEF FailInit, Kill, Return, TypeOK, Answers
  <2>3. WorksForActive' /\ ActiveIsServed'
    BY <1>0, <2>1 DEF FailInit, Kill, Return, TypeOK, WorksForActive, ActiveIsServed,
       Waiting, Has
  <2>4. OnePending' /\ Waiting'
    BY <1>0, <2>1 DEF FailInit, Kill, Return, TypeOK, OnePending, Waiting
  <2> QED BY <2>2, <2>3, <2>4 DEF ScanInv
<1>4. CASE Crash \/ ScanTimeout \/ Cancel \/ Shutdown \/ \E s \in Scans : active = s /\ Abort(s)
  <2>1. Terminate /\ UNCHANGED <<made, booting, reserved, awaits>>
    BY <1>4, <1>0 DEF Crash, ScanTimeout, Cancel, Shutdown, Abort
  <2>2. aborted' \subseteq Scans /\ faults' \in 0 .. MaxFaults
    BY <1>4, <1>0 DEF Crash, ScanTimeout, Cancel, Shutdown, Abort, Fault, NoFault, TypeOK
  <2>3. dropped' \in BOOLEAN /\ (dropped => dropped') /\ (dropped' \/ worker \notin booting)
    BY <1>4, <1>0 DEF Crash, ScanTimeout, Cancel, Shutdown, Abort, TypeOK, Waiting
  <2> QED BY <2>1, <2>2, <2>3, TerminateStep
<1>5. CASE \E s \in Scans : active # s /\ Abort(s)
  <2>1. /\ UNCHANGED <<worker, made, booting, reserved, awaits, active, outcome, host>>
        /\ UNCHANGED <<dropped, faults>> /\ aborted' \subseteq Scans
    BY <1>5, <1>0 DEF Abort, NoFault, TypeOK
  <2> QED BY <1>0, <2>1 DEF host, ScanInv, TypeOK, WorksForActive, ActiveIsServed,
       OnePending, Waiting, Has
<1>6. CASE \E s \in Scans : Scan(s)
  <2>1. PICK s \in Scans : Scan(s)
    BY <1>6
  <2>2. CASE Return(s, "rejected") /\ UNCHANGED <<client, aborted, host, dropped>>
                /\ faults' \in 0 .. MaxFaults
    <3>1. TypeOK' /\ OnePending'
      BY <1>0, <2>1, <2>2 DEF Scan, Return, client, host, TypeOK, OnePending
    <3>2. WorksForActive' /\ ActiveIsServed' /\ Waiting'
      BY <1>0, <2>2 DEF client, host, WorksForActive, ActiveIsServed, Has, Waiting
    <3> QED BY <3>1, <3>2 DEF ScanInv
  <2>3. CASE /\ Free /\ reserved' = s /\ Return(s, "pending")
             /\ awaits' = worker' /\ worker' \in booting' /\ made' \in 0 .. MaxWorkers
             /\ worker' \in 0 .. made' /\ booting' = booting \cup {worker'}
             /\ made <= made' /\ worker \in {0, worker'}
             /\ UNCHANGED <<active, host, aborted, dropped, faults>>
    <3>1. TypeOK' /\ OnePending'
      BY <1>0, <2>1, <2>3 DEF Scan, Free, Return, host, TypeOK, OnePending
    <3>2. WorksForActive' /\ ActiveIsServed'
      BY <1>0, <2>3 DEF Free, host, WorksForActive, ActiveIsServed, Has
    <3>3. Waiting'
      BY <1>0, <2>3 DEF Free, Waiting, TypeOK
    <3> QED BY <3>1, <3>2, <3>3 DEF ScanInv
  <2>4. CASE /\ Free /\ worker # 0 /\ worker \notin booting
             /\ active' = s /\ inbox' = inbox \cup {s} /\ Return(s, "pending")
             /\ UNCHANGED <<worker, made, booting, reserved, awaits, running, answers>>
             /\ UNCHANGED <<aborted, dropped, faults>>
    <3>1. TypeOK' /\ OnePending' /\ Waiting'
      BY <1>0, <2>1, <2>4 DEF Scan, Free, Return, TypeOK, OnePending, Waiting
    <3>2. WorksForActive' /\ ActiveIsServed'
      BY <1>0, <2>1, <2>4 DEF Free, TypeOK, Answers, WorksForActive, ActiveIsServed, Has
    <3> QED BY <3>1, <3>2 DEF ScanInv
  <2> QED BY <1>0, <2>1, <2>2, <2>3, <2>4
        DEF Scan, Create, Post, Fault, NoFault, client, host, TypeOK
<1>7. CASE \E s \in Scans : Receive(s)
  <2>1. PICK s \in Scans : Receive(s)
    BY <1>7
  <2>2. active = s /\ inbox' = {} /\ running = None /\ answers = {}
    BY <1>0, <2>1 DEF Receive, WorksForActive, Has, TypeOK
  <2>3. \/ running' = s /\ answers' = {}
        \/ running' = None /\ answers' = {[scan |-> s, valid |-> FALSE]}
    BY <2>1, <2>2 DEF Receive
  <2>4. UNCHANGED <<client, aborted, outcome, dropped, faults>>
    BY <2>1 DEF Receive
  <2>5. OnePending' /\ Waiting'
    BY <1>0, <2>4 DEF client, OnePending, Waiting
  <2>6. CASE running' = s /\ answers' = {}
    <3>1. TypeOK'
      BY <1>0, <2>2, <2>4, <2>6 DEF client, TypeOK
    <3>2. WorksForActive' /\ ActiveIsServed'
      BY <1>0, <2>2, <2>4, <2>6 DEF client, WorksForActive, ActiveIsServed, Has
    <3> QED BY <2>5, <3>1, <3>2 DEF ScanInv
  <2>7. CASE running' = None /\ answers' = {[scan |-> s, valid |-> FALSE]}
    <3>1. TypeOK'
      BY <1>0, <2>2, <2>4, <2>7 DEF client, TypeOK, Answers
    <3>2. WorksForActive' /\ ActiveIsServed'
      BY <1>0, <2>2, <2>4, <2>7 DEF client, WorksForActive, ActiveIsServed, Has
    <3> QED BY <2>5, <3>1, <3>2 DEF ScanInv
  <2> QED BY <2>3, <2>6, <2>7
<1>8. CASE Finish
  <2>1. running \in Scans /\ active = running /\ inbox = {} /\ answers = {}
    BY <1>0, <1>8 DEF Finish, WorksForActive, Has, TypeOK
  <2>2. PICK valid \in BOOLEAN : answers' = {[scan |-> running, valid |-> valid]}
    BY <1>8, <2>1 DEF Finish
  <2>3. running' = None /\ UNCHANGED <<client, aborted, outcome, inbox, dropped, faults>>
    BY <1>8 DEF Finish
  <2>4. TypeOK' /\ OnePending' /\ Waiting'
    BY <1>0, <2>1, <2>2, <2>3 DEF client, TypeOK, OnePending, Waiting, Answers
  <2>5. WorksForActive' /\ ActiveIsServed'
    BY <1>0, <2>1, <2>2, <2>3 DEF client, WorksForActive, ActiveIsServed, Has
  <2> QED BY <2>4, <2>5 DEF ScanInv
<1>9. CASE \E a \in Answers : Answer(a)
  <2>1. PICK a \in Answers : Answer(a)
    BY <1>9
  <2>2. active = a.scan /\ a.scan \in Scans /\ answers = {a} /\ inbox = {} /\ running = None
    BY <1>0, <2>1 DEF Answer, Answers, WorksForActive, Has, TypeOK
  <2>3. TypeOK' /\ OnePending' /\ Waiting'
    BY <1>0, <2>1, <2>2 DEF Answer, Return, NoFault, TypeOK, OnePending, Waiting
  <2>4. answers' = {} /\ inbox' = {} /\ running' = None /\ active' = None
    BY <2>1, <2>2 DEF Answer
  <2>5. WorksForActive' /\ ActiveIsServed'
    BY <2>4 DEF WorksForActive, ActiveIsServed, Has
  <2> QED BY <2>3, <2>5 DEF ScanInv
<1>10. CASE UNCHANGED vars
  BY <1>0, <1>10 DEF vars, client, host, ScanInv, TypeOK, WorksForActive, ActiveIsServed,
     OnePending, Waiting, Has
<1> QED BY <1>1, <1>2, <1>3, <1>4, <1>5, <1>6, <1>7, <1>8, <1>9, <1>10 DEF Next

(* The inductive invariant holds in every state of the scan path.          *)
THEOREM ScanInvariant == Spec => []ScanInv
BY InitInv, StepInv, PTL DEF Spec

(* The host never receives a scan while it runs another, and no answer is  *)
(* ever for a scan the page no longer waits for.                           *)
THEOREM WorkerServesTheActiveScan == Spec => []WorksForActive
<1>1. ScanInv => WorksForActive
  BY DEF ScanInv
<1> QED BY <1>1, ScanInvariant, PTL

(* The gate never loses a call: those that have not returned are the one   *)
(* that waits and the one in progress.                                     *)
THEOREM NoCallIsForgotten == Spec => []OnePending
<1>1. ScanInv => OnePending
  BY DEF ScanInv
<1> QED BY <1>1, ScanInvariant, PTL

(* Unless a worker was dropped while it booted, the active scan has a      *)
(* worker that will answer it.                                             *)
THEOREM ActiveScanHasWorker == Spec => []ActiveIsServed
<1>1. ScanInv => ActiveIsServed
  BY DEF ScanInv
<1> QED BY <1>1, ScanInvariant, PTL

------------------------------------------------------------------------------
(* The contract.                                                           *)

(* The worker goes: the active scan is rejected, if there is one.          *)
LEMMA TerminateKeepsContract ==
    ASSUME ScanInv, Terminate, UNCHANGED reserved
    PROVE  [Contract!Next]_(Contract!contractVars)
<1>1. /\ outcome' = [s \in Scans |-> IF s = active THEN "rejected" ELSE outcome[s]]
      /\ active' = None /\ reserved' = reserved /\ outcome = [s \in Scans |-> outcome[s]]
      /\ active # None => reserved = None
  BY DEF Terminate, ScanInv, TypeOK, Waiting
<1>2. CASE active = None
  <2>1. outcome' = outcome
    <3>1. \A s \in Scans : s # active
      BY <1>2, ScanWorkerAssumption
    <3> QED BY <1>1, <3>1
  <2>2. servedCall' = servedCall /\ servedStage' = servedStage
    BY <1>1, <1>2 DEF servedCall, servedStage
  <2> QED BY <2>1, <2>2 DEF Contract!contractVars
<1>3. CASE active # None
  <2>1. outcome' = [outcome EXCEPT ![active] = "rejected"]
    BY <1>1
  <2>2. servedCall = active /\ servedStage # "free" /\ servedCall' = None /\ servedStage' = "free"
    BY <1>1, <1>3 DEF servedCall, servedStage
  <2> QED BY <2>1, <2>2 DEF Contract!Next, Contract!Reject, Contract!Over, Contract!Returns
<1> QED BY <1>2, <1>3

(* A worker's initialisation fails: the call that waits for it is rejected,*)
(* or the worker that goes takes an answer along.                          *)
LEMMA FailInitKeepsContract ==
    ASSUME ScanInv, NEW w, FailInit(w)
    PROVE  [Contract!Next]_(Contract!contractVars)
<1>1. active' = active /\ answers' = {} /\ (reserved # None => active = None)
  BY DEF FailInit, Kill, ScanInv, Waiting
<1>2. CASE reserved # None /\ awaits = w
  <2>1. reserved' = None /\ outcome' = [outcome EXCEPT ![reserved] = "rejected"]
    BY <1>2 DEF FailInit, Return
  <2>2. /\ servedCall = reserved /\ servedStage = "waiting"
        /\ servedCall' = None /\ servedStage' = "free"
    BY <1>1, <1>2, <2>1 DEF servedCall, servedStage
  <2> QED BY <2>1, <2>2 DEF Contract!Next, Contract!Reject, Contract!Over, Contract!Returns
<1>3. CASE ~(reserved # None /\ awaits = w)
  <2>1. reserved' = reserved /\ outcome' = outcome
    BY <1>3 DEF FailInit
  <2>2. servedCall' = servedCall
    BY <1>1, <2>1 DEF servedCall
  <2>3. servedStage' = servedStage \/ (servedStage = "judged" /\ servedStage' = "scanning")
    BY <1>1, <2>1 DEF servedStage
  <2> QED BY <2>1, <2>2, <2>3 DEF Contract!Next, Contract!Lose, Contract!contractVars
<1> QED BY <1>2, <1>3

(* A worker becomes ready: the call that waits for it is posted.           *)
LEMMA ReadyKeepsContract ==
    ASSUME ScanInv, Ready
    PROVE  [Contract!Next]_(Contract!contractVars)
<1>1. CASE reserved # None /\ awaits = worker
  <2>1. active = None /\ reserved \in Scans
    BY <1>1 DEF ScanInv, Waiting, TypeOK
  <2>2. servedCall = reserved /\ servedStage = "waiting" /\ reserved' = None
    BY <1>1, <2>1 DEF servedCall, servedStage, Ready
  <2>3. CASE active' = reserved
    <3>1. outcome' = [outcome EXCEPT ![reserved] = "pending"] /\ answers' = answers
      BY <1>1, <2>1, <2>3, ScanWorkerAssumption DEF Ready, Post, Return
    <3>2. outcome' = outcome
      <4>1. outcome[reserved] = "pending" /\ outcome = [s \in Scans |-> outcome[s]]
        BY <1>1, <2>1 DEF ScanInv, OnePending, TypeOK
      <4> QED BY <3>1, <4>1
    <3>3. [scan |-> reserved, valid |-> TRUE] \notin answers
      <4>1. ~Has(reserved)
        BY <1>1, <2>1 DEF ScanInv, WorksForActive
      <4> QED BY <4>1 DEF Has
    <3>4. servedCall' = reserved /\ servedStage' = "scanning"
      BY <1>1, <2>3, <3>1, <3>3 DEF servedCall, servedStage
    <3> QED BY <2>2, <3>2, <3>4 DEF Contract!Next, Contract!Scanning
  <2>4. CASE active' # reserved
    <3>1. outcome' = [outcome EXCEPT ![reserved] = "rejected"] /\ active' = None
      BY <1>1, <2>1, <2>4 DEF Ready, Post, Return
    <3>2. servedCall' = None /\ servedStage' = "free"
      BY <2>2, <3>1 DEF servedCall, servedStage
    <3> QED BY <2>2, <3>1, <3>2 DEF Contract!Next, Contract!Reject, Contract!Over, Contract!Returns
  <2> QED BY <2>3, <2>4
<1>2. CASE ~(reserved # None /\ awaits = worker)
  BY <1>2 DEF Ready, servedCall, servedStage, Contract!contractVars
<1> QED BY <1>1, <1>2

(* A call begins: it is refused, it waits, or it is posted at once.        *)
LEMMA ScanKeepsContract ==
    ASSUME ScanInv, NEW s \in Scans, Scan(s)
    PROVE  [Contract!Next]_(Contract!contractVars)
<1>1. outcome[s] = "new" /\ s # None
  BY ScanWorkerAssumption DEF Scan
<1>2. CASE Return(s, "rejected") /\ active' = active /\ reserved' = reserved /\ answers' = answers
  <2>1. servedCall' = servedCall /\ servedStage' = servedStage
    BY <1>2 DEF servedCall, servedStage
  <2> QED BY <1>1, <1>2, <2>1 DEF Return, Contract!Next, Contract!Refuse, Contract!Returns
<1>3. CASE Free /\ Return(s, "pending") /\ reserved' = s /\ active' = active
  <2>1. servedStage = "free" /\ servedCall' = s /\ servedStage' = "waiting"
    BY <1>1, <1>3 DEF Free, servedCall, servedStage
  <2> QED BY <1>1, <1>3, <2>1 DEF Return, Contract!Next, Contract!Serve, Contract!Returns
<1>4. CASE Free /\ Return(s, "pending") /\ active' = s /\ answers' = answers
  <2>1. [scan |-> s, valid |-> TRUE] \notin answers
    <3>1. ~Has(s)
      BY <1>1, <1>4 DEF Free, ScanInv, WorksForActive
    <3> QED BY <3>1 DEF Has
  <2>2. servedStage = "free" /\ servedCall' = s /\ servedStage' = "scanning"
    BY <1>1, <1>4, <2>1 DEF Free, servedCall, servedStage
  <2> QED BY <1>1, <1>4, <2>2 DEF Return, Contract!Next, Contract!Serve, Contract!Returns
<1> QED BY <1>2, <1>3, <1>4 DEF Scan, Post, client, host

(* The host refuses a request, or ends a scan: a valid result is what the  *)
(* contract calls judged.                                                  *)
LEMMA HostKeepsContract ==
    ASSUME ScanInv, Finish \/ \E s \in Scans : Receive(s)
    PROVE  [Contract!Next]_(Contract!contractVars)
<1>1. UNCHANGED <<active, reserved, outcome>>
  BY DEF Finish, Receive, client
<1>2. servedCall' = servedCall
  BY <1>1 DEF servedCall
<1>3. CASE \E s \in Scans : Receive(s)
  <2>1. PICK s \in Scans : \/ answers' = answers
                           \/ answers' = answers \cup {[scan |-> s, valid |-> FALSE]}
    BY <1>3 DEF Receive
  <2>2. [scan |-> active, valid |-> TRUE] # [scan |-> s, valid |-> FALSE]
    OBVIOUS
  <2>3. servedStage' = servedStage
    BY <1>1, <2>1, <2>2 DEF servedStage
  <2> QED BY <1>1, <1>2, <2>3 DEF Contract!contractVars
<1>4. CASE Finish
  <2>1. running = active /\ active # None /\ answers = {}
    BY <1>4, ScanWorkerAssumption DEF Finish, ScanInv, WorksForActive, TypeOK, Has
  <2>2. PICK valid \in BOOLEAN : answers' = {[scan |-> active, valid |-> valid]}
    BY <1>4, <2>1 DEF Finish
  <2>3. servedStage = "scanning" /\ servedStage' \in {"scanning", "judged"}
    BY <1>1, <2>1 DEF servedStage
  <2> QED BY <1>1, <1>2, <2>3 DEF Contract!Next, Contract!Judge, Contract!contractVars
<1> QED BY <1>3, <1>4

(* An answer arrives: it is that of the call that is served.               *)
LEMMA AnswerKeepsContract ==
    ASSUME ScanInv, NEW a \in Answers, Answer(a)
    PROVE  [Contract!Next]_(Contract!contractVars)
<1>1. a \in answers /\ a.scan \in Scans /\ a.valid \in BOOLEAN
      /\ a = [scan |-> a.scan, valid |-> a.valid]
  BY DEF Answer, Answers
<1>2. active = a.scan /\ active # None /\ reserved = None
  BY <1>1, ScanWorkerAssumption DEF ScanInv, WorksForActive, Waiting, Has
<1>3. /\ active' = None /\ reserved' = None
      /\ outcome' = [outcome EXCEPT ![active] = IF a.valid THEN "resolved" ELSE "rejected"]
  BY <1>2 DEF Answer, Return
<1>4. /\ servedCall = active /\ servedCall' = None /\ servedStage' = "free"
      /\ servedStage # "free"
  BY <1>2, <1>3 DEF servedCall, servedStage
<1>5. CASE a.valid
  <2>1. [scan |-> active, valid |-> TRUE] \in answers
    BY <1>1, <1>2, <1>5
  <2>2. servedStage = "judged"
    BY <1>2, <2>1 DEF servedStage
  <2> QED BY <1>3, <1>4, <1>5, <2>2
          DEF Contract!Next, Contract!Resolve, Contract!Over, Contract!Returns
<1>6. CASE ~a.valid
  BY <1>3, <1>4, <1>6 DEF Contract!Next, Contract!Reject, Contract!Over, Contract!Returns
<1> QED BY <1>5, <1>6

LEMMA StepKeepsContract ==
    ASSUME ScanInv, [Next]_vars
    PROVE  [Contract!Next]_(Contract!contractVars)
<1>1. CASE Warmup
  BY <1>1 DEF Warmup, host, servedCall, servedStage, Contract!contractVars
<1>2. CASE Ready
  BY <1>2, ReadyKeepsContract
<1>3. CASE BootFails \/ \E w \in Workers : InitTimeout(w)
  BY <1>3, FailInitKeepsContract DEF BootFails, InitTimeout
<1>4. CASE Crash \/ ScanTimeout \/ Cancel \/ Shutdown
  BY <1>4, TerminateKeepsContract DEF Crash, ScanTimeout, Cancel, Shutdown
<1>5. ASSUME NEW s \in Scans, Abort(s) PROVE [Contract!Next]_(Contract!contractVars)
  <2>1. CASE active = s
    BY <1>5, <2>1, TerminateKeepsContract DEF Abort
  <2>2. CASE active # s
    BY <1>5, <2>2 DEF Abort, host, servedCall, servedStage, Contract!contractVars
  <2> QED BY <2>1, <2>2
<1>6. CASE \E s \in Scans : Scan(s)
  BY <1>6, ScanKeepsContract
<1>7. CASE Finish \/ \E s \in Scans : Receive(s)
  BY <1>7, HostKeepsContract
<1>8. CASE \E a \in Answers : Answer(a)
  BY <1>8, AnswerKeepsContract
<1>9. CASE UNCHANGED vars
  BY <1>9 DEF vars, client, host, servedCall, servedStage, Contract!contractVars
<1> QED BY <1>1, <1>2, <1>3, <1>4, <1>5, <1>6, <1>7, <1>8, <1>9 DEF Next

(* The client keeps its contract with the page for any number of calls,    *)
(* workers and faults: one call at a time, one return for each, a result   *)
(* only from the host that judged it (scan-worker-client.js).              *)
THEOREM ScanContractImplemented == Spec => ImplementsScanContract
<1>1. Init => Contract!Init
  BY DEF Init, Contract!Init, servedCall, servedStage
<1>2. ScanInv /\ [Next]_vars => [Contract!Next]_(Contract!contractVars)
  BY StepKeepsContract
<1> QED BY <1>1, <1>2, ScanInvariant, PTL DEF Spec, ImplementsScanContract, Contract!Spec
=============================================================================
