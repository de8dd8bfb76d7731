----------------------------- MODULE ScanWorker -----------------------------
(***************************************************************************)
(* The browser's scan worker: the page's client (scan-worker-client.js),   *)
(* which creates the worker, gives it one scan at a time and kills it on an*)
(* abort, a timeout or an error, and the worker's host (scan-worker.js).   *)
(*                                                                         *)
(* A page action is one task of the page's event loop with the promise     *)
(* reactions it causes.  Only the worker in the variable worker is alive:  *)
(* terminate() empties the queues between the two.  Every worker has an    *)
(* initialisation promise and its timer, which outlive the worker.         *)
(***************************************************************************)
EXTENDS Naturals

CONSTANTS
    Scans,       \* the calls of scanFileInWorker; a call has its own request id
    None,
    MaxWorkers,  \* bound: workers created
    MaxFaults    \* bound: failed creations, posts, boots and crashes

ASSUME ScanWorkerAssumption ==
    None \notin Scans /\ MaxWorkers \in Nat /\ MaxFaults \in Nat

Workers == 1 .. MaxWorkers

VARIABLES
    worker,    \* the client's worker, 0 if there is none
    made,      \* workers created so far
    booting,   \* workers whose initialisation promise is not settled
    reserved,  \* the call that waits for a worker (scanReserved), or None
    awaits,    \* the worker whose promise it waits for
    active,    \* the call in progress (active), or None
    aborted,   \* calls whose AbortSignal has fired
    outcome,   \* Scans -> what the call has returned
    inbox,     \* calls posted to the worker, not yet received
    running,   \* the call the host works on (activeRequestId), or None
    answers,   \* answers posted by the host, not yet received
    dropped,   \* history: a worker was dropped while it was booting
    faults

client == <<worker, made, booting, reserved, awaits, active>>
host == <<inbox, running, answers>>
vars == <<client, aborted, outcome, host, dropped, faults>>

Init ==
    /\ worker = 0 /\ made = 0 /\ booting = {}
    /\ reserved = None /\ awaits = 0 /\ active = None
    /\ aborted = {} /\ outcome = [s \in Scans |-> "new"]
    /\ inbox = {} /\ running = None /\ answers = {}
    /\ dropped = FALSE /\ faults = 0

------------------------------------------------------------------------------
(* Helpers.                                                                *)

Fault == faults < MaxFaults /\ faults' = faults + 1
NoFault == UNCHANGED faults

Return(s, result) == outcome' = [outcome EXCEPT ![s] = result]

(* The worker goes, with what it was doing and its messages.               *)
Kill ==
    /\ worker' = 0
    /\ inbox' = {} /\ running' = None /\ answers' = {}

(* Mutant of Terminate: the scan is rejected and the worker kept.          *)
TerminateKeepsWorker ==
    /\ UNCHANGED <<worker, host>>
    /\ active' = None
    /\ outcome' = [s \in Scans |-> IF s = active THEN "rejected" ELSE outcome[s]]

(* terminateWorker: the active scan is rejected.                           *)
Terminate ==
    /\ Kill
    /\ active' = None
    /\ outcome' = [s \in Scans |-> IF s = active THEN "rejected" ELSE outcome[s]]

(* failInit of w: the worker that is killed is the current one; the call   *)
(* that waits for w is rejected, the active one is not.                    *)
FailInit(w) ==
    /\ booting' = booting \ {w}
    /\ Kill
    /\ IF reserved # None /\ awaits = w
       THEN reserved' = None /\ Return(reserved, "rejected")
       ELSE UNCHANGED <<reserved, outcome>>
    /\ UNCHANGED <<made, awaits, active, aborted, dropped>>

(* Mutant of Post: the scan is active before it is posted, and stays so if *)
(* the post fails.                                                         *)
PostFailureKept(s) ==
    \/ /\ active' = s /\ inbox' = inbox \cup {s}
       /\ Return(s, "pending") /\ NoFault
    \/ /\ active' = s
       /\ Return(s, "rejected") /\ Fault /\ UNCHANGED inbox

(* The worker is ready: the scan becomes active, unless the post throws.   *)
Post(s) ==
    \/ /\ active' = s /\ inbox' = inbox \cup {s}
       /\ Return(s, "pending") /\ NoFault
    \/ /\ Return(s, "rejected") /\ Fault /\ UNCHANGED <<active, inbox>>

------------------------------------------------------------------------------
(* The page.                                                               *)

(* ensureWorker creates a worker when there is none.                       *)
Create ==
    /\ worker = 0 /\ made < MaxWorkers
    /\ made' = made + 1 /\ worker' = made + 1
    /\ booting' = booting \cup {made + 1}

(* warmupScanWorker; a failed creation is its caller's.                    *)
Warmup ==
    /\ Create
    /\ UNCHANGED <<reserved, awaits, active, aborted, outcome, host, dropped, faults>>

(* Mutant of Free: the gate before the reservation was added.              *)
FreeUnreserved == active = None

(* The gate: one scan at a time, waiting or active.                        *)
Free == active = None /\ reserved = None

(* scanFileInWorker up to its first wait for a message.                    *)
Scan(s) ==
    /\ outcome[s] = "new"
    /\ \/ /\ ~Free \/ s \in aborted
          /\ Return(s, "rejected")
          /\ NoFault /\ UNCHANGED <<client, host>>
       \/ /\ Free /\ s \notin aborted
          /\ worker = 0
          /\ \/ /\ Create
                /\ reserved' = s /\ awaits' = made + 1 /\ Return(s, "pending")
                /\ NoFault /\ UNCHANGED <<active, host>>
             \/ /\ Fault /\ Return(s, "rejected")
                /\ UNCHANGED <<client, host>>
       \/ /\ Free /\ s \notin aborted
          /\ worker \in booting
          /\ reserved' = s /\ awaits' = worker /\ Return(s, "pending")
          /\ NoFault /\ UNCHANGED <<worker, made, booting, active, host>>
       \/ /\ Free /\ s \notin aborted
          /\ worker # 0 /\ worker \notin booting
          /\ Post(s)
          /\ UNCHANGED <<worker, made, booting, reserved, awaits, running, answers>>
    /\ UNCHANGED <<aborted, dropped>>

(* worker_ready: the promise is settled and the waiting call goes on.      *)
Ready ==
    /\ worker \in booting
    /\ booting' = booting \ {worker}
    /\ IF reserved # None /\ awaits = worker
       THEN /\ reserved' = None
            /\ \/ reserved \notin aborted /\ Post(reserved)
               \/ /\ reserved \in aborted /\ Return(reserved, "rejected")
                  /\ NoFault /\ UNCHANGED <<active, inbox>>
       ELSE NoFault /\ UNCHANGED <<reserved, active, outcome, inbox>>
    /\ UNCHANGED <<worker, made, awaits, aborted, running, answers, dropped>>

(* The ready message says that the boot failed or that versions differ, or *)
(* an error event arrives before it.                                       *)
BootFails ==
    /\ worker \in booting
    /\ Fault
    /\ FailInit(worker)

(* The timer of a worker that has not settled: it may long be dropped.     *)
InitTimeout(w) ==
    /\ w \in booting
    /\ FailInit(w) /\ NoFault

(* An error event of a worker that is ready.                               *)
Crash ==
    /\ worker # 0 /\ worker \notin booting
    /\ Fault
    /\ Terminate
    /\ UNCHANGED <<made, booting, reserved, awaits, aborted, dropped>>

ScanTimeout ==
    /\ active # None
    /\ Terminate
    /\ NoFault /\ UNCHANGED <<made, booting, reserved, awaits, aborted, dropped>>

(* The signal of s fires; a call that waits looks at it later.             *)
Abort(s) ==
    /\ s \notin aborted /\ aborted' = aborted \cup {s}
    /\ IF active = s THEN Terminate ELSE UNCHANGED <<worker, host, active, outcome>>
    /\ NoFault /\ UNCHANGED <<made, booting, reserved, awaits, dropped>>

(* cancelActiveScan.                                                       *)
Cancel ==
    /\ active # None
    /\ Terminate
    /\ NoFault /\ UNCHANGED <<made, booting, reserved, awaits, aborted, dropped>>

(* Mutant of Shutdown: the timer of a booting worker goes with it.         *)
ShutdownClearsTimer ==
    /\ worker # 0 \/ active # None
    /\ Terminate
    /\ dropped' = (dropped \/ worker \in booting)
    /\ booting' = booting \ {worker}
    /\ NoFault /\ UNCHANGED <<made, reserved, awaits, aborted>>

(* shutdownScanWorker: the promise of a booting worker stays unsettled.    *)
Shutdown ==
    /\ worker # 0 \/ active # None
    /\ Terminate
    /\ dropped' = (dropped \/ worker \in booting)
    /\ NoFault /\ UNCHANGED <<made, booting, reserved, awaits, aborted>>

(* The message handler: an answer to another request is ignored; a result  *)
(* that breaks the contract rejects like an error.                         *)
Answer(a) ==
    /\ a \in answers /\ answers' = answers \ {a}
    /\ IF active = a.scan
       THEN /\ active' = None
            /\ Return(a.scan, IF a.valid THEN "resolved" ELSE "rejected")
       ELSE UNCHANGED <<active, outcome>>
    /\ NoFault
    /\ UNCHANGED <<worker, made, booting, reserved, awaits, aborted, inbox, running, dropped>>

------------------------------------------------------------------------------
(* The host.                                                               *)

(* The message handler: a request that is refused, or that finds another   *)
(* one running, is answered with an error.                                 *)
Receive(s) ==
    /\ s \in inbox /\ inbox' = inbox \ {s}
    /\ \/ running = None /\ running' = s /\ UNCHANGED answers
       \/ /\ answers' = answers \cup {[scan |-> s, valid |-> FALSE]}
          /\ UNCHANGED running
    /\ UNCHANGED <<client, aborted, outcome, dropped, faults>>

(* scanFileWithMode ends, with a result or an error.                       *)
Finish ==
    /\ running # None
    /\ \E valid \in BOOLEAN :
          answers' = answers \cup {[scan |-> running, valid |-> valid]}
    /\ running' = None
    /\ UNCHANGED <<client, aborted, outcome, inbox, dropped, faults>>

Answers == [scan : Scans, valid : BOOLEAN]

Next ==
    \/ Warmup \/ Ready \/ BootFails \/ Crash \/ ScanTimeout \/ Cancel \/ Shutdown \/ Finish
    \/ \E s \in Scans : Scan(s) \/ Abort(s) \/ Receive(s)
    \/ \E w \in Workers : InitTimeout(w)
    \/ \E a \in Answers : Answer(a)

Spec == Init /\ [][Next]_vars

(* The page's timers fire.  The worker need not do anything: it may hang   *)
(* while it boots and while it scans.                                      *)
Fairness == WF_vars(ScanTimeout) /\ \A w \in Workers : WF_vars(InitTimeout(w))

FairSpec == Spec /\ Fairness

------------------------------------------------------------------------------
TypeOK ==
    /\ made \in 0 .. MaxWorkers /\ worker \in 0 .. made /\ awaits \in 0 .. made
    /\ booting \subseteq 1 .. made
    /\ reserved \in Scans \cup {None} /\ active \in Scans \cup {None}
    /\ aborted \subseteq Scans
    /\ outcome \in [Scans -> {"new", "pending", "resolved", "rejected"}]
    /\ inbox \subseteq Scans /\ running \in Scans \cup {None} /\ answers \subseteq Answers
    /\ dropped \in BOOLEAN /\ faults \in 0 .. MaxFaults

(* The worker has the request of a scan, executes it, or has answered it.  *)
Has(s) == s \in inbox \/ s = running \/ \E a \in answers : a.scan = s

(* The worker only ever works for the scan the page waits for, and has it  *)
(* in one place: no request, execution or answer of an earlier scan        *)
(* outlives it, so the host never receives a scan while it runs another    *)
(* and no answer is ever ignored (scanReserved, terminateWorker,           *)
(* activeRequestId).                                                       *)
WorksForActive ==
    /\ \A s \in Scans : Has(s) => s = active
    /\ running # None \/ answers # {} => inbox = {}
    /\ running # None => answers = {}
    /\ \A a, b \in answers : a = b

(* An active scan has a worker that still has it, so an answer can come:   *)
(* nothing but a worker dropped while it booted, whose timer kills its     *)
(* successor, leaves a scan to its timeout (failInit, terminateWorker).    *)
ActiveIsServed == active # None /\ ~dropped => worker # 0 /\ Has(active)

(* No two calls wait or scan at once (scanReserved).                       *)
OnePending == \A s \in Scans : outcome[s] = "pending" <=> s \in {active, reserved} \ {None}

(* Why the three hold: a call waits for a worker that is still booting, and*)
(* without a dropped worker only the current one boots, and not while a    *)
(* scan is active.                                                         *)
Waiting ==
    /\ reserved # None => active = None /\ awaits \in booting
    /\ ~dropped => booting \subseteq {worker}
    /\ active # None /\ ~dropped => worker \notin booting

ScanInv == TypeOK /\ WorksForActive /\ ActiveIsServed /\ OnePending /\ Waiting

(* What the contract sees: the call that waits or scans, and whether the   *)
(* host has posted a valid result for it.                                  *)
servedCall == IF active # None THEN active ELSE reserved
servedStage ==
    IF active = None THEN IF reserved = None THEN "free" ELSE "waiting"
    ELSE IF [scan |-> active, valid |-> TRUE] \in answers THEN "judged" ELSE "scanning"

Contract == INSTANCE ScanContract WITH served <- servedCall, stage <- servedStage

(* Whatever workers hang, crash, time out or are dropped, calls are served *)
(* one at a time and return once, and a call returns a result only when    *)
(* the host has finished that very call in the worker that is alive: a late*)
(* answer settles no other call, and every failure is an error, never a    *)
(* verdict (scan-worker-client.js, its hardening policy).                  *)
ImplementsScanContract == Contract!Spec

(* Every call of scanFileInWorker returns, even if the worker hangs, and   *)
(* even if its worker is dropped while it waits for it.                    *)
EveryScanSettles == \A s \in Scans : outcome[s] = "pending" ~> outcome[s] \in {"resolved", "rejected"}
=============================================================================
