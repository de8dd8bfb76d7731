---------------------------- MODULE ScanContract ----------------------------
(***************************************************************************)
(* What the scan worker's client promises the page, without workers, boots,*)
(* timers and messages: one call is served at a time, another is refused;  *)
(* a call returns once; and it returns a result only when the host has     *)
(* judged its own file, while every failure returns an error.              *)
(* ScanWorker implements this.                                             *)
(***************************************************************************)
CONSTANTS
    Scans,  \* the calls
    None

VARIABLES
    served,  \* the call that is served, or None
    stage,   \* "free", or how far it is: "waiting", "scanning", "judged"
    outcome  \* Scans -> what a call has returned

contractVars == <<served, stage, outcome>>

Init == served = None /\ stage = "free" /\ outcome = [s \in Scans |-> "new"]

Returns(s, result) == outcome' = [outcome EXCEPT ![s] = result]

(* A call finds the client free: it waits for a worker or is posted to one.*)
Serve(s) ==
    /\ outcome[s] = "new" /\ stage = "free"
    /\ served' = s /\ stage' \in {"waiting", "scanning"}
    /\ Returns(s, "pending")

(* It is refused: busy, aborted, or there is no worker for it.             *)
Refuse(s) ==
    /\ outcome[s] = "new"
    /\ Returns(s, "rejected") /\ UNCHANGED <<served, stage>>

Scanning == stage = "waiting" /\ stage' = "scanning" /\ UNCHANGED <<served, outcome>>

(* The host has judged the file; the judgement may be lost with its worker.*)
Judge == stage = "scanning" /\ stage' = "judged" /\ UNCHANGED <<served, outcome>>
Lose == stage = "judged" /\ stage' = "scanning" /\ UNCHANGED <<served, outcome>>

Over(result) == Returns(served, result) /\ served' = None /\ stage' = "free"

Resolve == stage = "judged" /\ Over("resolved")

(* An abort, a timeout, a failure or a contract violation, at any time.    *)
Reject == stage # "free" /\ Over("rejected")

Next ==
    \/ \E s \in Scans : Serve(s) \/ Refuse(s)
    \/ Scanning \/ Judge \/ Lose \/ Resolve \/ Reject

Spec == Init /\ [][Next]_contractVars
=============================================================================
