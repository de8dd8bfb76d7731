--------------------------- MODULE GuardContract ---------------------------
(***************************************************************************)
(* What the desktop guard promises about a file it has taken, without the  *)
(* moves, hashes, manifests and awaits by which it keeps the promise: the  *)
(* file is judged once; it goes back only if it was judged benign;         *)
(* otherwise it is contained and reported, or the guard raises its alarm.  *)
(* DesktopGuardContract shows that DesktopGuard implements this.           *)
(***************************************************************************)
CONSTANTS
    Holders,  \* who can have a file in custody: watched paths and installs
    Watched,  \* those that are watched paths
    Ids,      \* names of private copies
    Files,    \* what a file can be
    Benign,   \* the files that may be judged safe
    None

VARIABLES
    copy,     \* Holders -> the private copy in custody
    stage,    \* Holders -> how far its judgement is
    file,     \* Holders -> what was taken, until it is condemned
    entry,    \* Ids -> "none", "contained" or "returned" (to the user)
    reported, \* ids with an incident report
    trusted,  \* Watched -> the released file the guard need not judge again
    alarm     \* the guard's health is degraded

contractVars == <<copy, stage, file, entry, reported, trusted, alarm>>

Init ==
    /\ copy = [h \in Holders |-> None]
    /\ stage = [h \in Holders |-> "free"]
    /\ file = [h \in Holders |-> None]
    /\ entry = [i \in Ids |-> "none"]
    /\ reported = {}
    /\ trusted = [p \in Watched |-> None]
    /\ alarm = FALSE

Custody(h, i, s, f) ==
    /\ copy' = [copy EXCEPT ![h] = i]
    /\ stage' = [stage EXCEPT ![h] = s]
    /\ file' = [file EXCEPT ![h] = f]

(* A file is taken under a name nothing else has; a trusted file is        *)
(* forgotten before it is taken again.                                     *)
Take(h) ==
    /\ stage[h] = "free"
    /\ h \in Watched => trusted[h] = None
    /\ \E i \in Ids, f \in Files :
          /\ entry[i] = "none" /\ \A g \in Holders : stage[g] # "free" => copy[g] # i
          /\ Custody(h, i, "judging", f)
    /\ UNCHANGED <<entry, reported, trusted, alarm>>

Clear(h) ==
    /\ stage[h] = "judging" /\ file[h] \in Benign
    /\ Custody(h, copy[h], "cleared", file[h])
    /\ UNCHANGED <<entry, reported, trusted, alarm>>

Condemn(h) ==
    /\ stage[h] \in {"judging", "cleared"}
    /\ Custody(h, copy[h], "condemned", None)
    /\ UNCHANGED <<entry, reported, trusted, alarm>>

(* Exactly what was cleared goes back, and is what is trusted.             *)
Return(h) ==
    /\ stage[h] = "cleared"
    /\ trusted' = IF h \in Watched THEN [trusted EXCEPT ![h] = file[h]] ELSE trusted
    /\ Custody(h, None, "free", None)
    /\ UNCHANGED <<entry, reported, alarm>>

Contain(h) ==
    /\ stage[h] = "condemned" /\ entry[copy[h]] = "none"
    /\ entry' = [entry EXCEPT ![copy[h]] = "contained"]
    /\ UNCHANGED <<copy, stage, file, reported, trusted, alarm>>

(* Custody of a condemned file ends with a report, or                      *)
Report(p) ==
    /\ stage[p] = "condemned" /\ entry[copy[p]] # "none"
    /\ reported' = reported \cup {copy[p]}
    /\ Custody(p, None, "free", None)
    /\ UNCHANGED <<entry, trusted, alarm>>

(* with the alarm.                                                         *)
GiveUp(p) ==
    /\ stage[p] = "condemned"
    /\ alarm' = TRUE
    /\ Custody(p, None, "free", None)
    /\ UNCHANGED <<entry, reported, trusted>>

(* An install answers to its caller instead, at any time.                  *)
Refuse(i) ==
    /\ stage[i] # "free"
    /\ Custody(i, None, "free", None)
    /\ UNCHANGED <<entry, reported, trusted, alarm>>

GiveBack(i) ==
    /\ entry[i] = "contained"
    /\ entry' = [entry EXCEPT ![i] = "returned"]
    /\ UNCHANGED <<copy, stage, file, reported, trusted, alarm>>

Forget(p) ==
    /\ trusted' = [trusted EXCEPT ![p] = None]
    /\ UNCHANGED <<copy, stage, file, entry, reported, alarm>>

Alarm ==
    /\ alarm' \in BOOLEAN
    /\ UNCHANGED <<copy, stage, file, entry, reported, trusted>>

(* A kill loses what is in memory: custody, trust and the alarm.           *)
Kill ==
    /\ copy' = [h \in Holders |-> None]
    /\ stage' = [h \in Holders |-> "free"]
    /\ file' = [h \in Holders |-> None]
    /\ trusted' = [p \in Watched |-> None]
    /\ alarm' = FALSE
    /\ UNCHANGED <<entry, reported>>

Next ==
    \/ \E h \in Holders : Take(h) \/ Clear(h) \/ Condemn(h) \/ Return(h) \/ Contain(h)
    \/ \E p \in Watched : Report(p) \/ GiveUp(p) \/ Forget(p)
    \/ \E i \in Holders \ Watched : Refuse(i)
    \/ \E i \in Ids : GiveBack(i)
    \/ Alarm \/ Kill

Spec == Init /\ [][Next]_contractVars
=============================================================================
