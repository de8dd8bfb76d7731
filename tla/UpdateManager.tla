--------------------------- MODULE UpdateManager ---------------------------
(***************************************************************************)
(* Signed updates: the order of versions, the checks of a manifest against *)
(* the persisted anti-replay state, the staging of the package and its     *)
(* last check before installation.  Every file operation is synchronous in *)
(* one process; between two of them the process may be killed or another   *)
(* program may change the package.                                         *)
(***************************************************************************)
EXTENDS Integers, Sequences, FiniteSetsExt

CONSTANTS
    Releases,      \* manifests the trusted key has signed: sequence and version
    Installed,     \* the version that is installed at first
    Precedence,    \* versions in the order of Semantic Versioning, the earliest first
    MaxUpdateFaults \* bound: kills, changed packages and failed writes

ASSUME UpdateAssumption ==
    /\ \A r \in Releases : /\ r.sequence \in Nat \ {0}
                           /\ r = [sequence |-> r.sequence, version |-> r.version]
    /\ MaxUpdateFaults \in Nat

VARIABLES
    state,     \* the state file: [sequence, version], or the default of loadState
    staged,    \* staged packages, and whether each is "signed", "other", or was
               \* "changed" by another program after the copy was made
    download,  \* the downloaded package: "signed" or "other"
    update,    \* stageVerifiedCandidate: where it stands, and with which manifest
    current,   \* version of the running program
    updateFaults

updateVars == <<state, staged, download, update, current, updateFaults>>

NoUpdate == [at |-> "idle", release |-> {}]

(* defaultState: no sequence, and the version that is running.             *)
UpdateInit ==
    /\ current = Installed /\ state = [sequence |-> 0, version |-> Installed]
    /\ staged = <<>> /\ download = "signed" /\ update = NoUpdate /\ updateFaults = 0

UpdateFault == updateFaults < MaxUpdateFaults /\ updateFaults' = updateFaults + 1
At(where, r) == update.at = where /\ r \in update.release
WithCopy(r) == [q \in DOMAIN staged \cup {r} |-> IF q = r THEN download ELSE staged[q]]
Unstaged(r) == [q \in DOMAIN staged \ {r} |-> staged[q]]
To(where, r) == update' = [at |-> where, release |-> {r}]

------------------------------------------------------------------------------
(* compareVersions.                                                        *)

(* Mutant of CompareIds: identifiers are compared as text.                 *)
CompareIdsAsText(a, b) == a.text - b.text

(* Two different identifiers: numbers by value and before text.  The value *)
(* is what Number() makes of the digits: beyond 2^53 two identifiers may   *)
(* share one, and then neither is the later.                               *)
CompareIds(a, b) ==
    IF a.numeric /\ b.numeric THEN IF a.value > b.value THEN 1 ELSE -1
    ELSE IF a.numeric THEN -1 ELSE IF b.numeric THEN 1 ELSE a.text - b.text

(* No prerelease is later than any; else the first difference decides.     *)
ComparePrerelease(a, b) ==
    LET common == Min({Len(a), Len(b)})
        differ == {i \in 1..common : a[i] # b[i]}
    IN IF a = <<>> \/ b = <<>> THEN Len(b) - Len(a)
       ELSE IF differ = {} THEN Len(a) - Len(b)
       ELSE CompareIds(a[Min(differ)], b[Min(differ)])

(* The parts of the core are numbers that Number() represents exactly.     *)
CompareVersions(a, b) ==
    LET differ == {i \in 1..3 : a.core[i] # b.core[i]}
    IN IF differ = {} THEN ComparePrerelease(a.prerelease, b.prerelease)
       ELSE a.core[Min(differ)] - b.core[Min(differ)]

------------------------------------------------------------------------------
(* verifyOnlineUpdateManifest with what loadState has read: signed, and    *)
(* newer than the running and than every accepted version and sequence.    *)
Acceptable(r) ==
    /\ CompareVersions(r.version, current) > 0
    /\ CompareVersions(r.version, state.version) > 0
    /\ r.sequence > state.sequence

(* The manifest, then the downloaded package is verified; both may also be *)
(* refused for their dates, names or sizes.                                *)
Verify(r) ==
    /\ update.at = "idle" /\ Acceptable(r) /\ download = "signed"
    /\ To("verified", r)
    /\ UNCHANGED <<state, staged, download, current, updateFaults>>

(* The copy must not exist yet.                                            *)
Copy(r) ==
    /\ At("verified", r)
    /\ IF r \in DOMAIN staged
       THEN update' = NoUpdate /\ UNCHANGED staged
       ELSE To("copied", r) /\ staged' = WithCopy(r)
    /\ UNCHANGED <<state, download, current, updateFaults>>

(* Mutant of CopyIsGood: the copy is not verified again.                   *)
CopyIsGoodAlways(r) == r \in DOMAIN staged

(* verifyOnlineUpdatePackage of the copy.                                  *)
CopyIsGood(r) == staged[r] = "signed"

(* A copy that is not the signed package is removed.                       *)
VerifyCopy(r) ==
    /\ At("copied", r)
    /\ IF CopyIsGood(r) THEN To("persist", r) /\ UNCHANGED staged
       ELSE update' = NoUpdate /\ staged' = Unstaged(r)
    /\ UNCHANGED <<state, download, current, updateFaults>>

(* persistState: a new state file replaces the old one; if it cannot be    *)
(* written the copy is removed.                                            *)
Persist(r) ==
    /\ At("persist", r) /\ update' = NoUpdate
    /\ \/ /\ state' = [sequence |-> r.sequence, version |-> r.version]
          /\ UNCHANGED <<staged, updateFaults>>
       \/ /\ UpdateFault /\ UNCHANGED state
          /\ staged' = Unstaged(r)
    /\ UNCHANGED <<download, current>>

(* Mutant of Installable: the state is not looked at.                      *)
InstallableIfGood(r) == r \in DOMAIN staged /\ staged[r] = "signed"

(* verifyStagedCandidate: still the accepted release, and still the signed *)
(* package.                                                                *)
Installable(r) ==
    /\ r \in DOMAIN staged /\ staged[r] = "signed"
    /\ state = [sequence |-> r.sequence, version |-> r.version]

Install(r) ==
    /\ update.at = "idle" /\ Installable(r)
    /\ current' = r.version
    /\ UNCHANGED <<state, staged, download, update, updateFaults>>

------------------------------------------------------------------------------
KillUpdate ==
    /\ update.at # "idle" /\ UpdateFault /\ update' = NoUpdate
    /\ UNCHANGED <<state, staged, download, current>>

(* Another program changes the download or a staged file, or the package   *)
(* is downloaded again.                                                    *)
ChangePackage ==
    /\ \/ /\ download = "signed" /\ download' = "other"
          /\ UpdateFault /\ UNCHANGED staged
       \/ /\ download = "other" /\ download' = "signed"
          /\ UNCHANGED <<staged, updateFaults>>
       \/ \E r \in DOMAIN staged : /\ staged[r] = "signed" /\ UpdateFault
                                   /\ staged' = [staged EXCEPT ![r] = "changed"]
                                   /\ UNCHANGED download
    /\ UNCHANGED <<state, update, current>>

UpdateNext ==
    \/ \E r \in Releases : Verify(r) \/ Copy(r) \/ VerifyCopy(r) \/ Persist(r) \/ Install(r)
    \/ KillUpdate \/ ChangePackage

UpdateSpec == UpdateInit /\ [][UpdateNext]_updateVars

------------------------------------------------------------------------------
PrecedenceOf(v) == CHOOSE i \in DOMAIN Precedence : Precedence[i] = v

(* The program and the accepted state only go forward, by the order of     *)
(* Semantic Versioning and by sequence, through replayed manifests, kills, *)
(* leftover copies and failed writes.                                      *)
NeverRollsBack ==
    [][/\ current' # current => PrecedenceOf(current') > PrecedenceOf(current)
       /\ state' # state => state'.sequence > state.sequence
                            /\ PrecedenceOf(state'.version) > PrecedenceOf(state.version)]_updateVars

(* The accepted release is staged, and the staged file is the signed       *)
(* package unless another program changed it after it was copied: neither  *)
(* a download changed between its check and its copy nor a kill, a failed  *)
(* write or a replay makes the state name a package that is not there.     *)
AcceptedIsStaged ==
    \A r \in Releases : state = [sequence |-> r.sequence, version |-> r.version] =>
        r \in DOMAIN staged /\ staged[r] # "other"
------------------------------------------------------------------------------
(* The inductive invariant.                                                *)

UpdateTypes ==
    /\ state \in [sequence : Nat, version : {Installed} \cup {r.version : r \in Releases}]
    /\ DOMAIN staged \subseteq Releases
    /\ staged \in [DOMAIN staged -> {"signed", "other", "changed"}]
    /\ download \in {"signed", "other"}
    /\ update \in [at : {"idle", "verified", "copied", "persist"}, release : SUBSET Releases]

(* A release that is being staged is newer than what is accepted, and what *)
(* is about to be accepted is a copy that was good when it was verified.   *)
StagingIsNewer ==
    \A r \in update.release :
        /\ update.at # "idle" => Acceptable(r)
        /\ update.at \in {"copied", "persist"} => r \in DOMAIN staged
        /\ update.at = "persist" => staged[r] # "other"

(* The running version is the accepted one, or is before it.               *)
RunsNothingNewer == state.version = current \/ CompareVersions(state.version, current) > 0

UpdateInv == UpdateTypes /\ AcceptedIsStaged /\ StagingIsNewer /\ RunsNothingNewer
=============================================================================
