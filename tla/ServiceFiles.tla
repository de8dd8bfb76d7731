---------------------------- MODULE ServiceFiles ----------------------------
(***************************************************************************)
(* What the desktop service keeps in files of its own: the settings with   *)
(* the self-heal of the start-up, and the markers of the first-launch      *)
(* count and of the compatibility report.  The process may be killed       *)
(* between any two steps; it is started again by healing the settings,     *)
(* loading them, and sending what the markers say has not been sent.       *)
(***************************************************************************)
EXTENDS Naturals

CONSTANTS
    Settings,      \* settings that validate
    Default,       \* those of SettingsStore.defaults
    Savers,        \* bound: calls of applySettings at once
    MaxFileFaults  \* bound: kills, failed writes, damaged files and lost answers

ASSUME FilesAssumption ==
    /\ Default \in Settings /\ MaxFileFaults \in Nat
    /\ {"missing", "corrupt", "foreign"} \cap Settings = {}

VARIABLES
    settingsFile, \* settings, or "missing", "corrupt" or "foreign"
    up, config,   \* the process runs; its settings
    saving,       \* Savers -> a call of applySettings
    launch,       \* recordFirstSuccessfulLaunch: where it stands
    markers,      \* its marker files: "pending", "counted"
    hits,         \* downloads of the beacon that were counted by its host
    report,       \* sendCompatibilityInstallReport: where it stands
    sent,         \* its marker file is there
    received,     \* reports the endpoint has accepted
    lost,         \* history: counted downloads that a fault made it forget
    fileFaults

sendVars == <<launch, markers, hits, report, sent, received, lost>>
filesVars == <<settingsFile, up, config, saving, sendVars, fileFaults>>

NotSaving == [at |-> "idle", value |-> Default]

FilesInit ==
    /\ settingsFile \in {"missing", "corrupt", "foreign", Default}
    /\ up = FALSE /\ config = Default
    /\ saving = [c \in Savers |-> NotSaving]
    /\ launch = "idle" /\ markers = {} /\ hits = 0
    /\ report = "idle" /\ sent = FALSE /\ received = 0 /\ lost = 0
    /\ fileFaults = 0

FileFault == fileFaults < MaxFileFaults /\ fileFaults' = fileFaults + 1

------------------------------------------------------------------------------
(* _readSettings and repairSync, with what the file is taken for.  A file  *)
(* that cannot be read passes for corrupt and one that cannot be looked up *)
(* for missing; settings of another schema ("foreign") validate.           *)

(* Mutant of Repaired: settings of another schema are repaired as well.    *)
RepairedUnlessCurrent(taken) ==
    settingsFile' = IF taken \in Settings THEN settingsFile ELSE Default

(* Corrupt settings are set aside; then, or if there are none, they are    *)
(* created.                                                                *)
Repaired(taken) ==
    settingsFile' = IF taken \in {"missing", "corrupt"} THEN Default ELSE settingsFile

(* Neither has to succeed, and the service starts all the same.            *)
HalfRepaired(taken) ==
    settingsFile' \in IF taken = "corrupt" THEN {settingsFile, "missing"} ELSE {settingsFile}

(* loadSync: what cannot be read or validated, or has another schema,      *)
(* counts as the defaults.                                                 *)
Loaded(f) == IF f \in Settings THEN f ELSE Default

(* The start: the self-heal, which only the start script preloads and the  *)
(* native launchers do not; the settings are loaded; the service listens,  *)
(* and both transmissions begin.                                           *)
Boot ==
    /\ ~up /\ up' = TRUE
    /\ \/ /\ Repaired(settingsFile) \/ UNCHANGED settingsFile
          /\ config' = Loaded(settingsFile') /\ UNCHANGED fileFaults
       \/ /\ FileFault
          /\ \E taken \in {settingsFile, "missing", "corrupt"} :
                Repaired(taken) \/ HalfRepaired(taken)
          /\ config' \in {Loaded(settingsFile'), Default}
    /\ launch' = "begin" /\ report' = "begin"
    /\ UNCHANGED <<saving, markers, hits, sent, received, lost>>

(* A kill: memory is gone, files stay.                                     *)
Kill ==
    /\ up /\ FileFault /\ up' = FALSE
    /\ config' = Default /\ saving' = [c \in Savers |-> NotSaving]
    /\ launch' = "idle" /\ report' = "idle"
    /\ UNCHANGED <<settingsFile, markers, hits, sent, received, lost>>

(* Another program damages or deletes the settings.                        *)
Damage ==
    /\ settingsFile \in Settings \cup {"foreign"} /\ FileFault
    /\ settingsFile' \in {"missing", "corrupt"}
    /\ UNCHANGED <<up, config, saving, sendVars>>

------------------------------------------------------------------------------
(* applySettings.                                                          *)

(* The protection is stopped and its objects are dropped; if it cannot be  *)
(* stopped the request is refused.                                         *)
ApplySettings(c, v) ==
    /\ up /\ saving[c].at = "idle" /\ v # config
    /\ saving' = [saving EXCEPT ![c] = [at |-> "write", value |-> v]]
    /\ UNCHANGED <<settingsFile, up, config, sendVars, fileFaults>>

(* Mutant of SaveWrites: the settings file itself is opened and written.   *)
SaveWritesInPlace(c) == settingsFile' = "corrupt"

(* save: a temporary file of its own.                                      *)
SaveWrites(c) == saving[c].at = "write" /\ UNCHANGED settingsFile

SaveTemp(c) ==
    /\ saving[c].at = "write"
    /\ \/ SaveWrites(c) /\ saving' = [saving EXCEPT ![c].at = "rename"] /\ UNCHANGED fileFaults
       \/ FileFault /\ saving' = [saving EXCEPT ![c] = NotSaving] /\ UNCHANGED settingsFile
    /\ UNCHANGED <<up, config, sendVars>>

SaveRename(c) ==
    /\ saving[c].at = "rename"
    /\ settingsFile' = saving[c].value /\ saving' = [saving EXCEPT ![c].at = "renamed"]
    /\ UNCHANGED <<up, config, sendVars, fileFaults>>

(* The new settings are the service's.                                     *)
Applied(c) ==
    /\ saving[c].at = "renamed"
    /\ config' = saving[c].value /\ saving' = [saving EXCEPT ![c] = NotSaving]
    /\ UNCHANGED <<settingsFile, up, sendVars, fileFaults>>

------------------------------------------------------------------------------
(* recordFirstSuccessfulLaunch.                                            *)

(* Mutant of MayCount: only the counted marker is looked at.               *)
MayCountIfPending(seen) == "counted" \notin seen

(* Neither counted before nor by an attempt that never came to its end.    *)
MayCount(seen) == seen = {}

(* A marker that cannot be looked up passes for absent.  The pending one   *)
(* is written before anything is asked, or nothing is.                     *)
LaunchBegins ==
    /\ launch = "begin"
    /\ \/ /\ MayCount(markers)
          /\ launch' = "ask" /\ markers' = markers \cup {"pending"}
          /\ UNCHANGED <<lost, fileFaults>>
       \/ /\ ~MayCount(markers) /\ launch' = "idle"
          /\ UNCHANGED <<markers, lost, fileFaults>>
       \/ /\ FileFault /\ launch' = "idle" /\ UNCHANGED <<markers, lost>>
       \/ /\ FileFault /\ ~MayCount(markers)
          /\ launch' = "ask" /\ markers' = markers \cup {"pending"} /\ lost' = hits
    /\ UNCHANGED <<settingsFile, up, config, saving, hits, report, sent, received>>

(* The request is answered: success, or an error, a timeout or a redirect  *)
(* that is not trusted, before or after the download was counted.          *)
LaunchAsks ==
    /\ launch = "ask"
    /\ \/ hits' = hits + 1 /\ launch' = "good" /\ UNCHANGED <<lost, fileFaults>>
       \/ FileFault /\ launch' = "bad" /\ UNCHANGED <<hits, lost>>
       \/ FileFault /\ hits' = hits + 1 /\ lost' = lost + 1 /\ launch' = "bad"
    /\ UNCHANGED <<settingsFile, up, config, saving, markers, report, sent, received>>

(* Mutant of Outcome: every answer counts.                                 *)
OutcomeAny(answer) == IF answer \in {"good", "bad"} THEN {"counted"} ELSE {}

(* The pending marker is renamed after a success, removed after a failure. *)
Outcome(answer) == IF answer = "good" THEN {"counted"} ELSE {}

(* A rename that fails is a failure like any other: the pending marker is  *)
(* removed although the download was counted.  It stays if that fails too. *)
LaunchEnds ==
    /\ launch \in {"good", "bad"} /\ launch' = "idle"
    /\ \/ /\ markers' = (markers \ {"pending"}) \cup Outcome(launch)
          /\ UNCHANGED <<lost, fileFaults>>
       \/ /\ FileFault /\ launch = "good" /\ markers' = markers \ {"pending"}
          /\ lost' = IF markers' = {} THEN lost + 1 ELSE lost
       \/ FileFault /\ UNCHANGED <<markers, lost>>
    /\ UNCHANGED <<settingsFile, up, config, saving, hits, report, sent, received>>

------------------------------------------------------------------------------
(* sendCompatibilityInstallReport: without a marker, or with one that      *)
(* cannot be looked up, it is sent, and the marker is written once the     *)
(* endpoint has accepted it.                                               *)
ReportBegins ==
    /\ report = "begin"
    /\ \/ report' = (IF sent THEN "idle" ELSE "ask") /\ UNCHANGED fileFaults
       \/ FileFault /\ report' = "ask"
    /\ UNCHANGED <<settingsFile, up, config, saving, launch, markers, hits, sent,
                   received, lost>>

ReportAsks ==
    /\ report = "ask"
    /\ \/ received' = received + 1 /\ report' = "accepted" /\ UNCHANGED fileFaults
       \/ FileFault /\ report' = "idle" /\ received' \in {received, received + 1}
    /\ UNCHANGED <<settingsFile, up, config, saving, launch, markers, hits, sent, lost>>

ReportEnds ==
    /\ report = "accepted" /\ report' = "idle"
    /\ \/ sent' = TRUE /\ UNCHANGED fileFaults
       \/ FileFault /\ UNCHANGED sent
    /\ UNCHANGED <<settingsFile, up, config, saving, launch, markers, hits, received, lost>>

FilesNext ==
    \/ Boot \/ Kill \/ Damage
    \/ \E c \in Savers : \/ \E v \in Settings : ApplySettings(c, v)
                         \/ SaveTemp(c) \/ SaveRename(c) \/ Applied(c)
    \/ LaunchBegins \/ LaunchAsks \/ LaunchEnds
    \/ ReportBegins \/ ReportAsks \/ ReportEnds

FilesSpec == FilesInit /\ [][FilesNext]_filesVars

------------------------------------------------------------------------------
(* Valid settings survive.  What replaces them is what a request asked to  *)
(* save and has completely written beside them, whatever saves overlap and *)
(* wherever a write fails or the process is killed; otherwise another      *)
(* program did it, or a start at which a file operation failed, which      *)
(* takes a file it cannot read for a corrupt one and puts the defaults in  *)
(* its place.  A start that reads the file leaves it, also when it has     *)
(* another schema and is not used; and nothing the service does leaves a   *)
(* file that does not parse.                                               *)
SettingsSurvive ==
    [][/\ settingsFile \in Settings \cup {"foreign"} /\ settingsFile' # settingsFile =>
            \/ \E c \in Savers :
                 saving[c].at = "rename" /\ settingsFile' = saving[c].value
            \/ Damage
            \/ ~up /\ FileFault /\ settingsFile' \in {Default, "missing"}
       /\ settingsFile' = "corrupt" => settingsFile = "corrupt" \/ Damage]_filesVars

(* One installation is counted once, whenever the process is killed.  It   *)
(* is counted again only after a fault that made the counter forget: the   *)
(* host counted a download it did not answer well, the marker of a counted *)
(* download could not be renamed, or a marker could not be looked up.      *)
CountedOnce == hits <= 1 + lost

(* A marker never says too much: what it marks as counted or sent has been *)
(* counted or received, otherwise it would never be sent.                  *)
MarkersAreHonest ==
    /\ "counted" \in markers => hits > 0
    /\ sent => received > 0
------------------------------------------------------------------------------
(* The inductive invariant.                                                *)

(* What is saved, loaded and kept, and where the two transmissions stand.  *)
FilesTypes ==
    /\ settingsFile \in Settings \cup {"missing", "corrupt", "foreign"}
    /\ config \in Settings
    /\ saving \in [Savers -> [at : {"idle", "write", "rename", "renamed"}, value : Settings]]
    /\ launch \in {"idle", "begin", "ask", "good", "bad"}
    /\ markers \subseteq {"pending", "counted"}
    /\ hits \in Nat /\ lost \in Nat /\ received \in Nat

(* How many downloads were counted, by where the count and its marker      *)
(* stand: a marker that is pending may be left by an attempt that was      *)
(* killed before or after its download was counted.                        *)
LaunchCount ==
    /\ launch \in {"ask", "good", "bad"} => "pending" \in markers
    /\ launch \in {"ask", "bad"} \/ markers = {} => hits = lost
    /\ launch = "good" => hits = lost + 1
    /\ "counted" \in markers => hits > 0
    /\ hits \in {lost, lost + 1}

(* A marker that is there, or is about to be written, has its report.      *)
ReportCount == sent \/ report = "accepted" => received > 0

FilesInv == FilesTypes /\ LaunchCount /\ ReportCount
=============================================================================
