------------------------------ MODULE FileScan ------------------------------
(***************************************************************************)
(* scanFileWithMode (app.js): one file after another goes through the type *)
(* detector and the engine, the script analyser or the archive pipeline    *)
(* (inspector, entry reader, analysers, aggregation).  A scan stands at one*)
(* of its awaits; what the file holds is chosen when it is first read.     *)
(* The rules are loaded once in the life of a worker and kept.             *)
(***************************************************************************)
EXTENDS ScanVerdict, Sequences, SequencesExt

CONSTANTS
    PluginLimit,        \* MAX_PLUGIN_TARGETS
    ScriptLimit,        \* MAX_SCRIPT_TARGETS
    MaxArchiveEntries,  \* bound: entries of an archive
    MaxFileScans        \* bound: scans of a behaviour

ASSUME FileScanAssumption ==
    /\ PluginLimit \in Nat /\ ScriptLimit \in Nat
    /\ MaxArchiveEntries \in Nat /\ MaxFileScans \in Nat

VARIABLES
    rules,   \* status of _rulesCache, "none" before the first load
    job,     \* the scan in progress, or the last one
    scanned  \* scans begun

fileScanVars == <<rules, job, scanned>>

(* name: what the type detector knows of a file: its extension, the game   *)
(* its name and text speak of, and a misleading name or signature.         *)
Names == [type : {"asi", "dll", "script", "archive", "known", "unknown"},
          context : {"gta", "other", "none"}, odd : BOOLEAN]

(* An entry of an archive and what is wrong with it: a dangerous path, a   *)
(* path that occurs twice, two extensions, ZIP64 sizes, something the      *)
(* reader's policy refuses, a local header or checksum that does not match,*)
(* a size over the limit.                                                  *)
Faults == {"none", "path", "twice", "twoext", "zip64", "policy", "lfh", "large"}
Entries == [kind : {"plugin", "script", "asset", "other"}, fault : Faults]

(* bound: an archive has one fault, of its own or of one entry.            *)
ArchiveFaults == {"none", "bomb", "big", "irrelevant", "format", "broken"}
Faulty(entries) == {i \in DOMAIN entries : entries[i].fault # "none"}
Contents == {e \in BoundedSeq(Entries, MaxArchiveEntries) : Cardinality(Faulty(e)) <= 1}
Archives ==
    {[fault |-> "none", entries |-> e] : e \in Contents}
    \cup [fault : ArchiveFaults, entries : {e \in Contents : Faulty(e) = {}}]

NoArchive == [fault |-> "none", entries |-> <<>>]
NoSubject == [found |-> {}, body |-> "none", reputation |-> "none"]
NoJob == [at |-> "idle", mode |-> "free", type |-> "none", archive |-> NoArchive,
          left |-> {}, saw |-> {}, parts |-> <<>>, report |-> 0,
          subject |-> NoSubject, verdict |-> "none"]

FileScanInit == rules = "none" /\ job = NoJob /\ scanned = 0

------------------------------------------------------------------------------
(* The type detector.                                                      *)

(* classify.                                                               *)
Classify(n) ==
    LET byType ==
            CASE n.type = "asi" -> "ENGINE"
              [] n.type = "dll" -> [gta |-> "ENGINE", other |-> "REJECT",
                                    none |-> "INCONCLUSIVE"][n.context]
              [] n.type = "archive" -> "ARCHIVE_INSPECTION"
              [] OTHER -> "INCONCLUSIVE"
    IN  IF n.type = "unknown" THEN IF n.context = "gta" THEN "INCONCLUSIVE" ELSE "REJECT"
        ELSE IF n.odd /\ byType # "ENGINE" THEN "INCONCLUSIVE" ELSE byType

------------------------------------------------------------------------------
(* Archives.                                                               *)

(* The entries of a kind, by their places in the central directory.        *)
Kind(a, k) == {i \in DOMAIN a.entries : a.entries[i].kind = k}

(* classifyEntries: an entry is a target when its path is safe and unique; *)
(* a script also when its name is not misleading.                          *)
Eligible(e) ==
    e.fault \notin {"path", "twice", "zip64"} /\ ~(e.kind = "script" /\ e.fault = "twoext")
Targets(a, k) == {i \in Kind(a, k) : Eligible(a.entries[i])}
TargetCount(a) == Cardinality(Targets(a, "plugin")) + Cardinality(Targets(a, "script"))

(* The archive's own structure, or that of an entry, is suspicious.        *)
Structural(a) ==
    a.fault = "bomb" \/ \E i \in DOMAIN a.entries :
        a.entries[i].fault \in {"path", "twice", "twoext", "zip64"}

(* Entries no analyser has looked at.                                      *)
Unscanned(a) ==
    \/ Kind(a, "other") # {}
    \/ \E k \in {"plugin", "script"} : Kind(a, k) # Targets(a, k)

(* Mutant of Readable: only the target is looked at.                       *)
ReadableTarget(a, e) == e.fault \notin {"policy", "lfh"} /\ ~(e.kind = "plugin" /\ e.fault = "large")

(* readEntry: every entry must pass the reader's policy, and the target's  *)
(* local header, size and checksum must be those of the directory.         *)
Readable(a, e) ==
    /\ \A i \in DOMAIN a.entries : a.entries[i].fault \notin {"path", "zip64", "policy"}
    /\ e.fault # "lfh" /\ ~(e.kind = "plugin" /\ e.fault = "large")

(* inspect and the checks of runArchivePipeline before the first entry is  *)
(* read: the verdict, or "read" when the entries are to be read.           *)
Inspected(a) ==
    IF a.fault = "broken" THEN "suspicious"
    ELSE IF a.fault = "format" THEN "inconclusive"
    ELSE IF a.fault = "irrelevant" THEN "invalid"
    ELSE IF Targets(a, "plugin") \cup Targets(a, "script") = {}
    THEN IF \E i \in DOMAIN a.entries :
                a.entries[i].kind \in {"plugin", "script"} /\ a.entries[i].fault # "zip64"
         THEN "suspicious" ELSE "inconclusive"
    ELSE IF a.fault = "big" \/ Cardinality(Targets(a, "plugin")) > PluginLimit
            \/ Cardinality(Targets(a, "script")) > ScriptLimit
    THEN "inconclusive" ELSE "read"

(* Mutant of Aggregate: a doubtful structure comes before a bad part.      *)
AggregateStructureFirst(a, saw, report) ==
    IF Structural(a) \/ "suspicious" \in saw THEN "suspicious"
    ELSE IF "malicious" \in saw THEN "malicious"
    ELSE IF "inconclusive" \in saw \/ Unscanned(a) \/ report # TargetCount(a)
    THEN "inconclusive" ELSE "safe"

(* The end of runArchivePipeline.                                          *)
Aggregate(a, saw, report) ==
    IF "malicious" \in saw THEN "malicious"
    ELSE IF Structural(a) \/ "suspicious" \in saw THEN "suspicious"
    ELSE IF "inconclusive" \in saw \/ Unscanned(a) \/ report # TargetCount(a)
    THEN "inconclusive" ELSE "safe"

(* Mutant of Seen: a part that is rejected counts for nothing.             *)
SeenIfAnalyzed(verdict) == IF verdict \in {"safe", "invalid"} THEN {} ELSE {verdict}

(* What a part's verdict adds to what the pipeline saw.                    *)
Seen(verdict) ==
    [safe |-> {}, inconclusive |-> {"inconclusive"}, suspicious |-> {"suspicious"},
     invalid |-> {"suspicious"}, malicious |-> {"malicious"}][verdict]

------------------------------------------------------------------------------
(* Steps.                                                                  *)

Statuses == {"official", "fallback", "incompatible"}
FinishScan(j, verdict) == job' = [j EXCEPT !.at = "done", !.verdict = verdict]

(* What the engine and the script analyser can say of an archive's entry:  *)
(* their own verdict and the one the pipeline gives it.                    *)
PluginOutcomes ==
    [s \in Statuses |->
        {LET r == EngineResult(f, b, p, s) IN <<r.verdict, ProVerdict(r)>> :
            f \in SUBSET Findings, b \in Bodies, p \in Reputations}]
ScriptOutcomes == {ScriptVerdict(f) : f \in SUBSET ScriptFindings} \cup {"invalid", "inconclusive"}

(* A scan begins: the engine for a plugin, or the detector's route.        *)
SubmitFree ==
    \E type \in {"asi", "other"} :
        LET j == [NoJob EXCEPT !.at = "engine", !.type = type] IN
        IF type = "asi" THEN job' = j
        ELSE FinishScan(j, FreeVerdict(Rejected(rules)))

SubmitPro ==
    \E n \in Names :
        LET j == [NoJob EXCEPT !.mode = "pro", !.type = n.type] IN
        CASE Classify(n) = "ENGINE" -> job' = [j EXCEPT !.at = "engine"]
          [] Classify(n) = "ARCHIVE_INSPECTION" ->
                \E a \in Archives : job' = [j EXCEPT !.at = "inspect", !.archive = a]
          [] Classify(n) \notin {"ENGINE", "ARCHIVE_INSPECTION"} /\ n.type = "script" ->
                job' = [j EXCEPT !.at = IF n.odd THEN "odd script" ELSE "script"]
          [] OTHER -> FinishScan(j, IF Classify(n) = "REJECT" THEN "invalid" ELSE "inconclusive")

Submit ==
    /\ job.at = "idle" /\ scanned < MaxFileScans
    /\ SubmitFree \/ SubmitPro
    /\ scanned' = scanned + 1 /\ UNCHANGED rules

(* A file the engine rejects, or whose size changed under it, before it    *)
(* loads the rules.                                                        *)
RejectFile ==
    /\ job.at = "engine" /\ job.archive = NoArchive
    /\ \E r \in {Rejected(rules), Torn(rules)} :
        FinishScan(job, IF job.mode = "free" THEN FreeVerdict(r) ELSE ProVerdict(r))
    /\ UNCHANGED <<rules, scanned>>

(* loadRules: the answer of the first load is kept for good.               *)
LoadRules ==
    /\ job.at = "engine" /\ rules = "none"
    /\ rules' \in Statuses /\ UNCHANGED <<job, scanned>>

(* scanFile of a plugin, with the answer of the reputation service.        *)
ScanPlugin ==
    /\ job.at = "engine" /\ rules # "none" /\ job.archive = NoArchive
    /\ \E f \in SUBSET Findings, b \in Bodies, p \in Reputations :
        LET r == EngineResult(f, b, p, rules) IN
        FinishScan([job EXCEPT !.parts = <<r.verdict>>,
                           !.subject = [found |-> f, body |-> b, reputation |-> p]],
               IF job.mode = "free" THEN FreeVerdict(r) ELSE ProVerdict(r))
    /\ UNCHANGED <<rules, scanned>>

(* runScriptPipeline: an analysis that fails is invalid, or out of time    *)
(* inconclusive; a misleading name makes either suspicious, but not what   *)
(* the analyser does not support.                                          *)
ScanScript ==
    /\ job.at \in {"script", "odd script"}
    /\ \/ \E f \in SUBSET ScriptFindings :
            LET v == ScriptVerdict(f) IN
            FinishScan([job EXCEPT !.parts = <<v>>, !.subject.found = f],
                   IF job.at = "odd script" /\ v = "safe" THEN "suspicious" ELSE v)
       \/ \E v \in {"invalid", "inconclusive"} :
            FinishScan(job, IF job.at = "odd script" THEN "suspicious" ELSE v)
       \/ FinishScan(job, "inconclusive")
    /\ UNCHANGED <<rules, scanned>>

(* inspect ends, out of time or with what the archive is; the plugins that *)
(* are targets are left to be read.                                        *)
Inspect ==
    /\ job.at = "inspect"
    /\ \/ FinishScan(job, "inconclusive")
       \/ IF Inspected(job.archive) = "read"
          THEN job' = [job EXCEPT !.at = "plugins", !.left = Targets(job.archive, "plugin")]
          ELSE FinishScan(job, Inspected(job.archive))
    /\ UNCHANGED <<rules, scanned>>

(* The next target in the order of the directory.                          *)
Target == job.archive.entries[Min(job.left)]

(* After the plugins, all of them or not, come the scripts.                *)
ToScripts(j) == [j EXCEPT !.at = "scripts", !.left = Targets(j.archive, "script")]

(* The next plugin: the time is up, it cannot be read, or the engine gets  *)
(* it; after the last one, and after the first two, come the scripts.      *)
NextPlugin ==
    /\ job.at = "plugins"
    /\ LET doubt == [job EXCEPT !.saw = @ \cup {"inconclusive"}]
       IN  IF job.left = {} THEN job' = ToScripts(job)
           ELSE \/ job' = ToScripts(doubt)
                \/ job' = ToScripts([doubt EXCEPT !.report = @ + 1])
                \/ /\ Readable(job.archive, Target)
                   /\ job' = [job EXCEPT !.at = "engine"]
    /\ UNCHANGED <<rules, scanned>>

(* The loop's body after the engine, for its verdict and the pipeline's.   *)
Judged(verdict, final) ==
    LET j == [job EXCEPT !.report = @ + 1, !.parts = Append(@, verdict), !.saw = @ \cup Seen(final)]
    IN  IF final = "malicious" THEN ToScripts(j)
        ELSE [j EXCEPT !.at = "plugins", !.left = @ \ {Min(@)}]

(* The verdict on the plugin that was read; an empty one is rejected before*)
(* the rules are loaded.                                                   *)
JudgePlugin ==
    /\ job.at = "engine" /\ job.archive # NoArchive
    /\ \/ job' = Judged("invalid", ProVerdict(Rejected(rules)))
       \/ rules # "none" /\ \E o \in PluginOutcomes[rules] : job' = Judged(o[1], o[2])
    /\ UNCHANGED <<rules, scanned>>

Conclude(j) == FinishScan(j, Aggregate(j.archive, j.saw, j.report))

(* The next script, and the verdict on the archive after the last one.  A  *)
(* script over the analyser's limit is skipped.                            *)
NextScript ==
    /\ job.at = "scripts"
    /\ LET doubt == [job EXCEPT !.saw = @ \cup {"inconclusive"}]
           failed == [doubt EXCEPT !.report = @ + 1]
       IN  IF job.left = {} THEN Conclude(job)
           ELSE \/ Conclude(doubt)
                \/ IF Target.fault = "large" THEN job' = [failed EXCEPT !.left = @ \ {Min(@)}]
                   ELSE Conclude(failed)
                \/ /\ Target.fault # "large"
                   /\ Readable(job.archive, Target)
                   /\ \E v \in ScriptOutcomes :
                        LET j == [job EXCEPT !.report = @ + 1, !.parts = Append(@, v),
                                             !.saw = @ \cup Seen(v), !.left = @ \ {Min(@)}]
                        IN  IF v = "malicious" THEN Conclude(j) ELSE job' = j
    /\ UNCHANGED <<rules, scanned>>

(* The result is posted: of the scan only the rules stay in the worker.    *)
Post ==
    /\ job.at = "done"
    /\ job' = NoJob /\ UNCHANGED <<rules, scanned>>

(* The page terminates the worker: its next one has no rules.              *)
WorkerKilled ==
    /\ job.at \notin {"idle", "done"}
    /\ job' = NoJob /\ rules' = "none" /\ UNCHANGED scanned

FileScanNext ==
    \/ Submit \/ RejectFile \/ LoadRules \/ ScanPlugin \/ ScanScript
    \/ Inspect \/ NextPlugin \/ JudgePlugin \/ NextScript \/ Post \/ WorkerKilled

FileScanSpec == FileScanInit /\ [][FileScanNext]_fileScanVars

------------------------------------------------------------------------------
(* Properties.                                                             *)

(* What a safe verdict stands for.                                          *)
SafeEarned(j, status) ==
    /\ j.parts # <<>> /\ Range(j.parts) = {"safe"}
    /\ j.type \in {"asi", "dll"} => status = "official"
    /\ \A i \in DOMAIN j.archive.entries :
        LET e == j.archive.entries[i] IN
        \/ e.fault = "none" /\ e.kind # "other"
        \/ e.kind = "asset" /\ e.fault \in {"lfh", "large"}
    /\ j.type = "archive" =>
        /\ Len(j.parts) = Cardinality(Kind(j.archive, "plugin")) + Cardinality(Kind(j.archive, "script"))
        /\ Kind(j.archive, "plugin") # {} => status = "official"

(* "Safe" is said, in either mode, only when everything active in the file *)
(* was read and called safe, plugins with the official rules: an archive   *)
(* with an entry no analyser has, a path that is ambiguous, a header that  *)
(* lies, or a part that was not reached in time is not safe (app.js).      *)
SafeIsEarned == job.at = "done" /\ job.verdict = "safe" => SafeEarned(job, rules)

(* What the engine or the script analyser has called malicious is malicious*)
(* in the end: no gate, no later part, no time limit and no structural     *)
(* doubt takes it back (multilayer.js: never downgraded by this layer).    *)
MaliciousIsKept ==
    job.at = "done" /\ "malicious" \in Range(job.parts) => job.verdict = "malicious"

(* A file in which the analysis finds more never gets a milder verdict:    *)
(* the scores, the confidence and the gates work together that way, though *)
(* each finding moves all three.                                           *)
MoreFindingsNeverMilder ==
    job.at = "done" /\ job.subject.body = "pe" =>
        \A f \in SUBSET job.subject.found :
            LET r == EngineResult(f, "pe", job.subject.reputation, rules)
                v == IF job.mode = "free" THEN FreeVerdict(r) ELSE ProVerdict(r)
            IN  Rank[v] <= Rank[job.verdict]

(* One strong finding in a script is enough for it not to be safe, and the *)
(* findings of one category are never enough for malicious (the comments   *)
(* of script-analyzer.js on its hardening and its score).                  *)
ScriptScoreIsMeasured ==
    job.at = "done" /\ job.type = "script" /\ job.parts # <<>> =>
        /\ Strong(job.subject.found) # {} => job.verdict # "safe"
        /\ job.verdict = "malicious" => Cardinality(Categories(job.subject.found)) > 1
------------------------------------------------------------------------------
(* The inductive invariant.                                                *)

FileVerdicts == {"safe", "inconclusive", "suspicious", "malicious", "invalid"}
JobTypes(j) ==
    /\ j \in [at : {"idle", "engine", "inspect", "plugins", "scripts", "script", "odd script", "done"},
              mode : {"free", "pro"},
              type : {"none", "other", "asi", "dll", "script", "archive", "known", "unknown"},
              archive : [fault : ArchiveFaults, entries : Seq(Entries)],
              left : SUBSET DOMAIN j.archive.entries,
              saw : SUBSET {"inconclusive", "suspicious", "malicious"},
              parts : Seq(FileVerdicts), report : Nat, subject : {j.subject},
              verdict : FileVerdicts \cup {"none"}]
    /\ j.archive = NoArchive \/ j.type = "archive"
    /\ j.at \in {"script", "odd script"} => j.type = "script"
    /\ j.at = "engine" /\ j.archive = NoArchive => j.type \in {"asi", "dll"}
    /\ j.at \in {"inspect", "plugins", "scripts"} => j.type = "archive"

(* The loops over an archive's targets run.                                *)
InArchive(j) ==
    j.at \in {"plugins", "scripts"} \/ (j.at = "engine" /\ j.archive # NoArchive)

(* As long as nothing was doubtful, the targets of a kind that are not left*)
(* were read, and the plugins judged by the official rules.                *)
PluginsRead(a, done, status) ==
    \A i \in done : Readable(a, a.entries[i]) /\ status = "official"
ScriptsRead(a, done) ==
    \A i \in done : Readable(a, a.entries[i]) /\ a.entries[i].fault # "large"

TargetsRead(j, status) ==
    LET plugins == Targets(j.archive, "plugin")
        scripts == Targets(j.archive, "script")
    IN  IF j.at = "scripts"
        THEN PluginsRead(j.archive, plugins, status) /\ ScriptsRead(j.archive, scripts \ j.left)
        ELSE PluginsRead(j.archive, plugins \ j.left, status)

LoopIsSound(j, status) ==
    /\ Inspected(j.archive) = "read"
    /\ j.left \subseteq Targets(j.archive, IF j.at = "scripts" THEN "script" ELSE "plugin")
    /\ j.at = "engine" => j.left # {} /\ Readable(j.archive, j.archive.entries[Min(j.left)])
    /\ "malicious" \in Range(j.parts) => "malicious" \in j.saw
    /\ j.saw = {} => /\ Range(j.parts) \subseteq {"safe"} /\ j.report = Len(j.parts)
                     /\ TargetsRead(j, status)

JobIsSound(j, status) ==
    /\ JobTypes(j)
    /\ IF InArchive(j) THEN LoopIsSound(j, status)
       ELSE IF j.at = "done"
       THEN /\ "malicious" \in Range(j.parts) => j.verdict = "malicious"
            /\ j.verdict = "safe" => SafeEarned(j, status)
       ELSE j.parts = <<>> /\ j.saw = {} /\ j.report = 0

FileScanInv == rules \in Statuses \cup {"none"} /\ JobIsSound(job, rules)

(* A verdict is the analysis of the subject: of a plugin's findings by the *)
(* rules there are, of a script's findings.                                *)
PluginIsJudged(j, status) ==
    LET s == j.subject
        r == EngineResult(s.found, "pe", s.reputation, status)
    IN  /\ s.found \subseteq Findings /\ status \in Statuses
        /\ j.verdict = IF j.mode = "free" THEN FreeVerdict(r) ELSE ProVerdict(r)

ScriptIsJudged(j) ==
    LET v == ScriptVerdict(j.subject.found) IN
    /\ j.subject.found \subseteq ScriptFindings
    /\ j.verdict = v \/ (v = "safe" /\ j.verdict = "suspicious")

SubjectIsJudged(j, status) ==
    IF j.at = "done"
    THEN /\ j.subject.body = "pe" => PluginIsJudged(j, status)
         /\ j.type = "script" /\ j.parts # <<>> => ScriptIsJudged(j)
    ELSE j.subject = NoSubject

JudgementInv == SubjectIsJudged(job, rules)
=============================================================================
