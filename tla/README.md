# Verification of malguard-core

TLA+ models of the stateful core of MalGuard, the TLC runs that check them on
small instances, and TLAPS proofs of the most important invariants for every
value of the constants.  Paths below are relative to the repository; `W/`
stands for `src/desktop-guard/windows-agent/`.

## 1. Inventory

MalGuard scans game modifications in two places: in a browser page, with a
worker that runs the scan engine, and in a desktop service, which also guards
the directories of installed games.

| Part | Code | State it keeps | Operations |
|---|---|---|---|
| Hold and quarantine stores | `W/hold-store.js`, `W/quarantine-store.js` | payload files and manifests on disk | stage, verify, release, quarantine, restore |
| Guard agent | `W/agent.js` | running tasks, trusted identities, health | processPath, isTrustedPath, health and incident reports |
| Managed install | `W/managed-install.js` | staged copy | install |
| Directory watcher | `W/directory-watcher.js` | watch handles, known files, debounce timers, interval, health | start, stop, reconcile, handle an event |
| ACL gate | `W/acl-protection.js`, `W/windows-tools/acl-helper.ps1` | ACLs of the roots, their backups | protectAll, restoreAll, status |
| Runtime process guard | `W/runtime-process-guard.js` | active, interval, last result, cache of external modules | start, stop, poll, terminate a game |
| Protection coordinator | `W/protection-coordinator.js` | active, interval, published status | start, stop, check, status |
| API server | `src/desktop-app/server.js` | the objects above, settings, upload slots | one handler per route |
| Browser scan worker | `src/scan-worker-client.js`, `src/scan-worker.js` | worker, its readiness, the reserved and the active scan | scan, warmup, cancel, shutdown |
| Scan pipeline | `src/desktop-app/pro-scan-pipeline.js`, `scanner-bridge.js`, `evidence-fusion-engine.js` | sessions | start, status, run, fuse |
| Sandbox controller and backends | `src/desktop-app/sandbox/` | certification, certification in progress, acceptance flags, active backend | certify, self-test, analyze |
| Update manager | `src/desktop-app/update/` | anti-replay state, staged packages | verify, stage |
| Threat intelligence service | `src/desktop-app/threat-intel/` | cache entries, cache file, import in flight | look up, load, get, put, save, import |
| Settings, self-heal, first-launch counter, compatibility report | `src/desktop-app/` | one file each | load, save, repair, count, report |
| Static scan | `src/app.js`, `src/engine.js`, `src/multilayer.js`, `src/script-analyzer.js`, `src/archive-*.js`, `src/gta-mod-detector.js` | the rules, loaded once | scan a file |

How they interact.  The server creates the agent, the gate, the runtime guard
and the coordinator for the configured roots and calls them from HTTP handlers
that nothing serialises.  The watcher calls the agent with every event and
every change of its health.  The agent moves files with the hold store and the
quarantine store; restore and install calls use the same stores at the same
time.  The coordinator starts, polls and stops the gate, the watcher and the
runtime guard, which asks the agent whether a loaded module is trusted.  In
the browser the page and the worker exchange messages.  An upload or a path
becomes a session of the scan pipeline, which asks the scanner bridge (engine,
threat intelligence, external engines), the sandbox controller, which asks the
router and its backends, and fuses what they answer into a verdict.

What is hard here.  All of it is asynchronous JavaScript: code between two
awaits is atomic and everything else interleaves.  File operations fail, other
programs write the same files, helper processes time out, the service is
killed, a worker hangs or is terminated with messages under way.

What makes each part correct:

- stores and agent: nothing gets into the game that was not judged SAFE; no
  payload is lost in silence; no file is overwritten; every arrival is handled;
- watcher: if it reports healthy it misses nothing, and it recovers its root;
- coordinator: what it claims is so, or is noticed, and stop turns all off;
- scan worker: one scan at a time, an answer goes to its own request, every
  call returns;
- pipeline: malicious evidence never ends as safe, and decides unless the file
  changed after it was read; safe is never said without evidence; slots and
  sessions are given back;
- sandbox: a sample runs only where containment and isolation were shown, and
  a result is about the file and the run it names;
- threat intelligence: no detection is made up and no entry loses its age;
- updates: accepted and installed versions only go forward;
- files: no kill and no overlap of saves loses settings or counts an
  installation twice; a fault may, in the few ways that are named;
- static scan: safe is earned by every part of the file, more evidence is never
  milder.

`PROJECT.json` lists every component with its status and every hazard with its
line and the properties that cover it.

## 2. Modules

| Module | Models |
|---|---|
| `GuardStores` | the file system as the stores see it; `movePreservingIdentity`, quarantine and restore, one action per await |
| `GuardAgent` | `processPath` on top of it: notification, recheck, hold, scan, verify, release or quarantine, incident |
| `ManagedInstall` | `install` on the same stores |
| `DesktopGuard` | the composition of the three with other programs' writes, damage to payloads and a kill of the service; all guard properties |
| `GuardContract` | the abstract guard: a file is taken, judged once, and goes back only if benign, else it is contained and reported or the alarm is raised |
| `DesktopGuardContract` | the refinement mapping: `DesktopGuard` implements `GuardContract` |
| `DesktopGuardProofs`, `DesktopGuardContractProofs` | proofs about both |
| `DirectoryWatcher`, `DirectoryWatcherProofs` | `start`, `stop`, `_reconcile`, `_handle`, `_watchDirectory` and `_snapshotDirectory` as interleaving jobs |
| `ProtectionCoordinator`, `ProtectionCoordinatorProofs` | the coordinator with gate, watcher and runtime guard as it uses them, and the routes that call them |
| `ScanContract` | the abstract client: one call is served at a time, and returns a result only when the host has judged its file |
| `ScanWorker`, `ScanWorkerProofs` | worker client and worker host, with the mapping under which they implement `ScanContract`, and proofs about them |
| `ThreatIntel` | client, cache with its file, service with its import of the recent feed |
| `ScanPipeline` | upload slots, session table, the three models, scanner bridge and evidence fusion |
| `Sandbox` | controller, router, backends with their acceptance flags, self-tests of controller and lab, analyses |
| `UpdateManager` | order of versions, manifest checks, staging, anti-replay state, installation |
| `ServiceFiles` | settings with self-heal, first-launch counter, compatibility report |
| `ScanVerdict` | scores, gates, conflict, recheck and decision, as operators |
| `FileScan` | `scanFileWithMode`: type detection, engine, script analyser, archive pipeline, aggregation |
| `DesktopService` | the composition of these parts |
| `ServiceStateProofs` | proofs about `ThreatIntel`, `ServiceFiles`, `UpdateManager` |
| `FileScanProofs` | sums over finite sets, and proofs about `ScanVerdict` and `FileScan` |
| `DesktopServiceProofs` | proofs about `ScanPipeline` and `Sandbox`, and all of them carried over to the composition |
| `MC...` | constants for TLC |

How state corresponds to code.

*GuardStores, GuardAgent, ManagedInstall.*  `fs` maps locations to contents: a
path of the game tree, a held, staged or quarantined copy.  A content stands
for its SHA-256 and size (`file-integrity.js`), and `Corrupt` for bytes that
belong to no file.  `task[a]` is the local state of the call in progress of
actor `a`: the task of a protected path (at most one, `agent.processing`), a
restore call, an install call; `at` names the await it stands at.  Ids are
drawn in order; one id names a hold and the quarantine entry made from it,
which the code names by two UUIDs.  `notices` are notifications not yet handed
over.  The scanner is an operator that may call benign bytes anything and
hostile bytes anything but SAFE; that assumption is about the engine, and the
modules check what the guard does with the answer.  `.partial` and manifest
temporary files, which nothing reads, are left out, so the copy of a
cross-volume move is one step and the unlink of its source another.

*DirectoryWatcher.*  `there` and `version` are the tree.  `watchers`, `known`,
`pending`, `active`, `timer` and `health` are the fields of the class.
`attached` says whether a handle follows the directory that exists now: a
handle on a removed directory reports nothing.  A job is a call with the stack
of directories it is reading.  `lost` is a history: the directories whose
handle was closed, or was there when the directory was removed.

*ProtectionCoordinator.*  A job advances one helper process, one baseline or
one poll at a time.  `locked` and `saved` are the ACLs and their backups,
`status` the four published fields callers act on.  The watcher is reduced to
active and health, which are all that the coordinator reads.

*ScanWorker.*  Every worker has an initialisation promise and timer that
outlive it (`booting`).  A task of the page's event loop with the promise
reactions it causes is one action.

*ScanContract.*  Its state is the call that is served, how far it is (waiting
for a worker, scanning, judged) and what each call has returned.  In terms of
`ScanWorker`: the served call is the active one, else the reserved one
(`servedCall`); it waits while it is only reserved and is judged while a valid
answer about it is under way to the page (`servedStage`).

*GuardContract.*  Its state is custody, per watched path or install call: the
private copy, the stage of the judgement, the file; what became of each copy
(contained, returned to the user), reports, trusted files, the alarm.  In terms
of `DesktopGuard` (`DesktopGuardContract`): a file is in custody from the
confirmed move into the private store on; `cleared` is a task that is to
release, `condemned` one that is to quarantine; a copy is contained once its
manifest says "quarantined"; the alarm is degraded health.  The contract has no
files, hashes or awaits: writes, damage and failed moves must all be stutters
or steps it allows.

*ThreatIntel.*  A lookup stands at one of its awaits (load, request, save);
`asked` is the clock as `get` reads it, before it awaits the load.
`entries` and `loaded` are the fields of the cache, `file` its file, `sync`
the call behind `_recentSyncPromise`.  The database's list is fixed by
`published`; the clock counts ticks.  An entry carries its `cachedAt` and, as a
history, when it was really put (`said`); `of` is that time of the entry an
answer came from.

*ScanPipeline.*  `scan[s]` is a request with the session it started; its local
result, sandbox result and cloud answer are records of what the code branches
on.  `sessions` is the table in the order of last updates, `slots` is
`activeStagedScans`, `disk` the version of the scanned file.  `alarm` is a
history: some phase of the scan has found the file malicious.

*Sandbox.*  `acc[b]` is `_acceptance` of a backend, `active` the router's
`_active`, `test` the two self-tests that may run at once (controller and
lab), from the containment tests to the harmless probe, which uses the router
like an analysis and may set `_active`; `late` the pollers that outlive their
test.  `accepted` also counts an acceptance by such a poller, as the code does.
What a guest reports is any record, also one of another session or of a sample
that never started.

*UpdateManager.*  A manifest is its sequence and version, a package whether it
is the signed one.  `update` is `stageVerifiedCandidate` between two file
operations.  The value of a numeric identifier is what `Number()` makes of it;
that different numbers have different values, which holds below 2^53, is an
assumption of the theorems about the order (`AreIdentifiers`), and the numbers
of the core are taken to be exact.  Nobody deletes the state file.

*ServiceFiles.*  `settingsFile` is what the file holds (settings, settings of
another schema, nothing, damaged bytes), `saving` the calls of `applySettings`
between its awaits, `markers` and `sent` the marker files, `hits` and
`received` what the servers counted.  `lost` is a history: counted downloads
that a fault made the counter forget.  A start comes with the self-heal, which
`package.json` preloads, or without it, as the native launchers start the
service; a file that cannot be looked up passes for missing and one that
cannot be read for corrupt (`health/self-heal.js:38-44`).

*ScanVerdict, FileScan.*  A file is what its analysis finds: findings with
rule, category, severity and weight as in `rules.json`; a body that parses or
not; for an archive the entries and one fault.  `job` is the scan in progress,
`rules` the status of the rules this worker has loaded.  The thresholds, caps,
weights and the rounding are those of the code.

*DesktopService.*  These parts share no variable: what one asks of another is
a value, and each module lets it be anything the other can answer (the
pipeline's sandbox result is any record the sandbox can return).  So a
behaviour of the composition is one of each part, and interleaving them adds
no state a property could see; `part` says which one moves.

## 3. Runs

| Run | Checks | Result |
|---|---|---|
| `DesktopGuard` | `HeldInv`, `OnlyJudgedSafe`, `StrandingReported` | pass, 2.4 million states |
| `DesktopGuardRestores` | `GuardInv`, `RestoresInv`, `RestoredOnce` | pass, 1.6 million states |
| `DesktopGuardLiveness` | `TaskEnds`, `ArrivalAtRestHandled`, `ImplementsContract` | pass, 180,000 states |
| `DirectoryWatcher` | `WatcherInv`, `HealthyMissesNothing`, `LostRootRecreated` | pass |
| `ProtectionCoordinator` | `CoordinatorInv`, `LossIsNoticed`, `StoppedMeansOff` | pass |
| `ScanWorker` | `WorksForActive`, `ActiveIsServed`, `ImplementsScanContract`, `EveryScanSettles` | pass |
| `DesktopService` | `ServiceInv` and twenty properties of its parts, below | pass, 470,000 states |
| `DesktopGuardCoalesced` | `EveryArrivalHandled` | violated |
| `DesktopGuardOverwrites` | `NeverOverwrites` | violated |
| `DesktopGuardStranded` | `StrandedStaysReported` | violated |
| `DirectoryWatcherBaseline` | `BaselineBeforeStartReturns` | violated |
| `ProtectionCoordinatorClaim` | `DisturbedIsRepaired` | violated |

The violated ones state what a document, a comment or a test of the repository
says and the code does not do:

1. *EveryArrivalHandled.*  A file that replaces the one just taken into
   custody while its task still runs is reported once, and the report is
   answered with the running task (`W/agent.js:73`).  It stays unscanned.
   `ArrivalAtRestHandled` is the part that holds: a notification that finds no
   task running for its path is always acted on.
2. *NeverOverwrites.*  The target check and the rename of release, restore and
   install are several awaits apart, and rename replaces.
3. *StrandedStaysReported.*  Agent and watcher write the same health, so
   "healthy" of the watcher replaces the agent's "degraded" about a payload
   that stays in the hold store.  `StrandingReported` is the part that holds:
   the step that strands a payload sets degraded health.
4. *BaselineBeforeStartReturns.*  The files known before a stop are skipped by
   the baseline of the next start, whatever happened to them in between.
5. *DisturbedIsRepaired.*  A check in progress across a stop publishes its
   verdict after the stop.  `LossIsNoticed` is the part that holds: while the
   interval runs, a lost lock or watch is repaired or no longer claimed.  With
   a failing poll there is a second way to the same end: of two overlapping
   starts one takes the runtime guard down and the other claims protection.

`OnlyJudgedSafe` is about the bytes a release moves, not only about the
identity its task carries.  They are judged benign or, if another program
damaged the private copy after `movePreservingIdentity` had hashed it and
before the rename (`W/quarantine-store.js:10-18`), that damage; nothing else
can get into that window, and such bytes are not confirmed, nothing becomes
trusted by them, and the release ends with degraded health.

What the passing ones do not promise is part of their statement:
`StrandingReported` excepts a kill in that very step, and its run has the
game on the volume of the stores, because a cross-volume hold whose source
disappears is stranded silently; `HealthyMissesNothing` asks for no fault so
far and for handles on directories that exist, because a failed subdirectory
handle and a recreated directory are never watched again, and it excuses the
last version of a known file in a directory that was without a handle meanwhile
(`lost`): the listing that follows skips known files; `StoppedMeansOff` is
about a stop no other call overlaps; `ActiveIsServed` about workers that were
not dropped while booting, because the timer of a dropped one kills its
successor.  The hazards list names the lines.

`ImplementsContract` is the refinement.  It says in one formula what the guard
promises about a file it has taken, with everything that may happen around it:
one judgement, return only of the benign bytes that were judged, otherwise
containment and a report, or degraded health.  What it does not promise shows
in the contract: `Kill` forgets custody, `Refuse` lets an install end at any
point, and custody begins only at the confirmed move.

`ImplementsScanContract` is the same for the browser: workers, boots, timers,
messages, aborts and shutdowns come down to a client that serves one call at a
time and never returns one call's answer to another.  It includes that no call
is forgotten (a pending call is the served one).  What it does not promise:
`Lose` lets the worker be dropped with its answer, and `Reject` lets a served
call fail at any time; that every call returns is `EveryScanSettles`.

`DesktopService` checks, per part:

- *ThreatIntel:* `NoManufacturedVerdict` (no detection the database does not
  list, whatever the cache file held and however saves and loads overlap),
  `CachedAnswerWithinTtl` (what the cache answers was put less than its time to
  live before the lookup was made: no age is lost in a save, the file, a
  restart, a slow load or an import; an answer may still be given later than
  that, by as long as the load took), `ImportEnds`;
- *ScanPipeline:* `MaliciousEvidenceWins` (once a phase has found the file
  malicious no path, fallback or failure of the three models says safe; and a
  completed scan says malicious if the execution found it or the file was still
  the scanned one when it was read again: a detection in a file that changed
  meanwhile is set aside as inconclusive, `scanner-bridge.js:250-270`),
  `SafeIsBacked`, `SlotsAreExact`, `FinishedMeansReleased` (who sees
  "completed" can upload again), `ScansEnd`;
- *Sandbox:* `LaunchedWhereAccepted` (also when a forced certification or the
  lab moves the active backend between check and launch), `ResultsAreOwn`,
  `AnalysesEnd`;
- *UpdateManager:* `NeverRollsBack`, against Semantic Versioning's own list of
  precedences, and `AcceptedIsStaged`, with kills between any two steps;
- *ServiceFiles:* `SettingsSurvive` (stored settings are replaced only by what
  a request saves and has completely written, by another program, or by the
  defaults at a start at which a file operation fails), `CountedOnce` (once,
  and once more for each fault that made the counter forget: a download that
  was counted but not answered well, a rename to the counted marker that fails,
  `first-launch-counter.js:130-133`, or a marker that cannot be looked up),
  `MarkersAreHonest`;
- *FileScan:* `SafeIsEarned` (every target read and safe, rules official for a
  plugin, nothing unscanned in an archive), `MaliciousIsKept`,
  `MoreFindingsNeverMilder`, `ScriptScoreIsMeasured`.

### Bounds

- *Guard.*  One path: tasks of two paths share only the id counter and health.
  Two ids let two payloads of that path exist at once; two writes are what a
  replacement during a hold takes; one fault hits any single operation; one
  kill hits between any two steps.  The liveness run has five ids and at most
  two writes: more ids than stagings, so that `issued < MaxIds` stops nothing.
  `DesktopGuardRestores` has two restore calls, which race for one entry, and
  a remote volume so that both may copy it.
- *Watcher.*  Root, one subdirectory, a file in it (and one in the root for
  the violation): the code treats deeper directories by the same call.  Two
  jobs are the smallest number that interleaves.  What takes more steps (a
  directory removed and recreated between two overlapping starts is three
  changes and a stop) is covered by the proof, which has no bounds.
- *Coordinator.*  Two roots, so that helper loops can stop halfway; two jobs.
- *Scan worker.*  Three calls (one active, one waiting, one late) and three
  workers, so that a dropped worker's timer meets its successor.
- *Contract.*  The liveness instance: across volumes, a kill, a fault, two
  writes, five ids.  Installs and restores are in the abstract specification
  and in the proof, not in that instance.
- *ThreatIntel.*  One lookup and the import, which share cache and file; two
  hashes and a cache of one entry, so that pruning happens; two ticks, longer
  than one time to live.
- *ScanPipeline.*  Two scans, one of them plain, over one slot and a table of
  one session: the second evicts the first while it runs.  One rewrite hits
  between any two reads.
- *Sandbox.*  One backend of each kind, one self-test of either origin
  (`MaxTests`) beside an analysis, one rewritten sample.
- *UpdateManager.*  Two sequence numbers and seven versions around the cases
  of the order (numbers as text, text after numbers, longer lists, no
  prerelease), all fourteen releases signed.
- *ServiceFiles.*  Two overlapping saves, two faults or kills: a failed rename
  and what follows it at the next start need one fault each.
- *FileScan.*  Two scans, so that the second meets kept rules; archives of two
  entries with one fault; one more script than `ScriptLimit`, as many plugins
  as `PluginLimit`; a rule set that has repeated, combining and weak findings.
- *Invariants.*  `GuardInv`, `HeldInv`, `RestoresInv`, `WatcherInv`,
  `CoordinatorInv` and `ServiceInv` are the inductive invariants of section 4,
  which the runs check.  Of `ScanInv` the run checks the two parts a caller
  relies on.
- Deadlock is not checked: every system here may rest once the bounded
  changes, faults, kills or calls are used up.

### Fairness

Only what the JavaScript runtime guarantees.  Guard: each task goes on, since
its awaits settle, and install calls go on; nothing makes restores, other
programs, kills or the watcher's recovery happen.  Watcher: each job goes on,
handles deliver, debounce timers and the interval fire.  Coordinator: each job
goes on, since the helper process has a timeout; the interval fires (strong
fairness, because it needs a free job and the number of jobs is a bound of the
model, not of the program).  Scan worker: only the page's timers; the worker
may hang for ever.  Desktop service: the import, a scan and an analysis go on,
since requests, helper processes, guests and self-tests have timeouts and file
operations settle; no request is made to happen.  The body of an answer of the
threat database is the exception: its timer is cleared with the headers
(`malwarebazaar-client.js:54`, `67`), so that `ImportEnds` rests on the
transport for a body that stalls.

## 4. Proofs

`DesktopGuardProofs` proves, for any paths, volumes, restore and install
calls, contents and bounds:

- `GuardInvariant`: `Spec => []GuardInv`;
- `OnlyJudgedSafeReleased`: `Spec => OnlyJudgedSafe`;
- `GuardTypes`: `Spec => []TypeOK`.

`OnlyJudgedSafe` speaks of the bytes a step of a release moves, and a task that
is about to release knows only the identity it carries.  `GuardInv` adds why
that identity was scanned and what the bytes have to do with it: no two tasks
share a private copy (`PrivateCopies`), a task stays on its own path
(`Shaped`), until the scan, and again between the hash and the rename of a
release, its copy is what was hashed, damaged, or gone (`CopyKept`), and from a
SAFE answer on the carried identity is benign (`Judged`).  With it
`ReleasePutsJudged`, `ConfirmedIsJudged` and `UnconfirmedDegrades` give the
three parts of the property.  The proof has one lemma
per kind of step: the move, which all calls share, quarantine, the agent's own
steps, install, restore, the environment.

`DesktopGuardContractProofs` proves, under the same assumptions:

- `ContractImplemented`: `Spec => ImplementsContract`, that is, `DesktopGuard`
  with the abstract state of `DesktopGuardContract` is a `GuardContract`;
- `CustodyInvariant`: `Spec => []CustodyInv`.

`GuardInv` alone does not give the refinement: an abstract `Take` needs a copy
without an entry, `Contain` an entry that is still empty, `Report` one that is
there, and `Report` and `GiveUp` leave what is trusted alone.  `CustodyInv`
says so of the concrete state: an id that is not drawn yet has no manifest; the
manifest of a held copy is absent before its quarantine begins, pending until
it is recorded and quarantined (or restored since) when the incident is
written (`Recorded`); a path is not trusted while its task holds its file; only
a quarantined copy is restored.  The proof has three layers: what `CustodyInv`
needs of a step of a holder or of a restore call (`HolderKeeps`,
`RestorerKeeps`); one lemma per abstract action, from what the step does to the
task (`Takes`, `Clears`, `Condemns`, `Refuses`, `GivesUp`, ...); and one lemma
per group of concrete actions that applies them.  Most awaits are stutters:
of a move only the confirmed one into the private store is a step of the
contract, of a quarantine only the second write of the manifest, of a restore
only the last.

`DesktopGuardContractProofs` and `DesktopGuardProofs` also prove what
needs more than those invariants:

- `RestoresInvariant`, `RestoredAtMostOnce`: `RestoresInv` and `RestoredOnce`,
  for any number of restore calls on any volumes.  `CustodyInv` lets two calls
  hold the same entry; `RestoresApart` says why only one of them succeeds: a
  call past its move has taken the payload out of the vault, so another one of
  the same entry cannot be past it, and the entry is still "quarantined" until
  that call records it.
- `HeldInvariant`, `StrandingIsReported`: `HeldInv` and `StrandingReported`,
  if `RemotePaths = {}`.  `HoldsInv` says where a task may end without a
  report: the held copy is not there before its move in, after its move out,
  and when a failure passes for a disappeared file.  The hypothesis is not for
  convenience: across volumes the copy is in the hold store when the unlink of
  the source fails with ENOENT, and the statement is false there (`W/agent.js:105`
  in the hazards).

`ScanWorkerProofs` proves, for any calls, workers and faults:

- `ScanInvariant`: `Spec => []ScanInv`;
- `WorkerServesTheActiveScan`, `ActiveScanHasWorker`, `NoCallIsForgotten`:
  `WorksForActive`, `ActiveIsServed` and `OnePending`;
- `ScanContractImplemented`: `Spec => ImplementsScanContract`, that is, client
  and host with `servedCall` and `servedStage` are a `ScanContract`.

`ScanInv` adds `Waiting`: a reserved call waits for a worker that is still
booting and no scan is active then, and unless a worker was dropped only the
current one boots, which is why an init timer cannot take an active scan's
worker away.  The refinement needs all of it.  `OnePending` makes a served call
a pending one, so that its return is the end of its service; `WorksForActive`
makes an answer that reaches the page one about the served call, so that only
`judged` calls resolve; `Waiting` keeps a call that becomes ready from meeting
another one that is active.  Two lemmas say what `terminateWorker` and a
failed boot, which the failure paths share, do to the abstract state; then
there is one per group of actions.

`DirectoryWatcherProofs` proves, for any files and subdirectories, calls in
progress, changes, faults and stops:

- `WatcherInvariant`: `Spec => []WatcherInv`;
- `HealthyWatcherMissesNothing`: `Spec => []HealthyMissesNothing`.

`HealthyMissesNothing` speaks of one state of health; `WatcherInv` says what
makes it true at every await.  A file or directory is in one of a few places
from the moment a handle covers it: reported and not yet handed over, waiting
for its debounce timer, being looked at by a call, in a listing some call has
still to go through, in the directory a call is about to read, or dealt with
(`Covered`, `Followed`).  `Touched` runs the other way: what is already known
belongs to a directory that has had a handle, so that a handle that is new to a
directory has either nothing known below it or a lost handle behind it.  Every
step moves an item from one place to the next; the order "handle first, then
read" in `_watchDirectory` is what the step of `Watch` needs.  The lemmas about
appended, left and shortened listings are stated once.  The proof found what
the bounds had hidden: while `lost` only recorded closed handles the invariant
was not inductive, and TLC then showed `HealthyMissesNothing` false with three
changes and a stop.  Two starts overlap; the first has listed a directory and
knows its file; the directory is removed and recreated with another version of
that file; the second attaches a new handle and skips the file as known.  The
code does so, hence the excuse for directories removed with their handle, and
the second half of the hazard at `W/directory-watcher.js:66`.

`ProtectionCoordinatorProofs` proves, for any roots, overlapping calls and
failures:

- `CoordinatorInvariant`: `Spec => []CoordinatorInv`;
- `StoppedIsOff`: `Spec => StoppedMeansOff`.

A stop turns watch, guard and interval off at once and takes the locks one
helper at a time.  `OffBehind` is the loop invariant of a stop that no call
overlaps: all of that is off and the roots behind it are unlocked, whatever
half-done start it found.

`ServiceStateProofs` (`ThreatIntel`, `ServiceFiles`, `UpdateManager`),
`FileScanProofs` (`FileScan`) and `DesktopServiceProofs` (`ScanPipeline`,
`Sandbox`) prove the safety properties of the parts of the desktop service,
each from its own inductive invariant:

| Part | Invariant | Properties | What the invariant adds |
|---|---|---|---|
| `ThreatIntel` | `IntelInv` | `NoManufacturedVerdict`, `CachedAnswerWithinTtl` | a detection in the cache, in its file, in a document on its way to the file or in an answer under way is one the database lists, and every entry there is as old as it says |
| `ServiceFiles` | `FilesInv` | `CountedOnce`, `MarkersAreHonest`, `SettingsSurvive` | at each await of the counter, and for each combination of its markers, the count is exact up to what faults made it forget |
| `UpdateManager` | `UpdateInv` | `AcceptedIsStaged`, `NeverRollsBack` | what is being staged is still acceptable when it is written, its copy was good, and nothing newer than the accepted version runs |
| `ScanPipeline` | `PipelineInv` | `MaliciousEvidenceWins`, `SafeIsBacked`, `SlotsAreExact`, `FinishedMeansReleased` | the order of the stages: what a scan may know at each of them, where a detection is kept or was set aside (`AlarmIsKept`), and that the cleanup of an upload is owed until it is done |
| `Sandbox` | `SandboxInv` | `LaunchedWhereAccepted`, `ResultsAreOwn` | acceptance flags are only of tests this process saw pass, and a call past its check keeps the backend it checked |
| `FileScan` | `FileScanInv`, `JudgementInv` | `SafeIsEarned`, `MaliciousIsKept`, `MoreFindingsNeverMilder`, `ScriptScoreIsMeasured` | the loop over the targets of an archive: what it has passed was read, and no detection leaves the verdicts it has seen; a reported verdict is the one the scores and gates give the reported findings |

`DesktopServiceProofs` carries them over: `ServiceImplementsParts` (a behaviour
of the composition is one of each part), `ServiceInvariant` (`ServiceInv`) and
`ServiceIsSafe` (all fifteen state properties at once).

`MoreEvidenceNeverMilder` and `ScriptScoresAreMeasured` are about what a score
does for every set of findings, and a score is a sum over a set: over the
findings of a category, over the categories, over the combinations that fired.
The library defines such a sum by a fold and its induction theorems cannot be
used here, so `FileScanProofs` starts from one fact it proves with the least
number principle in the form of sets: a collection of subsets of a finite set
that has the empty one, and with each of its members that member with one more
element, has them all (`SubsetInduction`).  From it follow, once, that
the fold of a finite set is a number and does not depend on the order, what one
more element adds, and that a sum grows with its set and with each summand
(the lemmas on `Sum` and `Total`).  The lemmas on scores are then about single
operators: a category weighs at least as much with one more finding, at most 40
in a script; a fired combination stays fired; severity of the floor, the
confidence, the gates, the conflict and the decision each grow with the
findings (`VerdictGrows`).  This is where a bonus, a cap or a gate that pays for
an additional finding would show, for any `rules.json` and not only for the
rules of the run.

`NeverRollsBack` compares versions by their place in a list of precedences.
Two theorems about pure operators carry it: `CompareVersionsIsPrecedence`
(`compareVersions` gives the order of Semantic Versioning, for versions with
any number of identifiers) and `PrecedenceIsAnOrder` (that order is transitive
and has no cycles).  `UpdatesNeverRollBack` therefore assumes that the list has
the versions that occur, in that order; the list of the run is one.

All of this rests only on the assumptions named in the modules, which TLC
evaluates in every run: bounds are numbers; kinds of things are disjoint
(`StoreAssumption`, `WatcherAssumption`, `FilesAssumption`); there is at least one root
(`CoordinatorAssumption`); scans are finitely many, because the slot counter
counts them (`PipelineAssumption`); each backend is tried once
(`SandboxAssumption`); the rules are finitely many, their weights, bonuses and
minimums numbers and the floors of their combinations verdicts
(`VerdictAssumption`).  `ScriptRulesAssumption` states two facts about the
tables in `src/script-analyzer.js` that `ScriptScoreIsMeasured` rests on: a
finding of high or critical severity weighs 18 or 28, and every combination
names at least two categories.

Only model-checked:

- everything that must eventually happen (`TaskEnds`, `ArrivalAtRestHandled`,
  `LostRootRecreated`, `LossIsNoticed`, `EveryScanSettles`, `ImportEnds`,
  `ScansEnd`, `AnalysesEnd`): liveness under fairness and `ENABLED` are out of
  the prover's reach;
- the five violated properties, which are about single behaviours.

## 5. Not modelled, and the plan

Not modelled, and why:

- the native components, hypervisors, guest scripts and image checks: outside
  JavaScript; the models let them answer anything the callers accept or reject;
- byte-level parsing (PE, ZIP, inflate) and the rules' patterns: input
  conversion; the models choose what they find.  The built-in rules that
  replace `rules.json` after a failed load have no combinations; the models use
  one rule set for both;
- the inspection of processes and modules by `RuntimeGuard`, beyond what the
  coordinator and the agent see of it, and ACL contents, beyond locked or not:
  both are answers of helper processes;
- the two generations of guard objects around `applySettings`: no document
  says what a request between them gets (see the hazards);
- the cloud services, the GTA simulation's and the AI's scoring: remote or
  advisory; the pipeline takes their answer as any value and must not let it
  lower a verdict;
- deletion by other programs of the update manager's state file or of the
  counters' markers: these files are the only memory of what was accepted,
  counted or sent;
- entitlement, diagnostics, the integrity manifest, MCP tools, page markup:
  stateless checks and I/O.

`TrustedUpdateManager` has no caller in the repository beside its tests, so
`UpdateManager` starts where they start; that staged packages are installed
after `verifyStagedCandidate` is taken from the documentation of the release
process.

What could come next: a composition of watcher, agent and two generations of
settings on the same roots; ACL contents; a larger instance of `FileScan` with
nested faults.  Theorems that would add most: an abstract specification of the
pipeline (evidence in, verdict out) with its refinement; what
`BaselineBeforeStartReturns` promises for a start that follows no stop; which
health follows which stranding, across volumes.
