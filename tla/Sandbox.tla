------------------------------ MODULE Sandbox ------------------------------
(***************************************************************************)
(* Behavioral analysis: the sandbox controller with its certification, the *)
(* router that picks an isolation backend, and the backends with their     *)
(* process-local acceptance flags.  The controller's self-test has a       *)
(* single flight; the validation lab runs another controller's self-test   *)
(* over the same router, so two of them and several analyses interleave at *)
(* their awaits.                                                           *)
(***************************************************************************)
EXTENDS Naturals, Sequences, SequencesExt

CONSTANTS
    Order,            \* the backends, as the router tries them
    MicroVms,         \* those of the kind MalGuardMicroVMBackend
    PortableVms,      \* those of the kind MalGuardVmBackend; the others are Windows Sandbox
    Analyses,         \* bound: calls of analyzeUntrustedSample at once
    MaxTests,         \* bound: self-tests started
    MaxSampleWrites   \* bound: changes of the sample by other programs

ASSUME SandboxAssumption ==
    /\ Order \in Seq(Range(Order)) /\ Order # <<>> /\ IsInjective(Order)
    /\ MaxTests \in Nat /\ MaxSampleWrites \in Nat

VARIABLES
    acc,       \* backend -> the tests it has passed: _acceptance
    active,    \* IsolationBackendRouter._active: a set with at most one backend
    certified, \* _certification.ok
    test,      \* the self-test of the controller ("own") and of the lab
    late,      \* backends whose poller still reads a result after the timeout
    analysis,  \* Analyses -> a call of analyzeUntrustedSample
    sample,    \* version of the sample on disk
    accepted,  \* history: backends that have been accepted
    tests, sampleWrites

sandboxVars ==
    <<acc, active, certified, test, late, analysis, sample, accepted, tests, sampleWrites>>

Backends == Range(Order)
Testers == {"own", "lab"}
NoTest == [at |-> "idle", todo |-> <<>>, contained |-> FALSE]
NoAnalysis == [at |-> "idle", seen |-> 0, staged |-> 0, backend |-> {}, ok |-> FALSE,
               report |-> {}]

SandboxInit ==
    /\ acc = [b \in Backends |-> {}] /\ active = {} /\ late = {}
    /\ certified = FALSE
    /\ test = [t \in Testers |-> NoTest]
    /\ analysis = [a \in Analyses |-> NoAnalysis]
    /\ sample = 0 /\ accepted = {} /\ tests = 0 /\ sampleWrites = 0

(* releaseGrade of a backend, and the one the router shows: the active one,*)
(* else the first of release grade.                                        *)
ReleaseGrade(b) == acc[b] = {"containment", "isolation"}
Selected ==
    IF active # {} THEN active
    ELSE {Order[i] : i \in {i \in DOMAIN Order : /\ ReleaseGrade(Order[i])
                                                 /\ \A j \in 1..(i - 1) : ~ReleaseGrade(Order[j])}}
SelectedIsReleaseGrade == \E b \in Selected : ReleaseGrade(b)

SetAcc(b, what) ==
    /\ acc' = [acc EXCEPT ![b] = what]
    /\ accepted' = accepted \cup IF what = {"containment", "isolation"} THEN {b} ELSE {}
Lost(b, what) == SetAcc(b, acc[b] \ {what})
Got(b, what) == SetAcc(b, acc[b] \cup {what})

------------------------------------------------------------------------------
(* selfTest: containment over the backends in order, isolation over the    *)
(* active one and then the others, capabilities, and a harmless launch.    *)

(* Mutant of Woken: a self-test that throws wakes nobody.                  *)
WokenIfDecided(a, ok, threw) ==
    IF analysis[a].at # "waiting" \/ threw THEN analysis[a]
    ELSE IF ok THEN [analysis[a] EXCEPT !.at = "caps"] ELSE [NoAnalysis EXCEPT !.at = "done"]

(* An analysis that awaits the certification goes on, is refused, or is    *)
(* rejected with it.                                                       *)
Woken(a, ok, threw) ==
    IF analysis[a].at # "waiting" THEN analysis[a]
    ELSE IF ok THEN [analysis[a] EXCEPT !.at = "caps"] ELSE [NoAnalysis EXCEPT !.at = "done"]

(* The controller keeps the outcome; one that throws leaves "running".     *)
Ends(t, ok, threw) ==
    /\ test' = [test EXCEPT ![t] = NoTest]
    /\ IF t = "own"
       THEN /\ certified' = ok
            /\ analysis' = [a \in Analyses |-> Woken(a, ok, threw)]
       ELSE UNCHANGED <<certified, analysis>>

Turns(t, at, todo) ==
    /\ test' = [test EXCEPT ![t].at = at, ![t].todo = todo] /\ UNCHANGED <<certified, analysis>>

(* The isolation candidates: the active backend, and then the others.      *)
FirstThenOthers(k) ==
    [i \in DOMAIN Order |-> IF i = 1 THEN Order[k] ELSE IF i <= k THEN Order[i - 1] ELSE Order[i]]
Candidates(now) ==
    IF now = {} THEN Order ELSE FirstThenOthers(CHOOSE k \in DOMAIN Order : Order[k] \in now)

ContainmentBegins(t) ==
    /\ test[t].at = "contain"
    /\ Lost(Head(test[t].todo), "containment")
    /\ Turns(t, "containing", test[t].todo)
    /\ UNCHANGED <<active, late>>

(* The portable VM makes a directory for its containment test, which may   *)
(* throw; the router's active backend stays.                               *)
ContainmentThrows(t) ==
    LET b == Head(test[t].todo) IN
    /\ test[t].at \in {"containing", "recontaining"} /\ b \in PortableVms
    /\ Lost(b, "containment") /\ UNCHANGED <<active, late>>
    /\ Ends(t, FALSE, TRUE)

ContainmentEnds(t) ==
    LET b == Head(test[t].todo)
        rest == Tail(test[t].todo)
    IN /\ test[t].at = "containing"
       /\ \/ /\ Got(b, "containment") /\ active' = {b}
             /\ test' = [test EXCEPT ![t] = [at |-> "isolate", todo |-> Candidates({b}),
                                             contained |-> TRUE]]
             /\ UNCHANGED <<certified, analysis>>
          \/ /\ Lost(b, "containment")
             /\ active' = IF rest = <<>> THEN {} ELSE active
             /\ IF rest = <<>> THEN Turns(t, "isolate", Candidates({}))
                               ELSE Turns(t, "contain", rest)
       /\ UNCHANGED late

(* The next candidate, or none is left and the self-test has failed.       *)
NextCandidate(t) ==
    IF Tail(test[t].todo) = <<>>
    THEN active' = {} /\ Ends(t, FALSE, FALSE)
    ELSE UNCHANGED active /\ Turns(t, "isolate", Tail(test[t].todo))

(* A candidate that is not the active backend is tested for containment    *)
(* first.  Preparing the session of an isolation test may throw.           *)
IsolationBegins(t) ==
    LET b == Head(test[t].todo) IN
    /\ test[t].at = "isolate" /\ UNCHANGED late
    /\ IF {b} # active
       THEN Lost(b, "containment") /\ Turns(t, "recontaining", test[t].todo) /\ UNCHANGED active
       ELSE /\ Lost(b, "isolation")
            /\ IF b \in MicroVms /\ "containment" \notin acc[b] THEN NextCandidate(t)
               ELSE /\ UNCHANGED active
                    /\ Turns(t, "isolating", test[t].todo) \/ Ends(t, FALSE, TRUE)

Recontained(t) ==
    LET b == Head(test[t].todo) IN
    /\ test[t].at = "recontaining" /\ UNCHANGED late
    /\ \/ /\ SetAcc(b, {"containment"})
          /\ Turns(t, "isolating", test[t].todo) /\ UNCHANGED active
       \/ Lost(b, "containment") /\ NextCandidate(t)

IsolationEnds(t) ==
    LET b == Head(test[t].todo) IN
    /\ test[t].at = "isolating"
    /\ \/ Got(b, "isolation") /\ active' = {b} /\ Turns(t, "caps", <<>>) /\ UNCHANGED late
       \/ Lost(b, "isolation") /\ NextCandidate(t) /\ UNCHANGED late
       \/ /\ b \notin MicroVms \cup PortableVms /\ late' = late \cup {b}
          /\ NextCandidate(t) /\ UNCHANGED <<acc, accepted>>

(* A poll that was reading when the timeout settled the isolation test     *)
(* still accepts the backend.                                              *)
LatePoll(b) ==
    /\ b \in late /\ late' = late \ {b} /\ Got(b, "isolation")
    /\ UNCHANGED <<active, certified, test, analysis, sample, tests, sampleWrites>>

(* capabilities: all that is left is the harmless execution probe.         *)
Ready(t) ==
    /\ test[t].at = "caps" /\ UNCHANGED <<acc, accepted, active, late>>
    /\ \/ test[t].contained /\ SelectedIsReleaseGrade /\ Turns(t, "probe", <<>>)
       \/ Ends(t, FALSE, FALSE)

(* _runHarmlessExecutionProbe: the router's analyze, like that of a sample,*)
(* once the probe's file is written.                                       *)
ProbeBegins(t) ==
    /\ test[t].at = "probe" /\ UNCHANGED <<acc, accepted, late>>
    /\ \/ SelectedIsReleaseGrade /\ active' = Selected /\ Turns(t, "probing", <<>>)
       \/ UNCHANGED active /\ \E threw \in BOOLEAN : Ends(t, FALSE, threw)

ProbeEnds(t) ==
    /\ test[t].at = "probing" /\ UNCHANGED <<acc, accepted, active, late>>
    /\ Ends(t, TRUE, FALSE) \/ \E threw \in BOOLEAN : Ends(t, FALSE, threw)

TestStep(t) ==
    /\ \/ ContainmentBegins(t) \/ ContainmentThrows(t) \/ ContainmentEnds(t)
       \/ IsolationBegins(t) \/ Recontained(t) \/ IsolationEnds(t)
       \/ Ready(t) \/ ProbeBegins(t) \/ ProbeEnds(t)
    /\ UNCHANGED <<sample, tests, sampleWrites>>

(* ensureRuntimeCertified with force, from the API or at start-up, and the *)
(* lab's self-test.                                                        *)
Begun(t) == [test EXCEPT ![t] = [NoTest EXCEPT !.at = "contain", !.todo = Order]]

StartTest(t) ==
    /\ test[t].at = "idle" /\ tests < MaxTests /\ tests' = tests + 1
    /\ test' = Begun(t)
    /\ certified' = (certified /\ t # "own")
    /\ UNCHANGED <<acc, active, late, analysis, sample, accepted, sampleWrites>>

------------------------------------------------------------------------------
(* analyzeUntrustedSample.                                                 *)

Steps(a, r) ==
    /\ analysis' = [analysis EXCEPT ![a] = r]
    /\ UNCHANGED <<acc, late, sample, accepted, tests, sampleWrites>>

Refused(a) == Steps(a, [NoAnalysis EXCEPT !.at = "done"]) /\ UNCHANGED <<active, certified, test>>

(* preflightSample: the version read, or a reason why not.                 *)
PreflightSample(a) ==
    /\ analysis[a].at = "idle" /\ UNCHANGED <<active, certified, test>>
    /\ \/ Steps(a, [NoAnalysis EXCEPT !.at = "certify", !.seen = sample])
       \/ Steps(a, [NoAnalysis EXCEPT !.at = "done"])

(* ensureRuntimeCertified: certified before, or a self-test in progress is *)
(* awaited, or one is started.                                             *)
Certify(a) ==
    /\ analysis[a].at = "certify"
    /\ Steps(a, [analysis[a] EXCEPT !.at = IF certified THEN "caps" ELSE "waiting"])
    /\ test' = IF ~certified /\ test["own"].at = "idle" THEN Begun("own") ELSE test
    /\ UNCHANGED <<active, certified>>

Caps(a) ==
    /\ analysis[a].at = "caps"
    /\ IF SelectedIsReleaseGrade
       THEN Steps(a, [analysis[a] EXCEPT !.at = "route"]) /\ UNCHANGED <<active, certified, test>>
       ELSE Refused(a)

(* Mutant of Admits: the backend relies on the controller's check.         *)
AdmitsAny(b) == b \in Backends

(* The backend's own check at the start of analyze.                        *)
Admits(b) == ReleaseGrade(b)

(* IsolationBackendRouter.analyze: the backend that is active by now.      *)
Route(a) ==
    /\ analysis[a].at = "route" /\ UNCHANGED <<certified, test>>
    /\ IF \E b \in Selected : Admits(b)
       THEN /\ active' = Selected
            /\ Steps(a, [analysis[a] EXCEPT !.at = "stage", !.backend = Selected])
       ELSE /\ active' = IF SelectedIsReleaseGrade THEN Selected ELSE active
            /\ Steps(a, [NoAnalysis EXCEPT !.at = "done"])

(* Mutant of Identical: the staged copy is not compared.                   *)
IdenticalAlways(a) == a \in Analyses

(* _prepareSession: the sample is read again and must be the preflighted.  *)
Identical(a) == sample = analysis[a].seen

Stage(a) ==
    /\ analysis[a].at = "stage"
    /\ \/ /\ Identical(a)
          /\ Steps(a, [analysis[a] EXCEPT !.at = "launched", !.staged = sample])
          /\ UNCHANGED <<active, certified, test>>
       \/ Refused(a)

(* What a guest reports: the session and the sample it names, whether it   *)
(* started the sample, what it kept closed, the signs of risk it saw, and  *)
(* the verdict a portable VM's guest claims.                               *)
Reports == [session : {"this", "other"}, hash : {"this", "other"}, started : BOOLEAN,
            sealed : BOOLEAN, risk : BOOLEAN, claim : {"malicious", "safe"}]

(* validateTelemetry: the session's own, with a sample that was started.   *)
ValidateTelemetry(r) == r.session = "this" /\ r.started

(* validateMicroVmEvidence with requireSampleExecution: also the network,  *)
(* the inputs, the overlay and the clipboard as demanded.                  *)
ValidateMicroVmEvidence(r) == r.session = "this" /\ r.sealed /\ r.started

(* MalGuardVmBackend.analyze: proven for this sample; _launchRequest has   *)
(* passed over the events of other sessions.                               *)
VmProven(r) == r.session = "this" /\ r.hash = "this" /\ r.sealed /\ r.started

Accepted(b, r) ==
    CASE b \in PortableVms -> VmProven(r)
      [] b \in MicroVms -> ValidateMicroVmEvidence(r) /\ ValidateTelemetry(r)
      [] OTHER -> ValidateTelemetry(r)

(* evaluateTelemetry: enough risk makes the sample suspicious, and nothing *)
(* makes it safe; a portable VM's guest has a verdict of its own.          *)
EvaluateTelemetry(r) == IF r.risk THEN "suspicious" ELSE "inconclusive"
VmVerdict(r) == IF r.claim = "safe" THEN "inconclusive" ELSE r.claim
BehaviorVerdict(b, r) == IF b \in PortableVms THEN VmVerdict(r) ELSE EvaluateTelemetry(r)

(* The guest reports, or it times out, or its report is not accepted.      *)
Finish(a) ==
    /\ analysis[a].at = "launched" /\ UNCHANGED <<active, certified, test>>
    /\ \/ \E b \in analysis[a].backend, r \in Reports :
            /\ Accepted(b, r)
            /\ Steps(a, [analysis[a] EXCEPT !.at = "done", !.ok = TRUE,
                 !.report = {[session |-> r.session, started |-> r.started,
                              verdict |-> BehaviorVerdict(b, r)]}])
       \/ Steps(a, [NoAnalysis EXCEPT !.at = "done"])

AnalysisStep(a) == Certify(a) \/ Caps(a) \/ Route(a) \/ Stage(a) \/ Finish(a)

(* Another program writes the sample.  Only its preflight and its staging  *)
(* read it, so the write is put right before the next of these reads; what *)
(* happens to it when no analysis is under way is of no consequence.       *)
WriteSample ==
    /\ \E a \in Analyses : analysis[a].at \notin {"idle", "launched", "done"}
    /\ \E a \in Analyses : analysis[a].at \in {"idle", "stage"}
    /\ sampleWrites < MaxSampleWrites /\ sampleWrites' = sampleWrites + 1
    /\ sample' = 1 - sample
    /\ UNCHANGED <<acc, active, certified, test, late, analysis, accepted, tests>>

SandboxNext ==
    \/ \E t \in Testers : StartTest(t) \/ TestStep(t)
    \/ \E b \in Backends : LatePoll(b)
    \/ \E a \in Analyses : PreflightSample(a) \/ AnalysisStep(a)
    \/ WriteSample

SandboxSpec == SandboxInit /\ [][SandboxNext]_sandboxVars

(* What is in progress goes on: probes, guests and polls are bounded by    *)
(* timers.                                                                 *)
SandboxFairness ==
    /\ \A t \in Testers : WF_sandboxVars(test[t].at # "idle" /\ TestStep(t))
    /\ \A a \in Analyses :
          WF_sandboxVars(analysis[a].at \notin {"idle", "done"} /\ AnalysisStep(a))

------------------------------------------------------------------------------
(* A sample runs only in a backend that has passed its containment and its *)
(* isolation test in this process, although the router may change backends *)
(* between the controller's check and the launch.                          *)
LaunchedWhereAccepted ==
    \A a \in Analyses :
        analysis[a].at = "launched" \/ analysis[a].ok => analysis[a].backend \subseteq accepted

(* What runs, and what a result is about, is the file that was preflighted *)
(* and whose hash the result names, in a session of its own where it was   *)
(* really started; and no result calls it safe.                            *)
ResultsAreOwn ==
    \A a \in Analyses :
        /\ analysis[a].at = "launched" \/ analysis[a].ok => analysis[a].staged = analysis[a].seen
        /\ \A r \in analysis[a].report :
             r.session = "this" /\ r.started /\ r.verdict # "safe"

(* Every analysis gets an answer, also when it waits for a certification   *)
(* that fails, throws or is overtaken by the lab's self-test.              *)
AnalysesEnd == \A a \in Analyses : analysis[a].at = "certify" ~> analysis[a].at = "done"
------------------------------------------------------------------------------
(* The inductive invariant.                                                *)

SandboxTypes ==
    /\ acc \in [Backends -> SUBSET {"containment", "isolation"}]
    /\ active = {} \/ \E b \in Backends : active = {b}
    /\ late \subseteq Backends /\ sample \in {0, 1} /\ certified \in BOOLEAN

(* A self-test that looks at a candidate has one.                          *)
TestTypes ==
    /\ test \in [Testers -> [at : {"idle", "contain", "containing", "isolate", "recontaining",
                                   "isolating", "caps", "probe", "probing"},
                             todo : Seq(Backends), contained : BOOLEAN]]
    /\ \A t \in Testers : test[t].at \notin {"idle", "caps", "probe", "probing"} => test[t].todo # <<>>

(* What is of release grade has been accepted.                             *)
AcceptanceIsKept == \A b \in Backends : ReleaseGrade(b) => b \in accepted

(* An analysis is bound to backends in known once it is routed, and to the *)
(* preflighted sample once it is launched.                                 *)
AnalysisIsBound(call, known) ==
    /\ call \in [at : {"idle", "certify", "waiting", "caps", "route", "stage", "launched", "done"},
                 seen : {0, 1}, staged : {0, 1}, backend : SUBSET Backends, ok : BOOLEAN,
                 report : SUBSET [session : {"this", "other"}, started : BOOLEAN,
                                  verdict : {"malicious", "suspicious", "inconclusive"}]]
    /\ call.ok => call.at = "done"
    /\ call.at \in {"stage", "launched"} \/ call.ok => call.backend \subseteq known
    /\ call.at = "launched" \/ call.ok => call.staged = call.seen
    /\ \A r \in call.report : r.session = "this" /\ r.started

AnalysesAreBound ==
    /\ analysis = [a \in Analyses |-> analysis[a]]
    /\ \A a \in Analyses : AnalysisIsBound(analysis[a], accepted)

SandboxInv == SandboxTypes /\ TestTypes /\ AcceptanceIsKept /\ AnalysesAreBound
=============================================================================
