---------------------------- MODULE ScanVerdict ----------------------------
(***************************************************************************)
(* The verdicts of the static analysers: the scores of the engine and of   *)
(* the script analyser, and the six gates, the conflict, the recheck and   *)
(* the decision of MultiLayerSecurity over an engine result.               *)
(*                                                                         *)
(* A file is what its analysis finds in it: findings of the rule set, a    *)
(* body that parses or not, and the answer of the reputation service.      *)
(***************************************************************************)
EXTENDS Naturals, FiniteSets, FiniteSetsExt

CONSTANTS
    Findings,        \* [rule, category, severity, weight, confidence] of rules.json
    Combos,          \* [categories, min, rules, bonus, floor] of rules.json, "safe" for no floor
    ScriptFindings,  \* the same of the script analyser
    ScriptCombos

ASSUME VerdictAssumption ==
    /\ IsFiniteSet(Findings) /\ IsFiniteSet(ScriptFindings)
    /\ IsFiniteSet(Combos) /\ IsFiniteSet(ScriptCombos)
    /\ \A f \in Findings \cup ScriptFindings : f.weight \in Nat
    /\ \A c \in Combos \cup ScriptCombos :
          /\ c.min \in Nat /\ c.rules \in Nat /\ c.bonus \in Nat
          /\ c.floor \in {"safe", "suspicious", "malicious"}

(* SEVERITY_WEIGHT and COMBINATION_RULES of the script analyser: a strong  *)
(* finding weighs 18 or 28, and a combination needs two categories.        *)
ASSUME ScriptRulesAssumption ==
    /\ \A f \in ScriptFindings : f.severity \in {"high", "critical"} => f.weight >= 18
    /\ \A c \in ScriptCombos : c.min >= 2

Rank == [safe |-> 0, inconclusive |-> 1, suspicious |-> 2, malicious |-> 3]
Worse(v, w) == IF Rank[v] < Rank[w] THEN w ELSE v

Categories(found) == {f.category : f \in found}
Strong(found) == {f \in found : f.severity \in {"high", "critical"}}
InCategory(found, c) == {f \in found : f.category = c}
Weight(found) == [f \in found |-> f.weight]
Bonus(combos) == [c \in combos |-> c.bonus]

------------------------------------------------------------------------------
(* Scores.                                                                 *)

(* Mutant of CategoryScore: repeated findings count less than none.        *)
CategoryScoreMean(found) ==
    SumFunction(Weight(found)) \div Cardinality(found)

(* summarizeCategoryScore of the engine: the heaviest finding of the       *)
(* category and 0.4 of each other one, rounded.                            *)
CategoryScore(found) ==
    LET top == Max({f.weight : f \in found})
        all == SumFunction(Weight(found))
    IN  (10 * top + 4 * (all - top) + 5) \div 10

(* summarizeCategoryScore of the script analyser, in hundredths: 0.35 of   *)
(* the second, 0.15 of the others, at most 40.                             *)
ScriptCategoryScore(found) ==
    LET first == CHOOSE f \in found : \A g \in found : g.weight <= f.weight
        rest == found \ {first}
        all == SumFunction(Weight(rest))
        second == IF rest = {} THEN 0 ELSE Max({f.weight : f \in rest})
    IN  Min({4000, 100 * first.weight + 20 * second + 15 * all})

(* The combinations that fire.  A combination of rules.json counts either  *)
(* categories or the rules of one category.                                *)
Fired(combos, found) ==
    {c \in combos :
        /\ Cardinality(c.categories \cap Categories(found)) >= c.min
        /\ Cardinality({f.rule : f \in {g \in found : g.category \in c.categories}}) >= c.rules}

FromScore(penalty, safeAt) ==
    CASE penalty + safeAt <= 100 -> "safe"
      [] penalty + safeAt > 100 /\ penalty <= 50 -> "suspicious"
      [] OTHER -> "malicious"

(* risk_floor: a combination that fired raises the verdict to its floor.   *)
Raised(verdict, combos) ==
    LET floors == {c.floor : c \in combos} \cup {verdict}
    IN  CHOOSE v \in floors : \A w \in floors : Rank[w] <= Rank[v]

Penalty(found, combos) ==
    SumFunction([c \in Categories(found) |-> CategoryScore(InCategory(found, c))])
        + SumFunction(Bonus(Fired(combos, found)))

(* The findings that count; the others are only reported.                  *)
Weighty(found) == {f \in found : f.weight > 0}

(* scoreFindings of the script analyser for those that count, rounded half *)
(* up.                                                                     *)
ScriptPenalty(weighty) ==
    LET scores == SumFunction(
            [c \in Categories(weighty) |-> ScriptCategoryScore(InCategory(weighty, c))])
        bonuses == SumFunction(Bonus(Fired(ScriptCombos, weighty)))
    IN  (scores + 100 * bonuses + 49) \div 100

(* Mutant of ScriptVerdict: the engine's threshold.                        *)
ScriptVerdictLenient(found) ==
    Raised(FromScore(ScriptPenalty(Weighty(found)), 80), Fired(ScriptCombos, Weighty(found)))

ScriptVerdict(found) ==
    Raised(FromScore(ScriptPenalty(Weighty(found)), 85), Fired(ScriptCombos, Weighty(found)))

------------------------------------------------------------------------------
(* scanFile of the engine.                                                 *)

Blacklisted == [rule |-> "URLHAUS-BLACKLIST", category |-> "known_malicious_hash",
                severity |-> "critical", weight |-> 60, confidence |-> "high"]

Reputations == {"found", "not_found", "unavailable"}
Bodies == {"pe", "malformed", "throws", "unhashed"}

Confidence(evidence, combos) ==
    LET kinds == Categories(evidence) \ {"metadata_anomaly"}
    IN  CASE Blacklisted \in evidence \/ combos # {} \/ Cardinality(kinds) >= 3 -> "high"
          [] Blacklisted \notin evidence /\ combos = {} /\ Cardinality(kinds) < 3
             /\ (Cardinality(kinds) = 2 \/ Strong(evidence) # {}) -> "medium"
          [] OTHER -> "low"

(* buildInvalid, with the rules' status known so far.                      *)
Rejected(status) ==
    [verdict |-> "invalid", evidence |-> {}, confidence |-> "high", hashed |-> FALSE,
     pe |-> FALSE, floor |-> FALSE, reputation |-> "not_checked", status |-> status,
     error |-> "before_analysis"]

Torn(status) == [Rejected(status) EXCEPT !.error = "read_size_mismatch"]

Evidence(found, reputation) ==
    found \cup (IF reputation = "found" THEN {Blacklisted} ELSE {})

(* The verdict of the score alone.                                         *)
Scored(evidence, reputation) ==
    IF reputation = "found" THEN "malicious" ELSE FromScore(Penalty(evidence, Combos), 80)

EngineResult(found, body, reputation, status) ==
    LET evidence == Evidence(found, reputation)
        combos == Fired(Combos, evidence)
        scored == Scored(evidence, reputation)
        verdict == Raised(scored, combos)
    IN  IF body = "unhashed" THEN [Rejected(status) EXCEPT !.error = "hash_failed"]
        ELSE IF body # "pe"
        THEN [Rejected(status) EXCEPT
                !.verdict = IF reputation = "found" THEN "malicious" ELSE "invalid",
                !.evidence = IF reputation = "found" THEN {Blacklisted} ELSE {},
                !.hashed = TRUE, !.reputation = reputation,
                !.error = IF body = "throws" THEN "scan_error" ELSE "malformed"]
        ELSE [verdict |-> verdict, evidence |-> evidence,
              confidence |-> Confidence(evidence, combos), hashed |-> TRUE, pe |-> TRUE,
              floor |-> verdict # scored, reputation |-> reputation, status |-> status,
              error |-> "none"]

------------------------------------------------------------------------------
(* MultiLayerSecurity.                                                     *)

Static(r) == r.evidence \ {Blacklisted}

(* GateManager.runAll.                                                     *)
Gates(r) ==
    [file_integrity |-> IF r.error = "scan_error" THEN "INCONCLUSIVE"
                        ELSE IF r.hashed THEN "PASS" ELSE "SUSPICIOUS",
     pe_structure |-> IF r.pe THEN "PASS" ELSE "SUSPICIOUS",
     rule_evidence |->
        IF r.verdict = "malicious" /\ ~(Blacklisted \in r.evidence /\ Strong(Static(r)) = {})
        THEN "FAIL"
        ELSE IF r.verdict = "suspicious" \/ Strong(Static(r)) # {} THEN "SUSPICIOUS" ELSE "PASS",
     reputation |-> IF Blacklisted \in r.evidence THEN "FAIL"
                    ELSE IF r.reputation = "not_found" THEN "PASS" ELSE "INCONCLUSIVE",
     static_correlation |-> IF ~r.floor THEN "PASS"
                            ELSE IF r.verdict = "malicious" THEN "FAIL" ELSE "SUSPICIOUS",
     anomaly_uncertainty |-> IF r.status # "official" THEN "INCONCLUSIVE"
                             ELSE IF r.confidence = "low" /\ r.verdict # "safe" THEN "SUSPICIOUS"
                             ELSE "PASS"]

Results(g) == {g[k] : k \in DOMAIN g}

(* ConflictDetector.detect: the conflict a recheck has to settle.          *)
RecheckRequired(g) ==
    /\ g.reputation # "FAIL" /\ "FAIL" \notin Results(g)
    /\ {"SUSPICIOUS", "INCONCLUSIVE"} \subseteq Results(g)

(* RecheckManager.recheck.                                                 *)
LeansSuspicious(r) ==
    r.confidence # "low" /\ \E f \in Strong(Static(r)) : f.confidence = "high"

(* Mutant of Decide: the gates vote, and no single one fails a file.       *)
DecideByVote(r, g) ==
    LET failing == {k \in DOMAIN g : g[k] = "FAIL"}
    IN  IF Cardinality(failing) > 1 THEN "malicious"
        ELSE IF "SUSPICIOUS" \in Results(g) THEN "suspicious"
        ELSE IF g.anomaly_uncertainty = "INCONCLUSIVE" THEN "inconclusive" ELSE "safe"

(* DecisionCoordinator.decide.                                             *)
Decide(r, g) ==
    CASE "FAIL" \in {g.reputation, g.rule_evidence, g.static_correlation} -> "malicious"
      [] RecheckRequired(g) -> IF LeansSuspicious(r) THEN "suspicious" ELSE "inconclusive"
      [] OTHER -> IF "SUSPICIOUS" \in Results(g) \/ r.verdict = "suspicious" THEN "suspicious"
                  ELSE IF r.verdict # "safe" \/ g.anomaly_uncertainty = "INCONCLUSIVE"
                  THEN "inconclusive" ELSE "safe"

MultiLayer(r) == Decide(r, Gates(r))

(* validateEngineResultForIntegration.                                     *)
ResultAccepted(r) == r.status \in {"official", "fallback", "incompatible"}

(* scanFileWithMode in the free mode.                                      *)
FreeVerdict(r) ==
    IF ~ResultAccepted(r) \/ (r.status # "official" /\ r.verdict = "safe")
    THEN "inconclusive" ELSE r.verdict

(* runEngineThenMultiLayer.                                                *)
ProVerdict(r) ==
    IF ~ResultAccepted(r)
    THEN IF r.verdict \in {"malicious", "suspicious"} THEN r.verdict ELSE "inconclusive"
    ELSE IF r.error = "before_analysis" THEN "invalid" ELSE MultiLayer(r)
=============================================================================
