---------------------------- MODULE RiskScoring ----------------------------
(***************************************************************************)
(* score_risk of migration/risk.py, and the validator's view of a score.   *)
(***************************************************************************)
EXTENDS Naturals, Sequences, FiniteSets, FiniteSetsExt, Functions

CONSTANTS
    RiskRules,   \* risk_rules.yaml: the components of the score
    Levels,      \* min_points of the levels
    MaxPoints    \* max_points

(* per and cap are per_occurrence and cap, 0 where the pack names them     *)
(* otherwise; steps are the thresholds in the pack's order.                *)
IsRiskRule(rule) ==
    /\ rule.kind \in {"count_scaled", "threshold_step", "boolean"}
    /\ {rule.per, rule.cap, rule.points} \subseteq Nat
    /\ rule.steps \in Seq([above : Nat, points : Nat])

(* The thresholds of RSK007, the one component that has any (pydantic's    *)
(* risk_rules.yaml): 50, 20, 5, 0 for 10, 6, 3, 0 points.  To exceed a     *)
(* greater one is worth no less.                                           *)
StepsDescend(steps) ==
    \A i, k \in DOMAIN steps :
        i < k /\ steps[i].above > steps[k].above => steps[i].points >= steps[k].points

ASSUME RiskAssumption ==
    /\ IsFiniteSet(RiskRules) /\ \A rule \in RiskRules : IsRiskRule(rule)
    /\ Levels \subseteq Nat
    /\ MaxPoints \in Nat \ {0}

ASSUME StepsAssumption == \A rule \in RiskRules : StepsDescend(rule.steps)

(* test_ci_summary: what was found, and whether anything could be.         *)
Summaries == [known : {TRUE}, has : SUBSET {"tests", "ci"}]
             \cup [known : {FALSE}, has : {{}}]

Lesser(a, b) == IF a < b THEN a ELSE b

(* Variant: the comparison is turned round.                                *)
StepPointsBelow(steps, n) ==
    LET met == {i \in DOMAIN steps : n <= steps[i].above}
    IN  IF met = {} THEN 0 ELSE steps[Min(met)].points

(* The first threshold, in the pack's order, that the count exceeds.       *)
StepPoints(steps, n) ==
    LET met == {i \in DOMAIN steps : n > steps[i].above}
    IN  IF met = {} THEN 0 ELSE steps[Min(met)].points

(* _boolean_source.  A summary that could not be made has no test files    *)
(* and no CI either.                                                       *)
BooleanSource(source, summary) ==
    \/ source = "no_test_files" /\ "tests" \notin summary.has
    \/ source = "no_ci_detected" /\ "ci" \notin summary.has

Matched(rule, findings) == {fd \in findings : fd.rule \in rule.rules}

Points(rule, findings, summary) ==
    IF rule.rules # {}
    THEN IF rule.kind = "count_scaled"
         THEN Lesser(rule.cap, rule.per * Cardinality(Matched(rule, findings))) ELSE 0
    ELSE IF rule.kind = "threshold_step" /\ rule.source = "finding_file_count"
         THEN StepPoints(rule.steps, Cardinality({fd.file : fd \in findings}))
    ELSE IF rule.kind = "boolean" /\ BooleanSource(rule.source, summary)
         THEN rule.points ELSE 0

LevelOf(total) == Max({0} \cup {l \in Levels : l <= total})

Counted(findings, summary) == {rule \in RiskRules : Points(rule, findings, summary) > 0}

Parts(findings, summary) ==
    {[rule |-> rule, points |-> Points(rule, findings, summary),
      supports |-> Matched(rule, findings)] : rule \in Counted(findings, summary)}

Sum(findings, summary) ==
    SumFunction([rule \in Counted(findings, summary) |-> Points(rule, findings, summary)])

(* Variant: the total is the plain sum.                                    *)
ScoreUnclipped(findings, summary) ==
    [total |-> Sum(findings, summary), level |-> LevelOf(Sum(findings, summary)),
     parts |-> Parts(findings, summary)]

(* score_risk: the total is clipped, its components are not.               *)
Score(findings, summary) ==
    LET total == Lesser(MaxPoints, Sum(findings, summary))
    IN  [total |-> total, level |-> LevelOf(total), parts |-> Parts(findings, summary)]

(* _validate_risk.                                                         *)
RiskAccepted(risk, findings) ==
    /\ SumFunction([part \in risk.parts |-> part.points]) <= risk.total
    /\ risk.total <= MaxPoints
    /\ \A p \in risk.parts : p.supports \subseteq findings

=============================================================================
