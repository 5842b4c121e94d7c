--------------------------- MODULE AnalysisGraph ---------------------------
(***************************************************************************)
(* One analysis run in standard mode: the LangGraph of graph/build.py, the *)
(* routing of graph/routing.py and the nodes of graph/nodes.               *)
(*                                                                         *)
(* A node reads the state as it was merged before its super-step; what it  *)
(* returns is merged when every node of the super-step has returned.  Only *)
(* the fan-out after select_migration_pack has several nodes in one        *)
(* super-step, so only its three branches keep their writes apart until    *)
(* Join.  The services a node calls are choices over what they may return. *)
(***************************************************************************)
EXTENDS Naturals, FiniteSets

CONSTANTS
    Findings,    \* findings the scan of the repository may report
    Docs,        \* documentation evidence the research agent may return
    Rules,       \* migration rules
    RuleOf,      \* RuleOf[f]: the rule_id of finding f
    Covers,      \* Covers[d]: the related_rule_ids of documentation d
    Unsound,     \* findings and documentation that break a structural check
    MaxClaims,   \* how many findings still fit a MigrationPlanDraft (200)
    Texts,       \* what an LLM client may write as the text of a claim
    NoPlan       \* plan_draft None, and what repair_plan makes of it

Tones == {"plain", "definite", "version"}

TextsOver(mentionable) == [mentions : SUBSET mentionable, tone : Tones]

ASSUME GraphAssumption ==
    /\ IsFiniteSet(Findings) /\ IsFiniteSet(Docs)
    /\ Findings \cap Docs = {}
    /\ RuleOf \in [Findings -> Rules]
    /\ Covers \in [Docs -> SUBSET Rules]
    /\ Unsound \subseteq Findings \cup Docs
    /\ MaxClaims \in Nat
    /\ Texts \subseteq TextsOver(Findings)

VARIABLES
    frontier,       \* nodes of the current super-step that have not returned
    pending,        \* writes of the branches that have
    status,         \* the fields of UpgradePilotState, from here on
    applicability,  \* applicability_status
    findings,
    docs,           \* documentation_evidence
    risk,           \* risk_assessment: "none", "ok", "capped" below its parts
    plan,           \* plan_draft: its claims, or NoPlan
    outcome,        \* validation_outcome
    issues,         \* claims that validation_issues names as repairable
    repairs,        \* repair_instructions, by claim
    repair_count,
    errors,         \* nodes that appended to errors
    executions,     \* executions[n]: records of n in node_executions
    report,         \* final_report: its kind and its disclosed limitations
    raised          \* the run ended with an exception

vars == <<frontier, pending, status, applicability, findings, docs, risk, plan,
          outcome, issues, repairs, repair_count, errors, executions, report, raised>>

evidence == <<applicability, findings, docs, risk>>
drafting == <<plan, repairs, repair_count>>
verdict == <<outcome, issues>>

Branches == {"parse_dependencies", "scan_compatibility", "analyze_tests_and_ci"}

Nodes == Branches \cup
    {"validate_request", "acquire_repository", "profile_repository",
     "select_migration_pack", "aggregate_analysis", "documentation_research",
     "calculate_risk", "compatibility_interpretation", "migration_planning",
     "deterministic_evidence_validator", "evidence_critic", "repair_plan",
     "assemble_validated_report", "assemble_partial_report",
     "assemble_terminal_report"}

-----------------------------------------------------------------------------
(* Plans.  A claim cites findings and documentation and has a text; claims *)
(* are named after findings, as the default plan has one claim for each.   *)

ClaimsOver(fs, ds, texts) ==
    [cites : SUBSET fs, docs : SUBSET ds, text : texts]

PlansOf(claims) == UNION {[names -> claims] : names \in SUBSET Findings}

(* None is no plan.                                                        *)
ASSUME PlanAssumption == NoPlan \notin PlansOf(ClaimsOver(Findings, Docs, TextsOver(Findings)))

(* A text that names the rule of f mentions every finding of that rule.    *)
Plainly(f) == [mentions |-> {g \in Findings : RuleOf[g] = RuleOf[f]}, tone |-> "plain"]

(* _fallback_plan: every claim cites the first documentation evidence.     *)
DefaultPlan(fs, first) ==
    [f \in fs |-> [cites |-> {f}, docs |-> {first}, text |-> Plainly(f)]]

DefaultPlans ==
    IF docs = {} THEN {[f \in {} |-> f]} ELSE {DefaultPlan(findings, d) : d \in docs}

(* What _validate_plan_refs lets through of an LLM client's plan.          *)
WellReferenced ==
    {claim \in ClaimsOver(findings, docs, Texts) : claim.cites # {} /\ claim.docs # {}}

-----------------------------------------------------------------------------
(* validate_plan_evidence.                                                 *)

Ungrounded(claim) == \E f \in claim.cites \cap findings : f \notin claim.text.mentions

Unrelated(claim) ==
    \E d \in claim.docs \cap docs :
        LET cited == {RuleOf[f] : f \in claim.cites \cap findings}
        IN  Covers[d] # {} /\ cited # {} /\ Covers[d] \cap cited = {}

BadlyCited(claim) ==
    \/ claim.cites = {} \/ claim.docs = {}
    \/ ~(claim.cites \subseteq findings) \/ ~(claim.docs \subseteq docs)

Repairable(claim) ==
    claim.text.tone = "definite" \/ Ungrounded(claim) \/ Unrelated(claim)

ClaimsOf(p) == IF p = NoPlan THEN {} ELSE DOMAIN p

RepairableClaims(p) == {c \in ClaimsOf(p) : Repairable(p[c])}

StructuralIssue(p) ==
    \/ Unsound \cap (findings \cup docs) # {}
    \/ risk # "ok"
    \/ \E c \in ClaimsOf(p) : BadlyCited(p[c]) \/ p[c].text.tone = "version"

Outcome(p, packFound) ==
    IF ~packFound \/ StructuralIssue(p) THEN "structural_failure"
    ELSE IF p = NoPlan \/ RepairableClaims(p) # {} THEN "repairable"
    ELSE "pass"

(* Variant: an empty keep list keeps nothing.                              *)
KeptLiterally(original, keep) == original \cap keep

(* _apply_repair_instructions: an empty keep list keeps everything.        *)
Kept(original, keep) == IF keep = {} THEN original ELSE original \cap keep

Repaired(claim, repair) ==
    [cites |-> Kept(claim.cites, repair.cites),
     docs  |-> Kept(claim.docs, repair.docs),
     text  |-> repair.text]

(* Variant: the plan is rebuilt from the claims that have an instruction.  *)
RepairedOnly(p, instructions) ==
    IF p = NoPlan THEN NoPlan
    ELSE [c \in DOMAIN instructions |-> Repaired(p[c], instructions[c])]

RepairedPlan(p, instructions) ==
    IF p = NoPlan THEN NoPlan
    ELSE [c \in DOMAIN p |->
            IF c \in DOMAIN instructions THEN Repaired(p[c], instructions[c]) ELSE p[c]]

NoRepairs == [c \in {} |-> c]

-----------------------------------------------------------------------------
(* Running a node.                                                         *)

Runs(n) == n \in frontier /\ ~raised

(* The node's record in node_executions, and its error if it has one.      *)
Record(n, failed) ==
    /\ executions' = [executions EXCEPT ![n] = @ + 1]
    /\ errors' = IF failed THEN errors \cup {n} ELSE errors

(* The routes that test the status before anything else.                   *)
UnlessTerminal(n) == IF status' = "terminal" THEN {"assemble_terminal_report"} ELSE {n}

(* validate_request, acquire_repository and profile_repository: continue,  *)
(* or set the status that every later route tests first.                   *)
Gate(n, continuation) ==
    /\ Runs(n)
    /\ \E failed \in BOOLEAN :
          /\ Record(n, failed)
          /\ status' = IF failed THEN "terminal"
                       ELSE IF n = "validate_request" THEN "running" ELSE status
    /\ frontier' = UnlessTerminal(continuation)
    /\ UNCHANGED <<pending, evidence, drafting, verdict, report, raised>>

ValidateRequest == Gate("validate_request", "acquire_repository")
AcquireRepository == Gate("acquire_repository", "profile_repository")
ProfileRepository == Gate("profile_repository", "select_migration_pack")

(* A pack named by the request is assessed as it is; an unknown one is an  *)
(* ERROR, and so is an exception.  Auto-detection that finds none records  *)
(* an error with NOT_APPLICABLE.                                           *)
NotMigratable == {"NOT_APPLICABLE", "UNSUPPORTED", "ERROR"}

PackAnswers ==
    [status : {"SUPPORTED", "PROBABLE_NEEDS_REVIEW", "NOT_APPLICABLE", "UNSUPPORTED"},
     failed : {FALSE}]
    \cup [status : {"NOT_APPLICABLE", "ERROR"}, failed : {TRUE}]

SelectMigrationPack ==
    /\ Runs("select_migration_pack")
    /\ \E answer \in PackAnswers :
          /\ applicability' = answer.status
          /\ Record("select_migration_pack", answer.failed)
    /\ UNCHANGED status
    /\ frontier' = IF \/ status' = "terminal"
                      \/ applicability' \in NotMigratable
                   THEN {"assemble_terminal_report"}
                   ELSE Branches
    /\ UNCHANGED <<pending, findings, docs, risk, drafting, verdict, report, raised>>

(* A branch returns; a failed one returns no facts and an error.           *)
Branch(n) ==
    /\ n \in Branches /\ Runs(n)
    /\ \E failed \in BOOLEAN, found \in SUBSET Findings :
          /\ failed \/ n # "scan_compatibility" => found = {}
          /\ pending' = pending \cup {[node |-> n, failed |-> failed, findings |-> found]}
    /\ frontier' = frontier \ {n}
    /\ UNCHANGED <<status, evidence, drafting, verdict, errors, executions, report, raised>>

(* Variant: the first branch to return triggers the fan-in.                *)
JoinFirst ==
    /\ pending # {} /\ ~raised
    /\ findings' = findings \cup UNION {w.findings : w \in pending}
    /\ executions' = [n \in Nodes |->
                        executions[n] + Cardinality({w \in pending : w.node = n})]
    /\ errors' = errors \cup {w.node : w \in {v \in pending : v.failed}}
    /\ pending' = {}
    /\ frontier' = {"aggregate_analysis"}
    /\ UNCHANGED <<status, applicability, docs, risk, drafting, verdict, report, raised>>

(* The end of the branches' super-step: their writes go through the        *)
(* appending reducers, and the one node they all lead to is scheduled.     *)
Join ==
    /\ pending # {} /\ frontier = {} /\ ~raised
    /\ findings' = findings \cup UNION {w.findings : w \in pending}
    /\ executions' = [n \in Nodes |->
                        executions[n] + Cardinality({w \in pending : w.node = n})]
    /\ errors' = errors \cup {w.node : w \in {v \in pending : v.failed}}
    /\ pending' = {}
    /\ frontier' = {"aggregate_analysis"}
    /\ UNCHANGED <<status, applicability, docs, risk, drafting, verdict, report, raised>>

AggregateAnalysis ==
    /\ Runs("aggregate_analysis")
    /\ Record("aggregate_analysis", FALSE)
    /\ UNCHANGED status
    /\ frontier' = UnlessTerminal("documentation_research")
    /\ UNCHANGED <<pending, evidence, drafting, verdict, report, raised>>

(* No findings: nothing to research.  Otherwise evidence, possibly none    *)
(* without an error (a timed-out LLM), or none and an error.               *)
DocumentationResearch ==
    /\ Runs("documentation_research")
    /\ \E failed \in BOOLEAN, retrieved \in SUBSET Docs :
          /\ failed \/ findings = {} => retrieved = {}
          /\ findings = {} => ~failed
          /\ docs' = docs \cup retrieved
          /\ Record("documentation_research", failed)
    /\ frontier' = {"calculate_risk"}
    /\ UNCHANGED <<pending, status, applicability, findings, risk, drafting, verdict, report, raised>>

(* Variant: a failed score ends the analysis, as the route allows.         *)
CalculateRiskStrictly ==
    /\ Runs("calculate_risk")
    /\ \E failed \in BOOLEAN :
          /\ risk' = IF failed THEN "none" ELSE "ok"
          /\ Record("calculate_risk", failed)
          /\ status' = IF failed THEN "terminal" ELSE status
    /\ frontier' = UnlessTerminal("compatibility_interpretation")
    /\ UNCHANGED <<pending, applicability, findings, docs, drafting, verdict, report, raised>>

CalculateRisk ==
    /\ Runs("calculate_risk")
    /\ \E failed \in BOOLEAN, score \in {"none", "ok", "capped"} :
          /\ failed <=> score = "none"
          /\ findings = {} => score # "capped"
          /\ risk' = score
          /\ Record("calculate_risk", failed)
    /\ UNCHANGED status
    /\ frontier' = UnlessTerminal("compatibility_interpretation")
    /\ UNCHANGED <<pending, applicability, findings, docs, drafting, verdict, report, raised>>

CompatibilityInterpretation ==
    /\ Runs("compatibility_interpretation")
    /\ \E failed \in BOOLEAN : Record("compatibility_interpretation", failed)
    /\ UNCHANGED status
    /\ frontier' = UnlessTerminal("migration_planning")
    /\ UNCHANGED <<pending, evidence, drafting, verdict, report, raised>>

(* The default plan is built before any client is asked, and building it   *)
(* raises when the findings do not fit; a refused answer falls back to it. *)
MigrationPlanning ==
    /\ Runs("migration_planning")
    /\ \/ /\ plan' = NoPlan
          /\ Record("migration_planning", TRUE)
       \/ /\ Cardinality(findings) <= MaxClaims
          /\ plan' \in DefaultPlans \cup PlansOf(WellReferenced)
          /\ Record("migration_planning", FALSE)
    /\ UNCHANGED status
    /\ frontier' = UnlessTerminal("deterministic_evidence_validator")
    /\ UNCHANGED <<pending, evidence, repairs, repair_count, verdict, report, raised>>

(* Variants: repair again and again; only what is repairable is partial.   *)
AfterValidationAlways(result, count) ==
    IF result = "pass" THEN {"assemble_validated_report"}
    ELSE IF result = "repairable" THEN {"evidence_critic"}
    ELSE {"assemble_partial_report"}

AfterValidationElse(result, count) ==
    IF result # "repairable" THEN {"assemble_validated_report"}
    ELSE IF count = 0 THEN {"evidence_critic"}
    ELSE {"assemble_partial_report"}

(* route_after_validation.                                                 *)
AfterValidation(result, count) ==
    IF result = "pass" THEN {"assemble_validated_report"}
    ELSE IF result = "repairable" /\ count = 0 THEN {"evidence_critic"}
    ELSE {"assemble_partial_report"}

DeterministicEvidenceValidator ==
    /\ Runs("deterministic_evidence_validator")
    /\ \E packFound \in BOOLEAN :
          /\ outcome' = Outcome(plan, packFound)
          /\ issues' = IF packFound THEN RepairableClaims(plan) ELSE {}
    /\ Record("deterministic_evidence_validator", FALSE)
    /\ frontier' = AfterValidation(outcome', repair_count)
    /\ UNCHANGED <<pending, status, evidence, drafting, report, raised>>

(* What the critic may instruct for the failed claims: its default, which  *)
(* restates each of them plainly and keeps its citations, or what a client *)
(* answers, which _validate_repairs holds to the citations there are.      *)
DefaultRepairs ==
    {[c \in issues |-> [cites |-> plan[c].cites, docs |-> plan[c].docs,
                        text |-> Plainly(first[c])]] :
        first \in {g \in [issues -> Findings] : \A c \in issues : g[c] \in plan[c].cites}}

ClientRepairs ==
    {r \in UNION {[names -> ClaimsOver(findings, docs, Texts)] : names \in SUBSET issues} :
        \A c \in DOMAIN r : r[c].cites \subseteq plan[c].cites /\ r[c].docs \subseteq plan[c].docs}

EvidenceCritic ==
    /\ Runs("evidence_critic")
    /\ \/ /\ repairs' = NoRepairs        \* raised, or the answer was refused
          /\ \E failed \in BOOLEAN : Record("evidence_critic", failed)
       \/ /\ issues # {}
          /\ repairs' \in DefaultRepairs \cup ClientRepairs
          /\ Record("evidence_critic", FALSE)
    /\ frontier' = {"repair_plan"}
    /\ UNCHANGED <<pending, status, evidence, plan, repair_count, verdict, report, raised>>

(* Variant: a repaired plan is reported without a second validation.       *)
RepairPlanTrusted ==
    /\ Runs("repair_plan")
    /\ plan' = RepairedPlan(plan, repairs)
    /\ repair_count' = repair_count + 1
    /\ Record("repair_plan", FALSE)
    /\ frontier' = {"assemble_validated_report"}
    /\ UNCHANGED <<pending, status, evidence, repairs, verdict, report, raised>>

RepairPlan ==
    /\ Runs("repair_plan")
    /\ plan' = RepairedPlan(plan, repairs)
    /\ repair_count' = repair_count + 1
    /\ Record("repair_plan", FALSE)
    /\ frontier' = {"deterministic_evidence_validator"}
    /\ UNCHANGED <<pending, status, evidence, repairs, verdict, report, raised>>

(* The report nodes; limitations is what the report says went wrong.       *)
Assemble(n, kind, closing, limitations) ==
    /\ Runs(n)
    /\ report' = [kind |-> kind, limitations |-> limitations]
    /\ status' = closing
    /\ Record(n, FALSE)
    /\ frontier' = {}
    /\ UNCHANGED <<pending, evidence, drafting, verdict, raised>>

AssembleValidatedReport ==
    Assemble("assemble_validated_report", "validated", "completed", {})

AssemblePartialReport ==
    Assemble("assemble_partial_report", "partial", "partial",
             errors \cup IF outcome = "pass" THEN {} ELSE {"deterministic_evidence_validator"})

AssembleTerminalReport ==
    Assemble("assemble_terminal_report", "terminal", "terminal", errors)

(* A node, its instrumentation or a checkpoint write raises: the wrapper   *)
(* re-raises, the run ends and nothing of the super-step is merged.        *)
Raise ==
    /\ frontier # {} \/ pending # {}
    /\ ~raised
    /\ raised' = TRUE
    /\ frontier' = {} /\ pending' = {}
    /\ UNCHANGED <<status, evidence, drafting, verdict, errors, executions, report>>

-----------------------------------------------------------------------------

Init ==
    /\ frontier = {"validate_request"} /\ pending = {}
    /\ status = "pending" /\ applicability = "SUPPORTED"
    /\ findings = {} /\ docs = {} /\ risk = "none"
    /\ plan = NoPlan /\ outcome = "not_run" /\ issues = {}
    /\ repairs = NoRepairs /\ repair_count = 0
    /\ errors = {} /\ executions = [n \in Nodes |-> 0]
    /\ report = [kind |-> "none", limitations |-> {}]
    /\ raised = FALSE

Prepare ==
    \/ ValidateRequest
    \/ AcquireRepository
    \/ ProfileRepository
    \/ SelectMigrationPack

Analyze ==
    \/ \E n \in Branches : Branch(n)
    \/ Join
    \/ AggregateAnalysis
    \/ DocumentationResearch
    \/ CalculateRisk

Draft ==
    \/ CompatibilityInterpretation
    \/ MigrationPlanning
    \/ DeterministicEvidenceValidator
    \/ EvidenceCritic
    \/ RepairPlan

Deliver ==
    \/ AssembleValidatedReport
    \/ AssemblePartialReport
    \/ AssembleTerminalReport

Step == Prepare \/ Analyze \/ Draft \/ Deliver

Next == Step \/ Raise

Spec == Init /\ [][Next]_vars

-----------------------------------------------------------------------------
(* Properties.                                                             *)

GateFailed ==
    errors \cap {"validate_request", "acquire_repository", "profile_repository"} # {}

IsPlan(p) ==
    /\ DOMAIN p \subseteq Findings
    /\ p \in [DOMAIN p -> ClaimsOver(Findings, Docs, TextsOver(Findings))]

(* Every field holds what its writers may put there.                       *)
TypeOK ==
    /\ frontier \subseteq Nodes
    /\ pending \subseteq [node : Branches, failed : BOOLEAN, findings : SUBSET Findings]
    /\ status \in {"pending", "running", "completed", "partial", "terminal"}
    /\ applicability \in {"SUPPORTED", "PROBABLE_NEEDS_REVIEW", "NOT_APPLICABLE",
                          "UNSUPPORTED", "ERROR"}
    /\ findings \subseteq Findings /\ docs \subseteq Docs
    /\ risk \in {"none", "ok", "capped"}
    /\ plan = NoPlan \/ IsPlan(plan)
    /\ outcome \in {"not_run", "pass", "repairable", "structural_failure"}
    /\ issues \subseteq ClaimsOf(plan)
    /\ IsPlan(repairs)
    /\ repair_count \in 0 .. 1
    /\ errors \subseteq Nodes
    /\ executions \in [Nodes -> 0 .. 2]
    /\ report.kind \in {"none", "validated", "partial", "terminal"}
    /\ report.limitations \subseteq Nodes
    /\ raised \in BOOLEAN

(* Each node runs at most once, the validator at most twice, whatever the  *)
(* branches' order: the fan-in does not trigger the rest of the graph once *)
(* per branch, and the repair loop is taken at most once.                  *)
VisitedOnce ==
    \A n \in Nodes :
        executions[n] <= IF n = "deterministic_evidence_validator" THEN 2 ELSE 1

(* What follows the fan-in sees the records of all three branches.         *)
JoinIsComplete ==
    executions["aggregate_analysis"] > 0 =>
        /\ pending = {}
        /\ \A n \in Branches : executions[n] = 1

(* A validated report carries a plan, a consistent score and evidence that *)
(* pass every check at the time of the report, repaired or not.            *)
ValidatedIsSound ==
    report.kind = "validated" =>
        /\ risk = "ok"
        /\ Unsound \cap (findings \cup docs) = {}
        /\ plan # NoPlan
        /\ \A c \in DOMAIN plan :
              /\ plan[c].cites # {} /\ plan[c].cites \subseteq findings
              /\ plan[c].docs # {} /\ plan[c].docs \subseteq docs
              /\ ~Repairable(plan[c])

(* The report is a terminal one exactly when a gate failed or the pack does *)
(* not apply: once the branches have run, no failure of a later node costs *)
(* the analysis what it found, although every later route still tests for  *)
(* the terminal status.                                                    *)
TerminalOnlyAtGates ==
    report.kind # "none" =>
        (report.kind = "terminal" <=> GateFailed \/ applicability \in NotMigratable)

(* The course of a run through build_graph and its routes: no node too     *)
(* often, nothing before the join is complete, and no way from a late      *)
(* failure to a terminal report.                                           *)
CourseIsSound == VisitedOnce /\ JoinIsComplete /\ TerminalOnlyAtGates

(* Repairing rewrites texts and drops citations.  It adds no claim and no  *)
(* citation, and leaves no claim without one.                              *)
RepairAddsNoEvidence ==
    [][repair_count' # repair_count =>
         /\ ClaimsOf(plan') = ClaimsOf(plan)
         /\ \A c \in ClaimsOf(plan) :
               /\ plan'[c].cites \subseteq plan[c].cites /\ plan'[c].cites # {}
               /\ plan'[c].docs \subseteq plan[c].docs /\ plan'[c].docs # {}]_vars

(* FR-11: a structural failure is never repaired, nor validated afterwards.*)
StructuralIsFinal ==
    [][outcome = "structural_failure" =>
         UNCHANGED <<plan, outcome, repair_count>> /\ report'.kind # "validated"]_vars

=============================================================================
