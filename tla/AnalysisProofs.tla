--------------------------- MODULE AnalysisProofs ---------------------------
(***************************************************************************)
(* Proofs about AnalysisGraph and AnalysisApi, for any findings,           *)
(* documentation, rules and any texts an LLM client may write.  The first  *)
(* part is about the graph alone.  Every step of the API is a step or a    *)
(* stutter of the graph, so these invariants hold behind it as well; the   *)
(* second part adds how the record, the events, the stream and the history *)
(* row follow the state of the graph.                                      *)
(***************************************************************************)
EXTENDS AnalysisApi, FiniteSetTheorems, TLAPS

(* Where a run is: several nodes are scheduled together, or writes wait,   *)
(* only while the branches run.                                            *)
OneNode ==
    /\ frontier \subseteq Branches \/ \E n \in Nodes : frontier = {n}
    /\ pending # {} => frontier \subseteq Branches

(* Once a plan has passed, or has failed structurally, nothing but its     *)
(* report runs any more; and only what passed is reported as validated.    *)
Verdicts ==
    /\ outcome = "pass" =>
          /\ frontier \subseteq {"assemble_validated_report"} /\ pending = {}
          /\ Outcome(plan, TRUE) = "pass"
    /\ outcome = "structural_failure" =>
          /\ frontier \subseteq {"assemble_partial_report"} /\ pending = {}
    /\ "assemble_validated_report" \in frontier => outcome = "pass"
    /\ report.kind = "validated" => outcome = "pass"

GInv == OneNode /\ Verdicts

-----------------------------------------------------------------------------

LEMMA InitInv == Init => GInv
  BY DEF Init, GInv, OneNode, Verdicts, Nodes

(* A node that runs alone, before any outcome, and schedules something     *)
(* other than the validated report.                                        *)
LEMMA BeforeVerdict ==
    ASSUME GInv, outcome \notin {"pass", "structural_failure"},
           UNCHANGED outcome,
           pending' # {} => frontier' \subseteq Branches,
           frontier' \subseteq Branches \/ \E n \in Nodes : frontier' = {n},
           "assemble_validated_report" \notin frontier',
           UNCHANGED report
    PROVE  GInv'
  BY DEF GInv, OneNode, Verdicts

(* The node that runs says where the run is.                               *)
LEMMA AloneFacts ==
    ASSUME GInv, NEW n \in Nodes \ Branches, Runs(n)
    PROVE  /\ frontier = {n} /\ pending = {}
           /\ outcome = "pass" => n = "assemble_validated_report"
           /\ outcome = "structural_failure" => n = "assemble_partial_report"
  BY DEF GInv, OneNode, Verdicts, Runs

LEMMA PrepareStep ==
    ASSUME GInv, Prepare
    PROVE  GInv'
  <1> USE DEF Nodes, Branches
  <1>1. ASSUME NEW n \in {"validate_request", "acquire_repository", "profile_repository"},
               NEW m \in {"acquire_repository", "profile_repository", "select_migration_pack"},
               Gate(n, m)
        PROVE  GInv'
    <2>1. n \in Nodes \ Branches /\ m \in Nodes
      OBVIOUS
    <2>2. /\ pending = {} /\ outcome \notin {"pass", "structural_failure"}
      BY <1>1, <2>1, AloneFacts DEF Gate
    <2>3. /\ frontier' = {"assemble_terminal_report"} \/ frontier' = {m}
          /\ UNCHANGED <<pending, outcome, report>>
      BY <1>1 DEF Gate, UnlessTerminal, verdict
    <2>4. "assemble_validated_report" \notin frontier'
      BY <2>3
    <2>5. QED
      BY <2>1, <2>2, <2>3, <2>4, BeforeVerdict
  <1>2. CASE SelectMigrationPack
    <2>1. /\ pending = {} /\ outcome \notin {"pass", "structural_failure"}
      BY <1>2, AloneFacts DEF SelectMigrationPack
    <2>2. /\ frontier' = {"assemble_terminal_report"} \/ frontier' = Branches
          /\ UNCHANGED <<pending, outcome, report>>
      BY <1>2 DEF SelectMigrationPack, verdict
    <2>3. QED
      BY <2>1, <2>2, BeforeVerdict
  <1>3. QED
    BY <1>1, <1>2 DEF Prepare, ValidateRequest, AcquireRepository, ProfileRepository

LEMMA AnalyzeStep ==
    ASSUME GInv, Analyze
    PROVE  GInv'
  <1> USE DEF Nodes, Branches
  <1>1. ASSUME NEW n \in Branches, Branch(n) PROVE GInv'
    <2>1. /\ n \in frontier /\ frontier' = frontier \ {n}
          /\ UNCHANGED <<outcome, report>>
      BY <1>1 DEF Branch, Runs, verdict
    <2>2. frontier \subseteq Branches
      BY <2>1 DEF GInv, OneNode
    <2>3. outcome \notin {"pass", "structural_failure"}
      BY <2>1 DEF GInv, Verdicts
    <2>4. /\ frontier' \subseteq Branches
          /\ "assemble_validated_report" \notin frontier'
      BY <2>1, <2>2
    <2>5. QED
      BY <2>1, <2>3, <2>4, BeforeVerdict
  <1>2. CASE Join
    <2>1. /\ pending # {} /\ pending' = {} /\ frontier' = {"aggregate_analysis"}
          /\ UNCHANGED <<outcome, report>>
      BY <1>2 DEF Join, verdict
    <2>2. outcome \notin {"pass", "structural_failure"}
      BY <2>1 DEF GInv, Verdicts
    <2>3. QED
      BY <2>1, <2>2, BeforeVerdict
  <1>3. ASSUME NEW n \in {"aggregate_analysis", "documentation_research", "calculate_risk"},
               NEW m \in {"documentation_research", "calculate_risk",
                          "compatibility_interpretation", "assemble_terminal_report"},
               Runs(n), frontier' = {m}, UNCHANGED <<pending, outcome, report>>
        PROVE  GInv'
    <2>1. n \in Nodes \ Branches /\ m \in Nodes
      OBVIOUS
    <2>2. /\ pending = {} /\ outcome \notin {"pass", "structural_failure"}
      BY <1>3, <2>1, AloneFacts
    <2>3. QED
      BY <1>3, <2>1, <2>2, BeforeVerdict
  <1>4. CASE AggregateAnalysis
    BY <1>3, <1>4 DEF AggregateAnalysis, UnlessTerminal, verdict
  <1>5. CASE DocumentationResearch
    BY <1>3, <1>5 DEF DocumentationResearch, verdict
  <1>6. CASE CalculateRisk
    BY <1>3, <1>6 DEF CalculateRisk, UnlessTerminal, verdict
  <1>7. QED
    BY <1>1, <1>2, <1>4, <1>5, <1>6 DEF Analyze

(* The validator computes the outcome and the route from the same plan and *)
(* evidence, and the others leave both for it.                             *)
LEMMA ValidatorStep ==
    ASSUME GInv, DeterministicEvidenceValidator
    PROVE  GInv'
  <1>1. /\ frontier = {"deterministic_evidence_validator"} /\ pending = {}
        /\ outcome \notin {"pass", "structural_failure"}
    BY AloneFacts DEF DeterministicEvidenceValidator, Nodes, Branches
  <1>2. PICK packFound \in BOOLEAN : outcome' = Outcome(plan, packFound)
    BY DEF DeterministicEvidenceValidator
  <1>3. /\ frontier' = AfterValidation(outcome', repair_count)
        /\ UNCHANGED <<pending, report, plan, findings, docs, risk>>
    BY DEF DeterministicEvidenceValidator, evidence, drafting
  <1>4. outcome' = "pass" => Outcome(plan, TRUE)' = "pass"
    <2>1. outcome' = "pass" => Outcome(plan, TRUE) = "pass"
      BY <1>2 DEF Outcome
    <2>2. Outcome(plan, TRUE)' = Outcome(plan, TRUE)
      BY <1>3 DEF Outcome, StructuralIssue, RepairableClaims, Repairable, ClaimsOf,
         Ungrounded, Unrelated, BadlyCited
    <2>3. QED
      BY <2>1, <2>2
  <1>5. /\ outcome' = "pass" => frontier' = {"assemble_validated_report"}
        /\ outcome' = "structural_failure" => frontier' = {"assemble_partial_report"}
        /\ outcome' \notin {"pass", "structural_failure"} =>
              frontier' = {"evidence_critic"} \/ frontier' = {"assemble_partial_report"}
    BY <1>3 DEF AfterValidation
  <1>6. report.kind # "validated"
    BY <1>1 DEF GInv, Verdicts
  <1>7. OneNode'
    BY <1>1, <1>3, <1>5 DEF OneNode, Nodes
  <1>8. Verdicts'
    BY <1>1, <1>3, <1>4, <1>5, <1>6 DEF Verdicts
  <1>9. QED
    BY <1>7, <1>8 DEF GInv

LEMMA DraftStep ==
    ASSUME GInv, Draft
    PROVE  GInv'
  <1> USE DEF Nodes, Branches
  <1>1. ASSUME NEW n \in {"compatibility_interpretation", "migration_planning",
                          "evidence_critic", "repair_plan"},
               NEW m \in {"migration_planning", "deterministic_evidence_validator",
                          "repair_plan", "assemble_terminal_report"},
               Runs(n), frontier' = {m}, UNCHANGED <<pending, outcome, report>>
        PROVE  GInv'
    <2>1. n \in Nodes \ Branches /\ m \in Nodes
      OBVIOUS
    <2>2. /\ pending = {} /\ outcome \notin {"pass", "structural_failure"}
      BY <1>1, <2>1, AloneFacts
    <2>3. QED
      BY <1>1, <2>1, <2>2, BeforeVerdict
  <1>2. CASE CompatibilityInterpretation
    BY <1>1, <1>2 DEF CompatibilityInterpretation, UnlessTerminal, verdict
  <1>3. CASE MigrationPlanning
    BY <1>1, <1>3 DEF MigrationPlanning, UnlessTerminal, verdict
  <1>4. CASE EvidenceCritic
    BY <1>1, <1>4 DEF EvidenceCritic, verdict
  <1>5. CASE RepairPlan
    BY <1>1, <1>5 DEF RepairPlan, verdict
  <1>6. QED
    BY <1>2, <1>3, <1>4, <1>5, ValidatorStep DEF Draft

LEMMA DeliverStep ==
    ASSUME GInv, Deliver
    PROVE  GInv'
  <1> USE DEF Nodes, Branches
  <1>1. ASSUME NEW n \in Nodes \ Branches, NEW kind, NEW closing, NEW limitations,
               Assemble(n, kind, closing, limitations),
               kind = "validated" => n = "assemble_validated_report"
        PROVE  GInv'
    <2>1. /\ frontier = {n} /\ frontier' = {} /\ pending = {} /\ pending' = {}
          /\ report' = [kind |-> kind, limitations |-> limitations]
          /\ UNCHANGED <<outcome, plan, findings, docs, risk>>
      BY <1>1, AloneFacts DEF Assemble, verdict, drafting, evidence
    <2>2. Outcome(plan, TRUE)' = Outcome(plan, TRUE)
      BY <2>1 DEF Outcome, StructuralIssue, RepairableClaims, Repairable, ClaimsOf,
         Ungrounded, Unrelated, BadlyCited
    <2>3. report'.kind = kind
      BY <2>1
    <2>4. OneNode'
      BY <2>1 DEF OneNode
    <2>5. Verdicts'
      BY <1>1, <2>1, <2>2, <2>3 DEF GInv, Verdicts
    <2>6. QED
      BY <2>4, <2>5 DEF GInv
  <1>2. QED
    BY <1>1 DEF Deliver, AssembleValidatedReport, AssemblePartialReport,
       AssembleTerminalReport

LEMMA Inductive ==
    ASSUME GInv, [Next]_vars
    PROVE  GInv'
  <1>1. ASSUME UNCHANGED <<outcome, plan, findings, docs, risk, report>>
        PROVE  Outcome(plan, TRUE)' = Outcome(plan, TRUE)
    BY <1>1 DEF Outcome, StructuralIssue, RepairableClaims, Repairable, ClaimsOf,
       Ungrounded, Unrelated, BadlyCited
  <1>2. CASE UNCHANGED vars
    <2>1. UNCHANGED <<frontier, pending, outcome, plan, findings, docs, risk, report>>
      BY <1>2 DEF vars
    <2>2. QED
      BY <1>1, <2>1 DEF GInv, OneNode, Verdicts
  <1>3. CASE Raise
    <2>1. /\ frontier' = {} /\ pending' = {}
          /\ UNCHANGED <<outcome, plan, findings, docs, risk, report>>
      BY <1>3 DEF Raise, verdict, drafting, evidence
    <2>2. QED
      BY <1>1, <2>1 DEF GInv, OneNode, Verdicts
  <1>4. QED
    BY <1>2, <1>3, PrepareStep, AnalyzeStep, DraftStep, DeliverStep DEF Next, Step

-----------------------------------------------------------------------------
(* A report that says "validated" is about a plan every claim of which     *)
(* cites findings and documentation of this run and needs no repair, about *)
(* evidence without a structural flaw and about a consistent score:        *)
(* nothing writes to any of them between the validator and the report.     *)
THEOREM ValidatedSound == Spec => []ValidatedIsSound
  <1>1. GInv => ValidatedIsSound
    <2> SUFFICES ASSUME GInv, report.kind = "validated"
                 PROVE  /\ risk = "ok" /\ Unsound \cap (findings \cup docs) = {}
                        /\ plan # NoPlan
                        /\ \A c \in DOMAIN plan :
                              /\ plan[c].cites # {} /\ plan[c].cites \subseteq findings
                              /\ plan[c].docs # {} /\ plan[c].docs \subseteq docs
                              /\ ~Repairable(plan[c])
      BY DEF ValidatedIsSound
    <2>1. Outcome(plan, TRUE) = "pass"
      BY DEF GInv, Verdicts
    <2>2. /\ ~StructuralIssue(plan) /\ plan # NoPlan /\ RepairableClaims(plan) = {}
      BY <2>1 DEF Outcome
    <2>3. ClaimsOf(plan) = DOMAIN plan
      BY <2>2 DEF ClaimsOf
    <2>4. \A c \in DOMAIN plan : ~BadlyCited(plan[c]) /\ ~Repairable(plan[c])
      BY <2>2, <2>3 DEF StructuralIssue, RepairableClaims
    <2>5. risk = "ok" /\ Unsound \cap (findings \cup docs) = {}
      BY <2>2 DEF StructuralIssue
    <2>6. QED
      BY <2>2, <2>4, <2>5 DEF BadlyCited
  <1>2. QED
    BY InitInv, Inductive, <1>1, PTL DEF Spec

(* FR-11: after a structural failure the plan is not repaired, not judged  *)
(* again and not reported as validated, whatever the number of repairs.    *)
THEOREM StructuralFinal == Spec => StructuralIsFinal
  <1>1. ASSUME GInv, [Next]_vars, outcome = "structural_failure"
        PROVE  UNCHANGED <<plan, outcome, repair_count>> /\ report'.kind # "validated"
    <2> USE DEF Nodes, Branches
    <2>1. /\ frontier \subseteq {"assemble_partial_report"} /\ pending = {}
          /\ report.kind # "validated"
      BY <1>1 DEF GInv, Verdicts
    <2>2. CASE AssemblePartialReport
      <3>1. report' = [kind |-> "partial",
                       limitations |-> errors \cup IF outcome = "pass" THEN {}
                                       ELSE {"deterministic_evidence_validator"}]
        BY <2>2 DEF AssemblePartialReport, Assemble
      <3>2. report'.kind = "partial"
        BY <3>1
      <3>3. QED
        BY <2>2, <3>2 DEF AssemblePartialReport, Assemble, verdict, drafting
    <2>3. CASE UNCHANGED vars
      BY <2>1, <2>3 DEF vars
    <2>4. CASE Raise
      BY <2>1, <2>4 DEF Raise, verdict, drafting
    <2>5. ~Prepare
      BY <2>1 DEF Prepare, ValidateRequest, AcquireRepository, ProfileRepository, Gate,
         SelectMigrationPack, Runs
    <2>6. ~Analyze
      BY <2>1 DEF Analyze, Branch, Join, AggregateAnalysis, DocumentationResearch,
         CalculateRisk, Runs
    <2>7. ~Draft
      BY <2>1 DEF Draft, CompatibilityInterpretation, MigrationPlanning,
         DeterministicEvidenceValidator, EvidenceCritic, RepairPlan, Runs
    <2>8. ~AssembleValidatedReport /\ ~AssembleTerminalReport
      BY <2>1 DEF AssembleValidatedReport, AssembleTerminalReport, Assemble, Runs
    <2>9. QED
      BY <1>1, <2>2, <2>3, <2>4, <2>5, <2>6, <2>7, <2>8 DEF Next, Step, Deliver
  <1>2. GInv /\ [Next]_vars =>
          (outcome = "structural_failure" =>
             UNCHANGED <<plan, outcome, repair_count>> /\ report'.kind # "validated")
    BY <1>1
  <1>3. QED
    BY InitInv, Inductive, <1>2, PTL DEF Spec, StructuralIsFinal

-----------------------------------------------------------------------------
(* The course of a run.  A node is due when it is scheduled or its writes  *)
(* wait for the join.  Every node but the validator has a rank that grows  *)
(* along the edges of build_graph; after the repair, the validator comes   *)
(* between repair_plan and the reports.                                    *)

Validator == "deterministic_evidence_validator"

Due == frontier \cup {w.node : w \in pending}

Rank(n) ==
    CASE n = "validate_request" -> 0
      [] n = "acquire_repository" -> 1
      [] n = "profile_repository" -> 2
      [] n = "select_migration_pack" -> 3
      [] n \in Branches -> 4
      [] n = "aggregate_analysis" -> 5
      [] n = "documentation_research" -> 6
      [] n = "calculate_risk" -> 7
      [] n = "compatibility_interpretation" -> 8
      [] n = "migration_planning" -> 9
      [] n = Validator -> 10
      [] n = "evidence_critic" -> 11
      [] n = "repair_plan" -> 12
      [] OTHER -> 14

Place(n, count) == IF n = Validator /\ count = 1 THEN 13 ELSE Rank(n)

(* Nothing from the place of the run onwards has run yet.                  *)
Fresh == \A n \in Due : \A m \in Nodes \ {Validator} :
    Rank(m) >= Place(n, repair_count) => executions[m] = 0

(* How often the validator has run, from where the run is.                 *)
Validated(n) == Rank(n) < 14 =>
    /\ executions[Validator] = repair_count + IF Rank(n) > 10 THEN 1 ELSE 0
    /\ n = Validator \/ repair_count = 0

(* The branches are due together, each of them once.                       *)
FanIn ==
    /\ Due \cap Branches # {} => Due = Branches
    /\ \A w \in pending : /\ w.node \in Branches \ frontier
                          /\ \A v \in pending : v.node = w.node => v = w
    /\ \A n \in Due : Rank(n) > 4 /\ Rank(n) < 14 => \A b \in Branches : executions[b] = 1
    /\ executions["aggregate_analysis"] > 0 => \A b \in Branches : executions[b] = 1

Visits ==
    /\ executions \in [Nodes -> 0 .. 2] /\ repair_count \in 0 .. 1
    /\ frontier \subseteq Branches \/ \E n \in Nodes : frontier = {n}
    /\ pending # {} => frontier \subseteq Branches
    /\ VisitedOnce /\ FanIn /\ Fresh
    /\ \A n \in Due : Validated(n)

(* The terminal report is due exactly when something stopped the run.      *)
Stopped == GateFailed \/ applicability \in NotMigratable

Destiny ==
    /\ \A n \in Due : n = "assemble_terminal_report" <=> Stopped
    /\ ~Stopped => status # "terminal"
    /\ report.kind # "none" =>
          /\ frontier = {} /\ pending = {}
          /\ report.kind = "terminal" <=> Stopped

LEMMA Ranks ==
    /\ \A n \in Nodes : Rank(n) \in (0 .. 12) \cup {14}
    /\ Rank("aggregate_analysis") = 5
    /\ \A n \in Nodes : Rank(n) = 4 <=> n \in Branches
    /\ \A n \in Nodes : Rank(n) = 10 <=> n = Validator
    /\ \A n \in Nodes : Rank(n) = 14 <=> n \in {"assemble_validated_report",
          "assemble_partial_report", "assemble_terminal_report"}
  BY DEF Rank, Nodes, Branches, Validator

(* An edge of build_graph that neither leaves the validator nor leads to   *)
(* the branches.                                                           *)
Leads(n, m) ==
    /\ n \in Nodes \ (Branches \cup {Validator}) /\ m \in Nodes \ Branches
    /\ Rank(n) < Rank(m)
    /\ Rank(m) \in 5 .. 9 => Rank(n) > 4
    /\ m = Validator => Rank(n) = 9
    /\ Rank(m) \in 11 .. 12 => Rank(n) \in 11 .. 12

LEMMA Edges ==
    /\ Leads("validate_request", "acquire_repository")
    /\ Leads("acquire_repository", "profile_repository")
    /\ Leads("profile_repository", "select_migration_pack")
    /\ Leads("aggregate_analysis", "documentation_research")
    /\ Leads("documentation_research", "calculate_risk")
    /\ Leads("calculate_risk", "compatibility_interpretation")
    /\ Leads("compatibility_interpretation", "migration_planning")
    /\ Leads("migration_planning", Validator)
    /\ Leads("evidence_critic", "repair_plan")
    /\ \A n \in Nodes \ (Branches \cup {Validator}) :
          Rank(n) < 14 => Leads(n, "assemble_terminal_report")
  <1>1. /\ Rank("validate_request") = 0 /\ Rank("acquire_repository") = 1
        /\ Rank("profile_repository") = 2 /\ Rank("select_migration_pack") = 3
        /\ Rank("documentation_research") = 6 /\ Rank("calculate_risk") = 7
        /\ Rank("compatibility_interpretation") = 8 /\ Rank("migration_planning") = 9
        /\ Rank("evidence_critic") = 11 /\ Rank("repair_plan") = 12
    BY DEF Rank, Branches, Validator
  <1>2. Rank("assemble_terminal_report") = 14 /\ Rank(Validator) = 10
    BY Ranks DEF Nodes, Validator
  <1>3. QED
    BY <1>1, <1>2, Ranks DEF Leads, Nodes, Branches, Validator

LEMMA InitVisits == Init => Visits /\ Destiny
  <1> SUFFICES ASSUME Init PROVE Visits /\ Destiny
    OBVIOUS
  <1>1. Due = {"validate_request"} /\ "validate_request" \in Nodes
    BY DEF Init, Due, Nodes
  <1>2. FanIn /\ Fresh /\ VisitedOnce
    BY <1>1 DEF Init, FanIn, Fresh, VisitedOnce, Rank, Branches, Nodes, Validator
  <1>3. Visits
    BY <1>1, <1>2 DEF Init, Visits, Validated, Rank, Nodes, Validator, Branches
  <1>4. Destiny
    BY <1>1 DEF Init, Destiny, Stopped, GateFailed, NotMigratable
  <1>5. QED
    BY <1>3, <1>4

(* A node other than the validator and the branches, and the next one.     *)
LEMMA Onwards ==
    ASSUME Visits, NEW n \in Nodes \ (Branches \cup {Validator}), Runs(n),
           executions' = [executions EXCEPT ![n] = @ + 1],
           UNCHANGED <<pending, repair_count>>,
           \/ frontier' = {}
           \/ n = "select_migration_pack" /\ frontier' = Branches
           \/ \E m \in Nodes \ Branches : frontier' = {m} /\ Leads(n, m)
    PROVE  Visits'
  <1> USE DEF Leads
  <1>1. frontier = {n} /\ pending = {} /\ Due = {n} /\ Due' = frontier'
    BY DEF Visits, Runs, Due
  <1>2. /\ executions[n] = 0
        /\ \A m \in Nodes \ {n} : executions'[m] = executions[m]
        /\ executions'[n] = 1
    <2>1. Place(n, repair_count) = Rank(n)
      BY DEF Place
    <2>2. executions[n] = 0
      BY <1>1, <2>1, Ranks DEF Visits, Fresh
    <2>3. QED
      BY <2>2 DEF Visits
  <1>3. executions' \in [Nodes -> 0 .. 2] /\ VisitedOnce'
    BY <1>2 DEF Visits, VisitedOnce, Validator
  <1>4. \A m \in frontier' : m \in Nodes /\ Rank(n) < Rank(m)
    <2>1. CASE n = "select_migration_pack" /\ frontier' = Branches
      <3>1. Rank(n) = 3 /\ Branches \subseteq Nodes
        BY <2>1 DEF Rank, Nodes, Branches
      <3>2. QED
        BY <2>1, <3>1, Ranks
    <2>2. CASE \E m \in Nodes \ Branches : frontier' = {m} /\ Leads(n, m)
      BY <2>2
    <2>3. QED
      BY <2>1, <2>2
  <1>5. Validated(n) /\ executions[Validator]' = executions[Validator]
    BY <1>1, <1>2 DEF Visits, Nodes, Validator
  <1>6. Fresh'
    <2>1. ASSUME NEW m \in frontier', NEW k \in Nodes \ {Validator},
                 Rank(k) >= Place(m, repair_count)
          PROVE  executions'[k] = 0
      <3>1. Place(m, repair_count) > Rank(n) /\ Rank(k) > Rank(n)
        BY <1>4, <2>1, Ranks DEF Place, Visits
      <3>2. executions[k] = 0 /\ k # n
        BY <1>1, <3>1, Ranks DEF Visits, Fresh, Place
      <3>3. QED
        BY <1>2, <3>2
    <2>2. QED
      BY <1>1, <2>1 DEF Fresh
  <1>7. \A m \in frontier' : Validated(m)'
    <2>1. ASSUME NEW m \in frontier', Rank(m) < 14
          PROVE  /\ executions'[Validator] = repair_count' + IF Rank(m) > 10 THEN 1 ELSE 0
                 /\ m = Validator \/ repair_count' = 0
      <3>1. /\ Rank(n) < 14 /\ Rank(n) # 10 /\ Rank(n) \in Nat /\ Rank(m) \in 0 .. 12
            /\ Rank(m) = 10 <=> m = Validator
        BY <1>4, <2>1, Ranks
      <3>2. /\ executions[Validator] = repair_count + IF Rank(n) > 10 THEN 1 ELSE 0
            /\ repair_count = 0
        BY <1>5, <3>1 DEF Validated
      <3>3. Rank(m) \in 11 .. 12 => Rank(n) \in 11 .. 12
        BY <2>1, Ranks DEF Nodes
      <3>4. Rank(m) > 10 <=> Rank(n) > 10
        BY <1>4, <3>1, <3>3
      <3>5. QED
        BY <1>5, <3>2, <3>4
    <2>2. QED
      BY <2>1 DEF Validated
  <1>8. FanIn'
    <2>1. ASSUME NEW m \in frontier', Rank(m) > 4, Rank(m) < 14 PROVE Rank(n) > 4 /\ Rank(n) < 14
      BY <1>4, <2>1, Ranks DEF Nodes
    <2>2. \A b \in Branches : executions'[b] = executions[b]
      BY <1>2 DEF Nodes
    <2>3. Rank("aggregate_analysis") = 5 /\ "aggregate_analysis" \in Nodes
      BY Ranks DEF Nodes
    <2>4. executions'["aggregate_analysis"] > 0 => \A b \in Branches : executions'[b] = 1
      BY <1>1, <1>2, <2>2, <2>3 DEF FanIn, Visits
    <2>5. Due' \cap Branches # {} => Due' = Branches
      BY <1>1
    <2>6. \A m \in Due' : Rank(m) > 4 /\ Rank(m) < 14 => \A b \in Branches : executions'[b] = 1
      BY <1>1, <2>1, <2>2 DEF FanIn, Visits
    <2>7. QED
      BY <1>1, <2>4, <2>5, <2>6 DEF FanIn
  <1>9. QED
    BY <1>1, <1>3, <1>6, <1>7, <1>8 DEF Visits

(* The validator runs once before the repair and once after it.            *)
LEMMA Validating ==
    ASSUME Visits, Runs(Validator),
           executions' = [executions EXCEPT ![Validator] = @ + 1],
           UNCHANGED <<pending, repair_count>>,
           \/ frontier' = {"evidence_critic"} /\ repair_count = 0
           \/ \E m \in {"assemble_validated_report", "assemble_partial_report"} : frontier' = {m}
    PROVE  Visits'
  <1> USE DEF Validator
  <1>1. frontier = {Validator} /\ pending = {} /\ Due = {Validator} /\ Due' = frontier'
    BY DEF Visits, Runs, Due, Branches
  <1>2. Rank(Validator) = 10 /\ Rank("evidence_critic") = 11 /\ Validator \in Nodes
    BY DEF Rank, Branches, Nodes
  <1>3. executions[Validator] = repair_count
    BY <1>1, <1>2 DEF Visits, Validated
  <1>4. /\ \A m \in Nodes \ {Validator} : executions'[m] = executions[m]
        /\ executions'[Validator] = repair_count + 1
    BY <1>2, <1>3 DEF Visits
  <1>5. executions' \in [Nodes -> 0 .. 2] /\ VisitedOnce'
    <2>1. executions[Validator] + 1 \in 0 .. 2
      BY <1>3 DEF Visits
    <2>2. executions' \in [Nodes -> 0 .. 2]
      BY <2>1 DEF Visits
    <2>3. VisitedOnce'
      BY <1>4, <2>2 DEF Visits, VisitedOnce
    <2>4. QED
      BY <2>2, <2>3
  <1>6. \A m \in frontier' : m \in Nodes /\ m # Validator /\ m \notin Branches /\ Rank(m) \in {11, 14}
    <2>1. \A m \in {"evidence_critic", "assemble_validated_report", "assemble_partial_report"} :
             m \in Nodes /\ m # Validator /\ m \notin Branches
      BY DEF Nodes, Branches
    <2>2. /\ Rank("assemble_validated_report") = 14 /\ Rank("assemble_partial_report") = 14
      BY <2>1, Ranks
    <2>3. QED
      BY <1>2, <2>1, <2>2
  <1>7. Fresh'
    <2>1. ASSUME NEW m \in frontier', NEW k \in Nodes \ {Validator},
                 Rank(k) >= Place(m, repair_count)
          PROVE  executions'[k] = 0
      <3>1. Rank(k) >= Place(Validator, repair_count)
        <4>1. CASE frontier' = {"evidence_critic"} /\ repair_count = 0
          BY <1>2, <2>1, <4>1, Ranks DEF Place
        <4>2. CASE frontier' # {"evidence_critic"}
          <5>1. Rank(m) = 14
            BY <2>1, <4>2, Ranks DEF Nodes
          <5>2. QED
            BY <1>2, <1>6, <2>1, <5>1, Ranks DEF Place
        <4>3. QED
          BY <4>1, <4>2
      <3>2. executions[k] = 0
        BY <1>1, <3>1 DEF Visits, Fresh
      <3>3. QED
        BY <1>4, <3>2
    <2>2. QED
      BY <1>1, <2>1 DEF Fresh
  <1>8. \A m \in frontier' : Validated(m)'
    BY <1>2, <1>4, <1>6, Ranks DEF Validated, Nodes
  <1>9. FanIn'
    <2>1. \A b \in Branches \cup {"aggregate_analysis"} : executions'[b] = executions[b]
      BY <1>4 DEF Nodes, Branches
    <2>2. Due' \cap Branches = {}
      BY <1>1, <1>6
    <2>3. \A b \in Branches : executions[b] = 1
      BY <1>1, <1>2 DEF Visits, FanIn
    <2>4. QED
      BY <1>1, <2>1, <2>2, <2>3 DEF FanIn
  <1>10. QED
    BY <1>1, <1>5, <1>6, <1>7, <1>8, <1>9 DEF Visits

(* repair_plan leads back to the validator.                                *)
LEMMA Repairing ==
    ASSUME Visits, Runs("repair_plan"),
           executions' = [executions EXCEPT !["repair_plan"] = @ + 1],
           repair_count' = repair_count + 1, UNCHANGED pending, frontier' = {Validator}
    PROVE  Visits'
  <1> USE DEF Validator
  <1>1. /\ frontier = {"repair_plan"} /\ pending = {}
        /\ Due = {"repair_plan"} /\ Due' = {Validator}
    BY DEF Visits, Runs, Due, Branches
  <1>2. /\ Rank(Validator) = 10 /\ Rank("repair_plan") = 12
        /\ Validator \in Nodes \ Branches /\ "repair_plan" \in Nodes
    BY DEF Rank, Branches, Nodes
  <1>3. repair_count = 0 /\ repair_count' = 1 /\ executions[Validator] = 1
    BY <1>1, <1>2 DEF Visits, Validated
  <1>4. executions["repair_plan"] = 0
    BY <1>1, <1>2, <1>3 DEF Visits, Fresh, Place
  <1>5. /\ \A m \in Nodes \ {"repair_plan"} : executions'[m] = executions[m]
        /\ executions'["repair_plan"] = 1
    BY <1>2, <1>4 DEF Visits
  <1>6. executions' \in [Nodes -> 0 .. 2] /\ VisitedOnce'
    <2>1. executions["repair_plan"] + 1 \in 0 .. 2
      BY <1>3, <1>4 DEF Visits
    <2>2. executions' \in [Nodes -> 0 .. 2]
      BY <2>1 DEF Visits
    <2>3. VisitedOnce'
      BY <1>5, <2>2 DEF Visits, VisitedOnce
    <2>4. QED
      BY <2>2, <2>3
  <1>7. Fresh'
    <2>1. ASSUME NEW k \in Nodes \ {Validator}, Rank(k) >= 13 PROVE executions'[k] = 0
      <3>1. k # "repair_plan" /\ Rank(k) >= Place("repair_plan", repair_count)
        BY <1>2, <2>1, Ranks DEF Place
      <3>2. QED
        BY <1>1, <1>5, <3>1 DEF Visits, Fresh
    <2>2. Place(Validator, repair_count') = 13
      BY <1>3 DEF Place
    <2>3. QED
      BY <1>1, <2>1, <2>2 DEF Fresh
  <1>8. Validated(Validator)'
    <2>1. executions'[Validator] = repair_count'
      BY <1>2, <1>3, <1>5
    <2>2. QED
      BY <1>2, <2>1 DEF Validated
  <1>9. FanIn'
    <2>1. \A b \in Branches \cup {"aggregate_analysis"} : executions'[b] = executions[b]
      BY <1>5 DEF Nodes, Branches
    <2>2. \A b \in Branches : executions[b] = 1
      BY <1>1, <1>2 DEF Visits, FanIn
    <2>3. QED
      BY <1>1, <1>2, <2>1, <2>2 DEF FanIn
  <1>10. QED
    BY <1>1, <1>2, <1>3, <1>6, <1>7, <1>8, <1>9 DEF Visits

(* A branch returns: it stays due until the join.                          *)
LEMMA Returning ==
    ASSUME Visits, NEW n \in Branches, Branch(n)
    PROVE  Visits' /\ Due' = Due
  <1>1. PICK w : w.node = n /\ pending' = pending \cup {w}
    BY DEF Branch
  <1>2. /\ n \in frontier /\ frontier' = frontier \ {n}
        /\ UNCHANGED <<executions, repair_count>>
    BY DEF Branch, Runs, drafting
  <1>3. frontier \subseteq Branches
    BY <1>2 DEF Visits
  <1>4. Due' = Due /\ n \in Due /\ n \in Nodes
    BY <1>1, <1>2 DEF Due, Nodes
  <1>5. FanIn'
    <2>1. \A v \in pending : v.node \in Branches \ frontier
      BY DEF Visits, FanIn
    <2>2. \A v \in pending' : /\ v.node \in Branches \ frontier'
                              /\ \A x \in pending' : x.node = v.node => x = v
      BY <1>1, <1>2, <2>1 DEF Visits, FanIn
    <2>3. QED
      BY <1>2, <1>4, <2>2 DEF Visits, FanIn
  <1>6. Fresh' /\ VisitedOnce' /\ \A m \in Due' : Validated(m)'
    BY <1>2, <1>4 DEF Visits, Fresh, VisitedOnce, Validated
  <1>7. QED
    BY <1>2, <1>3, <1>4, <1>5, <1>6 DEF Visits

(* The join counts each branch once.                                       *)
LEMMA Joining ==
    ASSUME Visits, Join
    PROVE  Visits' /\ Due = Branches /\ Due' = {"aggregate_analysis"}
  <1>1. /\ frontier = {} /\ frontier' = {"aggregate_analysis"} /\ pending' = {}
        /\ pending # {} /\ UNCHANGED repair_count
        /\ executions' = [n \in Nodes |->
                            executions[n] + Cardinality({w \in pending : w.node = n})]
    BY DEF Join, drafting
  <1>2. Due = Branches /\ Due' = {"aggregate_analysis"}
    BY <1>1 DEF Visits, FanIn, Due
  <1>3. \A n \in Branches : Cardinality({w \in pending : w.node = n}) = 1
    <2>1. ASSUME NEW n \in Branches PROVE Cardinality({w \in pending : w.node = n}) = 1
      <3>1. PICK w \in pending : w.node = n
        BY <1>1, <1>2, <2>1 DEF Due
      <3>2. {v \in pending : v.node = n} = {w}
        BY <3>1 DEF Visits, FanIn
      <3>3. QED
        BY <3>2, FS_Singleton
    <2>2. QED
      BY <2>1
  <1>4. \A n \in Nodes \ Branches : executions'[n] = executions[n]
    <2>1. ASSUME NEW n \in Nodes \ Branches PROVE executions'[n] = executions[n]
      <3>1. {w \in pending : w.node = n} = {}
        BY DEF Visits, FanIn
      <3>2. Cardinality({w \in pending : w.node = n}) = 0
        BY <3>1, FS_EmptySet
      <3>3. executions[n] \in 0 .. 2
        BY DEF Visits
      <3>4. QED
        BY <1>1, <3>2, <3>3
    <2>2. QED
      BY <2>1
  <1>5. \A n \in Branches : executions'[n] = 1 /\ Rank(n) = 4 /\ n \in Nodes /\ n # Validator
    <2>1. ASSUME NEW n \in Branches
          PROVE  executions'[n] = 1 /\ Rank(n) = 4 /\ n \in Nodes /\ n # Validator
      <3>1. n \in Nodes /\ Rank(n) = 4 /\ n # Validator
        BY Ranks DEF Nodes
      <3>2. executions[n] = 0
        BY <1>2, <3>1 DEF Visits, Fresh, Place
      <3>3. QED
        BY <1>1, <1>3, <3>1, <3>2
    <2>2. QED
      BY <2>1
  <1>6. /\ Rank("aggregate_analysis") = 5 /\ "aggregate_analysis" \in Nodes
        /\ "aggregate_analysis" # Validator /\ Validator \in Nodes \ Branches
    BY Ranks DEF Nodes, Validator, Branches
  <1>7. executions' \in [Nodes -> 0 .. 2]
    <2>1. \A n \in Nodes : executions'[n] \in 0 .. 2
      BY <1>4, <1>5 DEF Visits
    <2>2. QED
      BY <1>1, <2>1
  <1>8. VisitedOnce'
    BY <1>4, <1>5 DEF Visits, VisitedOnce
  <1>9. PICK b \in Branches : b \in Due
    BY <1>2 DEF Branches
  <1>10. Fresh'
    <2>1. ASSUME NEW k \in Nodes \ {Validator}, Rank(k) >= 5 PROVE executions'[k] = 0
      <3>1. Rank(k) >= Place(b, repair_count) /\ k \notin Branches
        BY <1>5, <1>9, <2>1, Ranks DEF Place
      <3>2. QED
        BY <1>4, <1>9, <3>1 DEF Visits, Fresh
    <2>2. Place("aggregate_analysis", repair_count') = 5
      BY <1>6 DEF Place
    <2>3. QED
      BY <1>2, <2>1, <2>2 DEF Fresh
  <1>11. Validated("aggregate_analysis")'
    <2>1. executions[Validator] = repair_count /\ repair_count = 0
      BY <1>5, <1>9 DEF Visits, Validated
    <2>2. QED
      BY <1>1, <1>4, <1>6, <2>1 DEF Validated
  <1>12. FanIn'
    <2>1. Due' \cap Branches = {}
      BY <1>2 DEF Branches
    <2>2. \A n \in Branches : executions'[n] = 1
      BY <1>5
    <2>3. pending' = {}
      BY <1>1
    <2>4. QED
      BY <2>1, <2>2, <2>3 DEF FanIn
  <1>13. QED
    BY <1>1, <1>2, <1>6, <1>7, <1>8, <1>10, <1>11, <1>12 DEF Visits

(* A node with one successor, which a terminal status may skip.            *)
LEMMA Moving ==
    ASSUME Visits, NEW n \in Nodes, NEW m, NEW failed, Leads(n, m), Runs(n), Record(n, failed),
           UNCHANGED <<pending, repair_count>>,
           frontier' = {m} \/ frontier' = {"assemble_terminal_report"}
    PROVE  Visits'
  <1>1. Rank(n) < 14 /\ n \in Nodes \ (Branches \cup {Validator}) /\ m \in Nodes \ Branches
    BY Ranks DEF Leads
  <1>2. Leads(n, "assemble_terminal_report") /\ "assemble_terminal_report" \in Nodes \ Branches
    BY <1>1, Edges DEF Leads
  <1>3. executions' = [executions EXCEPT ![n] = @ + 1]
    BY DEF Record
  <1>4. \E k \in Nodes \ Branches : frontier' = {k} /\ Leads(n, k)
    BY <1>1, <1>2
  <1>5. QED
    BY <1>1, <1>3, <1>4, Onwards

LEMMA VisitsStep ==
    ASSUME Visits, [Next]_vars
    PROVE  Visits'
  <1> USE DEF verdict, drafting, evidence
  <1>1. CASE UNCHANGED vars
    <2>1. UNCHANGED <<executions, repair_count, frontier, pending>>
      BY <1>1 DEF vars
    <2>2. QED
      <3>1. Due' = Due
        BY <2>1 DEF Due
      <3>2. FanIn' /\ VisitedOnce'
        BY <2>1, <3>1 DEF Visits, VisitedOnce, FanIn
      <3>3. Fresh' /\ \A n \in Due' : Validated(n)'
        BY <2>1, <3>1 DEF Visits, Fresh, Validated
      <3>4. QED
        BY <2>1, <3>2, <3>3 DEF Visits
  <1>2. CASE Raise
    <2>1. UNCHANGED <<executions, repair_count>> /\ frontier' = {} /\ pending' = {}
      BY <1>2 DEF Raise
    <2>2. Due' = {}
      BY <2>1 DEF Due
    <2>3. QED
      BY <2>1, <2>2 DEF Visits, VisitedOnce, FanIn, Fresh
  <1>3. ASSUME NEW n, NEW m, Leads(n, m), Gate(n, m) PROVE Visits'
    BY <1>3, Moving DEF Gate, UnlessTerminal, Leads
  <1>4. CASE SelectMigrationPack
    <2>1. /\ Runs("select_migration_pack")
          /\ \E failed : Record("select_migration_pack", failed)
          /\ UNCHANGED <<pending, repair_count>>
          /\ frontier' = {"assemble_terminal_report"} \/ frontier' = Branches
      BY <1>4 DEF SelectMigrationPack
    <2>2. Leads("select_migration_pack", "assemble_terminal_report")
      BY Edges, Ranks DEF Nodes, Branches, Validator, Leads
    <2>3. CASE frontier' = Branches
      BY <2>1, <2>2, <2>3, Onwards DEF Record, Leads
    <2>4. CASE frontier' = {"assemble_terminal_report"}
      BY <2>1, <2>2, <2>4, Moving DEF Leads
    <2>5. QED
      BY <2>1, <2>3, <2>4
  <1>5. CASE AggregateAnalysis
    BY <1>5, Moving, Edges DEF AggregateAnalysis, UnlessTerminal, Leads
  <1>6. CASE DocumentationResearch
    BY <1>6, Moving, Edges DEF DocumentationResearch, Leads
  <1>7. CASE CalculateRisk
    BY <1>7, Moving, Edges DEF CalculateRisk, UnlessTerminal, Leads
  <1>8. CASE CompatibilityInterpretation
    BY <1>8, Moving, Edges DEF CompatibilityInterpretation, UnlessTerminal, Leads
  <1>9. CASE MigrationPlanning
    BY <1>9, Moving, Edges DEF MigrationPlanning, UnlessTerminal, Leads, Validator
  <1>10. CASE DeterministicEvidenceValidator
    BY <1>10, Validating DEF DeterministicEvidenceValidator, Record, AfterValidation, Validator
  <1>11. CASE EvidenceCritic
    <2>1. /\ Runs("evidence_critic") /\ frontier' = {"repair_plan"}
          /\ \E failed : Record("evidence_critic", failed)
          /\ UNCHANGED <<pending, repair_count>>
      BY <1>11 DEF EvidenceCritic
    <2>2. QED
      BY <2>1, Moving, Edges DEF Leads
  <1>12. CASE RepairPlan
    BY <1>12, Repairing DEF RepairPlan, Record, Validator
  <1>13. ASSUME NEW n \in Nodes \ (Branches \cup {Validator}), NEW kind, NEW closing,
                NEW limitations, Assemble(n, kind, closing, limitations)
         PROVE  Visits'
    BY <1>13, Onwards DEF Assemble, Record
  <1>14. CASE Prepare
    BY <1>3, <1>4, <1>14, Edges DEF Prepare, ValidateRequest, AcquireRepository, ProfileRepository
  <1>15. CASE Analyze
    BY <1>5, <1>6, <1>7, <1>15, Returning, Joining DEF Analyze
  <1>16. CASE Draft
    BY <1>8, <1>9, <1>10, <1>11, <1>12, <1>16 DEF Draft
  <1>17. CASE Deliver
    BY <1>13, <1>17 DEF Deliver, AssembleValidatedReport, AssemblePartialReport,
       AssembleTerminalReport, Nodes, Branches, Validator
  <1>18. QED
    BY <1>1, <1>2, <1>14, <1>15, <1>16, <1>17 DEF Next, Step

(* Where a run ends: each gate and each route agree with Stopped, and no   *)
(* later node sets the status.                                             *)
LEMMA NotStopped ==
    ASSUME Destiny, ~Stopped, UNCHANGED <<applicability, report>>,
           GateFailed' = GateFailed, status' # "terminal",
           "assemble_terminal_report" \notin Due', report.kind = "none"
    PROVE  Destiny'
  BY DEF Destiny, Stopped

LEMMA DestinyStep ==
    ASSUME Visits, Destiny, [Next]_vars
    PROVE  Destiny'
  <1> USE DEF verdict, drafting, evidence
  <1>1. CASE UNCHANGED vars
    <2>1. UNCHANGED <<frontier, pending, status, applicability, errors, report>>
      BY <1>1 DEF vars
    <2>2. QED
      BY <2>1 DEF Destiny, Stopped, GateFailed, Due
  <1>2. CASE Raise
    BY <1>2 DEF Raise, Destiny, Stopped, GateFailed, Due
  <1>3. ASSUME NEW n \in {"validate_request", "acquire_repository", "profile_repository"},
               NEW m \in {"acquire_repository", "profile_repository", "select_migration_pack"},
               Gate(n, m)
        PROVE  Destiny'
    <2>1. /\ frontier = {n} /\ pending = {} /\ pending' = {} /\ Due = {n} /\ Due' = frontier'
          /\ UNCHANGED <<applicability, report>>
      BY <1>3 DEF Gate, Runs, Visits, Due, Branches
    <2>2. ~Stopped /\ report.kind = "none"
      BY <2>1 DEF Destiny
    <2>3. PICK failed \in BOOLEAN :
             /\ errors' = IF failed THEN errors \cup {n} ELSE errors
             /\ status' = IF failed THEN "terminal"
                          ELSE IF n = "validate_request" THEN "running" ELSE status
      BY <1>3 DEF Gate, Record
    <2>4. frontier' = IF status' = "terminal" THEN {"assemble_terminal_report"} ELSE {m}
      BY <1>3 DEF Gate, UnlessTerminal
    <2>5. GateFailed' <=> failed
      BY <2>2, <2>3 DEF Stopped, GateFailed
    <2>6. status' = "terminal" <=> failed
      BY <2>2, <2>3 DEF Destiny
    <2>7. Stopped' <=> failed
      BY <2>1, <2>2, <2>5 DEF Stopped
    <2>8. QED
      BY <2>1, <2>2, <2>4, <2>6, <2>7 DEF Destiny
  <1>4. CASE SelectMigrationPack
    <2>1. /\ frontier = {"select_migration_pack"} /\ pending = {} /\ pending' = {}
          /\ Due = {"select_migration_pack"} /\ Due' = frontier'
          /\ UNCHANGED <<report, status>>
      BY <1>4 DEF SelectMigrationPack, Runs, Visits, Due, Branches
    <2>2. ~Stopped /\ report.kind = "none" /\ status # "terminal"
      BY <2>1 DEF Destiny
    <2>3. GateFailed' = GateFailed
      BY <1>4 DEF SelectMigrationPack, Record, GateFailed
    <2>4. frontier' = IF applicability' \in NotMigratable THEN {"assemble_terminal_report"}
                      ELSE Branches
      BY <1>4, <2>1, <2>2 DEF SelectMigrationPack
    <2>5. Stopped' <=> applicability' \in NotMigratable
      BY <2>2, <2>3 DEF Stopped
    <2>6. QED
      BY <2>1, <2>2, <2>4, <2>5 DEF Destiny, Branches
  <1>5. ASSUME NEW n \in Branches, Branch(n) PROVE Destiny'
    BY <1>5, Returning DEF Branch, Runs, Destiny, Stopped, GateFailed
  <1>6. CASE Join
    <2>1. Due = Branches /\ Due' = {"aggregate_analysis"}
      BY <1>6, Joining
    <2>2. ~Stopped /\ report.kind = "none" /\ status # "terminal"
      BY <1>6, <2>1 DEF Destiny, Branches, Join
    <2>3. GateFailed' = GateFailed
      BY <1>6 DEF Join, GateFailed, Visits, FanIn, Branches
    <2>4. UNCHANGED <<applicability, report, status>>
      BY <1>6 DEF Join
    <2>5. QED
      BY <2>1, <2>2, <2>3, <2>4, NotStopped
  <1>7. ASSUME NEW n \in Nodes \ Branches, NEW m \in Nodes \ {"assemble_terminal_report"},
               n \notin {"validate_request", "acquire_repository", "profile_repository",
                         "assemble_terminal_report"},
               Runs(n), \E failed : Record(n, failed),
               UNCHANGED <<pending, status, applicability, report>>,
               frontier' = {m} \/ frontier' = UnlessTerminal(m)
        PROVE  Destiny'
    <2>1. frontier = {n} /\ pending = {} /\ Due = {n} /\ Due' = frontier'
      BY <1>7 DEF Runs, Visits, Due
    <2>2. ~Stopped /\ report.kind = "none" /\ status # "terminal"
      BY <1>7, <2>1 DEF Destiny
    <2>3. GateFailed' = GateFailed
      BY <1>7 DEF Record, GateFailed
    <2>4. frontier' = {m}
      BY <1>7, <2>2 DEF UnlessTerminal
    <2>5. QED
      BY <1>7, <2>1, <2>2, <2>3, <2>4, NotStopped
  <1>8. CASE Analyze
    <2>1. CASE AggregateAnalysis
      BY <1>7, <2>1 DEF AggregateAnalysis, Nodes, Branches
    <2>2. CASE DocumentationResearch
      BY <1>7, <2>2 DEF DocumentationResearch, Nodes, Branches
    <2>3. CASE CalculateRisk
      BY <1>7, <2>3 DEF CalculateRisk, Nodes, Branches
    <2>4. QED
      BY <1>5, <1>6, <1>8, <2>1, <2>2, <2>3 DEF Analyze
  <1>9. CASE Draft
    <2>1. CASE CompatibilityInterpretation
      BY <1>7, <2>1 DEF CompatibilityInterpretation, Nodes, Branches
    <2>2. CASE MigrationPlanning
      BY <1>7, <2>2 DEF MigrationPlanning, Nodes, Branches
    <2>3. CASE DeterministicEvidenceValidator
      BY <1>7, <2>3 DEF DeterministicEvidenceValidator, AfterValidation, Nodes, Branches
    <2>4. CASE EvidenceCritic
      BY <1>7, <2>4 DEF EvidenceCritic, Nodes, Branches
    <2>5. CASE RepairPlan
      BY <1>7, <2>5 DEF RepairPlan, Nodes, Branches
    <2>6. QED
      BY <1>9, <2>1, <2>2, <2>3, <2>4, <2>5 DEF Draft
  <1>10. ASSUME NEW n \in Nodes \ Branches, NEW kind, NEW closing, NEW limitations,
                n \notin {"validate_request", "acquire_repository", "profile_repository"},
                Assemble(n, kind, closing, limitations),
                kind = "terminal" <=> n = "assemble_terminal_report",
                kind # "none", closing = "terminal" => kind = "terminal"
         PROVE  Destiny'
    <2>1. /\ frontier = {n} /\ pending = {} /\ Due = {n}
          /\ frontier' = {} /\ pending' = {} /\ Due' = {}
          /\ UNCHANGED applicability
      BY <1>10 DEF Assemble, Runs, Visits, Due
    <2>2. report' = [kind |-> kind, limitations |-> limitations] /\ status' = closing
      BY <1>10 DEF Assemble
    <2>3. n = "assemble_terminal_report" <=> Stopped
      BY <2>1 DEF Destiny
    <2>4. Stopped' = Stopped
      BY <1>10, <2>1 DEF Assemble, Record, Stopped, GateFailed
    <2>5. QED
      BY <1>10, <2>1, <2>2, <2>3, <2>4 DEF Destiny
  <1>11. CASE Deliver
    BY <1>10, <1>11 DEF Deliver, AssembleValidatedReport, AssemblePartialReport,
       AssembleTerminalReport, Nodes, Branches
  <1>12. CASE Prepare
    BY <1>3, <1>4, <1>12 DEF Prepare, ValidateRequest, AcquireRepository, ProfileRepository
  <1>13. QED
    BY <1>1, <1>2, <1>8, <1>9, <1>11, <1>12 DEF Next, Step

(* The course of build_graph and routing.py for any findings, documents    *)
(* and answers of services: no node is triggered twice by the fan-in or    *)
(* the repair loop, everything after the join sees all three branches, and *)
(* only a gate or the choice of the pack ends in a terminal report.        *)
THEOREM CourseAlwaysSound == Spec => []CourseIsSound
  <1>1. Visits /\ Destiny => CourseIsSound
    <2> SUFFICES ASSUME Visits, Destiny PROVE CourseIsSound
      OBVIOUS
    <2>1. VisitedOnce /\ TerminalOnlyAtGates
      BY DEF Visits, Destiny, TerminalOnlyAtGates, Stopped
    <2>2. ASSUME executions["aggregate_analysis"] > 0 PROVE pending = {}
      <3>1. SUFFICES ASSUME NEW w \in pending PROVE FALSE
        OBVIOUS
      <3>2. w.node \in Branches /\ w.node \in Due
        BY <3>1 DEF Visits, FanIn, Due
      <3>3. Place(w.node, repair_count) = 4 /\ Rank("aggregate_analysis") = 5
        BY <3>2, Ranks DEF Place, Nodes, Branches, Validator
      <3>4. QED
        BY <2>2, <3>2, <3>3 DEF Visits, Fresh, Nodes, Validator
    <2>3. JoinIsComplete
      BY <2>2 DEF JoinIsComplete, Visits, FanIn
    <2>4. QED
      BY <2>1, <2>3 DEF CourseIsSound
  <1>2. Visits /\ Destiny /\ [Next]_vars => (Visits /\ Destiny)'
    BY VisitsStep, DestinyStep
  <1>3. QED
    BY InitVisits, <1>1, <1>2, PTL DEF Spec

-----------------------------------------------------------------------------
(* Plans and repairs.                                                      *)

Claims == ClaimsOver(Findings, Docs, TextsOver(Findings))

Narrows(repair, claim) == repair.cites \subseteq claim.cites /\ repair.docs \subseteq claim.docs

Cited(p) == \A c \in ClaimsOf(p) : p[c].cites # {} /\ p[c].docs # {}

LEMMA PlanApart == \A p : IsPlan(p) => p # NoPlan /\ ClaimsOf(p) = DOMAIN p
  BY PlanAssumption DEF IsPlan, PlansOf, ClaimsOf

(* A repair narrows the citations of its claims and drops none of them     *)
(* altogether, an empty list meaning all.                                  *)
LEMMA RepairedClaims ==
    ASSUME NEW p, NEW r, IsPlan(p), IsPlan(r), DOMAIN r \subseteq DOMAIN p,
           \A c \in DOMAIN r : Narrows(r[c], p[c])
    PROVE  /\ IsPlan(RepairedPlan(p, r)) /\ DOMAIN RepairedPlan(p, r) = DOMAIN p
           /\ \A c \in DOMAIN p : /\ Narrows(RepairedPlan(p, r)[c], p[c])
                                  /\ p[c].cites # {} => RepairedPlan(p, r)[c].cites # {}
                                  /\ p[c].docs # {} => RepairedPlan(p, r)[c].docs # {}
  <1> DEFINE q == RepairedPlan(p, r)
  <1>1. q = [c \in DOMAIN p |-> IF c \in DOMAIN r THEN Repaired(p[c], r[c]) ELSE p[c]]
    BY PlanApart DEF RepairedPlan
  <1>2. DOMAIN q = DOMAIN p
    BY <1>1
  <1>3. ASSUME NEW c \in DOMAIN p
        PROVE  /\ q[c] \in Claims /\ Narrows(q[c], p[c])
               /\ p[c].cites # {} => q[c].cites # {}
               /\ p[c].docs # {} => q[c].docs # {}
    <2>1. p[c] \in Claims
      BY DEF IsPlan, Claims
    <2>2. CASE c \notin DOMAIN r
      <3>1. q[c] = p[c]
        BY <1>1, <2>2
      <3>2. QED
        BY <2>1, <3>1 DEF Narrows
    <2>3. CASE c \in DOMAIN r
      <3>1. r[c] \in Claims /\ Narrows(r[c], p[c])
        BY <2>3 DEF IsPlan, Claims
      <3>2. q[c] = [cites |-> Kept(p[c].cites, r[c].cites), docs |-> Kept(p[c].docs, r[c].docs),
                    text |-> r[c].text]
        BY <1>1, <2>3 DEF Repaired
      <3>3. ASSUME NEW S, NEW T, T \subseteq S
            PROVE  Kept(S, T) \subseteq S /\ (S # {} => Kept(S, T) # {})
        BY <3>3 DEF Kept
      <3>4. /\ Kept(p[c].cites, r[c].cites) \subseteq p[c].cites
            /\ p[c].cites # {} => Kept(p[c].cites, r[c].cites) # {}
            /\ Kept(p[c].docs, r[c].docs) \subseteq p[c].docs
            /\ p[c].docs # {} => Kept(p[c].docs, r[c].docs) # {}
        BY <3>1, <3>3 DEF Narrows
      <3>5. /\ q[c].cites = Kept(p[c].cites, r[c].cites)
            /\ q[c].docs = Kept(p[c].docs, r[c].docs)
        BY <3>2
      <3>6. q[c] \in Claims
        BY <2>1, <3>1, <3>2, <3>4 DEF Claims, ClaimsOver
      <3>7. QED
        BY <3>4, <3>5, <3>6 DEF Narrows
    <2>4. QED
      BY <2>2, <2>3
  <1>4. IsPlan(q)
    BY <1>1, <1>2, <1>3 DEF IsPlan, Claims
  <1>5. QED
    BY <1>2, <1>3, <1>4

(* What the planner may answer are plans.                                  *)
LEMMA DraftsArePlans ==
    ASSUME findings \subseteq Findings, docs \subseteq Docs
    PROVE  \A p \in DefaultPlans \cup PlansOf(WellReferenced) : IsPlan(p)
  <1>1. WellReferenced \subseteq Claims
    <2>1. \A claim \in WellReferenced : claim \in Claims
      BY GraphAssumption DEF WellReferenced, ClaimsOver, Claims
    <2>2. QED
      BY <2>1
  <1>2. \A p \in PlansOf(WellReferenced) : IsPlan(p)
    BY <1>1 DEF PlansOf, IsPlan, Claims
  <1>3. ASSUME NEW d \in docs PROVE IsPlan(DefaultPlan(findings, d))
    <2>1. \A f \in findings : [cites |-> {f}, docs |-> {d}, text |-> Plainly(f)] \in Claims
      BY DEF Claims, ClaimsOver, TextsOver, Tones, Plainly
    <2>2. QED
      BY <2>1 DEF DefaultPlan, IsPlan, Claims
  <1>4. IsPlan([f \in {} |-> f])
    BY DEF IsPlan
  <1>5. QED
    BY <1>2, <1>3, <1>4 DEF DefaultPlans

(* What the critic may instruct are repairs of the claims it was given.    *)
LEMMA RepairsNarrow ==
    ASSUME findings \subseteq Findings, docs \subseteq Docs, IsPlan(plan),
           issues \subseteq DOMAIN plan,
           NEW r \in DefaultRepairs \cup ClientRepairs
    PROVE  /\ IsPlan(r) /\ DOMAIN r \subseteq DOMAIN plan
           /\ \A c \in DOMAIN r : Narrows(r[c], plan[c])
  <1>1. CASE r \in DefaultRepairs
    <2>1. PICK first \in [issues -> Findings] :
             r = [c \in issues |-> [cites |-> plan[c].cites, docs |-> plan[c].docs,
                                    text |-> Plainly(first[c])]]
      BY <1>1 DEF DefaultRepairs
    <2>2. ASSUME NEW c \in issues PROVE r[c] \in Claims /\ Narrows(r[c], plan[c])
      <3>1. plan[c] \in Claims /\ Plainly(first[c]) \in TextsOver(Findings)
        BY DEF IsPlan, Claims, Plainly, TextsOver, Tones
      <3>2. r[c] = [cites |-> plan[c].cites, docs |-> plan[c].docs, text |-> Plainly(first[c])]
        BY <2>1
      <3>3. QED
        BY <3>1, <3>2 DEF Claims, ClaimsOver, Narrows
    <2>3. QED
      BY <2>1, <2>2 DEF IsPlan, Claims
  <1>2. CASE r \in ClientRepairs
    <2>1. /\ DOMAIN r \subseteq issues /\ r \in [DOMAIN r -> ClaimsOver(findings, docs, Texts)]
          /\ \A c \in DOMAIN r : Narrows(r[c], plan[c])
      BY <1>2 DEF ClientRepairs, Narrows
    <2>2. ClaimsOver(findings, docs, Texts) \subseteq Claims
      <3>1. \A claim \in ClaimsOver(findings, docs, Texts) : claim \in Claims
        BY GraphAssumption DEF ClaimsOver, Claims
      <3>2. QED
        BY <3>1
    <2>3. QED
      BY <2>1, <2>2 DEF IsPlan, Claims
  <1>3. QED
    BY <1>1, <1>2

-----------------------------------------------------------------------------
(* The types, and what a repair meets.  Claims are named in issues only    *)
(* from the validator on, so planning never leaves issues of another plan; *)
(* the critic is asked only about plans that cite, and what it instructs   *)
(* narrows the plan that repair_plan finds.                                *)

Late == {Validator, "evidence_critic", "repair_plan", "assemble_validated_report",
         "assemble_partial_report", "assemble_terminal_report"}

Drafts ==
    /\ plan = NoPlan \/ IsPlan(plan)
    /\ IsPlan(repairs)
    /\ issues \subseteq ClaimsOf(plan)
    /\ issues # {} => frontier \subseteq Late /\ pending = {}
    /\ frontier \cap {"evidence_critic", "repair_plan"} # {} => Cited(plan)
    /\ "repair_plan" \in frontier =>
          /\ DOMAIN repairs \subseteq ClaimsOf(plan)
          /\ \A c \in DOMAIN repairs : Narrows(repairs[c], plan[c])

Fields ==
    /\ pending \subseteq [node : Branches, failed : BOOLEAN, findings : SUBSET Findings]
    /\ status \in {"pending", "running", "completed", "partial", "terminal"}
    /\ applicability \in {"SUPPORTED", "PROBABLE_NEEDS_REVIEW", "NOT_APPLICABLE",
                          "UNSUPPORTED", "ERROR"}
    /\ findings \subseteq Findings /\ docs \subseteq Docs
    /\ risk \in {"none", "ok", "capped"}
    /\ outcome \in {"not_run", "pass", "repairable", "structural_failure"}
    /\ errors \subseteq Nodes
    /\ report \in [kind : {"none", "validated", "partial", "terminal"},
                   limitations : SUBSET Nodes]
    /\ raised \in BOOLEAN

LEMMA InitTyped == Init => Drafts /\ Fields
  <1> SUFFICES ASSUME Init PROVE Drafts /\ Fields
    OBVIOUS
  <1>1. IsPlan(NoRepairs) /\ ClaimsOf(NoPlan) = {}
    BY DEF IsPlan, NoRepairs, ClaimsOf
  <1>2. Drafts
    BY <1>1 DEF Init, Drafts
  <1>3. QED
    BY <1>2 DEF Init, Fields

LEMMA NoDraft ==
    ASSUME Drafts, UNCHANGED <<plan, repairs, issues>>,
           frontier' \cap {"evidence_critic", "repair_plan"} = {},
           issues # {} => frontier' \subseteq Late /\ pending' = {}
    PROVE  Drafts'
  BY DEF Drafts

(* A node before the validator finds no issues.                            *)
LEMMA NoIssues ==
    ASSUME Drafts, NEW n \in Nodes \ Late, n \in Due
    PROVE  issues = {}
  BY DEF Drafts, Due

LEMMA DraftsStep ==
    ASSUME Visits, Fields, Drafts, [Next]_vars
    PROVE  Drafts'
  <1> USE DEF verdict, drafting, evidence
  <1>1. CASE UNCHANGED vars
    <2>1. UNCHANGED <<plan, repairs, issues, frontier, pending>>
      BY <1>1 DEF vars
    <2>2. QED
      BY <2>1 DEF Drafts, Cited, ClaimsOf
  <1>2. CASE Raise
    BY <1>2, NoDraft DEF Raise
  <1>3. CASE Prepare
    <2>1. PICK n \in Nodes \ Late : n \in Due
      BY <1>3 DEF Prepare, ValidateRequest, AcquireRepository, ProfileRepository, Gate,
         SelectMigrationPack, Runs, Due, Nodes, Late, Branches, Validator
    <2>2. issues = {}
      BY <2>1, NoIssues
    <2>3. /\ UNCHANGED <<plan, repairs, issues>>
          /\ frontier' \cap {"evidence_critic", "repair_plan"} = {}
      BY <1>3 DEF Prepare, ValidateRequest, AcquireRepository, ProfileRepository, Gate,
         SelectMigrationPack, UnlessTerminal, Branches
    <2>4. QED
      BY <2>2, <2>3, NoDraft
  <1>4. CASE Analyze
    <2>1. \E n \in Nodes \ Late : n \in Due
      <3>1. CASE Join
        BY <3>1, Joining DEF Nodes, Late, Branches, Validator
      <3>2. CASE ~Join
        BY <1>4, <3>2 DEF Analyze, Branch, AggregateAnalysis, DocumentationResearch,
           CalculateRisk, Runs, Due, Nodes, Late, Branches, Validator
      <3>3. QED
        BY <3>1, <3>2
    <2>2. issues = {}
      BY <2>1, NoIssues
    <2>3. ASSUME NEW n \in Branches, Branch(n)
          PROVE  /\ UNCHANGED <<plan, repairs, issues>>
                 /\ frontier' \cap {"evidence_critic", "repair_plan"} = {}
      BY <2>3 DEF Branch, Runs, Visits, Branches
    <2>4. /\ UNCHANGED <<plan, repairs, issues>>
          /\ frontier' \cap {"evidence_critic", "repair_plan"} = {}
      BY <1>4, <2>3 DEF Analyze, Join, AggregateAnalysis, DocumentationResearch, CalculateRisk,
         UnlessTerminal
    <2>5. QED
      BY <2>2, <2>4, NoDraft
  <1>5. CASE CompatibilityInterpretation
    <2>1. issues = {}
      BY <1>5, NoIssues DEF CompatibilityInterpretation, Runs, Due, Nodes, Late, Validator
    <2>2. QED
      BY <1>5, <2>1, NoDraft DEF CompatibilityInterpretation, UnlessTerminal
  <1>6. CASE MigrationPlanning
    <2>1. issues = {}
      BY <1>6, NoIssues DEF MigrationPlanning, Runs, Due, Nodes, Late, Validator
    <2>2. UNCHANGED <<repairs, issues>> /\ frontier' \cap {"evidence_critic", "repair_plan"} = {}
      BY <1>6 DEF MigrationPlanning, UnlessTerminal
    <2>3. plan' = NoPlan \/ IsPlan(plan')
      BY <1>6, DraftsArePlans DEF MigrationPlanning, Fields
    <2>4. QED
      BY <2>1, <2>2, <2>3 DEF Drafts
  <1>7. CASE DeterministicEvidenceValidator
    <2>1. PICK packFound \in BOOLEAN :
             /\ outcome' = Outcome(plan, packFound)
             /\ issues' = IF packFound THEN RepairableClaims(plan) ELSE {}
      BY <1>7 DEF DeterministicEvidenceValidator
    <2>2. /\ UNCHANGED <<plan, repairs, pending>> /\ frontier' = AfterValidation(outcome', repair_count)
          /\ pending = {}
      BY <1>7 DEF DeterministicEvidenceValidator, Runs, Visits, Branches
    <2>3. issues' \subseteq ClaimsOf(plan)
      BY <2>1 DEF RepairableClaims
    <2>4. frontier' \subseteq Late /\ "repair_plan" \notin frontier'
      BY <2>2 DEF AfterValidation, Late
    <2>5. ASSUME "evidence_critic" \in frontier' PROVE Cited(plan)
      <3>1. ~StructuralIssue(plan)
        BY <2>1, <2>2, <2>5 DEF AfterValidation, Outcome
      <3>2. QED
        BY <3>1 DEF StructuralIssue, BadlyCited, Cited
    <2>6. QED
      BY <2>2, <2>3, <2>4, <2>5 DEF Drafts, Cited, ClaimsOf
  <1>8. CASE EvidenceCritic
    <2>1. /\ UNCHANGED <<plan, issues, pending>> /\ frontier' = {"repair_plan"}
          /\ frontier = {"evidence_critic"} /\ pending = {}
      BY <1>8 DEF EvidenceCritic, Runs, Visits, Branches
    <2>2. Cited(plan)
      BY <2>1 DEF Drafts
    <2>3. /\ IsPlan(repairs') /\ DOMAIN repairs' \subseteq ClaimsOf(plan)
          /\ \A c \in DOMAIN repairs' : Narrows(repairs'[c], plan[c])
      <3>1. CASE repairs' = NoRepairs
        BY <3>1 DEF NoRepairs, IsPlan
      <3>2. CASE issues # {} /\ repairs' \in DefaultRepairs \cup ClientRepairs
        <4>1. IsPlan(plan) /\ ClaimsOf(plan) = DOMAIN plan
          BY <3>2, PlanApart DEF Drafts, ClaimsOf
        <4>2. QED
          BY <3>2, <4>1, RepairsNarrow DEF Fields, Drafts
      <3>3. QED
        BY <1>8, <3>1, <3>2 DEF EvidenceCritic
    <2>4. QED
      BY <2>1, <2>2, <2>3 DEF Drafts, Cited, ClaimsOf, Late
  <1>9. CASE RepairPlan
    <2>1. /\ UNCHANGED <<repairs, issues, pending>> /\ frontier' = {Validator}
          /\ frontier = {"repair_plan"} /\ pending = {}
          /\ plan' = RepairedPlan(plan, repairs)
      BY <1>9 DEF RepairPlan, Runs, Visits, Branches, Validator
    <2>2. CASE plan = NoPlan
      <3>1. plan' = plan
        BY <2>1, <2>2 DEF RepairedPlan
      <3>2. QED
        BY <2>1, <3>1, NoDraft DEF Late, Validator
    <2>3. CASE plan # NoPlan
      <3>1. IsPlan(plan) /\ ClaimsOf(plan) = DOMAIN plan
        BY <2>3, PlanApart DEF Drafts
      <3>2. IsPlan(plan') /\ DOMAIN plan' = DOMAIN plan
        BY <2>1, <3>1, RepairedClaims DEF Drafts
      <3>3. ClaimsOf(plan') = ClaimsOf(plan)
        BY <3>1, <3>2, PlanApart
      <3>4. QED
        BY <2>1, <3>2, <3>3 DEF Drafts, Late, Validator
    <2>4. QED
      BY <2>2, <2>3
  <1>10. CASE Deliver
    BY <1>10, NoDraft DEF Deliver, AssembleValidatedReport, AssemblePartialReport,
       AssembleTerminalReport, Assemble, Runs, Visits, Drafts
  <1>11. QED
    BY <1>1, <1>2, <1>3, <1>4, <1>5, <1>6, <1>7, <1>8, <1>9, <1>10 DEF Next, Step, Draft

LEMMA FieldsStep ==
    ASSUME Visits, Fields, [Next]_vars
    PROVE  Fields'
  <1> USE DEF verdict, drafting, evidence
  <1>1. CASE UNCHANGED vars \/ Raise
    BY <1>1 DEF vars, Raise, Fields
  <1>2. CASE Prepare
    <2>1. ASSUME NEW n \in Nodes, NEW m, Gate(n, m) PROVE Fields'
      BY <2>1 DEF Gate, Record, Fields
    <2>2. CASE SelectMigrationPack
      <3>1. PICK answer \in PackAnswers :
               applicability' = answer.status /\ Record("select_migration_pack", answer.failed)
        BY <2>2 DEF SelectMigrationPack
      <3>2. applicability' \in {"SUPPORTED", "PROBABLE_NEEDS_REVIEW", "NOT_APPLICABLE",
                               "UNSUPPORTED", "ERROR"}
        BY <3>1 DEF PackAnswers
      <3>3. errors' = errors \/ errors' = errors \cup {"select_migration_pack"}
        BY <3>1 DEF Record
      <3>4. UNCHANGED <<pending, status, findings, docs, risk, outcome, report, raised>>
        BY <2>2 DEF SelectMigrationPack
      <3>5. QED
        BY <3>2, <3>3, <3>4 DEF Fields, Nodes
    <2>3. QED
      BY <1>2, <2>1, <2>2 DEF Prepare, ValidateRequest, AcquireRepository, ProfileRepository, Nodes
  <1>3. CASE Analyze
    <2>1. ASSUME NEW n \in Branches, Branch(n) PROVE Fields'
      BY <2>1 DEF Branch, Fields
    <2>2. CASE Join
      BY <2>2 DEF Join, Fields, Nodes
    <2>3. CASE AggregateAnalysis
      BY <2>3 DEF AggregateAnalysis, Record, Fields, Nodes
    <2>4. CASE DocumentationResearch
      BY <2>4 DEF DocumentationResearch, Record, Fields, Nodes
    <2>5. CASE CalculateRisk
      BY <2>5 DEF CalculateRisk, Record, Fields, Nodes
    <2>6. QED
      BY <1>3, <2>1, <2>2, <2>3, <2>4, <2>5 DEF Analyze
  <1>4. CASE Draft
    <2>1. UNCHANGED <<pending, status, applicability, findings, docs, risk, report, raised>>
      BY <1>4 DEF Draft, CompatibilityInterpretation, MigrationPlanning,
         DeterministicEvidenceValidator, EvidenceCritic, RepairPlan
    <2>2. \E n \in Nodes, failed \in BOOLEAN : Record(n, failed)
      BY <1>4 DEF Draft, CompatibilityInterpretation, MigrationPlanning,
         DeterministicEvidenceValidator, EvidenceCritic, RepairPlan, Nodes
    <2>3. outcome' \in {"not_run", "pass", "repairable", "structural_failure"}
      BY <1>4 DEF Draft, CompatibilityInterpretation, MigrationPlanning,
         DeterministicEvidenceValidator, EvidenceCritic, RepairPlan, Outcome, Fields
    <2>4. QED
      BY <2>1, <2>2, <2>3 DEF Fields, Record
  <1>5. CASE Deliver
    <2>1. ASSUME NEW n \in Nodes, NEW kind \in {"validated", "partial", "terminal"},
                 NEW closing \in {"completed", "partial", "terminal"},
                 NEW limitations \in SUBSET Nodes, Assemble(n, kind, closing, limitations)
          PROVE  Fields'
      BY <2>1 DEF Assemble, Record, Fields
    <2>2. errors \cup (IF outcome = "pass" THEN {} ELSE {Validator}) \in SUBSET Nodes
      BY DEF Fields, Nodes, Validator
    <2>3. QED
      BY <1>5, <2>1, <2>2 DEF Deliver, AssembleValidatedReport, AssemblePartialReport,
         AssembleTerminalReport, Nodes, Fields, Validator
  <1>6. QED
    BY <1>1, <1>2, <1>3, <1>4, <1>5 DEF Next, Step

Typed == Visits /\ Fields /\ Drafts

LEMMA TypedAlways == Spec => []Typed
  <1>1. Init => Typed
    BY InitVisits, InitTyped DEF Typed
  <1>2. Typed /\ [Next]_vars => Typed'
    BY VisitsStep, DraftsStep, FieldsStep DEF Typed
  <1>3. QED
    BY <1>1, <1>2, PTL DEF Spec

(* Every field of UpgradePilotState holds what its writers may put there,  *)
(* also when a plan was repaired: claims stay named after findings, issues *)
(* name claims of the plan, and nothing counts beyond its bound.           *)
THEOREM TypeCorrect == Spec => []TypeOK
  <1>1. Typed => TypeOK
    BY DEF Typed, Visits, Fields, Drafts, TypeOK, Branches, Nodes
  <1>2. QED
    BY <1>1, TypedAlways, PTL

(* _apply_repair_instructions never adds a claim or a citation and never   *)
(* leaves a claim without one, whatever the critic or its client answers.  *)
THEOREM RepairsOnlyNarrow == Spec => RepairAddsNoEvidence
  <1>1. ASSUME Typed, [Next]_vars, repair_count' # repair_count
        PROVE  /\ ClaimsOf(plan') = ClaimsOf(plan)
               /\ \A c \in ClaimsOf(plan) :
                     /\ plan'[c].cites \subseteq plan[c].cites /\ plan'[c].cites # {}
                     /\ plan'[c].docs \subseteq plan[c].docs /\ plan'[c].docs # {}
    <2>1. RepairPlan
      BY <1>1 DEF Next, Step, Prepare, Analyze, Draft, Deliver, vars, Raise, ValidateRequest,
         AcquireRepository, ProfileRepository, Gate, SelectMigrationPack, Branch, Join,
         AggregateAnalysis, DocumentationResearch, CalculateRisk, CompatibilityInterpretation,
         MigrationPlanning, DeterministicEvidenceValidator, EvidenceCritic,
         AssembleValidatedReport, AssemblePartialReport, AssembleTerminalReport, Assemble, drafting
    <2>2. /\ plan' = RepairedPlan(plan, repairs) /\ "repair_plan" \in frontier
      BY <2>1 DEF RepairPlan, Runs
    <2>3. CASE plan = NoPlan
      BY <2>2, <2>3 DEF RepairedPlan, ClaimsOf
    <2>4. CASE plan # NoPlan
      <3>1. IsPlan(plan) /\ IsPlan(repairs) /\ ClaimsOf(plan) = DOMAIN plan
        BY <1>1, <2>4, PlanApart DEF Typed, Drafts
      <3>2. /\ DOMAIN repairs \subseteq DOMAIN plan
            /\ \A c \in DOMAIN repairs : Narrows(repairs[c], plan[c])
        BY <1>1, <2>2, <3>1 DEF Typed, Drafts
      <3>3. /\ IsPlan(plan') /\ DOMAIN plan' = DOMAIN plan
            /\ \A c \in DOMAIN plan : /\ Narrows(plan'[c], plan[c])
                                      /\ plan[c].cites # {} => plan'[c].cites # {}
                                      /\ plan[c].docs # {} => plan'[c].docs # {}
        BY <2>2, <3>1, <3>2, RepairedClaims
      <3>4. ClaimsOf(plan') = DOMAIN plan
        BY <3>3, PlanApart
      <3>5. Cited(plan)
        BY <1>1, <2>2 DEF Typed, Drafts
      <3>6. ASSUME NEW c \in ClaimsOf(plan)
            PROVE  /\ plan'[c].cites \subseteq plan[c].cites /\ plan'[c].cites # {}
                   /\ plan'[c].docs \subseteq plan[c].docs /\ plan'[c].docs # {}
        <4>1. plan[c].cites # {} /\ plan[c].docs # {}
          BY <3>5, <3>6 DEF Cited
        <4>2. /\ Narrows(plan'[c], plan[c])
              /\ plan[c].cites # {} => plan'[c].cites # {}
              /\ plan[c].docs # {} => plan'[c].docs # {}
          BY <3>1, <3>3, <3>6
        <4>3. QED
          BY <4>1, <4>2 DEF Narrows
      <3>7. QED
        BY <3>1, <3>4, <3>6
    <2>5. QED
      BY <2>3, <2>4
  <1>2. Typed /\ [Next]_vars => (repair_count' # repair_count =>
          /\ ClaimsOf(plan') = ClaimsOf(plan)
          /\ \A c \in ClaimsOf(plan) :
                /\ plan'[c].cites \subseteq plan[c].cites /\ plan'[c].cites # {}
                /\ plan'[c].docs \subseteq plan[c].docs /\ plan'[c].docs # {})
    BY <1>1
  <1>3. QED
    BY <1>2, TypedAlways, PTL DEF Spec, RepairAddsNoEvidence

-----------------------------------------------------------------------------
(* The end of a run: it ends with a report or an exception, and its status *)
(* is that of the report.                                                  *)
Ending ==
    /\ report.kind = "validated" <=> status = "completed"
    /\ report.kind = "partial" <=> status = "partial"
    /\ report.kind = "terminal" => status = "terminal"
    /\ report.kind = "none" /\ ~raised => Due # {}

LEMMA InitEnding == Init => Ending
  BY DEF Init, Ending, Due

LEMMA EndingStep ==
    ASSUME Visits, Destiny, Ending, [Next]_vars
    PROVE  /\ Ending'
           /\ status \in {"completed", "partial", "terminal"} => status' = status
  <1> DEFINE Stays == status \in {"completed", "partial", "terminal"} => status' = status
  <1>1. CASE UNCHANGED vars
    <2>1. UNCHANGED <<frontier, pending, status, report, raised>>
      BY <1>1 DEF vars
    <2>2. QED
      BY <2>1 DEF Ending, Due
  <1>2. CASE Raise
    BY <1>2 DEF Raise, Ending
  <1>3. ASSUME report.kind = "none", UNCHANGED <<report, raised>>, Due' # {},
               status' \in {status, "running", "terminal"},
               status' # status => ~Stopped
        PROVE  Ending' /\ Stays
    BY <1>3 DEF Ending, Destiny
  <1>4. ASSUME Step PROVE report.kind = "none"
    BY <1>4 DEF Step, Prepare, Analyze, Draft, Deliver, ValidateRequest, AcquireRepository,
       ProfileRepository, Gate, SelectMigrationPack, Branch, Join, AggregateAnalysis,
       DocumentationResearch, CalculateRisk, CompatibilityInterpretation, MigrationPlanning,
       DeterministicEvidenceValidator, EvidenceCritic, RepairPlan, AssembleValidatedReport,
       AssemblePartialReport, AssembleTerminalReport, Assemble, Runs, Destiny
  <1>5. CASE Prepare
    <2>1. /\ UNCHANGED <<report, raised>> /\ frontier' # {}
          /\ status' \in {status, "running", "terminal"}
      BY <1>5 DEF Prepare, ValidateRequest, AcquireRepository, ProfileRepository, Gate,
         SelectMigrationPack, UnlessTerminal, Branches
    <2>2. ~Stopped
      BY <1>5 DEF Prepare, ValidateRequest, AcquireRepository, ProfileRepository, Gate,
         SelectMigrationPack, Runs, Due, Destiny
    <2>3. report.kind = "none" /\ Due' # {}
      BY <1>4, <1>5, <2>1 DEF Step, Due
    <2>4. QED
      BY <1>3, <2>1, <2>2, <2>3
  <1>6. CASE Analyze
    <2>1. UNCHANGED <<report, raised, status>>
      BY <1>6 DEF Analyze, Branch, Join, AggregateAnalysis, DocumentationResearch, CalculateRisk
    <2>2. ASSUME NEW n \in Branches, Branch(n) PROVE Due' # {}
      BY <2>2, Returning DEF Branch, Runs, Due
    <2>3. Due' # {}
      BY <1>6, <2>2 DEF Analyze, Join, AggregateAnalysis, DocumentationResearch, CalculateRisk,
         UnlessTerminal, Due
    <2>4. QED
      BY <1>3, <1>4, <1>6, <2>1, <2>3 DEF Step
  <1>7. CASE Draft
    <2>1. UNCHANGED <<report, raised, status>> /\ frontier' # {}
      BY <1>7 DEF Draft, CompatibilityInterpretation, MigrationPlanning,
         DeterministicEvidenceValidator, EvidenceCritic, RepairPlan, UnlessTerminal,
         AfterValidation
    <2>2. Due' # {}
      BY <2>1 DEF Due
    <2>3. QED
      BY <1>3, <1>4, <1>7, <2>1, <2>2 DEF Step
  <1>8. CASE Deliver
    <2>1. ASSUME NEW n, NEW kind, NEW closing, NEW limitations,
                 Assemble(n, kind, closing, limitations),
                 \/ n = "assemble_validated_report" /\ kind = "validated" /\ closing = "completed"
                 \/ n = "assemble_partial_report" /\ kind = "partial" /\ closing = "partial"
                 \/ n = "assemble_terminal_report" /\ kind = "terminal" /\ closing = "terminal"
          PROVE  Ending' /\ Stays
      <3>1. report' = [kind |-> kind, limitations |-> limitations] /\ status' = closing
        BY <2>1 DEF Assemble
      <3>2. report.kind = "none" /\ n \in Due
        BY <2>1 DEF Assemble, Runs, Due, Destiny
      <3>3. status \in {"completed", "partial", "terminal"} => status' = status
        BY <2>1, <3>1, <3>2 DEF Ending, Destiny
      <3>4. QED
        BY <2>1, <3>1, <3>3 DEF Ending
    <2>2. QED
      BY <1>8, <2>1 DEF Deliver, AssembleValidatedReport, AssemblePartialReport,
         AssembleTerminalReport
  <1>9. QED
    BY <1>1, <1>2, <1>5, <1>6, <1>7, <1>8 DEF Next, Step

-----------------------------------------------------------------------------
(* Behind the API: what holds of the graph at every point of a run.        *)
GraphInv == Typed /\ Destiny /\ Ending

(* The record of a run that is under way or was before it began; after the *)
(* end the record is all that is left.                                     *)
Follows ==
    /\ shown = report.kind
    /\ phase \in {"none", "created", "refused"} => status = "pending" /\ recorded = "pending"
    /\ phase \in {"running", "failing"} => recorded = IF status = "pending" THEN "running" ELSE status
    /\ phase \in {"none", "created", "running"} => ~raised

(* What stands when the task has ended.                                    *)
Ended ==
    phase = "ended" =>
        /\ recorded \in {"completed", "partial", "terminal", "failed"}
        /\ recorded # "failed" => recorded = status /\ report.kind # "none"
        /\ \/ history \in {"none", "running", recorded}
           \/ recorded = "failed" /\ history = status /\ report.kind # "none"

Unsettled == phase # "ended" => history \in {"none", "running"}

(* What a stream was told, before and after the end.                       *)
Closed ==
    /\ told \in TerminalStatuses => recorded \in {told, "failed"}
    /\ told = "failed" => phase = "ended"
    /\ told \in {"completed", "partial", "failed"} => sent = Len(events)

ApiInv == GraphInv /\ ApiTypeOK /\ Follows /\ Ended /\ Unsettled /\ Closed

-----------------------------------------------------------------------------

LEMMA GraphSteps ==
    ASSUME [ApiNext]_apiVars
    PROVE  [Next]_vars
  <1>1. CASE UNCHANGED apiVars
    BY <1>1 DEF apiVars
  <1>2. CASE ApiNext
    BY <1>2 DEF ApiNext, Create, Task, Start, Forward, Settle, HandleFailure, RunFails,
       PersistFindings, OpenStream, Poll, Next
  <1>3. QED
    BY <1>1, <1>2

LEMMA GraphKept ==
    ASSUME GraphInv, [ApiNext]_apiVars
    PROVE  GraphInv'
  <1>1. [Next]_vars
    BY GraphSteps
  <1>2. QED
    BY <1>1, VisitsStep, FieldsStep, DraftsStep, DestinyStep, EndingStep DEF GraphInv, Typed

LEMMA ApiInitial == ApiInit => ApiInv
  <1> SUFFICES ASSUME ApiInit PROVE ApiInv
    OBVIOUS
  <1>1. GraphInv
    BY InitVisits, InitTyped, InitEnding DEF ApiInit, GraphInv, Typed
  <1>2. ApiTypeOK
    BY DEF ApiInit, ApiTypeOK
  <1>3. QED
    BY <1>1, <1>2 DEF ApiInit, Init, ApiInv, Follows, Ended, Unsettled, Closed, TerminalStatuses

(* A run that the record calls completed or partial has no node left.      *)
LEMMA NothingDue ==
    ASSUME GraphInv, status \in {"completed", "partial"}
    PROVE  ~Step
  <1>1. frontier = {} /\ pending = {}
    BY DEF GraphInv, Ending, Destiny
  <1>2. QED
    BY <1>1 DEF Step, Prepare, Analyze, Draft, Deliver, ValidateRequest, AcquireRepository,
       ProfileRepository, Gate, SelectMigrationPack, Branch, Join, AggregateAnalysis,
       DocumentationResearch, CalculateRisk, CompatibilityInterpretation, MigrationPlanning,
       DeterministicEvidenceValidator, EvidenceCritic, RepairPlan, AssembleValidatedReport,
       AssemblePartialReport, AssembleTerminalReport, Assemble, Runs

(* The steps that leave graph and record alone.                            *)
LEMMA Besides ==
    ASSUME ApiInv, GraphInv', ApiTypeOK', UNCHANGED <<vars, phase, record, history>>,
           UNCHANGED stream \/ OpenStream \/ Poll
    PROVE  ApiInv'
  <1>1. UNCHANGED <<phase, recorded, shown, events, history, status, report, raised>>
    BY DEF vars, record
  <1>2. Follows' /\ Ended' /\ Unsettled'
    BY <1>1 DEF ApiInv, Follows, Ended, Unsettled
  <1>3. Closed'
    <2>1. CASE UNCHANGED stream
      BY <1>1, <2>1 DEF ApiInv, Closed, stream
    <2>2. CASE OpenStream
      BY <2>2 DEF OpenStream, Closed, TerminalStatuses
    <2>3. CASE Poll
      <3>1. recorded = "failed" => phase = "ended"
        BY DEF ApiInv, GraphInv, Typed, Fields, Follows, ApiTypeOK
      <3>2. QED
        BY <1>1, <2>3, <3>1 DEF Poll, Closed, TerminalStatuses
    <2>4. QED
      BY <2>1, <2>2, <2>3
  <1>4. QED
    BY <1>2, <1>3 DEF ApiInv

-----------------------------------------------------------------------------
LEMMA StreamedNodes == Streamed \subseteq Nodes
  BY DEF Streamed

LEMMA TypesKept ==
    ASSUME ApiInv, GraphInv', [ApiNext]_apiVars
    PROVE  ApiTypeOK'
  <1> USE DEF record, stream, TerminalStatuses
  <1>1. CASE UNCHANGED apiVars
    BY <1>1 DEF apiVars, ApiInv, ApiTypeOK
  <1>2. CASE Create \/ Start \/ PersistFindings \/ HandleFailure
    BY <1>2 DEF Create, Start, PersistFindings, HandleFailure, Written, ApiInv, ApiTypeOK
  <1>3. CASE RunFails
    BY <1>3 DEF RunFails, ApiInv, ApiTypeOK
  <1>4. CASE OpenStream \/ Poll
    <2>1. UNCHANGED <<phase, recorded, shown, failures, events, history, persisting>>
      BY <1>4 DEF OpenStream, Poll
    <2>2. Len(events) \in 0 .. Len(events)
      BY DEF ApiInv, ApiTypeOK
    <2>3. sent' \in 0 .. Len(events)
      BY <1>4, <2>2 DEF OpenStream, Poll, ApiInv, ApiTypeOK
    <2>4. told' \in {"absent", "open"} \cup TerminalStatuses
      BY <1>4 DEF OpenStream, Poll, ApiInv, ApiTypeOK
    <2>5. QED
      BY <2>1, <2>3, <2>4 DEF ApiInv, ApiTypeOK
  <1>5. CASE Settle
    <2>1. Settled(recorded, shown) \in TerminalStatuses
      BY DEF Settled, TerminalStatuses
    <2>2. /\ recorded' \in TerminalStatuses
          /\ history' \in {"none", "running"} \cup TerminalStatuses
      BY <1>5, <2>1 DEF Settle, Written, ApiInv, ApiTypeOK, TerminalStatuses
    <2>3. QED
      BY <1>5, <2>1, <2>2 DEF Settle, ApiInv, ApiTypeOK
  <1>6. CASE Forward
    <2>1. UNCHANGED <<phase, history, persisting, sent, told>>
      BY <1>6 DEF Forward
    <2>2. status' \in {"pending", "running", "completed", "partial", "terminal"}
      BY DEF GraphInv, Typed, Fields
    <2>3. recorded' \in {"pending", "running"} \cup TerminalStatuses
      BY <1>6, <2>2 DEF Forward, MergeUpdate, ApiInv, ApiTypeOK
    <2>4. shown' \in {"none", "validated", "partial", "terminal"}
      BY <1>6 DEF Forward, MergeUpdate, GraphInv, Typed, Fields
    <2>5. failures' \subseteq Nodes
      <3>1. NewFailures \subseteq Nodes
        <4>1. \A w \in pending' : w.node \in Nodes
          BY DEF GraphInv, Typed, Fields, Nodes
        <4>2. errors' \subseteq Nodes
          BY DEF GraphInv, Typed, Fields
        <4>3. QED
          BY <4>1, <4>2 DEF NewFailures
      <3>2. QED
        BY <1>6, <3>1 DEF Forward, MergeUpdate, ApiInv, ApiTypeOK
    <2>6. events' \in Seq(Nodes) /\ sent \in 0 .. Len(events')
      <3>1. CASE events' = events
        BY <3>1 DEF ApiInv, ApiTypeOK
      <3>2. ASSUME NEW n \in Streamed, events' = Append(events, n)
            PROVE  events' \in Seq(Nodes) /\ sent \in 0 .. Len(events')
        BY <3>2, StreamedNodes DEF ApiInv, ApiTypeOK
      <3>3. QED
        BY <1>6, <3>1, <3>2 DEF Forward, MergeUpdate
    <2>7. QED
      BY <2>1, <2>3, <2>4, <2>5, <2>6 DEF ApiInv, ApiTypeOK
  <1>7. QED
    BY <1>1, <1>2, <1>3, <1>4, <1>5, <1>6 DEF ApiNext, Task

LEMMA ApiInductive ==
    ASSUME ApiInv, [ApiNext]_apiVars
    PROVE  ApiInv'
  <1> USE DEF record, stream
  <1>1. GraphInv' /\ ApiTypeOK'
    BY GraphKept, TypesKept DEF ApiInv
  <1>2. CASE UNCHANGED apiVars
    <2>1. UNCHANGED <<vars, phase, record, history>> /\ UNCHANGED stream
      BY <1>2 DEF apiVars
    <2>2. QED
      BY <1>1, <2>1, Besides
  <1>3. CASE PersistFindings
    BY <1>1, <1>3, Besides DEF PersistFindings
  <1>4. CASE OpenStream \/ Poll
    <2>1. UNCHANGED <<vars, phase, record, history>>
      BY <1>4 DEF OpenStream, Poll
    <2>2. QED
      BY <1>1, <1>4, <2>1, Besides
  <1>5. CASE Create
    <2>1. UNCHANGED <<recorded, shown, events, sent, told, status, report, raised>>
      BY <1>5 DEF Create, vars
    <2>2. /\ phase = "none" /\ phase' \in {"created", "refused"}
          /\ history' \in {"none", "running"}
      BY <1>5 DEF Create
    <2>3. QED
      BY <1>1, <2>1, <2>2 DEF ApiInv, Follows, Ended, Unsettled, Closed
  <1>6. CASE Start
    <2>1. UNCHANGED <<shown, events, history, sent, told, status, report, raised>>
      BY <1>6 DEF Start, vars
    <2>2. phase = "created" /\ phase' = "running" /\ recorded' = "running"
      BY <1>6 DEF Start
    <2>3. told \notin TerminalStatuses
      BY <2>2 DEF ApiInv, Follows, Closed, TerminalStatuses
    <2>4. QED
      BY <1>1, <2>1, <2>2, <2>3 DEF ApiInv, Follows, Ended, Unsettled, Closed, TerminalStatuses
  <1>7. CASE Forward
    <2>1. /\ Step /\ phase = "running" /\ UNCHANGED <<phase, history, sent, told>>
          /\ recorded' = IF status' # status THEN status' ELSE recorded
          /\ shown' = report'.kind
      BY <1>7 DEF Forward, MergeUpdate
    <2>2. status \notin {"completed", "partial"}
      BY <2>1, NothingDue DEF ApiInv
    <2>3. status \in {"completed", "partial", "terminal"} => status' = status
      <3>1. [Next]_vars
        BY <2>1 DEF Next
      <3>2. QED
        BY <3>1, EndingStep DEF ApiInv, GraphInv, Typed
    <2>4. status \in {"pending", "running", "terminal"} /\ status' \in {status, "running",
             "completed", "partial", "terminal"}
      <3>1. status' \in {status, "running", "completed", "partial", "terminal"}
        BY <2>1 DEF Step, Prepare, Analyze, Draft, Deliver, ValidateRequest, AcquireRepository,
           ProfileRepository, Gate, SelectMigrationPack, Branch, Join, AggregateAnalysis,
           DocumentationResearch, CalculateRisk, CompatibilityInterpretation, MigrationPlanning,
           DeterministicEvidenceValidator, EvidenceCritic, RepairPlan, AssembleValidatedReport,
           AssemblePartialReport, AssembleTerminalReport, Assemble
      <3>2. QED
        BY <2>2, <3>1 DEF ApiInv, GraphInv, Typed, Fields
    <2>5. raised' = raised
      BY <2>1 DEF Step, Prepare, Analyze, Draft, Deliver, ValidateRequest, AcquireRepository,
         ProfileRepository, Gate, SelectMigrationPack, Branch, Join, AggregateAnalysis,
         DocumentationResearch, CalculateRisk, CompatibilityInterpretation, MigrationPlanning,
         DeterministicEvidenceValidator, EvidenceCritic, RepairPlan, AssembleValidatedReport,
         AssemblePartialReport, AssembleTerminalReport, Assemble
    <2>6. Follows'
      BY <2>1, <2>4, <2>5 DEF ApiInv, Follows
    <2>7. Closed'
      <3>1. told \in TerminalStatuses => told = "terminal" /\ recorded' = "terminal"
        BY <2>1, <2>3, <2>4 DEF ApiInv, Follows, Closed, TerminalStatuses
      <3>2. QED
        BY <2>1, <3>1 DEF Closed, TerminalStatuses
    <2>8. QED
      BY <1>1, <2>1, <2>6, <2>7 DEF ApiInv, Ended, Unsettled
  <1>8. CASE Settle
    <2>1. /\ phase = "running" /\ phase' = "ended" /\ frontier = {} /\ pending = {} /\ ~raised
          /\ UNCHANGED <<shown, events, sent, told, status, report, raised>>
      BY <1>8 DEF Settle, GraphEnded, vars
    <2>2. report.kind # "none"
      BY <2>1 DEF ApiInv, GraphInv, Ending, Due
    <2>3. status \in {"completed", "partial", "terminal"} /\ recorded = status
      BY <2>1, <2>2 DEF ApiInv, GraphInv, Ending, Typed, Fields, Follows
    <2>4. recorded' \in {recorded, "failed"}
      BY <1>8, <2>3 DEF Settle, Settled, TerminalStatuses
    <2>5. history' \in {"none", "running", recorded'} \/ (recorded' = "failed" /\ history' = status)
      <3>1. history \in {"none", "running"}
        BY <2>1 DEF ApiInv, Unsettled
      <3>2. QED
        BY <1>8, <2>3, <3>1 DEF Settle, Settled, Written, TerminalStatuses
    <2>6. QED
      BY <1>1, <2>1, <2>2, <2>3, <2>4, <2>5 DEF ApiInv, Follows, Ended, Unsettled, Closed, TerminalStatuses
  <1>9. CASE RunFails
    <2>1. /\ phase = "running" /\ phase' = "failing"
          /\ UNCHANGED <<recorded, shown, events, history, sent, told, status, report>>
      BY <1>9 DEF RunFails, Raise, vars
    <2>2. QED
      BY <1>1, <2>1 DEF ApiInv, Follows, Ended, Unsettled, Closed
  <1>10. CASE HandleFailure
    <2>1. /\ phase = "failing" /\ phase' = "ended" /\ recorded' = "failed"
          /\ UNCHANGED <<shown, events, sent, told, status, report>>
      BY <1>10 DEF HandleFailure, vars
    <2>2. history' \in {"none", "running", "failed"}
      <3>1. history \in {"none", "running"}
        BY <2>1 DEF ApiInv, Unsettled
      <3>2. QED
        BY <1>10, <3>1 DEF HandleFailure, Written
    <2>3. QED
      BY <1>1, <2>1, <2>2 DEF ApiInv, Follows, Ended, Unsettled, Closed, TerminalStatuses
  <1>11. QED
    BY <1>2, <1>3, <1>4, <1>5, <1>6, <1>7, <1>8, <1>9, <1>10 DEF ApiNext, Task

LEMMA ApiInvariance == ApiSpec => []ApiInv
  <1>1. ApiInv /\ [ApiNext]_apiVars => ApiInv'
    BY ApiInductive
  <1>2. QED
    BY ApiInitial, <1>1, PTL DEF ApiSpec

(* The record of STORE, its events and the position of a stream keep their *)
(* types; a stream is never ahead of the events.                           *)
THEOREM ApiTypeCorrect == ApiSpec => []ApiTypeOK
  <1>1. ApiInv => ApiTypeOK
    BY DEF ApiInv
  <1>2. QED
    BY <1>1, ApiInvariance, PTL

(* Whatever _run_analysis and its handler go through, with every write of  *)
(* the history row failing before its COMMIT, after it or not at all: the  *)
(* record, the report, what a stream was told and the history row tell one *)
(* story, but for a row that was committed by the call that raised.        *)
THEOREM EndAlwaysConsistent == ApiSpec => []EndIsConsistent
  <1>1. ApiInv => EndIsConsistent
    <2> SUFFICES ASSUME ApiInv PROVE EndIsConsistent
      OBVIOUS
    <2>1. ToldStatusStands
      BY DEF ApiInv, Closed, ToldStatusStands
    <2>2. /\ phase \in {"none", "created", "refused"} => recorded = "pending"
          /\ phase \in {"running", "failing"} => recorded \in {"running", status}
          /\ phase = "ended" => recorded = "failed" \/ (recorded = status /\ report.kind # "none")
          /\ shown = report.kind
      BY DEF ApiInv, Follows, Ended
    <2>3. /\ status = "completed" <=> report.kind = "validated"
          /\ status = "partial" <=> report.kind = "partial"
          /\ (status = "terminal" /\ report.kind # "none") => report.kind = "terminal"
      BY DEF ApiInv, GraphInv, Ending, Typed, Fields
    <2>4. phase \in {"none", "refused", "created", "running", "failing", "ended"}
      BY DEF ApiInv, ApiTypeOK
    <2>5. StatusHasReport
      BY <2>2, <2>3, <2>4 DEF StatusHasReport, HasReport
    <2>6. HistoryAgrees
      <3> SUFFICES ASSUME phase = "ended" PROVE HistoryAgrees
        BY DEF HistoryAgrees
      <3>1. \/ history \in {"none", "running"}
            \/ history = recorded
            \/ recorded = "failed" /\ history = status /\ report.kind # "none"
        BY DEF ApiInv, Ended
      <3>2. HasReport(history)
        BY <2>2, <2>3, <2>5, <3>1 DEF StatusHasReport, HasReport
      <3>3. QED
        BY <3>1, <3>2 DEF HistoryAgrees
    <2>7. QED
      BY <2>1, <2>5, <2>6 DEF EndIsConsistent
  <1>2. QED
    BY <1>1, ApiInvariance, PTL

(* A stream that _event_stream closed for a completed, partial or failed   *)
(* analysis has delivered every event, whenever it looked.                 *)
THEOREM ClosedAlwaysWhole == ApiSpec => []ClosedStreamIsWhole
  <1>1. ApiInv => ClosedStreamIsWhole
    BY DEF ApiInv, Closed, ClosedStreamIsWhole
  <1>2. QED
    BY <1>1, ApiInvariance, PTL

-----------------------------------------------------------------------------
(* The second copy of the state.                                           *)

Waiting(n) == Cardinality({w \in pending : w.node = n})

Replicated ==
    /\ failures = errors \cup {w.node : w \in {v \in pending : v.failed}}
    /\ \A n \in Nodes : Cardinality(EventsOf(n)) = executions[n] + Waiting(n)

LEMMA EventCounts ==
    ASSUME events \in Seq(Nodes), NEW n
    PROVE  IsFiniteSet(EventsOf(n)) /\ Cardinality(EventsOf(n)) \in Nat
  <1>1. EventsOf(n) \subseteq 1 .. Len(events) /\ Len(events) \in Nat
    BY DEF EventsOf
  <1>2. IsFiniteSet(1 .. Len(events))
    BY <1>1, FS_Interval
  <1>3. QED
    BY <1>1, <1>2, FS_Subset, FS_CardinalityType

(* STORE.add_event.                                                        *)
LEMMA EventAdded ==
    ASSUME events \in Seq(Nodes), NEW n \in Nodes, events' = Append(events, n)
    PROVE  /\ Cardinality(EventsOf(n)') = Cardinality(EventsOf(n)) + 1
           /\ \A m \in Nodes \ {n} : EventsOf(m)' = EventsOf(m)
  <1> DEFINE k == Len(events) + 1
  <1>1. /\ Len(events) \in Nat /\ DOMAIN events = 1 .. Len(events)
        /\ DOMAIN events' = 1 .. k /\ events'[k] = n
        /\ \A i \in 1 .. Len(events) : events'[i] = events[i]
    OBVIOUS
  <1>2. EventsOf(n)' = EventsOf(n) \cup {k} /\ k \notin EventsOf(n)
    BY <1>1 DEF EventsOf
  <1>3. Cardinality(EventsOf(n)') = Cardinality(EventsOf(n)) + 1
    BY <1>2, EventCounts, FS_AddElement
  <1>4. \A m \in Nodes \ {n} : EventsOf(m)' = EventsOf(m)
    BY <1>1 DEF EventsOf
  <1>5. QED
    BY <1>3, <1>4

(* A step is a branch's, the join, or that of a node that runs alone.      *)
LEMMA StepKinds ==
    ASSUME Visits, Step
    PROVE  \/ \E n \in Branches : Branch(n)
           \/ Join
           \/ /\ pending = {} /\ pending' = {}
              /\ \E n \in Nodes : \E failed : Record(n, failed)
  <1> USE DEF Runs, Visits, Nodes, Branches
  <1>1. ASSUME NEW n \in Nodes \ Branches, Runs(n), NEW failed, Record(n, failed), pending' = pending
        PROVE  /\ pending = {} /\ pending' = {}
               /\ \E m \in Nodes : \E bad : Record(m, bad)
    BY <1>1
  <1>2. CASE Prepare
    <2>1. ASSUME NEW n \in Nodes \ Branches, NEW m, Gate(n, m)
          PROVE  /\ pending = {} /\ pending' = {}
                 /\ \E k \in Nodes : \E bad : Record(k, bad)
      BY <1>1, <2>1 DEF Gate
    <2>2. CASE SelectMigrationPack
      BY <1>1, <2>2 DEF SelectMigrationPack
    <2>3. QED
      BY <1>2, <2>1, <2>2 DEF Prepare, ValidateRequest, AcquireRepository, ProfileRepository
  <1>3. CASE AggregateAnalysis \/ DocumentationResearch \/ CalculateRisk
    BY <1>1, <1>3 DEF AggregateAnalysis, DocumentationResearch, CalculateRisk
  <1>4. CASE Draft
    BY <1>1, <1>4 DEF Draft, CompatibilityInterpretation, MigrationPlanning,
       DeterministicEvidenceValidator, EvidenceCritic, RepairPlan
  <1>5. CASE Deliver
    BY <1>1, <1>5 DEF Deliver, AssembleValidatedReport, AssemblePartialReport,
       AssembleTerminalReport, Assemble
  <1>6. QED
    BY <1>2, <1>3, <1>4, <1>5 DEF Step, Analyze

LEMMA NoneWaiting ==
    ASSUME pending = {}
    PROVE  \A n \in Nodes : Waiting(n) = 0
  <1>1. ASSUME NEW n \in Nodes PROVE Waiting(n) = 0
    <2>1. {w \in pending : w.node = n} = {}
      OBVIOUS
    <2>2. QED
      BY <2>1, FS_EmptySet DEF Waiting
  <1>2. QED
    BY <1>1

(* A branch is streamed as it returns and recorded at the join.            *)
LEMMA BranchReplicated ==
    ASSUME Visits, Replicated, events \in Seq(Nodes), NEW n \in Branches, Branch(n), MergeUpdate
    PROVE  Replicated'
  <1>1. PICK w : w.node = n /\ pending' = pending \cup {w}
    BY DEF Branch
  <1>2. n \in frontier /\ n \in Nodes /\ UNCHANGED <<executions, errors>>
    BY DEF Branch, Runs, Nodes
  <1>3. pending' \ pending = {w} /\ {v \in pending : v.node = n} = {}
    BY <1>1, <1>2 DEF Visits, FanIn
  <1>4. Streamed = {n}
    BY <1>1, <1>2, <1>3 DEF Streamed, Visits
  <1>5. events' = Append(events, n)
    BY <1>4 DEF MergeUpdate
  <1>6. failures' = failures \cup {v.node : v \in {x \in {w} : x.failed}}
    BY <1>2, <1>3 DEF MergeUpdate, NewFailures
  <1>7. failures' = errors' \cup {v.node : v \in {x \in pending' : x.failed}}
    BY <1>1, <1>2, <1>6 DEF Replicated
  <1>8. Waiting(n) = 0 /\ Waiting(n)' = 1
    <2>1. {v \in pending' : v.node = n} = {w}
      BY <1>1, <1>3
    <2>2. QED
      BY <1>3, <2>1, FS_EmptySet, FS_Singleton DEF Waiting
  <1>9. \A m \in Nodes \ {n} : Waiting(m)' = Waiting(m)
    <2>1. ASSUME NEW m \in Nodes \ {n} PROVE Waiting(m)' = Waiting(m)
      <3>1. {v \in pending' : v.node = m} = {v \in pending : v.node = m}
        BY <1>1
      <3>2. QED
        BY <3>1 DEF Waiting
    <2>2. QED
      BY <2>1
  <1>10. executions[n] \in Nat
    BY <1>2 DEF Visits
  <1>11. \A m \in Nodes : Cardinality(EventsOf(m)') = executions'[m] + Waiting(m)'
    BY <1>2, <1>5, <1>8, <1>9, <1>10, EventAdded DEF Replicated
  <1>12. QED
    BY <1>7, <1>11 DEF Replicated

LEMMA JoinReplicated ==
    ASSUME Visits, Replicated, Join, MergeUpdate
    PROVE  Replicated'
  <1>1. /\ pending # {} /\ pending' = {}
        /\ errors' = errors \cup {w.node : w \in {v \in pending : v.failed}}
        /\ \A n \in Nodes : executions'[n] = executions[n] + Waiting(n)
    BY DEF Join, Waiting
  <1>2. Streamed = {} /\ NewFailures = {}
    BY <1>1 DEF Streamed, NewFailures
  <1>3. UNCHANGED <<events, failures>>
    BY <1>2 DEF MergeUpdate
  <1>4. failures' = errors' \cup {w.node : w \in {v \in pending' : v.failed}}
    BY <1>1, <1>3 DEF Replicated
  <1>5. \A n \in Nodes : Waiting(n)' = 0
    <2>1. ASSUME NEW n \in Nodes PROVE Waiting(n)' = 0
      <3>1. {w \in pending' : w.node = n} = {}
        BY <1>1
      <3>2. QED
        BY <3>1, FS_EmptySet DEF Waiting
    <2>2. QED
      BY <2>1
  <1>6. \A n \in Nodes : executions'[n] \in Nat
    BY VisitsStep DEF Visits, Next, Step, Analyze
  <1>7. \A n \in Nodes : Cardinality(EventsOf(n)') = executions'[n] + Waiting(n)'
    <2>1. ASSUME NEW n \in Nodes PROVE Cardinality(EventsOf(n)') = executions'[n] + Waiting(n)'
      <3>1. EventsOf(n)' = EventsOf(n)
        BY <1>3 DEF EventsOf
      <3>2. QED
        BY <1>1, <1>5, <1>6, <3>1 DEF Replicated
    <2>2. QED
      BY <2>1
  <1>8. QED
    BY <1>4, <1>7 DEF Replicated

LEMMA AloneReplicated ==
    ASSUME Visits, Visits', Replicated, events \in Seq(Nodes), pending = {}, pending' = {},
           NEW n \in Nodes, NEW failed, Record(n, failed), MergeUpdate
    PROVE  Replicated'
  <1>1. /\ executions' = [executions EXCEPT ![n] = @ + 1]
        /\ errors \subseteq errors'
    BY DEF Record
  <1>2. /\ executions'[n] = executions[n] + 1 /\ executions[n] \in Nat
        /\ \A m \in Nodes \ {n} : executions'[m] = executions[m] /\ executions[m] \in Nat
    BY <1>1 DEF Visits
  <1>3. Streamed = {n}
    BY <1>2 DEF Streamed
  <1>4. events' = Append(events, n)
    BY <1>3 DEF MergeUpdate
  <1>5. failures' = errors'
    BY <1>1 DEF MergeUpdate, NewFailures, Replicated
  <1>6. \A m \in Nodes : Waiting(m) = 0 /\ Waiting(m)' = 0
    <2>1. ASSUME NEW m \in Nodes PROVE Waiting(m) = 0 /\ Waiting(m)' = 0
      <3>1. {w \in pending : w.node = m} = {} /\ {w \in pending' : w.node = m} = {}
        OBVIOUS
      <3>2. QED
        BY <3>1, FS_EmptySet DEF Waiting
    <2>2. QED
      BY <2>1
  <1>7. \A m \in Nodes : Cardinality(EventsOf(m)') = executions'[m] + Waiting(m)'
    BY <1>2, <1>4, <1>6, EventAdded DEF Replicated
  <1>8. QED
    BY <1>5, <1>7 DEF Replicated

Replica == phase \in {"none", "created", "running"} => Replicated

LEMMA ReplicaInitial == ApiInit => Replica
  <1> SUFFICES ASSUME ApiInit PROVE Replicated
    BY DEF Replica
  <1>1. /\ pending = {} /\ failures = {} /\ errors = {} /\ events = <<>>
        /\ executions = [n \in Nodes |-> 0]
    BY DEF ApiInit, Init
  <1>2. \A n \in Nodes : Waiting(n) = 0
    BY <1>1, NoneWaiting
  <1>3. ASSUME NEW n \in Nodes PROVE Cardinality(EventsOf(n)) = 0
    <2>1. EventsOf(n) = {}
      BY <1>1 DEF EventsOf
    <2>2. QED
      BY <2>1, FS_EmptySet
  <1>4. QED
    BY <1>1, <1>2, <1>3 DEF Replicated

(* What _run_analysis merges of each streamed update is what the graph     *)
(* merges at the end of the super-step: STORE has the graph's errors and   *)
(* one event for every run of a node, whatever order branches return in.   *)
THEOREM ReplicaAlwaysAgrees == ApiSpec => []ReplicaAgrees
  <1>1. ASSUME ApiInv, Replica, [ApiNext]_apiVars PROVE Replica'
    <2>1. CASE Forward
      <3>1. /\ Step /\ MergeUpdate /\ phase = "running" /\ Visits /\ events \in Seq(Nodes)
        BY <1>1, <2>1 DEF Forward, ApiInv, GraphInv, Typed, ApiTypeOK
      <3>2. Replicated /\ Visits'
        BY <1>1, <3>1, VisitsStep DEF Replica, Next
      <3>3. Replicated'
        BY <3>1, <3>2, StepKinds, BranchReplicated, JoinReplicated, AloneReplicated
      <3>4. QED
        BY <3>3 DEF Replica
    <2>2. CASE UNCHANGED <<vars, failures, events>>
      <3>1. phase' \in {"none", "created", "running"} => phase \in {"none", "created", "running"}
        BY <1>1, <2>2 DEF ApiNext, Create, Task, Start, Forward, Settle, HandleFailure, RunFails,
           PersistFindings, OpenStream, Poll, apiVars
      <3>2. UNCHANGED <<pending, errors, executions, failures, events>>
        BY <2>2 DEF vars
      <3>3. QED
        BY <1>1, <3>1, <3>2 DEF Replica, Replicated, Waiting, EventsOf
    <2>3. CASE RunFails
      BY <2>3 DEF RunFails, Replica
    <2>4. QED
      BY <1>1, <2>1, <2>2, <2>3 DEF ApiNext, Create, Task, Start, Settle, HandleFailure,
         PersistFindings, OpenStream, Poll, apiVars, record
  <1>2. ApiInv /\ Replica /\ [ApiNext]_apiVars => Replica'
    BY <1>1
  <1>3. Replica => ReplicaAgrees
    BY DEF Replica, Replicated, ReplicaAgrees, Waiting
  <1>4. QED
    BY ApiInvariance, ReplicaInitial, <1>2, <1>3, PTL DEF ApiSpec

=============================================================================
