--------------------------- MODULE RepositoryScan ---------------------------
(***************************************************************************)
(* The facts an analysis of one repository collects, run after run, as the *)
(* worker drives them: the scan of its files beside the test and CI        *)
(* summary, the score, the validator's verdict on findings and score, and  *)
(* the delta to the latest completed run.  Between runs a file may change. *)
(*                                                                         *)
(* AnalysisGraph has the scan as one step; the findings rejected here are  *)
(* its Unsound ones, a rejected score is its "capped".                     *)
(***************************************************************************)
EXTENDS FindingEvidence, RiskScoring

CONSTANTS
    Files,     \* paths of the repository
    Contents,  \* Contents[f]: what f may contain
    MaxRuns    \* bound: runs over the repository

ASSUME ScanAssumption ==
    /\ IsFiniteSet(Files)
    /\ \A f \in Files : \A c \in Contents[f] : IsFile(c)
    /\ MaxRuns \in Nat \ {0}

VARIABLES
    repo,       \* repo[f]: the file at path f
    run,        \* number of the current run
    phase,
    todo,       \* files scan_workspace has not reached
    findings,
    unparsed,   \* syntax_error_files
    summary,    \* test_ci_summary
    risk,       \* risk_assessment
    rejected,   \* findings with an issue of the validator
    previous,   \* findings of the latest completed run, and its repository
    delta

vars == <<repo, run, phase, todo, findings, unparsed, summary, risk, rejected, previous, delta>>

NoRepo == [f \in {} |-> f]
NoRisk == [total |-> 0, level |-> 0, parts |-> {}]
NoSummary == [known |-> FALSE, has |-> {}]
NoDelta == [fixed |-> {}, new |-> {}, open |-> {}]

-----------------------------------------------------------------------------
(* delta/detector.py.                                                      *)

(* Variant: findings are compared by their id.                             *)
KeyById(fd) == [rule |-> fd.rule, run |-> fd.run]

(* _key: the place is looked up under names a MigrationFinding does not    *)
(* have, so the rule is all that tells two findings apart.                 *)
Key(fd) == [rule |-> fd.rule]

(* Of several findings with one key, the dictionary keeps one.             *)
ByKey(fs, kept) ==
    /\ kept \subseteq fs
    /\ \A fd \in fs : Cardinality({g \in kept : Key(g) = Key(fd)}) = 1

(* Variant: the two runs are swapped.                                      *)
DeltaOfSwapped(prev, curr) ==
    LET absent(fs, others) == {fd \in fs : \A g \in others : Key(g) # Key(fd)}
    IN  [fixed |-> absent(curr, prev), new |-> absent(prev, curr),
         open |-> curr \ absent(curr, prev)]

(* compute_delta.                                                          *)
DeltaOf(prev, curr) ==
    LET absent(fs, others) == {fd \in fs : \A g \in others : Key(g) # Key(fd)}
    IN  [fixed |-> absent(prev, curr), new |-> absent(curr, prev),
         open |-> curr \ absent(curr, prev)]

-----------------------------------------------------------------------------

(* analyze_tests_and_ci runs beside the scan; it may fail.                 *)
AnalyzeTestsAndCi ==
    /\ phase = "scan" /\ ~summary.known
    /\ summary' \in {s \in Summaries : s.known}
    /\ UNCHANGED <<repo, run, phase, todo, findings, unparsed, risk, rejected, previous, delta>>

(* One iteration of scan_workspace.                                        *)
ScanFile(f) ==
    /\ phase = "scan" /\ f \in todo
    /\ todo' = todo \ {f}
    /\ findings' = findings \cup FindingsOf(f, run, repo[f])
    /\ unparsed' = IF repo[f].readable /\ ~repo[f].parses THEN unparsed \cup {f} ELSE unparsed
    /\ UNCHANGED <<repo, run, phase, summary, risk, rejected, previous, delta>>

CalculateRisk ==
    /\ phase = "scan" /\ todo = {}
    /\ risk' = Score(findings, summary)
    /\ phase' = "validate"
    /\ UNCHANGED <<repo, run, todo, findings, unparsed, summary, rejected, previous, delta>>

Validate ==
    /\ phase = "validate"
    /\ rejected' = {fd \in findings : ~Accepted(fd)}
    /\ phase' = "compare"
    /\ UNCHANGED <<repo, run, todo, findings, unparsed, summary, risk, previous, delta>>

(* What get_previous_findings has for the next run: the findings of this   *)
(* one once its row is stored as completed.  Only a run without structural *)
(* issues may complete; its plan and documents decide whether it does.     *)
StoreRow ==
    \/ UNCHANGED previous
    \/ /\ rejected = {} /\ RiskAccepted(risk, findings)
       /\ previous' = [findings |-> findings, repo |-> repo]

(* process_one: the delta to the latest completed run, then this run's row.*)
Compare ==
    /\ phase = "compare"
    /\ \E prev \in SUBSET previous.findings, curr \in SUBSET findings :
          /\ ByKey(previous.findings, prev) /\ ByKey(findings, curr)
          /\ delta' = DeltaOf(prev, curr)
    /\ StoreRow
    /\ phase' = "done"
    /\ UNCHANGED <<repo, run, todo, findings, unparsed, summary, risk, rejected>>

(* The next run, after a push to one file or none.                         *)
NextRun ==
    /\ phase = "done" /\ run < MaxRuns
    /\ \E f \in Files : \E content \in Contents[f] : repo' = [repo EXCEPT ![f] = content]
    /\ run' = run + 1
    /\ phase' = "scan" /\ todo' = Files
    /\ findings' = {} /\ unparsed' = {} /\ summary' = NoSummary
    /\ risk' = NoRisk /\ rejected' = {} /\ delta' = NoDelta
    /\ UNCHANGED previous

Init ==
    /\ repo \in {r \in [Files -> UNION {Contents[f] : f \in Files}] :
                    \A f \in Files : r[f] \in Contents[f]}
    /\ run = 1 /\ phase = "scan" /\ todo = Files
    /\ findings = {} /\ unparsed = {} /\ summary = NoSummary
    /\ risk = NoRisk /\ rejected = {}
    /\ previous = [findings |-> {}, repo |-> NoRepo]
    /\ delta = NoDelta

Next ==
    \/ AnalyzeTestsAndCi
    \/ \E f \in Files : ScanFile(f)
    \/ CalculateRisk
    \/ Validate
    \/ Compare
    \/ NextRun

Spec == Init /\ [][Next]_vars

-----------------------------------------------------------------------------
(* Properties.                                                             *)

IsFinding(fd) ==
    /\ fd.file \in Files /\ fd.rule \in Rules /\ fd.run \in 1 .. run
    /\ fd.first \in Nat \ {0} /\ fd.last \in Nat /\ fd.first <= fd.last
    /\ fd.shown \in BOOLEAN

(* Every variable holds what its writers may put there.                    *)
TypeOK ==
    /\ \A f \in Files : repo[f] \in Contents[f]
    /\ run \in 1 .. MaxRuns
    /\ phase \in {"scan", "validate", "compare", "done"}
    /\ todo \subseteq Files /\ unparsed \subseteq Files \ todo
    /\ \A fd \in findings : IsFinding(fd) /\ fd.file \notin todo /\ fd.run = run
    /\ summary \in Summaries
    /\ risk.total \in 0 .. MaxPoints /\ risk.level \in Levels \cup {0}
    /\ rejected \subseteq findings
    /\ \A fd \in previous.findings : IsFinding(fd)
    /\ delta.new \cup delta.open \subseteq findings

(* However the window is widened, clipped at the ends of the file and      *)
(* stripped of blank lines, the snippet of a finding shows every line of   *)
(* its match.                                                              *)
EvidenceShowsMatch ==
    \A fd \in findings : fd.first .. fd.last \subseteq fd.snippet

(* The validator only counts lines; a finding it lets through has as its   *)
(* snippet exactly the lines of its range, at most MaxEvidence of them.    *)
AcceptedIsExact ==
    phase \in {"compare", "done"} =>
        \A fd \in findings \ rejected :
            /\ fd.snippet = fd.first .. fd.last
            /\ fd.last - fd.first < MaxEvidence

(* Whatever order the files are scanned in, what another file adds never   *)
(* lowers the score or its level.                                          *)
MoreFindingsMoreRisk ==
    [][findings' # findings /\ run' = run =>
         /\ Score(findings, summary).total <= Score(findings', summary).total
         /\ Score(findings, summary).level <= Score(findings', summary).level]_vars

(* Two runs over the same repository differ in nothing, though every run   *)
(* names its findings anew and reads the files in any order.               *)
NoPushNoDelta ==
    [][phase = "compare" /\ phase' = "done" /\ previous.repo = repo =>
         delta'.fixed = {} /\ delta'.new = {}]_vars

(* What the delta calls fixed is not there any more.                       *)
FixedIsGone ==
    \A fd \in delta.fixed, g \in findings :
        <<fd.rule, fd.file, fd.first>> # <<g.rule, g.file, g.first>>

(* specs/02: a finding has its "file and line range" and the "exact bounded*)
(* snippet"; what the scanner reports stands up to the validator.          *)
SnippetsAreExact ==
    \A fd \in findings : RangeMatches(fd) /\ SnippetBounded(fd)

=============================================================================
