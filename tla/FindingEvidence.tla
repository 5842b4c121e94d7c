-------------------------- MODULE FindingEvidence --------------------------
(***************************************************************************)
(* What the scanner of analyzers/ast_scanner.py reports of one file, and   *)
(* what validators/evidence.py demands of a finding.                       *)
(*                                                                         *)
(* A file is the number of its lines, which of them are blank, which carry *)
(* the text of a false-positive exclusion, and the places its rules match; *)
(* the text of a snippet is the set of line numbers it was cut from.       *)
(***************************************************************************)
EXTENDS Naturals, FiniteSets

CONSTANTS
    Rules,        \* rules of the migration pack
    MatcherKind,  \* MatcherKind[r]: how the matcher of r is dispatched
    TextRules,    \* rules with a pattern in _TEXT_PATTERNS
    Exclusions,   \* rules with false_positive_exclusions
    MaxEvidence   \* MAX_EVIDENCE_LINES, 8 in the scanner and in the validator

(* "gated" handlers find nothing in a file that does not import the        *)
(* package, "ungated" ones (ast_import, ast_call) do not ask; other kinds, *)
(* such as "regex", have no handler in _MATCHER_DISPATCH.                  *)
Kinds == {"gated", "ungated", "regex"}

ASSUME EvidenceAssumption ==
    /\ MatcherKind \in [Rules -> Kinds]
    /\ TextRules \subseteq Rules
    /\ Exclusions \subseteq Rules
    /\ MaxEvidence \in Nat

(* A place that the matcher of rule selects, be it a decorator imported    *)
(* from the package, a Config class in a model, a call, an access or an    *)
(* import: its first and last line, which are not blank, and whether the   *)
(* symbol the scanner reports for it is literally written there ("from m   *)
(* import ..." and ".f()" with arguments are not).                         *)
IsMatch(file, m) ==
    /\ m.rule \in Rules /\ m.shown \in BOOLEAN
    /\ m.first \in 1 .. file.lines /\ m.last \in m.first .. file.lines
    /\ {m.first, m.last} \cap file.blank = {}

IsFile(file) ==
    /\ file.lines \in Nat
    /\ file.blank \subseteq 1 .. file.lines
    /\ file.marks \subseteq 1 .. file.lines
    /\ {file.readable, file.parses, file.imports} \subseteq BOOLEAN
    /\ IsFiniteSet(file.matches)
    /\ \A m \in file.matches : IsMatch(file, m)

-----------------------------------------------------------------------------
(* The scanner.                                                            *)

(* Variant: the excerpt starts at the line after the match starts.         *)
SnippetLate(file, first, last) ==
    LET extra  == IF last - first + 1 < MaxEvidence
                  THEN MaxEvidence - (last - first + 1) ELSE 0
        window == {i \in 1 .. file.lines : first < i /\ i <= last + extra}
    IN  {i \in window : \E j \in window : j >= i /\ j \notin file.blank}

(* Variant: the window is cut at MaxEvidence lines and starts two lines    *)
(* above the match whatever its length.                                    *)
SnippetCut(file, first, last) ==
    LET window == {i \in 1 .. file.lines : first <= i + 2 /\ i + 2 < first + MaxEvidence}
    IN  {i \in window : \E j \in window : j >= i /\ j \notin file.blank}

(* _evidence: the lines of a match, widened to MaxEvidence lines where it  *)
(* is shorter, at most two of them above, without trailing blank lines.    *)
Snippet(file, first, last) ==
    LET extra  == IF last - first + 1 < MaxEvidence
                  THEN MaxEvidence - (last - first + 1) ELSE 0
        before == IF extra \div 2 < 2 THEN extra \div 2 ELSE 2
        window == {i \in 1 .. file.lines :
                     first <= i + before /\ i + before <= last + extra}
    IN  {i \in window : \E j \in window : j >= i /\ j \notin file.blank}

(* _is_excluded looks for the exclusion anywhere in the snippet.           *)
Excluded(rule, file, snippet) ==
    rule \in Exclusions /\ snippet \cap file.marks # {}

Handled(rule, file) ==
    \/ MatcherKind[rule] = "ungated"
    \/ MatcherKind[rule] = "gated" /\ file.imports

(* _make_finding; name and run stand for the path and the fresh uuid.      *)
Finding(name, run, file, rule, first, last, shown) ==
    [file |-> name, run |-> run, rule |-> rule, first |-> first, last |-> last,
     snippet |-> Snippet(file, first, last), shown |-> shown]

Unless(file, found) == {fd \in found : ~Excluded(fd.rule, file, fd.snippet)}

AstFindings(name, run, file) ==
    {Finding(name, run, file, m.rule, m.first, m.last, m.shown) :
        m \in {x \in file.matches : Handled(x.rule, file)}}

(* _scan_file_text reports the regular expression itself as the symbol.    *)
TextFindings(name, run, file) ==
    {Finding(name, run, file, m.rule, m.first, m.first, FALSE) :
        m \in {x \in file.matches : x.rule \in TextRules /\ file.imports}}

(* scan_file, for a file that scan_workspace does not skip.                *)
FindingsOf(name, run, file) ==
    IF ~file.readable THEN {}
    ELSE Unless(file, IF file.parses THEN AstFindings(name, run, file)
                                     ELSE TextFindings(name, run, file))

-----------------------------------------------------------------------------
(* _validate_finding.  Rule, pack and order of the lines are the scanner's *)
(* own and need no check here.                                             *)

RangeMatches(fd) == Cardinality(fd.snippet) = fd.last - fd.first + 1

SnippetBounded(fd) == fd.snippet # {} /\ Cardinality(fd.snippet) <= MaxEvidence

Accepted(fd) == RangeMatches(fd) /\ SnippetBounded(fd) /\ fd.shown

=============================================================================
