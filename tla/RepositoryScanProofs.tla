------------------------ MODULE RepositoryScanProofs ------------------------
(***************************************************************************)
(* Proofs about FindingEvidence, RiskScoring and RepositoryScan, for any   *)
(* repository, any pack and any bound on the evidence.                     *)
(***************************************************************************)
EXTENDS RepositoryScan, CollectionLemmas

(* The snippet lies within the file and shows every line of a match.       *)
LEMMA SnippetShows ==
    ASSUME NEW file, IsFile(file),
           NEW first \in 1 .. file.lines, NEW last \in first .. file.lines,
           last \notin file.blank
    PROVE  /\ first .. last \subseteq Snippet(file, first, last)
           /\ Snippet(file, first, last) \subseteq 1 .. file.lines
  <1> DEFINE extra == IF last - first + 1 < MaxEvidence
                      THEN MaxEvidence - (last - first + 1) ELSE 0
             before == IF extra \div 2 < 2 THEN extra \div 2 ELSE 2
             window == {i \in 1 .. file.lines :
                          first <= i + before /\ i + before <= last + extra}
  <1>1. file.lines \in Nat /\ first \in Nat /\ last \in Nat
    BY DEF IsFile
  <1>2. extra \in Nat
    BY <1>1, EvidenceAssumption
  <1>3. before \in Nat /\ before <= extra
    <2> HIDE DEF extra
    <2> QED BY <1>2
  <1>4. first .. last \subseteq window
    <2> HIDE DEF extra, before
    <2> QED BY <1>1, <1>2, <1>3
  <1>5. Snippet(file, first, last)
            = {i \in window : \E j \in window : j >= i /\ j \notin file.blank}
    BY DEF Snippet
  <1>6. last \in window
    BY <1>1, <1>4
  <1> HIDE DEF window
  <1>7. ASSUME NEW i \in first .. last
        PROVE  i \in Snippet(file, first, last)
    BY <1>1, <1>4, <1>5, <1>6, <1>7
  <1>8. Snippet(file, first, last) \subseteq 1 .. file.lines
    BY <1>5 DEF window
  <1> QED BY <1>7, <1>8

(* What is known of one finding.                                           *)
ShowsMatch(fd) ==
    /\ fd.first \in Nat /\ fd.last \in Nat /\ fd.first <= fd.last
    /\ fd.first .. fd.last \subseteq fd.snippet
    /\ IsFiniteSet(fd.snippet)

LEMMA FindingShows ==
    ASSUME NEW name, NEW n, NEW file, IsFile(file), NEW rule, NEW shown,
           NEW first \in 1 .. file.lines, NEW last \in first .. file.lines,
           last \notin file.blank
    PROVE  ShowsMatch(Finding(name, n, file, rule, first, last, shown))
  <1>1. first \in Nat /\ last \in Nat /\ file.lines \in Nat /\ first <= last
    BY DEF IsFile
  <1>2. IsFiniteSet(1 .. file.lines)
    <2>1. 1 \in Int /\ file.lines \in Int
      BY <1>1
    <2> QED BY <2>1, FS_Interval
  <1>3. IsFiniteSet(Snippet(file, first, last))
    BY <1>2, SnippetShows, FS_Subset
  <1> QED BY <1>1, <1>3, SnippetShows DEF ShowsMatch, Finding

LEMMA ScannedShow ==
    ASSUME NEW name, NEW n, NEW file, IsFile(file),
           NEW fd \in FindingsOf(name, n, file)
    PROVE  ShowsMatch(fd)
  <1>1. \A m \in file.matches :
            /\ m.first \in 1 .. file.lines /\ m.last \in m.first .. file.lines
            /\ m.first \in m.first .. file.lines
            /\ m.first \notin file.blank /\ m.last \notin file.blank
    BY DEF IsFile, IsMatch
  <1>2. CASE fd \in AstFindings(name, n, file)
    <2>1. PICK m \in file.matches :
              fd = Finding(name, n, file, m.rule, m.first, m.last, m.shown)
      BY <1>2 DEF AstFindings
    <2> QED BY <1>1, <2>1, FindingShows
  <1>3. CASE fd \in TextFindings(name, n, file)
    <2>1. PICK m \in file.matches :
              fd = Finding(name, n, file, m.rule, m.first, m.first, FALSE)
      BY <1>3 DEF TextFindings
    <2> QED BY <1>1, <2>1, FindingShows
  <1> QED BY <1>2, <1>3 DEF FindingsOf, Unless

(* The validator counts the lines of a snippet; for a snippet that shows   *)
(* its match, the count decides.                                           *)
LEMMA CountDecides ==
    ASSUME NEW fd, ShowsMatch(fd), RangeMatches(fd)
    PROVE  fd.snippet = fd.first .. fd.last
  <1>1. fd.first \in Int /\ fd.last \in Int /\ ~(fd.first > fd.last)
    BY DEF ShowsMatch
  <1>2. Cardinality(fd.first .. fd.last) = fd.last - fd.first + 1
    BY <1>1, FS_Interval
  <1> QED BY <1>2, FS_Subset DEF ShowsMatch, RangeMatches

-----------------------------------------------------------------------------
(* The findings of a whole repository, in one run.                         *)
AllFindings(fs, n, files) == UNION {FindingsOf(f, n, files[f]) : f \in fs}

Repositories ==
    {r \in [Files -> UNION {Contents[f] : f \in Files}] :
        \A f \in Files : r[f] \in Contents[f]}

(* Where a run is in its course, and what its variables then hold.         *)
IInv ==
    /\ repo \in Repositories
    /\ todo \subseteq Files
    /\ phase # "scan" => todo = {}
    /\ findings = AllFindings(Files \ todo, run, repo)
    /\ phase \in {"compare", "done"} => rejected = {fd \in findings : ~Accepted(fd)}
    /\ \/ previous = [findings |-> {}, repo |-> NoRepo]
       \/ /\ previous.repo \in Repositories
          /\ \E n : previous.findings = AllFindings(Files, n, previous.repo)
    /\ \A fd \in delta.fixed : \A g \in findings : g.rule # fd.rule
    /\ phase # "done" => delta = NoDelta

LEMMA InitInv == Init => IInv
  BY DEF Init, IInv, Repositories, AllFindings, NoDelta

(* The next file's findings join those of the files before it.             *)
LEMMA ScanFileStep ==
    ASSUME IInv, NEW f \in Files, ScanFile(f)
    PROVE  IInv'
  <1>1. findings' = AllFindings(Files \ todo', run', repo')
    <2>1. Files \ todo' = (Files \ todo) \cup {f}
      BY DEF ScanFile
    <2> QED BY <2>1 DEF IInv, ScanFile, AllFindings
  <1>2. delta' = NoDelta /\ phase' = "scan"
    BY DEF IInv, ScanFile
  <1>3. repo' \in Repositories /\ todo' \subseteq Files
    BY DEF IInv, ScanFile, Repositories
  <1>4. \/ previous' = [findings |-> {}, repo |-> NoRepo]
        \/ /\ previous'.repo \in Repositories
           /\ \E n : previous'.findings = AllFindings(Files, n, previous'.repo)
    BY DEF IInv, ScanFile
  <1> QED BY <1>1, <1>2, <1>3, <1>4 DEF IInv, NoDelta, Repositories, AllFindings, NoRepo

(* What one run's dictionary of keys holds stands for all of its findings. *)
LEMMA KeptCovers ==
    ASSUME NEW fs, NEW kept, ByKey(fs, kept), NEW fd \in fs
    PROVE  \E g \in kept : g.rule = fd.rule
  <1>1. Cardinality({g \in kept : Key(g) = Key(fd)}) = 1
    BY DEF ByKey
  <1>2. {g \in kept : Key(g) = Key(fd)} # {}
    BY <1>1, FS_EmptySet
  <1> QED BY <1>2 DEF Key

(* The delta is made of this run's findings and those of the last row.     *)
LEMMA CompareStep ==
    ASSUME IInv, Compare
    PROVE  IInv'
  <1>1. PICK prev \in SUBSET previous.findings, curr \in SUBSET findings :
            ByKey(previous.findings, prev) /\ ByKey(findings, curr) /\ delta' = DeltaOf(prev, curr)
    BY DEF Compare, StoreRow
  <1>2. \A fd \in delta'.fixed : \A g \in curr : g.rule # fd.rule
    BY <1>1 DEF DeltaOf, Key
  <1>3. \A fd \in delta'.fixed : \A g \in findings : g.rule # fd.rule
    BY <1>1, <1>2, KeptCovers
  <1>4. todo = {} /\ findings = AllFindings(Files, run, repo)
    BY DEF IInv, Compare, StoreRow
  <1>5. \/ previous' = [findings |-> {}, repo |-> NoRepo]
        \/ /\ previous'.repo \in Repositories
           /\ \E n : previous'.findings = AllFindings(Files, n, previous'.repo)
    BY <1>4 DEF IInv, Compare, StoreRow
  <1> QED BY <1>3, <1>5 DEF IInv, Compare, StoreRow, NoRepo

(* A push leaves a repository; the new run has scanned nothing of it.      *)
LEMMA NextRunStep ==
    ASSUME IInv, NextRun
    PROVE  IInv'
  <1>1. PICK f \in Files : \E content \in Contents[f] : repo' = [repo EXCEPT ![f] = content]
    BY DEF NextRun
  <1>2. repo' \in Repositories
    <2>1. PICK content \in Contents[f] : repo' = [repo EXCEPT ![f] = content]
      BY <1>1
    <2>2. repo \in [Files -> UNION {Contents[g] : g \in Files}]
      BY DEF IInv, Repositories
    <2>3. content \in UNION {Contents[g] : g \in Files}
      BY <2>1
    <2>4. repo' \in [Files -> UNION {Contents[g] : g \in Files}]
      BY <2>1, <2>2, <2>3
    <2>5. \A g \in Files : repo'[g] \in Contents[g]
      BY <2>1, <2>2 DEF IInv, Repositories
    <2> QED BY <2>4, <2>5 DEF Repositories
  <1>3. findings' = AllFindings(Files \ todo', run', repo')
    BY DEF NextRun, AllFindings
  <1> QED BY <1>2, <1>3 DEF IInv, NextRun, NoDelta

LEMMA InvStep ==
    ASSUME IInv, [Next]_vars
    PROVE  IInv'
  <1>1. CASE AnalyzeTestsAndCi
    BY <1>1 DEF AnalyzeTestsAndCi, IInv, AllFindings
  <1>2. CASE \E f \in Files : ScanFile(f)
    BY <1>2, ScanFileStep
  <1>3. CASE CalculateRisk
    BY <1>3 DEF CalculateRisk, IInv, AllFindings
  <1>4. CASE Validate
    BY <1>4 DEF Validate, IInv, AllFindings
  <1>5. CASE Compare
    BY <1>5, CompareStep
  <1>6. CASE NextRun
    BY <1>6, NextRunStep
  <1>7. CASE UNCHANGED vars
    BY <1>7 DEF vars, IInv, AllFindings
  <1> QED BY <1>1, <1>2, <1>3, <1>4, <1>5, <1>6, <1>7 DEF Next

LEMMA Invariance == Spec => []IInv
  <1>1. IInv /\ [Next]_vars => IInv'
    BY InvStep
  <1> QED BY <1>1, InitInv, PTL DEF Spec

(* Every finding of a reachable state shows its match.                     *)
LEMMA AllShow ==
    ASSUME IInv
    PROVE  \A fd \in findings : ShowsMatch(fd)
  <1>1. ASSUME NEW fd \in findings
        PROVE  ShowsMatch(fd)
    <2>1. PICK f \in Files : fd \in FindingsOf(f, run, repo[f])
      BY <1>1 DEF IInv, AllFindings
    <2>2. IsFile(repo[f])
      BY <2>1, ScanAssumption DEF IInv, Repositories
    <2> QED BY <2>1, <2>2, ScannedShow
  <1> QED BY <1>1

-----------------------------------------------------------------------------

(* The window of _evidence never cuts a line off what was matched.         *)
THEOREM EvidenceShows == Spec => []EvidenceShowsMatch
  <1>1. IInv => EvidenceShowsMatch
    BY AllShow DEF EvidenceShowsMatch, ShowsMatch
  <1> QED BY <1>1, Invariance, PTL

(* What the validator lets through shows the lines of its range, no other. *)
THEOREM AcceptedExact == Spec => []AcceptedIsExact
  <1>1. ASSUME IInv
        PROVE  AcceptedIsExact
    <2>1. ASSUME phase \in {"compare", "done"}, NEW fd \in findings \ rejected
          PROVE  fd.snippet = fd.first .. fd.last /\ fd.last - fd.first < MaxEvidence
      <3>1. ShowsMatch(fd) /\ Accepted(fd)
        BY <1>1, <2>1, AllShow DEF IInv
      <3>2. fd.snippet = fd.first .. fd.last
        BY <3>1, CountDecides DEF Accepted
      <3>3. fd.last - fd.first + 1 <= MaxEvidence
        BY <3>1 DEF Accepted, RangeMatches, SnippetBounded
      <3> QED BY <3>1, <3>2, <3>3, EvidenceAssumption DEF ShowsMatch
    <2> QED BY <2>1 DEF AcceptedIsExact
  <1> QED BY <1>1, Invariance, PTL

(* The delta never calls something fixed that the scan still finds.        *)
THEOREM FixedGone == Spec => []FixedIsGone
  <1>1. IInv => FixedIsGone
    BY DEF IInv, FixedIsGone
  <1> QED BY <1>1, Invariance, PTL

(* The rules found in a file do not depend on the run that scans it.       *)
LEMMA RunDoesNotMatter ==
    ASSUME NEW name, NEW n, NEW k, NEW file, NEW fd \in FindingsOf(name, n, file)
    PROVE  \E g \in FindingsOf(name, k, file) : g.rule = fd.rule
  <1>1. file.readable /\ ~Excluded(fd.rule, file, fd.snippet)
    BY DEF FindingsOf, Unless
  <1>2. CASE file.parses
    <2>1. PICK m \in {x \in file.matches : Handled(x.rule, file)} :
              fd = Finding(name, n, file, m.rule, m.first, m.last, m.shown)
      BY <1>2 DEF AstFindings, FindingsOf, Unless
    <2>2. PICK g : g = Finding(name, k, file, m.rule, m.first, m.last, m.shown)
      OBVIOUS
    <2>3. g.rule = fd.rule /\ g.snippet = fd.snippet
      BY <2>1, <2>2 DEF Finding
    <2>4. g \in AstFindings(name, k, file)
      BY <2>1, <2>2 DEF AstFindings
    <2>5. ~Excluded(g.rule, file, g.snippet)
      BY <1>1, <2>3
    <2> QED BY <1>1, <1>2, <2>3, <2>4, <2>5 DEF FindingsOf, Unless
  <1>3. CASE ~file.parses
    <2>1. PICK m \in {x \in file.matches : x.rule \in TextRules /\ file.imports} :
              fd = Finding(name, n, file, m.rule, m.first, m.first, FALSE)
      BY <1>3 DEF TextFindings, FindingsOf, Unless
    <2>2. PICK g : g = Finding(name, k, file, m.rule, m.first, m.first, FALSE)
      OBVIOUS
    <2>3. g.rule = fd.rule /\ g.snippet = fd.snippet
      BY <2>1, <2>2 DEF Finding
    <2>4. g \in TextFindings(name, k, file)
      BY <2>1, <2>2 DEF TextFindings
    <2>5. ~Excluded(g.rule, file, g.snippet)
      BY <1>1, <2>3
    <2> QED BY <1>1, <1>3, <2>3, <2>4, <2>5 DEF FindingsOf, Unless
  <1> QED BY <1>2, <1>3

(* Nor do the rules found in a repository.                                 *)
LEMMA SameRules ==
    ASSUME NEW n, NEW k, NEW files, NEW fd \in AllFindings(Files, n, files)
    PROVE  \E g \in AllFindings(Files, k, files) : g.rule = fd.rule
  <1>1. PICK f \in Files : fd \in FindingsOf(f, n, files[f])
    BY DEF AllFindings
  <1>2. PICK g \in FindingsOf(f, k, files[f]) : g.rule = fd.rule
    BY <1>1, RunDoesNotMatter
  <1> QED BY <1>2 DEF AllFindings

(* Over an unchanged repository the delta is empty.                        *)
THEOREM UnchangedNoDelta == Spec => NoPushNoDelta
  <1>1. ASSUME IInv, [Next]_vars, phase = "compare", phase' = "done", previous.repo = repo
        PROVE  delta'.fixed = {} /\ delta'.new = {}
    <2>1. Compare
      BY <1>1 DEF Next, vars, AnalyzeTestsAndCi, ScanFile, CalculateRisk, Validate, NextRun
    <2>2. PICK prev \in SUBSET previous.findings, curr \in SUBSET findings :
              ByKey(previous.findings, prev) /\ ByKey(findings, curr) /\ delta' = DeltaOf(prev, curr)
      BY <2>1 DEF Compare, StoreRow
    <2>3. findings = AllFindings(Files, run, repo)
      BY <1>1 DEF IInv
    <2>4. \E n : previous.findings = AllFindings(Files, n, repo)
      <3>1. CASE previous = [findings |-> {}, repo |-> NoRepo]
        <4>1. repo = NoRepo /\ previous.findings = {}
          BY <1>1, <3>1
        <4>2. DOMAIN repo = Files /\ DOMAIN NoRepo = {}
          BY <1>1 DEF IInv, Repositories, NoRepo
        <4>3. AllFindings(Files, run, repo) = {}
          BY <4>1, <4>2 DEF AllFindings
        <4> QED BY <4>1, <4>3
      <3> QED BY <1>1, <3>1 DEF IInv
    <2>5. \A fd \in prev : \E g \in curr : g.rule = fd.rule
      BY <2>2, <2>3, <2>4, SameRules, KeptCovers
    <2>6. \A fd \in curr : \E g \in prev : g.rule = fd.rule
      BY <2>2, <2>3, <2>4, SameRules, KeptCovers
    <2> QED BY <2>2, <2>5, <2>6 DEF DeltaOf, Key
  <1> QED BY <1>1, Invariance, PTL DEF Spec, NoPushNoDelta

-----------------------------------------------------------------------------
(* The score.                                                              *)

LEMMA RulesType ==
    ASSUME NEW rule \in RiskRules
    PROVE  /\ rule.per \in Nat /\ rule.cap \in Nat /\ rule.points \in Nat
           /\ rule.steps \in Seq([above : Nat, points : Nat])
           /\ StepsDescend(rule.steps)
  BY RiskAssumption, StepsAssumption DEF IsRiskRule

LEMMA LesserType ==
    ASSUME NEW a \in Nat, NEW b \in Nat
    PROVE  Lesser(a, b) \in Nat /\ Lesser(a, b) <= a
  BY DEF Lesser

LEMMA LesserGrows ==
    ASSUME NEW a \in Nat, NEW b \in Nat, NEW c \in Nat, b <= c
    PROVE  Lesser(a, b) <= Lesser(a, c)
  BY DEF Lesser

LEMMA TimesType ==
    ASSUME NEW a \in Nat, NEW b \in Nat
    PROVE  a * b \in Nat
  OBVIOUS

LEMMA TimesGrows ==
    ASSUME NEW a \in Nat, NEW b \in Nat, NEW c \in Nat, b <= c
    PROVE  a * b <= a * c
  <1>1. PICK d \in Nat : c = b + d
    <2>1. c - b \in Nat /\ c = b + (c - b)
      OBVIOUS
    <2>2. QED
      BY <2>1
  <1>2. a * c = a * b + a * d
    BY <1>1
  <1>3. a * b \in Nat /\ a * d \in Nat
    BY <1>1, TimesType
  <1>4. QED
    BY <1>2, <1>3

LEMMA ElementsType ==
    ASSUME NEW T, NEW s \in Seq(T)
    PROVE  DOMAIN s = 1 .. Len(s) /\ Len(s) \in Nat /\ \A i \in DOMAIN s : s[i] \in T
  OBVIOUS

LEMMA StepsType ==
    ASSUME NEW steps \in Seq([above : Nat, points : Nat])
    PROVE  /\ DOMAIN steps = 1 .. Len(steps) /\ Len(steps) \in Nat
           /\ \A i \in DOMAIN steps : i \in Nat
           /\ \A i \in DOMAIN steps : steps[i].above \in Nat /\ steps[i].points \in Nat
  <1> DEFINE Step == [above : Nat, points : Nat]
  <1>1. \A x \in Step : x.above \in Nat /\ x.points \in Nat
    OBVIOUS
  <1>2. steps \in Seq(Step)
    OBVIOUS
  <1> HIDE DEF Step
  <1>3. /\ DOMAIN steps = 1 .. Len(steps) /\ Len(steps) \in Nat
        /\ \A i \in DOMAIN steps : steps[i] \in Step
    BY <1>2, ElementsType
  <1>4. \A i \in 1 .. Len(steps) : i \in Nat
    BY <1>3
  <1>5. QED
    BY <1>1, <1>3, <1>4

(* The thresholds that a count exceeds.                                    *)
Met(steps, n) == {i \in DOMAIN steps : n > steps[i].above}

LEMMA FirstMet ==
    ASSUME NEW steps \in Seq([above : Nat, points : Nat]), NEW n \in Nat
    PROVE  /\ Met(steps, n) = {} => StepPoints(steps, n) = 0
           /\ Met(steps, n) # {} =>
                 \E i \in Met(steps, n) : /\ StepPoints(steps, n) = steps[i].points
                                          /\ \A k \in Met(steps, n) : i <= k
  <1>1. DOMAIN steps = 1 .. Len(steps) /\ Len(steps) \in Nat
    BY StepsType
  <1>2. StepPoints(steps, n) = IF Met(steps, n) = {} THEN 0 ELSE steps[Min(Met(steps, n))].points
    BY DEF StepPoints, Met
  <1>3. Met(steps, n) \in SUBSET Int /\ IsFiniteSet(Met(steps, n))
    <2>1. IsFiniteSet(1 .. Len(steps))
      <3>1. 1 \in Int /\ Len(steps) \in Int
        BY <1>1
      <3>2. QED
        BY <3>1, FS_Interval
    <2>2. Met(steps, n) \in SUBSET (1 .. Len(steps))
      BY <1>1 DEF Met
    <2>3. QED
      BY <2>1, <2>2, FS_Subset
  <1>4. QED
    BY <1>2, <1>3, MinExists

LEMMA StepPointsType ==
    ASSUME NEW steps \in Seq([above : Nat, points : Nat]), NEW n \in Nat
    PROVE  StepPoints(steps, n) \in Nat
  <1>1. CASE Met(steps, n) = {}
    BY <1>1, FirstMet
  <1>2. CASE Met(steps, n) # {}
    <2>1. PICK i \in Met(steps, n) : StepPoints(steps, n) = steps[i].points
      BY <1>2, FirstMet
    <2>2. i \in DOMAIN steps
      BY DEF Met
    <2>3. QED
      BY <2>1, <2>2, StepsType
  <1>3. QED
    BY <1>1, <1>2

LEMMA StepPointsGrow ==
    ASSUME NEW steps \in Seq([above : Nat, points : Nat]), StepsDescend(steps),
           NEW n \in Nat, NEW m \in Nat, n <= m
    PROVE  StepPoints(steps, n) <= StepPoints(steps, m)
  <1>1. /\ \A i \in DOMAIN steps : i \in Nat
        /\ \A i \in DOMAIN steps : steps[i].above \in Nat /\ steps[i].points \in Nat
    BY StepsType
  <1>2. Met(steps, n) \subseteq Met(steps, m)
    BY <1>1 DEF Met
  <1>3. CASE Met(steps, n) = {}
    <2>1. StepPoints(steps, n) = 0 /\ StepPoints(steps, m) \in Nat
      BY <1>3, FirstMet, StepPointsType
    <2>2. QED
      BY <2>1
  <1>4. CASE Met(steps, n) # {}
    <2>1. PICK k \in Met(steps, n) : StepPoints(steps, n) = steps[k].points
      BY <1>4, FirstMet
    <2>2. PICK i \in Met(steps, m) : /\ StepPoints(steps, m) = steps[i].points
                                     /\ \A j \in Met(steps, m) : i <= j
      BY <1>2, <1>4, FirstMet
    <2>3. /\ i \in DOMAIN steps /\ k \in DOMAIN steps /\ i <= k
          /\ n > steps[k].above
      BY <1>2, <2>1, <2>2 DEF Met
    <2>4. CASE i \in Met(steps, n)
      <3>1. PICK j \in Met(steps, n) : /\ StepPoints(steps, n) = steps[j].points
                                       /\ \A h \in Met(steps, n) : j <= h
        BY <1>4, FirstMet
      <3>2. i <= j /\ j <= i
        BY <1>2, <2>2, <2>4, <3>1
      <3>3. i = j
        BY <1>1, <2>3, <3>1, <3>2 DEF Met
      <3>4. QED
        BY <1>1, <2>2, <2>3, <3>1, <3>3
    <2>5. CASE i \notin Met(steps, n)
      <3>1. ~(n > steps[i].above)
        BY <2>3, <2>5 DEF Met
      <3>2. steps[i].above > steps[k].above
        BY <1>1, <2>3, <3>1
      <3>3. i < k
        BY <1>1, <2>3, <3>2
      <3>4. steps[i].points >= steps[k].points
        BY <2>3, <3>2, <3>3 DEF StepsDescend
      <3>5. QED
        BY <1>1, <2>1, <2>2, <2>3, <3>4
    <2>6. QED
      BY <2>4, <2>5
  <1>5. QED
    BY <1>3, <1>4

(* How many findings there are, of some rules and in how many files.       *)
LEMMA CountsGrow ==
    ASSUME NEW rule, NEW fs, NEW gs, fs \subseteq gs, IsFiniteSet(gs)
    PROVE  /\ Cardinality(Matched(rule, fs)) \in Nat
           /\ Cardinality(Matched(rule, gs)) \in Nat
           /\ Cardinality(Matched(rule, fs)) <= Cardinality(Matched(rule, gs))
           /\ Cardinality({fd.file : fd \in fs}) \in Nat
           /\ Cardinality({fd.file : fd \in gs}) \in Nat
           /\ Cardinality({fd.file : fd \in fs}) <= Cardinality({fd.file : fd \in gs})
  <1>1. IsFiniteSet(Matched(rule, gs)) /\ Matched(rule, fs) \in SUBSET Matched(rule, gs)
    <2>1. Matched(rule, gs) \in SUBSET gs /\ Matched(rule, fs) \in SUBSET Matched(rule, gs)
      BY DEF Matched
    <2>2. QED
      BY <2>1, FS_Subset
  <1>2. IsFiniteSet({fd.file : fd \in gs})
    <2> DEFINE f == [fd \in gs |-> fd.file]
    <2>1. IsFiniteSet({f[fd] : fd \in DOMAIN f})
      BY FiniteImage
    <2>2. {f[fd] : fd \in DOMAIN f} = {fd.file : fd \in gs}
      OBVIOUS
    <2>3. QED
      BY <2>1, <2>2
  <1>3. {fd.file : fd \in fs} \in SUBSET {fd.file : fd \in gs}
    OBVIOUS
  <1>4. ASSUME NEW S, NEW T, IsFiniteSet(T), S \in SUBSET T
        PROVE  /\ Cardinality(S) \in Nat /\ Cardinality(T) \in Nat
               /\ Cardinality(S) <= Cardinality(T)
    BY <1>4, FS_Subset, FS_CardinalityType
  <1>5. QED
    BY <1>1, <1>2, <1>3, <1>4

LEMMA PointsType ==
    ASSUME NEW rule \in RiskRules, NEW fs, IsFiniteSet(fs), NEW s
    PROVE  Points(rule, fs, s) \in Nat
  <1>1. Lesser(rule.cap, rule.per * Cardinality(Matched(rule, fs))) \in Nat
    BY RulesType, CountsGrow, TimesType, LesserType
  <1>2. StepPoints(rule.steps, Cardinality({fd.file : fd \in fs})) \in Nat
    BY RulesType, CountsGrow, StepPointsType
  <1>3. QED
    BY <1>1, <1>2, RulesType DEF Points

LEMMA PointsGrow ==
    ASSUME NEW rule \in RiskRules, NEW fs, NEW gs, fs \subseteq gs, IsFiniteSet(gs), NEW s
    PROVE  Points(rule, fs, s) <= Points(rule, gs, s)
  <1>1. Lesser(rule.cap, rule.per * Cardinality(Matched(rule, fs)))
            <= Lesser(rule.cap, rule.per * Cardinality(Matched(rule, gs)))
    <2>1. rule.per * Cardinality(Matched(rule, fs)) <= rule.per * Cardinality(Matched(rule, gs))
      BY RulesType, CountsGrow, TimesGrows
    <2>2. QED
      BY <2>1, RulesType, CountsGrow, TimesType, LesserGrows
  <1>2. StepPoints(rule.steps, Cardinality({fd.file : fd \in fs}))
            <= StepPoints(rule.steps, Cardinality({fd.file : fd \in gs}))
    BY RulesType, CountsGrow, StepPointsGrow
  <1>3. QED
    BY <1>1, <1>2, RulesType DEF Points

LEMMA SumsGrow ==
    ASSUME NEW fs, NEW gs, fs \subseteq gs, IsFiniteSet(gs), NEW s
    PROVE  Sum(fs, s) \in Nat /\ Sum(gs, s) \in Nat /\ Sum(fs, s) <= Sum(gs, s)
  <1> DEFINE v == [rule \in Counted(fs, s) |-> Points(rule, fs, s)]
             w == [rule \in Counted(gs, s) |-> Points(rule, gs, s)]
  <1>1. IsFiniteSet(fs)
    BY FS_Subset
  <1>2. \A rule \in RiskRules : /\ Points(rule, fs, s) \in Nat /\ Points(rule, gs, s) \in Nat
                                /\ Points(rule, fs, s) <= Points(rule, gs, s)
    BY <1>1, PointsType, PointsGrow
  <1>3. /\ Counted(fs, s) \in SUBSET RiskRules /\ Counted(gs, s) \in SUBSET RiskRules
        /\ Counted(fs, s) \subseteq Counted(gs, s)
    BY <1>2 DEF Counted
  <1>4. IsFiniteSet(Counted(fs, s)) /\ IsFiniteSet(Counted(gs, s))
    BY <1>3, RiskAssumption, FS_Subset
  <1>5. /\ \A x \in DOMAIN v : v[x] \in Nat /\ v[x] <= w[x]
        /\ \A x \in DOMAIN w : w[x] \in Nat
        /\ DOMAIN v \subseteq DOMAIN w
        /\ IsFiniteSet(DOMAIN v) /\ IsFiniteSet(DOMAIN w)
    BY <1>2, <1>3, <1>4
  <1>6. Sum(fs, s) = SumFunction(v) /\ Sum(gs, s) = SumFunction(w)
    BY DEF Sum
  <1> HIDE DEF v, w
  <1>7. SumFunction(v) \in Nat /\ SumFunction(w) \in Nat
    BY <1>5, SumType
  <1>8. SumFunction(v) <= SumFunction(w)
    BY <1>5, SumGrows
  <1>9. QED
    BY <1>6, <1>7, <1>8

(* The level is the greatest that the total reaches.                       *)
LEMMA LevelType ==
    ASSUME NEW total \in Nat
    PROVE  /\ LevelOf(total) \in {0} \cup {l \in Levels : l <= total}
           /\ \A l \in {0} \cup {k \in Levels : k <= total} : l <= LevelOf(total)
  <1> DEFINE S == {0} \cup {l \in Levels : l <= total}
  <1>1. S \in SUBSET Nat /\ \A l \in S : l <= total
    <2>1. Levels \subseteq Nat
      BY RiskAssumption
    <2>2. ASSUME NEW l \in S PROVE l \in Nat /\ l <= total
      BY <2>1
    <2>3. QED
      BY <2>2
  <1>2. IsFiniteSet(S) /\ S # {}
    BY <1>1, FS_BoundedSetOfNaturals
  <1>3. S \in SUBSET Int /\ LevelOf(total) = Max(S)
    BY <1>1 DEF LevelOf
  <1> HIDE DEF S
  <1>4. Max(S) \in S /\ \A l \in S : Max(S) >= l
    BY <1>2, <1>3, MaxExists
  <1>5. LevelOf(total) \in S /\ \A l \in S : l <= LevelOf(total)
    BY <1>1, <1>3, <1>4
  <1>6. QED
    BY <1>5 DEF S

LEMMA LevelGrows ==
    ASSUME NEW a \in Nat, NEW b \in Nat, a <= b
    PROVE  LevelOf(a) <= LevelOf(b)
  <1>1. LevelOf(a) \in {0} \cup {l \in Levels : l <= b}
    <2>1. Levels \subseteq Nat
      BY RiskAssumption
    <2>2. LevelOf(a) \in {0} \cup {l \in Levels : l <= a}
      BY LevelType
    <2>3. CASE LevelOf(a) = 0
      BY <2>3
    <2>4. CASE LevelOf(a) \in Levels /\ LevelOf(a) <= a
      <3>1. LevelOf(a) \in Nat
        BY <2>1, <2>4
      <3>2. LevelOf(a) <= b
        BY <2>4, <3>1
      <3>3. QED
        BY <2>4, <3>2
    <2>5. QED
      BY <2>2, <2>3, <2>4
  <1>2. QED
    BY <1>1, LevelType

(* The score of more findings is no lower, nor is its level.               *)
LEMMA ScoreGrows ==
    ASSUME NEW fs, NEW gs, fs \subseteq gs, IsFiniteSet(gs), NEW s
    PROVE  /\ Score(fs, s).total \in 0 .. MaxPoints
           /\ Score(fs, s).level \in Levels \cup {0}
           /\ Score(fs, s).total <= Score(gs, s).total
           /\ Score(fs, s).level <= Score(gs, s).level
  <1> DEFINE a == Lesser(MaxPoints, Sum(fs, s))
             b == Lesser(MaxPoints, Sum(gs, s))
  <1>1. a \in Nat /\ b \in Nat /\ a <= MaxPoints /\ a <= b
    BY SumsGrow, LesserType, LesserGrows, RiskAssumption
  <1>2. /\ Score(fs, s).total = a /\ Score(fs, s).level = LevelOf(a)
        /\ Score(gs, s).total = b /\ Score(gs, s).level = LevelOf(b)
    BY DEF Score
  <1> HIDE DEF a, b
  <1>3. LevelOf(a) \in Levels \cup {0}
    BY <1>1, LevelType
  <1>4. LevelOf(a) <= LevelOf(b)
    BY <1>1, LevelGrows
  <1>5. QED
    BY <1>1, <1>2, <1>3, <1>4, RiskAssumption

-----------------------------------------------------------------------------
(* Types.                                                                  *)

(* Every step of the scan adds the findings of finitely many matches.      *)
LEMMA FiniteInFile ==
    ASSUME NEW name, NEW n, NEW file, IsFile(file)
    PROVE  IsFiniteSet(FindingsOf(name, n, file))
  <1> DEFINE ast == [m \in {x \in file.matches : Handled(x.rule, file)} |->
                        Finding(name, n, file, m.rule, m.first, m.last, m.shown)]
             text == [m \in {x \in file.matches : x.rule \in TextRules /\ file.imports} |->
                        Finding(name, n, file, m.rule, m.first, m.first, FALSE)]
  <1>1. IsFiniteSet(DOMAIN ast) /\ IsFiniteSet(DOMAIN text)
    <2>1. IsFiniteSet(file.matches)
      BY DEF IsFile
    <2>2. DOMAIN ast \in SUBSET file.matches /\ DOMAIN text \in SUBSET file.matches
      OBVIOUS
    <2> HIDE DEF ast, text
    <2>3. QED
      BY <2>1, <2>2, FS_Subset
  <1>2. /\ AstFindings(name, n, file) = {ast[m] : m \in DOMAIN ast}
        /\ TextFindings(name, n, file) = {text[m] : m \in DOMAIN text}
    BY DEF AstFindings, TextFindings
  <1> HIDE DEF ast, text
  <1>3. IsFiniteSet(AstFindings(name, n, file)) /\ IsFiniteSet(TextFindings(name, n, file))
    BY <1>1, <1>2, FiniteImage
  <1>4. \/ FindingsOf(name, n, file) \in SUBSET AstFindings(name, n, file)
        \/ FindingsOf(name, n, file) \in SUBSET TextFindings(name, n, file)
    BY DEF FindingsOf, Unless
  <1>5. QED
    BY <1>3, <1>4, FS_Subset

LEMMA FiniteFindings ==
    ASSUME NEW fs \in SUBSET Files, NEW n, NEW files \in Repositories
    PROVE  IsFiniteSet(AllFindings(fs, n, files))
  <1> DEFINE each == [f \in fs |-> FindingsOf(f, n, files[f])]
  <1>1. IsFiniteSet(fs)
    BY ScanAssumption, FS_Subset
  <1>2. \A f \in fs : IsFile(files[f])
    BY ScanAssumption DEF Repositories
  <1>3. /\ DOMAIN each = fs
        /\ \A f \in fs : IsFiniteSet(each[f])
        /\ AllFindings(fs, n, files) = UNION {each[f] : f \in DOMAIN each}
    BY <1>2, FiniteInFile DEF AllFindings
  <1> HIDE DEF each
  <1>4. IsFiniteSet({each[f] : f \in DOMAIN each})
    BY <1>1, <1>3, FiniteImage
  <1>5. QED
    BY <1>3, <1>4, FS_UNION

LEMMA FindingType ==
    ASSUME NEW name, NEW n, NEW file, IsFile(file), NEW fd \in FindingsOf(name, n, file)
    PROVE  /\ fd.file = name /\ fd.run = n /\ fd.rule \in Rules
           /\ fd.first \in Nat \ {0} /\ fd.last \in Nat /\ fd.first <= fd.last
           /\ fd.shown \in BOOLEAN
  <1>1. \A m \in file.matches :
            /\ m.rule \in Rules /\ m.shown \in BOOLEAN
            /\ m.first \in 1 .. file.lines /\ m.last \in m.first .. file.lines
    BY DEF IsFile, IsMatch
  <1>2. file.lines \in Nat
    BY DEF IsFile
  <1>3. CASE fd \in AstFindings(name, n, file)
    <2>1. PICK m \in file.matches :
              fd = Finding(name, n, file, m.rule, m.first, m.last, m.shown)
      BY <1>3 DEF AstFindings
    <2>2. QED
      BY <1>1, <1>2, <2>1 DEF Finding
  <1>4. CASE fd \in TextFindings(name, n, file)
    <2>1. PICK m \in file.matches :
              fd = Finding(name, n, file, m.rule, m.first, m.first, FALSE)
      BY <1>4 DEF TextFindings
    <2>2. QED
      BY <1>1, <1>2, <2>1 DEF Finding
  <1>5. QED
    BY <1>3, <1>4 DEF FindingsOf, Unless

LEMMA FindingsType ==
    ASSUME IInv, run \in Nat \ {0}
    PROVE  \A fd \in findings : IsFinding(fd) /\ fd.file \notin todo /\ fd.run = run
  <1>1. ASSUME NEW fd \in findings
        PROVE  IsFinding(fd) /\ fd.file \notin todo /\ fd.run = run
    <2>1. PICK f \in Files \ todo : fd \in FindingsOf(f, run, repo[f])
      BY <1>1 DEF IInv, AllFindings
    <2>2. IsFile(repo[f])
      BY <2>1, ScanAssumption DEF IInv, Repositories
    <2>3. QED
      BY <2>1, <2>2, FindingType DEF IsFinding
  <1>2. QED
    BY <1>1

(* What IInv leaves open of the variables.                                 *)
Typing ==
    /\ run \in 1 .. MaxRuns
    /\ phase \in {"scan", "validate", "compare", "done"}
    /\ unparsed \subseteq Files \ todo
    /\ summary \in Summaries
    /\ risk.total \in 0 .. MaxPoints /\ risk.level \in Levels \cup {0}
    /\ phase \in {"scan", "validate"} => rejected = {}
    /\ \A fd \in previous.findings : IsFinding(fd)
    /\ delta.new \cup delta.open \subseteq findings

TInv == IInv /\ Typing

LEMMA InitTyping ==
    ASSUME Init
    PROVE  Typing
  <1>1. MaxRuns \in Nat \ {0} /\ MaxPoints \in Nat
    BY ScanAssumption, RiskAssumption
  <1>2. summary \in Summaries
    BY DEF Init, NoSummary, Summaries
  <1>3. /\ risk.total = 0 /\ risk.level = 0 /\ previous.findings = {}
        /\ delta.new = {} /\ delta.open = {}
    BY DEF Init, NoRisk, NoDelta
  <1>4. QED
    BY <1>1, <1>2, <1>3 DEF Init, Typing

LEMMA TypingStep ==
    ASSUME TInv, [Next]_vars
    PROVE  Typing'
  <1>1. run \in Nat \ {0} /\ MaxRuns \in Nat /\ MaxPoints \in Nat
    BY ScanAssumption, RiskAssumption DEF TInv, Typing
  <1>2. CASE UNCHANGED vars
    BY <1>2 DEF vars, TInv, Typing, IsFinding
  <1>3. CASE AnalyzeTestsAndCi
    BY <1>3 DEF AnalyzeTestsAndCi, TInv, Typing, IsFinding
  <1>4. ASSUME NEW f \in Files, ScanFile(f)
        PROVE  Typing'
    BY <1>4 DEF ScanFile, TInv, IInv, NoDelta, Typing, IsFinding
  <1>5. CASE CalculateRisk
    <2>1. IsFiniteSet(findings)
      BY FiniteFindings DEF TInv, IInv
    <2>2. risk'.total \in 0 .. MaxPoints /\ risk'.level \in Levels \cup {0}
      BY <1>5, <2>1, ScoreGrows DEF CalculateRisk
    <2>3. QED
      BY <1>5, <2>2 DEF CalculateRisk, TInv, Typing, IsFinding
  <1>6. CASE Validate
    BY <1>6 DEF Validate, TInv, Typing, IsFinding
  <1>7. CASE Compare
    <2>1. PICK prev \in SUBSET previous.findings, curr \in SUBSET findings :
              delta' = DeltaOf(prev, curr)
      BY <1>7 DEF Compare, StoreRow
    <2>2. delta'.new \cup delta'.open \subseteq findings'
      BY <1>7, <2>1 DEF Compare, StoreRow, DeltaOf
    <2>3. \A fd \in previous'.findings : IsFinding(fd)
      <3>1. previous'.findings = previous.findings \/ previous'.findings = findings
        BY <1>7 DEF Compare, StoreRow
      <3>2. QED
        BY <1>1, <3>1, FindingsType DEF TInv, Typing
    <2>4. QED
      BY <1>7, <2>2, <2>3 DEF Compare, StoreRow, TInv, Typing, IsFinding
  <1>8. CASE NextRun
    <2>1. run' = run + 1 /\ run' \in 1 .. MaxRuns /\ phase' = "scan"
      BY <1>1, <1>8 DEF NextRun, TInv, Typing
    <2>2. summary' \in Summaries
      BY <1>8 DEF NextRun, NoSummary, Summaries
    <2>3. /\ risk'.total = 0 /\ risk'.level = 0 /\ rejected' = {}
          /\ delta'.new = {} /\ delta'.open = {} /\ unparsed' = {}
      BY <1>8 DEF NextRun, NoRisk, NoDelta
    <2>4. \A fd \in previous'.findings : IsFinding(fd)'
      BY <1>1, <1>8, <2>1 DEF NextRun, TInv, Typing, IsFinding
    <2>5. QED
      BY <1>1, <2>1, <2>2, <2>3, <2>4 DEF Typing
  <1>9. QED
    BY <1>2, <1>3, <1>4, <1>5, <1>6, <1>7, <1>8 DEF Next

LEMMA TypingInvariance == Spec => []TInv
  <1>1. Init => TInv
    BY InitInv, InitTyping DEF TInv
  <1>2. TInv /\ [Next]_vars => TInv'
    BY TypingStep, InvStep DEF TInv
  <1>3. QED
    BY <1>1, <1>2, PTL DEF Spec

(* Findings, score, verdict and delta are well typed, those of the latest  *)
(* completed run among them, whatever the scan finds.                      *)
THEOREM ScanTypeCorrect == Spec => []TypeOK
  <1>1. ASSUME TInv
        PROVE  TypeOK
    <2>1. run \in Nat \ {0}
      BY <1>1, ScanAssumption DEF TInv, Typing
    <2>2. \A fd \in findings : IsFinding(fd) /\ fd.file \notin todo /\ fd.run = run
      BY <1>1, <2>1, FindingsType DEF TInv
    <2>3. rejected \subseteq findings
      BY <1>1 DEF TInv, IInv, Typing
    <2>4. QED
      BY <1>1, <2>2, <2>3 DEF TInv, IInv, Typing, TypeOK, Repositories
  <1>2. QED
    BY <1>1, TypingInvariance, PTL

(* Whatever is found in one more file, score_risk does not come to a lower *)
(* score or level.                                                         *)
THEOREM MoreIsNoLess == Spec => MoreFindingsMoreRisk
  <1>1. ASSUME TInv, [Next]_vars, findings' # findings, run' = run
        PROVE  /\ Score(findings, summary).total <= Score(findings', summary).total
               /\ Score(findings, summary).level <= Score(findings', summary).level
    <2>1. run \in Nat
      BY <1>1, ScanAssumption DEF TInv, Typing
    <2>2. ~NextRun
      BY <1>1, <2>1 DEF NextRun
    <2>3. PICK f \in Files : ScanFile(f)
      BY <1>1, <2>2 DEF Next, vars, AnalyzeTestsAndCi, CalculateRisk, Validate, Compare, StoreRow
    <2>4. findings' = findings \cup FindingsOf(f, run, repo[f])
      BY <2>3 DEF ScanFile
    <2>5. IsFiniteSet(findings')
      <3>1. IsFiniteSet(findings)
        BY <1>1, FiniteFindings DEF TInv, IInv
      <3>2. IsFile(repo[f])
        BY <1>1, ScanAssumption DEF TInv, IInv, Repositories
      <3>3. IsFiniteSet(FindingsOf(f, run, repo[f]))
        BY <3>2, FiniteInFile
      <3>4. QED
        BY <2>4, <3>1, <3>3, FS_Union
    <2>6. QED
      BY <2>4, <2>5, ScoreGrows
  <1>2. QED
    BY <1>1, TypingInvariance, PTL DEF Spec, MoreFindingsMoreRisk

=============================================================================
