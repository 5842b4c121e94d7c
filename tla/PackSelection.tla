---------------------------- MODULE PackSelection ----------------------------
(***************************************************************************)
(* From the dependency declarations of a repository to the migration pack  *)
(* of its analysis: how manifest_parser.py classifies a version specifier, *)
(* how the signals of a pack (migration/applicability.py) are evaluated    *)
(* and aggregated, which packs can be loaded (migration/loader.py), and    *)
(* how select_migration_pack (graph/nodes/profiling.py) ranks the packs.   *)
(*                                                                         *)
(* A version is the sequence of its numbers, a specifier the sequence of   *)
(* its clauses; confidences are whole hundredths of a percent.             *)
(***************************************************************************)
EXTENDS Collections, Integers, FiniteSetsExt, SequencesExt

None == <<>>          \* a bound that _classify_constraint does not set
Whole == 10000        \* confidence 1.0

-----------------------------------------------------------------------------
(* Version specifiers.                                                     *)

IsSpecifier(spec) ==
    IsSequence(spec) /\ \A i \in DOMAIN spec : spec[i].version \in Seq(Nat) \ {<<>>}

(* The last clause with one of the operators, as the loop overwrites.      *)
LastBound(spec, ops) ==
    LET given == {i \in DOMAIN spec : spec[i].op \in ops}
    IN  IF given = {} THEN None ELSE spec[Max(given)].version

(* Bounds are read from a list of clauses and from a single ~=, and not    *)
(* from any other single inequality.                                       *)
Classify(spec) ==
    LET op == spec[1].op
    IN  CASE spec = <<>> -> [kind |-> "unpinned", lower |-> None, upper |-> None]
          [] Len(spec) > 1 ->
                [kind |-> "bounded", lower |-> LastBound(spec, {">=", ">"}),
                 upper |-> LastBound(spec, {"<=", "<"})]
          [] Len(spec) = 1 /\ op = "==" ->
                [kind |-> "exact", lower |-> spec[1].version, upper |-> spec[1].version]
          [] Len(spec) = 1 /\ op = "~=" ->
                [kind |-> "bounded", lower |-> spec[1].version, upper |-> None]
          [] Len(spec) = 1 /\ op \in {"<", "<=", ">", ">=", "^", "~"} ->
                [kind |-> "range", lower |-> None, upper |-> None]
          [] OTHER -> [kind |-> "ambiguous", lower |-> None, upper |-> None]

(* Tuples of at most two numbers, compared as Python compares them: a      *)
(* proper prefix is the smaller one.  Versions with a part that is no      *)
(* number, for which both comparisons answer FALSE, are left out.          *)
MajorMinor(version) == SubSeq(version, 1, Min({2, Len(version)}))

VersionLt(version, bound) ==
    LET v == MajorMinor(version)
        b == MajorMinor(bound)
    IN  \/ \E i \in DOMAIN v \cap DOMAIN b :
              v[i] < b[i] /\ \A k \in 1 .. i - 1 : v[k] = b[k]
        \/ Len(v) < Len(b) /\ IsPrefix(v, b)

VersionGte(version, bound) == ~VersionLt(version, bound)

-----------------------------------------------------------------------------
(* Signals.                                                                *)

(* version_prefix "1.": the text of the version begins with the number and *)
(* a dot.                                                                  *)
StartsWith(version, major) == Len(version) > 1 /\ version[1] = major

Matches(signal, constraint) ==
    CASE signal.test = "exact" ->
            constraint.kind = "exact" /\ StartsWith(constraint.lower, signal.bound[1])
      [] signal.test = "upper_lt" ->
            constraint.upper # None /\ VersionLt(constraint.upper, signal.bound)
      [] signal.test = "lower_gte" ->
            constraint.lower # None /\ VersionGte(constraint.lower, signal.bound)
      [] signal.test = "unpinned" -> constraint.kind = "unpinned"
      [] OTHER -> TRUE

(* The constraints declared on a package anywhere in the repository.       *)
Declared(profile, package) ==
    {d.constraint : d \in {e \in profile.dependencies : e.package = package}}

(* What a manifest signal that fires says: a status and a confidence.  One *)
(* without a result_status says something only of an absent package.       *)
ManifestVerdicts(signal, profile) ==
    LET declared == Declared(profile, signal.package)
    IN  IF declared = {}
        THEN IF signal.required
             THEN {[status |-> signal.absence, confidence |-> Whole]}
             ELSE {}
        ELSE {[status |-> signal.status, confidence |-> signal.confidence] :
                 c \in {d \in declared : signal.status # "" /\ Matches(signal, d)}}

(* language_present asks the profile; the patterns are searched in every   *)
(* file of the language, also in those that the profile excludes.          *)
CodeVerdicts(signal, profile) ==
    IF \/ signal.test = "language" /\ signal.language \in profile.languages
       \/ signal.test = "pattern" /\ <<signal.language, signal.pattern>> \in profile.patterns
    THEN {[status |-> signal.status, confidence |-> signal.confidence]}
    ELSE {}

(* What a signal that fires says; one without a status is passed over.     *)
Verdicts(signal, profile) ==
    CASE signal.source = "manifest" -> ManifestVerdicts(signal, profile)
      [] OTHER -> CodeVerdicts(signal, profile)

(* The verdicts keep their signal: two equal ones count twice in the       *)
(* average of the fallback.                                                *)
Fired(pack, profile) ==
    UNION {{[signal |-> i, status |-> v.status, confidence |-> v.confidence] :
                v \in Verdicts(pack.signals[i], profile)} : i \in DOMAIN pack.signals}

-----------------------------------------------------------------------------
(* Aggregation.                                                            *)

Confidences(fired, status) == {v.confidence : v \in {w \in fired : w.status = status}}

Reaches(fired, status, threshold) == \E c \in Confidences(fired, status) : c >= threshold

Average(fired) ==
    IF fired = {} THEN 0
    ELSE SumFunction([v \in fired |-> v.confidence]) \div Cardinality(fired)

(* Variant: support is looked at first.                                    *)
AggregateSupportFirst(pack, fired) ==
    LET decided(status) ==
            [status |-> status, confidence |-> Max(Confidences(fired, status)), fallback |-> FALSE]
    IN  IF Reaches(fired, "SUPPORTED", pack.supported) THEN decided("SUPPORTED")
        ELSE IF Reaches(fired, "NOT_APPLICABLE", pack.notApplicable)
        THEN decided("NOT_APPLICABLE")
        ELSE [status |-> "SUPPORTED", confidence |-> Average(fired), fallback |-> TRUE]

(* _aggregate: a strong objection outweighs any support, and what neither  *)
(* decides gets the pack's default, with a warning.  default_map turns     *)
(* PROBABLE_NEEDS_REVIEW into SUPPORTED.                                   *)
Aggregate(pack, fired) ==
    LET decided(status) ==
            [status |-> status, confidence |-> Max(Confidences(fired, status)), fallback |-> FALSE]
        default == IF pack.default \in {"PROBABLE_NEEDS_REVIEW", "SUPPORTED"}
                   THEN "SUPPORTED" ELSE "NOT_APPLICABLE"
    IN  IF Reaches(fired, "NOT_APPLICABLE", pack.notApplicable)
        THEN decided("NOT_APPLICABLE")
        ELSE IF Reaches(fired, "SUPPORTED", pack.supported) THEN decided("SUPPORTED")
        ELSE [status |-> default, confidence |-> Average(fired), fallback |-> TRUE]

Assess(pack, profile) == Aggregate(pack, Fired(pack, profile))

-----------------------------------------------------------------------------
(* Installed packs.  A pack's directory is described by which of its files *)
(* are there and valid, the sources its rules cite and it knows, and the   *)
(* prompts whose front matter fits its id and declared version.            *)

RequiredYaml ==
    {"pack.yaml", "applicability.yaml", "detection_rules.yaml", "risk_rules.yaml",
     "trusted_sources.yaml", "validation_rules.yaml"}

RequiredPrompts ==
    {"documentation_research", "compatibility_interpretation", "migration_planning",
     "evidence_critic"}

(* load_pack succeeds; every failure of it is one exception to its caller. *)
Loads(pack) ==
    /\ RequiredYaml \subseteq pack.valid
    /\ pack.cited \subseteq pack.sources
    /\ RequiredPrompts \subseteq pack.prompts

(* load_all_packs: the first bad directory stops the loading, and so does  *)
(* having none.                                                            *)
AllLoad(packs) == packs # <<>> /\ \A i \in DOMAIN packs : Loads(packs[i])

(* The registry holds its packs by id, and list_ids sorts the ids; what a  *)
(* pack that loads has in applicability.yaml are numbers not below zero.   *)
IsRegistry(packs) ==
    /\ IsSequence(packs)
    /\ \A i, k \in DOMAIN packs : packs[i].id = packs[k].id => i = k
    /\ \A i \in DOMAIN packs :
          /\ IsSequence(packs[i].signals)
          /\ \A n \in DOMAIN packs[i].signals : packs[i].signals[n].confidence \in Nat

(* A manifest signal with which the pack objects to the version it leads   *)
(* to: exact_v4_version and lower_gte_4 of django-v3-to-v4, exact_v2_      *)
(* version and lower_gte_2 of pydantic-v1-to-v2.                           *)
Objects(pack, test) ==
    \E n \in DOMAIN pack.signals :
        /\ pack.signals[n].source = "manifest"
        /\ pack.signals[n].package = pack.package
        /\ pack.signals[n].test = test
        /\ pack.signals[n].bound = <<pack.target>>
        /\ pack.signals[n].status = "NOT_APPLICABLE"
        /\ pack.signals[n].confidence >= pack.notApplicable

ObjectsToTarget(pack) ==
    pack.target \in Nat /\ Objects(pack, "exact") /\ Objects(pack, "lower_gte")

-----------------------------------------------------------------------------
(* select_migration_pack, in standard mode and with a profile.             *)

Selectable == {"SUPPORTED", "PROBABLE_NEEDS_REVIEW"}

Rank(status) ==
    CASE status = "SUPPORTED" -> 0
      [] status = "PROBABLE_NEEDS_REVIEW" -> 1
      [] OTHER -> 99

Candidates(packs, profile) ==
    {LET assessment == Assess(packs[i], profile)
     IN  [place |-> i, pack |-> packs[i].id,
          status |-> assessment.status, confidence |-> assessment.confidence] :
        i \in DOMAIN packs}

(* By status, then by confidence; the sort is stable, and before it the    *)
(* candidates are in the order of list_ids, in which the packs are given.  *)
(*                                                                         *)
(* Variant: confidences sorted in the other direction.                     *)
AheadAscending(a, b) ==
    \/ Rank(a.status) < Rank(b.status)
    \/ Rank(a.status) = Rank(b.status) /\ a.confidence < b.confidence
    \/ Rank(a.status) = Rank(b.status) /\ a.confidence = b.confidence /\ a.place < b.place

Ahead(a, b) ==
    \/ Rank(a.status) < Rank(b.status)
    \/ Rank(a.status) = Rank(b.status) /\ a.confidence > b.confidence
    \/ Rank(a.status) = Rank(b.status) /\ a.confidence = b.confidence /\ a.place < b.place

First(candidates) == CHOOSE c \in candidates : \A d \in candidates \ {c} : Ahead(c, d)

Answer(status, pack, failed, warning) ==
    [status |-> status, pack |-> pack, failed |-> failed, warning |-> warning]

NoWarning == [kind |-> "none", about |-> ""]

(* The pack that the request names, assessed as it is.                     *)
Requested(packs, profile, id) ==
    IF \E i \in DOMAIN packs : packs[i].id = id
    THEN LET pack == packs[CHOOSE i \in DOMAIN packs : packs[i].id = id]
             assessment == Assess(pack, profile)
         IN  Answer(assessment.status, id, FALSE,
                    IF assessment.fallback THEN [kind |-> "fallback", about |-> id] ELSE NoWarning)
    ELSE Answer("ERROR", id, TRUE, NoWarning)

(* Every installed pack is assessed.  The warnings of the assessments are  *)
(* dropped; the one about an alternative looks at the second candidate's   *)
(* confidence (a gap of 0.10 or less) and not at its status.               *)
AutoDetect(packs, profile) ==
    LET candidates == Candidates(packs, profile)
        best == First(candidates)
        second == First(candidates \ {best})
        close == /\ Cardinality(candidates) > 1
                 /\ best.confidence - second.confidence \in -1000 .. 1000
    IN  IF best.status \notin Selectable THEN Answer("NOT_APPLICABLE", "", TRUE, NoWarning)
        ELSE Answer(best.status, best.pack, FALSE,
                    IF close THEN [kind |-> "alternative", about |-> second.pack] ELSE NoWarning)

(* id is "" when the request leaves the pack open.                         *)
Select(packs, profile, id) ==
    IF ~AllLoad(packs) THEN Answer("ERROR", id, TRUE, NoWarning)
    ELSE IF id # "" THEN Requested(packs, profile, id)
    ELSE AutoDetect(packs, profile)

=============================================================================
