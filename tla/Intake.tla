------------------------------- MODULE Intake -------------------------------
(***************************************************************************)
(* The gates of an analysis with their services: Acquisition fills the     *)
(* workspace, profile_repository (graph/nodes/profiling.py) profiles it,   *)
(* select_migration_pack chooses a pack, and parse_dependencies, the first *)
(* of the branches behind the gates, reads the manifests again.  After     *)
(* that the run may end or raise, and the worker may attempt it again.     *)
(***************************************************************************)
EXTENDS Acquisition, RepositoryProfile

CONSTANTS
    Installations,   \* what the directory of packs may hold, as sequences
    Requests,        \* migration_pack of the request, "" when left open
    NoProfile

VARIABLES
    gate,           \* the gate to be passed next, or where the run stands
    packs,          \* the packs installed when they were loaded, in order
    request,
    profile,
    answer,         \* what select_migration_pack answered
    dependencies    \* the dependencies of the analysis

intakeVars == <<gate, packs, request, profile, answer, dependencies>>
vars == <<acqVars, intakeVars>>

ASSUME IntakeAssumption ==
    \A m \in Members : m.kind = "file" => IsFile(m)

(* The members of a commit's archive that are files, by what they hold.    *)
Contents == [c \in Commits |-> {m \in Members :
                m.kind = "file" /\ \E i \in DOMAIN Tree[c] : Tree[c][i] = m}]

(* What is installed, when all of it loads: packs under ids of their own,  *)
(* each of which objects to the version it leads to.                       *)
ASSUME InstallationsAssumption ==
    \A given \in Installations :
        AllLoad(given) =>
            IsRegistry(given) /\ \A i \in DOMAIN given : ObjectsToTarget(given[i])

(* No pack was looked for yet.                                             *)
NoAnswer == Answer("none", "", FALSE, NoWarning)

FilesOf(c) == {[commit |-> c, file |-> m] : m \in Contents[c]}

SharePath(c, d) == \E f \in Contents[c], g \in Contents[d] : f.path = g.path

(* What is in the workspace now, and of which commit.                      *)
Workspace == UNION {{f \in Contents[disk[p].commit] : f.path = p} :
                        p \in {q \in Paths : disk[q] # Nothing}}

OnDisk == {[commit |-> disk[f.path].commit, file |-> f] : f \in Workspace}

Init ==
    /\ AcqInit
    /\ gate = "acquire"
    /\ packs = <<>>
    /\ request \in Requests
    /\ profile = NoProfile
    /\ answer = NoAnswer
    /\ dependencies = {}

-----------------------------------------------------------------------------
(* The nodes.                                                              *)

AcquireRepository ==
    /\ gate = "acquire"
    /\ Acquire
    /\ gate' = CASE step' = "acquired" -> "profile"
                 [] step' = "failed" -> "terminal"
                 [] OTHER -> "acquire"
    /\ UNCHANGED <<packs, request, profile, answer, dependencies>>

(* Only what the profiler does not catch itself fails the node.            *)
ProfileRepository ==
    /\ gate = "profile"
    /\ \/ gate' = "select" /\ profile' = ProfileOf(Workspace)
       \/ gate' = "terminal" /\ UNCHANGED profile
    /\ UNCHANGED <<acqVars, packs, request, answer, dependencies>>

NotMigratable == {"NOT_APPLICABLE", "UNSUPPORTED", "ERROR"}

(* The packs are loaded anew; any exception is an ERROR.                   *)
SelectMigrationPack ==
    /\ gate = "select"
    /\ packs' \in Installations
    /\ answer' \in {Select(packs', profile, request),
                    Answer("ERROR", request, TRUE, NoWarning)}
    /\ gate' = IF answer'.status \in NotMigratable THEN "terminal" ELSE "analyse"
    /\ UNCHANGED <<acqVars, request, profile, dependencies>>

ParseDependenciesNode ==
    /\ gate = "analyse"
    /\ dependencies = {}
    /\ dependencies' = ParseDependencies(Workspace, profile)
    /\ UNCHANGED <<acqVars, gate, packs, request, profile, answer>>

(* The run raised behind the gates, or its result could not be stored.     *)
RunAgain ==
    /\ gate \in {"analyse", "terminal"}
    /\ Retry
    /\ gate' = "acquire"
    /\ profile' = NoProfile
    /\ answer' = NoAnswer
    /\ dependencies' = {}
    /\ packs' = <<>>
    /\ UNCHANGED request

Next ==
    \/ AcquireRepository
    \/ ProfileRepository
    \/ SelectMigrationPack
    \/ ParseDependenciesNode
    \/ RunAgain
    \/ Push /\ UNCHANGED intakeVars

Spec == Init /\ [][Next]_vars

(* The event loop goes on with a coroutine whose request was answered, and *)
(* every request has a timeout; pushes and retries are not owed.           *)
Fairness == WF_vars(AcquireRepository \/ ProfileRepository \/ SelectMigrationPack)

FairSpec == Spec /\ Fairness

-----------------------------------------------------------------------------
(* Properties.                                                             *)

Steps == Endpoints \cup {"download", "validate", "write", "acquired", "failed"}

Codes == {"none", "REPOSITORY_INACCESSIBLE", "SAFETY_LIMIT_EXCEEDED", "INTERNAL_ERROR"}

PackAnswers ==
    [status : {"SUPPORTED", "PROBABLE_NEEDS_REVIEW", "NOT_APPLICABLE", "UNSUPPORTED"},
     failed : {FALSE}]
    \cup [status : {"NOT_APPLICABLE", "ERROR"}, failed : {TRUE}]

(* The locals of the node, the workspace and the fields of the state hold  *)
(* what the code can put there, within the limits it counts against.       *)
IntakeTypeOK ==
    /\ {wanted, branch, tag, sha} \subseteq Commits \cup {NoCommit}
    /\ step \in Steps /\ error \in Codes
    /\ tries \in 0 .. MaxRetries
    /\ received \in 0 .. MaxCompressed + 1
    /\ totals.bytes \in 0 .. MaxExtracted /\ totals.files \in 0 .. MaxFiles
    /\ disk \in [Paths -> [commit : Commits, attempt : 1 .. attempt] \cup {Nothing}]
    /\ gate \in {"acquire", "profile", "select", "analyse", "terminal"}

(* What an archive must be to be extracted, read off as a whole instead of *)
(* member by member: max_archive_* and max_path_depth of config.py.        *)
Files(c) == {i \in DOMAIN Tree[c] : Tree[c][i].kind = "file"}

Sound == {c \in Commits :
    /\ \A i \in DOMAIN Tree[c] :
          /\ Tree[c][i].kind \in {"file", "dir"}
          /\ Tree[c][i].safe
          /\ Tree[c][i].depth <= MaxDepth
    /\ \A i \in Files(c) : Tree[c][i].size <= MaxSingle
    /\ SumFunction([i \in Files(c) |-> Tree[c][i].size]) <= MaxExtracted
    /\ Cardinality(Files(c)) <= MaxFiles
    /\ Weight[c] <= MaxCompressed}

(* SafeArchiveDownloader, "All safety checks are applied before any byte   *)
(* is written to disk": not one file of an archive that breaks a limit     *)
(* anywhere is ever in the workspace, in whatever attempt.                 *)
ChecksPrecedeWrites == \A p \in Paths : disk[p] # Nothing => disk[p].commit \in Sound

Verdict(given) == [status |-> given.status, failed |-> given.failed]

(* The gates hand on whole trees or end the analysis, although the archive *)
(* is written file by file, writing may fail at each, and an earlier       *)
(* attempt may have left its files: no part of a tree is ever beside       *)
(* another one, and a first attempt hands on one commit.                   *)
Gates == INSTANCE RepositoryGates WITH
    held <- IF gate \in {"profile", "select", "analyse"} THEN OnDisk ELSE {},
    verdict <- Verdict(answer),
    retried <- attempt > 1,
    Meet <- SharePath,
    Answers <- PackAnswers,
    NoAnswer <- Verdict(NoAnswer)

ImplementsGates == Gates!Spec

(* A manifest that pins the package at the version a pack migrates to, or  *)
(* requires at least that in a list of clauses, keeps the pack from being  *)
(* selected, whatever other manifests, other clauses or the code say.      *)
RequiresTarget(spec, major) ==
    \/ Len(spec) = 1 /\ spec[1].op = "==" /\ StartsWith(spec[1].version, major)
    \/ Len(spec) > 1 /\ \E i \in DOMAIN spec :
          /\ spec[i].op = ">=" /\ spec[i].version[1] >= major
          /\ \A k \in DOMAIN spec \ {i} : spec[k].op \notin {">=", ">"}

MigratedStaysOut ==
    gate = "analyse" =>
        \A i \in DOMAIN packs : packs[i].id = answer.pack =>
            \A f \in Visited(Workspace) : \A d \in f.declares :
                /\ f.manifest \notin {"", "setup"}
                /\ f.flaw # "toml"
                /\ d.package = packs[i].package
                => ~RequiresTarget(d.spec, packs[i].target)

(* Auto-detection picks no pack that a request by name would be refused,   *)
(* and leaves none aside that applies with more confidence.                *)
BestIsSelected ==
    gate = "analyse" =>
        \A i \in DOMAIN packs :
            LET assessment == Assess(packs[i], profile)
            IN  IF packs[i].id = answer.pack THEN assessment.status = answer.status
                ELSE request = "" /\ assessment.status = "SUPPORTED" =>
                        \E k \in DOMAIN packs :
                            /\ packs[k].id = answer.pack
                            /\ Assess(packs[k], profile).confidence >= assessment.confidence

(* The manifests are read twice, by different code: the dependencies of    *)
(* the analysis are entries the pack was chosen by, all but those of       *)
(* manifests with an error or an oddly spelled name.                       *)
DependenciesAgree ==
    dependencies # {} =>
        /\ dependencies \subseteq profile.dependencies
        /\ \A d \in profile.dependencies \ dependencies :
              \E f \in Workspace :
                  f.path = d.path /\ (f.flaw # "none" \/ f.manifest = "Requirements")

(* What is left: attempts, gates, steps of the acquisition, and in a step  *)
(* the retries of its request, the chunks or the members of the archive.   *)
GatesLeft ==
    CASE gate = "acquire" -> 4 [] gate = "profile" -> 3 [] gate = "select" -> 2
      [] gate = "analyse" /\ dependencies = {} -> 1
      [] OTHER -> 0

StepsLeft ==
    CASE step = "metadata" -> 7 [] step = "commits" -> 6 [] step = "heads" -> 5
      [] step = "tags" -> 4 [] step = "download" -> 3 [] step = "validate" -> 2
      [] step = "write" -> 1
      [] OTHER -> 0

UnitsLeft ==
    CASE step \in Endpoints -> MaxRetries - tries
      [] step = "download" -> Weight[sha] - received
      [] step \in {"validate", "write"} -> Len(Tree[sha]) + 1 - cursor
      [] OTHER -> 0

Left == <<Attempts - attempt, GatesLeft, StepsLeft, UnitsLeft>>

(* Whatever GitHub answers or keeps from answering, and wherever a branch  *)
(* is pushed meanwhile, an attempt only goes on: _get gives a request up   *)
(* after max_retries, resolve_ref never returns to an endpoint it has      *)
(* left, and both passes of the extraction end.                            *)
IntakeAdvances == [][branch' = branch => LessLeft(Left', Left)]_vars

(* Every attempt goes on until it is past its gates or stopped by one,     *)
(* however often GitHub does not answer.                                   *)
IntakeEnds ==
    /\ IntakeAdvances
    /\ [](gate = "acquire" => <>(gate \in {"analyse", "terminal"}))

(* applicability.yaml, "Lower bound >=2.0 - repository already requires    *)
(* pydantic v2": then the pack is not selected.                            *)
LowerBoundDecides ==
    gate = "analyse" =>
        \A i \in DOMAIN packs : packs[i].id = answer.pack =>
            \A f \in Visited(Workspace) : \A d \in f.declares :
                /\ f.manifest = "requirements"
                /\ d.package = packs[i].package
                /\ Len(d.spec) = 1 /\ d.spec[1].op = ">="
                => d.spec[1].version[1] < packs[i].target

=============================================================================
