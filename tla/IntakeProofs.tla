---------------------------- MODULE IntakeProofs ----------------------------
(***************************************************************************)
(* Proofs about Intake, for any commits, archives, limits and packs: the   *)
(* gates hand on whole trees or nothing (RepositoryGates).                 *)
(***************************************************************************)
EXTENDS Intake, CollectionLemmas

(* The paths of the files of a commit, and of those before a member.       *)
FilePaths(c) == {f.path : f \in Contents[c]}

Before(c, n) == {Tree[c][i].path : i \in {k \in DOMAIN Tree[c] :
                    k < n /\ Tree[c][k].kind = "file"}}

(* The paths of a workspace d that hold a file of c.                       *)
Owns(d, c) == {p \in Paths : d[p].commit = c}

(* Every file of c has a path of its own; so have those before a member.   *)
Distinct(c) == \A f, g \in Contents[c] : f.path = g.path => f = g

Apart(c, n) == \A i, k \in DOMAIN Tree[c] :
    /\ i < k /\ k < n
    /\ Tree[c][i].kind = "file" /\ Tree[c][k].kind = "file"
    => Tree[c][i].path # Tree[c][k].path

(* d holds all of c or nothing of it.                                      *)
All(d, c) == Owns(d, c) = FilePaths(c) /\ Distinct(c)

Intact(d, c) == Owns(d, c) = {} \/ All(d, c)

(* Between extractions every tree is whole, also one that an earlier       *)
(* attempt left; during one only that of sha may be cut off, at the        *)
(* member to be written next.  The first attempt finds nothing.            *)
WholeTrees(d) == \A c \in Commits : Intact(d, c)

Partial(d, c, n) ==
    /\ \A b \in Commits \ {c} : Intact(d, b)
    /\ \/ All(d, c)
       \/ Owns(d, c) = Before(c, n) /\ Apart(c, n)

Placed ==
    /\ step = "write" => Partial(disk, sha, cursor)
    /\ step = "acquired" => All(disk, sha)
    /\ step # "write" => WholeTrees(disk)
    /\ attempt = 1 => \A c \in Commits : Owns(disk, c) # {} =>
                           step \in {"write", "acquired"} /\ c = sha

Disks(n) == [Paths -> [commit : Commits, attempt : 1 .. n] \cup {Nothing}]

Downloading == {"download", "validate", "write", "acquired"}

AcqTypeOK ==
    /\ wanted \in Commits \cup {NoCommit}
    /\ branch \in Commits \cup {NoCommit}
    /\ tag \in Commits \cup {NoCommit}
    /\ sha \in Commits \cup {NoCommit}
    /\ attempt \in Nat \ {0}
    /\ step \in Steps /\ error \in Codes
    /\ tries \in 0 .. MaxRetries
    /\ received \in 0 .. MaxCompressed + 1
    /\ cursor \in Nat \ {0}
    /\ totals \in [bytes : 0 .. MaxExtracted, files : 0 .. MaxFiles]
    /\ disk \in Disks(attempt)

AcqInv ==
    /\ AcqTypeOK
    /\ step \in Downloading => sha \in Commits
    /\ step \in Endpoints \cup {"download"} => received <= MaxCompressed
    /\ Placed

(* The node is done when the gate is passed, and not before.               *)
GatesInStep ==
    /\ gate \in {"acquire", "profile", "select", "analyse", "terminal"}
    /\ gate = "acquire" => step \notin {"acquired", "failed"}
    /\ gate \in {"profile", "select", "analyse"} => step = "acquired"
    /\ gate = "terminal" => step \in {"acquired", "failed"}

IInv == AcqInv /\ GatesInStep

-----------------------------------------------------------------------------
(* Archives.                                                               *)

LEMMA NoCommitApart == NoCommit \notin Commits
  BY AcquisitionAssumption

LEMMA TreeType ==
    ASSUME NEW c \in Commits
    PROVE  /\ Tree[c] \in Seq(Members)
           /\ DOMAIN Tree[c] = 1 .. Len(Tree[c])
           /\ Len(Tree[c]) \in Nat
           /\ \A i \in DOMAIN Tree[c] : Tree[c][i] \in Members /\ Tree[c][i].path \in Paths
  <1>1. Tree[c] \in Seq(Members)
    BY AcquisitionAssumption
  <1>2. \A i \in DOMAIN Tree[c] : Tree[c][i] \in Members
    BY DEF Members
  <1>3. QED
    BY <1>1, <1>2 DEF Paths

LEMMA ContentsType ==
    ASSUME NEW c \in Commits
    PROVE  /\ Contents[c] = {m \in Members :
                  m.kind = "file" /\ \E i \in DOMAIN Tree[c] : Tree[c][i] = m}
           /\ FilePaths(c) \subseteq Paths
  BY DEF Contents, FilePaths, Paths

LEMMA FileOfMember ==
    ASSUME NEW c \in Commits
    PROVE  FilePaths(c) = {Tree[c][i].path : i \in {k \in DOMAIN Tree[c] :
                              Tree[c][k].kind = "file"}}
  <1>1. ASSUME NEW p \in FilePaths(c)
        PROVE  \E i \in DOMAIN Tree[c] : Tree[c][i].kind = "file" /\ Tree[c][i].path = p
    <2>1. PICK m \in Contents[c] : m.path = p
      BY DEF FilePaths
    <2>2. QED
      BY <2>1, ContentsType
  <1>2. ASSUME NEW i \in DOMAIN Tree[c], Tree[c][i].kind = "file"
        PROVE  Tree[c][i].path \in FilePaths(c)
    <2>1. Tree[c][i] \in Contents[c]
      BY <1>2, TreeType, ContentsType
    <2>2. QED
      BY <2>1 DEF FilePaths
  <1>3. QED
    BY <1>1, <1>2

LEMMA BeforeAll ==
    ASSUME NEW c \in Commits, NEW n \in Nat \ {0}, n \notin DOMAIN Tree[c]
    PROVE  /\ Before(c, n) = FilePaths(c)
           /\ Apart(c, n) => Distinct(c)
  <1>1. \A i \in DOMAIN Tree[c] : i < n /\ i \in Nat
    BY TreeType
  <1>2. Before(c, n) = FilePaths(c)
    BY <1>1, FileOfMember DEF Before
  <1>3. ASSUME Apart(c, n), NEW f \in Contents[c], NEW g \in Contents[c], f.path = g.path
        PROVE  f = g
    <2>1. PICK i \in DOMAIN Tree[c] : Tree[c][i] = f /\ Tree[c][i].kind = "file"
      BY ContentsType
    <2>2. PICK k \in DOMAIN Tree[c] : Tree[c][k] = g /\ Tree[c][k].kind = "file"
      BY ContentsType
    <2>3. i = k
      BY <1>1, <1>3, <2>1, <2>2 DEF Apart
    <2>4. QED
      BY <2>1, <2>2, <2>3
  <1>4. QED
    BY <1>2, <1>3 DEF Distinct

LEMMA BeforeNext ==
    ASSUME NEW c \in Commits, NEW n \in DOMAIN Tree[c]
    PROVE  Before(c, n + 1) = IF Tree[c][n].kind = "file"
                              THEN Before(c, n) \cup {Tree[c][n].path} ELSE Before(c, n)
  <1>1. n \in Nat /\ DOMAIN Tree[c] \subseteq Nat
    BY TreeType
  <1>2. \A k \in DOMAIN Tree[c] : k < n + 1 <=> k < n \/ k = n
    BY <1>1
  <1>3. QED
    BY <1>2 DEF Before

-----------------------------------------------------------------------------
(* Workspaces.                                                             *)

LEMMA OwnerType ==
    ASSUME NEW n \in Nat, NEW d \in Disks(n), NEW p \in Paths
    PROVE  /\ d[p].commit \in Commits \cup {NoCommit}
           /\ d[p] = Nothing <=> d[p].commit = NoCommit
  BY NoCommitApart DEF Disks, Nothing

LEMMA CleanType ==
    /\ \A n \in Nat : Clean \in Disks(n)
    /\ \A c \in Commits : Owns(Clean, c) = {}
    /\ WholeTrees(Clean)
  <1>1. \A c \in Commits : Owns(Clean, c) = {}
    BY NoCommitApart DEF Clean, Nothing, Owns
  <1>2. \A n \in Nat : Clean \in Disks(n)
    BY DEF Clean, Disks
  <1>3. QED
    BY <1>1, <1>2 DEF WholeTrees, Intact

(* The writing of a tree finds all of it, from before, or nothing.         *)
LEMMA WholeStarts ==
    ASSUME NEW d, WholeTrees(d), NEW c \in Commits
    PROVE  Partial(d, c, 1)
  <1>1. Before(c, 1) = {}
    BY TreeType DEF Before
  <1>2. Apart(c, 1)
    BY TreeType DEF Apart
  <1>3. QED
    BY <1>1, <1>2 DEF WholeTrees, Intact, Partial

LEMMA PassMember ==
    ASSUME NEW d, NEW c \in Commits, NEW n \in DOMAIN Tree[c],
           Partial(d, c, n), Tree[c][n].kind # "file"
    PROVE  Partial(d, c, n + 1)
  <1>1. n \in Nat /\ DOMAIN Tree[c] \subseteq Nat
    BY TreeType
  <1>2. Apart(c, n) => Apart(c, n + 1)
    BY <1>1 DEF Apart
  <1>3. Before(c, n + 1) = Before(c, n)
    BY BeforeNext
  <1>4. QED
    BY <1>2, <1>3 DEF Partial

(* A file that can be opened for writing is none of a tree that is there.  *)
LEMMA WriteFile ==
    ASSUME NEW k \in Nat \ {0}, NEW d \in Disks(k), NEW c \in Commits, NEW n \in DOMAIN Tree[c],
           Partial(d, c, n), Tree[c][n].kind = "file", d[Tree[c][n].path] = Nothing
    PROVE  LET e == [d EXCEPT ![Tree[c][n].path] = [commit |-> c, attempt |-> k]]
           IN  /\ e \in Disks(k) /\ Partial(e, c, n + 1)
               /\ \A b \in Commits \ {c} : Owns(e, b) = Owns(d, b)
  <1> DEFINE path == Tree[c][n].path
             e == [d EXCEPT ![path] = [commit |-> c, attempt |-> k]]
  <1>1. n \in Nat /\ DOMAIN Tree[c] \subseteq Nat /\ path \in Paths
    BY TreeType
  <1>2. e \in Disks(k)
    BY <1>1 DEF Disks
  <1>3. /\ e[path].commit = c /\ d[path].commit = NoCommit
        /\ \A p \in Paths \ {path} : e[p].commit = d[p].commit
    BY <1>1 DEF Disks, Nothing
  <1>4. \A b \in Commits \ {c} : Owns(e, b) = Owns(d, b)
    BY <1>3, NoCommitApart DEF Owns
  <1>5. Owns(e, c) = Owns(d, c) \cup {path} /\ path \notin Owns(d, c)
    BY <1>1, <1>3, NoCommitApart DEF Owns
  <1>6. path \in FilePaths(c)
    BY FileOfMember
  <1>7. Owns(d, c) = Before(c, n) /\ Apart(c, n)
    BY <1>5, <1>6 DEF Partial, All
  <1>8. Owns(e, c) = Before(c, n + 1)
    BY <1>5, <1>7, BeforeNext
  <1>9. ASSUME NEW i \in DOMAIN Tree[c], NEW j \in DOMAIN Tree[c], i < j, j < n + 1,
               Tree[c][i].kind = "file", Tree[c][j].kind = "file"
        PROVE  Tree[c][i].path # Tree[c][j].path
    <2>1. i \in Nat /\ j \in Nat
      BY <1>1
    <2>2. CASE j < n
      BY <1>7, <1>9, <2>2 DEF Apart
    <2>3. CASE j = n
      <3>1. Tree[c][i].path \in Before(c, n)
        BY <1>9, <2>3 DEF Before
      <3>2. QED
        BY <1>5, <1>7, <2>3, <3>1
    <2>4. QED
      BY <1>1, <1>9, <2>1, <2>2, <2>3
  <1>10. Apart(c, n + 1)
    BY <1>9 DEF Apart
  <1>11. \A b \in Commits \ {c} : Intact(e, b)
    BY <1>4 DEF Partial, Intact, All
  <1>12. QED
    BY <1>2, <1>4, <1>8, <1>10, <1>11 DEF Partial

(* Workspace and OnDisk, as functions of the disk.                         *)
FilesOn(d) == UNION {{f \in Contents[d[p].commit] : f.path = p} :
                        p \in {q \in Paths : d[q] # Nothing}}

HeldOn(d) == {[commit |-> d[f.path].commit, file |-> f] : f \in FilesOn(d)}

(* The commits whose trees the gates hand on with that of sha.             *)
LeftBy(d) == {c \in Commits : Owns(d, c) # {}}

(* Whole trees are handed on whole, and no two of them meet.               *)
LEMMA WholeIsHeld ==
    ASSUME NEW k \in Nat, NEW d \in Disks(k), WholeTrees(d), NEW c \in Commits, All(d, c)
    PROVE  /\ \A f, g \in FilesOn(d) : f.path = g.path => f = g
           /\ HeldOn(d) = UNION {FilesOf(b) : b \in LeftBy(d) \cup {c}}
           /\ \A a, b \in LeftBy(d) \cup {c} : a # b => ~SharePath(a, b)
  <1> DEFINE S == LeftBy(d) \cup {c}
  <1>1. \A b \in S : b \in Commits /\ Owns(d, b) = FilePaths(b) /\ Distinct(b)
    BY DEF LeftBy, WholeTrees, Intact, All
  <1>2. ASSUME NEW b \in S, NEW f \in Contents[b]
        PROVE  f \in FilesOn(d) /\ d[f.path].commit = b
    <2>1. f.path \in Paths /\ d[f.path].commit = b
      BY <1>1 DEF FilePaths, Owns
    <2>2. d[f.path] # Nothing
      BY <1>1, <2>1, NoCommitApart DEF Nothing
    <2>3. QED
      BY <2>1, <2>2 DEF FilesOn
  <1>3. ASSUME NEW f \in FilesOn(d)
        PROVE  \E b \in S : f \in Contents[b] /\ d[f.path].commit = b
    <2>1. PICK p \in {q \in Paths : d[q] # Nothing} : f \in Contents[d[p].commit] /\ f.path = p
      BY DEF FilesOn
    <2>2. d[p].commit \in Commits
      BY <2>1, OwnerType
    <2>3. d[p].commit \in LeftBy(d)
      BY <2>1, <2>2 DEF LeftBy, Owns
    <2>4. QED
      BY <2>1, <2>3
  <1>4. ASSUME NEW f \in FilesOn(d), NEW g \in FilesOn(d), f.path = g.path
        PROVE  f = g
    <2>1. PICK b \in S : f \in Contents[b] /\ d[f.path].commit = b
      BY <1>3
    <2>2. g \in Contents[b]
      BY <1>3, <1>4, <2>1
    <2>3. QED
      BY <1>1, <1>4, <2>1, <2>2 DEF Distinct
  <1>5. HeldOn(d) \subseteq UNION {FilesOf(b) : b \in S}
    <2>1. ASSUME NEW f \in FilesOn(d)
          PROVE  \E b \in S : [commit |-> d[f.path].commit, file |-> f] \in FilesOf(b)
      BY <1>3 DEF FilesOf
    <2>2. QED
      BY <2>1 DEF HeldOn
  <1>6. UNION {FilesOf(b) : b \in S} \subseteq HeldOn(d)
    <2>1. ASSUME NEW b \in S, NEW h \in FilesOf(b)
          PROVE  h \in HeldOn(d)
      <3>1. PICK f \in Contents[b] : h = [commit |-> b, file |-> f]
        BY DEF FilesOf
      <3>2. f \in FilesOn(d) /\ d[f.path].commit = b
        BY <1>2
      <3>3. QED
        BY <3>1, <3>2 DEF HeldOn
    <2>2. QED
      BY <2>1
  <1>7. ASSUME NEW a \in S, NEW b \in S, SharePath(a, b)
        PROVE  a = b
    <2>1. PICK f \in Contents[a], g \in Contents[b] : f.path = g.path
      BY <1>7 DEF SharePath
    <2>2. QED
      BY <1>2, <2>1
  <1>8. QED
    BY <1>4, <1>5, <1>6, <1>7

-----------------------------------------------------------------------------
(* The steps of Acquisition.                                               *)

LEMMA LimitsType ==
    /\ MaxRetries \in Nat /\ MaxCompressed \in Nat
    /\ MaxExtracted \in Nat /\ MaxFiles \in Nat
    /\ MaxDepth \in Nat /\ MaxSingle \in Nat
    /\ Attempts \in Nat \ {0}
  BY AcquisitionAssumption

(* A step that leaves the workspace alone, outside of the writing.         *)
LEMMA DiskKept ==
    ASSUME AcqInv, step \notin {"write", "acquired"}, UNCHANGED <<attempt, disk>>,
           step' \notin {"write", "acquired"}
    PROVE  Placed'
  BY DEF AcqInv, Placed

LEMMA FailType ==
    ASSUME AcqInv, NEW code \in Codes, Fail(code)
    PROVE  step' = "failed" /\ error' = code /\ tries' = 0
           /\ step' \in Steps /\ error' \in Codes /\ tries' \in 0 .. MaxRetries
  BY LimitsType DEF Fail, Steps

LEMMA CodesType == {"REPOSITORY_INACCESSIBLE", "SAFETY_LIMIT_EXCEEDED", "INTERNAL_ERROR"}
                       \subseteq Codes
  BY DEF Codes

(* One request: the workspace and the archive are not touched.             *)
LEMMA RequestStep ==
    ASSUME AcqInv, Answered \/ Refused \/ Outage \/ Limited
    PROVE  AcqInv' /\ step' # "acquired"
  <1>1. step \in Endpoints
        /\ UNCHANGED <<wanted, branch, tag, attempt, received, cursor, totals, disk>>
    BY DEF Answered, Refused, Outage, Limited, remoteVars, archiveVars
  <1>2. /\ step' \in Endpoints \cup {"download", "failed"}
        /\ error' \in Codes
        /\ tries' \in 0 .. MaxRetries
        /\ sha' \in Commits \cup {NoCommit}
        /\ step' = "download" => sha' \in Commits
    <2>1. CASE Answered
      <3>1. CASE step = "metadata"
        BY <2>1, <3>1, LimitsType DEF Answered, AcqInv, AcqTypeOK, Endpoints
      <3>2. CASE step # "metadata"
        <4>1. Points(step) \in Commits
          BY <1>1, <2>1, <3>2 DEF Answered, Points, AcqInv, AcqTypeOK, Endpoints
        <4>2. QED
          BY <2>1, <3>2, <4>1, LimitsType DEF Answered, AcqInv, AcqTypeOK
      <3>3. QED
        BY <3>1, <3>2
    <2>2. ASSUME Inaccessible
          PROVE  step' \in Endpoints \cup {"failed"} /\ error' \in Codes
                 /\ tries' \in 0 .. MaxRetries
      BY <2>2, LimitsType, CodesType
      DEF Inaccessible, Fail, AcqInv, AcqTypeOK, Endpoints
    <2>3. CASE Refused
      BY <1>1, <2>2, <2>3 DEF Refused, AcqInv, AcqTypeOK, Endpoints
    <2>4. CASE Outage
      <3>1. CASE tries < MaxRetries
        BY <1>1, <2>4, <3>1, LimitsType DEF Outage, AcqInv, AcqTypeOK, Endpoints
      <3>2. CASE ~(tries < MaxRetries)
        BY <1>1, <2>2, <2>4, <3>2 DEF Outage, AcqInv, AcqTypeOK, Endpoints
      <3>3. QED
        BY <3>1, <3>2
    <2>5. CASE Limited
      BY <2>5, FailType, CodesType DEF Limited, Fail, AcqInv, AcqTypeOK
    <2>6. QED
      BY <2>1, <2>3, <2>4, <2>5
  <1>3. Placed'
    BY <1>1, <1>2, DiskKept DEF Endpoints
  <1>4. AcqTypeOK'
    BY <1>1, <1>2 DEF AcqInv, AcqTypeOK, Steps
  <1>5. QED
    BY <1>1, <1>2, <1>3, <1>4 DEF AcqInv, Downloading, Endpoints

LEMMA DownloadStep ==
    ASSUME AcqInv, Chunk \/ DownloadFails
    PROVE  AcqInv' /\ step' # "acquired"
  <1>1. /\ step = "download" /\ sha \in Commits
        /\ UNCHANGED <<wanted, branch, tag, attempt, sha, cursor, totals, disk>>
    BY DEF Chunk, DownloadFails, remoteVars, archiveVars, AcqInv, Downloading
  <1>2. /\ step' \in {"download", "failed"}
        /\ error' \in Codes /\ tries' \in 0 .. MaxRetries
        /\ received' \in 0 .. MaxCompressed + 1
        /\ step' = "download" => received' <= MaxCompressed
    <2>1. received \in Nat /\ received <= MaxCompressed
      BY <1>1, LimitsType DEF AcqInv, AcqTypeOK
    <2>2. CASE Chunk
      BY <1>1, <2>1, <2>2, LimitsType, CodesType DEF Chunk, Fail, AcqInv, AcqTypeOK
    <2>3. CASE DownloadFails
      BY <2>1, <2>3, LimitsType, CodesType DEF DownloadFails, Fail, archiveVars
    <2>4. QED
      BY <2>2, <2>3
  <1>3. Placed'
    BY <1>1, <1>2, DiskKept
  <1>4. AcqTypeOK'
    BY <1>1, <1>2 DEF AcqInv, AcqTypeOK, Steps
  <1>5. QED
    BY <1>1, <1>2, <1>3, <1>4 DEF AcqInv, Downloading, Endpoints

(* Whatever fails in _extract_safely leaves no workspace.                  *)
LEMMA DiscardStep ==
    ASSUME AcqInv, NEW code \in Codes, Discard(code), UNCHANGED <<cursor, totals>>,
           UNCHANGED <<remoteVars, attempt, sha, received>>
    PROVE  AcqInv' /\ step' # "acquired"
  <1>1. step' = "failed" /\ error' = code /\ tries' = 0 /\ disk' = Clean
    BY DEF Discard, Fail
  <1>2. /\ disk' \in Disks(attempt) /\ WholeTrees(disk')
        /\ \A c \in Commits : Owns(disk', c) = {}
    BY <1>1, CleanType DEF AcqInv, AcqTypeOK
  <1>3. Placed'
    BY <1>1, <1>2 DEF Placed
  <1>4. AcqTypeOK'
    BY <1>1, <1>2, LimitsType DEF AcqInv, AcqTypeOK, Steps, remoteVars
  <1>5. QED
    BY <1>1, <1>3, <1>4 DEF AcqInv, Downloading, Endpoints

LEMMA DownloadedStep ==
    ASSUME AcqInv, Downloaded
    PROVE  AcqInv' /\ step' # "acquired"
  <1>1. /\ step = "download" /\ sha \in Commits
        /\ UNCHANGED <<remoteVars, attempt, sha, received>>
    BY DEF Downloaded, AcqInv, Downloading
  <1>2. CASE sha \in Corrupt
    <2>1. Discard("INTERNAL_ERROR") /\ UNCHANGED <<cursor, totals>>
      BY <1>2 DEF Downloaded
    <2>2. QED
      BY <1>1, <2>1, DiscardStep, CodesType
  <1>3. CASE sha \notin Corrupt
    <2>1. /\ step' = "validate" /\ cursor' = 1 /\ totals' = NoTotals
          /\ UNCHANGED <<tries, error, disk>>
      BY <1>3 DEF Downloaded
    <2>2. AcqTypeOK'
      BY <1>1, <2>1, LimitsType DEF AcqInv, AcqTypeOK, Steps, remoteVars, NoTotals
    <2>3. Placed'
      BY <1>1, <2>1, DiskKept
    <2>4. QED
      BY <1>1, <2>1, <2>2, <2>3 DEF AcqInv, Endpoints
  <1>4. QED
    BY <1>2, <1>3

LEMMA ValidateStep ==
    ASSUME AcqInv, Validate \/ Validated
    PROVE  AcqInv' /\ step' # "acquired"
  <1>1. /\ step = "validate" /\ sha \in Commits
        /\ UNCHANGED <<remoteVars, attempt, sha, received>>
    BY DEF Validate, Validated, requestVars, AcqInv, Downloading
  <1>2. CASE Validate
    <2>1. CASE Rejected(Member)
      <3>1. Discard("SAFETY_LIMIT_EXCEEDED") /\ UNCHANGED <<cursor, totals>>
        BY <1>2, <2>1 DEF Validate
      <3>2. QED
        BY <1>1, <3>1, DiscardStep, CodesType
    <2>2. CASE ~Rejected(Member)
      <3>1. /\ totals' = Counted(Member) /\ cursor' = cursor + 1
            /\ UNCHANGED <<step, error, tries, disk>>
        BY <1>2, <2>2 DEF Validate
      <3>2. Member \in Members
        BY <1>1, <1>2, TreeType DEF Validate, HasMember, Member
      <3>3. Member.size \in Nat
        BY <3>2, AcquisitionAssumption
      <3>4. Counted(Member) \in [bytes : 0 .. MaxExtracted, files : 0 .. MaxFiles]
        <4>1. totals.bytes \in Nat /\ totals.files \in Nat
              /\ totals \in [bytes : 0 .. MaxExtracted, files : 0 .. MaxFiles]
          BY LimitsType DEF AcqInv, AcqTypeOK
        <4>2. Counted(Member).bytes <= MaxExtracted /\ Counted(Member).files <= MaxFiles
          <5>1. Counted(Member).bytes \in Nat /\ Counted(Member).files \in Nat
            BY <3>3, <4>1 DEF Counted
          <5>2. QED
            BY <2>2, <5>1, LimitsType DEF Rejected
        <4>3. QED
          BY <3>3, <4>1, <4>2, LimitsType DEF Counted
      <3>5. AcqTypeOK'
        BY <1>1, <3>1, <3>4 DEF AcqInv, AcqTypeOK, remoteVars
      <3>6. Placed'
        BY <1>1, <3>1, DiskKept
      <3>7. QED
        BY <1>1, <3>1, <3>5, <3>6 DEF AcqInv, Endpoints
    <2>3. QED
      BY <2>1, <2>2
  <1>3. CASE Validated
    <2>1. /\ step' = "write" /\ cursor' = 1
          /\ UNCHANGED <<tries, totals, disk, error>>
      BY <1>3 DEF Validated, requestVars
    <2>2. AcqTypeOK'
      BY <1>1, <2>1 DEF AcqInv, AcqTypeOK, Steps, remoteVars
    <2>3. Partial(disk, sha, 1)
      BY <1>1, WholeStarts DEF AcqInv, Placed
    <2>4. Placed'
      BY <1>1, <2>1, <2>3 DEF AcqInv, Placed
    <2>5. QED
      BY <1>1, <2>1, <2>2, <2>4 DEF AcqInv, Endpoints
  <1>4. QED
    BY <1>2, <1>3

LEMMA WriteStep ==
    ASSUME AcqInv, WriteMember \/ WriteFails
    PROVE  AcqInv' /\ step' # "acquired"
  <1>1. /\ step = "write" /\ sha \in Commits /\ HasMember
        /\ UNCHANGED <<remoteVars, attempt, sha, received>>
        /\ Partial(disk, sha, cursor)
    BY DEF WriteMember, WriteFails, requestVars, archiveVars, AcqInv, Placed, Downloading
  <1>2. CASE WriteFails
    <2>1. Discard("INTERNAL_ERROR") /\ UNCHANGED <<cursor, totals>>
      BY <1>2 DEF WriteFails, archiveVars
    <2>2. QED
      BY <1>1, <2>1, DiscardStep, CodesType
  <1>3. CASE WriteMember
    <2>1. cursor' = cursor + 1 /\ UNCHANGED <<step, tries, totals, error>>
      BY <1>3 DEF WriteMember, requestVars
    <2>2. cursor \in DOMAIN Tree[sha]
      BY <1>1 DEF HasMember
    <2>3. /\ disk' \in Disks(attempt)
          /\ Partial(disk', sha, cursor + 1)
          /\ \A b \in Commits \ {sha} : Owns(disk', b) = Owns(disk, b)
      <3>1. CASE Tree[sha][cursor].kind = "file"
        BY <1>1, <1>3, <2>2, <3>1, WriteFile DEF WriteMember, Member, AcqInv, AcqTypeOK
      <3>2. CASE Tree[sha][cursor].kind # "file"
        BY <1>1, <1>3, <2>2, <3>2, PassMember DEF WriteMember, Member, AcqInv, AcqTypeOK
      <3>3. QED
        BY <3>1, <3>2
    <2>4. AcqTypeOK'
      BY <1>1, <2>1, <2>3 DEF AcqInv, AcqTypeOK, remoteVars
    <2>5. Placed'
      BY <1>1, <2>1, <2>3 DEF AcqInv, Placed
    <2>6. QED
      BY <1>1, <2>1, <2>4, <2>5 DEF AcqInv, Endpoints
  <1>4. QED
    BY <1>2, <1>3

(* The whole tree was written; what else is there was whole before.        *)
LEMMA ExtractedStep ==
    ASSUME AcqInv, Extracted
    PROVE  AcqInv' /\ sha' \in Commits
  <1>1. /\ step = "write" /\ sha \in Commits /\ cursor \notin DOMAIN Tree[sha]
        /\ step' = "acquired"
        /\ UNCHANGED <<wanted, branch, tag, attempt, tries, sha, received, cursor, totals, disk, error>>
        /\ Partial(disk, sha, cursor)
        /\ cursor \in Nat \ {0}
    BY DEF Extracted, HasMember, remoteVars, requestVars, archiveVars, AcqInv, Placed,
           Downloading, AcqTypeOK
  <1>2. All(disk, sha)
    BY <1>1, BeforeAll DEF Partial, All
  <1>3. WholeTrees(disk)
    BY <1>1, <1>2 DEF Partial, WholeTrees, Intact
  <1>4. Placed'
    BY <1>1, <1>2, <1>3 DEF AcqInv, Placed
  <1>5. AcqTypeOK'
    BY <1>1 DEF AcqInv, AcqTypeOK, Steps
  <1>6. QED
    BY <1>1, <1>4, <1>5 DEF AcqInv, Endpoints

(* Another attempt finds what the last one left.                           *)
LEMMA RetryStep ==
    ASSUME AcqInv, step # "write", Retry
    PROVE  AcqInv' /\ step' = "metadata"
  <1>1. /\ attempt' = attempt + 1 /\ step' = "metadata" /\ tries' = 0 /\ sha' = NoCommit
        /\ received' = 0 /\ cursor' = 1 /\ totals' = NoTotals /\ error' = "none"
        /\ UNCHANGED <<wanted, branch, tag, disk>>
    BY DEF Retry, remoteVars
  <1>2. attempt' \in Nat \ {0} /\ disk \in Disks(attempt + 1)
    BY <1>1 DEF AcqInv, AcqTypeOK, Disks
  <1>3. AcqTypeOK'
    BY <1>1, <1>2, LimitsType DEF AcqInv, AcqTypeOK, Steps, Codes, Endpoints, NoTotals
  <1>4. attempt' # 1
    BY <1>1 DEF AcqInv, AcqTypeOK
  <1>5. Placed'
    BY <1>1, <1>4 DEF AcqInv, Placed
  <1>6. QED
    BY <1>1, <1>3, <1>5, LimitsType DEF AcqInv, Downloading

LEMMA AcquireStep ==
    ASSUME AcqInv, Acquire
    PROVE  AcqInv' /\ (step' = "acquired" => sha' \in Commits)
  BY RequestStep, DownloadStep, DownloadedStep, ValidateStep, WriteStep, ExtractedStep
  DEF Acquire

-----------------------------------------------------------------------------
(* The invariant of the gates with their services.                         *)

(* The state of a request before acquire_repository has no workspace.      *)
LEMMA Initially == Init => IInv
  <1> SUFFICES ASSUME Init PROVE IInv
    OBVIOUS
  <1>1. AcqInit /\ gate = "acquire"
    BY DEF Init
  <1>2. AcqTypeOK
    BY <1>1, CleanType, LimitsType DEF AcqInit, AcqTypeOK, Steps, Codes, Endpoints, NoTotals
  <1>3. Placed
    BY <1>1, CleanType DEF AcqInit, Placed
  <1>4. QED
    BY <1>1, <1>2, <1>3, LimitsType DEF AcqInit, IInv, AcqInv, GatesInStep, Downloading

LEMMA SameAcqVars ==
    ASSUME AcqInv, UNCHANGED acqVars
    PROVE  AcqInv' /\ step' = step
  <1>1. UNCHANGED <<wanted, branch, tag, attempt, step, tries, sha, received, cursor, totals,
                    disk, error>>
    BY DEF acqVars, remoteVars, requestVars, archiveVars
  <1>2. QED
    BY <1>1 DEF AcqInv, AcqTypeOK, Placed

LEMMA PushStep ==
    ASSUME AcqInv, Push
    PROVE  AcqInv' /\ UNCHANGED <<step, disk>>
  <1>1. /\ branch' \in Commits
        /\ UNCHANGED <<wanted, tag, attempt, step, tries, sha, received, cursor, totals,
                       disk, error>>
    BY DEF Push, requestVars, archiveVars
  <1>2. QED
    BY <1>1 DEF AcqInv, AcqTypeOK, Placed

(* IInv is inductive: one step per node, and under Acquire per request.    *)
THEOREM Invariance == IInv /\ [Next]_vars => IInv'
  <1> SUFFICES ASSUME IInv, [Next]_vars PROVE IInv'
    OBVIOUS
  <1>1. CASE AcquireRepository
    <2>1. AcqInv' /\ step \notin {"acquired", "failed"}
      BY <1>1, AcquireStep DEF AcquireRepository, IInv, GatesInStep
    <2>2. gate' = CASE step' = "acquired" -> "profile"
                    [] step' = "failed" -> "terminal"
                    [] OTHER -> "acquire"
      BY <1>1 DEF AcquireRepository
    <2>3. QED
      BY <2>1, <2>2 DEF IInv, GatesInStep
  <1>2. CASE ProfileRepository \/ SelectMigrationPack \/ ParseDependenciesNode
    <2>1. AcqInv' /\ step' = step
      BY <1>2, SameAcqVars
      DEF ProfileRepository, SelectMigrationPack, ParseDependenciesNode, IInv
    <2>2. /\ gate \in {"profile", "select", "analyse"}
          /\ gate' \in {"select", "analyse", "terminal"}
      BY <1>2 DEF ProfileRepository, SelectMigrationPack, ParseDependenciesNode
    <2>3. QED
      BY <2>1, <2>2 DEF IInv, GatesInStep
  <1>3. CASE RunAgain
    <2>1. step # "write"
      BY <1>3 DEF RunAgain, IInv, GatesInStep, AcqInv, Placed
    <2>2. QED
      BY <1>3, <2>1, RetryStep DEF RunAgain, IInv, GatesInStep
  <1>4. CASE Push /\ UNCHANGED intakeVars
    BY <1>4, PushStep DEF IInv, GatesInStep, intakeVars
  <1>5. CASE UNCHANGED vars
    BY <1>5, SameAcqVars DEF vars, intakeVars, IInv, GatesInStep
  <1>6. QED
    BY <1>1, <1>2, <1>3, <1>4, <1>5 DEF Next

(* acquire_repository keeps its counters within the limits of config.py,   *)
(* whatever the archive holds and GitHub answers.                          *)
THEOREM TypeCorrect == Spec => []IntakeTypeOK
  <1>1. IInv => IntakeTypeOK
    BY DEF IInv, AcqInv, AcqTypeOK, GatesInStep, IntakeTypeOK, Disks
  <1>2. QED
    BY Initially, Invariance, <1>1, PTL DEF Spec

-----------------------------------------------------------------------------
(* The gates implement RepositoryGates.                                    *)

Held == IF gate \in {"profile", "select", "analyse"} THEN OnDisk ELSE {}

(* Every way out of select_migration_pack is one of the answers.           *)
LEMMA SelectAnswers ==
    ASSUME NEW given, NEW profiled, NEW id
    PROVE  Verdict(Select(given, profiled, id)) \in PackAnswers
  <1>1. ASSUME NEW pack, NEW fired
        PROVE  Aggregate(pack, fired).status \in {"SUPPORTED", "NOT_APPLICABLE"}
    BY DEF Aggregate
  <1>2. /\ [status |-> "ERROR", failed |-> TRUE] \in PackAnswers
        /\ [status |-> "NOT_APPLICABLE", failed |-> TRUE] \in PackAnswers
        /\ \A status \in {"SUPPORTED", "PROBABLE_NEEDS_REVIEW", "NOT_APPLICABLE"} :
              [status |-> status, failed |-> FALSE] \in PackAnswers
    BY DEF PackAnswers
  <1>3. Verdict(Requested(given, profiled, id)) \in PackAnswers
    <2>1. CASE \E i \in DOMAIN given : given[i].id = id
      <3> DEFINE pack == given[CHOOSE i \in DOMAIN given : given[i].id = id]
                 assessment == Assess(pack, profiled)
                 warning == IF assessment.fallback THEN [kind |-> "fallback", about |-> id]
                            ELSE NoWarning
      <3>1. Requested(given, profiled, id) = Answer(assessment.status, id, FALSE, warning)
        BY <2>1, Zenon DEF Requested
      <3>2. assessment.status \in {"SUPPORTED", "NOT_APPLICABLE"}
        BY <1>1, Zenon DEF Assess
      <3> HIDE DEF assessment, warning
      <3>3. Verdict(Requested(given, profiled, id)) = [status |-> assessment.status, failed |-> FALSE]
        BY <3>1 DEF Verdict, Answer
      <3>4. QED
        BY <1>2, <3>2, <3>3
    <2>2. CASE ~ \E i \in DOMAIN given : given[i].id = id
      <3>1. Requested(given, profiled, id) = Answer("ERROR", id, TRUE, NoWarning)
        BY <2>2, Zenon DEF Requested
      <3>2. QED
        BY <1>2, <3>1 DEF Verdict, Answer
    <2>3. QED
      BY <2>1, <2>2
  <1>4. Verdict(AutoDetect(given, profiled)) \in PackAnswers
    <2> DEFINE candidates == Candidates(given, profiled)
               best == First(candidates)
               second == First(candidates \ {best})
               close == /\ Cardinality(candidates) > 1
                        /\ best.confidence - second.confidence \in -1000 .. 1000
               warning == IF close THEN [kind |-> "alternative", about |-> second.pack]
                          ELSE NoWarning
    <2>1. AutoDetect(given, profiled)
              = IF best.status \notin Selectable THEN Answer("NOT_APPLICABLE", "", TRUE, NoWarning)
                ELSE Answer(best.status, best.pack, FALSE, warning)
      BY Zenon DEF AutoDetect
    <2> HIDE DEF best, warning
    <2>2. CASE best.status \notin Selectable
      <3> DEFINE noPack == ""
      <3>1. AutoDetect(given, profiled) = Answer("NOT_APPLICABLE", noPack, TRUE, NoWarning)
        BY <2>1, <2>2, Zenon
      <3> HIDE DEF noPack
      <3>2. Verdict(AutoDetect(given, profiled)) = [status |-> "NOT_APPLICABLE", failed |-> TRUE]
        BY <3>1 DEF Verdict, Answer
      <3>3. QED
        BY <1>2, <3>2, Zenon
    <2>3. CASE best.status \in Selectable
      <3>1. AutoDetect(given, profiled) = Answer(best.status, best.pack, FALSE, warning)
        BY <2>1, <2>3, Zenon
      <3>2. Verdict(AutoDetect(given, profiled)) = [status |-> best.status, failed |-> FALSE]
        BY <3>1 DEF Verdict, Answer
      <3>3. QED
        BY <1>2, <2>3, <3>2 DEF Selectable
    <2>4. QED
      BY <2>2, <2>3
  <1>5. Verdict(Answer("ERROR", id, TRUE, NoWarning)) \in PackAnswers
    BY <1>2 DEF Verdict, Answer
  <1>6. QED
    BY <1>3, <1>4, <1>5, Zenon DEF Select

(* acquire_repository, profile_repository and select_migration_pack, with  *)
(* their services, hand on whole trees or end the analysis, whatever       *)
(* GitHub, the archive and the disk do: of one commit in a first attempt,  *)
(* and later on also of the commits that earlier attempts left, when no    *)
(* two of them have a path in common.                                      *)
THEOREM Refinement == Spec => ImplementsGates
  <1>1. Init => Gates!Init
    BY DEF Init, AcqInit, Gates!Init
  <1>2. IInv /\ IInv' /\ [Next]_vars => [Gates!Next]_Gates!vars
    <2> SUFFICES ASSUME IInv, IInv', [Next]_vars PROVE [Gates!Next]_Gates!vars
      OBVIOUS
    <2>1. OnDisk = HeldOn(disk) /\ OnDisk' = HeldOn(disk')
      BY DEF OnDisk, Workspace, HeldOn, FilesOn
    <2>2. CASE AcquireRepository
      <3>1. /\ gate = "acquire" /\ UNCHANGED <<answer, attempt>>
            /\ gate' = CASE step' = "acquired" -> "profile"
                         [] step' = "failed" -> "terminal"
                         [] OTHER -> "acquire"
        BY <2>2 DEF AcquireRepository, Acquire, Answered, Refused, Outage, Limited, Chunk,
                    DownloadFails, Downloaded, Validate, Validated, WriteMember, WriteFails,
                    Extracted
      <3>2. CASE step' = "acquired"
        <4> DEFINE left == LeftBy(disk') \ {sha'}
        <4>1. /\ sha' \in Commits /\ All(disk', sha') /\ WholeTrees(disk')
              /\ disk' \in Disks(attempt') /\ attempt' \in Nat \ {0}
          BY <3>2 DEF IInv, AcqInv, AcqTypeOK, Placed, Downloading
        <4>2. LeftBy(disk') \cup {sha'} = left \cup {sha'}
          OBVIOUS
        <4>3. /\ OnDisk' = UNION {FilesOf(b) : b \in left \cup {sha'}}
              /\ \A a, b \in left \cup {sha'} : a # b => ~SharePath(a, b)
          BY <2>1, <4>1, <4>2, WholeIsHeld
        <4>4. left \in SUBSET Commits
          BY DEF LeftBy
        <4>5. ~(attempt > 1) => left = {}
          <5>1. attempt = 1 => attempt' = 1
            BY <3>1
          <5>2. attempt' = 1 => left = {}
            BY DEF IInv, AcqInv, Placed, LeftBy
          <5>3. QED
            BY <5>1, <5>2 DEF IInv, AcqInv, AcqTypeOK
        <4>6. gate' = "profile"
          BY <3>1, <3>2
        <4>7. \E c \in Commits : \E l \in SUBSET Commits :
                  /\ ~(attempt > 1) => l = {}
                  /\ \A a, b \in l \cup {c} : a # b => ~SharePath(a, b)
                  /\ OnDisk' = UNION {FilesOf(b) : b \in l \cup {c}}
          BY <4>1, <4>3, <4>4, <4>5
        <4> HIDE DEF left
        <4>8. Gates!Acquire
          BY <3>1, <4>6, <4>7, Zenon DEF Gates!Acquire
        <4>9. QED
          BY <4>8 DEF Gates!Next
      <3>3. CASE step' = "failed"
        BY <3>1, <3>3 DEF Gates!Next, Gates!Acquire, Gates!Stop
      <3>4. CASE step' \notin {"acquired", "failed"}
        BY <3>1, <3>4 DEF Gates!vars
      <3>5. QED
        BY <3>2, <3>3, <3>4
    <2>3. CASE ProfileRepository
      <3>1. OnDisk' = OnDisk /\ UNCHANGED <<answer, attempt>>
        BY <2>1, <2>3 DEF ProfileRepository, acqVars
      <3>2. gate = "profile" /\ gate' \in {"select", "terminal"}
        BY <2>3 DEF ProfileRepository
      <3>3. QED
        BY <3>1, <3>2 DEF Gates!Next, Gates!Profile, Gates!Stop
    <2>4. CASE SelectMigrationPack
      <3>1. OnDisk' = OnDisk /\ UNCHANGED attempt
        BY <2>1, <2>4 DEF SelectMigrationPack, acqVars
      <3>2. Verdict(answer') \in PackAnswers
        <4>1. Verdict(Answer("ERROR", request, TRUE, NoWarning)) \in PackAnswers
          BY DEF Verdict, Answer, PackAnswers
        <4>2. QED
          BY <2>4, <4>1, SelectAnswers DEF SelectMigrationPack
      <3>3. /\ gate = "select"
            /\ gate' = IF answer'.status \in NotMigratable THEN "terminal" ELSE "analyse"
        BY <2>4 DEF SelectMigrationPack
      <3>4. Verdict(answer').status = answer'.status
        BY DEF Verdict
      <3>5. Gates!Select
        BY <3>1, <3>2, <3>3, <3>4 DEF Gates!Select, Gates!NotMigratable, NotMigratable
      <3>6. QED
        BY <3>5 DEF Gates!Next
    <2>5. CASE ParseDependenciesNode
      BY <2>1, <2>5 DEF ParseDependenciesNode, acqVars, Gates!vars
    <2>6. CASE RunAgain
      <3>1. attempt' > 1
        BY <2>6 DEF RunAgain, Retry, IInv, AcqInv, AcqTypeOK
      <3>2. QED
        BY <2>6, <3>1 DEF RunAgain, Gates!Next, Gates!Again
    <2>7. CASE Push /\ UNCHANGED intakeVars
      BY <2>1, <2>7 DEF Push, intakeVars, Gates!vars
    <2>8. CASE UNCHANGED vars
      BY <2>1, <2>8 DEF vars, acqVars, intakeVars, Gates!vars
    <2>9. QED
      BY <2>2, <2>3, <2>4, <2>5, <2>6, <2>7, <2>8 DEF Next
  <1>3. QED
    BY Initially, Invariance, <1>1, <1>2, PTL DEF Spec, ImplementsGates, Gates!Spec

-----------------------------------------------------------------------------
(* The two readings of the manifests.                                      *)

(* Both were made of the workspace that is there.                          *)
ReadHere ==
    /\ gate \in {"select", "analyse"} => profile = ProfileOf(FilesOn(disk))
    /\ dependencies # {} =>
          gate = "analyse" /\ dependencies = ParseDependencies(FilesOn(disk), profile)

LEMMA ReadHereStep ==
    ASSUME ReadHere, [Next]_vars
    PROVE  ReadHere'
  <1>1. Workspace = FilesOn(disk)
    BY DEF Workspace, FilesOn
  <1>2. CASE AcquireRepository
    BY <1>2 DEF AcquireRepository, ReadHere
  <1>3. CASE ProfileRepository
    BY <1>1, <1>3 DEF ProfileRepository, acqVars, ReadHere
  <1>4. CASE SelectMigrationPack
    BY <1>4 DEF SelectMigrationPack, acqVars, ReadHere
  <1>5. CASE ParseDependenciesNode
    BY <1>1, <1>5 DEF ParseDependenciesNode, acqVars, ReadHere
  <1>6. CASE RunAgain
    BY <1>6 DEF RunAgain, ReadHere
  <1>7. CASE Push /\ UNCHANGED intakeVars
    BY <1>7 DEF Push, intakeVars, ReadHere
  <1>8. CASE UNCHANGED vars
    BY <1>8 DEF vars, acqVars, intakeVars, ReadHere
  <1>9. QED
    BY <1>2, <1>3, <1>4, <1>5, <1>6, <1>7, <1>8 DEF Next

(* In a workspace where no two files share a path, what parse_dependencies *)
(* reads are entries of the profile, and what it misses has a reason.      *)
LEMMA ReadingsAgree ==
    ASSUME NEW files, \A f, g \in files : f.path = g.path => f = g
    PROVE  LET profiled == ProfileOf(files)
               parsed == ParseDependencies(files, profiled)
           IN  /\ parsed \subseteq profiled.dependencies
               /\ \A d \in profiled.dependencies \ parsed :
                     \E f \in files :
                         f.path = d.path /\ (f.flaw # "none" \/ f.manifest = "Requirements")
  <1> DEFINE profiled == ProfileOf(files)
             parsed == ParseDependencies(files, profiled)
             listed == {g \in files : g.manifest # "Requirements"
                           /\ \E m \in profiled.manifests : m.path = g.path /\ ~m.error}
  <1>1. /\ profiled.dependencies = UNION {Entries(f) : f \in Visited(files)}
        /\ profiled.manifests = {[path |-> f.path, error |-> f.flaw # "none"] :
                                     f \in {g \in Visited(files) : g.manifest # ""}}
    BY DEF ProfileOf
  <1>2. parsed = UNION {Entries(f) : f \in listed}
    BY DEF ParseDependencies
  <1> HIDE DEF profiled
  <1>3. ASSUME NEW d \in parsed PROVE d \in profiled.dependencies
    <2>1. PICK f \in listed : d \in Entries(f)
      BY <1>2
    <2>2. PICK m \in profiled.manifests : m.path = f.path /\ ~m.error
      OBVIOUS
    <2>3. PICK g \in Visited(files) : m = [path |-> g.path, error |-> g.flaw # "none"]
      BY <1>1, <2>2, Zenon
    <2>4. f \in Visited(files)
      BY <2>2, <2>3 DEF Visited
    <2>5. QED
      BY <1>1, <2>1, <2>4
  <1>4. ASSUME NEW d \in profiled.dependencies, d \notin parsed
        PROVE  \E f \in files :
                   f.path = d.path /\ (f.flaw # "none" \/ f.manifest = "Requirements")
    <2>1. PICK f \in Visited(files) : d \in Entries(f)
      BY <1>1
    <2>2. f \in files /\ f.path = d.path /\ f.manifest # ""
      <3>1. CASE f.manifest \in {"requirements", "Requirements"}
        <4>1. d \in RequirementsEntries(f)
          BY <2>1, <3>1, Zenon DEF Entries
        <4>2. PICK e \in f.declares :
                  d = [package |-> e.package, constraint |-> Classify(e.spec), path |-> f.path]
          BY <4>1, Zenon DEF RequirementsEntries
        <4>3. f \in files
          BY <2>1 DEF Visited
        <4>4. f.manifest # ""
          BY <3>1
        <4>5. QED
          BY <4>2, <4>3, <4>4
      <3>2. CASE f.manifest = "pyproject"
        BY <2>1, <3>2 DEF Visited, Entries, PyprojectEntries, RequirementsEntries
      <3>3. CASE f.manifest \notin {"requirements", "Requirements", "pyproject"}
        BY <2>1, <3>3 DEF Entries
      <3>4. QED
        BY <3>1, <3>2, <3>3
    <2>3. f \notin listed
      BY <1>2, <1>4, <2>1
    <2>4. f.manifest # "Requirements" => f.flaw # "none"
      <3>1. SUFFICES ASSUME f.manifest # "Requirements", f.flaw = "none" PROVE FALSE
        OBVIOUS
      <3>2. [path |-> f.path, error |-> f.flaw # "none"] \in profiled.manifests
        BY <1>1, <2>2
      <3>3. [path |-> f.path, error |-> f.flaw # "none"].path = f.path
            /\ ~[path |-> f.path, error |-> f.flaw # "none"].error
        BY <3>1
      <3>4. QED
        BY <2>2, <2>3, <3>1, <3>2, <3>3
    <2>5. QED
      BY <2>2, <2>4
  <1>5. QED
    BY <1>3, <1>4 DEF profiled

(* parse_dependencies and profile_repository read the manifests by code of *)
(* their own: their answers differ only for manifests with an error or an  *)
(* oddly spelled name, for every archive and in every attempt.             *)
THEOREM DependenciesAlwaysAgree == Spec => []DependenciesAgree
  <1>1. Init => ReadHere
    BY DEF Init, ReadHere
  <1>2. IInv /\ ReadHere => DependenciesAgree
    <2> SUFFICES ASSUME IInv, ReadHere, dependencies # {} PROVE DependenciesAgree
      BY DEF DependenciesAgree
    <2>1. /\ gate = "analyse" /\ profile = ProfileOf(FilesOn(disk))
          /\ dependencies = ParseDependencies(FilesOn(disk), profile)
      BY DEF ReadHere
    <2>2. /\ sha \in Commits /\ All(disk, sha) /\ WholeTrees(disk)
          /\ disk \in Disks(attempt) /\ attempt \in Nat
      BY <2>1 DEF IInv, AcqInv, AcqTypeOK, Placed, Downloading, GatesInStep
    <2>3. \A f, g \in FilesOn(disk) : f.path = g.path => f = g
      BY <2>2, WholeIsHeld
    <2>4. Workspace = FilesOn(disk)
      BY DEF Workspace, FilesOn
    <2>5. QED
      BY <2>1, <2>3, <2>4, ReadingsAgree DEF DependenciesAgree
  <1>3. QED
    BY Initially, Invariance, ReadHereStep, <1>1, <1>2, PTL DEF Spec

-----------------------------------------------------------------------------
(* The checks before the writing.                                          *)

(* The files among the members before one, and what they weigh.            *)
FilesBefore(c, n) == {i \in Files(c) : i < n}

Bytes(c, S) == SumFunction([i \in S |-> Tree[c][i].size])

(* What is asked of a member on its own.                                   *)
Passes(m) ==
    /\ m.kind \in {"file", "dir"}
    /\ m.safe
    /\ m.depth <= MaxDepth
    /\ m.kind = "file" => m.size <= MaxSingle

(* What the checks so far have shown: the counts of the first pass are     *)
(* those of the members behind it, and all of these passed.                *)
Checked ==
    /\ step \in {"validate", "write"} => Weight[sha] <= MaxCompressed
    /\ step = "validate" =>
          /\ totals.bytes = Bytes(sha, FilesBefore(sha, cursor))
          /\ totals.files = Cardinality(FilesBefore(sha, cursor))
          /\ \A i \in DOMAIN Tree[sha] : i < cursor => Passes(Tree[sha][i])
    /\ step = "write" => sha \in Sound
    /\ ChecksPrecedeWrites

LEMMA MemberType ==
    ASSUME NEW m \in Members
    PROVE  m.kind \in Kinds /\ m.size \in Nat /\ m.depth \in Nat /\ m.safe \in BOOLEAN
  BY AcquisitionAssumption

LEMMA FilesFinite ==
    ASSUME NEW c \in Commits, NEW S \in SUBSET Files(c)
    PROVE  /\ IsFiniteSet(S) /\ Cardinality(S) \in Nat
           /\ \A i \in S : i \in Nat /\ Tree[c][i].size \in Nat
  <1>1. IsFiniteSet(DOMAIN Tree[c]) /\ DOMAIN Tree[c] \subseteq Nat
    <2>1. 1 \in Int /\ Len(Tree[c]) \in Int /\ DOMAIN Tree[c] = 1 .. Len(Tree[c])
      BY TreeType
    <2>2. QED
      BY <2>1, FS_Interval
  <1>2. S \in SUBSET DOMAIN Tree[c]
    BY DEF Files
  <1>3. IsFiniteSet(S) /\ Cardinality(S) \in Nat
    BY <1>1, <1>2, FS_Subset, FS_CardinalityType
  <1>4. ASSUME NEW i \in S PROVE Tree[c][i].size \in Nat
    BY <1>2, TreeType, MemberType
  <1>5. QED
    BY <1>1, <1>2, <1>3, <1>4

(* The pass over one member, for the totals.                               *)
LEMMA TotalsNext ==
    ASSUME NEW c \in Commits, NEW n \in DOMAIN Tree[c], Tree[c][n].kind = "file"
    PROVE  /\ Bytes(c, FilesBefore(c, n + 1)) = Bytes(c, FilesBefore(c, n)) + Tree[c][n].size
           /\ Cardinality(FilesBefore(c, n + 1)) = Cardinality(FilesBefore(c, n)) + 1
  <1> DEFINE here == FilesBefore(c, n)
             v == [i \in here |-> Tree[c][i].size]
             w == [i \in here \cup {n} |-> Tree[c][i].size]
  <1>1. n \in Nat /\ n \in Files(c) /\ Tree[c][n].size \in Nat
    BY TreeType, MemberType DEF Files
  <1>2. \A i \in Files(c) : i \in Nat
    BY TreeType DEF Files
  <1>3. FilesBefore(c, n + 1) = here \cup {n} /\ n \notin here /\ here \in SUBSET Files(c)
    <2>1. \A i \in Files(c) : i < n + 1 <=> i < n \/ i = n
      BY <1>1, <1>2
    <2>2. ~(n < n)
      BY <1>1
    <2>3. QED
      BY <1>1, <2>1, <2>2, Zenon DEF FilesBefore
  <1>4. IsFiniteSet(here) /\ \A i \in here : Tree[c][i].size \in Nat
    BY <1>3, FilesFinite
  <1> HIDE DEF here
  <1>5. SumFunction(w) = SumFunction(v) + w[n]
    <2>1. /\ IsFiniteSet(DOMAIN v) /\ \A i \in DOMAIN v : v[i] \in Nat
          /\ n \notin DOMAIN v /\ DOMAIN w = DOMAIN v \cup {n}
          /\ \A i \in DOMAIN v : w[i] = v[i]
          /\ w[n] \in Nat
      BY <1>1, <1>3, <1>4
    <2> HIDE DEF v, w
    <2>2. QED
      BY <2>1, SumAdds
  <1>6. Bytes(c, FilesBefore(c, n + 1)) = Bytes(c, here) + Tree[c][n].size
    BY <1>3, <1>5 DEF Bytes
  <1>7. Cardinality(here \cup {n}) = Cardinality(here) + 1
    BY <1>3, <1>4, FS_AddElement
  <1>8. QED
    BY <1>3, <1>6, <1>7 DEF here

LEMMA TotalsSkip ==
    ASSUME NEW c \in Commits, NEW n \in DOMAIN Tree[c], Tree[c][n].kind # "file"
    PROVE  FilesBefore(c, n + 1) = FilesBefore(c, n)
  <1>1. n \in Nat /\ \A i \in Files(c) : i \in Nat
    BY TreeType DEF Files
  <1>2. \A i \in Files(c) : i < n + 1 <=> i < n
    BY <1>1 DEF Files
  <1>3. QED
    BY <1>2 DEF FilesBefore

LEMMA NoneBefore ==
    ASSUME NEW c \in Commits
    PROVE  /\ Bytes(c, FilesBefore(c, 1)) = 0
           /\ Cardinality(FilesBefore(c, 1)) = 0
           /\ \A i \in DOMAIN Tree[c] : ~(i < 1)
  <1> DEFINE v == [i \in FilesBefore(c, 1) |-> Tree[c][i].size]
  <1>1. \A i \in DOMAIN Tree[c] : ~(i < 1)
    BY TreeType
  <1>2. FilesBefore(c, 1) = {}
    BY <1>1 DEF FilesBefore, Files
  <1>3. IsFiniteSet(FilesBefore(c, 1)) /\ Cardinality(FilesBefore(c, 1)) = 0
    BY <1>2, FS_EmptySet
  <1>4. SumFunction(v) = 0
    <2>1. IsFiniteSet(DOMAIN v) /\ DOMAIN v = {} /\ \A i \in DOMAIN v : v[i] \in Nat
      BY <1>2, <1>3
    <2> HIDE DEF v
    <2>2. QED
      BY <2>1, SumType
  <1>5. QED
    BY <1>1, <1>3, <1>4 DEF Bytes

(* A member that is not rejected passes and keeps the totals in bounds.    *)
LEMMA ValidateChecks ==
    ASSUME IInv, Checked, Validate, ~Rejected(Member)
    PROVE  Checked'
  <1>1. /\ step = "validate" /\ sha \in Commits /\ cursor \in DOMAIN Tree[sha]
        /\ totals' = Counted(Member) /\ cursor' = cursor + 1
        /\ UNCHANGED <<step, sha, disk>>
    BY DEF Validate, HasMember, IInv, AcqInv, Downloading
  <1>2. Member = Tree[sha][cursor] /\ Member \in Members
    BY <1>1, TreeType DEF Member
  <1>3. Passes(Member)
    <2>1. /\ Member.kind \in Kinds /\ Member.size \in Nat /\ Member.depth \in Nat
          /\ MaxDepth \in Nat /\ MaxSingle \in Nat
      BY <1>2, MemberType, LimitsType
    <2>2. QED
      BY <2>1 DEF Passes, Rejected, Kinds
  <1>4. /\ totals'.bytes = Bytes(sha, FilesBefore(sha, cursor + 1))
        /\ totals'.files = Cardinality(FilesBefore(sha, cursor + 1))
    <2>1. CASE Member.kind = "file"
      <3>1. totals' = [bytes |-> totals.bytes + Member.size, files |-> totals.files + 1]
        BY <1>1, <2>1 DEF Counted
      <3>2. totals'.bytes = totals.bytes + Member.size /\ totals'.files = totals.files + 1
        BY <3>1
      <3>3. QED
        BY <1>1, <1>2, <2>1, <3>2, TotalsNext DEF Checked
    <2>2. CASE Member.kind # "file"
      BY <1>1, <1>2, <2>2, TotalsSkip DEF Counted, Checked
    <2>3. QED
      BY <2>1, <2>2
  <1>5. ASSUME NEW i \in DOMAIN Tree[sha], i < cursor + 1 PROVE Passes(Tree[sha][i])
    <2>1. i \in Nat /\ cursor \in Nat
      BY <1>1, TreeType
    <2>2. CASE i < cursor
      BY <1>1, <2>2 DEF Checked
    <2>3. CASE i = cursor
      BY <1>2, <1>3, <2>3
    <2>4. QED
      BY <1>5, <2>1, <2>2, <2>3
  <1>6. QED
    BY <1>1, <1>4, <1>5 DEF Checked, ChecksPrecedeWrites

(* Behind the last member, all that Sound asks for was seen.               *)
LEMMA ValidatedIsSound ==
    ASSUME IInv, Checked, Validated
    PROVE  sha \in Sound
  <1>1. step = "validate" /\ sha \in Commits /\ cursor \in Nat /\ cursor >= 1
        /\ cursor \notin DOMAIN Tree[sha]
    BY DEF Validated, HasMember, IInv, AcqInv, AcqTypeOK, Downloading
  <1>2. \A i \in DOMAIN Tree[sha] : i \in Nat /\ i < cursor
    BY <1>1, TreeType
  <1>3. \A i \in DOMAIN Tree[sha] : Passes(Tree[sha][i])
    BY <1>1, <1>2 DEF Checked
  <1>4. FilesBefore(sha, cursor) = Files(sha)
    BY <1>2 DEF FilesBefore, Files
  <1>5. totals.bytes <= MaxExtracted /\ totals.files <= MaxFiles
    BY LimitsType DEF IInv, AcqInv, AcqTypeOK
  <1>6. /\ SumFunction([i \in Files(sha) |-> Tree[sha][i].size]) <= MaxExtracted
        /\ Cardinality(Files(sha)) <= MaxFiles
        /\ Weight[sha] <= MaxCompressed
    BY <1>1, <1>4, <1>5 DEF Checked, Bytes
  <1>7. \A i \in Files(sha) : Tree[sha][i].size <= MaxSingle
    BY <1>3 DEF Files, Passes
  <1>8. QED
    BY <1>1, <1>3, <1>6, <1>7 DEF Sound, Passes

LEMMA AcquireChecks ==
    ASSUME IInv, Checked, Acquire
    PROVE  Checked'
  <1>1. CASE Answered \/ Refused \/ Outage \/ Limited
    <2>1. step' \notin {"validate", "write"} /\ UNCHANGED disk
      BY <1>1 DEF Answered, Refused, Outage, Limited, Inaccessible, Fail, Endpoints
    <2>2. QED
      BY <2>1 DEF Checked, ChecksPrecedeWrites
  <1>2. CASE Chunk \/ DownloadFails
    <2>1. step' \notin {"validate", "write"} /\ UNCHANGED disk
      BY <1>2 DEF Chunk, DownloadFails, Fail
    <2>2. QED
      BY <2>1 DEF Checked, ChecksPrecedeWrites
  <1>3. ASSUME NEW code, Discard(code) PROVE Checked'
    <2>1. step' = "failed" /\ disk' = Clean
      BY <1>3 DEF Discard, Fail
    <2>2. QED
      BY <2>1 DEF Checked, ChecksPrecedeWrites, Clean
  <1>4. CASE Downloaded /\ sha \notin Corrupt
    <2>1. /\ step = "download" /\ received = Weight[sha] /\ sha \in Commits
          /\ received <= MaxCompressed
          /\ step' = "validate" /\ cursor' = 1 /\ totals' = NoTotals
          /\ UNCHANGED <<sha, disk>>
      BY <1>4 DEF Downloaded, IInv, AcqInv, Downloading
    <2>2. totals'.bytes = 0 /\ totals'.files = 0
      BY <2>1 DEF NoTotals
    <2>3. QED
      BY <2>1, <2>2, NoneBefore DEF Checked, ChecksPrecedeWrites
  <1>5. CASE Downloaded /\ sha \in Corrupt
    BY <1>3, <1>5 DEF Downloaded
  <1>6. CASE Validate
    BY <1>3, <1>6, ValidateChecks DEF Validate
  <1>7. CASE Validated
    <2>1. step = "validate" /\ step' = "write" /\ UNCHANGED <<sha, disk>>
      BY <1>7 DEF Validated, requestVars
    <2>2. QED
      BY <1>7, <2>1, ValidatedIsSound DEF Checked, ChecksPrecedeWrites
  <1>8. CASE WriteMember
    <2>1. step = "write" /\ sha \in Sound /\ UNCHANGED <<step, sha>>
      BY <1>8 DEF WriteMember, requestVars, Checked
    <2>2. \A p \in Paths : disk'[p] = disk[p] \/ disk'[p].commit = sha
      BY <1>8 DEF WriteMember, IInv, AcqInv, AcqTypeOK, Disks
    <2>3. ChecksPrecedeWrites'
      BY <2>1, <2>2 DEF Checked, ChecksPrecedeWrites
    <2>4. QED
      BY <2>1, <2>3 DEF Checked
  <1>9. CASE WriteFails
    BY <1>3, <1>9 DEF WriteFails
  <1>10. CASE Extracted
    BY <1>10 DEF Extracted, Checked, ChecksPrecedeWrites
  <1>11. QED
    BY <1>1, <1>2, <1>4, <1>5, <1>6, <1>7, <1>8, <1>9, <1>10 DEF Acquire

LEMMA CheckedStep ==
    ASSUME IInv, Checked, [Next]_vars
    PROVE  Checked'
  <1>1. CASE AcquireRepository
    BY <1>1, AcquireChecks DEF AcquireRepository
  <1>2. CASE UNCHANGED acqVars
    <2>1. UNCHANGED <<step, sha, received, cursor, totals, disk>>
      BY <1>2 DEF acqVars, requestVars, archiveVars
    <2>2. QED
      BY <2>1 DEF Checked, ChecksPrecedeWrites
  <1>3. CASE RunAgain
    BY <1>3 DEF RunAgain, Retry, Checked, ChecksPrecedeWrites
  <1>4. CASE Push
    <2>1. UNCHANGED <<step, sha, received, cursor, totals, disk>>
      BY <1>4 DEF Push, requestVars, archiveVars
    <2>2. QED
      BY <2>1 DEF Checked, ChecksPrecedeWrites
  <1>5. QED
    BY <1>1, <1>2, <1>3, <1>4
    DEF Next, ProfileRepository, SelectMigrationPack, ParseDependenciesNode, vars

(* SafeArchiveDownloader applies all of its checks before the first write, *)
(* for every archive and every limit: no file of an archive that breaks    *)
(* one, at whatever member, is ever in the workspace of any attempt.       *)
THEOREM ChecksAlwaysPrecedeWrites == Spec => []ChecksPrecedeWrites
  <1>1. Init => Checked
    <2>1. Init => step = "metadata" /\ disk = Clean
      BY DEF Init, AcqInit
    <2>2. QED
      BY <2>1 DEF Checked, ChecksPrecedeWrites, Clean
  <1>2. Checked => ChecksPrecedeWrites
    BY DEF Checked
  <1>3. QED
    BY Initially, Invariance, CheckedStep, <1>1, <1>2, PTL DEF Spec

-----------------------------------------------------------------------------
(* The assessment of a pack.                                               *)

(* Behind the gates stands the answer that select_migration_pack gave for  *)
(* the packs it loaded, with the profile of this attempt.                  *)
Chosen ==
    gate = "analyse" =>
        /\ packs \in Installations
        /\ answer = Select(packs, profile, request)
        /\ answer.status \notin NotMigratable

LEMMA ChosenStep ==
    ASSUME Chosen, [Next]_vars
    PROVE  Chosen'
  <1>1. CASE AcquireRepository
    BY <1>1 DEF AcquireRepository, Chosen
  <1>2. CASE ProfileRepository
    BY <1>2 DEF ProfileRepository, Chosen
  <1>3. CASE SelectMigrationPack
    <2>1. SUFFICES ASSUME gate' = "analyse" PROVE Chosen'
      BY DEF Chosen
    <2>2. /\ packs' \in Installations /\ UNCHANGED <<request, profile>>
          /\ answer' \in {Select(packs', profile, request),
                          Answer("ERROR", request, TRUE, NoWarning)}
          /\ answer'.status \notin NotMigratable
      BY <1>3, <2>1 DEF SelectMigrationPack
    <2>3. Answer("ERROR", request, TRUE, NoWarning).status = "ERROR"
      BY DEF Answer
    <2>4. answer' = Select(packs', profile', request')
      BY <2>2, <2>3 DEF NotMigratable
    <2>5. QED
      BY <2>2, <2>4 DEF Chosen
  <1>4. CASE ParseDependenciesNode
    BY <1>4 DEF ParseDependenciesNode, Chosen
  <1>5. CASE RunAgain
    BY <1>5 DEF RunAgain, Chosen
  <1>6. CASE Push /\ UNCHANGED intakeVars
    BY <1>6 DEF intakeVars, Chosen
  <1>7. CASE UNCHANGED vars
    BY <1>7 DEF vars, intakeVars, Chosen
  <1>8. QED
    BY <1>1, <1>2, <1>3, <1>4, <1>5, <1>6, <1>7 DEF Next

(* The pack of a registry, and what may be installed as one.               *)
Scored(pack) ==
    /\ IsSequence(pack.signals)
    /\ \A n \in DOMAIN pack.signals : pack.signals[n].confidence \in Nat

ByStatus(pack, n) == [signal |-> n, status |-> pack.signals[n].status,
                      confidence |-> pack.signals[n].confidence]

ByAbsence(pack, n) == [signal |-> n, status |-> pack.signals[n].absence, confidence |-> Whole]

(* A signal that fires says what is in its definition.                     *)
LEMMA FiredOf ==
    ASSUME NEW pack, NEW profiled, NEW v \in Fired(pack, profiled)
    PROVE  \E n \in DOMAIN pack.signals : v \in {ByStatus(pack, n), ByAbsence(pack, n)}
  <1>1. PICK n \in DOMAIN pack.signals :
            v \in {[signal |-> n, status |-> w.status, confidence |-> w.confidence] :
                       w \in Verdicts(pack.signals[n], profiled)}
    BY Zenon DEF Fired
  <1> DEFINE s == pack.signals[n]
  <1>2. PICK w \in Verdicts(s, profiled) :
            v = [signal |-> n, status |-> w.status, confidence |-> w.confidence]
    BY <1>1, Zenon
  <1>3. w \in {[status |-> s.status, confidence |-> s.confidence],
               [status |-> s.absence, confidence |-> Whole]}
    <2> HIDE DEF s
    <2>1. CASE s.source = "manifest"
      <3>1. w \in ManifestVerdicts(s, profiled)
        BY <1>2, <2>1, Zenon DEF Verdicts
      <3>2. QED
        BY <3>1, Zenon DEF ManifestVerdicts
    <2>2. CASE s.source # "manifest"
      <3>1. w \in CodeVerdicts(s, profiled)
        BY <1>2, <2>2, Zenon DEF Verdicts
      <3>2. QED
        BY <3>1, Zenon DEF CodeVerdicts
    <2>3. QED
      BY <2>1, <2>2
  <1>4. QED
    BY <1>2, <1>3 DEF ByStatus, ByAbsence

LEMMA FiredType ==
    ASSUME NEW pack, Scored(pack), NEW profiled
    PROVE  /\ IsFiniteSet(Fired(pack, profiled))
           /\ \A v \in Fired(pack, profiled) : v.confidence \in Nat
  <1> DEFINE D == DOMAIN pack.signals
             f == [n \in D |-> ByStatus(pack, n)]
             g == [n \in D |-> ByAbsence(pack, n)]
             F == {f[n] : n \in DOMAIN f}
             G == {g[n] : n \in DOMAIN g}
  <1>1. IsFiniteSet(D)
    BY SequenceDomain DEF Scored
  <1>2. DOMAIN f = D /\ DOMAIN g = D
    OBVIOUS
  <1>3. \A n \in D : f[n] = ByStatus(pack, n) /\ g[n] = ByAbsence(pack, n)
    OBVIOUS
  <1> HIDE DEF f, g
  <1>4. IsFiniteSet(F) /\ IsFiniteSet(G)
    <2>1. IsFiniteSet(F)
      BY <1>1, <1>2, FiniteImage
    <2>2. IsFiniteSet(G)
      BY <1>1, <1>2, FiniteImage
    <2>3. QED
      BY <2>1, <2>2
  <1>5. Fired(pack, profiled) \in SUBSET (F \cup G)
    <2>1. ASSUME NEW v \in Fired(pack, profiled) PROVE v \in F \cup G
      <3>1. PICK n \in D : v \in {ByStatus(pack, n), ByAbsence(pack, n)}
        BY FiredOf
      <3>2. QED
        BY <1>2, <1>3, <3>1
    <2>2. QED
      BY <2>1
  <1>6. IsFiniteSet(F \cup G)
    <2> HIDE DEF F, G
    <2>1. QED
      BY <1>4, FS_Union
  <1>7. IsFiniteSet(Fired(pack, profiled))
    BY <1>5, <1>6, FS_Subset
  <1>8. ASSUME NEW v \in Fired(pack, profiled) PROVE v.confidence \in Nat
    <2>1. PICK n \in D : v \in {ByStatus(pack, n), ByAbsence(pack, n)}
      BY FiredOf
    <2>2. pack.signals[n].confidence \in Nat /\ Whole \in Nat
      BY DEF Scored, Whole
    <2>3. QED
      BY <2>1, <2>2 DEF ByStatus, ByAbsence
  <1>9. QED
    BY <1>7, <1>8

LEMMA ConfidencesType ==
    ASSUME NEW fired, IsFiniteSet(fired), \A v \in fired : v.confidence \in Nat, NEW status
    PROVE  /\ Confidences(fired, status) \in SUBSET Int
           /\ IsFiniteSet(Confidences(fired, status))
           /\ Confidences(fired, status) # {} => Max(Confidences(fired, status)) \in Nat
  <1> DEFINE given == {w \in fired : w.status = status}
             f == [v \in given |-> v.confidence]
  <1>1. Confidences(fired, status) = {f[v] : v \in DOMAIN f}
    BY DEF Confidences
  <1>2. IsFiniteSet(DOMAIN f)
    BY FS_Subset
  <1>3. \A v \in DOMAIN f : f[v] \in Nat
    OBVIOUS
  <1> HIDE DEF f
  <1>4. IsFiniteSet({f[v] : v \in DOMAIN f})
    BY <1>2, FiniteImage
  <1>5. Confidences(fired, status) \in SUBSET Nat /\ IsFiniteSet(Confidences(fired, status))
    BY <1>1, <1>3, <1>4
  <1>6. Confidences(fired, status) \in SUBSET Int
    BY <1>5
  <1>7. ASSUME Confidences(fired, status) # {}
        PROVE  Max(Confidences(fired, status)) \in Confidences(fired, status)
    BY <1>5, <1>6, <1>7, MaxExists
  <1>8. QED
    BY <1>5, <1>6, <1>7

LEMMA AverageType ==
    ASSUME NEW fired, IsFiniteSet(fired), \A v \in fired : v.confidence \in Nat
    PROVE  Average(fired) \in Nat
  <1> DEFINE f == [v \in fired |-> v.confidence]
  <1>1. CASE fired = {}
    BY <1>1 DEF Average
  <1>2. CASE fired # {}
    <2>1. DOMAIN f = fired /\ \A v \in DOMAIN f : f[v] \in Nat
      OBVIOUS
    <2>2. SumFunction(f) \in Nat
      <3> HIDE DEF f
      <3>1. QED
        BY <2>1, SumType
    <2>3. Cardinality(fired) \in Nat /\ Cardinality(fired) # 0
      BY <1>2, FS_CardinalityType, FS_EmptySet
    <2>4. Average(fired) = SumFunction(f) \div Cardinality(fired)
      BY <1>2, Zenon DEF Average
    <2>5. \A a \in Nat, b \in Nat \ {0} : a \div b \in Nat
      OBVIOUS
    <2> HIDE DEF f
    <2>6. QED
      BY <2>2, <2>3, <2>4, <2>5
  <1>3. QED
    BY <1>1, <1>2

LEMMA AssessType ==
    ASSUME NEW pack, Scored(pack), NEW profiled
    PROVE  /\ Assess(pack, profiled).confidence \in Nat
           /\ Assess(pack, profiled).status \in {"SUPPORTED", "NOT_APPLICABLE"}
  <1> DEFINE fired == Fired(pack, profiled)
  <1>1. IsFiniteSet(fired) /\ \A v \in fired : v.confidence \in Nat
    BY FiredType
  <1> HIDE DEF fired
  <1>2. \A status, threshold : Reaches(fired, status, threshold) =>
            Max(Confidences(fired, status)) \in Nat
    BY <1>1, ConfidencesType DEF Reaches
  <1>3. Average(fired) \in Nat
    BY <1>1, AverageType
  <1>4. /\ Aggregate(pack, fired).confidence \in Nat
        /\ Aggregate(pack, fired).status \in {"SUPPORTED", "NOT_APPLICABLE"}
    BY <1>2, <1>3 DEF Aggregate
  <1>5. QED
    BY <1>4 DEF Assess, fired

-----------------------------------------------------------------------------
(* The choice among the packs.                                             *)

CandidateOf(given, profiled, i) ==
    [place |-> i, pack |-> given[i].id,
     status |-> Assess(given[i], profiled).status,
     confidence |-> Assess(given[i], profiled).confidence]

LEMMA CandidatesOf ==
    ASSUME NEW given, NEW profiled
    PROVE  Candidates(given, profiled) = {CandidateOf(given, profiled, i) : i \in DOMAIN given}
  BY Zenon DEF Candidates, CandidateOf

LEMMA RegistryScores ==
    ASSUME NEW given, IsRegistry(given), NEW i \in DOMAIN given
    PROVE  i \in Nat /\ Scored(given[i])
  <1>1. DOMAIN given \subseteq Nat
    BY SequenceDomain DEF IsRegistry
  <1>2. QED
    BY <1>1 DEF IsRegistry, Scored

(* Of candidates with numbers for confidences there is a first one.        *)
LEMMA FirstLeads ==
    ASSUME NEW given, IsRegistry(given), DOMAIN given # {}, NEW profiled
    PROVE  LET candidates == Candidates(given, profiled)
           IN  /\ First(candidates) \in candidates
               /\ \A d \in candidates \ {First(candidates)} : Ahead(First(candidates), d)
  <1> DEFINE C == Candidates(given, profiled)
             f == [i \in DOMAIN given |-> CandidateOf(given, profiled, i)]
             R == {p \in C \X C : Ahead(p[1], p[2])}
  <1>1. \A i \in DOMAIN given :
            /\ i \in Nat
            /\ Assess(given[i], profiled).confidence \in Nat
            /\ Rank(Assess(given[i], profiled).status) \in Nat
    <2>1. TAKE i \in DOMAIN given
    <2>2. i \in Nat /\ Scored(given[i])
      BY RegistryScores
    <2>3. /\ Assess(given[i], profiled).confidence \in Nat
          /\ Assess(given[i], profiled).status \in {"SUPPORTED", "NOT_APPLICABLE"}
      BY <2>2, AssessType
    <2>4. QED
      BY <2>2, <2>3 DEF Rank
  <1>2. \A c \in C : \E i \in DOMAIN given :
            /\ c = CandidateOf(given, profiled, i)
            /\ c.place = i /\ c.confidence \in Nat /\ Rank(c.status) \in Nat
    <2>1. ASSUME NEW c \in C
          PROVE  \E i \in DOMAIN given :
                     /\ c = CandidateOf(given, profiled, i)
                     /\ c.place = i /\ c.confidence \in Nat /\ Rank(c.status) \in Nat
      <3>1. PICK i \in DOMAIN given : c = CandidateOf(given, profiled, i)
        BY CandidatesOf
      <3>2. /\ c.place = i /\ c.confidence = Assess(given[i], profiled).confidence
            /\ c.status = Assess(given[i], profiled).status
        BY <3>1 DEF CandidateOf
      <3>3. QED
        BY <1>1, <3>1, <3>2
    <2>2. QED
      BY <2>1
  <1>3. IsFiniteSet(C) /\ C # {}
    <2>1. C = {f[i] : i \in DOMAIN f}
      BY CandidatesOf
    <2>2. IsFiniteSet(DOMAIN f)
      BY SequenceDomain DEF IsRegistry
    <2>3. IsFiniteSet({f[i] : i \in DOMAIN f})
      <3> HIDE DEF f
      <3>1. QED
        BY <2>2, FiniteImage
    <2>4. QED
      BY <2>1, <2>3
  <1> HIDE DEF C, f
  <1>4. \A c, d \in C : <<c, d>> \in R <=> Ahead(c, d)
    OBVIOUS
  <1> HIDE DEF R
  <1>5. \A c \in C : c.place \in Nat /\ c.confidence \in Nat /\ Rank(c.status) \in Nat
    BY <1>1, <1>2
  <1>6. \A c, d \in C : c.place = d.place => c = d
    BY <1>2
  <1>7. Transitive(C, R)
    <2>1. ASSUME NEW c \in C, NEW d \in C, NEW e \in C, Ahead(c, d), Ahead(d, e)
          PROVE  Ahead(c, e)
      <3>1. /\ c.place \in Nat /\ c.confidence \in Nat /\ Rank(c.status) \in Nat
            /\ d.place \in Nat /\ d.confidence \in Nat /\ Rank(d.status) \in Nat
            /\ e.place \in Nat /\ e.confidence \in Nat /\ Rank(e.status) \in Nat
        BY <1>5
      <3>2. QED
        BY <2>1, <3>1 DEF Ahead
    <2>2. QED
      BY <1>4, <2>1 DEF Transitive
  <1>8. Total(C, R)
    <2>1. ASSUME NEW c \in C, NEW d \in C, c # d
          PROVE  Ahead(c, d) \/ Ahead(d, c)
      <3>1. /\ c.place \in Nat /\ c.confidence \in Nat /\ Rank(c.status) \in Nat
            /\ d.place \in Nat /\ d.confidence \in Nat /\ Rank(d.status) \in Nat
            /\ c.place # d.place
        BY <1>5, <1>6, <2>1
      <3>2. QED
        BY <3>1 DEF Ahead
    <2>2. QED
      BY <1>4, <2>1 DEF Total
  <1>9. \E c \in C : \A d \in C \ {c} : <<c, d>> \in R
    BY <1>3, <1>7, <1>8, FirstExists
  <1>10. \E c \in C : \A d \in C \ {c} : Ahead(c, d)
    BY <1>4, <1>9
  <1>11. First(C) \in C /\ \A d \in C \ {First(C)} : Ahead(First(C), d)
    BY <1>10 DEF First
  <1>12. QED
    BY <1>11 DEF C

(* What the answer of a gate that was passed says about the packs.         *)
LEMMA AnswerIsBest ==
    ASSUME NEW given, IsRegistry(given), AllLoad(given), NEW profiled, NEW id,
           Select(given, profiled, id).status \notin NotMigratable
    PROVE  LET chosen == Select(given, profiled, id)
           IN  \E k \in DOMAIN given :
                  /\ given[k].id = chosen.pack
                  /\ Assess(given[k], profiled).status = chosen.status
                  /\ id = "" => \A i \in DOMAIN given \ {k} :
                        Assess(given[i], profiled).status = "SUPPORTED" =>
                            Assess(given[k], profiled).confidence
                                >= Assess(given[i], profiled).confidence
  <1> DEFINE chosen == Select(given, profiled, id)
             C == Candidates(given, profiled)
             best == First(C)
  <1>1. CASE id # ""
    <2>1. chosen = Requested(given, profiled, id)
      BY <1>1, Zenon DEF Select
    <2>2. CASE \E i \in DOMAIN given : given[i].id = id
      <3> DEFINE k == CHOOSE i \in DOMAIN given : given[i].id = id
                 warning == IF Assess(given[k], profiled).fallback
                            THEN [kind |-> "fallback", about |-> id] ELSE NoWarning
      <3>1. k \in DOMAIN given /\ given[k].id = id
        BY <2>2
      <3>2. chosen = Answer(Assess(given[k], profiled).status, id, FALSE, warning)
        BY <2>1, <2>2, Zenon DEF Requested
      <3> HIDE DEF k, warning
      <3>3. chosen.status = Assess(given[k], profiled).status /\ chosen.pack = id
        BY <3>2 DEF Answer
      <3>4. QED
        BY <1>1, <3>1, <3>3
    <2>3. CASE ~ \E i \in DOMAIN given : given[i].id = id
      <3>1. chosen = Answer("ERROR", id, TRUE, NoWarning)
        BY <2>1, <2>3, Zenon DEF Requested
      <3>2. chosen.status = "ERROR"
        BY <3>1 DEF Answer
      <3>3. QED
        BY <3>2 DEF NotMigratable
    <2>4. QED
      BY <2>2, <2>3
  <1>2. CASE id = ""
    <2>1. chosen = AutoDetect(given, profiled)
      BY <1>2, Zenon DEF Select
    <2>2. DOMAIN given # {}
      <3>1. DOMAIN given = 1 .. Len(given) /\ Len(given) \in Nat
        BY SequenceDomain DEF IsRegistry
      <3>2. given \in Seq({given[i] : i \in DOMAIN given}) /\ given # <<>>
        BY DEF IsRegistry, IsSequence, AllLoad
      <3>3. QED
        BY <3>1, <3>2
    <2>3. best \in C /\ \A d \in C \ {best} : Ahead(best, d)
      BY <2>2, FirstLeads
    <2> DEFINE second == First(C \ {best})
               close == /\ Cardinality(C) > 1
                        /\ best.confidence - second.confidence \in -1000 .. 1000
               warning == IF close THEN [kind |-> "alternative", about |-> second.pack]
                          ELSE NoWarning
               nowhere == ""
    <2>4. chosen = IF best.status \notin Selectable
                   THEN Answer("NOT_APPLICABLE", nowhere, TRUE, NoWarning)
                   ELSE Answer(best.status, best.pack, FALSE, warning)
      BY <2>1, Zenon DEF AutoDetect
    <2> HIDE DEF best, C, warning, nowhere
    <2>5. best.status \in Selectable
      <3>1. SUFFICES ASSUME best.status \notin Selectable PROVE FALSE
        OBVIOUS
      <3>2. chosen = Answer("NOT_APPLICABLE", nowhere, TRUE, NoWarning)
        BY <2>4, <3>1, Zenon
      <3>3. chosen.status = "NOT_APPLICABLE"
        BY <3>2 DEF Answer
      <3>4. QED
        BY <3>3 DEF NotMigratable
    <2>6. chosen.status = best.status /\ chosen.pack = best.pack
      <3>1. chosen = Answer(best.status, best.pack, FALSE, warning)
        BY <2>4, <2>5, Zenon
      <3>2. QED
        BY <3>1 DEF Answer
    <2>7. PICK k \in DOMAIN given : best = CandidateOf(given, profiled, k)
      BY <2>3, CandidatesOf DEF C
    <2>8. /\ best.pack = given[k].id /\ best.status = Assess(given[k], profiled).status
          /\ best.confidence = Assess(given[k], profiled).confidence
          /\ best.place = k
      BY <2>7 DEF CandidateOf
    <2>9. ASSUME NEW i \in DOMAIN given \ {k}, Assess(given[i], profiled).status = "SUPPORTED"
          PROVE  Assess(given[k], profiled).confidence >= Assess(given[i], profiled).confidence
      <3> DEFINE d == CandidateOf(given, profiled, i)
      <3>1. /\ d.place = i /\ d.status = "SUPPORTED"
            /\ d.confidence = Assess(given[i], profiled).confidence
        BY <2>9 DEF CandidateOf
      <3>2. d \in C \ {best}
        <4>1. d \in C
          BY CandidatesOf DEF C
        <4>2. d # best
          BY <2>8, <3>1
        <4>3. QED
          BY <4>1, <4>2
      <3>3. Ahead(best, d)
        BY <2>3, <3>2
      <3> HIDE DEF d
      <3>4. Rank(d.status) = 0 /\ ~(Rank(best.status) < 0)
        BY <3>1 DEF Rank
      <3>5. d.confidence \in Nat /\ best.confidence \in Nat
        BY <2>8, <3>1, RegistryScores, AssessType
      <3>6. best.confidence >= d.confidence
        BY <3>3, <3>4, <3>5 DEF Ahead
      <3>7. QED
        BY <2>8, <3>1, <3>6
    <2>10. QED
      BY <2>6, <2>8, <2>9
  <1>3. QED
    BY <1>1, <1>2

(* The pack behind the gates is the one that was assessed best.            *)
LEMMA ChosenIsBest ==
    ASSUME Chosen, gate = "analyse"
    PROVE  /\ IsRegistry(packs) /\ \A i \in DOMAIN packs : ObjectsToTarget(packs[i])
           /\ \E k \in DOMAIN packs :
                 /\ packs[k].id = answer.pack
                 /\ Assess(packs[k], profile).status = answer.status
                 /\ request = "" => \A i \in DOMAIN packs \ {k} :
                       Assess(packs[i], profile).status = "SUPPORTED" =>
                           Assess(packs[k], profile).confidence
                               >= Assess(packs[i], profile).confidence
  <1>1. /\ packs \in Installations /\ answer = Select(packs, profile, request)
        /\ answer.status \notin NotMigratable
    BY DEF Chosen
  <1>2. AllLoad(packs)
    <2>1. SUFFICES ASSUME ~AllLoad(packs) PROVE FALSE
      OBVIOUS
    <2>2. answer = Answer("ERROR", request, TRUE, NoWarning)
      BY <1>1, <2>1, Zenon DEF Select
    <2>3. answer.status = "ERROR"
      BY <2>2 DEF Answer
    <2>4. QED
      BY <1>1, <2>3 DEF NotMigratable
  <1>3. IsRegistry(packs) /\ \A i \in DOMAIN packs : ObjectsToTarget(packs[i])
    BY <1>1, <1>2, InstallationsAssumption
  <1>4. QED
    BY <1>1, <1>2, <1>3, AnswerIsBest

(* select_migration_pack selects no pack that a request by name would be   *)
(* refused, and leaves none aside that applies with more confidence, for   *)
(* any number of packs and any signals in them.                            *)
THEOREM BestIsAlwaysSelected == Spec => []BestIsSelected
  <1>1. Init => Chosen
    BY DEF Init, Chosen
  <1>2. Chosen => BestIsSelected
    <2>1. SUFFICES ASSUME Chosen, gate = "analyse", NEW i \in DOMAIN packs
          PROVE  LET assessment == Assess(packs[i], profile)
                 IN  IF packs[i].id = answer.pack THEN assessment.status = answer.status
                     ELSE request = "" /\ assessment.status = "SUPPORTED" =>
                             \E k \in DOMAIN packs :
                                 /\ packs[k].id = answer.pack
                                 /\ Assess(packs[k], profile).confidence >= assessment.confidence
      BY DEF BestIsSelected
    <2>2. PICK k \in DOMAIN packs :
              /\ packs[k].id = answer.pack
              /\ Assess(packs[k], profile).status = answer.status
              /\ request = "" => \A j \in DOMAIN packs \ {k} :
                    Assess(packs[j], profile).status = "SUPPORTED" =>
                        Assess(packs[k], profile).confidence
                            >= Assess(packs[j], profile).confidence
      BY <2>1, ChosenIsBest
    <2>3. CASE packs[i].id = answer.pack
      <3>1. i = k
        BY <2>1, <2>2, <2>3, ChosenIsBest DEF IsRegistry
      <3>2. QED
        BY <2>2, <2>3, <3>1
    <2>4. CASE packs[i].id # answer.pack
      BY <2>2, <2>4
    <2>5. QED
      BY <2>3, <2>4
  <1>3. QED
    BY ChosenStep, <1>1, <1>2, PTL DEF Spec

-----------------------------------------------------------------------------
(* What keeps a pack out.                                                  *)

(* Major and minor of a version against a major alone.                     *)
LEMMA MajorDecides ==
    ASSUME NEW version \in Seq(Nat) \ {<<>>}, NEW major \in Nat, version[1] >= major
    PROVE  VersionGte(version, <<major>>)
  <1>1. /\ Len(version) \in Nat /\ Len(version) >= 1
        /\ DOMAIN version = 1 .. Len(version) /\ version[1] \in Nat
    OBVIOUS
  <1> DEFINE size(s) == Min({2, Len(s)})
  <1>2. ASSUME NEW n \in Nat PROVE Min({2, n}) \in {2, n} /\ Min({2, n}) <= n
    <2>1. {2, n} \in SUBSET Int /\ {2, n} # {}
      OBVIOUS
    <2>2. IsFiniteSet({2, n})
      <3>1. IsFiniteSet({2}) /\ IsFiniteSet({n})
        BY FS_Singleton
      <3>2. IsFiniteSet({2} \cup {n})
        BY <3>1, FS_Union
      <3>3. {2, n} = {2} \cup {n}
        OBVIOUS
      <3>4. QED
        BY <3>2, <3>3
    <2>3. QED
      BY <2>1, <2>2, MinExists
  <1>3. size(version) \in 1 .. Len(version)
    BY <1>1, <1>2
  <1>4. size(<<major>>) \in {1, 2} /\ size(<<major>>) <= 1
    BY <1>2
  <1> DEFINE v == MajorMinor(version)
             b == MajorMinor(<<major>>)
  <1>5. v = SubSeq(version, 1, size(version)) /\ b = SubSeq(<<major>>, 1, size(<<major>>))
    BY DEF MajorMinor
  <1> HIDE DEF size
  <1>6. Len(v) >= 1 /\ v[1] = version[1] /\ DOMAIN v = 1 .. Len(v) /\ Len(v) \in Nat
    BY <1>1, <1>3, <1>5
  <1>7. b = <<major>>
    <2>1. size(<<major>>) = 1
      BY <1>4
    <2>2. QED
      BY <1>5, <2>1
  <1> HIDE DEF v, b
  <1>8. DOMAIN v \cap DOMAIN b = {1} /\ Len(b) = 1 /\ b[1] = major
    BY <1>6, <1>7
  <1>9. ~VersionLt(version, <<major>>)
    <2>1. ~(v[1] < b[1])
      BY <1>1, <1>6, <1>8
    <2>2. ~(Len(v) < Len(b))
      BY <1>6, <1>8
    <2>3. QED
      BY <1>8, <2>1, <2>2 DEF VersionLt, v, b
  <1>10. QED
    BY <1>9 DEF VersionGte

(* A specifier that requires the target matches one of the two signals     *)
(* with which a pack objects to it.                                        *)
LEMMA RequiringMatches ==
    ASSUME NEW spec, IsSpecifier(spec), NEW major \in Nat, RequiresTarget(spec, major)
    PROVE  \E test \in {"exact", "lower_gte"} : \A signal :
               signal.test = test /\ signal.bound = <<major>> => Matches(signal, Classify(spec))
  <1>1. /\ DOMAIN spec = 1 .. Len(spec) /\ Len(spec) \in Nat /\ DOMAIN spec \subseteq Nat
        /\ spec # <<>>
    BY SequenceDomain DEF IsSpecifier, RequiresTarget
  <1>2. CASE Len(spec) = 1 /\ spec[1].op = "==" /\ StartsWith(spec[1].version, major)
    <2>1. Classify(spec) = [kind |-> "exact", lower |-> spec[1].version,
                            upper |-> spec[1].version]
      BY <1>1, <1>2 DEF Classify
    <2>2. ASSUME NEW signal, signal.test = "exact", signal.bound = <<major>>
          PROVE  Matches(signal, Classify(spec))
      BY <1>2, <2>1, <2>2 DEF Matches
    <2>3. QED
      BY <2>2
  <1>3. CASE Len(spec) > 1 /\ \E i \in DOMAIN spec :
                /\ spec[i].op = ">=" /\ spec[i].version[1] >= major
                /\ \A k \in DOMAIN spec \ {i} : spec[k].op \notin {">=", ">"}
    <2>1. PICK i \in DOMAIN spec :
              /\ spec[i].op = ">=" /\ spec[i].version[1] >= major
              /\ \A k \in DOMAIN spec \ {i} : spec[k].op \notin {">=", ">"}
      BY <1>3
    <2> DEFINE lower == LastBound(spec, {">=", ">"})
               upper == LastBound(spec, {"<=", "<"})
    <2>2. Classify(spec) = [kind |-> "bounded", lower |-> lower, upper |-> upper]
      <3>1. Len(spec) > 1 /\ spec # <<>> /\ Len(spec) # 1
        BY <1>1, <1>3
      <3>2. QED
        BY <3>1, Zenon DEF Classify
    <2>3. lower = spec[i].version
      <3>1. {k \in DOMAIN spec : spec[k].op \in {">=", ">"}} = {i}
        BY <2>1
      <3>2. Max({i}) = i
        BY <1>1 DEF Max
      <3>3. QED
        BY <3>1, <3>2 DEF LastBound
    <2>4. spec[i].version \in Seq(Nat) \ {<<>>}
      BY <2>1 DEF IsSpecifier
    <2> HIDE DEF lower, upper
    <2>5. lower # None /\ VersionGte(lower, <<major>>)
      BY <2>1, <2>3, <2>4, MajorDecides DEF None
    <2>6. ASSUME NEW signal, signal.test = "lower_gte", signal.bound = <<major>>
          PROVE  Matches(signal, Classify(spec))
      <3>1. Classify(spec).lower = lower
        BY <2>2
      <3>2. QED
        BY <2>5, <2>6, <3>1 DEF Matches
    <2>7. QED
      BY <2>6
  <1>4. QED
    BY <1>2, <1>3 DEF RequiresTarget

(* A strong objection outweighs any support.                               *)
LEMMA ObjectionDecides ==
    ASSUME NEW pack, NEW profiled, NEW test, Objects(pack, test),
           NEW constraint \in Declared(profiled, pack.package),
           \A signal : signal.test = test /\ signal.bound = <<pack.target>> =>
               Matches(signal, constraint)
    PROVE  Assess(pack, profiled).status = "NOT_APPLICABLE"
  <1>1. PICK n \in DOMAIN pack.signals :
            /\ pack.signals[n].source = "manifest"
            /\ pack.signals[n].package = pack.package
            /\ pack.signals[n].test = test
            /\ pack.signals[n].bound = <<pack.target>>
            /\ pack.signals[n].status = "NOT_APPLICABLE"
            /\ pack.signals[n].confidence >= pack.notApplicable
    BY DEF Objects
  <1> DEFINE s == pack.signals[n]
             w == [status |-> s.status, confidence |-> s.confidence]
             v == [signal |-> n, status |-> w.status, confidence |-> w.confidence]
             fired == Fired(pack, profiled)
             unnamed == ""
  <1>2. s.status # unnamed
    BY <1>1
  <1>3. w \in Verdicts(s, profiled)
    <2>1. Declared(profiled, s.package) # {} /\ constraint \in Declared(profiled, s.package)
      BY <1>1
    <2>2. Matches(s, constraint)
      BY <1>1
    <2> HIDE DEF s
    <2>3. w \in ManifestVerdicts(s, profiled)
      BY <1>2, <2>1, <2>2, Zenon DEF ManifestVerdicts, unnamed
    <2>4. QED
      BY <1>1, <2>3, Zenon DEF Verdicts, s
  <1>4. v \in fired
    <2>1. v \in {[signal |-> n, status |-> u.status, confidence |-> u.confidence] :
                     u \in Verdicts(s, profiled)}
      BY <1>3
    <2> HIDE DEF v
    <2>2. QED
      BY <1>1, <2>1 DEF Fired
  <1>5. v.status = "NOT_APPLICABLE" /\ v.confidence >= pack.notApplicable
    BY <1>1
  <1> HIDE DEF v, fired
  <1>6. Reaches(fired, "NOT_APPLICABLE", pack.notApplicable)
    BY <1>4, <1>5 DEF Reaches, Confidences
  <1>7. Aggregate(pack, fired).status = "NOT_APPLICABLE"
    BY <1>6 DEF Aggregate
  <1>8. QED
    BY <1>7 DEF Assess, fired

(* The declarations of a manifest that was parsed are in the profile.      *)
LEMMA DeclaredInProfile ==
    ASSUME NEW files, NEW f \in Visited(files), IsFile(f), NEW d \in f.declares,
           f.manifest \notin {"", "setup"}, f.flaw # "toml"
    PROVE  Classify(d.spec) \in Declared(ProfileOf(files), d.package)
  <1> DEFINE e == [package |-> d.package, constraint |-> Classify(d.spec), path |-> f.path]
  <1>1. f.manifest \in {"requirements", "Requirements", "pyproject"}
    BY DEF IsFile
  <1>2. e \in RequirementsEntries(f)
    BY Zenon DEF RequirementsEntries
  <1>3. e \in Entries(f)
    <2>1. CASE f.manifest = "pyproject"
      BY <1>2, <2>1, Zenon DEF Entries, PyprojectEntries
    <2>2. CASE f.manifest \in {"requirements", "Requirements"}
      BY <1>2, <2>2, Zenon DEF Entries
    <2>3. QED
      BY <1>1, <2>1, <2>2
  <1>4. e \in ProfileOf(files).dependencies
    BY <1>3 DEF ProfileOf
  <1>5. e.package = d.package /\ e.constraint = Classify(d.spec)
    OBVIOUS
  <1> HIDE DEF e
  <1>6. QED
    BY <1>4, <1>5 DEF Declared

(* A repository that a manifest declares to be at the target already is    *)
(* not migrated to it, whatever else its manifests and its code say: the   *)
(* engine's threshold for NOT_APPLICABLE comes before the one for support. *)
THEOREM MigratedAlwaysStaysOut == Spec => []MigratedStaysOut
  <1>1. Init => ReadHere /\ Chosen
    BY DEF Init, ReadHere, Chosen
  <1>2. IInv /\ ReadHere /\ Chosen => MigratedStaysOut
    <2>1. SUFFICES ASSUME IInv, ReadHere, Chosen, gate = "analyse",
                          NEW i \in DOMAIN packs, packs[i].id = answer.pack,
                          NEW f \in Visited(Workspace), NEW d \in f.declares,
                          f.manifest \notin {"", "setup"}, f.flaw # "toml",
                          d.package = packs[i].package,
                          RequiresTarget(d.spec, packs[i].target)
                   PROVE  FALSE
      BY DEF MigratedStaysOut
    <2>2. IsFile(f)
      <3>1. PICK p \in {q \in Paths : disk[q] # Nothing} : f \in Contents[disk[p].commit]
        BY <2>1 DEF Visited, Workspace
      <3>2. disk[p].commit \in Commits
        <4>1. disk \in Disks(attempt) /\ disk[p] # Nothing
          BY <2>1, <3>1 DEF IInv, AcqInv, AcqTypeOK
        <4>2. QED
          BY <3>1, <4>1 DEF Disks
      <3>3. f \in Members /\ f.kind = "file"
        BY <3>1, <3>2 DEF Contents
      <3>4. QED
        BY <3>3, IntakeAssumption
    <2>3. IsSpecifier(d.spec)
      BY <2>1, <2>2 DEF IsFile
    <2>4. profile = ProfileOf(Workspace)
      BY <2>1 DEF ReadHere, Workspace, FilesOn
    <2>5. Classify(d.spec) \in Declared(profile, packs[i].package)
      BY <2>1, <2>2, <2>4, DeclaredInProfile
    <2>6. /\ IsRegistry(packs) /\ ObjectsToTarget(packs[i])
          /\ \E k \in DOMAIN packs :
                packs[k].id = answer.pack /\ Assess(packs[k], profile).status = answer.status
      BY <2>1, ChosenIsBest
    <2>7. Assess(packs[i], profile).status = answer.status
      BY <2>1, <2>6 DEF IsRegistry
    <2>8. Assess(packs[i], profile).status = "NOT_APPLICABLE"
      <3>1. PICK test \in {"exact", "lower_gte"} : \A signal :
                signal.test = test /\ signal.bound = <<packs[i].target>> =>
                    Matches(signal, Classify(d.spec))
        BY <2>1, <2>3, <2>6, RequiringMatches DEF ObjectsToTarget
      <3>2. Objects(packs[i], test)
        BY <2>6, <3>1 DEF ObjectsToTarget
      <3>3. QED
        BY <2>5, <3>1, <3>2, ObjectionDecides
    <2>9. QED
      BY <2>1, <2>7, <2>8 DEF Chosen, NotMigratable
  <1>3. QED
    BY Initially, Invariance, ReadHereStep, ChosenStep, <1>1, <1>2, PTL DEF Spec

-----------------------------------------------------------------------------
(* Every attempt goes on.                                                  *)

(* The loops of an attempt count up to what they loop over.                *)
Counting ==
    /\ attempt <= Attempts
    /\ step \in Endpoints => received = 0
    /\ step = "download" => received <= Weight[sha]
    /\ step \in {"validate", "write"} => cursor <= Len(Tree[sha]) + 1

Advancing ==
    \/ step' \in {"acquired", "failed"}
    \/ StepsLeft' \in Nat /\ StepsLeft' < StepsLeft
    \/ StepsLeft' = StepsLeft /\ UnitsLeft' \in Nat /\ UnitsLeft' < UnitsLeft

LEMMA FailAdvances ==
    ASSUME NEW code, Fail(code), attempt <= Attempts, UNCHANGED attempt
    PROVE  Advancing /\ Counting'
  BY DEF Fail, Advancing, Counting, Endpoints

LEMMA InaccessibleAdvances ==
    ASSUME Counting, step \in Endpoints, Inaccessible, UNCHANGED <<attempt, received>>
    PROVE  Advancing /\ Counting'
  <1>1. CASE wanted = NoCommit /\ step \in {"commits", "heads"}
    <2>1. step' = IF step = "commits" THEN "heads" ELSE "tags"
      BY <1>1, Zenon DEF Inaccessible
    <2>2. QED
      BY <1>1, <2>1 DEF Advancing, StepsLeft, Counting, Endpoints
  <1>2. CASE ~(wanted = NoCommit /\ step \in {"commits", "heads"})
    <2>1. Fail("REPOSITORY_INACCESSIBLE")
      BY <1>2 DEF Inaccessible
    <2>2. QED
      BY <2>1, FailAdvances DEF Counting
  <1>3. QED
    BY <1>1, <1>2

LEMMA AcquireAdvances ==
    ASSUME AcqInv, Counting, Acquire
    PROVE  Advancing /\ Counting' /\ UNCHANGED attempt
  <1>1. UNCHANGED attempt
    BY DEF Acquire, Answered, Refused, Outage, Limited, Chunk, DownloadFails, Downloaded,
           Validate, Validated, WriteMember, WriteFails, Extracted
  <1>2. AcqInv' /\ (step \in Downloading => sha \in Commits)
                /\ (step' \in Downloading => sha' \in Commits)
    BY AcquireStep DEF AcqInv
  <1>3. /\ attempt <= Attempts /\ MaxRetries \in Nat
        /\ tries \in 0 .. MaxRetries /\ received \in Nat /\ cursor \in Nat
        /\ \A c \in Commits : Weight[c] \in Nat /\ Len(Tree[c]) \in Nat
                              /\ DOMAIN Tree[c] = 1 .. Len(Tree[c])
    BY AcquisitionAssumption DEF AcqInv, AcqTypeOK, Counting
  <1>4. CASE Answered
    <2>1. CASE step = "metadata"
      <3>1. step' = "commits" /\ received' = received
        BY <1>4, <2>1 DEF Answered, archiveVars
      <3>2. QED
        BY <1>1, <2>1, <3>1 DEF Advancing, StepsLeft, Counting, Endpoints
    <2>2. CASE step # "metadata"
      <3>1. /\ step \in {"commits", "heads", "tags"}
            /\ step' = "download" /\ received' = received
        BY <1>4, <2>2 DEF Answered, archiveVars, Endpoints
      <3>2. received' = 0 /\ Weight[sha'] \in Nat
        BY <1>2, <1>3, <3>1 DEF Counting, Endpoints, Downloading
      <3>3. QED
        BY <1>1, <1>3, <3>1, <3>2 DEF Advancing, StepsLeft, Counting, Endpoints
    <2>3. QED
      BY <2>1, <2>2
  <1>5. CASE Refused
    BY <1>1, <1>5, InaccessibleAdvances DEF Refused, archiveVars
  <1>6. CASE Outage
    <2>1. step \in Endpoints /\ UNCHANGED <<attempt, received>>
      BY <1>1, <1>6 DEF Outage, archiveVars
    <2>2. CASE tries < MaxRetries
      <3>1. tries' = tries + 1 /\ step' = step
        BY <1>6, <2>2 DEF Outage
      <3>2. StepsLeft' = StepsLeft
        BY <3>1 DEF StepsLeft
      <3> step' \in Endpoints
        BY <2>1, <3>1
      <3>3. UnitsLeft = MaxRetries - tries /\ UnitsLeft' = MaxRetries - tries'
        BY <2>1 DEF UnitsLeft, Endpoints
      <3>4. UnitsLeft' \in Nat /\ UnitsLeft' < UnitsLeft
        BY <1>3, <2>2, <3>1, <3>3
      <3>5. QED
        BY <2>1, <3>1, <3>2, <3>4 DEF Advancing, Counting, Endpoints
    <2>3. CASE ~(tries < MaxRetries)
      <3>1. Inaccessible
        BY <1>6, <2>3 DEF Outage
      <3>2. QED
        BY <2>1, <3>1, InaccessibleAdvances
    <2>4. QED
      BY <2>2, <2>3
  <1>7. CASE Limited \/ DownloadFails
    BY <1>1, <1>3, <1>7, FailAdvances DEF Limited, DownloadFails
  <1>8. CASE Chunk
    <2>1. /\ step = "download" /\ received < Weight[sha] /\ received' = received + 1
          /\ sha \in Commits /\ sha' = sha
      BY <1>2, <1>8 DEF Chunk, Downloading
    <2>2. CASE step' = step
      <3>1. UnitsLeft = Weight[sha] - received /\ UnitsLeft' = Weight[sha] - received'
        BY <2>1, <2>2 DEF UnitsLeft, Endpoints
      <3>2. UnitsLeft' \in Nat /\ UnitsLeft' < UnitsLeft /\ received' <= Weight[sha]
        BY <1>3, <2>1, <3>1
      <3>3. StepsLeft' = StepsLeft
        BY <2>2 DEF StepsLeft
      <3>4. QED
        BY <1>1, <1>3, <2>1, <2>2, <3>2, <3>3 DEF Advancing, Counting, Endpoints
    <2>3. CASE step' # step
      BY <1>1, <1>3, <1>8, <2>3, FailAdvances DEF Chunk
    <2>4. QED
      BY <2>2, <2>3
  <1>9. CASE Downloaded
    <2>1. step = "download" /\ sha \in Commits /\ sha' = sha
      BY <1>2, <1>9 DEF Downloaded, Downloading
    <2>2. CASE sha \in Corrupt
      BY <1>1, <1>3, <1>9, <2>2, FailAdvances DEF Downloaded, Discard
    <2>3. CASE sha \notin Corrupt
      <3>1. step' = "validate" /\ cursor' = 1
        BY <1>9, <2>3 DEF Downloaded
      <3>2. cursor' <= Len(Tree[sha']) + 1
        BY <1>3, <2>1, <3>1
      <3>3. QED
        BY <1>1, <1>3, <2>1, <3>1, <3>2 DEF Advancing, StepsLeft, Counting, Endpoints
    <2>4. QED
      BY <2>2, <2>3
  <1>10. ASSUME HasMember, step \in {"validate", "write"}, step' = step, sha' = sha,
                cursor' = cursor + 1
         PROVE  Advancing /\ Counting'
    <2>1. sha \in Commits /\ cursor \in 1 .. Len(Tree[sha])
      BY <1>2, <1>3, <1>10 DEF HasMember, Downloading
    <2>2. UnitsLeft = Len(Tree[sha]) + 1 - cursor /\ UnitsLeft' = Len(Tree[sha]) + 1 - cursor'
      BY <1>10 DEF UnitsLeft, Endpoints
    <2>3. UnitsLeft' \in Nat /\ UnitsLeft' < UnitsLeft /\ cursor' <= Len(Tree[sha]) + 1
      <3>1. \A n \in Nat : \A c \in 1 .. n :
               n + 1 - (c + 1) \in Nat /\ n + 1 - (c + 1) < n + 1 - c /\ c + 1 <= n + 1
        OBVIOUS
      <3>2. Len(Tree[sha]) \in Nat
        BY <1>3, <2>1
      <3>3. /\ Len(Tree[sha]) + 1 - (cursor + 1) \in Nat
            /\ Len(Tree[sha]) + 1 - (cursor + 1) < Len(Tree[sha]) + 1 - cursor
            /\ cursor + 1 <= Len(Tree[sha]) + 1
        BY <2>1, <3>1, <3>2, Zenon
      <3>4. cursor' = cursor + 1
        BY <1>10
      <3>5. QED
        BY <2>2, <3>3, <3>4, Zenon
    <2>4. StepsLeft' = StepsLeft
      BY <1>10 DEF StepsLeft
    <2>5. QED
      BY <1>1, <1>3, <1>10, <2>3, <2>4 DEF Advancing, Counting, Endpoints
  <1>11. CASE Validate
    <2>1. CASE Rejected(Member)
      BY <1>1, <1>3, <1>11, <2>1, FailAdvances DEF Validate, Discard
    <2>2. CASE ~Rejected(Member)
      BY <1>10, <1>11, <2>2 DEF Validate
    <2>3. QED
      BY <2>1, <2>2
  <1>12. CASE Validated
    <2>1. step = "validate" /\ step' = "write" /\ cursor' = 1 /\ sha' = sha /\ sha \in Commits
      BY <1>2, <1>12 DEF Validated, requestVars, Downloading
    <2>2. cursor' <= Len(Tree[sha']) + 1
      BY <1>3, <2>1
    <2>3. QED
      BY <1>1, <1>3, <2>1, <2>2 DEF Advancing, StepsLeft, Counting, Endpoints
  <1>13. CASE WriteMember
    BY <1>10, <1>13 DEF WriteMember, requestVars
  <1>14. CASE WriteFails
    BY <1>1, <1>3, <1>14, FailAdvances DEF WriteFails, Discard
  <1>15. CASE Extracted
    BY <1>1, <1>3, <1>15 DEF Extracted, Advancing, Counting, Endpoints
  <1>16. QED
    BY <1>1, <1>4, <1>5, <1>6, <1>7, <1>8, <1>9, <1>11, <1>12, <1>13, <1>14, <1>15
    DEF Acquire

LEMMA CountingKept == IInv /\ Counting /\ [Next]_vars => Counting'
  <1> SUFFICES ASSUME IInv, Counting, [Next]_vars PROVE Counting'
    OBVIOUS
  <1>1. ASSUME UNCHANGED <<attempt, step, sha, received, cursor>>
        PROVE  Counting'
    BY <1>1 DEF Counting
  <1>2. CASE AcquireRepository
    BY <1>2, AcquireAdvances DEF AcquireRepository, IInv
  <1>3. CASE RunAgain
    <2>1. /\ attempt < Attempts /\ attempt' = attempt + 1
          /\ step' = "metadata" /\ received' = 0
      BY <1>3 DEF RunAgain, Retry
    <2>2. attempt \in Nat /\ Attempts \in Nat
      BY AcquisitionAssumption DEF IInv, AcqInv, AcqTypeOK
    <2>3. QED
      BY <2>1, <2>2 DEF Counting, Endpoints
  <1>4. CASE ProfileRepository \/ SelectMigrationPack \/ ParseDependenciesNode
    BY <1>1, <1>4
    DEF ProfileRepository, SelectMigrationPack, ParseDependenciesNode, acqVars, requestVars,
        archiveVars
  <1>5. CASE Push /\ UNCHANGED intakeVars
    BY <1>1, <1>5 DEF Push, requestVars, archiveVars
  <1>6. CASE UNCHANGED vars
    BY <1>1, <1>6 DEF vars, acqVars, requestVars, archiveVars
  <1>7. QED
    BY <1>2, <1>3, <1>4, <1>5, <1>6 DEF Next

LEMMA LeftAt ==
    /\ Left = <<Left[1], Left[2], Left[3], Left[4]>>
    /\ Left' = <<Left'[1], Left'[2], Left'[3], Left'[4]>>
    /\ Left[1] = Attempts - attempt /\ Left'[1] = Attempts - attempt'
    /\ Left[2] = GatesLeft /\ Left'[2] = GatesLeft'
    /\ Left[3] = StepsLeft /\ Left'[3] = StepsLeft'
    /\ Left[4] = UnitsLeft /\ Left'[4] = UnitsLeft'
  BY DEF Left

LEMMA FewerGates ==
    ASSUME UNCHANGED attempt, GatesLeft' \in Nat, GatesLeft' < GatesLeft
    PROVE  LessLeft(Left', Left)
  <1>1. Left'[2] \in Nat /\ Left'[2] < Left[2]
    BY LeftAt
  <1>2. \A k \in 1 .. 2 - 1 : Left'[k] = Left[k]
    BY LeftAt
  <1>3. QED
    BY <1>1, <1>2, LeftAt, LessLeftFour

LEMMA FewerSteps ==
    ASSUME UNCHANGED attempt, GatesLeft' = GatesLeft,
           \/ StepsLeft' \in Nat /\ StepsLeft' < StepsLeft
           \/ StepsLeft' = StepsLeft /\ UnitsLeft' \in Nat /\ UnitsLeft' < UnitsLeft
    PROVE  LessLeft(Left', Left)
  <1>1. CASE StepsLeft' \in Nat /\ StepsLeft' < StepsLeft
    <2>1. Left'[3] \in Nat /\ Left'[3] < Left[3]
      BY <1>1, LeftAt
    <2>2. \A k \in 1 .. 3 - 1 : Left'[k] = Left[k]
      <3>1. \A k \in 1 .. 3 - 1 : k = 1 \/ k = 2
        OBVIOUS
      <3>2. QED
        BY <3>1, LeftAt
    <2>3. QED
      BY <2>1, <2>2, LeftAt, LessLeftFour
  <1>2. CASE StepsLeft' = StepsLeft /\ UnitsLeft' \in Nat /\ UnitsLeft' < UnitsLeft
    <2>1. Left'[4] \in Nat /\ Left'[4] < Left[4]
      BY <1>2, LeftAt
    <2>2. \A k \in 1 .. 4 - 1 : Left'[k] = Left[k]
      <3>1. \A k \in 1 .. 4 - 1 : k = 1 \/ k = 2 \/ k = 3
        OBVIOUS
      <3>2. QED
        BY <1>2, <3>1, LeftAt
    <2>3. QED
      BY <2>1, <2>2, LeftAt, LessLeftFour
  <1>3. QED
    BY <1>1, <1>2

LEMMA StepAdvances ==
    ASSUME IInv, Counting, [Next]_vars, ~UNCHANGED vars, branch' = branch
    PROVE  LessLeft(Left', Left)
  <1>1. CASE AcquireRepository
    <2>1. /\ gate = "acquire" /\ dependencies' = dependencies
          /\ gate' = CASE step' = "acquired" -> "profile"
                       [] step' = "failed" -> "terminal"
                       [] OTHER -> "acquire"
      BY <1>1 DEF AcquireRepository
    <2>2. Advancing /\ UNCHANGED attempt
      BY <1>1, AcquireAdvances DEF AcquireRepository, IInv
    <2>3. GatesLeft = 4
      BY <2>1 DEF GatesLeft
    <2>4. CASE step' \in {"acquired", "failed"}
      <3>1. gate' \in {"profile", "terminal"}
        BY <2>1, <2>4
      <3>2. GatesLeft' \in {0, 3}
        BY <3>1 DEF GatesLeft
      <3>3. QED
        BY <2>2, <2>3, <3>2, FewerGates
    <2>5. CASE step' \notin {"acquired", "failed"}
      <3>1. gate' = "acquire"
        BY <2>1, <2>5
      <3>2. GatesLeft' = 4
        BY <3>1 DEF GatesLeft
      <3>3. QED
        BY <2>2, <2>3, <2>5, <3>2, FewerSteps DEF Advancing
    <2>6. QED
      BY <2>4, <2>5
  <1>2. CASE ProfileRepository
    <2>1. /\ gate = "profile" /\ gate' \in {"select", "terminal"}
          /\ UNCHANGED attempt
      BY <1>2 DEF ProfileRepository, acqVars
    <2>2. GatesLeft = 3 /\ GatesLeft' \in {0, 2}
      BY <2>1 DEF GatesLeft
    <2>3. QED
      BY <2>1, <2>2, FewerGates
  <1>3. CASE SelectMigrationPack
    <2>1. /\ gate = "select" /\ gate' \in {"analyse", "terminal"}
          /\ UNCHANGED attempt
      BY <1>3 DEF SelectMigrationPack, acqVars
    <2>2. GatesLeft = 2 /\ GatesLeft' \in {0, 1}
      BY <2>1 DEF GatesLeft
    <2>3. QED
      BY <2>1, <2>2, FewerGates
  <1>4. CASE ParseDependenciesNode
    <2>1. /\ gate = "analyse" /\ dependencies = {}
          /\ UNCHANGED <<acqVars, gate, packs, request, profile, answer>>
      BY <1>4 DEF ParseDependenciesNode
    <2>2. dependencies' # {}
      BY <2>1 DEF vars, intakeVars
    <2>3. GatesLeft = 1 /\ GatesLeft' = 0 /\ UNCHANGED attempt
      BY <2>1, <2>2 DEF GatesLeft, acqVars
    <2>4. QED
      BY <2>3, FewerGates
  <1>5. CASE RunAgain
    <2>1. attempt < Attempts /\ attempt' = attempt + 1
      BY <1>5 DEF RunAgain, Retry
    <2>2. attempt \in Nat /\ Attempts \in Nat
      BY AcquisitionAssumption DEF IInv, AcqInv, AcqTypeOK
    <2>3. Left'[1] \in Nat /\ Left'[1] < Left[1]
      BY <2>1, <2>2, LeftAt
    <2>4. \A k \in 1 .. 1 - 1 : Left'[k] = Left[k]
      OBVIOUS
    <2>5. QED
      BY <2>3, <2>4, LeftAt, LessLeftFour
  <1>6. CASE Push /\ UNCHANGED intakeVars
    BY <1>6 DEF Push
  <1>7. QED
    BY <1>1, <1>2, <1>3, <1>4, <1>5, <1>6 DEF Next

(* No answer, refusal or outage of GitHub makes an attempt go back to what *)
(* acquire_repository has left, and nothing is tried without a count.      *)
THEOREM AttemptsAlwaysAdvance == Spec => IntakeAdvances
  <1>1. Init => Counting
    BY AcquisitionAssumption DEF Init, AcqInit, Counting, Endpoints
  <1>2. IInv /\ Counting /\ [Next]_vars
            => [branch' = branch => LessLeft(Left', Left)]_vars
    BY StepAdvances
  <1>3. QED
    BY Initially, Invariance, CountingKept, <1>1, <1>2, PTL DEF Spec, IntakeAdvances

=============================================================================
