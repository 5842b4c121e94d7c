----------------------------- MODULE Acquisition -----------------------------
(***************************************************************************)
(* The node acquire_repository: the GitHub client (tools/github.py) with   *)
(* its retries and its three ways to resolve a reference, the download and *)
(* the extraction of the archive (tools/safe_archive.py), and the          *)
(* workspace of the analysis on disk, which outlives an attempt.           *)
(*                                                                         *)
(* A commit is immutable; branches move.  What GitHub answers, and when it *)
(* answers at all, is a choice.  Archives are sequences of members, whose  *)
(* paths are already without the top-level directory that is dropped.      *)
(***************************************************************************)
EXTENDS Naturals, Sequences, FiniteSets, FiniteSetsExt

CONSTANTS
    Commits,
    Tree,            \* Tree[c]: the members of the archive of commit c
    Weight,          \* Weight[c]: its compressed size, in chunks
    Corrupt,         \* commits whose archive does not open
    MaxRetries,      \* github_max_retries
    MaxCompressed,   \* max_archive_compressed_bytes, in chunks
    MaxExtracted,    \* max_archive_extracted_bytes
    MaxFiles,        \* max_archive_file_count
    MaxDepth,        \* max_path_depth
    MaxSingle,       \* max_single_file_bytes
    Attempts,        \* bound: how often one analysis is attempted
    NoCommit

Members == UNION {{Tree[c][i] : i \in DOMAIN Tree[c]} : c \in Commits}

Paths == {m.path : m \in Members}

Kinds == {"file", "dir", "link", "special"}

ASSUME AcquisitionAssumption ==
    /\ NoCommit \notin Commits
    /\ DOMAIN Tree = Commits /\ DOMAIN Weight = Commits
    /\ \A c \in Commits : Weight[c] \in Nat /\ Tree[c] \in Seq(Members)
    /\ \A m \in Members :
          m.kind \in Kinds /\ m.size \in Nat /\ m.depth \in Nat /\ m.safe \in BOOLEAN
    /\ Corrupt \subseteq Commits
    /\ {MaxRetries, MaxCompressed, MaxExtracted, MaxFiles, MaxDepth, MaxSingle} \subseteq Nat
    /\ Attempts \in Nat \ {0}

VARIABLES
    wanted,     \* the requested ref: a full SHA, or NoCommit for a name
    branch,     \* the commit the branch of that name points to, if any
    tag,        \* the commit of the tag of that name, if any
    attempt,    \* which attempt at the analysis this is
    step,       \* where acquire_repository is
    tries,      \* failed tries of the current request
    sha,        \* the commit the reference was resolved to
    received,   \* chunks of the archive received
    cursor,     \* the member that the current pass looks at
    totals,     \* extracted_bytes and file_count of the first pass
    disk,       \* disk[p]: commit and attempt that wrote the file, if any
    error       \* the code of the node's error

remoteVars  == <<wanted, branch, tag>>
requestVars == <<tries, sha>>
archiveVars == <<received, cursor, totals>>
acqVars == <<remoteVars, attempt, step, requestVars, archiveVars, disk, error>>

Nothing == [commit |-> NoCommit, attempt |-> 0]

Endpoints == {"metadata", "commits", "heads", "tags"}

NoTotals == [bytes |-> 0, files |-> 0]

Clean == [p \in Paths |-> Nothing]

(* No branch or tag has a full SHA for its name.                           *)
AcqInit ==
    /\ wanted \in Commits \cup {NoCommit}
    /\ branch \in Commits \cup {NoCommit}
    /\ tag \in Commits \cup {NoCommit}
    /\ wanted # NoCommit => branch = NoCommit /\ tag = NoCommit
    /\ attempt = 1
    /\ step = "metadata"
    /\ tries = 0
    /\ sha = NoCommit
    /\ received = 0
    /\ cursor = 1
    /\ totals = NoTotals
    /\ disk = Clean
    /\ error = "none"

-----------------------------------------------------------------------------
(* Requests to the GitHub API: _get and resolve_ref.                       *)

(* A push moves the branch, at any time.                                   *)
Push ==
    /\ branch # NoCommit
    /\ branch' \in Commits \ {branch}
    /\ UNCHANGED <<wanted, tag, attempt, step, requestVars, archiveVars, disk, error>>

(* The commits endpoint takes a SHA or any name, and prefers the branch.   *)
Points(endpoint) ==
    CASE endpoint = "commits" ->
            IF wanted # NoCommit THEN wanted
            ELSE IF branch # NoCommit THEN branch ELSE tag
      [] endpoint = "heads" -> branch
      [] endpoint = "tags" -> tag

(* The node catches every exception; the code tells an inaccessible        *)
(* repository and a safety limit from the rest.                            *)
Fail(code) ==
    /\ step' = "failed"
    /\ error' = code
    /\ tries' = 0

Answered ==
    /\ step \in Endpoints
    /\ IF step = "metadata"
       THEN step' = "commits" /\ UNCHANGED sha
       ELSE /\ Points(step) # NoCommit
            /\ sha' = Points(step)
            /\ step' = "download"
    /\ tries' = 0
    /\ UNCHANGED <<remoteVars, attempt, archiveVars, disk, error>>

(* RepositoryInaccessibleError: the next way to resolve a name is tried,   *)
(* and there is none for the repository itself or for a full SHA.          *)
Inaccessible ==
    IF wanted = NoCommit /\ step \in {"commits", "heads"}
    THEN /\ step' = IF step = "commits" THEN "heads" ELSE "tags"
         /\ tries' = 0
         /\ UNCHANGED error
    ELSE Fail("REPOSITORY_INACCESSIBLE")

(* 404, 401, or 403 with requests remaining.                               *)
Refused ==
    /\ step \in Endpoints
    /\ Inaccessible
    /\ UNCHANGED <<remoteVars, attempt, sha, archiveVars, disk>>

(* Variant: the count starts again instead of giving up.                   *)
OutageForEver ==
    /\ step \in Endpoints
    /\ tries' = IF tries < MaxRetries THEN tries + 1 ELSE 0
    /\ UNCHANGED <<remoteVars, attempt, step, sha, archiveVars, disk, error>>

(* Variant: one retry more than max_retries.                               *)
OutageOnceMore ==
    /\ step \in Endpoints
    /\ IF tries <= MaxRetries
       THEN tries' = tries + 1 /\ UNCHANGED <<step, error>>
       ELSE Inaccessible
    /\ UNCHANGED <<remoteVars, attempt, sha, archiveVars, disk>>

(* A timeout, a network error or a 5xx: retried, max_retries times, and    *)
(* then the same error as a refusal.                                       *)
Outage ==
    /\ step \in Endpoints
    /\ IF tries < MaxRetries
       THEN tries' = tries + 1 /\ UNCHANGED <<step, error>>
       ELSE Inaccessible
    /\ UNCHANGED <<remoteVars, attempt, sha, archiveVars, disk>>

(* 429 or an exhausted quota, another 4xx, a body that is no JSON: none of *)
(* these exceptions is an inaccessible repository to resolve_ref.          *)
Limited ==
    /\ step \in Endpoints
    /\ Fail("INTERNAL_ERROR")
    /\ UNCHANGED <<remoteVars, attempt, sha, archiveVars, disk>>

-----------------------------------------------------------------------------
(* The download, in chunks, with the limit on the compressed size.         *)

Chunk ==
    /\ step = "download"
    /\ received < Weight[sha]
    /\ received' = received + 1
    /\ IF received' > MaxCompressed
       THEN Fail("SAFETY_LIMIT_EXCEEDED")
       ELSE UNCHANGED <<step, error, tries>>
    /\ UNCHANGED <<remoteVars, attempt, sha, cursor, totals, disk>>

(* Not retried, and neither of the errors that the node tells apart.       *)
DownloadFails ==
    /\ step = "download"
    /\ Fail("INTERNAL_ERROR")
    /\ UNCHANGED <<remoteVars, attempt, sha, archiveVars, disk>>

(* An exception in _extract_safely removes the directory and goes on.      *)
Discard(code) ==
    /\ Fail(code)
    /\ disk' = Clean

Downloaded ==
    /\ step = "download"
    /\ received = Weight[sha]
    /\ IF sha \in Corrupt
       THEN Discard("INTERNAL_ERROR") /\ UNCHANGED <<cursor, totals>>
       ELSE /\ step' = "validate"
            /\ cursor' = 1
            /\ totals' = NoTotals
            /\ UNCHANGED <<tries, error, disk>>
    /\ UNCHANGED <<remoteVars, attempt, sha, received>>

-----------------------------------------------------------------------------
(* The extraction: a first pass validates, a second one writes.            *)

Member == Tree[sha][cursor]

HasMember == cursor \in DOMAIN Tree[sha]

(* Variant: the sizes are not added up.                                    *)
CountedAlone(m) ==
    [bytes |-> m.size, files |-> IF m.kind = "file" THEN totals.files + 1 ELSE totals.files]

Counted(m) ==
    IF m.kind = "file"
    THEN [bytes |-> totals.bytes + m.size, files |-> totals.files + 1]
    ELSE totals

Rejected(m) ==
    \/ m.kind \in {"link", "special"}
    \/ ~m.safe
    \/ m.depth > MaxDepth
    \/ m.kind = "file" /\ m.size > MaxSingle
    \/ Counted(m).bytes > MaxExtracted
    \/ Counted(m).files > MaxFiles

Validate ==
    /\ step = "validate"
    /\ HasMember
    /\ IF Rejected(Member)
       THEN Discard("SAFETY_LIMIT_EXCEEDED") /\ UNCHANGED <<cursor, totals>>
       ELSE /\ totals' = Counted(Member)
            /\ cursor' = cursor + 1
            /\ UNCHANGED <<step, error, tries, disk>>
    /\ UNCHANGED <<remoteVars, attempt, sha, received>>

Validated ==
    /\ step = "validate"
    /\ ~HasMember
    /\ step' = "write"
    /\ cursor' = 1
    /\ UNCHANGED <<remoteVars, attempt, requestVars, received, totals, disk, error>>

(* Variant: the files that are there can be written again.                 *)
WriteOver ==
    /\ step = "write"
    /\ HasMember
    /\ disk' = IF Member.kind = "file"
               THEN [disk EXCEPT ![Member.path] = [commit |-> sha, attempt |-> attempt]]
               ELSE disk
    /\ cursor' = cursor + 1
    /\ UNCHANGED <<remoteVars, attempt, step, requestVars, received, totals, error>>

(* A file that was written is read-only (0440), also for a later attempt;  *)
(* the processes of the images do not run as root.                         *)
WriteMember ==
    /\ step = "write"
    /\ HasMember
    /\ IF Member.kind = "file"
       THEN /\ disk[Member.path] = Nothing
            /\ disk' = [disk EXCEPT ![Member.path] = [commit |-> sha, attempt |-> attempt]]
       ELSE UNCHANGED disk
    /\ cursor' = cursor + 1
    /\ UNCHANGED <<remoteVars, attempt, step, requestVars, received, totals, error>>

(* Opening that file raises, and any write may.                            *)
WriteFails ==
    /\ step = "write"
    /\ HasMember
    /\ Discard("INTERNAL_ERROR")
    /\ UNCHANGED <<remoteVars, attempt, sha, archiveVars>>

Extracted ==
    /\ step = "write"
    /\ ~HasMember
    /\ step' = "acquired"
    /\ UNCHANGED <<remoteVars, attempt, requestVars, archiveVars, disk, error>>

Acquire ==
    \/ Answered \/ Refused \/ Outage \/ Limited
    \/ Chunk \/ DownloadFails \/ Downloaded
    \/ Validate \/ Validated
    \/ WriteMember \/ WriteFails \/ Extracted

(* Another attempt at the analysis, under the same id: everything but the  *)
(* workspace is new.  Nothing calls cleanup_workspace.                     *)
Retry ==
    /\ attempt < Attempts
    /\ attempt' = attempt + 1
    /\ step' = "metadata"
    /\ tries' = 0
    /\ sha' = NoCommit
    /\ received' = 0
    /\ cursor' = 1
    /\ totals' = NoTotals
    /\ error' = "none"
    /\ UNCHANGED <<remoteVars, disk>>

=============================================================================
