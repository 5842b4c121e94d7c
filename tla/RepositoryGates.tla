--------------------------- MODULE RepositoryGates ---------------------------
(***************************************************************************)
(* What the gates of an analysis promise to the rest of it: the workspace  *)
(* holds whole trees or the analysis is over, of one commit in the first   *)
(* attempt, and later on also what earlier attempts left, as long as it    *)
(* has no path in common with the new tree; the profile is made of just    *)
(* these files, and the answer about the pack is one that graph/routing.py *)
(* knows a route for.  No request, archive or manifest appears here:       *)
(* Intake is shown to implement this module.                               *)
(***************************************************************************)
CONSTANTS
    Commits,
    FilesOf(_),     \* the files of a commit, each with its commit
    Meet(_, _),     \* two commits have a path in common
    Answers,        \* what select_migration_pack may answer
    NoAnswer

VARIABLES
    gate,     \* the gate to be passed next, or where the run stands after it
    held,     \* the files of the workspace, while the gates rely on them
    verdict,  \* the answer about the pack
    retried   \* this is not the first attempt

vars == <<gate, held, verdict, retried>>

NotMigratable == {"NOT_APPLICABLE", "UNSUPPORTED", "ERROR"}

Init ==
    /\ gate = "acquire"
    /\ held = {}
    /\ verdict = NoAnswer
    /\ retried = FALSE

Stop == gate' = "terminal" /\ held' = {} /\ UNCHANGED <<verdict, retried>>

(* acquire_repository: all of a commit beside what was left, or nothing.   *)
Acquire ==
    /\ gate = "acquire"
    /\ \/ /\ gate' = "profile"
          /\ \E c \in Commits : \E left \in SUBSET Commits :
                /\ ~retried => left = {}
                /\ held' = UNION {FilesOf(b) : b \in left \cup {c}}
                /\ \A a, b \in left \cup {c} : a # b => ~Meet(a, b)
          /\ UNCHANGED <<verdict, retried>>
       \/ Stop

(* profile_repository                                                      *)
Profile ==
    /\ gate = "profile"
    /\ \/ gate' = "select" /\ UNCHANGED <<held, verdict, retried>>
       \/ Stop

(* route_after_pack_selection                                              *)
Select ==
    /\ gate = "select"
    /\ verdict' \in Answers
    /\ IF verdict'.status \in NotMigratable
       THEN gate' = "terminal" /\ held' = {}
       ELSE gate' = "analyse" /\ UNCHANGED held
    /\ UNCHANGED retried

(* The worker attempts the whole analysis again.                           *)
Again ==
    /\ gate \in {"analyse", "terminal"}
    /\ gate' = "acquire"
    /\ held' = {}
    /\ verdict' = NoAnswer
    /\ retried' = TRUE

Next == Acquire \/ Profile \/ Select \/ Again

Spec == Init /\ [][Next]_vars

=============================================================================
