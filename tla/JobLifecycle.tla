---------------------------- MODULE JobLifecycle ----------------------------
(***************************************************************************)
(* What the job queue promises about one analysis job, as stated by the    *)
(* module docstring of queue/jobs.py ("queued -> running -> completed |    *)
(* failed", "One retry on transient failure; terminal failure sets state = *)
(* failed").  No queue, no user and no worker appears here: JobQueue is    *)
(* shown to implement this module.                                         *)
(***************************************************************************)
EXTENDS Naturals

CONSTANTS
    Jobs,         \* the analysis jobs
    MaxAttempts   \* _MAX_ATTEMPTS

VARIABLES
    state,        \* state[j]: the "state" field of queue:job:{j}
    attempts      \* attempts[j]: its "attempts" field

vars == <<state, attempts>>

Terminal == {"completed", "failed"}

States == {"none", "queued", "running"} \cup Terminal

Init ==
    /\ state = [j \in Jobs |-> "none"]
    /\ attempts = [j \in Jobs |-> 0]

Submit(j) ==
    /\ state[j] = "none"
    /\ state' = [state EXCEPT ![j] = "queued"]
    /\ attempts' = [attempts EXCEPT ![j] = 0]

Start(j) ==
    /\ state[j] = "queued"
    /\ attempts[j] < MaxAttempts
    /\ state' = [state EXCEPT ![j] = "running"]
    /\ attempts' = [attempts EXCEPT ![j] = @ + 1]

Complete(j) ==
    /\ state[j] = "running"
    /\ state' = [state EXCEPT ![j] = "completed"]
    /\ UNCHANGED attempts

(* A failed attempt is put back only while an attempt is left ...          *)
Retry(j) ==
    /\ state[j] = "running"
    /\ attempts[j] < MaxAttempts
    /\ state' = [state EXCEPT ![j] = "queued"]
    /\ UNCHANGED attempts

(* ... and the job fails only when every attempt has been used.            *)
Fail(j) ==
    /\ state[j] = "running"
    /\ attempts[j] = MaxAttempts
    /\ state' = [state EXCEPT ![j] = "failed"]
    /\ UNCHANGED attempts

Next ==
    \E j \in Jobs :
        \/ Submit(j)
        \/ Start(j)
        \/ Complete(j)
        \/ Retry(j)
        \/ Fail(j)

Spec == Init /\ [][Next]_vars

=============================================================================
