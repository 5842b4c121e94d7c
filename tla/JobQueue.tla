------------------------------ MODULE JobQueue ------------------------------
(***************************************************************************)
(* The Redis job queue (queue/jobs.py) and the worker processes that drain *)
(* it (worker.py).  Every Redis command, or MULTI pipeline, is one action: *)
(* between two of them any other worker or the submitting process may run. *)
(* A worker's place in claim_next_job, process_one and fail_job is its     *)
(* program counter pc[w].                                                  *)
(*                                                                         *)
(* The analysis itself is a choice between returning and raising; the      *)
(* Postgres side of process_one keeps only which jobs have their row.      *)
(***************************************************************************)
EXTENDS Naturals, Sequences, FiniteSets, Collections

CONSTANTS
    Users,         \* user ids; numbers, ordered as ZRANGE orders tied members
    Jobs,          \* job ids
    Workers,       \* worker processes
    Owner,         \* Owner[j]: the user_id of job j
    MaxAttempts,   \* _MAX_ATTEMPTS (2 in the source)
    Recurring,     \* jobs submitted anew, under a fresh id, once they finished
    Crashes,       \* bound: how many times a worker process dies
    ReplyLoss,     \* TRUE: complete_job's Redis call may raise
    NoJob          \* a worker holds no job

ASSUME QueueAssumption ==
    /\ Users \subseteq Nat
    /\ Owner \in [Jobs -> Users]
    /\ MaxAttempts \in Nat \ {0}
    /\ Recurring \subseteq Jobs
    /\ Crashes \in Nat
    /\ ReplyLoss \in BOOLEAN
    /\ NoJob \notin Jobs

VARIABLES
    queue,      \* queue[u]: the list queue:user:{u}
    active,     \* members of the sorted set queue:active_users
    score,      \* their scores (0 for a user that is no member)
    state,      \* queue:job:{j} "state"; "none" before it is submitted
    attempts,   \* queue:job:{j} "attempts"
    pc,         \* pc[w]: what worker w does next
    held,       \* held[w]: the job worker w popped and still processes
    todo,       \* todo[w]: users of w's ZRANGE snapshot not yet visited
    snap,       \* snap[w]: their scores in that snapshot
    seen,       \* seen[w]: the "attempts" value w last read
    stored,     \* jobs whose analyses row has been upserted
    crashed     \* how many workers have died so far

redisVars  == <<queue, active, score, state, attempts>>
workerVars == <<pc, held, todo, snap, seen>>
vars == <<redisVars, workerVars, stored, crashed>>

Terminal == {"completed", "failed"}

Steps == {"idle", "pop", "drop", "read", "start", "len", "leave", "back",
          "run", "persist", "complete", "fail", "requeue", "push", "giveup"}

Goto(w, step) == pc' = [pc EXCEPT ![w] = step]

-----------------------------------------------------------------------------
(* Submission: enqueue is a single MULTI pipeline.                         *)

(* Only a job nobody works on any more is submitted anew.                  *)
Submittable(j) ==
    \/ state[j] = "none"
    \/ /\ j \in Recurring
       /\ state[j] \in Terminal
       /\ \A w \in Workers : held[w] # j

Activate(u) ==           \* ZADD active_users NX {u: 0}
    /\ active' = active \cup {u}
    /\ UNCHANGED score

Enqueue(j) ==
    /\ Submittable(j)
    /\ queue' = [queue EXCEPT ![Owner[j]] = Append(@, j)]
    /\ Activate(Owner[j])
    /\ state' = [state EXCEPT ![j] = "queued"]
    /\ attempts' = [attempts EXCEPT ![j] = 0]
    /\ stored' = stored \ {j}
    /\ UNCHANGED <<workerVars, crashed>>

-----------------------------------------------------------------------------
(* claim_next_job, one action per Redis command.                           *)

Deactivate(u) ==         \* ZREM active_users u
    /\ active' = active \ {u}
    /\ score' = [score EXCEPT ![u] = 0]

(* ZRANGE returns the members by score, tied members by name.              *)
Before(w, u, v) ==
    \/ snap[w][u] < snap[w][v]
    \/ snap[w][u] = snap[w][v] /\ u < v

IsNextUser(w, u) ==
    /\ u \in todo[w]
    /\ \A v \in todo[w] \ {u} : Before(w, u, v)

Snapshot(w) ==           \* ZRANGE; an empty answer ends the poll at once
    /\ pc[w] = "idle"
    /\ active # {}
    /\ todo' = [todo EXCEPT ![w] = active]
    /\ snap' = [snap EXCEPT ![w] = score]
    /\ Goto(w, "pop")
    /\ UNCHANGED <<redisVars, held, seen, stored, crashed>>

(* Variant: the job is read (LINDEX 0) and not taken off the list.         *)
PopPeeking(w, u) ==
    /\ pc[w] = "pop"
    /\ IsNextUser(w, u)
    /\ queue[u] # <<>>
    /\ held' = [held EXCEPT ![w] = Head(queue[u])]
    /\ todo' = [todo EXCEPT ![w] = {}]
    /\ snap' = [snap EXCEPT ![w] = [v \in Users |-> 0]]
    /\ Goto(w, "read")
    /\ UNCHANGED <<redisVars, seen, stored, crashed>>

Pop(w, u) ==             \* LPOP queue:user:{u}
    /\ pc[w] = "pop"
    /\ IsNextUser(w, u)
    /\ \/ /\ queue[u] = <<>>
          /\ Goto(w, "drop")
          /\ UNCHANGED <<queue, held, todo, snap>>
       \/ /\ queue[u] # <<>>
          /\ held' = [held EXCEPT ![w] = Head(queue[u])]
          /\ queue' = [queue EXCEPT ![u] = Tail(@)]
          /\ todo' = [todo EXCEPT ![w] = {}]
          /\ snap' = [snap EXCEPT ![w] = [v \in Users |-> 0]]
          /\ Goto(w, "read")
    /\ UNCHANGED <<active, score, state, attempts, seen, stored, crashed>>

Drop(w, u) ==            \* ZREM after an empty LPOP, then the next user
    /\ pc[w] = "drop"
    /\ IsNextUser(w, u)
    /\ Deactivate(u)
    /\ todo' = [todo EXCEPT ![w] = @ \ {u}]
    /\ Goto(w, IF todo[w] = {u} THEN "idle" ELSE "pop")
    /\ UNCHANGED <<queue, state, attempts, held, snap, seen, stored, crashed>>

ReadAttempts(w) ==       \* HGET queue:job:{j} attempts
    /\ pc[w] = "read"
    /\ seen' = [seen EXCEPT ![w] = attempts[held[w]]]
    /\ Goto(w, "start")
    /\ UNCHANGED <<redisVars, held, todo, snap, stored, crashed>>

(* Variant: the attempt is not counted.                                    *)
StartUncounted(w) ==
    /\ pc[w] = "start"
    /\ state' = [state EXCEPT ![held[w]] = "running"]
    /\ attempts' = [attempts EXCEPT ![held[w]] = seen[w]]
    /\ Goto(w, "len")
    /\ UNCHANGED <<queue, active, score, held, todo, snap, seen, stored, crashed>>

Start(w) ==              \* HSET state running, attempts + 1
    /\ pc[w] = "start"
    /\ state' = [state EXCEPT ![held[w]] = "running"]
    /\ attempts' = [attempts EXCEPT ![held[w]] = seen[w] + 1]
    /\ Goto(w, "len")
    /\ UNCHANGED <<queue, active, score, held, todo, snap, seen, stored, crashed>>

Remaining(w) ==          \* LLEN queue:user:{u}
    /\ pc[w] = "len"
    /\ Goto(w, IF queue[Owner[held[w]]] = <<>> THEN "leave" ELSE "back")
    /\ UNCHANGED <<redisVars, held, todo, snap, seen, stored, crashed>>

Leave(w) ==              \* nothing remained: ZREM
    /\ pc[w] = "leave"
    /\ Deactivate(Owner[held[w]])
    /\ Goto(w, "run")
    /\ UNCHANGED <<queue, state, attempts, held, todo, snap, seen, stored, crashed>>

(* Variant: ZINCRBY with the sign of a promotion.                          *)
GoBackUp(w) ==
    /\ pc[w] = "back"
    /\ active' = active \cup {Owner[held[w]]}
    /\ score' = [score EXCEPT ![Owner[held[w]]] = @ - 1]
    /\ Goto(w, "run")
    /\ UNCHANGED <<queue, state, attempts, held, todo, snap, seen, stored, crashed>>

GoBack(w) ==             \* a backlog remained: ZINCRBY 1
    /\ pc[w] = "back"
    /\ active' = active \cup {Owner[held[w]]}
    /\ score' = [score EXCEPT ![Owner[held[w]]] = @ + 1]
    /\ Goto(w, "run")
    /\ UNCHANGED <<queue, state, attempts, held, todo, snap, seen, stored, crashed>>

-----------------------------------------------------------------------------
(* process_one, from the previous findings to complete_job: each of the    *)
(* three may raise, and every exception leads to fail_job.                 *)

Run(w) ==
    /\ pc[w] = "run"
    /\ \E step \in {"persist", "fail"} : Goto(w, step)
    /\ UNCHANGED <<redisVars, held, todo, snap, seen, stored, crashed>>

(* Variant: an exception of _persist is swallowed.                         *)
PersistQuietly(w) ==
    /\ pc[w] = "persist"
    /\ stored' \in {stored, stored \cup {held[w]}}
    /\ Goto(w, "complete")
    /\ UNCHANGED <<redisVars, held, todo, snap, seen, crashed>>

Persist(w) ==
    /\ pc[w] = "persist"
    /\ \/ /\ stored' = stored \cup {held[w]}
          /\ Goto(w, "complete")
       \/ /\ UNCHANGED stored
          /\ Goto(w, "fail")
    /\ UNCHANGED <<redisVars, held, todo, snap, seen, crashed>>

Release(w) ==            \* process_one returns: the job is forgotten
    /\ held' = [held EXCEPT ![w] = NoJob]
    /\ seen' = [seen EXCEPT ![w] = 0]
    /\ Goto(w, "idle")
    /\ UNCHANGED <<todo, snap>>

Complete(w) ==           \* HSET state completed
    /\ pc[w] = "complete"
    /\ state' = [state EXCEPT ![held[w]] = "completed"]
    /\ Release(w)
    /\ UNCHANGED <<queue, active, score, attempts, stored, crashed>>

(* The same HSET, whose answer never arrives: applied or not, it raises.   *)
CompleteRaises(w) ==
    /\ ReplyLoss
    /\ pc[w] = "complete"
    /\ \/ state' = [state EXCEPT ![held[w]] = "completed"]
       \/ UNCHANGED state
    /\ Goto(w, "fail")
    /\ UNCHANGED <<queue, active, score, attempts, held, todo, snap, seen, stored, crashed>>

-----------------------------------------------------------------------------
(* fail_job.                                                               *)

(* Variants: the counter is compared off by one, in either direction.      *)
FailReadLate(w) ==
    /\ pc[w] = "fail"
    /\ seen' = [seen EXCEPT ![w] = attempts[held[w]]]
    /\ Goto(w, IF attempts[held[w]] <= MaxAttempts THEN "requeue" ELSE "giveup")
    /\ UNCHANGED <<redisVars, held, todo, snap, stored, crashed>>

FailReadEarly(w) ==
    /\ pc[w] = "fail"
    /\ seen' = [seen EXCEPT ![w] = attempts[held[w]]]
    /\ Goto(w, IF attempts[held[w]] + 1 < MaxAttempts THEN "requeue" ELSE "giveup")
    /\ UNCHANGED <<redisVars, held, todo, snap, stored, crashed>>

FailRead(w) ==           \* HGET attempts, compared with _MAX_ATTEMPTS
    /\ pc[w] = "fail"
    /\ seen' = [seen EXCEPT ![w] = attempts[held[w]]]
    /\ Goto(w, IF attempts[held[w]] < MaxAttempts THEN "requeue" ELSE "giveup")
    /\ UNCHANGED <<redisVars, held, todo, snap, stored, crashed>>

(* Variant: the envelope says queued, and nothing is pushed.               *)
RequeueOnly(w) ==
    /\ pc[w] = "requeue"
    /\ state' = [state EXCEPT ![held[w]] = "queued"]
    /\ Release(w)
    /\ UNCHANGED <<queue, active, score, attempts, stored, crashed>>

Requeue(w) ==            \* HSET state queued
    /\ pc[w] = "requeue"
    /\ state' = [state EXCEPT ![held[w]] = "queued"]
    /\ Goto(w, "push")
    /\ UNCHANGED <<queue, active, score, attempts, held, todo, snap, seen, stored, crashed>>

Push(w) ==               \* pipeline: LPUSH at the front, ZADD NX
    /\ pc[w] = "push"
    /\ queue' = [queue EXCEPT ![Owner[held[w]]] = <<held[w]>> \o @]
    /\ Activate(Owner[held[w]])
    /\ Release(w)
    /\ UNCHANGED <<state, attempts, stored, crashed>>

GiveUp(w) ==             \* HSET state failed
    /\ pc[w] = "giveup"
    /\ state' = [state EXCEPT ![held[w]] = "failed"]
    /\ Release(w)
    /\ UNCHANGED <<queue, active, score, attempts, stored, crashed>>

(* The process dies wherever it is, an unhandled Redis error included, and *)
(* is started again with nothing but what Redis and Postgres hold.         *)
Crash(w) ==
    /\ crashed < Crashes
    /\ pc[w] # "idle"
    /\ crashed' = crashed + 1
    /\ held' = [held EXCEPT ![w] = NoJob]
    /\ seen' = [seen EXCEPT ![w] = 0]
    /\ todo' = [todo EXCEPT ![w] = {}]
    /\ snap' = [snap EXCEPT ![w] = [v \in Users |-> 0]]
    /\ Goto(w, "idle")
    /\ UNCHANGED <<redisVars, stored>>

-----------------------------------------------------------------------------

Init ==
    /\ queue = [u \in Users |-> <<>>]
    /\ active = {}
    /\ score = [u \in Users |-> 0]
    /\ state = [j \in Jobs |-> "none"]
    /\ attempts = [j \in Jobs |-> 0]
    /\ pc = [w \in Workers |-> "idle"]
    /\ held = [w \in Workers |-> NoJob]
    /\ todo = [w \in Workers |-> {}]
    /\ snap = [w \in Workers |-> [v \in Users |-> 0]]
    /\ seen = [w \in Workers |-> 0]
    /\ stored = {}
    /\ crashed = 0

Claim(w) ==
    \/ Snapshot(w)
    \/ \E u \in Users : Pop(w, u) \/ Drop(w, u)
    \/ ReadAttempts(w)
    \/ Start(w)
    \/ Remaining(w)
    \/ Leave(w)
    \/ GoBack(w)

Process(w) ==
    \/ Run(w)
    \/ Persist(w)
    \/ Complete(w)
    \/ CompleteRaises(w)

FailJob(w) ==
    \/ FailRead(w)
    \/ Requeue(w)
    \/ Push(w)
    \/ GiveUp(w)

WorkerStep(w) == Claim(w) \/ Process(w) \/ FailJob(w)

Next ==
    \/ \E j \in Jobs : Enqueue(j)
    \/ \E w \in Workers : WorkerStep(w) \/ Crash(w)

Spec == Init /\ [][Next]_vars

(* run_worker loops for ever, so a worker that can take a step takes one;  *)
(* nobody is obliged to submit a job and nothing is obliged to crash.      *)
Fairness == \A w \in Workers : WF_vars(WorkerStep(w))

FairSpec == Spec /\ Fairness

-----------------------------------------------------------------------------
(* Properties.                                                             *)

Waiting(u) == {queue[u][i] : i \in DOMAIN queue[u]}

InFlight(j) == \E w \in Workers : held[w] = j

(* Every variable holds what the Redis keys and process_one's locals can   *)
(* hold.                                                                   *)
TypeOK ==
    /\ queue \in [Users -> Seq(Jobs)]
    /\ active \subseteq Users
    /\ score \in [Users -> Nat]
    /\ state \in [Jobs -> {"none", "queued", "running"} \cup Terminal]
    /\ attempts \in [Jobs -> Nat]
    /\ pc \in [Workers -> Steps]
    /\ held \in [Workers -> Jobs \cup {NoJob}]
    /\ todo \in [Workers -> SUBSET Users]
    /\ snap \in [Workers -> [Users -> Nat]]
    /\ seen \in [Workers -> Nat]
    /\ stored \subseteq Jobs
    /\ crashed \in 0 .. Crashes

(* A job is never run by two workers, never run while it still waits, and  *)
(* never waits twice: LPOP and the two pushes hand it over whole although  *)
(* the claim and the failure path take several Redis commands each.        *)
SingleHolder ==
    /\ \A u \in Users : \A i, k \in DOMAIN queue[u] :
            queue[u][i] = queue[u][k] => i = k
    /\ \A u, v \in Users : u # v => Waiting(u) \cap Waiting(v) = {}
    /\ \A w \in Workers : \A u \in Users : held[w] \notin Waiting(u)
    /\ \A w, x \in Workers : held[w] = held[x] /\ held[w] # NoJob => w = x

(* No job is started more often than _MAX_ATTEMPTS, and one is given up    *)
(* only when that many attempts were made, although HGET and HSET of the   *)
(* counter are separate commands in claim_next_job and in fail_job.        *)
AttemptsRespected ==
    \A j \in Jobs :
        /\ attempts[j] <= MaxAttempts
        /\ state[j] = "failed" => attempts[j] = MaxAttempts

(* A job whose envelope says completed has its analyses row: process_one   *)
(* persists before complete_job, whatever attempt got there.               *)
CompletedIsStored ==
    \A j \in Jobs : state[j] = "completed" => j \in stored

(* A job that is neither finished nor waiting nor in a worker's hands is   *)
(* gone for good, as nothing reclaims it.  Only a dying worker loses one,  *)
(* and at most the one it held: no interleaving of the commands does.      *)
Lost(j) ==
    /\ state[j] \in {"queued", "running"}
    /\ \A u \in Users : j \notin Waiting(u)
    /\ ~InFlight(j)

LossNeedsCrash == Cardinality({j \in Jobs : Lost(j)}) <= crashed

(* Reply by reply, the envelopes go through the documented life cycle.     *)
Lifecycle == INSTANCE JobLifecycle

ImplementsLifecycle == Lifecycle!Spec

(* What a job has left: attempts, and steps until the next one begins.  A  *)
(* job in a worker's hands has the worker's place in the code.             *)
StepsLeft(step) ==
    CASE step = "len" -> 11 [] step \in {"leave", "back"} -> 10 [] step = "run" -> 9
      [] step = "persist" -> 8 [] step = "complete" -> 7 [] step = "fail" -> 6
      [] step = "requeue" -> 5 [] step \in {"push", "giveup"} -> 4
      [] step = "read" -> 2 [] step = "start" -> 1
      [] OTHER -> 0

Left(j) ==
    <<MaxAttempts - attempts[j],
      IF InFlight(j) THEN StepsLeft(pc[CHOOSE w \in Workers : held[w] = j])
      ELSE IF \E u \in Users : j \in Waiting(u) THEN 3 ELSE 0>>

(* A job only goes on, and every command of the worker that has it takes   *)
(* it on, also when complete_job raises for a job that is completed: no    *)
(* other worker, crash or submission puts it back to a place it has left.  *)
(* Only a job nobody works on is submitted anew.                           *)
JobsAdvance ==
    [][\A j \in Jobs :
          \/ Submittable(j)
          \/ LessLeft(Left(j)', Left(j))
          \/ Left(j)' = Left(j) /\ \A w \in Workers : held[w] = j => pc[w]' = pc[w]]_vars

(* A user that has left active_users while jobs wait in its list is not    *)
(* found by any claim until that user submits again.                       *)
Stranded(u) == queue[u] # <<>> /\ u \notin active

(* Each submitted job finishes within its attempts, unless its worker dies *)
(* or its user was dropped from active_users by the race of ZREM with a    *)
(* push.                                                                   *)
FinishesUnlessStranded ==
    \A j \in Jobs :
        state[j] = "queued" ~>
            state[j] \in Terminal \/ Stranded(Owner[j]) \/ Lost(j)

(* Module docstring, "finds the next non-empty user queue": between two    *)
(* claims every user with a waiting job can be found.                      *)
BacklogIsFound ==
    (\A w \in Workers : pc[w] = "idle") => \A u \in Users : ~Stranded(u)

=============================================================================
