--------------------------- MODULE JobQueueProofs ---------------------------
(***************************************************************************)
(* For every number of users, jobs, workers, attempts and crashes: the     *)
(* queue's types, that a job has one holder at most, that attempts stay    *)
(* within _MAX_ATTEMPTS, that completed jobs are stored, that jobs only go *)
(* on, and that the envelopes implement JobLifecycle when no reply of      *)
(* Redis is lost.                                                          *)
(***************************************************************************)
EXTENDS JobQueue, CollectionLemmas

(* A worker holds a job from its LPOP to the return of process_one.        *)
Holding == Steps \ {"idle", "pop", "drop"}

HoldsWhileWorking ==
    \A w \in Workers : held[w] # NoJob <=> pc[w] \in Holding

(* A list only holds its own user's jobs, each once.                       *)
QueuesWellFormed ==
    \A u \in Users : \A i \in DOMAIN queue[u] :
        /\ Owner[queue[u][i]] = u
        /\ \A k \in DOMAIN queue[u] : queue[u][i] = queue[u][k] => i = k

HeldApart ==
    /\ \A w \in Workers : \A u \in Users : held[w] \notin Waiting(u)
    /\ \A w, x \in Workers : held[w] = held[x] /\ held[w] # NoJob => w = x

(* A waiting job is queued and has an attempt left.                        *)
WaitingMayStart ==
    \A u \in Users : \A i \in DOMAIN queue[u] :
        /\ state[queue[u][i]] = "queued"
        /\ attempts[queue[u][i]] < MaxAttempts

(* What a worker relies on, at each point of process_one, about the        *)
(* envelope of the job it holds.                                           *)
EnvelopeOfHeld ==
    \A w \in Workers :
        /\ pc[w] \in Holding => state[held[w]] # "none"
        /\ pc[w] \in {"read", "start"} =>
               state[held[w]] = "queued" /\ attempts[held[w]] < MaxAttempts
        /\ pc[w] = "start" => seen[w] = attempts[held[w]]
        /\ pc[w] \in {"requeue", "push"} => attempts[held[w]] < MaxAttempts
        /\ pc[w] = "push" => state[held[w]] = "queued"
        /\ pc[w] = "giveup" => attempts[held[w]] = MaxAttempts
        /\ pc[w] = "complete" => held[w] \in stored

(* Without lost replies the envelope says running until process_one ends.  *)
RunningWhileHeld ==
    ~ReplyLoss =>
        \A w \in Workers :
            pc[w] \in Holding \ {"read", "start", "push"} =>
                state[held[w]] = "running"

IInv ==
    /\ TypeOK
    /\ HoldsWhileWorking
    /\ QueuesWellFormed
    /\ HeldApart
    /\ WaitingMayStart
    /\ EnvelopeOfHeld
    /\ RunningWhileHeld
    /\ AttemptsRespected
    /\ CompletedIsStored

-----------------------------------------------------------------------------
(* What the three list commands do, index by index.                        *)

(* LPOP: the rest of the list is the list, shifted by one.                 *)
LEMMA TailFacts ==
    ASSUME NEW S, NEW q \in Seq(S), q # <<>>
    PROVE  /\ Head(q) \in S
           /\ Head(q) = q[1]
           /\ 1 \in DOMAIN q
           /\ Tail(q) \in Seq(S)
           /\ \A i \in DOMAIN Tail(q) :
                  /\ i \in Nat
                  /\ i + 1 # 1
                  /\ i + 1 \in DOMAIN q
                  /\ Tail(q)[i] = q[i + 1]
  OBVIOUS

(* RPUSH: the old list and then the new element.                           *)
LEMMA AppendFacts ==
    ASSUME NEW S, NEW q \in Seq(S), NEW e \in S
    PROVE  /\ Append(q, e) \in Seq(S)
           /\ \A i \in DOMAIN Append(q, e) :
                  \/ i \in DOMAIN q /\ Append(q, e)[i] = q[i]
                  \/ i = Len(q) + 1 /\ i \notin DOMAIN q /\ Append(q, e)[i] = e
  OBVIOUS

(* LPUSH: the new element and then the old list.                           *)
LEMMA PushFacts ==
    ASSUME NEW S, NEW q \in Seq(S), NEW e \in S
    PROVE  /\ <<e>> \o q \in Seq(S)
           /\ \A i \in DOMAIN (<<e>> \o q) :
                  \/ i = 1 /\ (<<e>> \o q)[i] = e
                  \/ i - 1 \in DOMAIN q /\ i # 1 /\ i \in Nat /\ (<<e>> \o q)[i] = q[i - 1]
  OBVIOUS

-----------------------------------------------------------------------------
(* Types.                                                                  *)

LEMMA InitType == Init => TypeOK
  BY QueueAssumption DEF Init, TypeOK, Steps

LEMMA EnqueueType ==
    ASSUME TypeOK, NEW j \in Jobs, Enqueue(j)
    PROVE  TypeOK'
  <1>1. queue[Owner[j]] \in Seq(Jobs) /\ Owner[j] \in Users
    BY QueueAssumption DEF TypeOK
  <1>2. queue' \in [Users -> Seq(Jobs)]
    BY <1>1, AppendFacts DEF TypeOK, Enqueue
  <1>3. QED
    BY <1>1, <1>2 DEF TypeOK, Enqueue, Activate, workerVars

LEMMA ClaimType ==
    ASSUME TypeOK, HoldsWhileWorking, NEW w \in Workers, Claim(w)
    PROVE  TypeOK'
  <1> USE DEF redisVars, Goto, Steps
  <1>1. CASE Snapshot(w)
    BY <1>1 DEF TypeOK, Snapshot
  <1>2. ASSUME NEW u \in Users, Pop(w, u) PROVE TypeOK'
    <2>1. CASE queue[u] = <<>>
      BY <1>2, <2>1 DEF TypeOK, Pop
    <2>2. CASE queue[u] # <<>>
      <3>1. queue[u] \in Seq(Jobs)
        BY DEF TypeOK
      <3>2. Head(queue[u]) \in Jobs /\ Tail(queue[u]) \in Seq(Jobs)
        BY <2>2, <3>1, TailFacts
      <3>3. queue' = [queue EXCEPT ![u] = Tail(@)] /\ held' = [held EXCEPT ![w] = Head(queue[u])]
        BY <1>2, <2>2 DEF Pop
      <3>4. queue' \in [Users -> Seq(Jobs)] /\ held' \in [Workers -> Jobs \cup {NoJob}]
        BY <3>2, <3>3 DEF TypeOK
      <3>5. /\ todo' = [todo EXCEPT ![w] = {}]
            /\ snap' = [snap EXCEPT ![w] = [v \in Users |-> 0]]
            /\ pc' = [pc EXCEPT ![w] = "read"]
            /\ UNCHANGED <<active, score, state, attempts, seen, stored, crashed>>
        BY <1>2, <2>2 DEF Pop
      <3>6. QED
        BY <3>4, <3>5 DEF TypeOK
    <2>3. QED
      BY <2>1, <2>2
  <1>3. ASSUME NEW u \in Users, Drop(w, u) PROVE TypeOK'
    BY <1>3 DEF TypeOK, Drop, Deactivate
  <1>h. pc[w] \in Holding => held[w] \in Jobs /\ Owner[held[w]] \in Users
    BY QueueAssumption DEF TypeOK, HoldsWhileWorking
  <1>4. CASE ReadAttempts(w)
    BY <1>4, <1>h DEF TypeOK, ReadAttempts, Holding
  <1>5. CASE Start(w)
    BY <1>5, <1>h DEF TypeOK, Start, Holding
  <1>6. CASE Remaining(w)
    BY <1>6 DEF TypeOK, Remaining
  <1>7. CASE Leave(w)
    BY <1>7, <1>h DEF TypeOK, Leave, Deactivate, Holding
  <1>8. CASE GoBack(w)
    BY <1>8, <1>h DEF TypeOK, GoBack, Holding
  <1>9. QED
    BY <1>1, <1>2, <1>3, <1>4, <1>5, <1>6, <1>7, <1>8 DEF Claim

LEMMA ProcessType ==
    ASSUME TypeOK, HoldsWhileWorking, NEW w \in Workers, Process(w)
    PROVE  TypeOK'
  <1> USE DEF redisVars, Goto, Steps, Release
  <1>1. CASE Run(w)
    BY <1>1 DEF TypeOK, Run
  <1>2. CASE Persist(w)
    <2>1. held[w] \in Jobs
      BY <1>2, QueueAssumption DEF TypeOK, HoldsWhileWorking, Holding, Persist
    <2>2. QED
      BY <1>2, <2>1 DEF TypeOK, Persist
  <1>3. CASE Complete(w)
    BY <1>3 DEF TypeOK, Complete, Terminal
  <1>4. CASE CompleteRaises(w)
    BY <1>4 DEF TypeOK, CompleteRaises, Terminal
  <1>5. QED
    BY <1>1, <1>2, <1>3, <1>4 DEF Process

LEMMA FailType ==
    ASSUME TypeOK, HoldsWhileWorking, NEW w \in Workers, FailJob(w)
    PROVE  TypeOK'
  <1> USE DEF redisVars, Goto, Steps, Release
  <1>1. held[w] \in Jobs
    BY QueueAssumption DEF TypeOK, HoldsWhileWorking, Holding,
       FailJob, FailRead, Requeue, Push, GiveUp
  <1>2. CASE FailRead(w)
    BY <1>1, <1>2 DEF TypeOK, FailRead
  <1>3. CASE Requeue(w)
    BY <1>1, <1>3 DEF TypeOK, Requeue
  <1>4. CASE Push(w)
    <2>1. Owner[held[w]] \in Users
      BY <1>1, QueueAssumption
    <2>2. <<held[w]>> \o queue[Owner[held[w]]] \in Seq(Jobs)
      BY <1>1, <2>1, PushFacts DEF TypeOK
    <2>3. queue' \in [Users -> Seq(Jobs)]
      BY <1>4, <2>2 DEF TypeOK, Push
    <2>4. QED
      BY <1>4, <2>1, <2>3 DEF TypeOK, Push, Activate
  <1>5. CASE GiveUp(w)
    BY <1>1, <1>5 DEF TypeOK, GiveUp, Terminal
  <1>6. QED
    BY <1>2, <1>3, <1>4, <1>5 DEF FailJob

LEMMA CrashType ==
    ASSUME TypeOK, NEW w \in Workers, Crash(w)
    PROVE  TypeOK'
  BY QueueAssumption DEF TypeOK, Crash, redisVars, Goto, Steps

LEMMA TypeStep ==
    ASSUME TypeOK, HoldsWhileWorking, [Next]_vars
    PROVE  TypeOK'
  <1>1. CASE UNCHANGED vars
    BY <1>1 DEF vars, redisVars, workerVars, TypeOK
  <1>2. CASE Next
    BY <1>2, EnqueueType, ClaimType, ProcessType, FailType, CrashType
       DEF Next, WorkerStep
  <1>3. QED
    BY <1>1, <1>2

LEMMA HoldsStep ==
    ASSUME TypeOK, HoldsWhileWorking, [Next]_vars
    PROVE  HoldsWhileWorking'
  <1> USE DEF HoldsWhileWorking, Holding, Steps, Goto, Release
  <1>0. /\ pc \in [Workers -> Steps]
        /\ held \in [Workers -> Jobs \cup {NoJob}]
    BY DEF TypeOK
  <1>1. CASE UNCHANGED vars
    BY <1>1 DEF vars, workerVars
  <1>2. ASSUME NEW j \in Jobs, Enqueue(j) PROVE HoldsWhileWorking'
    BY <1>2 DEF Enqueue, workerVars
  <1>3. ASSUME NEW w \in Workers, Claim(w) PROVE HoldsWhileWorking'
    <2>1. ASSUME NEW u \in Users, Pop(w, u) PROVE HoldsWhileWorking'
      <3>1. CASE queue[u] = <<>>
        BY <2>1, <3>1 DEF Pop, TypeOK
      <3>2. CASE queue[u] # <<>>
        <4>1. queue[u] \in Seq(Jobs)
          BY DEF TypeOK
        <4>2. Head(queue[u]) \in Jobs
          BY <3>2, <4>1, TailFacts
        <4>3. Head(queue[u]) # NoJob
          BY <4>2, QueueAssumption
        <4>4. /\ held' = [held EXCEPT ![w] = Head(queue[u])]
              /\ pc' = [pc EXCEPT ![w] = "read"]
          BY <2>1, <3>2 DEF Pop
        <4>5. QED
          BY <4>3, <4>4 DEF TypeOK
      <3>3. QED
        BY <3>1, <3>2
    <2>2. ASSUME NEW u \in Users, Drop(w, u) PROVE HoldsWhileWorking'
      BY <2>2 DEF Drop, TypeOK
    <2>3. CASE Snapshot(w)
      BY <2>3, <1>0 DEF Snapshot
    <2>4. CASE ReadAttempts(w)
      BY <2>4, <1>0 DEF ReadAttempts
    <2>5. CASE Start(w)
      BY <2>5, <1>0 DEF Start
    <2>6. CASE Remaining(w)
      BY <2>6, <1>0 DEF Remaining
    <2>7. CASE Leave(w)
      BY <2>7, <1>0 DEF Leave
    <2>8. CASE GoBack(w)
      BY <2>8, <1>0 DEF GoBack
    <2>9. QED
      BY <1>3, <2>1, <2>2, <2>3, <2>4, <2>5, <2>6, <2>7, <2>8 DEF Claim
  <1>4. ASSUME NEW w \in Workers, Process(w) PROVE HoldsWhileWorking'
    <2>1. CASE Run(w)
      BY <2>1, <1>0 DEF Run
    <2>2. CASE Persist(w)
      BY <2>2, <1>0 DEF Persist
    <2>3. CASE Complete(w)
      BY <2>3, <1>0 DEF Complete
    <2>4. CASE CompleteRaises(w)
      BY <2>4, <1>0 DEF CompleteRaises
    <2>5. QED
      BY <1>4, <2>1, <2>2, <2>3, <2>4 DEF Process
  <1>5. ASSUME NEW w \in Workers, FailJob(w) PROVE HoldsWhileWorking'
    <2>1. CASE FailRead(w)
      BY <2>1, <1>0 DEF FailRead
    <2>2. CASE Requeue(w)
      BY <2>2, <1>0 DEF Requeue
    <2>3. CASE Push(w)
      BY <2>3, <1>0 DEF Push
    <2>4. CASE GiveUp(w)
      BY <2>4, <1>0 DEF GiveUp
    <2>5. QED
      BY <1>5, <2>1, <2>2, <2>3, <2>4 DEF FailJob
  <1>6. ASSUME NEW w \in Workers, Crash(w) PROVE HoldsWhileWorking'
    BY <1>6 DEF TypeOK, Crash
  <1>7. QED
    BY <1>1, <1>2, <1>3, <1>4, <1>5, <1>6 DEF Next, WorkerStep

(* Every variable of the queue and of the workers keeps its type, for any  *)
(* number of users, jobs, workers and crashes (queue/jobs.py, worker.py).  *)
THEOREM TypeCorrect == Spec => [](TypeOK /\ HoldsWhileWorking)
  <1>1. Init => TypeOK /\ HoldsWhileWorking
    BY InitType DEF Init, HoldsWhileWorking, Holding
  <1>2. TypeOK /\ HoldsWhileWorking /\ [Next]_vars => (TypeOK /\ HoldsWhileWorking)'
    BY TypeStep, HoldsStep
  <1>3. QED
    BY <1>1, <1>2, PTL DEF Spec

-----------------------------------------------------------------------------
(* The inductive invariant.                                                *)

(* What IInv says of the jobs themselves and of the hands they are in.     *)
Rest ==
    /\ QueuesWellFormed
    /\ HeldApart
    /\ WaitingMayStart
    /\ EnvelopeOfHeld
    /\ RunningWhileHeld
    /\ AttemptsRespected
    /\ CompletedIsStored

LEMMA HeldIsJob ==
    ASSUME IInv, NEW w \in Workers, pc[w] \in Holding
    PROVE  /\ held[w] \in Jobs
           /\ held[w] # NoJob
           /\ Owner[held[w]] \in Users
           /\ queue[Owner[held[w]]] \in Seq(Jobs)
  BY QueueAssumption DEF IInv, TypeOK, HoldsWhileWorking

(* A step that leaves the queues and the hands alone only has the envelope *)
(* of the job in those hands to answer for.                                *)
LEMMA EnvelopeStep ==
    ASSUME IInv, NEW w \in Workers, pc[w] \in Holding,
           UNCHANGED <<queue, held>>,
           \A j \in Jobs \ {held[w]} : state'[j] = state[j] /\ attempts'[j] = attempts[j]
    PROVE  QueuesWellFormed' /\ HeldApart' /\ WaitingMayStart'
  <1>1. QueuesWellFormed'
    BY DEF IInv, QueuesWellFormed
  <1>2. HeldApart'
    BY DEF IInv, HeldApart, Waiting
  <1>3. WaitingMayStart'
    <2>1. SUFFICES ASSUME NEW u \in Users, NEW i \in DOMAIN queue[u]
                   PROVE  /\ state'[queue[u][i]] = "queued"
                          /\ attempts'[queue[u][i]] < MaxAttempts
      BY DEF WaitingMayStart
    <2>2. queue[u][i] \in Jobs \ {held[w]}
      BY DEF IInv, TypeOK, HeldApart, Waiting
    <2>3. QED
      BY <2>2 DEF IInv, WaitingMayStart
  <1>4. QED
    BY <1>1, <1>2, <1>3

(* The commands of process_one and fail_job that write the envelope.       *)
LEMMA WorkStep ==
    ASSUME IInv, NEW w \in Workers,
           \/ ReadAttempts(w) \/ Start(w) \/ Remaining(w) \/ Leave(w) \/ GoBack(w)
           \/ Run(w) \/ Persist(w) \/ CompleteRaises(w) \/ FailRead(w) \/ Requeue(w)
    PROVE  Rest'
  <1> USE DEF Goto, redisVars
  <1>1. pc[w] \in Holding
    BY DEF ReadAttempts, Start, Remaining, Leave, GoBack, Run, Persist, CompleteRaises,
       FailRead, Requeue, Holding, Steps
  <1>2. held[w] \in Jobs /\ held[w] # NoJob
    BY <1>1, HeldIsJob
  <1>3. UNCHANGED <<queue, held>>
    BY DEF ReadAttempts, Start, Remaining, Leave, GoBack, Run, Persist, CompleteRaises,
       FailRead, Requeue
  <1>4. \A j \in Jobs \ {held[w]} : state'[j] = state[j] /\ attempts'[j] = attempts[j]
    BY <1>2 DEF IInv, TypeOK, ReadAttempts, Start, Remaining, Leave, GoBack, Run, Persist,
       CompleteRaises, FailRead, Requeue
  <1>5. QueuesWellFormed' /\ HeldApart' /\ WaitingMayStart'
    BY <1>1, <1>3, <1>4, EnvelopeStep
  <1>6. \A x \in Workers \ {w} :
            /\ pc'[x] = pc[x] /\ seen'[x] = seen[x] /\ held'[x] = held[x]
            /\ held[x] # held[w]
    BY <1>2, <1>3 DEF IInv, TypeOK, HeldApart, ReadAttempts, Start, Remaining, Leave, GoBack,
       Run, Persist, CompleteRaises, FailRead, Requeue
  <1>7. stored \subseteq stored'
    BY DEF ReadAttempts, Start, Remaining, Leave, GoBack, Run, Persist, CompleteRaises,
       FailRead, Requeue
  <1>8. EnvelopeOfHeld'
    <2>1. ASSUME NEW x \in Workers \ {w}, pc'[x] \in Holding
          PROVE  /\ held'[x] = held[x] /\ state'[held[x]] = state[held[x]]
                 /\ attempts'[held[x]] = attempts[held[x]]
      <3>1. held[x] \in Jobs \ {held[w]}
        BY <1>6, <2>1, HeldIsJob
      <3>2. QED
        BY <1>4, <1>6, <3>1
    <2>2. SUFFICES ASSUME NEW x \in Workers, pc'[x] \in Holding
                   PROVE  /\ state'[held'[x]] # "none"
                          /\ pc'[x] \in {"read", "start"} =>
                                 state'[held'[x]] = "queued" /\ attempts'[held'[x]] < MaxAttempts
                          /\ pc'[x] = "start" => seen'[x] = attempts'[held'[x]]
                          /\ pc'[x] \in {"requeue", "push"} => attempts'[held'[x]] < MaxAttempts
                          /\ pc'[x] = "push" => state'[held'[x]] = "queued"
                          /\ pc'[x] = "giveup" => attempts'[held'[x]] = MaxAttempts
                          /\ pc'[x] = "complete" => held'[x] \in stored'
      BY DEF EnvelopeOfHeld, Holding, Steps
    <2>3. CASE x # w
      BY <1>6, <1>7, <2>1, <2>2, <2>3 DEF IInv, EnvelopeOfHeld
    <2>4. CASE x = w
      <3>1. CASE ReadAttempts(w) \/ Start(w)
        BY <1>2, <1>3, <2>4, <3>1, QueueAssumption
           DEF IInv, TypeOK, EnvelopeOfHeld, ReadAttempts, Start
      <3>2. CASE Remaining(w) \/ Leave(w) \/ GoBack(w) \/ Run(w) \/ Persist(w)
        BY <1>2, <1>3, <2>4, <3>2
           DEF IInv, TypeOK, EnvelopeOfHeld, Remaining, Leave, GoBack, Run, Persist,
               Holding, Steps
      <3>3. CASE CompleteRaises(w) \/ Requeue(w)
        BY <1>2, <1>3, <2>4, <3>3
           DEF IInv, TypeOK, EnvelopeOfHeld, CompleteRaises, Requeue, Holding, Steps
      <3>4. CASE FailRead(w)
        <4>1. /\ pc' = [pc EXCEPT ![w] = IF attempts[held[w]] < MaxAttempts
                                         THEN "requeue" ELSE "giveup"]
              /\ UNCHANGED <<state, attempts, stored>>
          BY <3>4 DEF FailRead
        <4>2. attempts[held[w]] \in Nat /\ attempts[held[w]] <= MaxAttempts
          BY <1>2 DEF IInv, TypeOK, AttemptsRespected
        <4>3. state[held[w]] # "none"
          BY <1>1 DEF IInv, EnvelopeOfHeld
        <4>4. ~(attempts[held[w]] < MaxAttempts) => attempts[held[w]] = MaxAttempts
          BY <4>2, QueueAssumption
        <4>5. pc'[w] = IF attempts[held[w]] < MaxAttempts THEN "requeue" ELSE "giveup"
          BY <4>1 DEF IInv, TypeOK
        <4>6. QED
          BY <1>3, <2>4, <4>1, <4>3, <4>4, <4>5
      <3>5. QED
        BY <3>1, <3>2, <3>3, <3>4
    <2>5. QED
      BY <2>3, <2>4
  <1>9. RunningWhileHeld'
    <2>1. SUFFICES ASSUME ~ReplyLoss, NEW x \in Workers,
                          pc'[x] \in Holding \ {"read", "start", "push"}
                   PROVE  state'[held'[x]] = "running"
      BY DEF RunningWhileHeld
    <2>2. CASE x # w
      <3>1. held[x] \in Jobs \ {held[w]}
        BY <1>6, <2>1, <2>2, HeldIsJob
      <3>2. QED
        BY <1>4, <1>6, <2>1, <2>2, <3>1 DEF IInv, RunningWhileHeld
    <2>3. CASE x = w
      BY <1>2, <1>3, <2>1, <2>3
         DEF IInv, TypeOK, RunningWhileHeld, ReadAttempts, Start, Remaining,
             Leave, GoBack, Run, Persist, CompleteRaises, FailRead, Requeue, Holding, Steps
    <2>4. QED
      BY <2>2, <2>3
  <1>10. AttemptsRespected'
    <2>1. SUFFICES ASSUME NEW j \in Jobs
                   PROVE  /\ attempts'[j] <= MaxAttempts
                          /\ state'[j] = "failed" => attempts'[j] = MaxAttempts
      BY DEF AttemptsRespected
    <2>2. CASE j # held[w]
      BY <1>4, <2>2 DEF IInv, AttemptsRespected
    <2>3. CASE j = held[w]
      BY <1>2, <2>3, QueueAssumption
         DEF IInv, TypeOK, AttemptsRespected, EnvelopeOfHeld, ReadAttempts, Start, Remaining,
             Leave, GoBack, Run, Persist, CompleteRaises, FailRead, Requeue
    <2>4. QED
      BY <2>2, <2>3
  <1>11. CompletedIsStored'
    <2>1. SUFFICES ASSUME NEW j \in Jobs, state'[j] = "completed"
                   PROVE  j \in stored'
      BY DEF CompletedIsStored
    <2>2. CASE j # held[w]
      BY <1>4, <1>7, <2>1, <2>2 DEF IInv, CompletedIsStored
    <2>3. CASE j = held[w]
      BY <1>2, <1>7, <2>1, <2>3
         DEF IInv, TypeOK, CompletedIsStored, EnvelopeOfHeld, ReadAttempts, Start, Remaining,
             Leave, GoBack, Run, Persist, CompleteRaises, FailRead, Requeue
    <2>4. QED
      BY <2>2, <2>3
  <1>12. QED
    BY <1>5, <1>8, <1>9, <1>10, <1>11 DEF Rest

(* Snapshots and dropped users touch no job.                               *)
LEMMA ScanStep ==
    ASSUME IInv, NEW w \in Workers,
           Snapshot(w) \/ \E u \in Users : Drop(w, u)
    PROVE  Rest'
  <1>1. UNCHANGED <<queue, held, state, attempts, seen, stored>>
    BY DEF Snapshot, Drop, redisVars
  <1>2. /\ \A x \in Workers \ {w} : pc'[x] = pc[x]
        /\ pc'[w] \in {"idle", "pop", "drop"}
    BY DEF IInv, TypeOK, Snapshot, Drop, Goto
  <1>3. \A x \in Workers : pc'[x] \in Holding => pc'[x] = pc[x]
    BY <1>2 DEF Holding
  <1>4. EnvelopeOfHeld' /\ RunningWhileHeld'
    BY <1>1, <1>3 DEF IInv, EnvelopeOfHeld, RunningWhileHeld, Holding, Steps
  <1>5. QueuesWellFormed' /\ HeldApart' /\ WaitingMayStart'
    BY <1>1 DEF IInv, QueuesWellFormed, HeldApart, WaitingMayStart, Waiting
  <1>6. AttemptsRespected' /\ CompletedIsStored'
    BY <1>1 DEF IInv, AttemptsRespected, CompletedIsStored
  <1>7. QED
    BY <1>4, <1>5, <1>6 DEF Rest

(* A worker that lets go of its job without touching the queue: complete,  *)
(* give up, or die.                                                        *)
LEMMA ReleaseStep ==
    ASSUME IInv, NEW w \in Workers,
           Complete(w) \/ GiveUp(w) \/ Crash(w)
    PROVE  Rest'
  <1> USE DEF Goto, redisVars, Release
  <1>1. UNCHANGED <<queue, attempts, stored>>
    BY DEF Complete, GiveUp, Crash
  <1>2. /\ pc'[w] = "idle" /\ held'[w] = NoJob
        /\ \A x \in Workers \ {w} :
              pc'[x] = pc[x] /\ seen'[x] = seen[x] /\ held'[x] = held[x]
    BY DEF IInv, TypeOK, Complete, GiveUp, Crash
  <1>3. \A j \in Jobs : state'[j] = state[j] \/ (pc[w] \in Holding /\ j = held[w])
    BY DEF IInv, TypeOK, Complete, GiveUp, Crash, Holding, Steps
  <1>4. NoJob \notin Jobs /\ \A x \in Workers : held[x] # NoJob => held[x] \in Jobs
    BY QueueAssumption DEF IInv, TypeOK
  <1>5. \A u \in Users : \A i \in DOMAIN queue[u] :
            queue[u][i] \in Jobs /\ queue[u][i] # held[w]
    BY DEF IInv, TypeOK, HeldApart, Waiting
  <1>6. QueuesWellFormed'
    BY <1>1 DEF IInv, QueuesWellFormed
  <1>7. HeldApart'
    <2>1. \A x \in Workers : held'[x] = held[x] \/ held'[x] = NoJob
      BY <1>2
    <2>2. \A x \in Workers : held'[x] # NoJob => x # w
      BY <1>2
    <2>3. \A u \in Users : NoJob \notin Waiting(u)
      BY <1>4, <1>5 DEF Waiting
    <2>4. QED
      BY <1>1, <2>1, <2>2, <2>3, <1>2 DEF IInv, HeldApart, Waiting
  <1>8. WaitingMayStart'
    BY <1>1, <1>3, <1>5 DEF IInv, WaitingMayStart
  <1>9. \A x \in Workers : pc'[x] \in Holding =>
            /\ x # w /\ pc'[x] = pc[x] /\ held'[x] = held[x] /\ seen'[x] = seen[x]
            /\ state'[held[x]] = state[held[x]]
    <2>1. SUFFICES ASSUME NEW x \in Workers, pc'[x] \in Holding
                   PROVE  /\ x # w /\ pc'[x] = pc[x] /\ held'[x] = held[x]
                          /\ seen'[x] = seen[x] /\ state'[held[x]] = state[held[x]]
      OBVIOUS
    <2>2. x # w
      BY <1>2, <2>1 DEF Holding
    <2>3. pc[x] \in Holding
      BY <1>2, <2>1, <2>2
    <2>4. held[x] \in Jobs /\ held[x] # NoJob
      BY <2>3, HeldIsJob
    <2>5. held[x] # held[w]
      BY <2>2, <2>4 DEF IInv, HeldApart
    <2>6. QED
      BY <1>2, <1>3, <2>2, <2>4, <2>5
  <1>10. EnvelopeOfHeld'
    BY <1>1, <1>9 DEF IInv, EnvelopeOfHeld, Holding, Steps
  <1>11. RunningWhileHeld'
    BY <1>9 DEF IInv, RunningWhileHeld, Holding, Steps
  <1>12. AttemptsRespected'
    <2>1. CASE GiveUp(w)
      <3>1. attempts[held[w]] = MaxAttempts
        BY <2>1 DEF IInv, EnvelopeOfHeld, GiveUp
      <3>2. QED
        BY <1>1, <1>3, <3>1 DEF IInv, AttemptsRespected
    <2>2. CASE Complete(w)
      BY <1>1, <2>2 DEF IInv, TypeOK, AttemptsRespected, Complete
    <2>3. CASE Crash(w)
      BY <1>1, <2>3 DEF IInv, AttemptsRespected, Crash
    <2>4. QED
      BY <2>1, <2>2, <2>3
  <1>13. CompletedIsStored'
    <2>1. CASE Complete(w)
      <3>1. held[w] \in stored
        BY <2>1 DEF IInv, EnvelopeOfHeld, Complete
      <3>2. QED
        BY <1>1, <1>3, <3>1 DEF IInv, CompletedIsStored
    <2>2. CASE GiveUp(w)
      BY <1>1, <2>2 DEF IInv, TypeOK, CompletedIsStored, GiveUp
    <2>3. CASE Crash(w)
      BY <1>1, <2>3 DEF IInv, CompletedIsStored, Crash
    <2>4. QED
      BY <2>1, <2>2, <2>3
  <1>14. QED
    BY <1>6, <1>7, <1>8, <1>10, <1>11, <1>12, <1>13 DEF Rest

(* LPOP moves the first job of a list into the worker's hands.             *)
LEMMA PopStep ==
    ASSUME IInv, NEW w \in Workers, NEW u \in Users, Pop(w, u)
    PROVE  Rest'
  <1> DEFINE q == queue[u]
  <1>1. q \in Seq(Jobs)
    BY DEF IInv, TypeOK
  <1>2. UNCHANGED <<state, attempts, stored, seen>>
    BY DEF Pop
  <1>3. CASE q = <<>>
    <2>1. UNCHANGED <<queue, held>> /\ pc' = [pc EXCEPT ![w] = "drop"]
      BY <1>3 DEF Pop, Goto
    <2>2. \A x \in Workers : pc'[x] \in Holding => pc'[x] = pc[x]
      BY <2>1 DEF IInv, TypeOK, Holding
    <2>3. QueuesWellFormed' /\ HeldApart' /\ WaitingMayStart'
      BY <1>2, <2>1 DEF IInv, QueuesWellFormed, HeldApart, WaitingMayStart, Waiting
    <2>4. EnvelopeOfHeld' /\ RunningWhileHeld'
      BY <1>2, <2>1, <2>2 DEF IInv, EnvelopeOfHeld, RunningWhileHeld, Holding, Steps
    <2>5. AttemptsRespected' /\ CompletedIsStored'
      BY <1>2 DEF IInv, AttemptsRespected, CompletedIsStored
    <2>6. QED
      BY <2>3, <2>4, <2>5 DEF Rest
  <1>4. CASE q # <<>>
    <2> DEFINE j == Head(q)
    <2>1. /\ held' = [held EXCEPT ![w] = j]
          /\ queue' = [queue EXCEPT ![u] = Tail(q)]
          /\ pc' = [pc EXCEPT ![w] = "read"]
      BY <1>4 DEF Pop, Goto
    <2>2. /\ j \in Jobs /\ j = q[1] /\ 1 \in DOMAIN q
          /\ \A i \in DOMAIN Tail(q) :
                i \in Nat /\ i + 1 # 1 /\ i + 1 \in DOMAIN q /\ Tail(q)[i] = q[i + 1]
      BY <1>1, <1>4, TailFacts
    <2>3. j # NoJob
      BY <2>2, QueueAssumption
    <2>4. /\ queue'[u] = Tail(q)
          /\ \A v \in Users \ {u} : queue'[v] = queue[v]
      BY <2>1 DEF IInv, TypeOK
    <2>5. /\ Owner[j] = u /\ state[j] = "queued" /\ attempts[j] < MaxAttempts
          /\ \A i \in DOMAIN Tail(q) : Tail(q)[i] # j
      BY <2>2 DEF IInv, QueuesWellFormed, WaitingMayStart
    <2>6. \A v \in Users : \A i \in DOMAIN queue'[v] :
             \E k \in DOMAIN queue[v] : queue'[v][i] = queue[v][k]
      <3>1. SUFFICES ASSUME NEW v \in Users, NEW i \in DOMAIN queue'[v]
                     PROVE  \E k \in DOMAIN queue[v] : queue'[v][i] = queue[v][k]
        OBVIOUS
      <3>2. CASE v = u
        <4>1. i + 1 \in DOMAIN queue[v] /\ queue'[v][i] = queue[v][i + 1]
          BY <2>2, <2>4, <3>1, <3>2
        <4>2. QED
          BY <4>1
      <3>3. CASE v # u
        BY <2>4, <3>1, <3>3
      <3>4. QED
        BY <3>2, <3>3
    <2>7. \A v \in Users : \A i \in DOMAIN queue'[v] : queue'[v][i] # j
      <3>1. SUFFICES ASSUME NEW v \in Users, NEW i \in DOMAIN queue'[v], queue'[v][i] = j
                     PROVE  FALSE
        OBVIOUS
      <3>2. CASE v = u
        BY <2>4, <2>5, <3>1, <3>2
      <3>3. CASE v # u
        BY <2>4, <2>5, <3>1, <3>3 DEF IInv, QueuesWellFormed
      <3>4. QED
        BY <3>2, <3>3
    <2>8. QueuesWellFormed'
      <3>1. SUFFICES ASSUME NEW v \in Users, NEW i \in DOMAIN queue'[v]
                     PROVE  /\ Owner[queue'[v][i]] = v
                            /\ \A k \in DOMAIN queue'[v] :
                                  queue'[v][i] = queue'[v][k] => i = k
        BY DEF QueuesWellFormed
      <3>2. CASE v # u
        BY <2>4, <3>1, <3>2 DEF IInv, QueuesWellFormed
      <3>3. CASE v = u
        <4>1. \A k \in DOMAIN queue'[v] :
                 /\ k \in Nat /\ k + 1 \in DOMAIN q /\ queue'[v][k] = q[k + 1]
          BY <2>2, <2>4, <3>3
        <4>2. \A k \in DOMAIN queue'[v] : q[i + 1] = q[k + 1] => i + 1 = k + 1
          BY <4>1, <3>1 DEF IInv, QueuesWellFormed
        <4>3. Owner[q[i + 1]] = u
          BY <4>1, <3>1 DEF IInv, QueuesWellFormed
        <4>4. QED
          BY <3>1, <3>3, <4>1, <4>2, <4>3
      <3>4. QED
        BY <3>2, <3>3
    <2>9. \A x \in Workers \ {w} : held'[x] = held[x] /\ pc'[x] = pc[x] /\ held[x] # j
      BY <2>1, <2>2 DEF IInv, TypeOK, HeldApart, Waiting
    <2>10. held'[w] = j /\ pc'[w] = "read"
      BY <2>1 DEF IInv, TypeOK
    <2>11. HeldApart'
      <3>1. ASSUME NEW x \in Workers, NEW v \in Users PROVE held'[x] \notin Waiting(v)'
        <4>1. CASE x = w
          BY <2>7, <2>10, <4>1 DEF Waiting
        <4>2. CASE x # w
          BY <2>6, <2>9, <4>2 DEF IInv, HeldApart, Waiting
        <4>3. QED
          BY <4>1, <4>2
      <3>2. ASSUME NEW x \in Workers, NEW y \in Workers, held'[x] = held'[y], held'[x] # NoJob
            PROVE  x = y
        <4>1. CASE x # w /\ y # w
          BY <2>9, <3>2, <4>1 DEF IInv, HeldApart
        <4>2. CASE x = w \/ y = w
          BY <2>9, <2>10, <3>2, <4>2
        <4>3. QED
          BY <4>1, <4>2
      <3>3. QED
        BY <3>1, <3>2 DEF HeldApart
    <2>12. WaitingMayStart'
      BY <1>2, <2>6 DEF IInv, WaitingMayStart
    <2>13. EnvelopeOfHeld'
      BY <1>2, <2>5, <2>9, <2>10 DEF IInv, EnvelopeOfHeld, Holding, Steps
    <2>14. RunningWhileHeld'
      BY <1>2, <2>9, <2>10 DEF IInv, RunningWhileHeld, Holding, Steps
    <2>15. AttemptsRespected' /\ CompletedIsStored'
      BY <1>2 DEF IInv, AttemptsRespected, CompletedIsStored
    <2>16. QED
      BY <2>8, <2>11, <2>12, <2>13, <2>14, <2>15 DEF Rest
  <1>5. QED
    BY <1>3, <1>4

(* A job enters a list, at either end, that neither waits nor is held by   *)
(* anyone afterwards.                                                      *)
LEMMA JoinsQueue ==
    ASSUME IInv, NEW j \in Jobs, NEW q, NEW u \in Users, u = Owner[j],
           queue' = [queue EXCEPT ![u] = q],
           \A i \in DOMAIN q :
              \/ q[i] = j
              \/ \E k \in DOMAIN queue[u] : q[i] = queue[u][k],
           \A i, k \in DOMAIN q : q[i] = q[k] => i = k,
           \A v \in Users : j \notin Waiting(v),
           \A x \in Workers : held'[x] # j /\ (held'[x] = held[x] \/ held'[x] = NoJob),
           \A i \in Jobs \ {j} : state'[i] = state[i] /\ attempts'[i] = attempts[i],
           state'[j] = "queued", attempts'[j] < MaxAttempts
    PROVE  QueuesWellFormed' /\ HeldApart' /\ WaitingMayStart'
  <1>1. queue'[u] = q /\ \A v \in Users \ {u} : queue'[v] = queue[v]
    BY DEF IInv, TypeOK
  <1>2. \A v \in Users : \A i \in DOMAIN queue[v] : queue[v][i] \in Jobs \ {j}
    BY DEF IInv, TypeOK, Waiting
  <1>3. \A v \in Users : \A i \in DOMAIN queue'[v] :
           \/ v = u /\ queue'[v][i] = j
           \/ \E k \in DOMAIN queue[v] : queue'[v][i] = queue[v][k]
    BY <1>1
  <1>4. QueuesWellFormed'
    <2>1. \A v \in Users : \A i \in DOMAIN queue'[v] : Owner[queue'[v][i]] = v
      BY <1>3 DEF IInv, QueuesWellFormed
    <2>2. \A v \in Users : \A i, k \in DOMAIN queue'[v] :
             queue'[v][i] = queue'[v][k] => i = k
      BY <1>1 DEF IInv, QueuesWellFormed
    <2>3. QED
      BY <2>1, <2>2 DEF QueuesWellFormed
  <1>5. WaitingMayStart'
    BY <1>2, <1>3 DEF IInv, WaitingMayStart
  <1>6. HeldApart'
    <2>1. \A v \in Users : \A i \in DOMAIN queue'[v] : queue'[v][i] \in Jobs
      BY <1>2, <1>3
    <2>2. ASSUME NEW x \in Workers, NEW v \in Users PROVE held'[x] \notin Waiting(v)'
      BY <1>3, <2>1, QueueAssumption DEF IInv, HeldApart, Waiting
    <2>3. ASSUME NEW x \in Workers, NEW y \in Workers, held'[x] = held'[y], held'[x] # NoJob
          PROVE  x = y
      BY <2>3 DEF IInv, HeldApart
    <2>4. QED
      BY <2>2, <2>3 DEF HeldApart
  <1>7. QED
    BY <1>4, <1>5, <1>6

(* enqueue: RPUSH of a job that is new, or finished and out of all hands.  *)
LEMMA EnqueueStep ==
    ASSUME IInv, NEW j \in Jobs, Enqueue(j)
    PROVE  Rest'
  <1> DEFINE u == Owner[j]
             q == Append(queue[u], j)
  <1>1. u \in Users /\ queue[u] \in Seq(Jobs)
    BY QueueAssumption DEF IInv, TypeOK
  <1>2. state[j] \in {"none"} \cup Terminal
    BY DEF Enqueue, Submittable
  <1>3. \A v \in Users : j \notin Waiting(v)
    BY <1>2 DEF IInv, WaitingMayStart, Waiting, Terminal
  <1>4. \A x \in Workers : held[x] # j
    <2>1. CASE state[j] = "none"
      BY <2>1, QueueAssumption DEF IInv, HoldsWhileWorking, EnvelopeOfHeld
    <2>2. CASE state[j] # "none"
      BY <2>2 DEF Enqueue, Submittable
    <2>3. QED
      BY <2>1, <2>2
  <1>5. /\ UNCHANGED <<held, pc, seen>>
        /\ queue' = [queue EXCEPT ![u] = q]
        /\ state' = [state EXCEPT ![j] = "queued"]
        /\ attempts' = [attempts EXCEPT ![j] = 0]
        /\ stored' = stored \ {j}
    BY DEF Enqueue, workerVars
  <1>6. /\ state'[j] = "queued" /\ attempts'[j] = 0
        /\ \A i \in Jobs \ {j} : state'[i] = state[i] /\ attempts'[i] = attempts[i]
    BY <1>5 DEF IInv, TypeOK
  <1>7. QueuesWellFormed' /\ HeldApart' /\ WaitingMayStart'
    <2>1. \A i \in DOMAIN q :
             \/ i \in DOMAIN queue[u] /\ q[i] = queue[u][i]
             \/ i = Len(queue[u]) + 1 /\ q[i] = j
      BY <1>1, AppendFacts
    <2>2. \A i \in DOMAIN queue[u] : queue[u][i] # j
      BY <1>1, <1>3 DEF Waiting
    <2>3. \A i, k \in DOMAIN queue[u] : queue[u][i] = queue[u][k] => i = k
      BY <1>1 DEF IInv, QueuesWellFormed
    <2>4. \A i, k \in DOMAIN q : q[i] = q[k] => i = k
      BY <2>1, <2>2, <2>3
    <2>5. \A i \in DOMAIN q : q[i] = j \/ \E k \in DOMAIN queue[u] : q[i] = queue[u][k]
      BY <2>1
    <2>6. attempts'[j] < MaxAttempts
      BY <1>6, QueueAssumption
    <2>7. \A x \in Workers : held'[x] # j /\ (held'[x] = held[x] \/ held'[x] = NoJob)
      BY <1>4, <1>5
    <2>8. u = Owner[j] /\ u \in Users /\ queue' = [queue EXCEPT ![u] = q]
      BY <1>1, <1>5
    <2>9. \A i \in Jobs \ {j} : state'[i] = state[i] /\ attempts'[i] = attempts[i]
      BY <1>6
    <2>10. state'[j] = "queued"
      BY <1>6
    <2> HIDE DEF u, q
    <2>11. QED
      BY <1>3, <2>4, <2>5, <2>6, <2>7, <2>8, <2>9, <2>10, JoinsQueue
  <1>8. \A x \in Workers : pc[x] \in Holding => held[x] \in Jobs \ {j}
    BY <1>4, HeldIsJob
  <1>9. EnvelopeOfHeld'
    BY <1>5, <1>6, <1>8 DEF IInv, EnvelopeOfHeld, Holding, Steps
  <1>10. RunningWhileHeld'
    BY <1>5, <1>6, <1>8 DEF IInv, RunningWhileHeld
  <1>11. AttemptsRespected' /\ CompletedIsStored'
    BY <1>5, <1>6, QueueAssumption DEF IInv, AttemptsRespected, CompletedIsStored
  <1>12. QED
    BY <1>7, <1>9, <1>10, <1>11 DEF Rest

(* fail_job: LPUSH of the job the worker held until now.                   *)
LEMMA PushStep ==
    ASSUME IInv, NEW w \in Workers, Push(w)
    PROVE  Rest'
  <1> DEFINE j == held[w]
             u == Owner[j]
             q == <<j>> \o queue[u]
  <1>1. /\ j \in Jobs /\ j # NoJob /\ u \in Users /\ queue[u] \in Seq(Jobs)
        /\ pc[w] = "push"
    BY HeldIsJob DEF Push, Holding, Steps
  <1>2. /\ UNCHANGED <<state, attempts, stored>>
        /\ queue' = [queue EXCEPT ![u] = q]
        /\ held' = [held EXCEPT ![w] = NoJob]
        /\ pc' = [pc EXCEPT ![w] = "idle"]
        /\ seen' = [seen EXCEPT ![w] = 0]
    BY DEF Push, Release, Goto
  <1>3. /\ pc'[w] = "idle" /\ held'[w] = NoJob
        /\ \A x \in Workers \ {w} :
              pc'[x] = pc[x] /\ seen'[x] = seen[x] /\ held'[x] = held[x]
    BY <1>2 DEF IInv, TypeOK
  <1>4. state[j] = "queued" /\ attempts[j] < MaxAttempts
    BY <1>1 DEF IInv, EnvelopeOfHeld
  <1>5. \A v \in Users : j \notin Waiting(v)
    BY DEF IInv, HeldApart
  <1>6. QueuesWellFormed' /\ HeldApart' /\ WaitingMayStart'
    <2>1. \A i \in DOMAIN q :
             \/ i = 1 /\ q[i] = j
             \/ i - 1 \in DOMAIN queue[u] /\ i # 1 /\ i \in Nat /\ q[i] = queue[u][i - 1]
      BY <1>1, PushFacts
    <2>2. \A i \in DOMAIN queue[u] : queue[u][i] # j
      BY <1>1, <1>5 DEF Waiting
    <2>3. \A i, k \in DOMAIN queue[u] : queue[u][i] = queue[u][k] => i = k
      BY <1>1 DEF IInv, QueuesWellFormed
    <2>4. \A i, k \in DOMAIN q : q[i] = q[k] => i = k
      <3>1. SUFFICES ASSUME NEW i \in DOMAIN q, NEW k \in DOMAIN q, q[i] = q[k]
                     PROVE  i = k
        OBVIOUS
      <3>2. CASE i = 1 \/ k = 1
        BY <2>1, <2>2, <3>1, <3>2
      <3>3. CASE i # 1 /\ k # 1
        <4>1. i - 1 = k - 1 /\ i \in Nat /\ k \in Nat
          BY <2>1, <2>3, <3>1, <3>3
        <4>2. QED
          BY <4>1
      <3>4. QED
        BY <3>2, <3>3
    <2>5. \A i \in DOMAIN q : q[i] = j \/ \E k \in DOMAIN queue[u] : q[i] = queue[u][k]
      BY <2>1
    <2>6. \A x \in Workers : held'[x] # j /\ (held'[x] = held[x] \/ held'[x] = NoJob)
      BY <1>1, <1>3 DEF IInv, HeldApart
    <2>7. \A i \in Jobs \ {j} : state'[i] = state[i] /\ attempts'[i] = attempts[i]
      BY <1>2
    <2>8. state'[j] = "queued" /\ attempts'[j] < MaxAttempts
      BY <1>2, <1>4
    <2>9. u = Owner[j] /\ j \in Jobs /\ u \in Users
      BY <1>1
    <2>10. queue' = [queue EXCEPT ![u] = q]
      BY <1>2
    <2> HIDE DEF j, u, q
    <2>11. QED
      BY <1>5, <2>4, <2>5, <2>6, <2>7, <2>8, <2>9, <2>10, JoinsQueue
  <1>7. \A x \in Workers : pc'[x] \in Holding => x # w
    BY <1>3 DEF Holding
  <1>8. EnvelopeOfHeld'
    BY <1>2, <1>3, <1>7 DEF IInv, EnvelopeOfHeld, Holding, Steps
  <1>9. RunningWhileHeld'
    BY <1>2, <1>3, <1>7 DEF IInv, RunningWhileHeld
  <1>10. AttemptsRespected' /\ CompletedIsStored'
    BY <1>2 DEF IInv, AttemptsRespected, CompletedIsStored
  <1>11. QED
    BY <1>6, <1>8, <1>9, <1>10 DEF Rest

LEMMA InitIInv == Init => IInv
  <1>1. SUFFICES ASSUME Init PROVE IInv
    OBVIOUS
  <1>2. TypeOK
    BY <1>1, InitType
  <1>3. HoldsWhileWorking /\ EnvelopeOfHeld /\ RunningWhileHeld
    BY <1>1 DEF Init, HoldsWhileWorking, EnvelopeOfHeld, RunningWhileHeld, Holding, Steps
  <1>4. QueuesWellFormed /\ WaitingMayStart
    BY <1>1 DEF Init, QueuesWellFormed, WaitingMayStart
  <1>5. HeldApart
    BY <1>1 DEF Init, HeldApart, Waiting
  <1>6. AttemptsRespected /\ CompletedIsStored
    BY <1>1, QueueAssumption DEF Init, AttemptsRespected, CompletedIsStored
  <1>7. QED
    BY <1>2, <1>3, <1>4, <1>5, <1>6 DEF IInv

LEMMA StepIInv == IInv /\ [Next]_vars => IInv'
  <1>1. SUFFICES ASSUME IInv, [Next]_vars PROVE IInv'
    OBVIOUS
  <1>2. TypeOK' /\ HoldsWhileWorking'
    BY <1>1, TypeStep, HoldsStep DEF IInv
  <1>3. Rest'
    <2>1. CASE UNCHANGED vars
      BY <1>1, <2>1 DEF vars, redisVars, workerVars, IInv, Rest, QueuesWellFormed, HeldApart,
         WaitingMayStart, EnvelopeOfHeld, RunningWhileHeld, AttemptsRespected,
         CompletedIsStored, Waiting
    <2>2. ASSUME NEW j \in Jobs, Enqueue(j) PROVE Rest'
      BY <1>1, <2>2, EnqueueStep
    <2>3. ASSUME NEW w \in Workers, Claim(w) PROVE Rest'
      BY <1>1, <2>3, ScanStep, PopStep, WorkStep DEF Claim
    <2>4. ASSUME NEW w \in Workers, Process(w) PROVE Rest'
      BY <1>1, <2>4, WorkStep, ReleaseStep DEF Process
    <2>5. ASSUME NEW w \in Workers, FailJob(w) PROVE Rest'
      BY <1>1, <2>5, WorkStep, PushStep, ReleaseStep DEF FailJob
    <2>6. ASSUME NEW w \in Workers, Crash(w) PROVE Rest'
      BY <1>1, <2>6, ReleaseStep
    <2>7. QED
      BY <1>1, <2>1, <2>2, <2>3, <2>4, <2>5, <2>6 DEF Next, WorkerStep
  <1>4. QED
    BY <1>2, <1>3 DEF IInv, Rest

LEMMA Invariance == Spec => []IInv
  BY InitIInv, StepIInv, PTL DEF Spec

(* However many workers, users and crashes: a job is in one list at most,  *)
(* once, or in one worker's hands (claim_next_job's LPOP, fail_job's       *)
(* LPUSH, enqueue's RPUSH).                                                *)
THEOREM SingleHolderAlways == Spec => []SingleHolder
  <1>1. IInv => SingleHolder
    <2>1. SUFFICES ASSUME IInv PROVE SingleHolder
      OBVIOUS
    <2>2. \A u, v \in Users : u # v => Waiting(u) \cap Waiting(v) = {}
      BY <2>1 DEF IInv, QueuesWellFormed, Waiting
    <2>3. QED
      BY <2>1, <2>2 DEF IInv, QueuesWellFormed, HeldApart, SingleHolder
  <1>2. QED
    BY <1>1, Invariance, PTL

(* For every _MAX_ATTEMPTS: no job is started more often, and none is      *)
(* marked failed before (claim_next_job, fail_job).                        *)
THEOREM AttemptsRespectedAlways == Spec => []AttemptsRespected
  <1>1. IInv => AttemptsRespected
    BY DEF IInv
  <1>2. QED
    BY <1>1, Invariance, PTL

(* A completed envelope has its row, lost replies or not (process_one).    *)
THEOREM CompletedIsStoredAlways == Spec => []CompletedIsStored
  <1>1. IInv => CompletedIsStored
    BY DEF IInv
  <1>2. QED
    BY <1>1, Invariance, PTL

-----------------------------------------------------------------------------
(* Losses.                                                                 *)

LostJobs == {j \in Jobs : Lost(j)}

(* Whatever it was before, a job that waits or is held is not lost.        *)
LEMMA NotLost ==
    ASSUME NEW j \in Jobs, Lost(j)'
    PROVE  /\ \A u \in Users : \A i \in DOMAIN queue'[u] : queue'[u][i] # j
           /\ \A w \in Workers : held'[w] # j
           /\ state'[j] \in {"queued", "running"}
  BY DEF Lost, Waiting, InFlight

LEMMA WasLost ==
    ASSUME NEW j \in Jobs,
           \A u \in Users : \A i \in DOMAIN queue[u] : queue[u][i] # j,
           \A w \in Workers : held[w] # j,
           state[j] \in {"queued", "running"}
    PROVE  Lost(j)
  BY DEF Lost, Waiting, InFlight

LEMMA NothingLost ==
    ASSUME IInv, NEW j \in Jobs, Lost(j)',
           \/ \E k \in Jobs : Enqueue(k)
           \/ \E w \in Workers : WorkerStep(w)
    PROVE  Lost(j)
  <1> USE DEF redisVars
  <1>1. ASSUME NEW k \in Jobs, Enqueue(k) PROVE Lost(j)
    <2> DEFINE u == Owner[k]
               q == queue[u]
    <2>1. u \in Users /\ q \in Seq(Jobs)
      BY QueueAssumption DEF IInv, TypeOK
    <2>2. /\ queue'[u] = Append(q, k) /\ held' = held /\ state' = [state EXCEPT ![k] = "queued"]
          /\ \A v \in Users \ {u} : queue'[v] = queue[v]
      BY <1>1, <2>1 DEF Enqueue, workerVars, IInv, TypeOK
    <2>3. /\ \A i \in DOMAIN q : i \in DOMAIN Append(q, k) /\ Append(q, k)[i] = q[i]
          /\ Len(q) + 1 \in DOMAIN Append(q, k) /\ Append(q, k)[Len(q) + 1] = k
      BY <2>1
    <2>4. j # k
      BY <2>1, <2>2, <2>3, NotLost
    <2>5. \A v \in Users : \A i \in DOMAIN queue[v] : queue[v][i] # j
      <3>1. ASSUME NEW v \in Users, NEW i \in DOMAIN queue[v] PROVE queue[v][i] # j
        <4>1. CASE v = u
          BY <2>1, <2>2, <2>3, <4>1, NotLost
        <4>2. CASE v # u
          BY <2>2, <4>2, NotLost
        <4>3. QED
          BY <4>1, <4>2
      <3>2. QED
        BY <3>1
    <2>6. state[j] = state'[j]
      BY <2>2, <2>4 DEF IInv, TypeOK
    <2>7. QED
      BY <2>2, <2>5, <2>6, NotLost, WasLost
  <1>2. ASSUME NEW w \in Workers, UNCHANGED <<queue, held>>,
               pc[w] \in Holding \/ UNCHANGED state,
               \A k \in Jobs \ {held[w]} : state'[k] = state[k]
        PROVE  Lost(j)
    <2>1. held[w] # j /\ state[j] = state'[j]
      BY <1>2, NotLost
    <2>2. QED
      BY <1>2, <2>1, NotLost, WasLost
  <1>3. ASSUME NEW w \in Workers, NEW u \in Users, Pop(w, u) PROVE Lost(j)
    <2> DEFINE q == queue[u]
    <2>1. UNCHANGED state /\ pc[w] = "pop" /\ held[w] = NoJob /\ q \in Seq(Jobs)
      BY <1>3 DEF Pop, IInv, HoldsWhileWorking, Holding, TypeOK
    <2>2. CASE q = <<>>
      BY <1>2, <1>3, <2>1, <2>2 DEF Pop
    <2>3. CASE q # <<>>
      <3>1. /\ held' = [held EXCEPT ![w] = Head(q)]
            /\ queue' = [queue EXCEPT ![u] = Tail(q)]
        BY <1>3, <2>3 DEF Pop
      <3>2. /\ held'[w] = Head(q) /\ queue'[u] = Tail(q)
            /\ \A x \in Workers \ {w} : held'[x] = held[x]
            /\ \A v \in Users \ {u} : queue'[v] = queue[v]
        BY <3>1 DEF IInv, TypeOK
      <3>3. \A x \in Workers : held[x] # j
        BY <2>1, <3>2, NotLost, QueueAssumption
      <3>4. \A i \in DOMAIN q : i # 1 => /\ i - 1 \in DOMAIN Tail(q)
                                         /\ Tail(q)[i - 1] = q[i]
        BY <2>1, <2>3
      <3>5. Head(q) = q[1]
        OBVIOUS
      <3>6. q[1] # j
        BY <3>2, <3>5, NotLost
      <3>7. \A i \in DOMAIN q : q[i] # j
        <4>1. ASSUME NEW i \in DOMAIN q, i # 1 PROVE q[i] # j
          <5>1. i - 1 \in DOMAIN queue'[u] /\ queue'[u][i - 1] = q[i]
            BY <3>2, <3>4, <4>1
          <5>2. QED
            BY <5>1, NotLost
        <4>2. QED
          BY <3>6, <4>1
      <3>8. \A v \in Users : \A i \in DOMAIN queue[v] : queue[v][i] # j
        <4>1. ASSUME NEW v \in Users, NEW i \in DOMAIN queue[v] PROVE queue[v][i] # j
          <5>1. CASE v = u
            BY <3>7, <5>1
          <5>2. CASE v # u
            BY <3>2, <5>2, NotLost
          <5>3. QED
            BY <5>1, <5>2
        <4>2. QED
          BY <4>1
      <3>9. QED
        BY <2>1, <3>3, <3>8, NotLost, WasLost
    <2>4. QED
      BY <2>2, <2>3
  <1>4. ASSUME NEW w \in Workers, Complete(w) \/ GiveUp(w) PROVE Lost(j)
    <2>1. /\ pc[w] \in Holding
          /\ held' = [held EXCEPT ![w] = NoJob]
          /\ UNCHANGED queue
          /\ \E end \in Terminal : state' = [state EXCEPT ![held[w]] = end]
      BY <1>4 DEF Complete, GiveUp, Release, Holding, Steps, Terminal
    <2>2. held[w] \in Jobs
      BY <2>1, HeldIsJob
    <2>3. state'[held[w]] \in Terminal
      BY <2>1, <2>2 DEF IInv, TypeOK
    <2>4. held[w] # j
      BY <2>3, NotLost DEF Terminal
    <2>5. state[j] = state'[j] /\ \A x \in Workers : held[x] # j
      BY <2>1, <2>4, NotLost DEF IInv, TypeOK
    <2>6. QED
      BY <2>1, <2>5, NotLost, WasLost
  <1>5. ASSUME NEW w \in Workers, Push(w) PROVE Lost(j)
    <2> DEFINE u == Owner[held[w]]
               q == queue[u]
    <2>1. /\ held[w] \in Jobs /\ u \in Users /\ q \in Seq(Jobs)
      BY <1>5, HeldIsJob DEF Push, Holding, Steps
    <2>2. /\ held' = [held EXCEPT ![w] = NoJob]
          /\ UNCHANGED state
          /\ queue'[u] = <<held[w]>> \o q
          /\ \A v \in Users \ {u} : queue'[v] = queue[v]
      BY <1>5, <2>1 DEF Push, Release, IInv, TypeOK
    <2>3. /\ \A i \in DOMAIN q : i + 1 \in DOMAIN queue'[u] /\ queue'[u][i + 1] = q[i]
          /\ 1 \in DOMAIN queue'[u] /\ queue'[u][1] = held[w]
      BY <2>1, <2>2
    <2>4. \A x \in Workers : held[x] # j
      BY <2>1, <2>2, <2>3, NotLost DEF IInv, TypeOK
    <2>5. \A v \in Users : \A i \in DOMAIN queue[v] : queue[v][i] # j
      <3>1. ASSUME NEW v \in Users, NEW i \in DOMAIN queue[v] PROVE queue[v][i] # j
        <4>1. CASE v = u
          BY <2>1, <2>3, <4>1, NotLost
        <4>2. CASE v # u
          BY <2>2, <4>2, NotLost
        <4>3. QED
          BY <4>1, <4>2
      <3>2. QED
        BY <3>1
    <2>6. QED
      BY <2>2, <2>4, <2>5, NotLost, WasLost
  <1>6. ASSUME NEW w \in Workers,
               \/ ReadAttempts(w) \/ Start(w) \/ Remaining(w) \/ Leave(w) \/ GoBack(w)
               \/ Run(w) \/ Persist(w) \/ CompleteRaises(w) \/ FailRead(w) \/ Requeue(w)
        PROVE  Lost(j)
    <2>1. pc[w] \in Holding /\ UNCHANGED <<queue, held>>
      BY <1>6 DEF ReadAttempts, Start, Remaining, Leave, GoBack, Run, Persist, CompleteRaises,
                  FailRead, Requeue, Holding, Steps
    <2>2. \A k \in Jobs \ {held[w]} : state'[k] = state[k]
      BY <1>6 DEF ReadAttempts, Start, Remaining, Leave, GoBack, Run, Persist, CompleteRaises,
                  FailRead, Requeue, IInv, TypeOK
    <2>3. QED
      BY <1>2, <2>1, <2>2
  <1>7. ASSUME NEW w \in Workers, Snapshot(w) \/ \E u \in Users : Drop(w, u) PROVE Lost(j)
    <2>1. UNCHANGED <<queue, held, state>>
      BY <1>7 DEF Snapshot, Drop
    <2>2. QED
      BY <1>2, <2>1
  <1>8. QED
    BY <1>1, <1>3, <1>4, <1>5, <1>6, <1>7 DEF WorkerStep, Claim, Process, FailJob

LEMMA CrashLosesOne ==
    ASSUME IInv, NEW w \in Workers, Crash(w), NEW j \in Jobs, Lost(j)'
    PROVE  Lost(j) \/ j = held[w]
  <1>1. UNCHANGED <<queue, state>> /\ held' = [held EXCEPT ![w] = NoJob]
    BY DEF Crash, redisVars
  <1>2. \A x \in Workers \ {w} : held[x] # j
    BY <1>1, NotLost DEF IInv, TypeOK
  <1>3. QED
    BY <1>1, <1>2, NotLost, WasLost

(* A job whose envelope is open waits in a list or is in the hands of a    *)
(* worker, whatever interleaving of claim_next_job, fail_job and enqueue,  *)
(* but for one job for each worker that died.                              *)
THEOREM LossNeedsCrashAlways ==
    ASSUME IsFiniteSet(Jobs)
    PROVE  Spec => []LossNeedsCrash
  <1> DEFINE Bounded == crashed \in Nat /\ Cardinality(LostJobs) <= crashed
  <1>1. LostJobs \subseteq Jobs /\ IsFiniteSet(LostJobs) /\ Cardinality(LostJobs) \in Nat
    BY FS_Subset, FS_CardinalityType DEF LostJobs
  <1>2. Init => Bounded
    <2> SUFFICES ASSUME Init PROVE Bounded
      OBVIOUS
    <2>1. LostJobs = {}
      BY DEF Init, LostJobs, Lost
    <2>2. Cardinality(LostJobs) = 0
      BY <2>1, FS_EmptySet
    <2>3. crashed = 0
      BY DEF Init, workerVars
    <2>4. QED
      BY <2>2, <2>3
  <1>3. IInv /\ Bounded /\ [Next]_vars => Bounded'
    <2> SUFFICES ASSUME IInv, Bounded, [Next]_vars PROVE Bounded'
      OBVIOUS
    <2> DEFINE after == {j \in Jobs : Lost(j)'}
    <2>1. LostJobs' = after /\ IsFiniteSet(after) /\ Cardinality(after) \in Nat
      BY FS_Subset, FS_CardinalityType DEF LostJobs
    <2>2. ASSUME after \subseteq LostJobs, crashed' = crashed PROVE Bounded'
      <3>1. Cardinality(after) <= Cardinality(LostJobs)
        BY <1>1, <2>2, FS_Subset
      <3>2. QED
        BY <1>1, <2>1, <2>2, <3>1
    <2>3. CASE UNCHANGED vars
      <3>1. after \subseteq LostJobs /\ crashed' = crashed
        BY <2>3 DEF vars, redisVars, workerVars, LostJobs, Lost, Waiting, InFlight
      <3>2. QED
        BY <2>2, <3>1
    <2>4. CASE \/ \E k \in Jobs : Enqueue(k)
               \/ \E w \in Workers : WorkerStep(w)
      <3>1. after \subseteq LostJobs
        BY <2>4, NothingLost DEF LostJobs
      <3>2. crashed' = crashed
        BY <2>4 DEF Enqueue, WorkerStep, Claim, Process, FailJob, Snapshot, Pop, Drop,
           ReadAttempts, Start, Remaining, Leave, GoBack, Run, Persist, Complete,
           CompleteRaises, FailRead, Requeue, Push, GiveUp
      <3>3. QED
        BY <2>2, <3>1, <3>2
    <2>5. ASSUME NEW w \in Workers, Crash(w) PROVE Bounded'
      <3> DEFINE more == LostJobs \cup {held[w]}
      <3>1. after \subseteq more
        BY <2>5, CrashLosesOne DEF LostJobs
      <3>2. IsFiniteSet(more) /\ Cardinality(more) <= Cardinality(LostJobs) + 1
            /\ Cardinality(more) \in Nat
        <4>1. CASE held[w] \in LostJobs
          <5>1. more = LostJobs
            BY <4>1
          <5>2. Cardinality(LostJobs) <= Cardinality(LostJobs) + 1
            BY <1>1
          <5>3. QED
            BY <1>1, <5>1, <5>2
        <4>2. CASE held[w] \notin LostJobs
          <5>1. IsFiniteSet(more) /\ Cardinality(more) = Cardinality(LostJobs) + 1
            BY <1>1, <4>2, FS_AddElement
          <5>2. QED
            BY <1>1, <5>1
        <4>3. QED
          BY <4>1, <4>2
      <3>3. Cardinality(after) <= Cardinality(more)
        BY <3>1, <3>2, FS_Subset
      <3>4. crashed' = crashed + 1
        BY <2>5 DEF Crash
      <3>5. QED
        BY <1>1, <2>1, <3>2, <3>3, <3>4
    <2>6. QED
      BY <2>3, <2>4, <2>5 DEF Next
  <1>4. Bounded => LossNeedsCrash
    BY DEF LossNeedsCrash, LostJobs
  <1>5. QED
    BY <1>2, <1>3, <1>4, Invariance, PTL DEF Spec

-----------------------------------------------------------------------------
(* Refinement.                                                             *)

LEMMA LifecycleStep ==
    ASSUME ~ReplyLoss, Recurring = {}, IInv, [Next]_vars
    PROVE  [Lifecycle!Next]_<<state, attempts>>
  <1> USE DEF redisVars, Lifecycle!Next
  <1>1. CASE UNCHANGED vars
    BY <1>1 DEF vars
  <1>2. ASSUME NEW j \in Jobs, Enqueue(j) PROVE Lifecycle!Submit(j)
    BY <1>2 DEF Enqueue, Submittable, Lifecycle!Submit
  <1>3. ASSUME NEW w \in Workers, Claim(w)
        PROVE  \/ UNCHANGED <<state, attempts>>
               \/ \E j \in Jobs : Lifecycle!Start(j)
    <2>1. CASE Start(w)
      <3>1. held[w] \in Jobs
        BY <2>1, HeldIsJob DEF Start, Holding, Steps
      <3>2. state[held[w]] = "queued" /\ attempts[held[w]] < MaxAttempts
               /\ seen[w] = attempts[held[w]]
        BY <2>1 DEF IInv, EnvelopeOfHeld, Start
      <3>3. Lifecycle!Start(held[w])
        BY <2>1, <3>1, <3>2 DEF Start, Lifecycle!Start
      <3>4. QED
        BY <3>1, <3>3
    <2>2. CASE ~Start(w)
      BY <1>3, <2>2 DEF Claim, Snapshot, Pop, Drop, ReadAttempts, Remaining, Leave, GoBack
    <2>3. QED
      BY <2>1, <2>2
  <1>4. ASSUME NEW w \in Workers, Process(w)
        PROVE  \/ UNCHANGED <<state, attempts>>
               \/ \E j \in Jobs : Lifecycle!Complete(j)
    <2>1. CASE Complete(w)
      <3>1. held[w] \in Jobs
        BY <2>1, HeldIsJob DEF Complete, Holding, Steps
      <3>2. state[held[w]] = "running"
        BY <2>1 DEF IInv, RunningWhileHeld, Complete, Holding, Steps
      <3>3. Lifecycle!Complete(held[w])
        BY <2>1, <3>2 DEF Complete, Lifecycle!Complete
      <3>4. QED
        BY <3>1, <3>3
    <2>2. CASE ~Complete(w)
      BY <1>4, <2>2 DEF Process, Run, Persist, CompleteRaises
    <2>3. QED
      BY <2>1, <2>2
  <1>5. ASSUME NEW w \in Workers, FailJob(w)
        PROVE  \/ UNCHANGED <<state, attempts>>
               \/ \E j \in Jobs : Lifecycle!Retry(j) \/ Lifecycle!Fail(j)
    <2>1. CASE Requeue(w)
      <3>1. held[w] \in Jobs
        BY <2>1, HeldIsJob DEF Requeue, Holding, Steps
      <3>2. state[held[w]] = "running" /\ attempts[held[w]] < MaxAttempts
        BY <2>1 DEF IInv, RunningWhileHeld, EnvelopeOfHeld, Requeue, Holding, Steps
      <3>3. Lifecycle!Retry(held[w])
        BY <2>1, <3>2 DEF Requeue, Lifecycle!Retry
      <3>4. QED
        BY <3>1, <3>3
    <2>2. CASE GiveUp(w)
      <3>1. held[w] \in Jobs
        BY <2>2, HeldIsJob DEF GiveUp, Holding, Steps
      <3>2. state[held[w]] = "running" /\ attempts[held[w]] = MaxAttempts
        BY <2>2 DEF IInv, RunningWhileHeld, EnvelopeOfHeld, GiveUp, Holding, Steps
      <3>3. Lifecycle!Fail(held[w])
        BY <2>2, <3>2 DEF GiveUp, Lifecycle!Fail
      <3>4. QED
        BY <3>1, <3>3
    <2>3. CASE FailRead(w) \/ Push(w)
      BY <2>3 DEF FailRead, Push
    <2>4. QED
      BY <1>5, <2>1, <2>2, <2>3 DEF FailJob
  <1>6. ASSUME NEW w \in Workers, Crash(w) PROVE UNCHANGED <<state, attempts>>
    BY <1>6 DEF Crash
  <1>7. QED
    BY <1>1, <1>2, <1>3, <1>4, <1>5, <1>6 DEF Next, WorkerStep

(* As long as complete_job's answer always arrives, the envelopes of any   *)
(* number of jobs go through JobLifecycle, crashes of workers included.    *)
THEOREM QueueImplementsLifecycle ==
    ASSUME ~ReplyLoss, Recurring = {}
    PROVE  Spec => ImplementsLifecycle
  <1>1. Init => Lifecycle!Init
    BY DEF Init, Lifecycle!Init
  <1>2. IInv /\ [Next]_vars => [Lifecycle!Next]_<<state, attempts>>
    BY LifecycleStep
  <1>3. QED
    BY <1>1, <1>2, Invariance, PTL
       DEF Spec, ImplementsLifecycle, Lifecycle!Spec, Lifecycle!vars

-----------------------------------------------------------------------------
(* Jobs go on.                                                             *)

IsWaiting(j) == \E u \in Users : \E i \in DOMAIN queue[u] : queue[u][i] = j

LEMMA LeftInHands ==
    ASSUME NEW j, j # NoJob, NEW w \in Workers
    PROVE  /\ HeldApart /\ held[w] = j =>
                  Left(j) = <<MaxAttempts - attempts[j], StepsLeft(pc[w])>>
           /\ HeldApart' /\ held'[w] = j =>
                  Left(j)' = <<MaxAttempts - attempts'[j], StepsLeft(pc'[w])>>
  <1>1. ASSUME HeldApart, held[w] = j
        PROVE  Left(j) = <<MaxAttempts - attempts[j], StepsLeft(pc[w])>>
    <2>1. InFlight(j) /\ (CHOOSE x \in Workers : held[x] = j) = w
      BY <1>1 DEF HeldApart, InFlight
    <2>2. QED
      BY <2>1 DEF Left
  <1>2. ASSUME HeldApart', held'[w] = j
        PROVE  Left(j)' = <<MaxAttempts - attempts'[j], StepsLeft(pc'[w])>>
    <2>1. InFlight(j)' /\ (CHOOSE x \in Workers : held'[x] = j) = w
      BY <1>2 DEF HeldApart, InFlight
    <2>2. QED
      BY <2>1 DEF Left, StepsLeft
  <1>3. QED
    BY <1>1, <1>2

LEMMA LeftOtherwise ==
    ASSUME NEW j
    PROVE  /\ (\A w \in Workers : held[w] # j) =>
                  Left(j) = <<MaxAttempts - attempts[j], IF IsWaiting(j) THEN 3 ELSE 0>>
           /\ (\A w \in Workers : held'[w] # j) =>
                  Left(j)' = <<MaxAttempts - attempts'[j], IF IsWaiting(j)' THEN 3 ELSE 0>>
  BY DEF Left, InFlight, IsWaiting, Waiting

(* What happens to other jobs leaves a job where it is.                    *)
LEMMA LeftAlone ==
    ASSUME HeldApart, HeldApart', NEW j, j # NoJob, attempts'[j] = attempts[j],
           \A w \in Workers : (held'[w] = j <=> held[w] = j)
                              /\ (held[w] = j => pc'[w] = pc[w]),
           IsWaiting(j)' <=> IsWaiting(j)
    PROVE  Left(j)' = Left(j)
  <1>1. CASE \E w \in Workers : held[w] = j
    <2>1. PICK w \in Workers : held[w] = j
      BY <1>1
    <2>2. held'[w] = j /\ pc'[w] = pc[w]
      BY <2>1
    <2>3. QED
      BY <2>1, <2>2, LeftInHands
  <1>2. CASE ~\E w \in Workers : held[w] = j
    BY <1>2, LeftOtherwise
  <1>3. QED
    BY <1>1, <1>2

(* A list that gains or loses another job, at either end.                  *)
LEMMA OthersWait ==
    ASSUME NEW j \in Jobs, NEW u \in Users, NEW k \in Jobs, k # j,
           queue \in [Users -> Seq(Jobs)],
           \/ queue' = [queue EXCEPT ![u] = Append(@, k)]
           \/ queue' = [queue EXCEPT ![u] = <<k>> \o @]
           \/ queue[u] # <<>> /\ Head(queue[u]) = k /\ queue' = [queue EXCEPT ![u] = Tail(@)]
    PROVE  IsWaiting(j)' <=> IsWaiting(j)
  <1> DEFINE q == queue[u]
  <1>1. q \in Seq(Jobs) /\ \A v \in Users \ {u} : queue'[v] = queue[v]
    OBVIOUS
  <1>2. (\E i \in DOMAIN queue'[u] : queue'[u][i] = j) <=> (\E i \in DOMAIN q : q[i] = j)
    <2>1. CASE queue' = [queue EXCEPT ![u] = Append(@, k)]
      <3>1. queue'[u] = Append(q, k)
        BY <2>1
      <3>2. \A i \in DOMAIN q : i \in DOMAIN Append(q, k) /\ Append(q, k)[i] = q[i]
        BY <1>1
      <3>3. QED
        BY <1>1, <3>1, <3>2, AppendFacts
    <2>2. CASE queue' = [queue EXCEPT ![u] = <<k>> \o @]
      <3>1. queue'[u] = <<k>> \o q
        BY <2>2
      <3>2. \A i \in DOMAIN q : i + 1 \in DOMAIN (<<k>> \o q) /\ (<<k>> \o q)[i + 1] = q[i]
        BY <1>1
      <3>3. \A i \in DOMAIN (<<k>> \o q) :
                (<<k>> \o q)[i] = j => i - 1 \in DOMAIN q /\ q[i - 1] = j
        BY <1>1, PushFacts
      <3>4. QED
        BY <3>1, <3>2, <3>3
    <2>3. CASE q # <<>> /\ Head(q) = k /\ queue' = [queue EXCEPT ![u] = Tail(@)]
      <3>1. queue'[u] = Tail(q) /\ q[1] = k
        BY <1>1, <2>3, TailFacts
      <3>2. \A i \in DOMAIN q : i # 1 => i - 1 \in DOMAIN Tail(q) /\ Tail(q)[i - 1] = q[i]
        BY <1>1, <2>3
      <3>3. \A i \in DOMAIN Tail(q) : i + 1 \in DOMAIN q /\ Tail(q)[i] = q[i + 1]
        BY <1>1, <2>3, TailFacts
      <3>4. \A i \in DOMAIN q : q[i] = j => i # 1
        BY <2>3, <3>1
      <3> HIDE DEF q
      <3>5. \A i \in DOMAIN Tail(q) :
                Tail(q)[i] = j => i + 1 \in DOMAIN q /\ q[i + 1] = j
        BY <3>3
      <3>6. \A i \in DOMAIN q :
                q[i] = j => i - 1 \in DOMAIN Tail(q) /\ Tail(q)[i - 1] = j
        BY <3>2, <3>4
      <3>7. QED
        BY <3>1, <3>5, <3>6, Zenon
    <2>4. QED
      BY <2>1, <2>2, <2>3
  <1>3. QED
    BY <1>1, <1>2 DEF IsWaiting

Advances(j) ==
    \/ LessLeft(Left(j)', Left(j))
    \/ Left(j)' = Left(j) /\ \A w \in Workers : held[w] = j => pc'[w] = pc[w]

(* A worker that keeps its job takes it on, and no other one.              *)
LEMMA HeldOn ==
    ASSUME IInv, HeldApart', NEW j \in Jobs, NEW w \in Workers, pc[w] \in Holding,
           UNCHANGED <<queue, held>>,
           \A x \in Workers \ {w} : pc'[x] = pc[x],
           \A k \in Jobs \ {held[w]} : attempts'[k] = attempts[k],
           \/ /\ attempts'[held[w]] = attempts[held[w]]
              /\ StepsLeft(pc'[w]) \in Nat /\ StepsLeft(pc'[w]) < StepsLeft(pc[w])
           \/ /\ attempts[held[w]] < MaxAttempts
              /\ attempts'[held[w]] = attempts[held[w]] + 1
    PROVE  Advances(j)
  <1>0. HeldApart /\ attempts \in [Jobs -> Nat] /\ MaxAttempts \in Nat /\ j # NoJob
    BY QueueAssumption DEF IInv, TypeOK
  <1>1. CASE held[w] = j
    <2>1. /\ Left(j) = <<MaxAttempts - attempts[j], StepsLeft(pc[w])>>
          /\ Left(j)' = <<MaxAttempts - attempts'[j], StepsLeft(pc'[w])>>
      BY <1>0, <1>1, LeftInHands
    <2>2. \/ /\ MaxAttempts - attempts'[j] = MaxAttempts - attempts[j]
             /\ StepsLeft(pc'[w]) \in Nat /\ StepsLeft(pc'[w]) < StepsLeft(pc[w])
          \/ /\ MaxAttempts - attempts'[j] \in Nat
             /\ MaxAttempts - attempts'[j] < MaxAttempts - attempts[j]
      BY <1>0, <1>1
    <2>3. LessLeft(Left(j)', Left(j))
      BY <2>1, <2>2, LessLeftPair
    <2>4. QED
      BY <2>3 DEF Advances
  <1>2. CASE held[w] # j
    <2>1. \A x \in Workers : held[x] = j => pc'[x] = pc[x]
      BY <1>2
    <2>2. IsWaiting(j)' <=> IsWaiting(j)
      BY DEF IsWaiting
    <2>3. Left(j)' = Left(j)
      BY <1>0, <1>2, <2>1, <2>2, LeftAlone
    <2>4. QED
      BY <2>1, <2>3 DEF Advances
  <1>3. QED
    BY <1>1, <1>2

(* A worker that lets go of its job has taken it on, also by dying.        *)
LEMMA LetGo ==
    ASSUME IInv, HeldApart', NEW j \in Jobs, NEW w \in Workers, pc[w] \in Holding,
           attempts' = attempts,
           held' = [held EXCEPT ![w] = NoJob],
           \A x \in Workers \ {w} : pc'[x] = pc[x],
           \/ UNCHANGED queue
           \/ /\ pc[w] = "push"
              /\ queue' = [queue EXCEPT ![Owner[held[w]]] = <<held[w]>> \o @]
    PROVE  Advances(j)
  <1>0. /\ HeldApart /\ attempts \in [Jobs -> Nat] /\ MaxAttempts \in Nat /\ j # NoJob
        /\ queue \in [Users -> Seq(Jobs)] /\ held \in [Workers -> Jobs \cup {NoJob}]
        /\ held[w] \in Jobs /\ Owner[held[w]] \in Users
    BY QueueAssumption, HeldIsJob DEF IInv, TypeOK
  <1>1. /\ held'[w] = NoJob
        /\ \A x \in Workers \ {w} : held'[x] = held[x]
    BY <1>0
  <1>2. CASE held[w] = j
    <2>1. Left(j) = <<MaxAttempts - attempts[j], StepsLeft(pc[w])>>
      BY <1>0, <1>2, LeftInHands
    <2>2. \A x \in Workers : held'[x] # j
      BY <1>0, <1>1, <1>2 DEF HeldApart
    <2>3. Left(j)' = <<MaxAttempts - attempts[j], IF IsWaiting(j)' THEN 3 ELSE 0>>
      BY <2>2, LeftOtherwise
    <2>4. ~IsWaiting(j)
      BY <1>0, <1>2 DEF HeldApart, Waiting, IsWaiting
    <2>5. \/ ~IsWaiting(j)' /\ StepsLeft(pc[w]) \in Nat \ {0}
          \/ StepsLeft(pc[w]) = 4
      <3>1. CASE UNCHANGED queue
        <4>1. ~IsWaiting(j)'
          BY <2>4, <3>1 DEF IsWaiting
        <4>2. StepsLeft(pc[w]) \in Nat \ {0}
          BY DEF StepsLeft, Holding, Steps
        <4>3. QED
          BY <4>1, <4>2
      <3>2. CASE pc[w] = "push"
        BY <3>2 DEF StepsLeft
      <3>3. QED
        BY <3>1, <3>2
    <2> DEFINE rest == IF IsWaiting(j)' THEN 3 ELSE 0
    <2>6. rest \in Nat /\ rest < StepsLeft(pc[w])
      BY <2>5
    <2>7. LessLeft(Left(j)', Left(j))
      <3>1. Left(j)' = <<MaxAttempts - attempts[j], rest>>
        BY <2>3
      <3> HIDE DEF rest
      <3>2. QED
        BY <2>1, <2>6, <3>1, LessLeftPair
    <2>8. QED
      BY <2>7 DEF Advances
  <1>3. CASE held[w] # j
    <2>1. \A x \in Workers : (held'[x] = j <=> held[x] = j) /\ (held[x] = j => pc'[x] = pc[x])
      BY <1>0, <1>1, <1>3
    <2>2. IsWaiting(j)' <=> IsWaiting(j)
      <3>1. CASE UNCHANGED queue
        BY <3>1 DEF IsWaiting
      <3>2. CASE queue' = [queue EXCEPT ![Owner[held[w]]] = <<held[w]>> \o @]
        BY <1>0, <1>3, <3>2, OthersWait
      <3>3. QED
        BY <3>1, <3>2
    <2>3. Left(j)' = Left(j)
      BY <1>0, <2>1, <2>2, LeftAlone
    <2>4. QED
      BY <2>1, <2>3 DEF Advances
  <1>4. QED
    BY <1>2, <1>3

(* claim_next_job takes a job that waits, and touches no other one.        *)
LEMMA PopAdvances ==
    ASSUME IInv, HeldApart', NEW j \in Jobs, NEW w \in Workers, NEW u \in Users, Pop(w, u)
    PROVE  Advances(j)
  <1>0. /\ HeldApart /\ attempts \in [Jobs -> Nat] /\ MaxAttempts \in Nat /\ j # NoJob
        /\ queue \in [Users -> Seq(Jobs)] /\ held \in [Workers -> Jobs \cup {NoJob}]
        /\ pc \in [Workers -> Steps]
    BY QueueAssumption DEF IInv, TypeOK
  <1>1. pc[w] = "pop" /\ held[w] = NoJob /\ attempts' = attempts
    BY DEF Pop, IInv, HoldsWhileWorking, Holding
  <1>2. \A x \in Workers \ {w} : pc'[x] = pc[x]
    BY <1>0 DEF Pop, Goto
  <1>3. CASE queue[u] = <<>>
    <2>1. UNCHANGED <<queue, held>>
      BY <1>3 DEF Pop
    <2>2. \A x \in Workers : (held'[x] = j <=> held[x] = j) /\ (held[x] = j => pc'[x] = pc[x])
      BY <1>0, <1>1, <1>2, <2>1
    <2>3. IsWaiting(j)' <=> IsWaiting(j)
      BY <2>1 DEF IsWaiting
    <2>4. QED
      BY <1>0, <1>1, <2>2, <2>3, LeftAlone DEF Advances
  <1>4. CASE queue[u] # <<>>
    <2>1. /\ queue' = [queue EXCEPT ![u] = Tail(@)]
          /\ held' = [held EXCEPT ![w] = Head(queue[u])]
          /\ pc' = [pc EXCEPT ![w] = "read"]
      BY <1>4 DEF Pop, Goto
    <2>2. /\ held'[w] = Head(queue[u]) /\ pc'[w] = "read"
          /\ \A x \in Workers \ {w} : held'[x] = held[x]
          /\ Head(queue[u]) \in Jobs /\ queue[u][1] = Head(queue[u]) /\ 1 \in DOMAIN queue[u]
      BY <1>0, <1>4, <2>1, TailFacts
    <2>3. CASE Head(queue[u]) = j
      <3>1. IsWaiting(j)
        BY <2>2, <2>3 DEF IsWaiting
      <3>2. \A x \in Workers : held[x] # j
        BY <1>0, <2>2, <2>3 DEF HeldApart, Waiting
      <3>3. Left(j) = <<MaxAttempts - attempts[j], 3>>
        BY <3>1, <3>2, LeftOtherwise
      <3>4. Left(j)' = <<MaxAttempts - attempts[j], 2>>
        <4>1. Left(j)' = <<MaxAttempts - attempts'[j], StepsLeft(pc'[w])>>
          BY <1>0, <2>2, <2>3, LeftInHands
        <4>2. StepsLeft(pc'[w]) = 2
          BY <2>2 DEF StepsLeft
        <4>3. QED
          BY <1>1, <4>1, <4>2
      <3>5. QED
        BY <3>3, <3>4, LessLeftPair DEF Advances
    <2>4. CASE Head(queue[u]) # j
      <3>1. IsWaiting(j)' <=> IsWaiting(j)
        BY <1>0, <1>4, <2>1, <2>2, <2>4, OthersWait
      <3>2. \A x \in Workers :
                (held'[x] = j <=> held[x] = j) /\ (held[x] = j => pc'[x] = pc[x])
        BY <1>0, <1>1, <1>2, <2>2, <2>4
      <3>3. QED
        BY <1>0, <1>1, <3>1, <3>2, LeftAlone DEF Advances
    <2>5. QED
      BY <2>3, <2>4
  <1>5. QED
    BY <1>3, <1>4

LEMMA EnqueueAdvances ==
    ASSUME IInv, HeldApart', NEW j \in Jobs, NEW k \in Jobs, Enqueue(k)
    PROVE  Submittable(j) \/ Advances(j)
  <1>1. CASE k = j
    BY <1>1 DEF Enqueue
  <1>2. CASE k # j
    <2>1. /\ HeldApart /\ attempts \in [Jobs -> Nat] /\ queue \in [Users -> Seq(Jobs)]
          /\ Owner[k] \in Users /\ j # NoJob
      BY QueueAssumption DEF IInv, TypeOK
    <2>2. /\ queue' = [queue EXCEPT ![Owner[k]] = Append(@, k)]
          /\ attempts'[j] = attempts[j] /\ UNCHANGED <<held, pc>>
      BY <1>2, <2>1 DEF Enqueue, workerVars
    <2>3. IsWaiting(j)' <=> IsWaiting(j)
      BY <1>2, <2>1, <2>2, OthersWait
    <2>4. QED
      BY <2>1, <2>2, <2>3, LeftAlone DEF Advances
  <1>3. QED
    BY <1>1, <1>2

LEMMA WorkerAdvances ==
    ASSUME IInv, HeldApart', NEW j \in Jobs, NEW w \in Workers, WorkerStep(w) \/ Crash(w)
    PROVE  Advances(j)
  <1> USE DEF Goto, redisVars
  <1>0. /\ HeldApart /\ attempts \in [Jobs -> Nat] /\ pc \in [Workers -> Steps] /\ j # NoJob
        /\ MaxAttempts \in Nat
    BY QueueAssumption DEF IInv, TypeOK
  <1>1. CASE Snapshot(w) \/ \E u \in Users : Drop(w, u)
    <2>1. UNCHANGED <<queue, held, attempts>> /\ held[w] = NoJob
      BY <1>1 DEF Snapshot, Drop, IInv, HoldsWhileWorking, Holding
    <2>2. \A x \in Workers : held[x] = j => pc'[x] = pc[x]
      BY <1>0, <1>1, <2>1 DEF Snapshot, Drop
    <2>3. IsWaiting(j)' <=> IsWaiting(j)
      BY <2>1 DEF IsWaiting
    <2>4. QED
      BY <1>0, <2>1, <2>2, <2>3, LeftAlone DEF Advances
  <1>2. ASSUME NEW u \in Users, Pop(w, u) PROVE Advances(j)
    BY <1>2, PopAdvances
  <1>3. CASE Start(w)
    <2>1. /\ pc[w] = "start" /\ UNCHANGED <<queue, held>>
          /\ seen[w] = attempts[held[w]] /\ attempts[held[w]] < MaxAttempts
          /\ attempts' = [attempts EXCEPT ![held[w]] = seen[w] + 1]
          /\ \A x \in Workers \ {w} : pc'[x] = pc[x]
      BY <1>0, <1>3 DEF Start, IInv, EnvelopeOfHeld
    <2>2. pc[w] \in Holding /\ held[w] \in Jobs
      BY <2>1, HeldIsJob DEF Holding, Steps
    <2>3. /\ attempts'[held[w]] = attempts[held[w]] + 1
          /\ \A k \in Jobs \ {held[w]} : attempts'[k] = attempts[k]
      BY <1>0, <2>1, <2>2
    <2>4. QED
      BY <2>1, <2>2, <2>3, HeldOn
  <1>4. CASE \/ ReadAttempts(w) \/ Remaining(w) \/ Leave(w) \/ GoBack(w)
             \/ Run(w) \/ Persist(w) \/ CompleteRaises(w) \/ FailRead(w) \/ Requeue(w)
    <2>1. UNCHANGED <<queue, held, attempts>> /\ \A x \in Workers \ {w} : pc'[x] = pc[x]
      BY <1>0, <1>4 DEF ReadAttempts, Remaining, Leave, GoBack, Run, Persist, CompleteRaises,
                        FailRead, Requeue
    <2>2. \/ pc[w] = "read" /\ pc'[w] = "start"
          \/ pc[w] = "len" /\ pc'[w] \in {"leave", "back"}
          \/ pc[w] \in {"leave", "back"} /\ pc'[w] = "run"
          \/ pc[w] = "run" /\ pc'[w] \in {"persist", "fail"}
          \/ pc[w] = "persist" /\ pc'[w] \in {"complete", "fail"}
          \/ pc[w] = "complete" /\ pc'[w] = "fail"
          \/ pc[w] = "fail" /\ pc'[w] \in {"requeue", "giveup"}
          \/ pc[w] = "requeue" /\ pc'[w] = "push"
      BY <1>0, <1>4 DEF ReadAttempts, Remaining, Leave, GoBack, Run, Persist, CompleteRaises,
                        FailRead, Requeue
    <2>3. pc[w] \in Holding
      BY <2>2 DEF Holding, Steps
    <2>4. StepsLeft(pc'[w]) \in Nat /\ StepsLeft(pc'[w]) < StepsLeft(pc[w])
      BY <2>2 DEF StepsLeft
    <2>5. QED
      BY <2>1, <2>3, <2>4, HeldOn
  <1>5. CASE Complete(w) \/ GiveUp(w) \/ Push(w)
    <2>1. /\ pc[w] \in Holding /\ attempts' = attempts
          /\ held' = [held EXCEPT ![w] = NoJob]
          /\ \A x \in Workers \ {w} : pc'[x] = pc[x]
      BY <1>0, <1>5 DEF Complete, GiveUp, Push, Release, Holding, Steps
    <2>2. \/ UNCHANGED queue
          \/ /\ pc[w] = "push"
             /\ queue' = [queue EXCEPT ![Owner[held[w]]] = <<held[w]>> \o @]
      BY <1>5 DEF Complete, GiveUp, Push
    <2>3. QED
      BY <2>1, <2>2, LetGo
  <1>6. CASE Crash(w)
    <2>1. /\ UNCHANGED <<queue, attempts>> /\ held' = [held EXCEPT ![w] = NoJob]
          /\ \A x \in Workers \ {w} : pc'[x] = pc[x]
      BY <1>0, <1>6 DEF Crash
    <2>2. CASE pc[w] \in Holding
      BY <2>1, <2>2, LetGo
    <2>3. CASE pc[w] \notin Holding
      <3>1. held[w] = NoJob /\ held \in [Workers -> Jobs \cup {NoJob}]
        BY <2>3 DEF IInv, TypeOK, HoldsWhileWorking
      <3>2. /\ \A x \in Workers : held'[x] = j <=> held[x] = j
            /\ \A x \in Workers : held[x] = j => pc'[x] = pc[x]
        BY <1>0, <2>1, <3>1
      <3>3. IsWaiting(j)' <=> IsWaiting(j)
        BY <2>1 DEF IsWaiting
      <3>4. QED
        BY <1>0, <2>1, <3>2, <3>3, LeftAlone DEF Advances
    <2>4. QED
      BY <2>2, <2>3
  <1>7. QED
    BY <1>1, <1>2, <1>3, <1>4, <1>5, <1>6 DEF WorkerStep, Claim, Process, FailJob

(* Whatever other workers, submissions and crashes come in between: each   *)
(* command of process_one, claim_next_job and fail_job takes its job on    *)
(* towards the end or towards one of _MAX_ATTEMPTS attempts less.          *)
THEOREM JobsAlwaysAdvance == Spec => JobsAdvance
  <1>1. IInv /\ [Next]_vars =>
            [\A j \in Jobs :
                \/ Submittable(j)
                \/ LessLeft(Left(j)', Left(j))
                \/ Left(j)' = Left(j) /\ \A w \in Workers : held[w] = j => pc[w]' = pc[w]]_vars
    <2> SUFFICES ASSUME IInv, Next, NEW j \in Jobs
                 PROVE  Submittable(j) \/ Advances(j)
      BY DEF Advances
    <2>1. HeldApart'
      BY StepIInv DEF IInv
    <2>2. CASE \E k \in Jobs : Enqueue(k)
      BY <2>1, <2>2, EnqueueAdvances
    <2>3. CASE \E w \in Workers : WorkerStep(w) \/ Crash(w)
      BY <2>1, <2>3, WorkerAdvances
    <2>4. QED
      BY <2>2, <2>3 DEF Next
  <1>2. QED
    BY <1>1, Invariance, PTL DEF Spec, JobsAdvance

=============================================================================
