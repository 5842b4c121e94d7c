---------------------------- MODULE RateLimiter ----------------------------
(***************************************************************************)
(* The Redis token bucket of one user (queue/rate_limit.py) under several  *)
(* concurrent calls of consume().  Each Redis command and the read of the  *)
(* clock is an action.  Credit is counted in whole parts: a request costs  *)
(* Cost parts and Rate parts arrive with every tick of the clock, so that  *)
(* fractions of a token exist as they do in the float arithmetic.          *)
(***************************************************************************)
EXTENDS Integers, Collections

CONSTANTS
    Clients,      \* concurrent callers of consume for the same user
    Capacity,     \* max_tokens, in parts
    Cost,         \* one token, in parts
    Rate,         \* refill_rate, in parts per tick
    Ttl,          \* _BUCKET_TTL_S, in ticks
    MaxRetries,   \* _MAX_RETRIES
    Stall,        \* a call's commands all run within Stall ticks of its clock read
    MaxTime       \* bound: the clock stops here

ASSUME BucketAssumption ==
    /\ Capacity \in Nat /\ Cost \in Nat \ {0} /\ Rate \in Nat /\ Ttl \in Nat
    /\ MaxRetries \in Nat \ {0} /\ Stall \in Nat
    /\ MaxTime \in Nat
    (* A bucket is full again, for every call under way, before it expires:  *)
    (* one minute against one hour with the defaults of the source.          *)
    /\ Stall <= Ttl /\ (Ttl - Stall) * Rate >= Capacity

VARIABLES
    now,        \* time.time()
    exists,     \* the key ratelimit:{user_id} is present
    tokens,     \* its fields "tokens" ...
    last,       \* ... and "last_refill"
    written,    \* when they were last written, from which the expiry counts
    pc,         \* pc[c]: what client c does next
    touched,    \* touched[c]: the key changed since c's WATCH
    tries,      \* tries[c]: WATCH rounds of this call that failed
    t,          \* t[c]: the local "now"
    credit,     \* credit[c]: the local "tokens"
    granted     \* how many calls returned True

bucket == <<exists, tokens, last, written>>
vars == <<now, bucket, pc, touched, tries, t, credit, granted>>

Least(a, b) == IF a < b THEN a ELSE b

Goto(c, step) == pc' = [pc EXCEPT ![c] = step]

(* Variant: the refill is not capped.                                      *)
RefilledFreely(value, since, at) ==
    value + (IF at > since THEN at - since ELSE 0) * Rate

(* min(max_tokens, tokens + elapsed * refill_rate), elapsed at least zero. *)
Refilled(value, since, at) ==
    Least(Capacity, value + (IF at > since THEN at - since ELSE 0) * Rate)

(* What a call that read the clock at "at" may spend from the stored bucket.*)
Available(at) == IF exists THEN Refilled(tokens, last, at) ELSE Capacity

(* Variant: last_refill is not moved, so that a refill counts again.       *)
WriteTokens(value, at) ==
    /\ exists' = TRUE
    /\ tokens' = value
    /\ last' = last
    /\ written' = now

(* A write of both fields renews the expiry and fails the other WATCHes.   *)
Write(value, at) ==
    /\ exists' = TRUE
    /\ tokens' = value
    /\ last' = at
    /\ written' = now

TouchOthers(c) == touched' = [d \in Clients |-> touched[d] \/ d # c]

-----------------------------------------------------------------------------
Call(c) ==               \* WATCH, at the first try
    /\ pc[c] = "idle"
    /\ tries' = [tries EXCEPT ![c] = 0]
    /\ touched' = [touched EXCEPT ![c] = FALSE]
    /\ Goto(c, "clock")
    /\ UNCHANGED <<now, bucket, t, credit, granted>>

ReadClock(c) ==
    /\ pc[c] = "clock"
    /\ t' = [t EXCEPT ![c] = now]
    /\ Goto(c, "tokens")
    /\ UNCHANGED <<now, bucket, touched, tries, credit, granted>>

ReadTokens(c) ==         \* HGET tokens
    /\ pc[c] = "tokens"
    /\ credit' = [credit EXCEPT ![c] = IF exists THEN tokens ELSE Capacity]
    /\ Goto(c, "last")
    /\ UNCHANGED <<now, bucket, touched, tries, t, granted>>

ReadLast(c) ==           \* HGET last_refill, refill, compare with one token
    /\ pc[c] = "last"
    /\ LET since == IF exists THEN last ELSE t[c]
           have == Refilled(credit[c], since, t[c])
       IN  /\ credit' = [credit EXCEPT ![c] = have]
           /\ Goto(c, IF have < Cost THEN "unwatch" ELSE "exec")
    /\ UNCHANGED <<now, bucket, touched, tries, t, granted>>

Unwatch(c) ==
    /\ pc[c] = "unwatch"
    /\ Goto(c, "deny")
    /\ UNCHANGED <<now, bucket, touched, tries, t, credit, granted>>

(* The key is no longer watched: the write is made whatever it overwrites. *)
Deny(c) ==
    /\ pc[c] = "deny"
    /\ Write(credit[c], t[c])
    /\ TouchOthers(c)
    /\ Goto(c, "idle")
    /\ UNCHANGED <<now, tries, t, credit, granted>>

(* Variant: a plain pipeline, without WATCH.                               *)
ExecUnwatched(c) ==
    /\ pc[c] = "exec"
    /\ Write(credit[c] - Cost, t[c])
    /\ TouchOthers(c)
    /\ granted' = granted + 1
    /\ Goto(c, "idle")
    /\ UNCHANGED <<now, tries, t, credit>>

Exec(c) ==               \* MULTI, HSET, EXPIRE, EXEC
    /\ pc[c] = "exec"
    /\ ~touched[c]
    /\ Write(credit[c] - Cost, t[c])
    /\ TouchOthers(c)
    /\ granted' = granted + 1
    /\ Goto(c, "idle")
    /\ UNCHANGED <<now, tries, t, credit>>

(* Variant: EXEC is tried again without a new WATCH.                       *)
ConflictUnwatched(c) ==
    /\ pc[c] = "exec"
    /\ touched[c]
    /\ UNCHANGED vars

(* EXEC raises WatchError: watch again, or refuse after the last try.      *)
Conflict(c) ==
    /\ pc[c] = "exec"
    /\ touched[c]
    /\ tries' = [tries EXCEPT ![c] = @ + 1]
    /\ touched' = [touched EXCEPT ![c] = FALSE]
    /\ Goto(c, IF tries[c] + 1 < MaxRetries THEN "clock" ELSE "idle")
    /\ UNCHANGED <<now, bucket, t, credit, granted>>

-----------------------------------------------------------------------------
Tick ==
    /\ now < MaxTime
    /\ \A c \in Clients : pc[c] \notin {"idle", "clock"} => now < t[c] + Stall
    /\ now' = now + 1
    /\ UNCHANGED <<bucket, pc, touched, tries, t, credit, granted>>

(* Redis deletes the key Ttl after its last write; whether that counts as a *)
(* change for WATCH depends on the server's version.                       *)
Expire ==
    /\ exists
    /\ now - written >= Ttl
    /\ exists' = FALSE
    /\ tokens' = 0 /\ last' = 0 /\ written' = 0
    /\ touched' \in {touched, [c \in Clients |-> TRUE]}
    /\ UNCHANGED <<now, pc, tries, t, credit, granted>>

Init ==
    /\ now = 0
    /\ exists = FALSE /\ tokens = 0 /\ last = 0 /\ written = 0
    /\ pc = [c \in Clients |-> "idle"]
    /\ touched = [c \in Clients |-> FALSE]
    /\ tries = [c \in Clients |-> 0]
    /\ t = [c \in Clients |-> 0]
    /\ credit = [c \in Clients |-> 0]
    /\ granted = 0

Step(c) ==
    \/ ReadClock(c)
    \/ ReadTokens(c)
    \/ ReadLast(c)
    \/ Unwatch(c)
    \/ Deny(c)
    \/ Exec(c)
    \/ Conflict(c)

Next ==
    \/ \E c \in Clients : Call(c) \/ Step(c)
    \/ Tick
    \/ Expire

Spec == Init /\ [][Next]_vars

(* A call, once made, runs; nobody has to call and the clock may stand.    *)
FairSpec == Spec /\ \A c \in Clients : WF_vars(Step(c))

-----------------------------------------------------------------------------
(* Properties.                                                             *)

TypeOK ==
    /\ now \in 0 .. MaxTime
    /\ exists \in BOOLEAN
    /\ tokens \in 0 .. Capacity
    /\ last \in 0 .. now
    /\ written \in 0 .. now
    /\ pc \in [Clients -> {"idle", "clock", "tokens", "last", "unwatch", "deny", "exec"}]
    /\ touched \in [Clients -> BOOLEAN]
    /\ tries \in [Clients -> 0 .. MaxRetries]
    /\ t \in [Clients -> 0 .. now]
    /\ credit \in [Clients -> 0 .. Capacity]
    /\ granted \in Nat

(* A grant takes a whole token out of what the bucket holds when EXEC runs, *)
(* not out of what the call once read.  What a denied call may write in    *)
(* between, or after, is not its subject.                                  *)
GrantSpendsStored ==
    [][granted' # granted =>
         \E c \in Clients : Available(t[c])' <= Available(t[c]) - Cost]_vars

(* What a call has left: rounds, and commands of its round.                *)
Left(c) ==
    <<MaxRetries - tries[c],
      CASE pc[c] = "clock" -> 5 [] pc[c] = "tokens" -> 4 [] pc[c] = "last" -> 3
        [] pc[c] = "unwatch" -> 2 [] pc[c] \in {"deny", "exec"} -> 1
        [] OTHER -> 0>>

(* Nothing that other calls, the clock or the expiry do takes a call back: *)
(* a round that was lost to another call's write is not made again.        *)
CallsAdvance ==
    [][\A c \in Clients : pc[c] = "idle" \/ Left(c)' = Left(c) \/ LessLeft(Left(c)', Left(c))]_vars

(* However many other calls interfere, a call only goes on, and ends after *)
(* _MAX_RETRIES.                                                           *)
CallReturns ==
    /\ CallsAdvance
    /\ \A c \in Clients : pc[c] # "idle" ~> pc[c] = "idle"

=============================================================================
