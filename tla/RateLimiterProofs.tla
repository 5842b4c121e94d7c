------------------------- MODULE RateLimiterProofs -------------------------
(***************************************************************************)
(* Proofs about RateLimiter, for any number of callers, any capacity and   *)
(* any rates: the bucket keeps its type, no grant is paid with credit that *)
(* another call has already spent, and no call is taken back by others.    *)
(***************************************************************************)
EXTENDS RateLimiter, CollectionLemmas, TLAPS

(* A call of consume whose WATCH still stands has read what is stored, or  *)
(* less: at "last" its credit is the stored field, and at "exec" it is no  *)
(* more than what the bucket holds for its clock.                          *)
ReadsStand ==
    \A c \in Clients : ~touched[c] =>
        /\ pc[c] = "last" /\ exists => credit[c] = tokens
        /\ pc[c] = "exec" => credit[c] <= Available(t[c])

(* Only a call that found a whole token gets to EXEC.                      *)
ExecCanPay == \A c \in Clients : pc[c] = "exec" => Cost <= credit[c]

(* A WATCH round is begun only while tries are left.                       *)
TriesLeft == \A c \in Clients : pc[c] # "idle" => tries[c] < MaxRetries

IInv == TypeOK /\ ReadsStand /\ ExecCanPay /\ TriesLeft

-----------------------------------------------------------------------------
(* The refill of queue/rate_limit.py.                                      *)

LEMMA RefilledType ==
    ASSUME NEW value \in 0 .. Capacity, NEW since \in Nat, NEW at \in Nat
    PROVE  Refilled(value, since, at) \in 0 .. Capacity
  <1>1. Capacity \in Nat /\ Rate \in Nat
    BY BucketAssumption
  <1> DEFINE elapsed == IF at > since THEN at - since ELSE 0
  <1>2. elapsed \in Nat
    OBVIOUS
  <1>3. elapsed * Rate \in Nat
    <2> HIDE DEF elapsed
    <2>1. QED
      BY <1>1, <1>2
  <1>4. Refilled(value, since, at) = Least(Capacity, value + elapsed * Rate)
    BY DEF Refilled
  <1>5. QED
    <2> HIDE DEF elapsed
    <2>1. QED
      BY <1>1, <1>3, <1>4 DEF Least

(* No time passed: nothing is refilled.                                    *)
LEMMA RefilledAtOnce ==
    ASSUME NEW value \in 0 .. Capacity, NEW at \in Nat
    PROVE  Refilled(value, at, at) = value
  <1>1. Capacity \in Nat /\ Rate \in Nat
    BY BucketAssumption
  <1>2. 0 * Rate = 0
    BY <1>1
  <1>3. Refilled(value, at, at) = Least(Capacity, value + 0 * Rate)
    BY DEF Refilled
  <1>4. QED
    BY <1>1, <1>2, <1>3 DEF Least

-----------------------------------------------------------------------------
(* Type correctness.                                                       *)

LEMMA InitInv == Init => IInv
  <1> SUFFICES ASSUME Init PROVE IInv
    OBVIOUS
  <1>1. TypeOK
    <2>1. /\ now \in 0 .. MaxTime /\ tokens \in 0 .. Capacity
          /\ last \in 0 .. now /\ written \in 0 .. now /\ granted \in Nat
      BY BucketAssumption DEF Init
    <2>4. exists \in BOOLEAN
      BY DEF Init
    <2>2. /\ pc \in [Clients -> {"idle", "clock", "tokens", "last", "unwatch", "deny", "exec"}]
          /\ touched \in [Clients -> BOOLEAN]
      BY DEF Init
    <2>3. /\ tries \in [Clients -> 0 .. MaxRetries]
          /\ credit \in [Clients -> 0 .. Capacity]
          /\ t \in [Clients -> 0 .. now]
      BY BucketAssumption DEF Init
    <2>5. QED
      BY <2>1, <2>2, <2>3, <2>4 DEF TypeOK
  <1>2. ReadsStand /\ ExecCanPay /\ TriesLeft
    BY DEF Init, ReadsStand, ExecCanPay, TriesLeft
  <1>3. QED
    BY <1>1, <1>2 DEF IInv

LEMMA ReadLastType ==
    ASSUME IInv, NEW c \in Clients, ReadLast(c)
    PROVE  /\ credit'[c] \in 0 .. Capacity
           /\ credit'[c] = Refilled(credit[c], IF exists THEN last ELSE t[c], t[c])
  <1> DEFINE since == IF exists THEN last ELSE t[c]
  <1>1. /\ credit \in [Clients -> 0 .. Capacity] /\ t[c] \in Nat /\ last \in Nat
        /\ now \in Nat
    BY BucketAssumption DEF IInv, TypeOK
  <1>2. since \in Nat
    BY <1>1
  <1>3. credit'[c] = Refilled(credit[c], since, t[c])
    BY <1>1 DEF ReadLast
  <1>4. QED
    BY <1>1, <1>2, <1>3, RefilledType

LEMMA TypeStep ==
    ASSUME IInv, [Next]_vars
    PROVE  TypeOK'
  <1> USE BucketAssumption DEF Goto
  <1>0. TypeOK
    BY DEF IInv
  <1>1. CASE UNCHANGED vars
    BY <1>0, <1>1 DEF TypeOK, vars, bucket
  <1>2. ASSUME NEW c \in Clients, Call(c) PROVE TypeOK'
    BY <1>0, <1>2 DEF TypeOK, Call, bucket
  <1>3. ASSUME NEW c \in Clients, ReadClock(c) PROVE TypeOK'
    BY <1>0, <1>3 DEF TypeOK, ReadClock, bucket
  <1>4. ASSUME NEW c \in Clients, ReadTokens(c) PROVE TypeOK'
    BY <1>0, <1>4 DEF TypeOK, ReadTokens, bucket
  <1>5. ASSUME NEW c \in Clients, ReadLast(c) PROVE TypeOK'
    <2>1. credit'[c] \in 0 .. Capacity
      BY <1>5, ReadLastType
    <2>2. credit' = [credit EXCEPT ![c] = credit'[c]]
      BY <1>0, <1>5 DEF TypeOK, ReadLast
    <2>3. credit' \in [Clients -> 0 .. Capacity]
      BY <1>0, <2>1, <2>2 DEF TypeOK
    <2>4. pc' \in [Clients -> {"idle", "clock", "tokens", "last", "unwatch", "deny", "exec"}]
      BY <1>0, <1>5 DEF TypeOK, ReadLast
    <2>5. QED
      BY <1>0, <1>5, <2>3, <2>4 DEF TypeOK, ReadLast, bucket
  <1>6. ASSUME NEW c \in Clients, Unwatch(c) PROVE TypeOK'
    BY <1>0, <1>6 DEF TypeOK, Unwatch, bucket
  <1>7. ASSUME NEW c \in Clients, Deny(c) PROVE TypeOK'
    BY <1>0, <1>7 DEF TypeOK, Deny, Write, TouchOthers
  <1>8. ASSUME NEW c \in Clients, Exec(c) PROVE TypeOK'
    <2>1. credit[c] - Cost \in 0 .. Capacity
      BY <1>0, <1>8 DEF IInv, TypeOK, ExecCanPay, Exec
    <2>2. QED
      BY <1>0, <1>8, <2>1 DEF TypeOK, Exec, Write, TouchOthers
  <1>9. ASSUME NEW c \in Clients, Conflict(c) PROVE TypeOK'
    <2>1. tries[c] + 1 \in 0 .. MaxRetries
      BY <1>0, <1>9 DEF IInv, TypeOK, TriesLeft, Conflict
    <2>2. tries' \in [Clients -> 0 .. MaxRetries]
      BY <1>0, <1>9, <2>1 DEF TypeOK, Conflict
    <2>3. pc' \in [Clients -> {"idle", "clock", "tokens", "last", "unwatch", "deny", "exec"}]
      BY <1>0, <1>9 DEF TypeOK, Conflict
    <2>4. QED
      BY <1>0, <1>9, <2>2, <2>3 DEF TypeOK, Conflict, bucket
  <1>10. CASE Tick
    BY <1>0, <1>10 DEF TypeOK, Tick, bucket
  <1>11. CASE Expire
    <2>1. touched' \in [Clients -> BOOLEAN]
      BY <1>0, <1>11 DEF TypeOK, Expire
    <2>2. exists' \in BOOLEAN
      BY <1>11 DEF Expire
    <2>3. tokens' \in 0 .. Capacity
      BY <1>11 DEF Expire
    <2>4. last' \in 0 .. now' /\ written' \in 0 .. now' /\ now' \in 0 .. MaxTime
      BY <1>0, <1>11 DEF TypeOK, Expire
    <2>5. t' \in [Clients -> 0 .. now'] /\ UNCHANGED <<pc, tries, credit, granted>>
      BY <1>0, <1>11 DEF TypeOK, Expire
    <2>6. QED
      BY <1>0, <2>1, <2>2, <2>3, <2>4, <2>5 DEF TypeOK
  <1>12. QED
    BY <1>1, <1>2, <1>3, <1>4, <1>5, <1>6, <1>7, <1>8, <1>9, <1>10, <1>11
       DEF Next, Step

-----------------------------------------------------------------------------
(* What a call read still stands, whatever the others do.                  *)

LEMMA TriesStep ==
    ASSUME IInv, [Next]_vars
    PROVE  TriesLeft'
  <1> USE BucketAssumption DEF Goto, TriesLeft
  <1>0. /\ TriesLeft
        /\ tries \in [Clients -> 0 .. MaxRetries]
        /\ pc \in [Clients -> {"idle", "clock", "tokens", "last", "unwatch", "deny", "exec"}]
    BY DEF IInv, TypeOK
  <1>1. CASE UNCHANGED vars
    BY <1>0, <1>1 DEF vars
  <1>2. ASSUME NEW c \in Clients, Call(c) PROVE TriesLeft'
    BY <1>0, <1>2 DEF Call
  <1>3. ASSUME NEW c \in Clients, Conflict(c) PROVE TriesLeft'
    BY <1>0, <1>3 DEF Conflict
  <1>4. ASSUME NEW c \in Clients, ReadClock(c) \/ ReadTokens(c) \/ Unwatch(c) PROVE TriesLeft'
    BY <1>0, <1>4 DEF ReadClock, ReadTokens, Unwatch
  <1>5. ASSUME NEW c \in Clients, ReadLast(c) PROVE TriesLeft'
    BY <1>0, <1>5 DEF ReadLast
  <1>6. ASSUME NEW c \in Clients, Deny(c) \/ Exec(c) PROVE TriesLeft'
    BY <1>0, <1>6 DEF Deny, Exec
  <1>7. CASE Tick \/ Expire
    BY <1>0, <1>7 DEF Tick, Expire
  <1>8. QED
    BY <1>1, <1>2, <1>3, <1>4, <1>5, <1>6, <1>7 DEF Next, Step

(* A step that leaves the bucket, the clock reads and the watches alone,   *)
(* and moves only c, keeps what the others read.                           *)
LEMMA ReadsStep ==
    ASSUME IInv, [Next]_vars
    PROVE  ReadsStand' /\ ExecCanPay'
  <1> USE DEF Goto
  <1>0. ReadsStand /\ ExecCanPay
    BY DEF IInv
  <1>t. /\ tokens \in 0 .. Capacity /\ Capacity \in Nat /\ exists \in BOOLEAN
        /\ credit \in [Clients -> 0 .. Capacity]
        /\ touched \in [Clients -> BOOLEAN]
        /\ pc \in [Clients -> {"idle", "clock", "tokens", "last", "unwatch", "deny", "exec"}]
        /\ t \in [Clients -> 0 .. now] /\ now \in Nat
    BY BucketAssumption DEF IInv, TypeOK
  <1>1. CASE UNCHANGED vars
    BY <1>0, <1>1 DEF vars, bucket, ReadsStand, ExecCanPay, Available
  <1>2. ASSUME NEW c \in Clients, Call(c) PROVE ReadsStand' /\ ExecCanPay'
    BY <1>0, <1>t, <1>2 DEF Call, bucket, ReadsStand, ExecCanPay, Available
  <1>3. ASSUME NEW c \in Clients, ReadClock(c) PROVE ReadsStand' /\ ExecCanPay'
    BY <1>0, <1>t, <1>3 DEF ReadClock, bucket, ReadsStand, ExecCanPay, Available
  <1>4. ASSUME NEW c \in Clients, ReadTokens(c) PROVE ReadsStand' /\ ExecCanPay'
    BY <1>0, <1>t, <1>4 DEF ReadTokens, bucket, ReadsStand, ExecCanPay, Available
  <1>5. ASSUME NEW c \in Clients, ReadLast(c) PROVE ReadsStand' /\ ExecCanPay'
    <2>1. /\ credit'[c] \in 0 .. Capacity
          /\ credit'[c] = Refilled(credit[c], IF exists THEN last ELSE t[c], t[c])
      BY <1>5, ReadLastType
    <2>2. ~touched[c] => credit'[c] <= Available(t[c])
      <3>1. CASE exists
        <4>1. ~touched[c] => credit'[c] = Available(t[c])
          BY <1>0, <1>5, <2>1, <3>1 DEF ReadsStand, ReadLast, Available
        <4>2. QED
          BY <1>t, <2>1, <4>1
      <3>2. CASE ~exists
        BY <1>t, <2>1, <3>2 DEF Available
      <3>3. QED
        BY <3>1, <3>2
    <2>3. /\ pc'[c] = "exec" => Cost <= credit'[c]
          /\ pc'[c] \in {"unwatch", "exec"}
      <3>1. /\ pc'[c] = IF credit'[c] < Cost THEN "unwatch" ELSE "exec"
            /\ Cost \in Nat
        BY <1>t, <1>5, <2>1, BucketAssumption DEF ReadLast
      <3>2. QED
        BY <2>1, <3>1, <1>t
    <2>4. \A d \in Clients \ {c} : pc'[d] = pc[d] /\ credit'[d] = credit[d]
      BY <1>t, <1>5 DEF ReadLast
    <2>5. UNCHANGED <<exists, tokens, last, touched, t>>
      BY <1>5 DEF ReadLast, bucket
    <2>6. \A d \in Clients : Available(t[d])' = Available(t[d])
      BY <2>5 DEF Available
    <2>7. ReadsStand'
      <3> SUFFICES ASSUME NEW d \in Clients, ~touched[d]
                   PROVE  /\ pc'[d] = "last" /\ exists => credit'[d] = tokens
                          /\ pc'[d] = "exec" => credit'[d] <= Available(t[d])
        BY <2>5, <2>6 DEF ReadsStand
      <3>1. CASE d = c
        BY <2>2, <2>3, <3>1
      <3>2. CASE d # c
        BY <1>0, <2>4, <3>2 DEF ReadsStand
      <3>3. QED
        BY <3>1, <3>2
    <2>8. ExecCanPay'
      BY <1>0, <2>3, <2>4 DEF ExecCanPay
    <2>9. QED
      BY <2>7, <2>8
  <1>6. ASSUME NEW c \in Clients, Unwatch(c) PROVE ReadsStand' /\ ExecCanPay'
    BY <1>0, <1>t, <1>6 DEF Unwatch, bucket, ReadsStand, ExecCanPay, Available
  <1>7. ASSUME NEW c \in Clients, Deny(c) \/ Exec(c) PROVE ReadsStand' /\ ExecCanPay'
    <2>1. /\ touched' = [d \in Clients |-> touched[d] \/ d # c]
          /\ pc' = [pc EXCEPT ![c] = "idle"]
          /\ UNCHANGED credit
      BY <1>7 DEF Deny, Exec, TouchOthers
    <2>2. \A d \in Clients : ~touched'[d] => pc'[d] = "idle"
      BY <1>t, <2>1
    <2>3. ReadsStand'
      BY <2>2 DEF ReadsStand
    <2>4. ExecCanPay'
      BY <1>0, <1>t, <2>1 DEF ExecCanPay
    <2>5. QED
      BY <2>3, <2>4
  <1>8. ASSUME NEW c \in Clients, Conflict(c) PROVE ReadsStand' /\ ExecCanPay'
    BY <1>0, <1>t, <1>8 DEF Conflict, bucket, ReadsStand, ExecCanPay, Available
  <1>9. CASE Tick
    BY <1>0, <1>9 DEF Tick, bucket, ReadsStand, ExecCanPay, Available
  <1>10. CASE Expire
    <2>1. /\ ~exists' /\ UNCHANGED <<pc, t, credit>>
          /\ \A d \in Clients : ~touched'[d] => ~touched[d]
      BY <1>t, <1>10 DEF Expire
    <2>2. \A d \in Clients : credit[d] <= Available(t[d])'
      BY <1>t, <2>1 DEF Available
    <2>3. QED
      BY <1>0, <2>1, <2>2 DEF ReadsStand, ExecCanPay
  <1>11. QED
    BY <1>1, <1>2, <1>3, <1>4, <1>5, <1>6, <1>7, <1>8, <1>9, <1>10 DEF Next, Step

(* Every variable of consume and of the bucket keeps its type: credit and  *)
(* the stored tokens stay between zero and max_tokens, no time stamp lies  *)
(* ahead of the clock, and a call never begins a round it may not make.    *)
THEOREM TypeCorrect == Spec => []TypeOK
  <1>1. IInv /\ [Next]_vars => IInv'
    BY TypeStep, TriesStep, ReadsStep DEF IInv
  <1>2. IInv => TypeOK
    BY DEF IInv
  <1>3. QED
    BY InitInv, <1>1, <1>2, PTL DEF Spec

-----------------------------------------------------------------------------
(* The bucket after an EXEC: what it held for that clock, less one token.  *)
LEMMA ExecSpends ==
    ASSUME IInv, NEW c \in Clients, Exec(c)
    PROVE  Available(t[c])' <= Available(t[c]) - Cost
  <1>1. /\ ~touched[c] /\ pc[c] = "exec" /\ exists' /\ t' = t
        /\ tokens' = credit[c] - Cost /\ last' = t[c]
    BY DEF Exec, Write
  <1>2. /\ credit[c] <= Available(t[c]) /\ Cost <= credit[c]
    BY <1>1 DEF IInv, ReadsStand, ExecCanPay
  <1>3. /\ credit[c] \in 0 .. Capacity /\ t[c] \in Nat /\ last \in Nat
        /\ tokens \in 0 .. Capacity /\ Capacity \in Nat /\ Cost \in Nat
    BY BucketAssumption DEF IInv, TypeOK
  <1>4. credit[c] - Cost \in 0 .. Capacity
    BY <1>2, <1>3
  <1>5. Available(t[c])' = Refilled(credit[c] - Cost, t[c], t[c])
    BY <1>1 DEF Available, Refilled, Least
  <1>6. Available(t[c])' = credit[c] - Cost
    BY <1>3, <1>4, <1>5, RefilledAtOnce
  <1>7. Available(t[c]) \in Nat
    <2>1. Refilled(tokens, last, t[c]) \in 0 .. Capacity
      BY <1>3, RefilledType
    <2>2. QED
      BY <1>3, <2>1 DEF Available
  <1>8. QED
    BY <1>2, <1>3, <1>6, <1>7

(* However the commands of any number of consume calls interleave, with    *)
(* each other, with the clock and with the key's expiry, a call is granted *)
(* only for a whole token that the bucket still holds at EXEC.             *)
THEOREM SpendsStored == Spec => GrantSpendsStored
  <1>1. IInv /\ [Next]_vars => IInv'
    BY TypeStep, TriesStep, ReadsStep DEF IInv
  <1>2. IInv /\ [Next]_vars =>
          (granted' # granted =>
             \E c \in Clients : Available(t[c])' <= Available(t[c]) - Cost)
    <2> SUFFICES ASSUME IInv, [Next]_vars, granted' # granted
                 PROVE  \E c \in Clients : Available(t[c])' <= Available(t[c]) - Cost
      OBVIOUS
    <2>1. \E c \in Clients : Exec(c)
      BY DEF Next, Step, vars, Call, ReadClock, ReadTokens, ReadLast, Unwatch, Deny,
         Conflict, Tick, Expire
    <2>2. QED
      BY <2>1, ExecSpends
  <1>3. QED
    BY InitInv, <1>1, <1>2, PTL DEF Spec, GrantSpendsStored

-----------------------------------------------------------------------------
(* The commands of a round that are left to a call.                        *)
CommandsLeft(step) ==
    CASE step = "clock" -> 5 [] step = "tokens" -> 4 [] step = "last" -> 3
      [] step = "unwatch" -> 2 [] step \in {"deny", "exec"} -> 1
      [] OTHER -> 0

LEMMA LeftOf ==
    ASSUME NEW c
    PROVE  /\ Left(c) = <<MaxRetries - tries[c], CommandsLeft(pc[c])>>
           /\ Left(c)' = <<MaxRetries - tries'[c], CommandsLeft(pc'[c])>>
  BY DEF Left, CommandsLeft

LEMMA NextCommand ==
    ASSUME NEW c, tries'[c] = tries[c], CommandsLeft(pc'[c]) \in Nat,
           CommandsLeft(pc'[c]) < CommandsLeft(pc[c])
    PROVE  LessLeft(Left(c)', Left(c))
  BY LeftOf, LessLeftPair

(* consume's own steps: the next command, the end, or one try less.        *)
LEMMA OwnStep ==
    ASSUME IInv, NEW c \in Clients, Step(c)
    PROVE  LessLeft(Left(c)', Left(c))
  <1> USE DEF Goto
  <1>1. /\ pc \in [Clients -> {"idle", "clock", "tokens", "last", "unwatch", "deny", "exec"}]
        /\ tries \in [Clients -> 0 .. MaxRetries] /\ MaxRetries \in Nat
    BY BucketAssumption DEF IInv, TypeOK
  <1>2. CASE ReadClock(c)
    <2>1. pc[c] = "clock" /\ pc'[c] = "tokens" /\ tries'[c] = tries[c]
      BY <1>1, <1>2 DEF ReadClock
    <2>2. QED
      BY <2>1, NextCommand DEF CommandsLeft
  <1>3. CASE ReadTokens(c)
    <2>1. pc[c] = "tokens" /\ pc'[c] = "last" /\ tries'[c] = tries[c]
      BY <1>1, <1>3 DEF ReadTokens
    <2>2. QED
      BY <2>1, NextCommand DEF CommandsLeft
  <1>4. CASE ReadLast(c)
    <2>1. pc[c] = "last" /\ pc'[c] \in {"unwatch", "exec"} /\ tries'[c] = tries[c]
      BY <1>1, <1>4 DEF ReadLast
    <2>2. QED
      BY <2>1, NextCommand DEF CommandsLeft
  <1>5. CASE Unwatch(c)
    <2>1. pc[c] = "unwatch" /\ pc'[c] = "deny" /\ tries'[c] = tries[c]
      BY <1>1, <1>5 DEF Unwatch
    <2>2. QED
      BY <2>1, NextCommand DEF CommandsLeft
  <1>6. CASE Deny(c) \/ Exec(c)
    <2>1. pc[c] \in {"deny", "exec"} /\ pc'[c] = "idle" /\ tries'[c] = tries[c]
      BY <1>1, <1>6 DEF Deny, Exec
    <2>2. QED
      BY <2>1, NextCommand DEF CommandsLeft
  <1>7. CASE Conflict(c)
    <2>1. tries[c] \in Nat /\ tries[c] < MaxRetries /\ tries'[c] = tries[c] + 1
      BY <1>1, <1>7 DEF IInv, TriesLeft, Conflict
    <2>2. MaxRetries - tries'[c] \in Nat /\ MaxRetries - tries'[c] < MaxRetries - tries[c]
      BY <1>1, <2>1
    <2>3. QED
      BY <2>2, LeftOf, LessLeftPair
  <1>8. QED
    BY <1>2, <1>3, <1>4, <1>5, <1>6, <1>7 DEF Step

LEMMA OthersStep ==
    ASSUME IInv, NEW c \in Clients, NEW d \in Clients, d # c, Call(d) \/ Step(d)
    PROVE  Left(c)' = Left(c)
  <1>1. /\ pc \in [Clients -> {"idle", "clock", "tokens", "last", "unwatch", "deny", "exec"}]
        /\ tries \in [Clients -> 0 .. MaxRetries]
    BY DEF IInv, TypeOK
  <1>2. pc'[c] = pc[c] /\ tries'[c] = tries[c]
    BY <1>1 DEF Call, Step, ReadClock, ReadTokens, ReadLast, Unwatch, Deny, Exec, Conflict, Goto
  <1>3. QED
    BY <1>2, LeftOf

(* A call of consume goes on to its end whatever other calls write between *)
(* its commands and whenever the key expires: a conflict costs a try, and  *)
(* nothing gives it back.                                                  *)
THEOREM CallsAlwaysAdvance == Spec => CallsAdvance
  <1>1. IInv /\ [Next]_vars => IInv'
    BY TypeStep, TriesStep, ReadsStep DEF IInv
  <1>2. IInv /\ [Next]_vars =>
          \A c \in Clients :
             pc[c] = "idle" \/ Left(c)' = Left(c) \/ LessLeft(Left(c)', Left(c))
    <2> SUFFICES ASSUME IInv, [Next]_vars, NEW c \in Clients, pc[c] # "idle"
                 PROVE  Left(c)' = Left(c) \/ LessLeft(Left(c)', Left(c))
      OBVIOUS
    <2>1. CASE UNCHANGED <<pc, tries>>
      BY <2>1, LeftOf
    <2>2. CASE Call(c) \/ Step(c)
      BY <2>2, OwnStep DEF Call
    <2>3. ASSUME NEW d \in Clients, d # c, Call(d) \/ Step(d)
          PROVE  Left(c)' = Left(c)
      BY <2>3, OthersStep
    <2>4. CASE Tick \/ Expire \/ UNCHANGED vars
      BY <2>1, <2>4 DEF Tick, Expire, vars
    <2>5. QED
      BY <2>2, <2>3, <2>4 DEF Next
  <1>3. QED
    BY InitInv, <1>1, <1>2, PTL DEF Spec, CallsAdvance

=============================================================================
