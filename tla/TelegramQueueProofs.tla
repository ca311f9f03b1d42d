------------------------ MODULE TelegramQueueProofs ------------------------
(***************************************************************************)
(* Proofs about TelegramQueue, for every number of rows, messages and      *)
(* faults and every value of the delays.                                   *)
(***************************************************************************)
EXTENDS TelegramQueue, FiniteSetTheorems, TLAPS

-----------------------------------------------------------------------------
(* Types.                                                                  *)

(* The arithmetic of available_at and of the pause stays in its ranges.    *)
LEMMA DelayTypes ==
    ASSUME RateOK
    PROVE  /\ AvailableAt \in Nat
           /\ \A n \in Nat : NextBackoff(n) \in 1..MaxBackoff
  BY QueueAssumption DEF RateOK, AvailableAt, NextBackoff, Later, Sooner

LEMMA ZeroInRange == 0 \in 0..MaxRows /\ 0 \in 0..MaxMessages /\ 0 \in 0..MaxBackoff
  BY QueueAssumption

LEMMA SpendTypes ==
    ASSUME TypeOK, NEW kind \in FaultKinds, Spend(kind)
    PROVE  left' \in [FaultKinds -> Nat]
  BY DEF TypeOK, Spend

(* A claimer that is not idle works on a row. *)
LEMMA JobIsRow ==
    ASSUME TypeOK, NEW c \in Claimers, at[c] # "idle"
    PROVE  job[c] \in Rows
  BY QueueAssumption DEF TypeOK, ClaimsOK, Rows

(* An insert keeps the columns in their types. *)
LEMMA EnqueueTypes ==
    ASSUME TypeOK, NEW o \in Ops, NEW k \in Keys \cup {NoKey}, NEW m \in 0..MaxMessages,
           Enqueue(o, k, m)
    PROVE  /\ last' \in Rows /\ TableOK' /\ RateOK' /\ ChatOK' /\ ProcessOK' /\ ClaimsOK'
           /\ left' \in [FaultKinds -> Nat]
<1>1. last' \in Rows
  BY QueueAssumption DEF TypeOK, TableOK, Enqueue, Rows
<1>2. (status \in [Rows -> Statuses])'
  BY <1>1 DEF TypeOK, TableOK, Enqueue, Statuses
<1>3. (op \in [Rows -> Ops])'
  BY <1>1 DEF TypeOK, TableOK, Enqueue
<1>4. (key \in [Rows -> Keys \cup {NoKey}])'
  BY <1>1 DEF TypeOK, TableOK, Enqueue
<1>5. (target \in [Rows -> 0..MaxMessages])'
  BY <1>1 DEF TypeOK, TableOK, Enqueue
<1>6. (wait \in [Rows -> Nat])'
  BY <1>1, DelayTypes DEF TypeOK, TableOK, Enqueue
<1>7. TableOK'
  BY <1>1, <1>2, <1>3, <1>4, <1>5, <1>6 DEF TypeOK, TableOK, Enqueue, Rows
<1>8. RateOK' /\ ChatOK' /\ left' \in [FaultKinds -> Nat]
  BY DEF TypeOK, RateOK, ChatOK, Enqueue, rate, chat
<1>9. ProcessOK' /\ ClaimsOK'
  BY DEF TypeOK, ProcessOK, ClaimsOK, Enqueue, process, claims
<1>10. QED
  BY <1>1, <1>7, <1>8, <1>9

(* A call of a row changes the chat within its types. *)
LEMMA EffectTypes ==
    ASSUME TypeOK, NEW r \in Rows, Effect(r)
    PROVE  ChatOK' /\ posted' \in 0..MaxMessages
<1>1. CASE op[r] = "send" /\ PostMessage(r)
  BY <1>1, QueueAssumption DEF TypeOK, ChatOK, PostMessage, Rows, Messages
<1>2. CASE op[r] = "edit" /\ EditMessage(r)
  <2>1. r \in 0..MaxRows
    BY QueueAssumption DEF Rows
  <2>2. (shown \in [Messages -> 0..MaxRows])'
    BY <1>2, <2>1 DEF TypeOK, ChatOK, EditMessage
  <2>3. QED
    BY <1>2, <2>2 DEF TypeOK, ChatOK, EditMessage
<1>3. CASE op[r] = "delete" /\ DeleteMessage(r)
  BY <1>3 DEF TypeOK, ChatOK, TableOK, DeleteMessage
<1>4. CASE op[r] = "typing" /\ UNCHANGED chat
  BY <1>4 DEF TypeOK, ChatOK, chat
<1>5. QED
  BY <1>1, <1>2, <1>3, <1>4 DEF Effect

LEMMA TypeInit == Init => TypeOK
<1> SUFFICES ASSUME Init PROVE TypeOK
  OBVIOUS
<1>1. TableOK
  BY QueueAssumption DEF Init, TableOK, Rows, Statuses, Ops
<1>2. RateOK /\ ChatOK
  BY QueueAssumption DEF Init, RateOK, ChatOK
<1>a. FaultBudget["crash"] \in Nat /\ FaultBudget["stop"] \in Nat
  BY QueueAssumption DEF FaultKinds
<1>b. ProcessOK
  BY <1>a DEF Init, ProcessOK, Runs
<1>3. ClaimsOK
  BY QueueAssumption DEF Init, ClaimsOK, Stages
<1>4. MainOK
  <2>1. allow \in BOOLEAN
    BY DEF Init
  <2>2. QED
    BY <2>1, ZeroInRange DEF Init, MainOK
<1>5. QED
  BY <1>1, <1>2, <1>b, <1>3, <1>4, QueueAssumption DEF TypeOK, Init

(* The main thread keeps the types. *)
LEMMA TypeProduce == TypeOK /\ Produce => TypeOK'
<1> SUFFICES ASSUME TypeOK, Produce PROVE TypeOK'
  OBVIOUS
<1>1. ASSUME NEW k \in TextKeys, Lookup(k) PROVE TypeOK'
  <2>1. TableOK' /\ RateOK' /\ ChatOK'
    BY <1>1 DEF Lookup, TypeOK, TableOK, RateOK, ChatOK, table, rate, chat
  <2>2. ProcessOK' /\ ClaimsOK'
    BY <1>1 DEF Lookup, TypeOK, ProcessOK, ClaimsOK, process, claims
  <2>3. Found(k) \subseteq 0..MaxMessages
    BY ZeroInRange DEF Found, TypeOK, TableOK, Keys
  <2>4. PICK m \in Found(k) : plan' = [key |-> k, msg |-> m, allow |-> pause > 0]
    BY <1>1 DEF Lookup
  <2>5. plan' \in Plans
    BY <2>3, <2>4 DEF Plans
  <2>6. MainOK'
    BY <1>1, <2>5 DEF Lookup, TypeOK, MainOK
  <2>7. QED
    BY <1>1, <2>1, <2>2, <2>6 DEF TypeOK, Lookup
<1>2. CASE Submit
  <2>1. plan \in Plans
    BY <1>2 DEF Submit, TypeOK, MainOK
  <2>2. PICK o \in Ops : Enqueue(o, plan.key, plan.msg)
    BY <1>2 DEF Submit, Ops
  <2>3. plan.key \in Keys \cup {NoKey} /\ plan.msg \in 0..MaxMessages
    BY <2>1 DEF Plans, Keys
  <2>4. last' \in Rows /\ TableOK' /\ RateOK' /\ ChatOK' /\ ProcessOK' /\ ClaimsOK'
        /\ left' \in [FaultKinds -> Nat]
    BY <2>2, <2>3, EnqueueTypes
  <2>5. allow' \in BOOLEAN
    BY <1>2 DEF Submit
  <2>a. waiting' \in 0..MaxRows /\ blind' \subseteq Rows
    <3>1. waiting' \in 0..MaxRows
      BY <1>2, <2>4, ZeroInRange DEF Submit, Rows
    <3>2. blind' \subseteq Rows
      BY <1>2, <2>4 DEF Submit, TypeOK, MainOK
    <3>3. QED
      BY <3>1, <3>2
  <2>b. MainOK'
    BY <1>2, <2>5, <2>a DEF Submit, TypeOK, MainOK
  <2>6. QED
    BY <2>4, <2>b DEF TypeOK
<1>3. CASE Reply
  <2>1. last' \in Rows /\ TableOK' /\ RateOK' /\ ChatOK' /\ ProcessOK' /\ ClaimsOK'
        /\ left' \in [FaultKinds -> Nat]
    BY <1>3, EnqueueTypes, QueueAssumption DEF Reply, Ops
  <2>2. MainOK'
    BY <1>3, <2>1, QueueAssumption DEF Reply, TypeOK, MainOK, Rows
  <2>3. QED
    BY <2>1, <2>2 DEF TypeOK
<1>4. ASSUME NEW k \in TypingKeys, Typing(k) PROVE TypeOK'
  <2>1. last' \in Rows /\ TableOK' /\ RateOK' /\ ChatOK' /\ ProcessOK' /\ ClaimsOK'
        /\ left' \in [FaultKinds -> Nat]
    BY <1>4, EnqueueTypes, QueueAssumption DEF Typing, Ops, Keys
  <2>2. MainOK'
    BY <1>4 DEF Typing, TypeOK, MainOK, main
  <2>3. QED
    BY <2>1, <2>2 DEF TypeOK
<1>5. ASSUME NEW m \in Messages, NEW waits \in BOOLEAN, Delete(m, waits) PROVE TypeOK'
  <2>1. m \in 0..MaxMessages
    BY QueueAssumption DEF Messages
  <2>2. last' \in Rows /\ TableOK' /\ RateOK' /\ ChatOK' /\ ProcessOK' /\ ClaimsOK'
        /\ left' \in [FaultKinds -> Nat]
    BY <1>5, <2>1, EnqueueTypes DEF Delete, Ops
  <2>3. allow' \in BOOLEAN
    BY <1>5 DEF Delete
  <2>4. waiting' \in 0..MaxRows
    BY <1>5, <2>2, ZeroInRange DEF Delete, Rows
  <2>5. MainOK'
    BY <1>5, <2>3, <2>4 DEF Delete, TypeOK, MainOK
  <2>6. QED
    BY <2>2, <2>5 DEF TypeOK
<1>6. CASE CancelLive
  <2>1. TableOK'
    BY <1>6 DEF CancelLive, TypeOK, TableOK, Statuses
  <2>2. RateOK' /\ ChatOK' /\ ProcessOK'
    BY <1>6 DEF CancelLive, TypeOK, RateOK, ChatOK, ProcessOK, rate, chat, process
  <2>3. ClaimsOK' /\ MainOK'
    BY <1>6 DEF CancelLive, TypeOK, ClaimsOK, MainOK, claims, main
  <2>4. QED
    BY <1>6, <2>1, <2>2, <2>3 DEF TypeOK, CancelLive
<1>7. CASE NewGroup \/ EndTurn \/ WaitReturns
  <2>1. TableOK' /\ RateOK' /\ ChatOK'
    BY <1>7 DEF NewGroup, EndTurn, WaitReturns, TypeOK, TableOK, RateOK, ChatOK, table, rate, chat
  <2>2. ProcessOK' /\ ClaimsOK' /\ left' \in [FaultKinds -> Nat]
    BY <1>7 DEF NewGroup, EndTurn, WaitReturns, TypeOK, ProcessOK, ClaimsOK, process, claims
  <2>3. MainOK'
    <3>1. CASE NewGroup
      BY <3>1 DEF NewGroup, TypeOK, MainOK, TableOK
    <3>2. CASE EndTurn
      BY <3>2 DEF EndTurn, TypeOK, MainOK
    <3>3. CASE WaitReturns
      <4>1. allow' \in BOOLEAN
        BY <3>3 DEF WaitReturns
      <4>2. QED
        BY <3>3, <4>1, ZeroInRange DEF WaitReturns, TypeOK, MainOK
    <3>4. QED
      BY <1>7, <3>1, <3>2, <3>3
  <2>4. QED
    BY <2>1, <2>2, <2>3 DEF TypeOK
<1>8. QED
  BY <1>1, <1>2, <1>3, <1>4, <1>5, <1>6, <1>7 DEF Produce

(* process_next keeps the types. *)
LEMMA TypeProcessNext ==
    ASSUME TypeOK, NEW c \in Claimers, ProcessNext(c)
    PROVE  TypeOK'
<1>1. CASE Claim(c)
  <2>1. TableOK'
    BY <1>1 DEF TypeOK, TableOK, Claim, ProcessOK, process, Statuses
  <2>2. ClaimsOK'
    BY <1>1, QueueAssumption DEF TypeOK, ClaimsOK, Claim, Due, Rows, Stages
  <2>3. RateOK' /\ ChatOK' /\ ProcessOK' /\ MainOK'
    BY <1>1 DEF TypeOK, RateOK, ChatOK, ProcessOK, MainOK, Claim, rate, chat, process, main
  <2>4. QED
    BY <1>1, <2>1, <2>2, <2>3 DEF TypeOK, Claim
<1>2. CASE SkipStale(c)
  <2>1. job[c] \in Rows
    BY <1>2, JobIsRow DEF SkipStale
  <2>2. TableOK'
    BY <1>2, <2>1 DEF TypeOK, TableOK, SkipStale, Statuses
  <2>3. ClaimsOK'
    BY <1>2, QueueAssumption DEF TypeOK, ClaimsOK, SkipStale, Stages
  <2>4. RateOK' /\ ChatOK' /\ ProcessOK' /\ MainOK'
    BY <1>2 DEF TypeOK, RateOK, ChatOK, ProcessOK, MainOK, SkipStale, rate, chat, process, main
  <2>5. QED
    BY <1>2, <2>2, <2>3, <2>4 DEF TypeOK, SkipStale
<1>3. CASE StartCall(c) \/ CallIsNoop(c) \/ CallIsRejected(c) \/ CallIsLimited(c) \/ CallFails(c)
  <2>1. UNCHANGED <<table, rate, chat, process, job, got, main>>
    BY <1>3 DEF StartCall, CallIsNoop, CallIsRejected, CallIsLimited, CallFails
  <2>2. at[c] # "idle" /\ \E s \in Stages \ {"idle"} : at' = [at EXCEPT ![c] = s]
    BY <1>3 DEF StartCall, CallIsNoop, CallIsRejected, CallIsLimited, CallFails, Stages
  <2>3. ClaimsOK'
    BY <2>1, <2>2 DEF TypeOK, ClaimsOK
  <2>4. TableOK' /\ RateOK' /\ ChatOK'
    BY <2>1 DEF TypeOK, TableOK, RateOK, ChatOK, table, rate, chat
  <2>5. ProcessOK' /\ MainOK'
    BY <2>1 DEF TypeOK, ProcessOK, MainOK, process, main
  <2>6. left' \in [FaultKinds -> Nat]
    BY <1>3 DEF TypeOK, StartCall, CallIsNoop, CallIsRejected, CallIsLimited, CallFails, Spend
  <2>7. QED
    BY <2>3, <2>4, <2>5, <2>6 DEF TypeOK
<1>4. CASE CallSucceeds(c) \/ AnswerLost(c)
  <2>1. at[c] = "call" /\ Effect(job[c]) /\ UNCHANGED <<table, rate, process, job, main>>
    BY <1>4 DEF CallSucceeds, AnswerLost
  <2>2. ChatOK' /\ posted' \in 0..MaxMessages
    BY <2>1, JobIsRow, EffectTypes
  <2>3. target[job[c]] \in 0..MaxMessages
    BY <2>1, JobIsRow DEF TypeOK, TableOK
  <2>4. ClaimsOK'
    <3>1. CASE CallSucceeds(c)
      <4> DEFINE m == CASE op[job[c]] = "send" -> posted'
                        [] op[job[c]] = "edit" -> target[job[c]]
                        [] OTHER -> 0
      <4>1. m \in 0..MaxMessages
        BY <2>2, <2>3, ZeroInRange
      <4>2. got' = [got EXCEPT ![c] = m] /\ at' = [at EXCEPT ![c] = "ok"]
            /\ at[c] = "call" /\ job' = job
        BY <3>1 DEF CallSucceeds
      <4> HIDE DEF m
      <4>3. QED
        BY <4>1, <4>2 DEF TypeOK, ClaimsOK, Stages
    <3>2. CASE AnswerLost(c)
      BY <3>2 DEF TypeOK, ClaimsOK, AnswerLost, Stages
    <3>3. QED
      BY <1>4, <3>1, <3>2
  <2>5. TableOK' /\ RateOK' /\ ProcessOK' /\ MainOK'
    BY <2>1 DEF TypeOK, TableOK, RateOK, ProcessOK, MainOK, table, rate, process, main
  <2>6. left' \in [FaultKinds -> Nat]
    BY <1>4 DEF TypeOK, CallSucceeds, AnswerLost, Spend
  <2>7. QED
    BY <2>2, <2>4, <2>5, <2>6 DEF TypeOK
<1>5. CASE Complete(c)
  <2>1. job[c] \in Rows /\ got[c] \in 0..MaxMessages /\ target[job[c]] \in 0..MaxMessages
    BY <1>5, JobIsRow DEF TypeOK, TableOK, ClaimsOK, Complete
  <2>2. (status \in [Rows -> Statuses])' /\ limited' \subseteq Rows
    BY <1>5 DEF TypeOK, TableOK, Complete, Statuses
  <2>3. (op \in [Rows -> Ops])'
    BY <1>5 DEF TypeOK, TableOK, Complete, Ops
  <2>4. (target \in [Rows -> 0..MaxMessages])'
    BY <1>5, <2>1 DEF TypeOK, TableOK, Complete
  <2>5. (known \in [Keys -> 0..MaxMessages])'
    BY <1>5, <2>1 DEF TypeOK, TableOK, Complete
  <2>6. TableOK'
    BY <1>5, <2>2, <2>3, <2>4, <2>5 DEF TypeOK, TableOK, Complete
  <2>7. ClaimsOK'
    BY <1>5, QueueAssumption DEF TypeOK, ClaimsOK, Complete, Return, Stages
  <2>8. RateOK' /\ ChatOK' /\ ProcessOK' /\ MainOK'
    BY <1>5, QueueAssumption
       DEF TypeOK, RateOK, ChatOK, ProcessOK, MainOK, Complete, ClearPause, SavePause, chat, process, main
  <2>9. QED
    BY <1>5, <2>6, <2>7, <2>8 DEF TypeOK, Complete
<1>6. CASE CompleteNoop(c)
  <2>1. job[c] \in Rows /\ target[job[c]] \in 0..MaxMessages
    BY <1>6, JobIsRow DEF TypeOK, TableOK, CompleteNoop
  <2>2. TableOK'
    BY <1>6, <2>1 DEF TypeOK, TableOK, CompleteNoop, Statuses
  <2>3. ClaimsOK'
    BY <1>6, QueueAssumption DEF TypeOK, ClaimsOK, CompleteNoop, Return, Stages
  <2>4. RateOK' /\ ChatOK' /\ ProcessOK' /\ MainOK'
    BY <1>6, QueueAssumption
       DEF TypeOK, RateOK, ChatOK, ProcessOK, MainOK, CompleteNoop, ClearPause, SavePause, chat, process, main
  <2>5. QED
    BY <1>6, <2>2, <2>3, <2>4 DEF TypeOK, CompleteNoop
<1>7. CASE Requeue(c)
  <2>1. job[c] \in Rows
    BY <1>7, JobIsRow DEF Requeue
  <2>2. pause' \in 0..MaxBackoff /\ backoff' \in 0..MaxBackoff
    BY <1>7, DelayTypes, QueueAssumption DEF TypeOK, Requeue, SavePause
  <2>3. (status \in [Rows -> Statuses])' /\ limited' \subseteq Rows
    BY <1>7, <2>1 DEF TypeOK, TableOK, Requeue, Statuses
  <2>4. (wait \in [Rows -> Nat])'
    <3>1. pause' \in Nat
      BY <2>2, QueueAssumption
    <3>2. wait' = HoldBack(job[c], pause')
      BY <1>7 DEF Requeue
    <3>3. QED
      BY <3>1, <3>2 DEF TypeOK, TableOK, HoldBack, Later
  <2>5. (owner \in [Rows -> {0} \cup Runs])'
    BY <1>7 DEF TypeOK, TableOK, Requeue
  <2>6. TableOK'
    BY <1>7, <2>3, <2>4, <2>5 DEF TypeOK, TableOK, Requeue
  <2>7. ClaimsOK'
    BY <1>7, QueueAssumption DEF TypeOK, ClaimsOK, Requeue, Return, Stages
  <2>8. ChatOK' /\ ProcessOK' /\ MainOK'
    BY <1>7 DEF TypeOK, ChatOK, ProcessOK, MainOK, Requeue, chat, process, main
  <2>9. QED
    BY <1>7, <2>2, <2>6, <2>7, <2>8 DEF TypeOK, RateOK, Requeue
<1>8. CASE Fail(c)
  <2>1. TableOK'
    BY <1>8 DEF TypeOK, TableOK, Fail, Statuses
  <2>2. ClaimsOK'
    BY <1>8, QueueAssumption DEF TypeOK, ClaimsOK, Fail, Return, Stages
  <2>3. RateOK' /\ ChatOK' /\ ProcessOK' /\ MainOK'
    BY <1>8 DEF TypeOK, RateOK, ChatOK, ProcessOK, MainOK, Fail, rate, chat, process, main
  <2>4. QED
    BY <1>8, <2>1, <2>2, <2>3 DEF TypeOK, Fail
<1>9. QED
  BY <1>1, <1>2, <1>3, <1>4, <1>5, <1>6, <1>7, <1>8 DEF ProcessNext, Answer, Commit

(* Time, faults and restarts keep the types. *)
LEMMA TypeEnvironment ==
    ASSUME TypeOK, DatabaseError \/ Tick \/ BeginStop \/ FinishStop \/ Crash \/ Start
    PROVE  TypeOK'
<1>1. CASE DatabaseError
  <2>1. TableOK' /\ RateOK' /\ ChatOK'
    BY <1>1 DEF TypeOK, TableOK, RateOK, ChatOK, DatabaseError, table, rate, chat
  <2>2. ClaimsOK'
    <3>1. "worker" \in Claimers
      BY DEF Claimers
    <3>2. QED
      BY <1>1, <3>1, ZeroInRange DEF TypeOK, ClaimsOK, DatabaseError, Return, Stages
  <2>3. ProcessOK' /\ MainOK'
    BY <1>1 DEF TypeOK, ProcessOK, MainOK, DatabaseError, process, main
  <2>4. left' \in [FaultKinds -> Nat]
    BY <1>1, SpendTypes DEF DatabaseError, FaultKinds
  <2>5. QED
    BY <2>1, <2>2, <2>3, <2>4 DEF TypeOK
<1>2. CASE Tick
  <2>1. TableOK'
    BY <1>2 DEF TypeOK, TableOK, Tick, Countdown
  <2>2. RateOK'
    BY <1>2, QueueAssumption DEF TypeOK, RateOK, Tick, Countdown
  <2>3. ChatOK' /\ ProcessOK' /\ MainOK'
    BY <1>2 DEF TypeOK, ChatOK, ProcessOK, MainOK, Tick, chat, process, main
  <2>4. ClaimsOK' /\ left' \in [FaultKinds -> Nat]
    BY <1>2 DEF TypeOK, ClaimsOK, Tick, claims
  <2>5. QED
    BY <2>1, <2>2, <2>3, <2>4 DEF TypeOK
<1>3. CASE BeginStop
  <2>1. TableOK' /\ RateOK' /\ ChatOK'
    BY <1>3 DEF TypeOK, TableOK, RateOK, ChatOK, BeginStop, table, rate, chat
  <2>2. ProcessOK' /\ ClaimsOK' /\ MainOK'
    BY <1>3 DEF TypeOK, ProcessOK, ClaimsOK, MainOK, BeginStop, claims, main
  <2>3. left' \in [FaultKinds -> Nat]
    BY <1>3, SpendTypes DEF BeginStop, FaultKinds
  <2>4. QED
    BY <2>1, <2>2, <2>3 DEF TypeOK
<1>4. CASE FinishStop \/ Crash
  <2>1. ProcessEnds /\ stopped' \subseteq Runs /\ left' \in [FaultKinds -> Nat]
    BY <1>4 DEF TypeOK, ProcessOK, FinishStop, Crash, Spend
  <2>2. TableOK' /\ RateOK' /\ ChatOK'
    BY <2>1 DEF TypeOK, TableOK, RateOK, ChatOK, ProcessEnds, table, rate, chat
  <2>3. ProcessOK'
    BY <2>1 DEF TypeOK, ProcessOK, ProcessEnds
  <2>4. ClaimsOK'
    BY <2>1, QueueAssumption DEF TypeOK, ClaimsOK, ProcessEnds, Stages
  <2>5. MainOK'
    <3>1. allow' \in BOOLEAN
      BY <2>1 DEF ProcessEnds
    <3>2. QED
      BY <2>1, <3>1, ZeroInRange DEF TypeOK, MainOK, ProcessEnds
  <2>6. QED
    BY <2>1, <2>2, <2>3, <2>4, <2>5 DEF TypeOK
<1>5. CASE Start
  <2>1. TableOK'
    BY <1>5 DEF TypeOK, TableOK, Start, Statuses
  <2>2. ProcessOK' /\ MainOK'
    BY <1>5 DEF TypeOK, ProcessOK, MainOK, Start
  <2>3. RateOK' /\ ChatOK' /\ ClaimsOK'
    BY <1>5 DEF TypeOK, RateOK, ChatOK, ClaimsOK, Start, rate, chat, claims
  <2>4. QED
    BY <1>5, <2>1, <2>2, <2>3 DEF TypeOK, Start
<1>6. QED
  BY <1>1, <1>2, <1>3, <1>4, <1>5

LEMMA TypeStep == TypeOK /\ [Next]_vars => TypeOK'
<1> SUFFICES ASSUME TypeOK, [Next]_vars PROVE TypeOK'
  OBVIOUS
<1>1. CASE UNCHANGED vars
  <2>1. TableOK' /\ RateOK' /\ ChatOK'
    BY <1>1 DEF vars, TypeOK, TableOK, RateOK, ChatOK, table, rate, chat
  <2>2. ProcessOK' /\ ClaimsOK' /\ MainOK'
    BY <1>1 DEF vars, TypeOK, ProcessOK, ClaimsOK, MainOK, process, claims, main
  <2>3. QED
    BY <1>1, <2>1, <2>2 DEF TypeOK, vars
<1>2. QED
  BY <1>1, TypeProduce, TypeProcessNext, TypeEnvironment DEF Next

(* Every row, message id, run and timestamp stays in its range, whatever   *)
(* fault hits the service.                                                 *)
THEOREM TypeCorrect == Spec => []TypeOK
<1>1. QED
  BY TypeInit, TypeStep, PTL DEF Spec

-----------------------------------------------------------------------------
(* Claims and posts, whatever fault hits the service: the invariant behind *)
(* ClaimedOnce and CompletedWasPosted.                                     *)

(* The call of row r has created a message. *)
Created(r) == \E m \in 1..posted : author[m] = r

(* A row is in the hands of one thread at most, and while it is, it stays  *)
(* claimed; only the next start may take it back.                          *)
OneHand ==
    /\ \A r \in Rows : r > last => status[r] = "absent"
    /\ \A c \in Claimers : job[c] # 0 => status[job[c]] = "claimed"
    /\ \A c, d \in Claimers : job[c] = job[d] /\ job[c] # 0 => c = d
    /\ phase = "down" => \A c \in Claimers : job[c] = 0

(* What the key of a row says about its operation. *)
OpFitsKey ==
    \A r \in Rows : /\ key[r] \in TypingKeys => op[r] = "typing"
                    /\ key[r] \in TextKeys => op[r] \in {"send", "edit"}

(* A send is answered by "ok" only once its message exists, and never by   *)
(* an error that completes the row.                                        *)
AnswerIsTrue ==
    \A c \in Claimers :
        /\ at[c] = "ok" /\ op[job[c]] = "send" => Created(job[c])
        /\ at[c] = "noop" => op[job[c]] # "send"

PostInv == TypeOK /\ OneHand /\ OpFitsKey /\ AnswerIsTrue /\ CompletedWasPosted

(* A message, once posted, keeps its author. *)
LEMMA CreatedStays ==
    ASSUME TypeOK, UNCHANGED <<posted, author>> \/ \E r \in Rows : PostMessage(r)
    PROVE  \A r \in Rows : Created(r) => Created(r)'
<1> SUFFICES ASSUME NEW r \in Rows, Created(r) PROVE Created(r)'
  OBVIOUS
<1>1. PICK m \in 1..posted : author[m] = r
  BY DEF Created
<1>2. posted \in 0..MaxMessages /\ author \in [Messages -> 0..MaxRows]
  BY DEF TypeOK, ChatOK
<1>3. m \in 1..posted' /\ author'[m] = r
  BY <1>1, <1>2, QueueAssumption DEF PostMessage, Messages
<1>4. QED
  BY <1>3 DEF Created

LEMMA PostCreates ==
    ASSUME TypeOK, NEW r \in Rows, PostMessage(r)
    PROVE  Created(r)' /\ posted' = posted + 1 /\ author'[posted + 1] = r
<1>1. posted + 1 \in Messages /\ posted' = posted + 1
  BY QueueAssumption DEF TypeOK, ChatOK, PostMessage, Messages
<1>2. author'[posted + 1] = r
  BY <1>1 DEF TypeOK, ChatOK, PostMessage
<1>3. QED
  BY <1>1, <1>2 DEF Created, Messages

(* A call changes posted and author only by posting. *)
LEMMA EffectPosts ==
    ASSUME NEW r \in Rows, Effect(r)
    PROVE  /\ UNCHANGED <<posted, author>> \/ \E q \in Rows : PostMessage(q)
           /\ op[r] = "send" => PostMessage(r)
           /\ op[r] # "send" => UNCHANGED <<posted, author>>
  BY DEF Effect, EditMessage, DeleteMessage, chat

(* An insert disturbs no claimed and no completed row. *)
LEMMA EnqueuePosts ==
    ASSUME PostInv, NEW o \in Ops, NEW k \in Keys \cup {NoKey}, NEW m \in 0..MaxMessages,
           Enqueue(o, k, m), k \in TypingKeys => o = "typing", k \in TextKeys => o \in {"send", "edit"}
    PROVE  (OneHand /\ OpFitsKey /\ AnswerIsTrue /\ CompletedWasPosted)'
<1>a. TypeOK /\ last \in Nat /\ last' = last + 1
  BY QueueAssumption DEF PostInv, TypeOK, TableOK, Enqueue
<1>1. last' = last + 1 /\ last' \in Rows /\ last \in Nat
  BY <1>a, EnqueueTypes
<1>2. UNCHANGED <<chat, phase, at, job, got>>
  BY DEF Enqueue, process, claims
<1>3. \A r \in Rows : r # last' => op'[r] = op[r] /\ key'[r] = key[r]
  BY <1>1 DEF Enqueue, PostInv, TypeOK, TableOK
<1>4. op'[last'] = o /\ key'[last'] = k /\ status'[last'] = "queued"
  BY <1>1 DEF Enqueue, PostInv, TypeOK, TableOK
<1>5. \A r \in Rows : r # last' => status'[r] \in {status[r], "deleted"}
                                   /\ (status[r] # "queued" => status'[r] = status[r])
  BY <1>1 DEF Enqueue, Replaced
<1>6. status[last'] = "absent"
  BY <1>1 DEF PostInv, OneHand
<1>7. \A c \in Claimers : job[c] # 0 => job[c] \in Rows /\ job[c] # last'
  BY <1>6 DEF PostInv, OneHand, TypeOK, ClaimsOK, Rows
<1>8. OneHand'
  <2>1. \A r \in Rows : r > last' => status'[r] = "absent"
    BY <1>1 DEF PostInv, OneHand, Enqueue, Replaced, Rows
  <2>2. QED
    BY <1>2, <1>5, <1>7, <2>1 DEF PostInv, OneHand
<1>9. OpFitsKey'
  BY <1>3, <1>4 DEF PostInv, OpFitsKey
<1>10. AnswerIsTrue'
  BY <1>2, <1>3, <1>7 DEF PostInv, AnswerIsTrue, Created, chat, TypeOK, ClaimsOK
<1>11. CompletedWasPosted'
  BY <1>2, <1>3, <1>4, <1>5 DEF PostInv, CompletedWasPosted, chat
<1>12. QED
  BY <1>8, <1>9, <1>10, <1>11

(* A step that leaves the rows that are claimed or over, the chat and the  *)
(* threads alone.                                                          *)
LEMMA QuietPosts ==
    ASSUME PostInv, UNCHANGED <<last, op, key, chat, claims>>,
           \A r \in Rows : status'[r] \in {status[r], "deleted"}
                           /\ (status[r] # "queued" => status'[r] = status[r]),
           phase' = phase \/ phase' # "down"
    PROVE  (OneHand /\ OpFitsKey /\ AnswerIsTrue /\ CompletedWasPosted)'
<1>1. \A c \in Claimers : job[c] # 0 => job[c] \in Rows
  BY DEF PostInv, TypeOK, ClaimsOK, Rows
<1>2. OneHand'
  BY <1>1 DEF PostInv, OneHand, claims
<1>3. OpFitsKey' /\ AnswerIsTrue'
  BY DEF PostInv, OpFitsKey, AnswerIsTrue, Created, chat, claims
<1>4. CompletedWasPosted'
  BY DEF PostInv, CompletedWasPosted, chat
<1>5. QED
  BY <1>2, <1>3, <1>4

LEMMA PostProduce == PostInv /\ Produce => (OneHand /\ OpFitsKey /\ AnswerIsTrue /\ CompletedWasPosted)'
<1> SUFFICES ASSUME PostInv, Produce
             PROVE  (OneHand /\ OpFitsKey /\ AnswerIsTrue /\ CompletedWasPosted)'
  OBVIOUS
<1>t. TypeOK /\ NoKey \notin Keys /\ TextKeys \cap TypingKeys = {}
  BY QueueAssumption DEF PostInv
<1>1. CASE (\E k \in TextKeys : Lookup(k)) \/ NewGroup \/ EndTurn \/ WaitReturns
  <2>1. UNCHANGED <<table, chat, process, claims>>
    BY <1>1 DEF Lookup, NewGroup, EndTurn, WaitReturns
  <2>2. QED
    BY <2>1, QuietPosts DEF table, process
<1>2. CASE Submit
  <2>1. plan \in Plans
    BY <1>2, <1>t DEF Submit, TypeOK, MainOK
  <2>2. plan.key \in TextKeys /\ plan.msg \in 0..MaxMessages
    BY <2>1 DEF Plans
  <2>3. PICK o \in {"send", "edit"} : Enqueue(o, plan.key, plan.msg)
    BY <1>2 DEF Submit
  <2>4. QED
    BY <2>2, <2>3, <1>t, EnqueuePosts DEF Ops, Keys
<1>3. CASE Reply
  <2>1. NoKey \notin TypingKeys /\ NoKey \notin TextKeys
    BY <1>t DEF Keys
  <2>2. Enqueue("send", NoKey, 0)
    BY <1>3 DEF Reply
  <2>3. QED
    BY <2>1, <2>2, ZeroInRange, EnqueuePosts DEF Ops
<1>4. ASSUME NEW k \in TypingKeys, Typing(k)
      PROVE  (OneHand /\ OpFitsKey /\ AnswerIsTrue /\ CompletedWasPosted)'
  <2>1. Enqueue("typing", k, 0)
    BY <1>4 DEF Typing
  <2>2. QED
    BY <2>1, <1>t, ZeroInRange, EnqueuePosts DEF Ops, Keys
<1>5. ASSUME NEW m \in Messages, NEW waits \in BOOLEAN, Delete(m, waits)
      PROVE  (OneHand /\ OpFitsKey /\ AnswerIsTrue /\ CompletedWasPosted)'
  <2>1. m \in 0..MaxMessages /\ NoKey \notin TypingKeys /\ NoKey \notin TextKeys
    BY <1>t, QueueAssumption DEF Messages, Keys
  <2>2. Enqueue("delete", NoKey, m)
    BY <1>5 DEF Delete
  <2>3. QED
    BY <2>1, <2>2, EnqueuePosts DEF Ops
<1>6. CASE CancelLive
  BY <1>6, QuietPosts DEF CancelLive, process
<1>7. QED
  BY <1>1, <1>2, <1>3, <1>4, <1>5, <1>6 DEF Produce

(* A thread that claims, takes a look or hears from Telegram. *)
LEMMA PostClaim ==
    ASSUME PostInv, NEW c \in Claimers, Claim(c)
    PROVE  (OneHand /\ OpFitsKey /\ AnswerIsTrue /\ CompletedWasPosted)'
<1>1. PICK r \in Due : /\ status' = [status EXCEPT ![r] = "claimed"]
                       /\ job' = [job EXCEPT ![c] = r]
  BY DEF Claim
<1>2. r \in Rows /\ status[r] = "queued" /\ phase # "down"
  BY <1>1 DEF Due, Claim, MayClaim
<1>3. UNCHANGED <<last, op, key, chat, process>> /\ at' = [at EXCEPT ![c] = "check"]
  BY DEF Claim
<1>4. \A q \in Rows : status'[q] = IF q = r THEN "claimed" ELSE status[q]
  BY <1>1 DEF PostInv, TypeOK, TableOK
<1>5. \A d \in Claimers : /\ job'[d] = IF d = c THEN r ELSE job[d]
                          /\ at'[d] = IF d = c THEN "check" ELSE at[d]
  BY <1>1, <1>3 DEF PostInv, TypeOK, ClaimsOK
<1>6. \A d \in Claimers : job[d] # r /\ (job[d] # 0 => job[d] \in Rows)
  BY <1>2 DEF PostInv, OneHand, TypeOK, ClaimsOK, Rows
<1>7. OneHand'
  BY <1>2, <1>3, <1>4, <1>5, <1>6 DEF PostInv, OneHand, process
<1>8. OpFitsKey'
  BY <1>3 DEF PostInv, OpFitsKey
<1>9. AnswerIsTrue'
  BY <1>3, <1>5 DEF PostInv, AnswerIsTrue, Created, chat
<1>10. CompletedWasPosted'
  BY <1>3, <1>4 DEF PostInv, CompletedWasPosted, chat
<1>11. QED
  BY <1>7, <1>8, <1>9, <1>10

LEMMA PostCall ==
    ASSUME PostInv, NEW c \in Claimers, StartCall(c) \/ Answer(c)
    PROVE  (OneHand /\ OpFitsKey /\ AnswerIsTrue /\ CompletedWasPosted)'
<1>1. UNCHANGED <<table, process, job>> /\ at[c] \in {"check", "call"}
  BY DEF StartCall, Answer, CallSucceeds, CallIsNoop, CallIsRejected, CallIsLimited, CallFails,
         AnswerLost
<1>2. PICK s \in Stages : at' = [at EXCEPT ![c] = s]
  BY DEF StartCall, Answer, CallSucceeds, CallIsNoop, CallIsRejected, CallIsLimited, CallFails,
         AnswerLost, Stages
<1>3. TypeOK /\ job[c] \in Rows
  BY <1>1, JobIsRow DEF PostInv
<1>4. \A d \in Claimers : at'[d] = IF d = c THEN s ELSE at[d]
  BY <1>2, <1>3 DEF TypeOK, ClaimsOK
<1>5. Effect(job[c]) \/ UNCHANGED chat
  BY DEF StartCall, Answer, CallSucceeds, CallIsNoop, CallIsRejected, CallIsLimited, CallFails,
         AnswerLost
<1>6. UNCHANGED <<posted, author>> \/ \E q \in Rows : PostMessage(q)
  BY <1>3, <1>5, EffectPosts DEF chat
<1>7. \A r \in Rows : Created(r) => Created(r)'
  BY <1>3, <1>6, CreatedStays
<1>8. OneHand' /\ OpFitsKey'
  BY <1>1 DEF PostInv, OneHand, OpFitsKey, table, process
<1>9. CompletedWasPosted'
  BY <1>1, <1>7 DEF PostInv, CompletedWasPosted, Created, table
<1>10. s = "ok" => CallSucceeds(c)
  BY <1>2, <1>3
     DEF StartCall, Answer, CallSucceeds, CallIsNoop, CallIsRejected, CallIsLimited, CallFails,
         AnswerLost, TypeOK, ClaimsOK
<1>11. s = "noop" => CallIsNoop(c)
  BY <1>2, <1>3
     DEF StartCall, Answer, CallSucceeds, CallIsNoop, CallIsRejected, CallIsLimited, CallFails,
         AnswerLost, TypeOK, ClaimsOK
<1>12. s = "ok" /\ op[job[c]] = "send" => Created(job[c])'
  <2> SUFFICES ASSUME s = "ok", op[job[c]] = "send" PROVE Created(job[c])'
    OBVIOUS
  <2>1. PostMessage(job[c])
    BY <1>10, <1>3, EffectPosts DEF CallSucceeds
  <2>2. \A r \in Rows : PostMessage(r) => Created(r)'
    BY <1>3, PostCreates
  <2>3. PICK r \in Rows : r = job[c]
    BY <1>3
  <2>4. Created(r)' /\ job'[c] = r /\ job[c] = r
    BY <2>1, <2>2, <2>3, <1>1
  <2>5. QED
    BY <2>4 DEF Created
<1>13. s = "noop" => op[job[c]] # "send"
  BY <1>11 DEF CallIsNoop
<1>14. AnswerIsTrue'
  <2> SUFFICES ASSUME NEW d \in Claimers
               PROVE  /\ at'[d] = "ok" /\ op'[job'[d]] = "send" => Created(job[d])'
                      /\ at'[d] = "noop" => op'[job'[d]] # "send"
    BY <1>1 DEF AnswerIsTrue, Created
  <2>1. CASE d = c
    BY <2>1, <1>1, <1>4, <1>12, <1>13 DEF table
  <2>2. CASE d # c
    <3>1. at'[d] = at[d] /\ op' = op /\ job' = job
      BY <2>2, <1>1, <1>4 DEF table
    <3>2. at[d] = "ok" => job[d] \in Rows
      BY <1>3, JobIsRow
    <3>3. PICK r : r = job[d]
      OBVIOUS
    <3>4. at[d] = "ok" /\ op[r] = "send" => Created(r)'
      BY <1>7, <3>2, <3>3 DEF PostInv, AnswerIsTrue
    <3>5. QED
      BY <3>1, <3>3, <3>4 DEF PostInv, AnswerIsTrue, Created
  <2>3. QED
    BY <2>1, <2>2
<1>15. QED
  BY <1>8, <1>9, <1>14

(* A send may become an edit while its row is queued, and only then. *)
OpsPromoted ==
    \A q \in Rows : \/ op'[q] = op[q]
                    \/ status[q] = "queued" /\ op[q] = "send" /\ op'[q] = "edit"

(* A thread gives its row back: it is over or queued again. *)
Settles(c, s) ==
    /\ at[c] # "idle"
    /\ status' = [status EXCEPT ![job[c]] = s]
    /\ at' = [at EXCEPT ![c] = "idle"]
    /\ job' = [job EXCEPT ![c] = 0]
    /\ UNCHANGED <<last, key, chat, phase>>
    /\ OpsPromoted

LEMMA PostSettle ==
    ASSUME PostInv, NEW c \in Claimers, NEW s \in {"queued", "completed", "failed"}, Settles(c, s),
           s = "completed" /\ op[job[c]] = "send" /\ key[job[c]] \notin LiveKeys => Created(job[c])
    PROVE  (OneHand /\ OpFitsKey /\ AnswerIsTrue /\ CompletedWasPosted)'
<1> USE DEF Settles, OpsPromoted
<1>1. TypeOK /\ job[c] \in Rows
  BY JobIsRow DEF PostInv
<1>2. PICK r \in Rows : r = job[c]
  BY <1>1
<1>3. \A q \in Rows : status'[q] = IF q = r THEN s ELSE status[q]
  BY <1>1, <1>2 DEF TypeOK, TableOK
<1>4. \A d \in Claimers : /\ job'[d] = IF d = c THEN 0 ELSE job[d]
                          /\ at'[d] = IF d = c THEN "idle" ELSE at[d]
  BY <1>1 DEF TypeOK, ClaimsOK
<1>5. status[r] = "claimed" /\ r # 0
  BY <1>2, QueueAssumption DEF PostInv, OneHand, Rows
<1>6. \A d \in Claimers : job[d] # 0 => /\ job[d] \in Rows /\ status[job[d]] = "claimed"
                                        /\ d # c => job[d] # r
  BY <1>1, <1>2, <1>5 DEF PostInv, OneHand, TypeOK, ClaimsOK, Rows
<1>7. OneHand'
  <2>1. \A q \in Rows : q > last' => status'[q] = "absent"
    BY <1>3, <1>5 DEF PostInv, OneHand
  <2>2. \A d \in Claimers : job'[d] # 0 => status'[job'[d]] = "claimed"
    BY <1>3, <1>4, <1>6
  <2>3. \A d, e \in Claimers : job'[d] = job'[e] /\ job'[d] # 0 => d = e
    BY <1>4 DEF PostInv, OneHand
  <2>4. phase' = "down" => \A d \in Claimers : job'[d] = 0
    BY <1>4 DEF PostInv, OneHand
  <2>5. QED
    BY <2>1, <2>2, <2>3, <2>4 DEF OneHand
<1>8. OpFitsKey'
  <2> SUFFICES ASSUME NEW q \in Rows
               PROVE  /\ key[q] \in TypingKeys => op'[q] = "typing"
                      /\ key[q] \in TextKeys => op'[q] \in {"send", "edit"}
    BY DEF OpFitsKey
  <2>1. /\ key[q] \in TypingKeys => op[q] = "typing"
        /\ key[q] \in TextKeys => op[q] \in {"send", "edit"}
    BY DEF PostInv, OpFitsKey
  <2>2. QED
    BY <2>1
<1>9. AnswerIsTrue'
  <2> SUFFICES ASSUME NEW d \in Claimers
               PROVE  /\ at'[d] = "ok" /\ op'[job'[d]] = "send" => Created(job'[d])
                      /\ at'[d] = "noop" => op'[job'[d]] # "send"
    BY DEF AnswerIsTrue, Created, chat
  <2>1. CASE d = c
    BY <2>1, <1>4
  <2>2. CASE d # c /\ at[d] \in {"ok", "noop"}
    <3>1. PICK q \in Rows : q = job[d]
      BY <2>2, <1>1, JobIsRow
    <3>2. status[q] = "claimed"
      BY <3>1, <1>6, QueueAssumption DEF Rows
    <3>3. op'[q] = op[q]
      BY <3>2
    <3>4. job'[d] = q /\ at'[d] = at[d]
      BY <2>2, <3>1, <1>4
    <3>5. QED
      BY <3>1, <3>3, <3>4 DEF PostInv, AnswerIsTrue
  <2>3. CASE d # c /\ at[d] \notin {"ok", "noop"}
    BY <2>3, <1>4
  <2>4. QED
    BY <2>1, <2>2, <2>3
<1>10. CompletedWasPosted'
  <2> SUFFICES ASSUME NEW q \in Rows, status'[q] = "completed", op'[q] = "send", key[q] \notin LiveKeys
               PROVE  Created(q)
    BY DEF CompletedWasPosted, Created, chat
  <2>1. op[q] = "send"
    OBVIOUS
  <2>2. CASE q = r
    BY <2>1, <2>2, <1>2, <1>3
  <2>3. CASE q # r
    BY <2>1, <2>3, <1>3 DEF PostInv, CompletedWasPosted, Created
  <2>4. QED
    BY <2>2, <2>3
<1>11. QED
  BY <1>7, <1>8, <1>9, <1>10

LEMMA PostProcessNext ==
    ASSUME PostInv, NEW c \in Claimers, ProcessNext(c)
    PROVE  (OneHand /\ OpFitsKey /\ AnswerIsTrue /\ CompletedWasPosted)'
<1>t. TypeOK /\ (at[c] # "idle" => job[c] \in Rows)
  BY JobIsRow DEF PostInv
<1>1. CASE Claim(c)
  BY <1>1, PostClaim
<1>2. CASE StartCall(c) \/ Answer(c)
  BY <1>2, PostCall
<1>3. CASE SkipStale(c)
  <2>1. job[c] \in Rows /\ IsLive(job[c])
    BY <1>3, <1>t DEF SkipStale, Stale
  <2>2. op[job[c]] = "send" => key[job[c]] \in LiveKeys
    BY <2>1 DEF PostInv, OpFitsKey, IsLive
  <2>3. Settles(c, "completed")
    BY <1>3 DEF SkipStale, process, Settles, OpsPromoted
  <2>4. QED
    BY <2>2, <2>3, PostSettle
<1>4. CASE Complete(c)
  <2>1. OpsPromoted
    <3>1. op' = [q \in Rows |-> IF q \in Promoted(job[c], got[c]) THEN "edit" ELSE op[q]]
      BY <1>4 DEF Complete
    <3>2. \A q \in Promoted(job[c], got[c]) : status[q] = "queued" /\ op[q] = "send"
      BY DEF Promoted
    <3>3. QED
      BY <3>1, <3>2 DEF OpsPromoted
  <2>2. Settles(c, "completed")
    BY <1>4, <2>1 DEF Complete, Return, process, Settles
  <2>3. op[job[c]] = "send" => Created(job[c])
    BY <1>4 DEF PostInv, AnswerIsTrue, Complete
  <2>4. QED
    BY <2>2, <2>3, PostSettle
<1>5. CASE CompleteNoop(c)
  <2>1. Settles(c, "completed")
    BY <1>5 DEF CompleteNoop, Return, process, Settles, OpsPromoted
  <2>2. op[job[c]] # "send"
    BY <1>5 DEF PostInv, AnswerIsTrue, CompleteNoop
  <2>3. QED
    BY <2>1, <2>2, PostSettle
<1>6. CASE Requeue(c)
  <2>1. Settles(c, "queued")
    BY <1>6 DEF Requeue, Return, process, Settles, OpsPromoted
  <2>2. QED
    BY <2>1, PostSettle
<1>7. CASE Fail(c)
  <2>1. Settles(c, "failed")
    BY <1>7 DEF Fail, Return, process, Settles, OpsPromoted
  <2>2. QED
    BY <2>1, PostSettle
<1>8. QED
  BY <1>1, <1>2, <1>3, <1>4, <1>5, <1>6, <1>7 DEF ProcessNext, Commit

(* A thread loses its row to a database error, or both to the end of the   *)
(* process.                                                                *)
Drops ==
    \A c \in Claimers : \/ job'[c] = 0 /\ at'[c] = "idle"
                        \/ job'[c] = job[c] /\ at'[c] = at[c] /\ phase' = phase

LEMMA PostDrops ==
    ASSUME PostInv, UNCHANGED <<table, chat>>, Drops
    PROVE  (OneHand /\ OpFitsKey /\ AnswerIsTrue /\ CompletedWasPosted)'
<1> USE DEF Drops
<1>1. OneHand'
  <2>1. \A c \in Claimers : job'[c] # 0 => job'[c] = job[c] /\ phase' = phase
    OBVIOUS
  <2>2. \A c \in Claimers : job'[c] # 0 => status'[job'[c]] = "claimed"
    BY <2>1 DEF PostInv, OneHand, table
  <2>3. \A c, d \in Claimers : job'[c] = job'[d] /\ job'[c] # 0 => c = d
    BY <2>1 DEF PostInv, OneHand
  <2>4. phase' = "down" => \A c \in Claimers : job'[c] = 0
    BY <2>1 DEF PostInv, OneHand
  <2>5. QED
    BY <2>2, <2>3, <2>4 DEF PostInv, OneHand, table
<1>2. OpFitsKey'
  BY DEF PostInv, OpFitsKey, table
<1>3. AnswerIsTrue'
  <2> SUFFICES ASSUME NEW c \in Claimers, at'[c] \in {"ok", "noop"}
               PROVE  /\ at'[c] = "ok" /\ op'[job'[c]] = "send" => Created(job'[c])
                      /\ at'[c] = "noop" => op'[job'[c]] # "send"
    BY DEF AnswerIsTrue, Created, chat
  <2>1. job'[c] = job[c] /\ at'[c] = at[c]
    OBVIOUS
  <2>2. QED
    BY <2>1 DEF PostInv, AnswerIsTrue, table
<1>4. CompletedWasPosted'
  BY DEF PostInv, CompletedWasPosted, table, chat
<1>5. QED
  BY <1>1, <1>2, <1>3, <1>4

LEMMA PostEnvironment ==
    ASSUME PostInv, DatabaseError \/ Tick \/ BeginStop \/ FinishStop \/ Crash \/ Start
    PROVE  (OneHand /\ OpFitsKey /\ AnswerIsTrue /\ CompletedWasPosted)'
<1>1. CASE DatabaseError
  <2>1. UNCHANGED <<table, chat, phase>>
    BY <1>1 DEF DatabaseError, process
  <2>2. /\ at' = [at EXCEPT !["worker"] = "idle"]
        /\ job' = [job EXCEPT !["worker"] = 0]
    BY <1>1 DEF DatabaseError, Return
  <2>3. Drops
    BY <2>1, <2>2 DEF PostInv, TypeOK, ClaimsOK, Drops
  <2>4. QED
    BY <2>1, <2>3, PostDrops
<1>2. CASE Tick \/ BeginStop
  <2>1. UNCHANGED <<last, op, key, chat, claims, status>>
    BY <1>2 DEF Tick, BeginStop, table
  <2>2. phase' = phase \/ phase' = "stopping"
    BY <1>2 DEF Tick, BeginStop, process
  <2>3. QED
    BY <2>1, <2>2, QuietPosts
<1>3. CASE FinishStop \/ Crash
  <2>1. ProcessEnds
    BY <1>3 DEF FinishStop, Crash
  <2>2. Drops
    BY <2>1 DEF ProcessEnds, Drops
  <2>3. UNCHANGED <<table, chat>>
    BY <2>1 DEF ProcessEnds
  <2>4. QED
    BY <2>2, <2>3, PostDrops
<1>4. CASE Start
  <2>1. UNCHANGED <<last, op, key, chat, claims>> /\ phase = "down"
    BY <1>4 DEF Start
  <2>2. \A r \in Rows : status'[r] = status[r] \/ (status[r] = "claimed" /\ status'[r] = "queued")
    <3>1. PICK alive : status' = [r \in Rows |-> IF r \in Orphaned(alive) THEN "queued" ELSE status[r]]
      BY <1>4 DEF Start
    <3>2. \A r \in Orphaned(alive) : status[r] = "claimed"
      BY DEF Orphaned
    <3>3. QED
      BY <3>1, <3>2
  <2>3. OneHand'
    BY <2>1, <2>2 DEF PostInv, OneHand, claims
  <2>4. OpFitsKey' /\ AnswerIsTrue'
    BY <2>1 DEF PostInv, OpFitsKey, AnswerIsTrue, Created, chat, claims
  <2>5. CompletedWasPosted'
    BY <2>1, <2>2 DEF PostInv, CompletedWasPosted, chat
  <2>6. QED
    BY <2>3, <2>4, <2>5
<1>5. QED
  BY <1>1, <1>2, <1>3, <1>4

LEMMA PostInit == Init => PostInv
<1> SUFFICES ASSUME Init PROVE PostInv
  OBVIOUS
<1>1. OneHand /\ OpFitsKey
  BY QueueAssumption DEF Init, OneHand, OpFitsKey, Rows, Keys
<1>2. AnswerIsTrue /\ CompletedWasPosted
  BY DEF Init, AnswerIsTrue, CompletedWasPosted
<1>3. QED
  BY <1>1, <1>2, TypeInit DEF PostInv

LEMMA PostStep == PostInv /\ [Next]_vars => PostInv'
<1> SUFFICES ASSUME PostInv, [Next]_vars PROVE PostInv'
  OBVIOUS
<1>1. CASE UNCHANGED vars
  <2>1. UNCHANGED <<last, op, key, chat, claims, status, phase>>
    BY <1>1 DEF vars, table, process
  <2>2. QED
    BY <2>1, TypeStep, QuietPosts DEF PostInv
<1>2. CASE Next
  <2>1. (OneHand /\ OpFitsKey /\ AnswerIsTrue /\ CompletedWasPosted)'
    BY <1>2, PostProduce, PostProcessNext, PostEnvironment DEF Next
  <2>2. QED
    BY <2>1, <1>2, TypeStep DEF PostInv
<1>3. QED
  BY <1>1, <1>2

(* The invariant holds for every budget of faults, with a drain by the     *)
(* main thread next to the worker, database errors and reused pids.        *)
THEOREM ClaimsAndPosts == Spec => []PostInv
<1>1. QED
  BY PostInit, PostStep, PTL DEF Spec

(* Two threads never execute the same row. *)
THEOREM RowClaimedOnce == Spec => []ClaimedOnce
<1>1. PostInv => ClaimedOnce
  <2> SUFFICES ASSUME PostInv, NEW r \in Rows
               PROVE  Cardinality({c \in Claimers : job[c] = r}) <= 1
    BY DEF ClaimedOnce
  <2> DEFINE S == {c \in Claimers : job[c] = r}
  <2>1. r # 0
    BY QueueAssumption DEF Rows
  <2>2. \A c, d \in S : c = d
    BY <2>1 DEF PostInv, OneHand
  <2>3. CASE S = {}
    BY <2>3, FS_EmptySet
  <2>4. CASE S # {}
    <3>1. PICK c \in S : TRUE
      BY <2>4
    <3>2. S = {c}
      BY <2>2, <3>1
    <3>3. QED
      BY <3>2, FS_Singleton
  <2>5. QED
    BY <2>3, <2>4
<1>2. QED
  BY <1>1, ClaimsAndPosts, PTL

(* A row of an answer that ends as completed has created its message. *)
THEOREM CompletedIsPosted == Spec => []CompletedWasPosted
<1>1. PostInv => CompletedWasPosted
  BY DEF PostInv
<1>2. QED
  BY <1>1, ClaimsAndPosts, PTL

-----------------------------------------------------------------------------
(* Duplicates: the invariant behind DuplicatesExplained, while no fault    *)
(* separates a call from its transaction and nobody drains the queue.      *)

Unharmed == ~Faults({"crash", "stop", "db"})

SoleWorker ==
    /\ phase = "up"
    /\ at["main"] = "idle"
    /\ \A r \in Rows : status[r] = "claimed" => job["worker"] = r

(* A row posts once, and is then over or about to be.                      *)
PostsOnce ==
    /\ \A m \in 1..posted : author[m] \in 1..last
    /\ \A m, n \in 1..posted : author[m] = author[n] => m = n
    /\ \A r \in Rows : Created(r) =>
         /\ op[r] = "send"
         /\ \/ status[r] \in {"completed", "failed"}
            \/ job["worker"] = r /\ at["worker"] \in {"ok", "failed"}

(* The message of a send that has completed is found by every lookup.      *)
SendIsKnown ==
    /\ \A r \in Rows : status[r] = "completed" /\ key[r] \in TextKeys /\ Created(r) => known[key[r]] # 0
    /\ at["worker"] = "ok" /\ op[job["worker"]] = "send" => got["worker"] # 0
    /\ \A r \in Rows : op[r] = "edit" => target[r] # 0

(* A posted row that neither failed nor was looked up too early.           *)
Proper(r) == Created(r) /\ r \notin blind /\ status[r] # "failed"

(* A key has one such row, and no other send of the key may follow it,     *)
(* once it has completed.                                                  *)
OneProper ==
    \A r, q \in Rows :
        Proper(r) /\ key[r] \in TextKeys /\ key[q] = key[r] /\ q # r /\ q \notin blind =>
            /\ ~Proper(q)
            /\ Pending(q) /\ op[q] = "send" => job["worker"] = r

Single == SoleWorker /\ PostsOnce /\ SendIsKnown /\ OneProper

(* No more faults are left than there were. *)
WithinBudget == \A kind \in FaultKinds : left[kind] <= FaultBudget[kind]

DuplicateInv == PostInv /\ WithinBudget /\ (Unharmed => Single)

(* What the worker knows of its row before it is answered. *)
LEMMA WorkerJob ==
    ASSUME PostInv, Single, at["worker"] # "idle"
    PROVE  /\ job["worker"] \in Rows /\ job["worker"] \in 1..last
           /\ status[job["worker"]] = "claimed"
           /\ at["worker"] \notin {"ok", "failed"} => ~Created(job["worker"])
<1>1. job["worker"] \in Rows /\ job["worker"] # 0
  BY JobIsRow, QueueAssumption DEF PostInv, Claimers, Rows
<1>2. status[job["worker"]] = "claimed"
  BY <1>1 DEF PostInv, OneHand, Claimers
<1>3. job["worker"] \in 1..last
  BY <1>1, <1>2, QueueAssumption DEF PostInv, OneHand, TypeOK, TableOK, Rows
<1>4. QED
  BY <1>1, <1>2, <1>3 DEF Single, PostsOnce

(* Steps that touch no row that is claimed or over, nor the chat.          *)
LEMMA QuietSingle ==
    ASSUME PostInv, Single,
           UNCHANGED <<last, op, key, target, known, posted, author, blind, phase, at, job, got>>,
           \A r \in Rows : status'[r] \in {status[r], "deleted"}
                           /\ (status[r] # "queued" => status'[r] = status[r])
    PROVE  Single'
<1>1. \A r \in Rows : /\ Created(r)' = Created(r)
                      /\ Proper(r)' => Proper(r)
                      /\ Pending(r)' => Pending(r)
  BY DEF Created, Proper, Pending
<1>2. SoleWorker'
  BY DEF Single, SoleWorker
<1>3. PostsOnce'
  BY <1>1 DEF Single, PostsOnce
<1>4. SendIsKnown'
  BY <1>1 DEF Single, SendIsKnown
<1>5. OneProper'
  BY <1>1 DEF Single, OneProper
<1>6. QED
  BY <1>2, <1>3, <1>4, <1>5 DEF Single

(* An insert: a new send is known to be the first of its key, or blind.    *)
LEMMA EnqueueSingle ==
    ASSUME PostInv, Single, NEW o \in Ops, NEW k \in Keys \cup {NoKey}, NEW m \in 0..MaxMessages,
           Enqueue(o, k, m), blind' \in {blind, blind \cup {last'}}, o = "edit" => m # 0,
           o = "send" /\ k \in TextKeys => known[k] = 0 \/ last' \in blind'
    PROVE  Single'
<1>a. TypeOK /\ last \in Nat /\ last' = last + 1
  BY QueueAssumption DEF PostInv, TypeOK, TableOK, Enqueue
<1>1. last' \in Rows
  BY <1>a, EnqueueTypes
<1>2. UNCHANGED <<known, posted, author, phase, at, job, got>>
  BY DEF Enqueue, process, claims, chat
<1>3. \A r \in Rows : r # last' => op'[r] = op[r] /\ key'[r] = key[r] /\ target'[r] = target[r]
  BY <1>1, <1>a DEF Enqueue, TypeOK, TableOK
<1>4. op'[last'] = o /\ key'[last'] = k /\ status'[last'] = "queued" /\ target'[last'] = m
  BY <1>1, <1>a DEF Enqueue, TypeOK, TableOK
<1>5. \A r \in Rows : r # last' => status'[r] \in {status[r], "deleted"}
                                   /\ (status[r] # "queued" => status'[r] = status[r])
  BY <1>a DEF Enqueue, Replaced
<1>6. \A r \in Rows : Created(r)' = Created(r) /\ (Created(r) => r # last')
  BY <1>a, <1>2 DEF Created, Single, PostsOnce
<1>7. at["worker"] # "idle" => job["worker"] \in Rows /\ job["worker"] # last'
  BY <1>a, WorkerJob
<1>8. SoleWorker'
  BY <1>2, <1>4, <1>5 DEF Single, SoleWorker
<1>9. PostsOnce'
  <2>1. \A n \in 1..posted' : author'[n] \in 1..last'
    BY <1>a, <1>2 DEF Single, PostsOnce
  <2>2. \A r \in Rows : Created(r)' =>
           /\ op'[r] = "send"
           /\ \/ status'[r] \in {"completed", "failed"}
              \/ job'["worker"] = r /\ at'["worker"] \in {"ok", "failed"}
    BY <1>2, <1>3, <1>5, <1>6 DEF Single, PostsOnce
  <2>3. QED
    BY <1>2, <2>1, <2>2 DEF Single, PostsOnce
<1>10. SendIsKnown'
  <2>1. \A r \in Rows : status'[r] = "completed" /\ key'[r] \in TextKeys /\ Created(r)' => known'[key'[r]] # 0
    BY <1>2, <1>3, <1>4, <1>5, <1>6 DEF Single, SendIsKnown
  <2>2. at'["worker"] = "ok" /\ op'[job'["worker"]] = "send" => got'["worker"] # 0
    BY <1>2, <1>3, <1>7 DEF Single, SendIsKnown
  <2>3. \A r \in Rows : op'[r] = "edit" => target'[r] # 0
    BY <1>3, <1>4 DEF Single, SendIsKnown
  <2>4. QED
    BY <2>1, <2>2, <2>3 DEF SendIsKnown
<1>11. OneProper'
  <2> SUFFICES ASSUME NEW r \in Rows, NEW q \in Rows, Proper(r)', key'[r] \in TextKeys,
                      key'[q] = key'[r], q # r, q \notin blind'
               PROVE  /\ ~Proper(q)'
                      /\ Pending(q)' /\ op'[q] = "send" => job'["worker"] = r
    BY DEF OneProper
  <2>1. Created(r) /\ r # last' /\ r \notin blind /\ status'[r] # "failed"
    BY <1>6 DEF Proper
  <2>2. Proper(r) /\ key[r] = key'[r]
    BY <2>1, <1>3, <1>5 DEF Proper
  <2>3. CASE q = last'
    <3>1. ~Proper(q)'
      BY <2>3, <1>6 DEF Proper
    <3>2. ASSUME op'[q] = "send" PROVE job["worker"] = r
      <4>1. known[key[r]] = 0
        BY <3>2, <2>2, <2>3, <1>4
      <4>2. status[r] # "completed" /\ status[r] # "failed"
        BY <4>1, <2>1, <2>2 DEF Single, SendIsKnown, Proper
      <4>3. QED
        BY <4>2, <2>1 DEF Single, PostsOnce
    <3>3. QED
      BY <3>1, <3>2, <1>2
  <2>4. CASE q # last'
    <3>1. key[q] = key[r] /\ q \notin blind /\ op'[q] = op[q]
      BY <2>2, <2>4, <1>3
    <3>2. (Proper(q)' => Proper(q)) /\ (Pending(q)' => Pending(q))
      BY <2>4, <1>5, <1>6, <3>1 DEF Proper, Pending
    <3>3. QED
      BY <2>2, <3>1, <3>2, <1>2 DEF Single, OneProper
  <2>5. QED
    BY <2>3, <2>4
<1>12. QED
  BY <1>8, <1>9, <1>10, <1>11 DEF Single

LEMMA ProduceSingle == PostInv /\ Single /\ Produce => Single'
<1> SUFFICES ASSUME PostInv, Single, Produce PROVE Single'
  OBVIOUS
<1>t. TypeOK /\ NoKey \notin Keys /\ TextKeys \cap TypingKeys = {}
  BY QueueAssumption DEF PostInv
<1>n. NoKey \notin TextKeys /\ NoKey \in Keys \cup {NoKey}
  BY <1>t DEF Keys
<1>1. CASE (\E k \in TextKeys : Lookup(k)) \/ NewGroup \/ EndTurn \/ WaitReturns
  <2>1. UNCHANGED <<table, chat, process, claims, blind>>
    BY <1>1 DEF Lookup, NewGroup, EndTurn, WaitReturns
  <2>2. QED
    BY <2>1, QuietSingle DEF table, process, claims, chat
<1>2. CASE Submit
  <2>1. plan \in Plans
    BY <1>2, <1>t DEF Submit, TypeOK, MainOK
  <2>2. plan.key \in TextKeys /\ plan.msg \in 0..MaxMessages /\ plan.key \in Keys \cup {NoKey}
    BY <2>1 DEF Plans, Keys
  <2>3. CASE plan.msg = 0
    <3>1. Enqueue("send", plan.key, plan.msg)
      BY <1>2, <2>3 DEF Submit
    <3>2. blind' \in {blind, blind \cup {last'}} /\ (known[plan.key] = 0 \/ last' \in blind')
      BY <1>2, <2>3 DEF Submit
    <3>3. QED
      BY <3>1, <3>2, <2>2, EnqueueSingle DEF Ops
  <2>4. CASE plan.msg # 0
    <3>1. Enqueue("edit", plan.key, plan.msg) /\ blind' = blind
      BY <1>2, <2>4 DEF Submit
    <3>2. QED
      BY <3>1, <2>2, <2>4, EnqueueSingle DEF Ops
  <2>5. QED
    BY <2>3, <2>4
<1>3. CASE Reply
  <2>1. Enqueue("send", NoKey, 0) /\ blind' = blind
    BY <1>3 DEF Reply
  <2>2. QED
    BY <2>1, <1>n, ZeroInRange, EnqueueSingle DEF Ops
<1>4. ASSUME NEW k \in TypingKeys, Typing(k) PROVE Single'
  <2>1. Enqueue("typing", k, 0) /\ blind' = blind
    BY <1>4 DEF Typing, main
  <2>2. QED
    BY <2>1, ZeroInRange, EnqueueSingle DEF Ops, Keys
<1>5. ASSUME NEW m \in Messages, NEW waits \in BOOLEAN, Delete(m, waits) PROVE Single'
  <2>1. m \in 0..MaxMessages
    BY QueueAssumption DEF Messages
  <2>2. Enqueue("delete", NoKey, m) /\ blind' = blind
    BY <1>5 DEF Delete
  <2>3. QED
    BY <2>1, <2>2, <1>n, EnqueueSingle DEF Ops
<1>6. CASE CancelLive
  <2>1. UNCHANGED <<last, op, key, target, known, posted, author, blind, phase, at, job, got>>
    BY <1>6 DEF CancelLive, chat, process, claims, main
  <2>2. QED
    BY <1>6, <2>1, QuietSingle DEF CancelLive
<1>7. QED
  BY <1>1, <1>2, <1>3, <1>4, <1>5, <1>6 DEF Produce

LEMMA ClaimSingle == PostInv /\ Single /\ Claim("worker") => Single'
<1> SUFFICES ASSUME PostInv, Single, Claim("worker") PROVE Single'
  OBVIOUS
<1>t. TypeOK
  BY DEF PostInv
<1>1. PICK r \in Due : /\ status' = [status EXCEPT ![r] = "claimed"]
                       /\ job' = [job EXCEPT !["worker"] = r]
  BY DEF Claim
<1>2. r \in Rows /\ status[r] = "queued"
  BY <1>1 DEF Due
<1>3. UNCHANGED <<last, op, key, target, known, posted, author, blind, phase, got>>
      /\ at' = [at EXCEPT !["worker"] = "check"]
  BY DEF Claim, chat, process, main
<1>4. \A q \in Rows : status'[q] = IF q = r THEN "claimed" ELSE status[q]
  BY <1>t, <1>1 DEF TypeOK, TableOK
<1>5. /\ job'["worker"] = r /\ at'["worker"] = "check" /\ at'["main"] = at["main"]
  BY <1>t, <1>1, <1>3 DEF TypeOK, ClaimsOK, Claimers
<1>6. job["worker"] = 0 /\ at["worker"] = "idle"
  BY <1>t DEF Claim, TypeOK, ClaimsOK, Claimers
<1>7. \A q \in Rows : Created(q)' = Created(q) /\ job["worker"] # q
  BY <1>3, <1>6, QueueAssumption DEF Created, Rows
<1>8. \A q \in Rows : status[q] # "claimed"
  BY <1>7 DEF Single, SoleWorker
<1>9. \A q \in Rows : Created(q) => status[q] \in {"completed", "failed"} /\ q # r
  BY <1>2, <1>7 DEF Single, PostsOnce
<1>10. SoleWorker'
  BY <1>3, <1>4, <1>5, <1>8 DEF Single, SoleWorker
<1>11. PostsOnce'
  BY <1>3, <1>4, <1>7, <1>9 DEF Single, PostsOnce
<1>12. SendIsKnown'
  BY <1>3, <1>4, <1>5, <1>7 DEF Single, SendIsKnown
<1>13. OneProper'
  <2>1. \A q \in Rows : (Proper(q)' => Proper(q)) /\ (Pending(q)' => Pending(q))
    BY <1>2, <1>3, <1>4, <1>7, <1>9 DEF Proper, Pending
  <2>2. QED
    BY <1>3, <1>7, <2>1 DEF Single, OneProper
<1>14. QED
  BY <1>10, <1>11, <1>12, <1>13 DEF Single

(* The look before the call, and an answer to a call that posts nothing.   *)
LEMMA CallSingle ==
    ASSUME PostInv, Single, NEW s \in Stages \ {"idle"}, at["worker"] \in {"check", "call"},
           UNCHANGED <<last, status, op, key, target, known, posted, author, blind, phase, job>>,
           at' = [at EXCEPT !["worker"] = s], s = "ok" => op[job["worker"]] # "send"
    PROVE  Single'
<1>t. TypeOK
  BY DEF PostInv
<1>1. at'["worker"] = s /\ at'["main"] = at["main"]
  BY <1>t DEF TypeOK, ClaimsOK, Claimers
<1>2. \A q \in Rows : Created(q)' = Created(q)
  BY DEF Created
<1>3. ~Created(job["worker"])
  BY WorkerJob
<1>4. SoleWorker'
  BY <1>1 DEF Single, SoleWorker
<1>5. PostsOnce'
  BY <1>2, <1>3 DEF Single, PostsOnce
<1>6. SendIsKnown'
  BY <1>1, <1>2 DEF Single, SendIsKnown
<1>7. OneProper'
  BY <1>2 DEF Single, OneProper, Proper, Pending
<1>8. QED
  BY <1>4, <1>5, <1>6, <1>7 DEF Single

(* The call of a send: its message exists, whether its answer comes or not. *)
LEMMA SendSingle ==
    ASSUME PostInv, Single, NEW s \in {"ok", "failed"}, at["worker"] = "call",
           UNCHANGED <<last, status, op, key, target, known, blind, phase, job>>,
           op[job["worker"]] = "send", PostMessage(job["worker"]),
           at' = [at EXCEPT !["worker"] = s], s = "ok" => got'["worker"] # 0
    PROVE  Single'
<1>t. TypeOK
  BY DEF PostInv
<1>1. PICK r \in Rows : /\ r = job["worker"] /\ r \in 1..last /\ status[r] = "claimed"
                        /\ ~Created(r)
  BY WorkerJob
<1>2. at'["worker"] = s /\ at'["main"] = at["main"]
  BY <1>t DEF TypeOK, ClaimsOK, Claimers
<1>3. /\ posted \in Nat /\ posted' = posted + 1 /\ posted + 1 \in Messages
      /\ \A m \in 1..posted : author'[m] = author[m]
      /\ author'[posted + 1] = r
  BY <1>t, <1>1, QueueAssumption DEF PostMessage, TypeOK, ChatOK, Messages
<1>4. \A m \in 1..posted' : m \in 1..posted \/ m = posted + 1
  BY <1>3
<1>5. \A q \in Rows : Created(q)' <=> Created(q) \/ q = r
  BY <1>3, <1>4 DEF Created
<1>6. \A m \in 1..posted : author[m] # r
  BY <1>1 DEF Created
<1>7. SoleWorker'
  BY <1>2 DEF Single, SoleWorker
<1>8. PostsOnce'
  <2>1. \A m \in 1..posted' : author'[m] \in 1..last'
    BY <1>1, <1>3, <1>4 DEF Single, PostsOnce
  <2>2. \A m, n \in 1..posted' : author'[m] = author'[n] => m = n
    BY <1>3, <1>4, <1>6 DEF Single, PostsOnce
  <2>3. \A q \in Rows : Created(q)' =>
           /\ op'[q] = "send"
           /\ \/ status'[q] \in {"completed", "failed"}
              \/ job'["worker"] = q /\ at'["worker"] \in {"ok", "failed"}
    BY <1>1, <1>2, <1>5 DEF Single, PostsOnce
  <2>4. QED
    BY <2>1, <2>2, <2>3 DEF PostsOnce
<1>9. SendIsKnown'
  BY <1>1, <1>2, <1>5 DEF Single, SendIsKnown
<1>10. OneProper'
  <2> SUFFICES ASSUME NEW p \in Rows, NEW q \in Rows, Proper(p)', key[p] \in TextKeys,
                      key[q] = key[p], q # p, q \notin blind
               PROVE  /\ ~Proper(q)'
                      /\ Pending(q) /\ op[q] = "send" => job["worker"] = p
    BY DEF OneProper, Pending
  <2>1. \A x \in Rows : Proper(x)' => x = r \/ Proper(x)
    BY <1>5 DEF Proper
  <2>2. p \notin blind
    BY DEF Proper
  <2>3. Pending(r) /\ op[r] = "send"
    BY <1>1 DEF Pending
  <2>4. CASE p = r
    <3>1. ~Proper(q)
      BY <2>2, <2>3, <2>4, <1>1 DEF Single, OneProper
    <3>2. QED
      BY <2>1, <2>4, <3>1, <1>1
  <2>5. CASE p # r
    <3>1. Proper(p)
      BY <2>1, <2>5
    <3>2. q # r
      BY <2>3, <2>5, <3>1, <1>1 DEF Single, OneProper
    <3>3. QED
      BY <3>1, <3>2, <2>1 DEF Single, OneProper
  <2>6. QED
    BY <2>4, <2>5
<1>11. QED
  BY <1>7, <1>8, <1>9, <1>10 DEF Single

(* What the last transaction of a row does to what is known of messages.   *)
KnownGrows ==
    /\ \A k \in TextKeys : known[k] # 0 => known'[k] # 0
    /\ \A q \in Rows : op'[q] = "edit" => target'[q] # 0
    /\ UNCHANGED blind

(* A row that has posted fails, or completes, is known and leaves no send  *)
(* of its key behind.                                                      *)
LeavesNoSend(r) ==
    /\ key[r] \in TextKeys => known'[key[r]] # 0
    /\ \A q \in Rows \ {r} :
        status[q] = "queued" /\ key[q] = key[r] /\ key[r] \in TextKeys => op'[q] # "send"

LEMMA SettleSingle ==
    ASSUME PostInv, Single, NEW s \in {"queued", "completed", "failed"}, Settles("worker", s), KnownGrows,
           Created(job["worker"]) =>
               s = "failed" \/ (s = "completed" /\ LeavesNoSend(job["worker"]))
    PROVE  Single'
<1> USE DEF Settles, OpsPromoted
<1>t. TypeOK
  BY DEF PostInv
<1>1. PICK r \in Rows : r = job["worker"] /\ r # 0 /\ status[r] = "claimed"
  BY WorkerJob, QueueAssumption DEF Rows
<1>2. \A q \in Rows : status'[q] = IF q = r THEN s ELSE status[q]
  BY <1>t, <1>1 DEF TypeOK, TableOK
<1>3. /\ job'["worker"] = 0 /\ at'["worker"] = "idle" /\ at'["main"] = at["main"]
  BY <1>t DEF TypeOK, ClaimsOK, Claimers
<1>4. \A q \in Rows : Created(q)' = Created(q)
  BY DEF Created, chat
<1>5. \A q \in Rows : status[q] = "claimed" => q = r
  BY <1>1 DEF Single, SoleWorker
<1>6. \A q \in Rows : Created(q) =>
         op[q] = "send" /\ op'[q] = "send" /\ (q # r => status[q] \in {"completed", "failed"})
  BY <1>1, <1>5 DEF Single, PostsOnce
<1>7. Created(r) => s = "failed" \/ (s = "completed" /\ LeavesNoSend(r))
  BY <1>1
<1>8. SoleWorker'
  BY <1>2, <1>3, <1>5 DEF Single, SoleWorker
<1>9. PostsOnce'
  <2>1. \A q \in Rows : Created(q)' => op'[q] = "send" /\ status'[q] \in {"completed", "failed"}
    BY <1>2, <1>4, <1>6, <1>7
  <2>2. QED
    BY <2>1 DEF Single, PostsOnce, chat
<1>10. SendIsKnown'
  <2>1. ASSUME NEW q \in Rows, status'[q] = "completed", key[q] \in TextKeys, Created(q)
        PROVE  known'[key[q]] # 0
    <3>1. CASE q = r
      BY <2>1, <3>1, <1>2, <1>7 DEF LeavesNoSend
    <3>2. CASE q # r
      BY <2>1, <3>2, <1>2 DEF Single, SendIsKnown, KnownGrows
    <3>3. QED
      BY <3>1, <3>2
  <2>2. QED
    BY <2>1, <1>3, <1>4 DEF SendIsKnown, KnownGrows
<1>11. OneProper'
  <2> SUFFICES ASSUME NEW p \in Rows, NEW q \in Rows, Proper(p)', key[p] \in TextKeys,
                      key[q] = key[p], q # p, q \notin blind
               PROVE  /\ ~Proper(q)'
                      /\ ~(Pending(q)' /\ op'[q] = "send")
    BY DEF OneProper, KnownGrows
  <2>1. ASSUME NEW x \in Rows, Proper(x)' PROVE Proper(x)
    BY <2>1, <1>1, <1>2, <1>4 DEF Proper, KnownGrows
  <2>2. Proper(p) /\ Created(p)
    BY <2>1 DEF Proper
  <2>3. ~Proper(q)'
    BY <2>1, <2>2 DEF Single, OneProper
  <2>4. ASSUME Pending(q)', op'[q] = "send" PROVE FALSE
    <3>1. op[q] = "send" /\ Pending(q)
      BY <2>4, <1>1, <1>2 DEF Pending
    <3>2. p = r
      BY <2>2, <3>1, <1>1 DEF Single, OneProper
    <3>3. LeavesNoSend(r)
      <4>1. s # "failed"
        BY <2>2, <3>2, <1>2 DEF Proper
      <4>2. QED
        BY <4>1, <2>2, <3>2, <1>7
    <3>4. status[q] = "queued"
      BY <3>1, <3>2, <1>5 DEF Pending
    <3>5. QED
      BY <3>2, <3>3, <3>4, <2>4 DEF LeavesNoSend
  <2>5. QED
    BY <2>3, <2>4
<1>12. QED
  BY <1>8, <1>9, <1>10, <1>11 DEF Single

LEMMA ProcessNextSingle == PostInv /\ Single /\ ProcessNext("worker") => Single'
<1> SUFFICES ASSUME PostInv, Single, ProcessNext("worker") PROVE Single'
  OBVIOUS
<1> DEFINE r == job["worker"]
<1>t. TypeOK /\ "worker" \in Claimers /\ NoKey \notin TextKeys
  BY QueueAssumption DEF PostInv, Claimers, Keys
<1>j. at["worker"] # "idle" => r \in Rows /\ (at["worker"] \notin {"ok", "failed"} => ~Created(r))
  BY WorkerJob
<1>k. \A q \in Rows : op[q] = "edit" => target[q] # 0
  BY DEF Single, SendIsKnown
<1>f. \A q \in Rows : key[q] \in TextKeys => op[q] \in {"send", "edit"}
  BY DEF PostInv, OpFitsKey
<1>1. CASE Claim("worker")
  BY <1>1, ClaimSingle
<1>2. CASE StartCall("worker") \/ CallIsNoop("worker") \/ CallIsRejected("worker")
           \/ CallIsLimited("worker") \/ CallFails("worker")
  <2>1. UNCHANGED <<last, status, op, key, target, known, posted, author, blind, phase, job>>
    BY <1>2 DEF StartCall, CallIsNoop, CallIsRejected, CallIsLimited, CallFails, table, chat, process, main
  <2>2. at["worker"] \in {"check", "call"}
        /\ \E s \in Stages \ {"idle", "ok"} : at' = [at EXCEPT !["worker"] = s]
    BY <1>2 DEF StartCall, CallIsNoop, CallIsRejected, CallIsLimited, CallFails, Stages
  <2>3. QED
    BY <2>1, <2>2, CallSingle
<1>3. CASE CallSucceeds("worker") \/ AnswerLost("worker")
  <2>1. /\ UNCHANGED <<last, status, op, key, target, known, blind, phase, job>>
        /\ at["worker"] = "call" /\ Effect(r)
    BY <1>3 DEF CallSucceeds, AnswerLost, table, process, main
  <2>2. PICK s \in {"ok", "failed"} : at' = [at EXCEPT !["worker"] = s]
    BY <1>3 DEF CallSucceeds, AnswerLost
  <2>3. r \in Rows
    BY <2>1, <1>j
  <2>4. CASE op[r] = "send"
    <3>1. PostMessage(r)
      BY <2>1, <2>3, <2>4, EffectPosts
    <3>2. posted' # 0
      BY <3>1, <2>3, <1>t, QueueAssumption DEF PostMessage, TypeOK, ChatOK
    <3>3. s = "ok" => got'["worker"] # 0
      <4>1. s = "ok" => CallSucceeds("worker")
        <5>1. at'["worker"] = s
          BY <2>2, <1>t DEF TypeOK, ClaimsOK
        <5>2. AnswerLost("worker") => at'["worker"] = "failed"
          BY <1>t DEF AnswerLost, TypeOK, ClaimsOK
        <5>3. QED
          BY <1>3, <5>1, <5>2
      <4>2. CallSucceeds("worker") => got' = [got EXCEPT !["worker"] = posted']
        BY <2>4 DEF CallSucceeds
      <4>3. QED
        BY <3>2, <4>1, <4>2, <1>t DEF TypeOK, ClaimsOK
    <3>4. QED
      BY <2>1, <2>2, <2>4, <3>1, <3>3, SendSingle
  <2>5. CASE op[r] # "send"
    <3>1. UNCHANGED <<posted, author>>
      BY <2>1, <2>3, <2>5, EffectPosts
    <3>2. s \in Stages \ {"idle"} /\ at["worker"] \in {"check", "call"}
      BY <2>1, <2>2 DEF Stages
    <3>3. QED
      BY <2>1, <2>2, <2>5, <3>1, <3>2, CallSingle
  <2>6. QED
    BY <2>4, <2>5
<1>4. CASE SkipStale("worker")
  <2>1. Settles("worker", "completed")
    BY <1>4 DEF SkipStale, process, Settles, OpsPromoted
  <2>2. KnownGrows
    BY <1>4, <1>j, <1>k, <1>t DEF SkipStale, KnownGrows, main, TypeOK, TableOK, Keys
  <2>3. ~Created(r)
    BY <1>4, <1>j DEF SkipStale
  <2>4. QED
    BY <2>1, <2>2, <2>3, SettleSingle
<1>5. CASE Complete("worker")
  <2>1. OpsPromoted
    <3>1. op' = [q \in Rows |-> IF q \in Promoted(r, got["worker"]) THEN "edit" ELSE op[q]]
      BY <1>5 DEF Complete
    <3>2. \A q \in Promoted(r, got["worker"]) : status[q] = "queued" /\ op[q] = "send"
      BY DEF Promoted
    <3>3. QED
      BY <3>1, <3>2 DEF OpsPromoted
  <2>2. Settles("worker", "completed")
    BY <1>5, <2>1 DEF Complete, Return, process, Settles
  <2> DEFINE m == got["worker"]
             kept == IF m # 0 THEN m ELSE target[r]
  <2>3. /\ at["worker"] = "ok" /\ r \in Rows
        /\ op' = [q \in Rows |-> IF q \in Promoted(r, m) THEN "edit" ELSE op[q]]
        /\ target' = [q \in Rows |-> IF q = r THEN kept
                                     ELSE IF q \in Promoted(r, m) THEN m ELSE target[q]]
        /\ known' = IF key[r] # NoKey /\ kept # 0 THEN [known EXCEPT ![key[r]] = kept] ELSE known
    BY <1>5, <1>j DEF Complete
  <2>4. \A q \in Promoted(r, m) : m # 0 /\ q # r
    BY DEF Promoted
  <2>5. KnownGrows
    <3>1. \A k \in TextKeys : known[k] # 0 => known'[k] # 0
      BY <2>3, <1>t DEF TypeOK, TableOK, Keys
    <3>2. \A q \in Rows : op'[q] = "edit" => target'[q] # 0
      BY <2>3, <2>4, <1>k
    <3>3. QED
      BY <1>5, <3>1, <3>2 DEF KnownGrows, Complete, main
  <2>6. Created(r) => LeavesNoSend(r)
    <3> SUFFICES ASSUME Created(r) PROVE LeavesNoSend(r)
      OBVIOUS
    <3>1. op[r] = "send" /\ m # 0
      BY <2>3 DEF Single, PostsOnce, SendIsKnown
    <3>2. key[r] \in TextKeys => known'[key[r]] # 0
      BY <2>3, <3>1, <1>t DEF TypeOK, TableOK, Keys
    <3>3. \A q \in Rows \ {r} :
            status[q] = "queued" /\ key[q] = key[r] /\ key[r] \in TextKeys => op'[q] # "send"
      BY <2>3, <3>1, <1>t DEF Promoted
    <3>4. QED
      BY <3>2, <3>3 DEF LeavesNoSend
  <2>7. QED
    BY <2>2, <2>5, <2>6, SettleSingle
<1>6. CASE CompleteNoop("worker")
  <2>1. Settles("worker", "completed") /\ at["worker"] = "noop" /\ r \in Rows
    BY <1>6, <1>j DEF CompleteNoop, Return, process, Settles, OpsPromoted
  <2>2. key[r] \in TextKeys => target[r] # 0
    BY <2>1, <1>k, <1>f, <1>t DEF PostInv, AnswerIsTrue
  <2>3. KnownGrows
    BY <1>6, <2>1, <2>2, <1>k, <1>t DEF CompleteNoop, KnownGrows, main, TypeOK, TableOK, Keys
  <2>4. ~Created(r)
    BY <2>1, <1>j
  <2>5. QED
    BY <2>1, <2>3, <2>4, SettleSingle
<1>7. CASE Requeue("worker")
  <2>1. Settles("worker", "queued")
    BY <1>7 DEF Requeue, Return, process, Settles, OpsPromoted
  <2>2. KnownGrows /\ ~Created(r)
    BY <1>7, <1>j, <1>k DEF Requeue, KnownGrows, main
  <2>3. QED
    BY <2>1, <2>2, SettleSingle
<1>8. CASE Fail("worker")
  <2>1. Settles("worker", "failed")
    BY <1>8 DEF Fail, Return, process, Settles, OpsPromoted
  <2>2. KnownGrows
    BY <1>8, <1>k DEF Fail, KnownGrows, main
  <2>3. QED
    BY <2>1, <2>2, SettleSingle
<1>9. QED
  BY <1>1, <1>2, <1>3, <1>4, <1>5, <1>6, <1>7, <1>8 DEF ProcessNext, Answer, Commit

LEMMA BudgetShrinks ==
    ASSUME TypeOK, WithinBudget, [Next]_vars
    PROVE  /\ WithinBudget' /\ (Unharmed' => Unharmed)
           /\ DatabaseError \/ BeginStop \/ Crash => ~Unharmed'
<1>1. left \in [FaultKinds -> Nat] /\ FaultBudget \in [FaultKinds -> Nat]
  BY QueueAssumption DEF TypeOK
<1>2. ASSUME NEW kind \in FaultKinds, Spend(kind)
      PROVE  /\ left'[kind] < FaultBudget[kind]
             /\ \A k \in FaultKinds : left'[k] <= left[k]
  BY <1>1, <1>2 DEF Spend, WithinBudget
<1>3. UNCHANGED left \/ \E kind \in FaultKinds : Spend(kind)
  <2>1. CASE Produce
    BY <2>1 DEF Produce, Lookup, Submit, Reply, Typing, Delete, CancelLive, NewGroup, EndTurn,
                WaitReturns, Enqueue
  <2>2. ASSUME NEW c \in Claimers, ProcessNext(c)
        PROVE  UNCHANGED left \/ \E kind \in FaultKinds : Spend(kind)
    <3>1. CASE Claim(c) \/ SkipStale(c) \/ StartCall(c) \/ Commit(c)
      BY <3>1 DEF Claim, SkipStale, StartCall, Commit, Complete, CompleteNoop, Requeue, Fail
    <3>2. CASE Answer(c)
      BY <3>2 DEF Answer, CallSucceeds, CallIsNoop, CallIsRejected, CallIsLimited, CallFails,
                  AnswerLost, FaultKinds
    <3>3. QED
      BY <2>2, <3>1, <3>2 DEF ProcessNext
  <2>3. CASE DatabaseError \/ Tick \/ BeginStop \/ FinishStop \/ Crash \/ Start
    BY <2>3 DEF DatabaseError, Tick, BeginStop, FinishStop, Crash, Start, FaultKinds
  <2>4. CASE UNCHANGED vars
    BY <2>4 DEF vars
  <2>5. QED
    BY <2>1, <2>2, <2>3, <2>4 DEF Next
<1>4. \A k \in FaultKinds : left'[k] <= left[k] /\ left'[k] \in Nat
  <2>1. \A k \in FaultKinds : left'[k] <= left[k]
    BY <1>1, <1>2, <1>3
  <2>2. left' \in [FaultKinds -> Nat]
    BY TypeStep DEF TypeOK
  <2>3. QED
    BY <2>1, <2>2
<1>5. WithinBudget'
  BY <1>1, <1>4 DEF WithinBudget
<1>6. Unharmed' => Unharmed
  BY <1>1, <1>4 DEF Unharmed, Faults, FaultKinds
<1>7. DatabaseError \/ BeginStop \/ Crash => ~Unharmed'
  <2>1. DatabaseError \/ BeginStop \/ Crash => \E kind \in {"crash", "stop", "db"} : Spend(kind)
    BY DEF DatabaseError, BeginStop, Crash
  <2>2. QED
    BY <2>1, <1>2 DEF Unharmed, Faults, FaultKinds
<1>8. QED
  BY <1>5, <1>6, <1>7

LEMMA DuplicateStep == DuplicateInv /\ [Next]_vars => DuplicateInv'
<1> SUFFICES ASSUME DuplicateInv, [Next]_vars PROVE DuplicateInv'
  OBVIOUS
<1>1. PostInv' /\ PostInv /\ TypeOK
  BY PostStep DEF DuplicateInv, PostInv
<1>2. /\ WithinBudget' /\ (Unharmed' => Unharmed)
      /\ DatabaseError \/ BeginStop \/ Crash => ~Unharmed'
  BY <1>1, BudgetShrinks DEF DuplicateInv
<1>3. ASSUME Unharmed' PROVE Single'
  <2>1. Single /\ phase = "up" /\ at["main"] = "idle"
    BY <1>2, <1>3 DEF DuplicateInv, Single, SoleWorker
  <2>2. CASE Produce
    BY <2>1, <2>2, <1>1, ProduceSingle
  <2>3. CASE ProcessNext("worker")
    BY <2>1, <2>3, <1>1, ProcessNextSingle
  <2>4. ~ProcessNext("main")
    BY <2>1 DEF ProcessNext, Claim, MayClaim, SkipStale, StartCall, Answer, CallSucceeds, CallIsNoop,
                CallIsRejected, CallIsLimited, CallFails, AnswerLost, Commit, Complete,
                CompleteNoop, Requeue, Fail
  <2>5. CASE Tick \/ UNCHANGED vars
    <3>1. UNCHANGED <<last, status, op, key, target, known, posted, author, blind, phase, at, job, got>>
      BY <2>5 DEF Tick, vars, table, chat, process, claims, main
    <3>2. QED
      BY <2>1, <3>1, <1>1, QuietSingle
  <2>6. ~(DatabaseError \/ BeginStop \/ FinishStop \/ Crash \/ Start)
    BY <1>2, <1>3, <2>1 DEF FinishStop, Start
  <2>7. QED
    BY <2>2, <2>3, <2>4, <2>5, <2>6 DEF Next, Claimers
<1>4. QED
  BY <1>1, <1>2, <1>3 DEF DuplicateInv

LEMMA DuplicateInit == Init => DuplicateInv
<1> SUFFICES ASSUME Init PROVE DuplicateInv
  OBVIOUS
<1>1. PostInv /\ WithinBudget
  BY PostInit, QueueAssumption DEF Init, WithinBudget
<1>2. \A r \in Rows : ~Created(r)
  BY DEF Init, Created
<1>3. Single
  <2>1. SoleWorker /\ SendIsKnown
    BY <1>2, QueueAssumption DEF Init, SoleWorker, SendIsKnown, Claimers
  <2>2. PostsOnce
    BY <1>2 DEF Init, PostsOnce
  <2>3. OneProper
    BY <1>2 DEF OneProper, Proper
  <2>4. QED
    BY <2>1, <2>2, <2>3 DEF Single
<1>4. QED
  BY <1>1, <1>3 DEF DuplicateInv

(* The messages of a key have authors of their own: proper ones, of which  *)
(* there is one, or rows that failed or were blind.                        *)
LEMMA CountDuplicates == DuplicateInv => DuplicatesExplained
<1> SUFFICES ASSUME DuplicateInv, Unharmed, NEW k \in TextKeys
             PROVE  Cardinality({m \in 1..posted : key[author[m]] = k})
                      <= 1 + Cardinality({r \in RowsOf(k) : r \in blind \/ status[r] = "failed"})
  BY DEF DuplicatesExplained, Unharmed
<1> DEFINE A == {m \in 1..posted : key[author[m]] = k}
           S == {r \in RowsOf(k) : r \in blind \/ status[r] = "failed"}
           P == {r \in RowsOf(k) : Proper(r)}
           f == [m \in A |-> author[m]]
<1>1. PostsOnce /\ OneProper /\ last \in 0..MaxRows
  BY DEF DuplicateInv, Single, PostInv, TypeOK, TableOK
<1>2. IsFiniteSet(Rows) /\ S \subseteq Rows /\ P \subseteq Rows
  BY FS_Interval, QueueAssumption DEF Rows, RowsOf
<1>3. IsFiniteSet(S) /\ IsFiniteSet(P)
  BY <1>2, FS_Subset
<1>4. \A m \in A : author[m] \in P \cup S
  <2> SUFFICES ASSUME NEW m \in A PROVE author[m] \in P \cup S
    OBVIOUS
  <2>1. author[m] \in 1..last
    BY <1>1 DEF PostsOnce
  <2>2. author[m] \in RowsOf(k)
    BY <1>1, <2>1, QueueAssumption DEF RowsOf, Rows
  <2>3. Created(author[m])
    BY DEF Created
  <2>4. QED
    BY <2>2, <2>3 DEF Proper
<1>5. f \in Injection(A, P \cup S)
  <2>1. f \in [A -> P \cup S]
    BY <1>4
  <2>2. \A m, n \in A : f[m] = f[n] => m = n
    BY <1>1 DEF PostsOnce
  <2>3. QED
    BY <2>1, <2>2 DEF Injection, IsInjective
<1>6. IsFiniteSet(P \cup S) /\ IsFiniteSet(P \cap S)
      /\ Cardinality(P \cup S) = Cardinality(P) + Cardinality(S) - Cardinality(P \cap S)
  <2>1. P \cap S \in SUBSET P
    OBVIOUS
  <2>2. QED
    BY <1>3, <2>1, FS_Union, FS_Subset
<1>7. Cardinality(A) <= Cardinality(P \cup S) /\ IsFiniteSet(A)
  BY <1>5, <1>6, FS_Injection
<1>8. Cardinality(P) <= 1
  <2>1. \A r, q \in P : r = q
    BY <1>1 DEF OneProper, Proper, RowsOf
  <2>2. CASE P = {}
    BY <2>2, FS_EmptySet
  <2>3. CASE P # {}
    <3>1. PICK r \in P : P = {r}
      BY <2>1, <2>3
    <3>2. QED
      BY <3>1, FS_Singleton
  <2>4. QED
    BY <2>2, <2>3
<1>9. /\ Cardinality(A) \in Nat /\ Cardinality(P) \in Nat /\ Cardinality(S) \in Nat
      /\ Cardinality(P \cap S) \in Nat /\ Cardinality(P \cup S) \in Nat
  BY <1>3, <1>6, <1>7, FS_CardinalityType
<1> HIDE DEF A, S, P, f
<1>10. Cardinality(A) <= 1 + Cardinality(S)
  BY <1>6, <1>7, <1>8, <1>9
<1>11. QED
  BY <1>10 DEF A, S

(* Until a fault of the process or of a transaction, a second message for  *)
(* one chunk has an early lookup or a failed send to explain it.           *)
THEOREM DuplicatesHaveCauses == Spec => []DuplicatesExplained
<1>1. QED
  BY DuplicateInit, DuplicateStep, CountDuplicates, PTL DEF Spec
=============================================================================
