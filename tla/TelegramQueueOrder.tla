------------------------- MODULE TelegramQueueOrder -------------------------
(***************************************************************************)
(* Why the outbound queue keeps its order: QueueInv is inductive for a     *)
(* service with one claimer whose transactions succeed, whatever the       *)
(* number of rows, messages, rate limits, failures and crashes and         *)
(* whatever the delays.                                                    *)
(***************************************************************************)
EXTENDS TelegramQueueProofs

-----------------------------------------------------------------------------
(* Facts about states.                                                     *)

LEMMA Columns ==
    ASSUME TypeOK
    PROVE  /\ last \in Nat /\ pause \in Nat
           /\ status \in [Rows -> Statuses]
           /\ op \in [Rows -> Ops]
           /\ wait \in [Rows -> Nat]
           /\ owner \in [Rows -> {0} \cup Runs]
           /\ shown \in [Messages -> 0..MaxRows]
           /\ job \in [Claimers -> 0..MaxRows]
           /\ at \in [Claimers -> Stages]
           /\ "worker" \in Claimers /\ "main" \in Claimers
           /\ \A c \in Claimers : at[c] = "idle" <=> job[c] = 0
  BY QueueAssumption DEF TypeOK, TableOK, RateOK, ChatOK, ClaimsOK, Claimers

LEMMA PriorityIsNat == \A r : Priority(r) \in {10, 100}
  BY DEF Priority

(* The row a claimer works on is claimed: in flight, unheld, and the       *)
(* service is up.                                                          *)
LEMMA WorkerRow ==
    ASSUME QueueInv, NEW c \in Claimers, at[c] # "idle"
    PROVE  /\ c = "worker" /\ job[c] \in Rows
           /\ phase = "up" /\ status[job[c]] = "claimed"
           /\ wait[job[c]] = 0 /\ pause = 0
<1>1. c = "worker"
  BY DEF QueueInv, OnlyWorker, Claimers
<1>2. job[c] \in Rows
  BY JobIsRow DEF QueueInv
<1>3. job[c] # 0
  BY <1>2 DEF Rows
<1>4. phase = "up" /\ status[job[c]] = "claimed"
  BY <1>1, <1>3 DEF QueueInv, OneClaim
<1>5. QED
  BY <1>1, <1>2, <1>4 DEF QueueInv, Schedule

(* Nothing is claimed while the worker of a running service is idle.       *)
LEMMA IdleWorker ==
    ASSUME QueueInv, phase = "up", job["worker"] = 0
    PROVE  \A r \in Rows : status[r] # "claimed"
  BY DEF QueueInv, OneClaim, Rows

-----------------------------------------------------------------------------
(* Steps that leave the rows, the pause and the texts alone.               *)

LEMMA QuietStep ==
    ASSUME QueueInv, TypeOK',
           UNCHANGED <<last, status, op, wait, owner, pause, shown, job, phase, run>>,
           at'["main"] = "idle", left'["stop"] = 0, left'["db"] = 0
    PROVE  QueueInv'
<1>1. OnlyWorker' /\ RowShape' /\ OneClaim'
  BY DEF QueueInv, OnlyWorker, RowShape, OneClaim
<1>2. Schedule'
  BY DEF QueueInv, Schedule, Pending
<1>3. ExecutedInOrder'
  BY DEF QueueInv, ExecutedInOrder, Pending, Priority
<1>4. ShownIsNewest'
  BY DEF QueueInv, ShownIsNewest, Pending
<1>5. QED
  BY <1>1, <1>2, <1>3, <1>4 DEF QueueInv

(* Steps that only delete queued rows. *)
LEMMA FewerPendingInv ==
    ASSUME QueueInv, TypeOK',
           UNCHANGED <<last, op, wait, owner, pause, shown, job, at, phase, run, left>>,
           \A r \in Rows : status'[r] = status[r] \/ (status[r] = "queued" /\ status'[r] = "deleted")
    PROVE  QueueInv'
<1>1. \A r \in Rows : Pending(r)' => Pending(r)
  BY DEF Pending
<1>2. \A r \in Rows : status'[r] = "claimed" <=> status[r] = "claimed"
  OBVIOUS
<1>3. OnlyWorker' /\ RowShape'
  BY DEF QueueInv, OnlyWorker, RowShape
<1>4. OneClaim'
  <2>1. job'["worker"] # 0 => phase' = "up" /\ status'[job'["worker"]] = "claimed"
    <3>1. job["worker"] # 0 => job["worker"] \in Rows
      BY Columns DEF QueueInv, Rows
    <3>2. QED
      BY <3>1, <1>2 DEF QueueInv, OneClaim
  <2>2. QED
    BY <2>1, <1>2 DEF QueueInv, OneClaim
<1>5. Schedule'
  BY <1>1, <1>2 DEF QueueInv, Schedule
<1>6. ExecutedInOrder'
  <2>1. SUFFICES ASSUME NEW a \in Rows, NEW b \in Rows, a < b, Priority(a) <= Priority(b),
                        Pending(a), status'[b] \in {"claimed", "completed", "failed"}
                 PROVE  FALSE
    BY <1>1 DEF ExecutedInOrder, Priority
  <2>2. QED
    BY <2>1 DEF QueueInv, ExecutedInOrder
<1>7. ShownIsNewest'
  BY <1>1 DEF QueueInv, ShownIsNewest
<1>8. QED
  BY <1>3, <1>4, <1>5, <1>6, <1>7 DEF QueueInv

-----------------------------------------------------------------------------
(* The producer.                                                           *)

(* An insert goes behind every pending row. *)
LEMMA EnqueueInv ==
    ASSUME QueueInv, TypeOK', NEW o \in Ops, NEW k, NEW m, Enqueue(o, k, m)
    PROVE  QueueInv'
<1> DEFINE r == last + 1
<1>1. /\ r \in Rows /\ last' = r /\ status[r] = "absent"
      /\ status' = [q \in Rows |-> IF q = r THEN "queued"
                                   ELSE IF q \in Replaced(k) THEN "deleted" ELSE status[q]]
      /\ op' = [op EXCEPT ![r] = o]
      /\ wait' = [wait EXCEPT ![r] = AvailableAt]
  BY Columns, QueueAssumption DEF Enqueue, QueueInv, RowShape, Rows
<1>2. UNCHANGED <<owner, pause, shown, job, at, phase, run, left>>
  BY DEF Enqueue, rate, chat, process, claims
<1>3. \A q \in Rows : q > last => status[q] = "absent"
  BY DEF QueueInv, RowShape
<1>4. status'[r] = "queued" /\ wait'[r] = AvailableAt
  BY <1>1, Columns DEF QueueInv
<1>5. \A q \in Rows \ {r} :
        /\ status'[q] = status[q] \/ (status[q] = "queued" /\ status'[q] = "deleted")
        /\ op'[q] = op[q] /\ wait'[q] = wait[q]
  BY <1>1, Columns DEF QueueInv, Replaced
<1>6. last \in Nat /\ pause \in Nat /\ pause' = pause
  BY <1>2, Columns DEF QueueInv
<1> HIDE DEF r
<1>7. r > last
  BY <1>6 DEF r
<1>8. OnlyWorker' /\ RowShape'
  <2>1. OnlyWorker'
    BY <1>2 DEF QueueInv, OnlyWorker
  <2>2. \A q \in Rows : status'[q] = "absent" <=> q > last'
    BY <1>1, <1>4, <1>5, <1>6 DEF QueueInv, RowShape, Rows, r
  <2>3. QED
    BY <2>1, <2>2 DEF RowShape
<1>9. OneClaim'
  <2>1. \A q \in Rows : status'[q] = "claimed" <=> status[q] = "claimed"
    BY <1>1, <1>4, <1>5
  <2>2. job'["worker"] # 0 => phase' = "up" /\ status'[job'["worker"]] = "claimed"
    BY <1>2, <2>1, Columns, <1>5, <1>1 DEF QueueInv, OneClaim, Rows
  <2>3. QED
    BY <1>2, <2>1, <2>2 DEF QueueInv, OneClaim
<1>10. Schedule'
  <2>1. pause <= AvailableAt /\ AvailableAt = Later(Throttle, pause)
    BY <1>6, QueueAssumption DEF AvailableAt, Later
  <2>2. \A q \in Rows : status'[q] = "queued" => pause' <= wait'[q] /\ wait'[q] <= Later(Throttle, pause')
    BY <1>4, <1>5, <1>6, <2>1, QueueAssumption DEF QueueInv, Schedule, Later
  <2>3. \A q \in Rows : status'[q] = "claimed" => wait'[q] = 0 /\ pause' = 0
    BY <1>4, <1>5, <1>6 DEF QueueInv, Schedule
  <2>4. ASSUME NEW a \in Rows, NEW b \in Rows, a < b, Pending(a)', Pending(b)'
        PROVE  wait'[a] <= wait'[b]
    <3>1. a # r
      <4>1. SUFFICES ASSUME a = r PROVE FALSE
        OBVIOUS
      <4>2. b > last /\ b # r
        BY <4>1, <2>4, <1>6, <1>7 DEF Rows
      <4>3. QED
        BY <4>2, <1>3, <1>5, <2>4 DEF Pending
    <3>2. Pending(a) /\ wait'[a] = wait[a]
      BY <3>1, <1>5, <2>4 DEF Pending
    <3>3. CASE b = r
      <4>1. wait[a] <= Later(Throttle, pause)
        BY <3>2, <1>6, QueueAssumption DEF QueueInv, Schedule, Pending, Later
      <4>2. QED
        BY <4>1, <3>2, <3>3, <1>4, <2>1
    <3>4. CASE b # r
      BY <3>2, <3>4, <1>5, <2>4 DEF QueueInv, Schedule, Pending
    <3>5. QED
      BY <3>3, <3>4
  <2>5. QED
    BY <2>2, <2>3, <2>4 DEF Schedule
<1>11. ExecutedInOrder'
  <2>1. SUFFICES ASSUME NEW a \in Rows, NEW b \in Rows, a < b, Priority(a)' <= Priority(b)',
                        Pending(a)', status'[b] \in {"claimed", "completed", "failed"}
                 PROVE  FALSE
    BY DEF ExecutedInOrder
  <2>2. b # r /\ status[b] = status'[b]
    BY <2>1, <1>4, <1>5
  <2>3. b <= last
    BY <2>1, <2>2, <1>3, <1>6 DEF Rows
  <2>4. a # r
    BY <2>1, <2>3, <1>6, <1>7 DEF Rows
  <2>5. Pending(a) /\ Priority(a) <= Priority(b)
    BY <2>1, <2>2, <2>4, <1>5 DEF Pending, Priority
  <2>6. QED
    BY <2>1, <2>2, <2>5 DEF QueueInv, ExecutedInOrder
<1>12. ShownIsNewest'
  <2>1. ASSUME NEW n \in Messages PROVE shown'[n] \in 0..last'
    BY <1>1, <1>2, <1>6 DEF QueueInv, ShownIsNewest, r
  <2>2. ASSUME NEW n \in Messages, NEW q \in Rows, q < shown'[n], op'[q] # "typing", Pending(q)'
        PROVE  FALSE
    <3>1. shown'[n] = shown[n] /\ shown[n] \in 0..last
      BY <1>2 DEF QueueInv, ShownIsNewest
    <3>2. q # r
      BY <3>1, <2>2, <1>6, <1>7 DEF Rows
    <3>3. Pending(q) /\ op[q] # "typing"
      BY <3>2, <2>2, <1>5 DEF Pending
    <3>4. QED
      BY <3>1, <3>3, <2>2 DEF QueueInv, ShownIsNewest
  <2>3. QED
    BY <2>1, <2>2 DEF ShownIsNewest
<1>13. QED
  BY <1>8, <1>9, <1>10, <1>11, <1>12 DEF QueueInv

(* The steps of the main thread.                                           *)
LEMMA ProduceInv ==
    ASSUME QueueInv, TypeOK', Produce
    PROVE  QueueInv'
<1>1. ASSUME NEW k \in TextKeys, Lookup(k) PROVE QueueInv'
  BY <1>1, QuietStep DEF Lookup, table, rate, chat, process, claims, QueueInv, OnlyWorker
<1>2. CASE Submit
  BY <1>2, EnqueueInv DEF Submit, Ops
<1>3. CASE Reply
  BY <1>3, EnqueueInv DEF Reply, Ops
<1>4. ASSUME NEW k \in TypingKeys, Typing(k) PROVE QueueInv'
  BY <1>4, EnqueueInv DEF Typing, Ops
<1>5. ASSUME NEW m \in Messages, NEW waits \in BOOLEAN, Delete(m, waits) PROVE QueueInv'
  BY <1>5, EnqueueInv DEF Delete, Ops
<1>6. CASE CancelLive
  <2>1. UNCHANGED <<last, op, wait, owner, pause, shown, job, at, phase, run, left>>
    BY <1>6 DEF CancelLive, rate, chat, process, claims
  <2>2. \A r \in Rows : status'[r] = status[r] \/ (status[r] = "queued" /\ status'[r] = "deleted")
    BY <1>6, Columns DEF CancelLive, QueueInv
  <2>3. QED
    BY <2>1, <2>2, FewerPendingInv
<1>7. CASE NewGroup \/ EndTurn \/ WaitReturns
  BY <1>7, QuietStep
     DEF NewGroup, EndTurn, WaitReturns, table, rate, chat, process, claims, QueueInv, OnlyWorker
<1>8. QED
  BY <1>1, <1>2, <1>3, <1>4, <1>5, <1>6, <1>7 DEF Produce

-----------------------------------------------------------------------------
(* process_next.                                                           *)

(* The first due row has nothing pending before it. *)
LEMMA ClaimInv ==
    ASSUME QueueInv, TypeOK', NEW c \in Claimers, Claim(c)
    PROVE  QueueInv'
<1>1. c = "worker" /\ phase = "up"
  BY DEF Claim, MayClaim, QueueInv, OnlyWorker, Claimers
<1>2. PICK r \in Due :
        /\ \A q \in Due \ {r} : Before(r, q)
        /\ status' = [status EXCEPT ![r] = "claimed"]
        /\ owner' = [owner EXCEPT ![r] = run]
        /\ job' = [job EXCEPT ![c] = r]
  BY DEF Claim
<1>3. r \in Rows /\ status[r] = "queued" /\ wait[r] = 0 /\ r # 0
  BY DEF Due, Rows
<1>4. UNCHANGED <<last, op, wait, pause, shown, phase, run, left>> /\ at' = [at EXCEPT ![c] = "check"]
  BY DEF Claim, rate, chat, process
<1>5. pause = 0
  BY <1>3, Columns, QueueAssumption DEF QueueInv, Schedule
<1>6. \A q \in Rows : status[q] # "claimed"
  BY <1>1, IdleWorker, Columns DEF Claim, QueueInv
<1>7. /\ status'[r] = "claimed" /\ owner'[r] = run /\ job'["worker"] = r
      /\ \A q \in Rows \ {r} : status'[q] = status[q]
  BY <1>1, <1>2, <1>3, Columns DEF QueueInv
<1>8. OnlyWorker' /\ RowShape'
  <2>1. OnlyWorker'
    BY <1>1, <1>4, Columns DEF QueueInv, OnlyWorker
  <2>2. RowShape'
    BY <1>3, <1>4, <1>7 DEF QueueInv, RowShape
  <2>3. QED
    BY <2>1, <2>2
<1>9. OneClaim'
  BY <1>1, <1>3, <1>4, <1>6, <1>7 DEF OneClaim
<1>10. \A q \in Rows : Pending(q)' <=> Pending(q)
  BY <1>3, <1>7 DEF Pending
<1>11. Schedule'
  BY <1>3, <1>4, <1>5, <1>7, <1>10 DEF QueueInv, Schedule
<1>12. ExecutedInOrder'
  <2>1. SUFFICES ASSUME NEW a \in Rows, NEW b \in Rows, a < b, Priority(a) <= Priority(b),
                        Pending(a), status'[b] \in {"claimed", "completed", "failed"}
                 PROVE  FALSE
    BY <1>4, <1>10 DEF ExecutedInOrder, Priority
  <2>2. CASE b # r
    BY <2>1, <2>2, <1>7 DEF QueueInv, ExecutedInOrder
  <2>3. CASE b = r
    <3>1. a # r /\ status[a] = "queued"
      BY <2>1, <2>3, <1>6 DEF Pending, Rows
    <3>2. wait[a] = 0
      <4>1. wait[a] <= wait[r] /\ wait[a] \in Nat
        BY <2>1, <2>3, <3>1, <1>3, Columns DEF QueueInv, Schedule, Pending
      <4>2. QED
        BY <4>1, <1>3
    <3>3. Before(r, a)
      BY <1>2, <3>1, <3>2, <2>1 DEF Due
    <3>4. QED
      BY <2>1, <2>3, <3>3, PriorityIsNat DEF Before, Rows
  <2>4. QED
    BY <2>2, <2>3
<1>13. ShownIsNewest'
  BY <1>4, <1>10 DEF QueueInv, ShownIsNewest
<1>14. QED
  BY <1>8, <1>9, <1>11, <1>12, <1>13 DEF QueueInv

(* The steps that end the work on a row: it is over, no other row changes  *)
(* its status, and sends may become edits.                                 *)
LEMMA SettleInv ==
    ASSUME QueueInv, TypeOK', NEW c \in Claimers, at[c] # "idle",
           NEW s \in {"completed", "failed"},
           status' = [status EXCEPT ![job[c]] = s],
           \A q \in Rows : op'[q] # op[q] => op[q] = "send" /\ op'[q] = "edit",
           UNCHANGED <<last, wait, shown, phase, run, left>>,
           pause' \in {pause, 0},
           \A q \in Rows : q # job[c] => owner'[q] = owner[q],
           job' = [job EXCEPT ![c] = 0], at' = [at EXCEPT ![c] = "idle"]
    PROVE  QueueInv'
<1> DEFINE r == job[c]
<1>1. /\ c = "worker" /\ r \in Rows /\ phase = "up" /\ status[r] = "claimed"
      /\ wait[r] = 0 /\ pause = 0 /\ pause' = 0
  BY WorkerRow
<1>2. status'[r] = s /\ (\A q \in Rows \ {r} : status'[q] = status[q]) /\ job'["worker"] = 0
  BY <1>1, Columns DEF QueueInv
<1>3. \A q \in Rows : status[q] = "claimed" => q = r
  BY <1>1 DEF QueueInv, OneClaim
<1>4. \A q \in Rows : Priority(q)' = Priority(q) /\ (op'[q] = "typing" <=> op[q] = "typing")
  BY DEF Priority
<1> HIDE DEF r
<1>5. \A q \in Rows : Pending(q)' => Pending(q) /\ q # r
  BY <1>1, <1>2 DEF Pending
<1>6. OnlyWorker' /\ RowShape'
  <2>1. OnlyWorker'
    BY <1>1, Columns DEF QueueInv, OnlyWorker
  <2>2. RowShape'
    BY <1>1, <1>2 DEF QueueInv, RowShape
  <2>3. QED
    BY <2>1, <2>2
<1>7. OneClaim'
  BY <1>1, <1>2, <1>3 DEF OneClaim
<1>8. Schedule'
  BY <1>1, <1>2, <1>5 DEF QueueInv, Schedule
<1>9. ExecutedInOrder'
  <2>1. SUFFICES ASSUME NEW a \in Rows, NEW b \in Rows, a < b, Priority(a)' <= Priority(b)',
                        Pending(a)', status'[b] \in {"claimed", "completed", "failed"}
                 PROVE  FALSE
    BY DEF ExecutedInOrder
  <2>2. Pending(a) /\ Priority(a) <= Priority(b)
    BY <2>1, <1>4, <1>5
  <2>3. status[b] \in {"claimed", "completed", "failed"}
    BY <2>1, <1>1, <1>2
  <2>4. QED
    BY <2>1, <2>2, <2>3 DEF QueueInv, ExecutedInOrder
<1>10. ShownIsNewest'
  BY <1>4, <1>5 DEF QueueInv, ShownIsNewest
<1>11. QED
  BY <1>6, <1>7, <1>8, <1>9, <1>10 DEF QueueInv

(* A call shows the text of the row in flight, which nothing pending       *)
(* precedes.                                                               *)
LEMMA EffectInv ==
    ASSUME QueueInv, TypeOK', NEW c \in Claimers, at[c] # "idle", Effect(job[c]),
           UNCHANGED <<last, status, op, wait, owner, pause, job, phase, run>>,
           at'["main"] = "idle", left'["stop"] = 0, left'["db"] = 0
    PROVE  QueueInv'
<1> DEFINE r == job[c]
<1>1. r \in Rows /\ status[r] = "claimed"
  BY WorkerRow
<1>2. r \in 0..last
  BY <1>1, Columns DEF QueueInv, RowShape, Rows
<1>3. OnlyWorker' /\ RowShape' /\ OneClaim'
  BY DEF QueueInv, OnlyWorker, RowShape, OneClaim
<1>4. Schedule' /\ ExecutedInOrder'
  BY DEF QueueInv, Schedule, ExecutedInOrder, Pending, Priority
<1>5. \A m \in Messages : shown'[m] = shown[m] \/ (shown'[m] = r /\ op[r] # "typing")
  BY Columns DEF QueueInv, Effect, PostMessage, EditMessage, DeleteMessage, chat
<1>6. ASSUME NEW q \in Rows, q < r, op[r] # "typing", op[q] # "typing" PROVE ~Pending(q)
  BY <1>1, <1>6 DEF QueueInv, ExecutedInOrder, Priority
<1> HIDE DEF r
<1>7. ShownIsNewest'
  <2>1. SUFFICES ASSUME NEW m \in Messages
                 PROVE  /\ shown'[m] \in 0..last
                        /\ \A q \in Rows : q < shown'[m] /\ op[q] # "typing" => ~Pending(q)
    BY DEF ShownIsNewest, Pending
  <2>2. CASE shown'[m] = shown[m]
    BY <2>2 DEF QueueInv, ShownIsNewest
  <2>3. CASE shown'[m] = r /\ op[r] # "typing"
    BY <2>3, <1>2, <1>6
  <2>4. QED
    BY <2>2, <2>3, <1>5
<1>8. QED
  BY <1>3, <1>4, <1>7 DEF QueueInv

LEMMA BackoffIsPositive ==
    ASSUME TypeOK, NEW retryAfter \in RetryAfters
    PROVE  NextBackoff(retryAfter) \in Nat /\ NextBackoff(retryAfter) > 0
  BY QueueAssumption DEF TypeOK, RateOK, NextBackoff, Sooner, Later

(* A 429 puts the row back and holds it with every other queued row, so    *)
(* that none of them overtakes it.                                         *)
LEMMA RequeueInv ==
    ASSUME QueueInv, TypeOK', NEW c \in Claimers, Requeue(c)
    PROVE  QueueInv'
<1> DEFINE r == job[c]
<1>1. /\ c = "worker" /\ r \in Rows /\ phase = "up" /\ status[r] = "claimed"
      /\ wait[r] = 0 /\ pause = 0
  BY WorkerRow DEF Requeue
<1>2. UNCHANGED <<last, op, shown, phase, run, left>>
  BY DEF Requeue, chat, process
<1>3. pause' \in Nat /\ pause' > 0
  BY BackoffIsPositive DEF Requeue, SavePause, QueueInv
<1>4. /\ status' = [status EXCEPT ![r] = "queued"]
      /\ wait' = HoldBack(r, pause')
      /\ at' = [at EXCEPT ![c] = "idle"] /\ job' = [job EXCEPT ![c] = 0]
  BY DEF Requeue, Return
<1>5. status'[r] = "queued" /\ (\A q \in Rows \ {r} : status'[q] = status[q]) /\ job'["worker"] = 0
  BY <1>1, <1>4, Columns DEF QueueInv
<1>6. \A q \in Rows \ {r} : status[q] # "claimed"
  BY <1>1 DEF QueueInv, OneClaim
<1> HIDE DEF r
<1>7. wait'[r] = pause' /\ \A q \in Rows \ {r} : status[q] = "queued" => wait'[q] = Later(wait[q], pause')
  BY <1>1, <1>4 DEF HoldBack
<1>8. \A q \in Rows : Pending(q)' <=> Pending(q)
  BY <1>1, <1>5 DEF Pending
<1>9. \A q \in Rows : Pending(q) => q = r \/ status[q] = "queued"
  BY <1>6 DEF Pending
<1>10. \A q \in Rows : wait[q] \in Nat
  BY Columns DEF QueueInv
<1>11. OnlyWorker' /\ RowShape'
  <2>1. OnlyWorker'
    BY <1>1, <1>2, <1>4, Columns DEF QueueInv, OnlyWorker
  <2>2. RowShape'
    BY <1>1, <1>2, <1>5 DEF QueueInv, RowShape
  <2>3. QED
    BY <2>1, <2>2
<1>12. OneClaim'
  BY <1>5, <1>6 DEF OneClaim
<1>13. Schedule'
  <2>1. ASSUME NEW q \in Rows, status'[q] = "queued"
        PROVE  pause' <= wait'[q] /\ wait'[q] <= Later(Throttle, pause')
    <3>1. CASE q = r
      BY <3>1, <1>3, <1>7, QueueAssumption DEF Later
    <3>2. CASE q # r
      <4>1. status[q] = "queued" /\ wait'[q] = Later(wait[q], pause')
        BY <3>2, <2>1, <1>5, <1>7
      <4>2. wait[q] <= Throttle
        BY <4>1, <1>1, <1>10, QueueAssumption DEF QueueInv, Schedule, Later
      <4>3. QED
        BY <4>1, <4>2, <1>3, <1>10, QueueAssumption DEF Later
    <3>3. QED
      BY <3>1, <3>2
  <2>2. ASSUME NEW q \in Rows, status'[q] = "claimed" PROVE FALSE
    BY <2>2, <1>5, <1>6
  <2>3. ASSUME NEW a \in Rows, NEW b \in Rows, a < b, Pending(a)', Pending(b)'
        PROVE  wait'[a] <= wait'[b]
    <3>1. Pending(a) /\ Pending(b) /\ wait[a] <= wait[b]
      BY <2>3, <1>8 DEF QueueInv, Schedule
    <3>2. CASE a = r
      <4>1. b # r /\ wait'[b] = Later(wait[b], pause')
        BY <3>1, <3>2, <2>3, <1>7, <1>9 DEF Rows
      <4>2. QED
        BY <4>1, <3>2, <1>3, <1>7, <1>10 DEF Later
    <3>3. CASE a # r /\ b = r
      <4>1. wait'[a] = Later(wait[a], pause') /\ wait[a] <= 0
        BY <3>1, <3>3, <1>1, <1>7, <1>9
      <4>2. QED
        BY <4>1, <3>3, <1>3, <1>7, <1>10 DEF Later
    <3>4. CASE a # r /\ b # r
      <4>1. wait'[a] = Later(wait[a], pause') /\ wait'[b] = Later(wait[b], pause')
        BY <3>1, <3>4, <1>7, <1>9
      <4>2. QED
        BY <4>1, <3>1, <1>3, <1>10 DEF Later
    <3>5. QED
      BY <3>2, <3>3, <3>4
  <2>4. QED
    BY <2>1, <2>2, <2>3 DEF Schedule
<1>14. ExecutedInOrder'
  <2>1. SUFFICES ASSUME NEW a \in Rows, NEW b \in Rows, a < b, Priority(a) <= Priority(b),
                        Pending(a), status'[b] \in {"claimed", "completed", "failed"}
                 PROVE  FALSE
    BY <1>2, <1>8 DEF ExecutedInOrder, Priority
  <2>2. status[b] = status'[b]
    BY <2>1, <1>5
  <2>3. QED
    BY <2>1, <2>2 DEF QueueInv, ExecutedInOrder
<1>15. ShownIsNewest'
  BY <1>2, <1>8 DEF QueueInv, ShownIsNewest
<1>16. QED
  BY <1>11, <1>12, <1>13, <1>14, <1>15 DEF QueueInv

LEMMA ProcessNextInv ==
    ASSUME QueueInv, TypeOK', NEW c \in Claimers, ProcessNext(c)
    PROVE  QueueInv'
<1>1. CASE Claim(c)
  BY <1>1, ClaimInv
<1>2. CASE SkipStale(c) \/ CompleteNoop(c) \/ Fail(c)
  <2>1. at[c] # "idle" /\ \E s \in {"completed", "failed"} : status' = [status EXCEPT ![job[c]] = s]
    BY <1>2 DEF SkipStale, CompleteNoop, Fail
  <2>2. pause' \in {pause, 0} /\ UNCHANGED <<last, op, wait, shown, phase, run, left>>
    BY <1>2 DEF SkipStale, CompleteNoop, Fail, ClearPause, SavePause, rate, chat, process
  <2>3. \A q \in Rows : q # job[c] => owner'[q] = owner[q]
    BY <1>2, Columns DEF SkipStale, CompleteNoop, Fail, QueueInv
  <2>4. job' = [job EXCEPT ![c] = 0] /\ at' = [at EXCEPT ![c] = "idle"]
    BY <1>2 DEF SkipStale, CompleteNoop, Fail, Return
  <2>5. QED
    BY <2>1, <2>2, <2>3, <2>4, SettleInv
<1>3. CASE Complete(c)
  <2>1. at[c] # "idle" /\ status' = [status EXCEPT ![job[c]] = "completed"]
    BY <1>3 DEF Complete
  <2>2. pause' \in {pause, 0} /\ UNCHANGED <<last, wait, owner, shown, phase, run, left>>
    BY <1>3 DEF Complete, ClearPause, SavePause, chat, process
  <2>3. \A q \in Rows : op'[q] # op[q] => op[q] = "send" /\ op'[q] = "edit"
    BY <1>3 DEF Complete, Promoted
  <2>4. job' = [job EXCEPT ![c] = 0] /\ at' = [at EXCEPT ![c] = "idle"]
    BY <1>3 DEF Complete, Return
  <2>5. QED
    BY <2>1, <2>2, <2>3, <2>4, SettleInv
<1>4. CASE Requeue(c)
  BY <1>4, RequeueInv
<1>5. CASE StartCall(c) \/ CallSucceeds(c) \/ CallIsNoop(c) \/ CallIsRejected(c)
           \/ CallIsLimited(c) \/ CallFails(c) \/ AnswerLost(c)
  <2>1. at[c] # "idle" /\ c = "worker"
    BY <1>5, WorkerRow
       DEF StartCall, CallSucceeds, CallIsNoop, CallIsRejected, CallIsLimited, CallFails, AnswerLost
  <2>2. \E s \in Stages : at' = [at EXCEPT ![c] = s]
    BY <1>5 DEF StartCall, CallSucceeds, CallIsNoop, CallIsRejected, CallIsLimited, CallFails,
                AnswerLost, Stages
  <2>3. at'["main"] = "idle"
    BY <2>1, <2>2, Columns DEF QueueInv, OnlyWorker
  <2>4. left'["stop"] = left["stop"] /\ left'["db"] = left["db"]
    BY <1>5 DEF StartCall, CallSucceeds, CallIsNoop, CallIsRejected, CallIsLimited, CallFails,
                AnswerLost, Spend, QueueInv, TypeOK, FaultKinds
  <2>5. UNCHANGED <<last, status, op, wait, owner, pause, job, phase, run>>
    BY <1>5 DEF StartCall, CallSucceeds, CallIsNoop, CallIsRejected, CallIsLimited, CallFails,
                AnswerLost, table, rate, process
  <2>6. UNCHANGED shown \/ Effect(job[c])
    BY <1>5 DEF StartCall, CallSucceeds, CallIsNoop, CallIsRejected, CallIsLimited, CallFails,
                AnswerLost, chat
  <2>7. QED
    BY <2>1, <2>3, <2>4, <2>5, <2>6, QuietStep, EffectInv DEF QueueInv, OnlyWorker
<1>6. QED
  BY <1>1, <1>2, <1>3, <1>4, <1>5 DEF ProcessNext, Answer, Commit

-----------------------------------------------------------------------------
(* The environment of the two threads.                                     *)

(* Time moves every available_at and the pause together. *)
LEMMA TickInv ==
    ASSUME QueueInv, TypeOK', Tick
    PROVE  QueueInv'
<1>1. /\ pause' = Countdown(pause) /\ wait' = [r \in Rows |-> Countdown(wait[r])]
      /\ UNCHANGED <<last, status, op, owner, shown, job, at, phase, run, left>>
  BY DEF Tick, chat, process, claims
<1>2. pause \in Nat /\ \A r \in Rows : wait[r] \in Nat /\ wait'[r] = Countdown(wait[r])
  BY <1>1, Columns DEF QueueInv
<1>3. OnlyWorker' /\ RowShape' /\ OneClaim' /\ ExecutedInOrder' /\ ShownIsNewest'
  BY <1>1 DEF QueueInv, OnlyWorker, RowShape, OneClaim, ExecutedInOrder, ShownIsNewest, Pending, Priority
<1>4. Schedule'
  <2>1. ASSUME NEW r \in Rows, status[r] = "queued"
        PROVE  pause' <= wait'[r] /\ wait'[r] <= Later(Throttle, pause')
    <3>1. pause <= wait[r] /\ wait[r] <= Later(Throttle, pause)
      BY <2>1 DEF QueueInv, Schedule
    <3>2. QED
      BY <3>1, <1>1, <1>2, QueueAssumption DEF Countdown, Later
  <2>2. ASSUME NEW r \in Rows, status[r] = "claimed" PROVE wait'[r] = 0 /\ pause' = 0
    <3>1. wait[r] = 0 /\ pause = 0
      BY <2>2 DEF QueueInv, Schedule
    <3>2. QED
      BY <3>1, <1>1, <1>2 DEF Countdown
  <2>3. ASSUME NEW a \in Rows, NEW b \in Rows, a < b, Pending(a), Pending(b)
        PROVE  wait'[a] <= wait'[b]
    <3>1. wait[a] <= wait[b]
      BY <2>3 DEF QueueInv, Schedule
    <3>2. QED
      BY <3>1, <1>2 DEF Countdown
  <2>4. QED
    BY <2>1, <2>2, <2>3, <1>1 DEF Schedule, Pending
<1>5. QED
  BY <1>3, <1>4 DEF QueueInv

(* A crash leaves the worker's row claimed. *)
LEMMA CrashInv ==
    ASSUME QueueInv, TypeOK', Crash
    PROVE  QueueInv'
<1>1. /\ phase' = "down" /\ at' = [c \in Claimers |-> "idle"] /\ job' = [c \in Claimers |-> 0]
      /\ UNCHANGED <<last, status, op, wait, owner, pause, shown, run>>
      /\ left'["stop"] = left["stop"] /\ left'["db"] = left["db"]
  BY DEF Crash, ProcessEnds, Spend, table, rate, chat, QueueInv, TypeOK, FaultKinds
<1>2. OnlyWorker' /\ RowShape'
  BY <1>1 DEF QueueInv, OnlyWorker, RowShape, Claimers
<1>3. OneClaim'
  BY <1>1 DEF QueueInv, OneClaim, Claimers
<1>4. Schedule' /\ ExecutedInOrder' /\ ShownIsNewest'
  BY <1>1 DEF QueueInv, Schedule, ExecutedInOrder, ShownIsNewest, Pending, Priority
<1>5. QED
  BY <1>2, <1>3, <1>4 DEF QueueInv

(* The row left claimed is queued again; it was the first due row, and     *)
(* every row inserted later is behind it.                                  *)
LEMMA StartInv ==
    ASSUME SingleClaimer, QueueInv, TypeOK', Start
    PROVE  QueueInv'
<1>1. /\ phase' = "up" /\ phase = "down"
      /\ UNCHANGED <<last, op, wait, pause, shown, job, at, left>>
  BY DEF Start, rate, chat, claims
<1>2. \A r \in Rows : status'[r] = IF status[r] = "claimed" THEN "queued" ELSE status[r]
  <2>1. status' = [r \in Rows |-> IF r \in Orphaned({}) THEN "queued" ELSE status[r]]
    BY DEF Start, SingleClaimer
  <2>2. QED
    BY <2>1 DEF Orphaned
<1>3. \A r \in Rows : status'[r] # "claimed" /\ (Pending(r)' <=> Pending(r))
  BY <1>2 DEF Pending
<1>4. OnlyWorker' /\ RowShape'
  BY <1>1, <1>2 DEF QueueInv, OnlyWorker, RowShape
<1>5. OneClaim'
  BY <1>1, <1>3 DEF QueueInv, OneClaim
<1>6. Schedule'
  <2>1. ASSUME NEW r \in Rows, status'[r] = "queued"
        PROVE  pause' <= wait'[r] /\ wait'[r] <= Later(Throttle, pause')
    <3>1. CASE status[r] = "queued"
      BY <3>1, <1>1 DEF QueueInv, Schedule
    <3>2. CASE status[r] = "claimed"
      BY <3>2, <1>1, QueueAssumption DEF QueueInv, Schedule, Later
    <3>3. QED
      BY <2>1, <3>1, <3>2, <1>2
  <2>2. QED
    BY <2>1, <1>1, <1>3 DEF QueueInv, Schedule
<1>7. ExecutedInOrder'
  <2>1. SUFFICES ASSUME NEW a \in Rows, NEW b \in Rows, a < b, Priority(a) <= Priority(b),
                        Pending(a), status'[b] \in {"claimed", "completed", "failed"}
                 PROVE  FALSE
    BY <1>1, <1>3 DEF ExecutedInOrder, Priority
  <2>2. QED
    BY <2>1, <1>2 DEF QueueInv, ExecutedInOrder
<1>8. ShownIsNewest'
  BY <1>1, <1>3 DEF QueueInv, ShownIsNewest
<1>9. QED
  BY <1>4, <1>5, <1>6, <1>7, <1>8 DEF QueueInv
-----------------------------------------------------------------------------
(* The invariant and what it shows.                                        *)

LEMMA InitInv ==
    ASSUME SingleClaimer, Init
    PROVE  QueueInv
<1>1. /\ last = 0 /\ pause = 0 /\ phase = "up" /\ left = FaultBudget
      /\ \A r \in Rows : status[r] = "absent"
      /\ at["main"] = "idle" /\ job["worker"] = 0
      /\ \A m \in Messages : shown[m] = 0
  BY DEF Init, Claimers
<1>2. OnlyWorker /\ RowShape /\ OneClaim
  BY <1>1 DEF SingleClaimer, OnlyWorker, RowShape, OneClaim, Rows
<1>3. Schedule /\ ExecutedInOrder /\ ShownIsNewest
  BY <1>1 DEF Schedule, ExecutedInOrder, ShownIsNewest, Pending, Rows
<1>4. QED
  BY <1>2, <1>3, TypeInit DEF QueueInv

LEMMA StepInv ==
    ASSUME SingleClaimer, QueueInv, [Next]_vars
    PROVE  QueueInv'
<1>1. TypeOK'
  BY TypeStep DEF QueueInv
<1>2. CASE Produce
  BY <1>1, <1>2, ProduceInv
<1>3. ASSUME NEW c \in Claimers, ProcessNext(c) PROVE QueueInv'
  BY <1>1, <1>3, ProcessNextInv
<1>4. CASE DatabaseError \/ BeginStop \/ FinishStop
  BY <1>4 DEF DatabaseError, BeginStop, FinishStop, Spend, QueueInv, OnlyWorker
<1>5. CASE Tick
  BY <1>1, <1>5, TickInv
<1>6. CASE Crash
  BY <1>1, <1>6, CrashInv
<1>7. CASE Start
  BY <1>1, <1>7, StartInv
<1>8. CASE UNCHANGED vars
  BY <1>1, <1>8, QuietStep
     DEF vars, table, rate, chat, process, claims, QueueInv, OnlyWorker
<1>9. QED
  BY <1>2, <1>3, <1>4, <1>5, <1>6, <1>7, <1>8 DEF Next

(* QueueInv holds in every reachable state of a service that crashes and   *)
(* restarts, but is not stopped gracefully and has no database error.      *)
THEOREM InvariantHolds ==
    ASSUME SingleClaimer
    PROVE  Spec => []QueueInv
<1>1. Init => QueueInv
  BY InitInv
<1>2. QueueInv /\ [Next]_vars => QueueInv'
  BY StepInv
<1>3. QED
  BY <1>1, <1>2, PTL DEF Spec

(* Queued work resumes in order after a pause, and across crashes: no row  *)
(* is claimed or over while an earlier row of its priority is pending.     *)
THEOREM OrderKept ==
    ASSUME SingleClaimer
    PROVE  Spec => []ExecutedInOrder
<1>1. QueueInv => ExecutedInOrder
  BY DEF QueueInv
<1>2. QED
  BY <1>1, InvariantHolds, PTL

(* No row is claimed or executed while the pause of a 429 lasts.           *)
THEOREM PauseHonoured ==
    ASSUME SingleClaimer
    PROVE  Spec => []NoCallDuringPause
<1>1. QueueInv => NoCallDuringPause
  <2>1. ASSUME QueueInv, NEW c \in Claimers, at[c] # "idle" PROVE ~(pause > 0)
    BY <2>1, WorkerRow
  <2>2. QED
    BY <2>1 DEF NoCallDuringPause
<1>2. QED
  BY <1>1, InvariantHolds, PTL

(* No row stays claimed unless a thread works on it or the next start      *)
(* will queue it again.                                                    *)
THEOREM NoRowStranded ==
    ASSUME SingleClaimer
    PROVE  Spec => []ClaimsAreHeld
<1>1. QueueInv => ClaimsAreHeld
  BY DEF QueueInv, OneClaim, ClaimsAreHeld, Claimers
<1>2. QED
  BY <1>1, InvariantHolds, PTL

(* An edit executes a row with a later text than the message shows.        *)
LEMMA EffectAdvances ==
    ASSUME QueueInv, NEW c \in Claimers, at[c] # "idle", Effect(job[c])
    PROVE  \A m \in Messages : shown[m] <= shown'[m]
<1> DEFINE r == job[c]
<1>1. r \in Rows /\ status[r] = "claimed"
  BY WorkerRow
<1>2. \A m \in Messages : shown'[m] = shown[m] \/ (shown'[m] = r /\ op[r] # "typing")
  BY Columns DEF QueueInv, Effect, PostMessage, EditMessage, DeleteMessage, chat
<1> HIDE DEF r
<1>3. SUFFICES ASSUME NEW m \in Messages PROVE shown[m] <= shown'[m]
  OBVIOUS
<1>4. shown[m] \in Nat
  BY Columns, QueueAssumption DEF QueueInv
<1>5. op[r] # "typing" => ~(r < shown[m])
  BY <1>1 DEF QueueInv, ShownIsNewest, Pending
<1>6. QED
  BY <1>1, <1>2, <1>4, <1>5 DEF Rows

LEMMA TextsAdvanceStep ==
    ASSUME QueueInv, [Next]_vars
    PROVE  \A m \in Messages : shown[m] <= shown'[m]
<1>1. CASE UNCHANGED shown
  BY <1>1, Columns, QueueAssumption DEF QueueInv
<1>2. ASSUME NEW c \in Claimers, ProcessNext(c) PROVE \A m \in Messages : shown[m] <= shown'[m]
  <2>1. CASE Claim(c) \/ SkipStale(c) \/ StartCall(c) \/ CallIsNoop(c) \/ CallIsRejected(c)
             \/ CallIsLimited(c) \/ CallFails(c) \/ Commit(c)
    BY <2>1, <1>1
       DEF Claim, SkipStale, StartCall, CallIsNoop, CallIsRejected, CallIsLimited, CallFails,
           Commit, Complete, CompleteNoop, Requeue, Fail, chat
  <2>2. CASE CallSucceeds(c) \/ AnswerLost(c)
    BY <2>2, EffectAdvances DEF CallSucceeds, AnswerLost
  <2>3. QED
    BY <1>2, <2>1, <2>2 DEF ProcessNext, Answer
<1>3. CASE Produce
  <2>1. UNCHANGED chat
    BY <1>3 DEF Produce, Lookup, Submit, Reply, Typing, Delete, CancelLive, NewGroup, EndTurn,
                WaitReturns, Enqueue
  <2>2. QED
    BY <2>1, <1>1 DEF chat
<1>4. CASE DatabaseError \/ Tick \/ BeginStop \/ FinishStop \/ Crash \/ Start \/ UNCHANGED vars
  <2>1. UNCHANGED chat
    BY <1>4 DEF DatabaseError, Tick, BeginStop, FinishStop, Crash, Start, ProcessEnds, vars
  <2>2. QED
    BY <2>1, <1>1 DEF chat
<1>5. QED
  BY <1>2, <1>3, <1>4 DEF Next

(* The text of a message is only ever replaced by one enqueued later.      *)
THEOREM TextsAdvance ==
    ASSUME SingleClaimer
    PROVE  Spec => TextsOnlyAdvance
<1>1. QueueInv /\ [Next]_vars => [\A m \in Messages : shown[m] <= shown'[m]]_shown
  BY TextsAdvanceStep
<1>2. QED
  BY <1>1, InvariantHolds, PTL DEF Spec, TextsOnlyAdvance

-----------------------------------------------------------------------------
(* Texts: the invariant behind NewestTextStands.  Wherever the service     *)
(* keeps the id of a message for a key, the message shows a text of the    *)
(* chunk of that key.                                                      *)

ShowsChunk(m, k) ==
    /\ m \in 1..posted
    /\ shown[m] \in Rows
    /\ key[shown[m]] \in TextKeys
    /\ ChunkOf[key[shown[m]]] = ChunkOf[k]

Stands(n) == \E m \in 1..posted : shown[m] >= n /\ ShowsChunk(m, key[n])

(* The ids in the table and in the lookup that is under way.               *)
IdsFit ==
    /\ \A k \in TextKeys : known[k] # 0 => ShowsChunk(known[k], k)
    /\ plan.msg # 0 => ShowsChunk(plan.msg, plan.key)
    /\ \A r \in Rows : key[r] \in TextKeys /\ target[r] # 0 => ShowsChunk(target[r], key[r])
    /\ \A r \in Rows : op[r] = "edit" => key[r] \in TextKeys /\ target[r] # 0

(* The answer the worker has received: its text is in the chat.            *)
AnswerFits ==
    /\ at["worker"] = "ok" /\ key[job["worker"]] \in TextKeys =>
         /\ got["worker"] # 0
         /\ ShowsChunk(got["worker"], key[job["worker"]])
         /\ Stands(job["worker"])
    /\ at["worker"] = "noop" /\ key[job["worker"]] \in TextKeys => Stands(job["worker"])

CompletedStand == \A n \in Rows : status[n] = "completed" /\ key[n] \in AnswerKeys => Stands(n)

Links == IdsFit /\ AnswerFits /\ CompletedStand

TextInv == QueueInv /\ PostInv /\ Links

(* No message loses its chunk, and no text its place.                      *)
TextsKept ==
    /\ \A m, k : k \in TextKeys /\ ShowsChunk(m, k) => ShowsChunk(m, k)'
    /\ \A n \in Rows : key[n] \in TextKeys /\ Stands(n) => Stands(n)'

LEMMA ChatTypes ==
    ASSUME TextInv
    PROVE  /\ posted \in Nat /\ posted <= MaxMessages /\ (\A m \in 1..posted : m \in Messages)
           /\ \A m \in Messages : shown[m] \in 0..last
           /\ last \in Nat /\ last <= MaxRows
  BY QueueAssumption DEF TextInv, QueueInv, TypeOK, ChatOK, TableOK, ShownIsNewest, Messages

LEMMA SameChatKeeps ==
    ASSUME TextInv, UNCHANGED <<posted, shown>>, \A r \in Rows : r <= last => key'[r] = key[r]
    PROVE  TextsKept
<1>1. ASSUME NEW m, NEW k \in TextKeys, ShowsChunk(m, k) PROVE ShowsChunk(m, k)'
  <2>1. m \in Messages /\ shown[m] \in 0..last /\ shown[m] \in Rows
    BY <1>1, ChatTypes DEF ShowsChunk
  <2>2. key'[shown[m]] = key[shown[m]]
    BY <2>1
  <2>3. QED
    BY <1>1, <2>2 DEF ShowsChunk
<1>2. ASSUME NEW n \in Rows, key[n] \in TextKeys, Stands(n) PROVE Stands(n)'
  <2>1. PICK m \in 1..posted : shown[m] >= n /\ ShowsChunk(m, key[n])
    BY <1>2 DEF Stands
  <2>2. m \in Messages /\ shown[m] \in 0..last /\ last \in Nat
    BY <2>1, ChatTypes
  <2>3. n <= last
    BY <2>1, <2>2 DEF Rows
  <2>4. key'[n] = key[n]
    BY <2>3
  <2>5. PICK k \in TextKeys : k = key[n]
    BY <1>2
  <2>6. ShowsChunk(m, k)'
    BY <1>1, <2>1, <2>5
  <2>7. ShowsChunk(m, key[n])'
    BY <2>4, <2>5, <2>6 DEF ShowsChunk
  <2>8. QED
    BY <2>1, <2>7 DEF Stands
<1>3. QED
  BY <1>1, <1>2 DEF TextsKept

(* An edit goes to a message of its chunk.                                 *)
LEMMA EffectKeeps ==
    ASSUME TextInv, NEW c \in Claimers, at[c] # "idle", Effect(job[c]), UNCHANGED key
    PROVE  TextsKept
<1>r. PICK r \in Rows : r = job[c]
  BY WorkerRow DEF TextInv
<1>e. Effect(r)
  BY <1>r
<1>a. \A m \in Messages : shown[m] <= shown'[m]
  BY EffectAdvances DEF TextInv
<1>b. posted' \in Nat /\ posted <= posted'
  <2>1. posted' = posted \/ posted' = posted + 1
    BY <1>e DEF Effect, PostMessage, EditMessage, DeleteMessage, chat
  <2>2. QED
    BY <2>1, ChatTypes
<1>1. ASSUME NEW m, NEW k \in TextKeys, ShowsChunk(m, k) PROVE ShowsChunk(m, k)'
  <2>1. m \in Messages /\ m \in 1..posted /\ m \in 1..posted'
    BY <1>1, <1>b, ChatTypes DEF ShowsChunk
  <2>2. CASE shown'[m] = shown[m]
    BY <2>1, <2>2, <1>1 DEF ShowsChunk
  <2>3. CASE shown'[m] # shown[m]
    <3>1. op[r] = "edit" /\ m = target[r] /\ shown'[m] = r
      BY <2>1, <2>3, <1>e, ChatTypes, Columns
         DEF Effect, PostMessage, EditMessage, DeleteMessage, chat, TextInv, QueueInv
    <3>2. key[r] \in TextKeys /\ ShowsChunk(m, key[r])
      BY <3>1 DEF TextInv, Links, IdsFit
    <3>3. ChunkOf[key[r]] = ChunkOf[k]
      BY <3>2, <1>1 DEF ShowsChunk
    <3>4. QED
      BY <2>1, <3>1, <3>2, <3>3 DEF ShowsChunk
  <2>4. QED
    BY <2>2, <2>3
<1>2. ASSUME NEW n \in Rows, key[n] \in TextKeys, Stands(n) PROVE Stands(n)'
  <2>1. PICK m \in 1..posted : shown[m] >= n /\ ShowsChunk(m, key[n])
    BY <1>2 DEF Stands
  <2>2. ShowsChunk(m, key[n])'
    <3>1. PICK k \in TextKeys : k = key[n]
      BY <1>2
    <3>2. ShowsChunk(m, k)'
      BY <1>1, <2>1, <3>1
    <3>3. QED
      BY <3>1, <3>2 DEF ShowsChunk
  <2>3. m \in Messages /\ m \in 1..posted'
    BY <1>b, ChatTypes
  <2>4. shown[m] \in Nat /\ shown'[m] \in Nat /\ n \in Nat
    BY <2>1, <2>2 DEF ShowsChunk, Rows
  <2>5. shown'[m] >= n
    BY <2>1, <2>3, <2>4, <1>a
  <2>6. QED
    BY <2>2, <2>3, <2>5 DEF Stands
<1>3. QED
  BY <1>1, <1>2 DEF TextsKept

(* Steps that leave the ids alone and complete no row.                     *)
LEMMA LinksKept ==
    ASSUME Links, TextsKept, UNCHANGED <<op, key, target, known>>, plan' \in {plan, NoPlan},
           plan.msg # 0 => plan.key \in TextKeys,
           \A r \in Rows : status'[r] = "completed" => status[r] = "completed",
           at["worker"] # "idle" => job["worker"] \in Rows,
           at'["worker"] \in {"ok", "noop"} =>
               /\ at'["worker"] = at["worker"] /\ job'["worker"] = job["worker"]
               /\ got'["worker"] = got["worker"]
    PROVE  Links'
<1>1. IdsFit'
  <2>1. \A k \in TextKeys : known'[k] # 0 => ShowsChunk(known[k], k)'
    BY DEF Links, IdsFit, TextsKept
  <2>2. plan'.msg # 0 => ShowsChunk(plan.msg, plan.key)' /\ plan' = plan
    BY DEF Links, IdsFit, TextsKept, NoPlan
  <2>3. \A r \in Rows : key'[r] \in TextKeys /\ target'[r] # 0 => ShowsChunk(target[r], key[r])'
    BY DEF Links, IdsFit, TextsKept
  <2>4. QED
    BY <2>1, <2>2, <2>3 DEF Links, IdsFit, ShowsChunk
<1>2. AnswerFits'
  <2> SUFFICES ASSUME at'["worker"] \in {"ok", "noop"}, key[job["worker"]] \in TextKeys
               PROVE  /\ at["worker"] = "ok" => /\ got["worker"] # 0
                                                /\ ShowsChunk(got["worker"], key[job["worker"]])'
                      /\ Stands(job["worker"])'
    BY DEF AnswerFits, ShowsChunk, Stands
  <2>1. PICK r \in Rows : r = job["worker"] /\ key[r] \in TextKeys
    OBVIOUS
  <2>2. PICK m : m = got["worker"]
    OBVIOUS
  <2>3. /\ at["worker"] = "ok" => m # 0 /\ ShowsChunk(m, key[r])
        /\ Stands(r)
    BY <2>1, <2>2 DEF Links, AnswerFits
  <2>4. PICK k \in TextKeys : k = key[r]
    BY <2>1
  <2>5. at["worker"] = "ok" => ShowsChunk(m, k)'
    BY <2>3, <2>4 DEF TextsKept
  <2>6. Stands(r)'
    BY <2>1, <2>3 DEF TextsKept
  <2>7. QED
    BY <2>1, <2>2, <2>3, <2>4, <2>5, <2>6 DEF ShowsChunk, Stands
<1>3. CompletedStand'
  BY DEF Links, CompletedStand, TextsKept, AnswerKeys, TextKeys
<1>4. QED
  BY <1>1, <1>2, <1>3 DEF Links

LEMMA EnqueueLinks ==
    ASSUME TextInv, NEW o \in Ops, NEW k \in Keys \cup {NoKey}, NEW m \in 0..MaxMessages,
           Enqueue(o, k, m), plan' \in {plan, NoPlan}, plan.msg # 0 => plan.key \in TextKeys,
           k \in TextKeys /\ m # 0 => ShowsChunk(m, k),
           o = "edit" => k \in TextKeys /\ m # 0
    PROVE  Links'
<1>a. TypeOK /\ last \in Nat /\ last' = last + 1
  BY QueueAssumption DEF TextInv, PostInv, TypeOK, TableOK, Enqueue
<1>b. last' \in Rows
  BY <1>a, EnqueueTypes
<1>1. UNCHANGED <<known, posted, shown, at, job, got>>
  BY DEF Enqueue, claims, chat
<1>2. \A r \in Rows : r # last' => op'[r] = op[r] /\ key'[r] = key[r] /\ target'[r] = target[r]
                                   /\ (status'[r] = status[r] \/ status'[r] = "deleted")
  BY <1>a DEF Enqueue, TypeOK, TableOK
<1>3. op'[last'] = o /\ key'[last'] = k /\ status'[last'] = "queued" /\ target'[last'] = m
  BY <1>a, <1>b DEF Enqueue, TypeOK, TableOK
<1>4. TextsKept
  <2>1. \A r \in Rows : r <= last => key'[r] = key[r]
    BY <1>a, <1>2
  <2>2. QED
    BY <2>1, <1>1, SameChatKeeps
<1>5. \A n, j : j \in TextKeys /\ ShowsChunk(n, j) => ShowsChunk(n, j)'
  BY <1>4 DEF TextsKept
<1>6. IdsFit'
  <2>1. \A j \in TextKeys : known'[j] # 0 => ShowsChunk(known[j], j)'
    BY <1>1, <1>5 DEF TextInv, Links, IdsFit
  <2>2. plan'.msg # 0 => ShowsChunk(plan.msg, plan.key)' /\ plan' = plan
    BY <1>5 DEF TextInv, Links, IdsFit, NoPlan
  <2>3. ASSUME NEW r \in Rows, NEW n, NEW j, n = target'[r], j = key'[r], j \in TextKeys, n # 0
        PROVE  ShowsChunk(n, j)'
    <3>1. ShowsChunk(n, j)
      <4>1. CASE r = last'
        BY <2>3, <4>1, <1>3
      <4>2. CASE r # last'
        BY <2>3, <4>2, <1>2 DEF TextInv, Links, IdsFit
      <4>3. QED
        BY <4>1, <4>2
    <3>2. QED
      BY <2>3, <3>1, <1>5
  <2>4. \A r \in Rows : op'[r] = "edit" => key'[r] \in TextKeys /\ target'[r] # 0
    BY <1>2, <1>3 DEF TextInv, Links, IdsFit
  <2>5. QED
    BY <2>1, <2>2, <2>3, <2>4, <1>1 DEF IdsFit, ShowsChunk
<1>7. AnswerFits'
  <2> SUFFICES ASSUME at["worker"] \in {"ok", "noop"}, NEW r, NEW n, NEW j,
                      r = job["worker"], n = got["worker"], j = key'[r], j \in TextKeys
               PROVE  /\ at["worker"] = "ok" => n # 0 /\ ShowsChunk(n, j)'
                      /\ Stands(r)'
    BY <1>1 DEF AnswerFits, ShowsChunk, Stands
  <2>1. r \in Rows /\ status[r] = "claimed"
    BY WorkerRow, Columns DEF TextInv, QueueInv
  <2>2. status[last'] = "absent"
    BY <1>a, <1>b DEF TextInv, PostInv, OneHand
  <2>3. key[r] = j
    BY <1>2, <2>1, <2>2
  <2>4. (at["worker"] = "ok" => n # 0 /\ ShowsChunk(n, j)) /\ Stands(r)
    BY <2>1, <2>3 DEF TextInv, Links, AnswerFits
  <2>5. QED
    BY <2>1, <2>3, <2>4, <1>4, <1>5 DEF TextsKept
<1>8. CompletedStand'
  <2> SUFFICES ASSUME NEW n \in Rows, status'[n] = "completed", key'[n] \in AnswerKeys
               PROVE  Stands(n)'
    BY DEF CompletedStand
  <2>1. n # last' /\ status[n] = "completed" /\ key[n] = key'[n]
    BY <1>2, <1>3
  <2>2. Stands(n) /\ key[n] \in TextKeys
    BY <2>1 DEF TextInv, Links, CompletedStand, TextKeys
  <2>3. QED
    BY <2>2, <1>4 DEF TextsKept
<1>9. QED
  BY <1>6, <1>7, <1>8 DEF Links

LEMMA ProduceLinks == TextInv /\ Produce => Links'
<1> SUFFICES ASSUME TextInv, Produce PROVE Links'
  OBVIOUS
<1>t. TypeOK /\ NoKey \notin TextKeys /\ TextKeys \cap TypingKeys = {} /\ NoKey \notin TypingKeys
  BY QueueAssumption DEF TextInv, PostInv, Keys
<1>p. plan.msg # 0 => plan.key \in TextKeys
  BY <1>t DEF TypeOK, MainOK, Plans, NoPlan
<1>w. at["worker"] # "idle" => job["worker"] \in Rows
  BY WorkerRow, Columns, <1>t DEF TextInv
<1>l. Links
  BY DEF TextInv
<1>1. ASSUME NEW k \in TextKeys, Lookup(k) PROVE Links'
  <2>1. UNCHANGED <<table, chat, claims>>
    BY <1>1 DEF Lookup
  <2>2. PICK m \in Found(k) : plan' = [key |-> k, msg |-> m, allow |-> pause > 0]
    BY <1>1 DEF Lookup
  <2>3. m # 0 => ShowsChunk(m, k)
    <3>1. m # 0 => \E j \in TextKeys : m = known[j] /\ ChunkOf[j] = ChunkOf[k]
      BY DEF Found
    <3>2. \A j \in TextKeys : known[j] # 0 => ShowsChunk(known[j], j)
      BY <1>l DEF Links, IdsFit
    <3>3. QED
      BY <3>1, <3>2 DEF ShowsChunk
  <2>4. IdsFit'
    BY <1>l, <2>1, <2>2, <2>3 DEF Links, IdsFit, ShowsChunk, table, chat
  <2>5. AnswerFits' /\ CompletedStand'
    BY <1>l, <2>1 DEF Links, AnswerFits, CompletedStand, Stands, ShowsChunk, table, chat, claims
  <2>6. QED
    BY <2>4, <2>5 DEF Links
<1>2. CASE Submit
  <2>1. plan \in Plans
    BY <1>2, <1>t DEF Submit, TypeOK, MainOK
  <2>2. plan.key \in TextKeys /\ plan.msg \in 0..MaxMessages /\ plan.key \in Keys \cup {NoKey}
    BY <2>1 DEF Plans, Keys
  <2>3. PICK o \in {"send", "edit"} : /\ Enqueue(o, plan.key, plan.msg)
                                      /\ o = "edit" => plan.msg # 0
    BY <1>2 DEF Submit
  <2>4. plan.msg # 0 => ShowsChunk(plan.msg, plan.key)
    BY <1>l DEF Links, IdsFit
  <2>5. plan' = NoPlan
    BY <1>2 DEF Submit
  <2>6. QED
    BY <2>2, <2>3, <2>4, <2>5, EnqueueLinks DEF Ops
<1>3. CASE Reply
  <2>1. Enqueue("send", NoKey, 0) /\ plan' = plan
    BY <1>3 DEF Reply
  <2>2. QED
    BY <2>1, <1>p, <1>t, ZeroInRange, EnqueueLinks DEF Ops
<1>4. ASSUME NEW k \in TypingKeys, Typing(k) PROVE Links'
  <2>1. Enqueue("typing", k, 0) /\ plan' = plan
    BY <1>4 DEF Typing, main
  <2>2. QED
    BY <2>1, <1>p, ZeroInRange, EnqueueLinks DEF Ops, Keys
<1>5. ASSUME NEW m \in Messages, NEW waits \in BOOLEAN, Delete(m, waits) PROVE Links'
  <2>1. m \in 0..MaxMessages
    BY QueueAssumption DEF Messages
  <2>2. Enqueue("delete", NoKey, m) /\ plan' = plan
    BY <1>5 DEF Delete
  <2>3. QED
    BY <2>1, <2>2, <1>p, <1>t, EnqueueLinks DEF Ops
<1>6. CASE CancelLive \/ NewGroup \/ EndTurn \/ WaitReturns
  <2>1. UNCHANGED <<last, op, key, target, known, posted, shown, plan, at, job, got>>
    BY <1>6 DEF CancelLive, NewGroup, EndTurn, WaitReturns, table, chat, claims, main
  <2>2. \A r \in Rows : status'[r] = "completed" => status[r] = "completed"
    BY <1>6 DEF CancelLive, NewGroup, EndTurn, WaitReturns, table
  <2>3. TextsKept
    BY <2>1, SameChatKeeps
  <2>4. QED
    BY <2>1, <2>2, <2>3, <1>l, <1>p, <1>w, LinksKept
<1>7. QED
  BY <1>1, <1>2, <1>3, <1>4, <1>5, <1>6 DEF Produce

(* The ids a transaction writes fit their keys. *)
NewIdsFit ==
    /\ \A k \in TextKeys : known'[k] \in {known[k], 0} \/ ShowsChunk(known'[k], k)
    /\ \A q \in Rows : key[q] \in TextKeys => target'[q] = target[q] \/ ShowsChunk(target'[q], key[q])
    /\ \A q \in Rows : op'[q] = "edit" => key[q] \in TextKeys /\ target'[q] # 0

LEMMA SettleLinks ==
    ASSUME TextInv, NEW s \in {"queued", "completed", "failed"}, Settles("worker", s), NewIdsFit,
           plan' = plan, s = "completed" /\ key[job["worker"]] \in AnswerKeys => Stands(job["worker"])
    PROVE  Links'
<1> USE DEF Settles
<1>t. TypeOK /\ Links
  BY DEF TextInv, PostInv
<1>1. UNCHANGED <<key, posted, shown, plan>> /\ at'["worker"] = "idle"
  BY <1>t, Columns DEF chat
<1>2. \A m, k : ShowsChunk(m, k)' <=> ShowsChunk(m, k)
  BY <1>1 DEF ShowsChunk
<1>3. \A n \in Rows : Stands(n)' <=> Stands(n)
  BY <1>1 DEF Stands, ShowsChunk
<1>4. IdsFit'
  <2>1. ASSUME NEW k \in TextKeys, NEW m, m = known'[k], m # 0 PROVE ShowsChunk(m, k)
    BY <2>1, <1>t DEF NewIdsFit, Links, IdsFit
  <2>2. ASSUME NEW q \in Rows, key[q] \in TextKeys, NEW m, m = target'[q], m # 0
        PROVE  ShowsChunk(m, key[q])
    BY <2>2, <1>t DEF NewIdsFit, Links, IdsFit
  <2>3. plan.msg # 0 => ShowsChunk(plan.msg, plan.key)
    BY <1>t DEF Links, IdsFit
  <2>4. QED
    BY <1>1, <2>1, <2>2, <2>3 DEF NewIdsFit, IdsFit, ShowsChunk
<1>5. AnswerFits'
  BY <1>1 DEF AnswerFits
<1>6. CompletedStand'
  <2> SUFFICES ASSUME NEW n \in Rows, status'[n] = "completed", key[n] \in AnswerKeys
               PROVE  Stands(n)
    BY <1>1, <1>3 DEF CompletedStand
  <2>1. status[n] = "completed" \/ (n = job["worker"] /\ s = "completed")
    BY <1>t, Columns
  <2>2. QED
    BY <2>1, <1>t DEF Links, CompletedStand
<1>7. QED
  BY <1>4, <1>5, <1>6 DEF Links

(* A call that succeeds leaves its text in the message whose id it returns. *)
LEMMA SuccessLinks ==
    ASSUME TextInv, CallSucceeds("worker")
    PROVE  Links'
<1>t. TypeOK /\ Links /\ OpFitsKey
  BY DEF TextInv, PostInv
<1>1. PICK r \in Rows : r = job["worker"]
  BY WorkerRow, Columns, <1>t DEF TextInv, CallSucceeds
<1>2. /\ Effect(r) /\ UNCHANGED <<status, op, key, target, known, job, plan>>
      /\ "worker" \in Claimers /\ at["worker"] = "call"
  BY <1>1 DEF CallSucceeds, table, main, Claimers
<1>3. TextsKept
  BY <1>1, <1>2, EffectKeeps
<1>4. /\ at'["worker"] = "ok"
      /\ got'["worker"] = CASE op[r] = "send" -> posted' [] op[r] = "edit" -> target[r] [] OTHER -> 0
  BY <1>t, <1>1, <1>2 DEF CallSucceeds, TypeOK, ClaimsOK
<1>5. ASSUME NEW k \in TextKeys, k = key[r], NEW m, m = got'["worker"]
      PROVE  m # 0 /\ ShowsChunk(m, k)' /\ m \in 1..posted' /\ shown'[m] = r
  <2>1. op[r] \in {"send", "edit"}
    BY <1>t, <1>5 DEF OpFitsKey
  <2>2. CASE op[r] = "send"
    <3>1. PostMessage(r) /\ m = posted'
      BY <2>2, <1>2, <1>4, <1>5, EffectPosts
    <3>2. m = posted + 1 /\ m \in Messages /\ shown'[m] = r
      BY <3>1, <1>t, QueueAssumption DEF PostMessage, TypeOK, ChatOK, Messages
    <3>3. m # 0 /\ m \in 1..posted'
      BY <3>1, <3>2 DEF Messages
    <3>4. QED
      BY <3>2, <3>3, <1>2, <1>5 DEF ShowsChunk
  <2>3. CASE op[r] = "edit"
    <3>1. EditMessage(r) /\ m = target[r] /\ m # 0 /\ ShowsChunk(m, k)
      BY <2>3, <1>2, <1>4, <1>5, <1>t DEF Effect, Links, IdsFit
    <3>2. m \in 1..posted /\ m \in Messages
      BY <3>1, ChatTypes DEF ShowsChunk
    <3>3. shown'[m] = r /\ m \in 1..posted'
      BY <3>1, <3>2, <1>t DEF EditMessage, TypeOK, ChatOK
    <3>4. QED
      BY <3>1, <3>3, <1>3 DEF TextsKept
  <2>4. QED
    BY <2>1, <2>2, <2>3
<1>6. AnswerFits'
  <2> SUFFICES ASSUME key[r] \in TextKeys, NEW k, k = key[r], NEW m, m = got'["worker"]
               PROVE  m # 0 /\ ShowsChunk(m, k)' /\ Stands(r)'
    BY <1>1, <1>2, <1>4 DEF AnswerFits, ShowsChunk, Stands
  <2>1. m # 0 /\ ShowsChunk(m, k)' /\ m \in 1..posted' /\ shown'[m] = r
    BY <1>5
  <2>2. shown'[m] >= r
    BY <2>1 DEF Rows
  <2>3. Stands(r)'
    BY <2>1, <2>2, <1>2 DEF Stands, ShowsChunk
  <2>4. QED
    BY <2>1, <2>3
<1>7. IdsFit'
  BY <1>2, <1>3, <1>t DEF Links, IdsFit, TextsKept, ShowsChunk
<1>8. CompletedStand'
  BY <1>2, <1>3, <1>t DEF Links, CompletedStand, TextsKept, AnswerKeys, TextKeys
<1>9. QED
  BY <1>6, <1>7, <1>8 DEF Links

LEMMA ProcessNextLinks == TextInv /\ ProcessNext("worker") => Links'
<1> SUFFICES ASSUME TextInv, ProcessNext("worker") PROVE Links'
  OBVIOUS
<1> DEFINE r == job["worker"]
<1>t. /\ TypeOK /\ Links /\ OpFitsKey /\ AnswerIsTrue /\ NoKey \notin TextKeys
      /\ TextKeys \cap TypingKeys = {} /\ LiveKeys \cap AnswerKeys = {} /\ "worker" \in Claimers
  BY QueueAssumption DEF TextInv, PostInv, Keys, Claimers
<1>p. plan.msg # 0 => plan.key \in TextKeys
  BY <1>t DEF TypeOK, MainOK, Plans, NoPlan
<1>w. at["worker"] # "idle" => r \in Rows
  BY WorkerRow, <1>t DEF TextInv
<1>i. /\ \A q \in Rows : op[q] = "edit" => key[q] \in TextKeys /\ target[q] # 0
      /\ \A q \in Rows : key[q] \in TextKeys /\ target[q] # 0 => ShowsChunk(target[q], key[q])
  BY <1>t DEF Links, IdsFit
<1>1. CASE \/ Claim("worker") \/ StartCall("worker") \/ CallIsRejected("worker")
           \/ CallIsLimited("worker") \/ CallFails("worker")
  <2>1. UNCHANGED <<last, op, key, target, known, posted, shown, plan>>
    BY <1>1 DEF Claim, StartCall, CallIsRejected, CallIsLimited, CallFails, table, chat, main
  <2>2. \A q \in Rows : status'[q] = "completed" => status[q] = "completed"
    BY <1>1, <1>t DEF Claim, StartCall, CallIsRejected, CallIsLimited, CallFails, table, TypeOK, TableOK
  <2>3. at'["worker"] \notin {"ok", "noop"}
    BY <1>1, <1>t DEF Claim, StartCall, CallIsRejected, CallIsLimited, CallFails, TypeOK, ClaimsOK
  <2>4. TextsKept
    BY <2>1, SameChatKeeps
  <2>5. QED
    BY <2>1, <2>2, <2>3, <2>4, <1>t, <1>p, <1>w, LinksKept
<1>2. CASE CallSucceeds("worker")
  BY <1>2, SuccessLinks
<1>3. CASE AnswerLost("worker")
  <2>1. UNCHANGED <<status, op, key, target, known, plan, job>> /\ at["worker"] # "idle" /\ Effect(r)
    BY <1>3 DEF AnswerLost, table, main
  <2>2. at'["worker"] = "failed"
    BY <1>3, <1>t DEF AnswerLost, TypeOK, ClaimsOK
  <2>3. TextsKept
    BY <2>1, <1>t, EffectKeeps
  <2>4. QED
    BY <2>1, <2>2, <2>3, <1>t, <1>p, <1>w, LinksKept
<1>4. CASE CallIsNoop("worker")
  <2>1. UNCHANGED <<status, op, key, target, known, posted, shown, plan, job, got>>
    BY <1>4 DEF CallIsNoop, table, chat, main
  <2>2. at'["worker"] = "noop" /\ r \in Rows
    BY <1>4, <1>t, <1>w DEF CallIsNoop, TypeOK, ClaimsOK
  <2>3. key[r] \in TextKeys => Stands(r)
    <3> SUFFICES ASSUME key[r] \in TextKeys PROVE Stands(r)
      OBVIOUS
    <3>1. op[r] \in {"send", "edit"}
      BY <2>2, <1>t DEF OpFitsKey
    <3>2. op[r] = "edit" /\ shown[target[r]] = r
      BY <1>4, <3>1 DEF CallIsNoop
    <3>3. ShowsChunk(target[r], key[r])
      BY <2>2, <3>2, <1>i
    <3>4. QED
      BY <2>2, <3>2, <3>3 DEF Stands, ShowsChunk, Rows
  <2>4. IdsFit' /\ CompletedStand'
    BY <2>1, <1>t DEF Links, IdsFit, CompletedStand, Stands, ShowsChunk
  <2>5. AnswerFits'
    BY <2>1, <2>2, <2>3 DEF AnswerFits, Stands, ShowsChunk
  <2>6. QED
    BY <2>4, <2>5 DEF Links
<1>5. CASE SkipStale("worker")
  <2>1. Settles("worker", "completed") /\ plan' = plan /\ r \in Rows /\ UNCHANGED <<op, target>>
    BY <1>5, <1>w DEF SkipStale, process, main, Settles, OpsPromoted
  <2>2. NewIdsFit
    BY <1>5, <2>1, <1>i, <1>t DEF SkipStale, NewIdsFit, TypeOK, TableOK, Keys
  <2>3. key[r] \notin AnswerKeys
    BY <1>5, <1>t DEF SkipStale, Stale, IsLive, TextKeys
  <2>4. QED
    BY <2>1, <2>2, <2>3, SettleLinks
<1>6. CASE Complete("worker")
  <2> DEFINE m == got["worker"]
             kept == IF m # 0 THEN m ELSE target[r]
  <2>1. OpsPromoted
    <3>1. op' = [q \in Rows |-> IF q \in Promoted(r, m) THEN "edit" ELSE op[q]]
      BY <1>6 DEF Complete
    <3>2. \A q \in Promoted(r, m) : status[q] = "queued" /\ op[q] = "send"
      BY DEF Promoted
    <3>3. QED
      BY <3>1, <3>2 DEF OpsPromoted
  <2>2. Settles("worker", "completed") /\ plan' = plan
    BY <1>6, <2>1 DEF Complete, Return, process, main, Settles
  <2>3. /\ at["worker"] = "ok" /\ r \in Rows
        /\ op' = [q \in Rows |-> IF q \in Promoted(r, m) THEN "edit" ELSE op[q]]
        /\ target' = [q \in Rows |-> IF q = r THEN kept
                                     ELSE IF q \in Promoted(r, m) THEN m ELSE target[q]]
        /\ known' = IF key[r] # NoKey /\ kept # 0 THEN [known EXCEPT ![key[r]] = kept] ELSE known
    BY <1>6, <1>w DEF Complete
  <2>4. key[r] \in TextKeys => m # 0 /\ kept = m /\ ShowsChunk(m, key[r]) /\ Stands(r)
    BY <2>3, <1>t DEF Links, AnswerFits
  <2>5. \A q \in Promoted(r, m) : m # 0 /\ q # r /\ key[q] = key[r] /\ key[r] \in TextKeys
    <3> SUFFICES ASSUME NEW q \in Promoted(r, m) PROVE key[r] \in TextKeys
      BY DEF Promoted
    <3>1. op[r] = "send" /\ key[r] # NoKey
      BY DEF Promoted
    <3>2. key[r] \notin TypingKeys
      BY <2>3, <3>1, <1>t DEF OpFitsKey
    <3>3. QED
      BY <2>3, <3>1, <3>2, <1>t DEF TypeOK, TableOK, Keys
  <2>6. NewIdsFit
    <3>1. ASSUME NEW k \in TextKeys PROVE known'[k] \in {known[k], 0} \/ ShowsChunk(known'[k], k)
      <4>1. CASE k = key[r]
        BY <2>3, <2>4, <4>1, <1>t DEF TypeOK, TableOK, Keys
      <4>2. CASE k # key[r]
        BY <2>3, <4>2, <1>t DEF TypeOK, TableOK, Keys
      <4>3. QED
        BY <4>1, <4>2
    <3>2. ASSUME NEW q \in Rows, key[q] \in TextKeys
          PROVE  target'[q] = target[q] \/ ShowsChunk(target'[q], key[q])
      BY <2>3, <2>4, <2>5, <3>2
    <3>3. ASSUME NEW q \in Rows, op'[q] = "edit" PROVE key[q] \in TextKeys /\ target'[q] # 0
      <4>1. CASE q \in Promoted(r, m)
        BY <2>3, <2>5, <4>1
      <4>2. CASE q \notin Promoted(r, m)
        <5>1. key[q] \in TextKeys /\ target[q] # 0
          BY <2>3, <3>3, <4>2, <1>i
        <5>2. QED
          BY <2>3, <2>4, <4>2, <5>1
      <4>3. QED
        BY <4>1, <4>2
    <3>4. QED
      BY <3>1, <3>2, <3>3 DEF NewIdsFit
  <2>7. key[r] \in AnswerKeys => Stands(r)
    BY <2>4 DEF TextKeys
  <2>8. QED
    BY <2>2, <2>6, <2>7, SettleLinks
<1>7. CASE CompleteNoop("worker")
  <2>1. /\ Settles("worker", "completed") /\ plan' = plan /\ r \in Rows /\ UNCHANGED <<op, target>>
        /\ at["worker"] = "noop"
    BY <1>7, <1>w DEF CompleteNoop, Return, process, main, Settles, OpsPromoted
  <2>2. NewIdsFit
    BY <1>7, <2>1, <1>i, <1>t DEF CompleteNoop, NewIdsFit, TypeOK, TableOK, Keys
  <2>3. key[r] \in AnswerKeys => Stands(r)
    BY <2>1, <1>t DEF Links, AnswerFits, TextKeys
  <2>4. QED
    BY <2>1, <2>2, <2>3, SettleLinks
<1>8. CASE Requeue("worker") \/ Fail("worker")
  <2>1. PICK s \in {"queued", "failed"} : Settles("worker", s)
    BY <1>8 DEF Requeue, Fail, Return, process, Settles, OpsPromoted
  <2>2. UNCHANGED <<op, target, known, plan>>
    BY <1>8 DEF Requeue, Fail, main
  <2>3. NewIdsFit
    BY <2>2, <1>i DEF NewIdsFit
  <2>4. QED
    BY <2>1, <2>2, <2>3, SettleLinks
<1>9. QED
  BY <1>1, <1>2, <1>3, <1>4, <1>5, <1>6, <1>7, <1>8 DEF ProcessNext, Answer, Commit

LEMMA TextStep ==
    ASSUME SingleClaimer, TextInv, [Next]_vars
    PROVE  TextInv'
<1>1. QueueInv' /\ PostInv'
  BY StepInv, PostStep DEF TextInv
<1>2. Links'
  <2>t. TypeOK /\ Links /\ OnlyWorker
    BY DEF TextInv, PostInv, QueueInv
  <2>p. plan.msg # 0 => plan.key \in TextKeys
    BY <2>t DEF TypeOK, MainOK, Plans, NoPlan
  <2>w. at["worker"] # "idle" => job["worker"] \in Rows
    BY WorkerRow, Columns, <2>t DEF TextInv
  <2>1. CASE Produce
    BY <2>1, ProduceLinks
  <2>2. CASE ProcessNext("worker")
    BY <2>2, ProcessNextLinks
  <2>3. ~ProcessNext("main")
    BY <2>t DEF OnlyWorker, ProcessNext, Claim, MayClaim, SkipStale, StartCall, Answer, CallSucceeds,
                CallIsNoop, CallIsRejected, CallIsLimited, CallFails, AnswerLost, Commit, Complete,
                CompleteNoop, Requeue, Fail
  <2>4. ~(DatabaseError \/ BeginStop \/ FinishStop)
    BY <2>t DEF DatabaseError, BeginStop, FinishStop, Spend, OnlyWorker
  <2>5. CASE Tick \/ Crash \/ Start \/ UNCHANGED vars
    <3>1. UNCHANGED <<last, op, key, target, known, posted, shown>> /\ plan' \in {plan, NoPlan}
      BY <2>5 DEF Tick, Crash, ProcessEnds, Start, vars, table, chat, main
    <3>2. \A r \in Rows : status'[r] = "completed" => status[r] = "completed"
      <4>1. CASE Start
        <5>1. PICK alive : status' = [r \in Rows |-> IF r \in Orphaned(alive) THEN "queued" ELSE status[r]]
          BY <4>1 DEF Start
        <5>2. QED
          BY <5>1
      <4>2. CASE ~Start
        BY <2>5, <4>2 DEF Tick, Crash, ProcessEnds, vars, table
      <4>3. QED
        BY <4>1, <4>2
    <3>3. at'["worker"] \in {"ok", "noop"} =>
              /\ at'["worker"] = at["worker"] /\ job'["worker"] = job["worker"]
              /\ got'["worker"] = got["worker"]
      BY <2>5 DEF Tick, Crash, ProcessEnds, Start, vars, claims, Claimers
    <3>4. TextsKept
      BY <3>1, SameChatKeeps
    <3>5. QED
      BY <3>1, <3>2, <3>3, <3>4, <2>t, <2>p, <2>w, LinksKept
  <2>6. QED
    BY <2>1, <2>2, <2>3, <2>4, <2>5 DEF Next, Claimers
<1>3. QED
  BY <1>1, <1>2 DEF TextInv

LEMMA TextInit == SingleClaimer /\ Init => TextInv
<1> SUFFICES ASSUME SingleClaimer, Init PROVE TextInv
  OBVIOUS
<1>1. QueueInv /\ PostInv
  BY InitInv, PostInit
<1>2. IdsFit
  BY QueueAssumption DEF Init, IdsFit, NoPlan, Keys
<1>a. AnswerFits /\ CompletedStand
  BY DEF Init, AnswerFits, CompletedStand, Claimers
<1>3. QED
  BY <1>1, <1>2, <1>a DEF TextInv, Links

(* The text of an answer's row that completed stays on screen until a      *)
(* later text of its chunk replaces it: no promotion, replacement, stale   *)
(* check, retry or crash takes it away.                                    *)
THEOREM NewestTextIsShown ==
    ASSUME SingleClaimer
    PROVE  Spec => []NewestTextStands
<1>1. Init => TextInv
  BY TextInit
<1>2. TextInv /\ [Next]_vars => TextInv'
  BY TextStep
<1>3. TextInv => NewestTextStands
  BY DEF TextInv, Links, CompletedStand, Stands, ShowsChunk, NewestTextStands
<1>4. QED
  BY <1>1, <1>2, <1>3, PTL DEF Spec
=============================================================================
