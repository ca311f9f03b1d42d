--------------------------- MODULE InboundUpdates ---------------------------
(***************************************************************************)
(* The inbound side of the service: the thread that polls Telegram for     *)
(* updates, the queue and the gate between it and the main loop of         *)
(* run_service, and the table telegram_updates by which                    *)
(* process_telegram_update recognises an update it has seen.               *)
(*                                                                         *)
(* Updates are numbered by their update_id.  Telegram keeps an update      *)
(* until a getUpdates request carries a greater offset.                    *)
(***************************************************************************)
EXTENDS Integers, Sequences, FiniteSets

CONSTANTS
    MaxUpdates,   \* bound: updates the users ever send
    BatchSize,    \* the number of updates in one answer of getUpdates (100)
    MaxEntries,   \* TelegramUpdateStore.max_entries (1024)
    FaultBudget   \* bound: how often each kind of fault happens

FaultKinds == {"poll", "thread", "crash"}

ASSUME InboundAssumption ==
    /\ MaxUpdates \in Nat
    /\ BatchSize \in Nat \ {0}
    /\ MaxEntries \in Nat
    /\ BatchSize <= MaxEntries
    /\ FaultBudget \in [FaultKinds -> Nat]

Updates == 1..MaxUpdates

VARIABLES
    \* Telegram
    sent,       \* the number of updates sent by users so far
    confirmed,  \* the updates up to this one are no longer delivered
    \* the polling thread
    poller,     \* "idle", "gate" (it saw the gate open), "asking", "putting" or "dead"
    offset,     \* offset of its next request, 0 for None
    answer,     \* the updates it has received and not yet enqueued
    \* between the threads
    updates,    \* update_queue
    gate,       \* poll_gate
    \* the main loop
    main,       \* "wait", "drain", "taken" (an update popped), "handling" (it is marked) or "down"
    hand,       \* the update being processed, 0 for none
    \* the database
    processed,  \* telegram_updates, in the order of processed_at
    \* history
    handled,    \* the updates handled, in that order
    casualties, \* the updates in hand when the service died
    left        \* the faults that may still happen

telegram == <<sent, confirmed>>
thread   == <<poller, offset, answer>>
loop     == <<main, hand>>
history  == <<handled, casualties>>
vars     == <<telegram, thread, updates, gate, loop, processed, history, left>>

Spend(kind) == left[kind] > 0 /\ left' = [left EXCEPT ![kind] = @ - 1]

Init ==
    /\ sent = 0 /\ confirmed = 0
    /\ poller = "idle" /\ offset = 0 /\ answer = <<>>
    /\ updates = <<>> /\ gate = TRUE
    /\ main = "wait" /\ hand = 0
    /\ processed = <<>>
    /\ handled = <<>> /\ casualties = {}
    /\ left = FaultBudget

(* A user sends a message. *)
UserSends ==
    /\ sent < MaxUpdates
    /\ sent' = sent + 1
    /\ UNCHANGED <<confirmed, thread, updates, gate, loop, processed, history, left>>

-----------------------------------------------------------------------------
(* The polling thread.                                                     *)

(* The first half of "not poll_gate.is_set() or not update_queue.empty()". *)
SeesGate ==
    /\ poller = "idle"
    /\ gate
    /\ poller' = "gate"
    /\ UNCHANGED <<telegram, offset, answer, updates, gate, loop, processed, history, left>>

(* mutant: the thread does not wait for the main loop to empty the queue *)
AnyQueue == TRUE

(* The second half: the updates of the last answer are all taken. *)
NothingQueued == updates = <<>>

SeesQueue ==
    /\ poller = "gate"
    /\ poller' = IF NothingQueued THEN "asking" ELSE "idle"
    /\ UNCHANGED <<telegram, offset, answer, updates, gate, loop, processed, history, left>>

(* Telegram receives getUpdates(offset): it forgets the updates before the *)
(* offset and answers with the next ones.                                  *)
Forgets == IF offset > confirmed THEN offset - 1 ELSE confirmed

NextUpdates ==
    LET n == IF sent - Forgets < BatchSize THEN sent - Forgets ELSE BatchSize
    IN [i \in 1..n |-> Forgets + i]

Polls ==
    /\ poller = "asking"
    /\ confirmed' = Forgets
    /\ answer' = NextUpdates
    /\ poller' = IF NextUpdates = <<>> THEN "idle" ELSE "putting"
    /\ UNCHANGED <<sent, offset, updates, gate, loop, processed, history, left>>

(* The poll fails: the request is lost, or its answer is. *)
PollFails ==
    /\ poller = "asking"
    /\ Spend("poll")
    /\ confirmed' \in {confirmed, Forgets}
    /\ poller' = "idle"
    /\ UNCHANGED <<sent, offset, answer, updates, gate, loop, processed, history>>

(* One turn of "for update in updates": the offset passes the update, then *)
(* the update is enqueued.                                                 *)
Puts ==
    /\ poller = "putting"
    /\ offset' = Head(answer) + 1
    /\ updates' = Append(updates, Head(answer))
    /\ answer' = Tail(answer)
    /\ poller' = IF Tail(answer) = <<>> THEN "idle" ELSE "putting"
    /\ UNCHANGED <<telegram, gate, loop, processed, history, left>>

(* An exception outside the try block ends the thread.                     *)
ThreadDies ==
    /\ poller \in {"idle", "gate", "asking", "putting"}
    /\ Spend("thread")
    /\ poller' = "dead"
    /\ answer' = <<>>
    /\ UNCHANGED <<telegram, offset, updates, gate, loop, processed, history>>

-----------------------------------------------------------------------------
(* The main loop of run_service.                                           *)

(* A round starts: a dead polling thread is replaced, the gate is closed.  *)
StartsRound ==
    /\ main = "wait"
    /\ main' = "drain"
    /\ gate' = FALSE
    /\ IF poller = "dead"
       THEN poller' = "idle" /\ offset' = 0
       ELSE UNCHANGED <<poller, offset>>
    /\ UNCHANGED <<telegram, answer, updates, hand, processed, history, left>>

Takes ==
    /\ main = "drain"
    /\ updates # <<>>
    /\ hand' = Head(updates)
    /\ updates' = Tail(updates)
    /\ main' = "taken"
    /\ UNCHANGED <<telegram, thread, gate, processed, history, left>>

(* mutant: one entry too few is kept *)
TrimMore(rows) == IF Len(rows) >= MaxEntries THEN SubSeq(rows, Len(rows) - MaxEntries + 2, Len(rows)) ELSE rows

(* mutant: one entry too many is kept *)
TrimLess(rows) == IF Len(rows) > MaxEntries + 1 THEN Tail(rows) ELSE rows

(* _trim_old_entries: the newest max_entries rows stay. *)
Trim(rows) == IF Len(rows) > MaxEntries THEN SubSeq(rows, Len(rows) - MaxEntries + 1, Len(rows)) ELSE rows

IsProcessed(u) == \E i \in 1..Len(processed) : processed[i] = u

(* mark_processed: a transaction that inserts and trims; a duplicate       *)
(* violates the primary key, and process_telegram_update returns.          *)
Marks ==
    /\ main = "taken"
    /\ IF IsProcessed(hand)
       THEN main' = "drain" /\ hand' = 0 /\ UNCHANGED processed
       ELSE main' = "handling" /\ processed' = Trim(Append(processed, hand)) /\ UNCHANGED hand
    /\ UNCHANGED <<telegram, thread, updates, gate, history, left>>

(* The rest of process_telegram_update: a command, or a turn. *)
Handles ==
    /\ main = "handling"
    /\ handled' = Append(handled, hand)
    /\ hand' = 0
    /\ main' = "drain"
    /\ UNCHANGED <<telegram, thread, updates, gate, processed, casualties, left>>

(* queue.Empty: the round ends, the gate is opened. *)
EndsRound ==
    /\ main = "drain"
    /\ updates = <<>>
    /\ main' = "wait"
    /\ gate' = TRUE
    /\ UNCHANGED <<telegram, thread, updates, hand, processed, history, left>>

(* The service is killed, or process_telegram_update raises: whatever is   *)
(* in memory is lost.                                                      *)
Crash ==
    /\ main # "down"
    /\ Spend("crash")
    /\ main' = "down"
    /\ casualties' = casualties \cup ({hand} \ {0})
    /\ hand' = 0
    /\ poller' = "dead" /\ offset' = 0 /\ answer' = <<>>
    /\ updates' = <<>>
    /\ UNCHANGED <<telegram, gate, processed, handled>>

(* The next run_service, with a new polling thread. *)
Restart ==
    /\ main = "down"
    /\ main' = "wait"
    /\ gate' = TRUE
    /\ poller' = "idle"
    /\ UNCHANGED <<telegram, offset, answer, updates, hand, processed, history, left>>

-----------------------------------------------------------------------------
Poller == SeesGate \/ SeesQueue \/ Polls \/ PollFails \/ Puts
MainLoop == StartsRound \/ Takes \/ Marks \/ Handles \/ EndsRound

Next == UserSends \/ Poller \/ ThreadDies \/ MainLoop \/ Crash \/ Restart

Spec == Init /\ [][Next]_vars

(* Both threads keep running and the service manager restarts the service. *)
(* The gate opens and closes with every round; a round ends with a sleep   *)
(* of the main loop and the thread looks every 10 ms, so that a gate that  *)
(* opens again and again is seen open in the end: strong fairness.         *)
Fairness == /\ WF_vars(SeesQueue \/ Polls \/ Puts)
            /\ SF_vars(SeesGate)
            /\ WF_vars(MainLoop)
            /\ WF_vars(Restart)

FairSpec == Spec /\ Fairness
-----------------------------------------------------------------------------
TypeOK ==
    /\ sent \in 0..MaxUpdates
    /\ confirmed \in 0..sent
    /\ poller \in {"idle", "gate", "asking", "putting", "dead"}
    /\ offset \in 0..(MaxUpdates + 1)
    /\ answer \in Seq(Updates) /\ Len(answer) <= BatchSize
    /\ poller = "putting" <=> answer # <<>>
    /\ updates \in Seq(Updates)
    /\ gate \in BOOLEAN
    /\ main \in {"wait", "drain", "taken", "handling", "down"}
    /\ hand \in 0..MaxUpdates
    /\ hand = 0 <=> main \in {"wait", "drain", "down"}
    /\ processed \in Seq(Updates) /\ Len(processed) <= MaxEntries
    /\ handled \in Seq(Updates)
    /\ casualties \subseteq Updates
    /\ left \in [FaultKinds -> Nat]

(* "Duplicate Telegram update does not start duplicate turns": no update   *)
(* is handled twice, and no update overtakes another, whichever requests,  *)
(* threads and services are lost and whatever is trimmed from the table.   *)
HandledInOrder == \A i, j \in 1..Len(handled) : i < j => handled[i] < handled[j]

Handled == {handled[i] : i \in 1..Len(handled)}

(* A crash loses no more than the update in hand: every update Telegram    *)
(* has forgotten, or the table remembers, was handled, is in hand or was   *)
(* in hand when the service died.                                          *)
OnlyInHandAtRisk ==
    \A u \in Updates : u <= confirmed \/ IsProcessed(u) => u \in Handled \cup {hand} \cup casualties

-----------------------------------------------------------------------------
(* What the users are promised: Inbox.                                     *)

(* The update is on its way: it was in hand at a death, but Telegram sends *)
(* it again and the table does not know it, or it is being handled.        *)
OnItsWay(u) ==
    \/ u > confirmed /\ ~IsProcessed(u)
    \/ u = hand /\ ~(main = "taken" /\ IsProcessed(u))

Lost == {u \in casualties \ Handled : ~OnItsWay(u)}

Promise == INSTANCE Inbox WITH lost <- Lost, deaths <- FaultBudget["crash"] - left["crash"]

(* Polling, queue, table and main loop together keep the promise: one by   *)
(* one, in order, none twice, none skipped, at most one lost per death,    *)
(* and every update is handled in the end.                                 *)
KeepsPromise == Promise!FairSpec
=============================================================================
