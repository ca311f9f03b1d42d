---------------------------- MODULE InboundProofs ----------------------------
(***************************************************************************)
(* What the polling thread, the queue, the table telegram_updates and the  *)
(* main loop do together, for any number of updates and faults and any     *)
(* size of batches and of the table: no update is handled twice or out of  *)
(* order, none but the one in hand is ever lost, and every step is a step  *)
(* that Inbox allows.                                                      *)
(***************************************************************************)
EXTENDS ServiceLife, SequenceTheorems, TLAPS

(* The newest row of the table. *)
Top == IF processed = <<>> THEN 0 ELSE processed[Len(processed)]

(* An update that was dealt with, or is being handled. *)
Settled(u) == u \in Handled \cup casualties \/ (main = "handling" /\ u = hand)

(* An update that no longer comes, or that the table would turn away. *)
Known(u) == u <= confirmed \/ IsProcessed(u)

(* The table has its rows in the order of the updates.  Together with      *)
(* BatchSize <= MaxEntries the distances show that what is trimmed is      *)
(* never delivered again.                                                  *)
TableSpaced == \A i, j \in 1 .. Len(processed) : i <= j => processed[i] + (j - i) <= processed[j]

(* What Telegram may deliver again is still in the table. *)
TableCovers == \A u \in Updates : confirmed < u /\ u <= Top => IsProcessed(u)

(* All that is known was dealt with; the update in hand may be confirmed   *)
(* before it is marked.                                                    *)
KnownSettled ==
    \A u \in Updates : /\ IsProcessed(u) => Settled(u)
                       /\ u <= confirmed => Settled(u) \/ u = hand

HandledBelow ==
    /\ \A i \in 1 .. Len(handled) : handled[i] <= Top /\ (main = "handling" => handled[i] < hand)
    /\ main = "handling" => processed # <<>> /\ Top = hand

HandBounds == hand <= sent /\ hand <= confirmed + BatchSize

(* What is in front of the update in hand is known, and the table either   *)
(* knows it itself or nothing so new.                                      *)
HandReach ==
    /\ \A v \in 1 .. hand - 1 : Known(v)
    /\ main = "taken" => IsProcessed(hand) \/ Top < hand

QueueBounds ==
    \A i \in 1 .. Len(updates) :
        confirmed < updates[i] /\ updates[i] <= sent /\ updates[i] <= confirmed + BatchSize

(* What is in front of an update in the queue is known, in hand, or in the *)
(* queue in front of it.                                                   *)
QueueReach ==
    \A i \in 1 .. Len(updates) : \A v \in 1 .. updates[i] - 1 :
        Known(v) \/ v = hand \/ \E j \in 1 .. i - 1 : updates[j] = v

AnswerInv ==
    \A i \in 1 .. Len(answer) :
        answer[i] = Forgets + i /\ answer[i] <= sent /\ answer[i] <= confirmed + BatchSize

OffsetBounds == offset # 0 => confirmed < offset /\ offset <= sent + 1

(* The offset passes nothing that is not known, in hand or in the queue.   *)
OffsetReach ==
    \A v \in 1 .. offset - 1 : Known(v) \/ v = hand \/ \E j \in 1 .. Len(updates) : updates[j] = v

(* The thread asks when all it has put is taken; a service that is down    *)
(* has no thread.                                                          *)
ThreadInv ==
    /\ poller = "asking" => updates = <<>>
    /\ main = "down" => poller = "dead" /\ updates = <<>> /\ offset = 0

(* The inductive invariant: nothing in the pipeline from Telegram to the   *)
(* main loop overtakes or skips what is not yet known.                     *)
PipelineInv ==
    /\ TypeOK
    /\ TableSpaced /\ TableCovers /\ KnownSettled /\ HandledBelow
    /\ HandBounds /\ QueueBounds /\ AnswerInv /\ OffsetBounds
    /\ HandReach /\ QueueReach /\ OffsetReach /\ ThreadInv

-----------------------------------------------------------------------------
(* Sequences.                                                              *)

(* A nonempty sequence: its head and its tail. *)
LEMMA TailOf ==
  ASSUME NEW S, NEW s \in Seq(S), s # <<>>
  PROVE  /\ Head(s) = s[1] /\ Head(s) \in S /\ Len(s) \in Nat \ {0}
         /\ Tail(s) \in Seq(S) /\ Len(Tail(s)) = Len(s) - 1
         /\ \A i \in 1 .. Len(Tail(s)) : i + 1 \in 1 .. Len(s) /\ Tail(s)[i] = s[i + 1]
  BY HeadTailProperties, EmptySeq, LenProperties

(* An appended element is the last one. *)
LEMMA AppendOf ==
  ASSUME NEW S, NEW s \in Seq(S), NEW e \in S
  PROVE  /\ Append(s, e) \in Seq(S) /\ Append(s, e) # <<>>
         /\ Len(s) \in Nat /\ Len(Append(s, e)) = Len(s) + 1
         /\ Append(s, e)[Len(s) + 1] = e
         /\ \A i \in 1 .. Len(s) : Append(s, e)[i] = s[i]
  BY AppendProperties, LenProperties

(* The table after mark_processed(u), and how many rows that trims. *)
WithMark(rows, u) == Trim(Append(rows, u))
Trimmed(rows) == IF Len(rows) = MaxEntries THEN 1 ELSE 0

(* What _trim_old_entries keeps of a table that has just got a row: all    *)
(* but the first at most, and the new one at the end.                      *)
LEMMA TrimOf ==
  ASSUME NEW S, NEW rows \in Seq(S), NEW u \in S, Len(rows) <= MaxEntries
  PROVE  /\ WithMark(rows, u) \in Seq(S) /\ WithMark(rows, u) # <<>>
         /\ Len(rows) \in Nat
         /\ Len(WithMark(rows, u)) = Len(rows) + 1 - Trimmed(rows)
         /\ Len(WithMark(rows, u)) <= MaxEntries
         /\ \A i \in 1 .. Len(WithMark(rows, u)) : WithMark(rows, u)[i] = Append(rows, u)[i + Trimmed(rows)]
<1> DEFINE all  == Append(rows, u)
           kept == WithMark(rows, u)
<1>1. /\ all \in Seq(S) /\ Len(rows) \in Nat /\ Len(all) = Len(rows) + 1
      /\ all # <<>>
  BY AppendOf
<1>2. MaxEntries \in Nat \ {0}
  BY InboundAssumption
<1>3. CASE Len(rows) < MaxEntries
  <2>1. kept = all /\ Trimmed(rows) = 0
    BY <1>1, <1>2, <1>3 DEF Trim, Trimmed, WithMark
  <2> QED BY <1>1, <1>2, <1>3, <2>1
<1>4. CASE Len(rows) = MaxEntries
  <2>1. kept = SubSeq(all, 2, Len(all)) /\ Trimmed(rows) = 1
    BY <1>1, <1>2, <1>4 DEF Trim, Trimmed, WithMark
  <2>2. \A k \in 2 .. Len(all) : all[k] \in S
    BY <1>1, ElementOfSeq
  <2>3. /\ kept \in Seq(S)
        /\ Len(kept) = Len(all) - 1
        /\ \A i \in 1 .. Len(all) - 1 : kept[i] = all[i + 1]
    <3> HIDE DEF kept, all
    <3>1. Len(all) \in Int /\ 2 <= Len(all)
      BY <1>1, <1>2, <1>4
    <3>2. /\ kept \in Seq(S)
          /\ Len(kept) = Len(all) - 2 + 1
          /\ \A i \in 1 .. Len(all) - 2 + 1 : kept[i] = all[2 + i - 1]
      BY <2>1, <2>2, <3>1, SubSeqProperties
    <3> QED BY <3>1, <3>2
  <2> QED BY <1>1, <1>2, <1>4, <2>1, <2>3, EmptySeq
<1>5. Len(rows) < MaxEntries \/ Len(rows) = MaxEntries
  BY <1>1, <1>2
<1> QED BY <1>1, <1>3, <1>4, <1>5

-----------------------------------------------------------------------------
(* The inductive invariant.                                                *)

(* What the sequences hold. *)
LEMMA Elements ==
  ASSUME TypeOK
  PROVE  /\ Len(updates) \in Nat /\ \A i \in 1 .. Len(updates) : updates[i] \in Updates
         /\ Len(answer) \in Nat /\ \A i \in 1 .. Len(answer) : answer[i] \in Updates
         /\ Len(processed) \in Nat /\ \A i \in 1 .. Len(processed) : processed[i] \in Updates
         /\ Len(handled) \in Nat /\ \A i \in 1 .. Len(handled) : handled[i] \in Updates
         /\ sent \in Nat /\ confirmed \in Nat /\ hand \in Nat /\ offset \in Nat
         /\ \A u \in Updates : u \in Nat \ {0}
         /\ BatchSize \in Nat \ {0} /\ MaxEntries \in Nat /\ BatchSize <= MaxEntries
<1>1. \A s \in Seq(Updates) : Len(s) \in Nat /\ \A i \in 1 .. Len(s) : s[i] \in Updates
  BY ElementOfSeq, LenProperties
<1>2. sent \in Nat /\ confirmed \in Nat /\ hand \in Nat /\ offset \in Nat
  BY InboundAssumption DEF TypeOK
<1>3. \A u \in Updates : u \in Nat \ {0}
  BY InboundAssumption DEF Updates
<1> QED BY <1>1, <1>2, <1>3, InboundAssumption DEF TypeOK

LEMMA TopType == TypeOK => Top \in Nat /\ (processed # <<>> => Len(processed) >= 1 /\ Top \in Updates)
  BY Elements, EmptySeq DEF TypeOK, Top

(* Where the next answer begins, and what it holds. *)
LEMMA ForgetsType == PipelineInv => Forgets \in confirmed .. sent
  BY InboundAssumption DEF PipelineInv, TypeOK, OffsetBounds, Forgets

LEMMA AnswerOf ==
  ASSUME PipelineInv
  PROVE  /\ NextUpdates \in Seq(Updates) /\ Len(NextUpdates) <= BatchSize
         /\ \A i \in 1 .. Len(NextUpdates) :
                NextUpdates[i] = Forgets + i /\ NextUpdates[i] <= sent /\ i <= BatchSize
<1> DEFINE n == IF sent - Forgets < BatchSize THEN sent - Forgets ELSE BatchSize
<1>1. Forgets \in confirmed .. sent /\ confirmed \in 0 .. sent /\ sent \in 0 .. MaxUpdates
  BY ForgetsType DEF PipelineInv, TypeOK
<1>2. n \in Nat /\ n <= BatchSize /\ Forgets + n <= sent
  BY <1>1, InboundAssumption
<1>3. NextUpdates = [i \in 1 .. n |-> Forgets + i]
  BY DEF NextUpdates
<1> HIDE DEF n
<1>4. \A i \in 1 .. n : Forgets + i \in Updates /\ Forgets + i <= sent /\ i <= BatchSize
  BY <1>1, <1>2, InboundAssumption DEF Updates
<1>5. NextUpdates \in [1 .. n -> Updates]
  BY <1>3, <1>4
<1>6. NextUpdates \in Seq(Updates) /\ Len(NextUpdates) = n
  BY <1>2, <1>5, LenProperties
<1> QED BY <1>2, <1>3, <1>4, <1>6

(* A message changes nothing but what may come. *)
LEMMA UserSendsInv == PipelineInv /\ UserSends => PipelineInv'
<1> SUFFICES ASSUME PipelineInv, UserSends PROVE PipelineInv'
  OBVIOUS
<1>1. /\ sent' = sent + 1 /\ sent < MaxUpdates
      /\ UNCHANGED <<confirmed, poller, offset, answer, updates, gate, main, hand, processed, handled, casualties, left>>
  BY DEF UserSends, thread, loop, history
<1>2. TypeOK'
  BY <1>1, InboundAssumption DEF PipelineInv, TypeOK
<1>3. (TableSpaced /\ TableCovers /\ KnownSettled /\ HandledBelow
            /\ HandReach /\ QueueReach /\ OffsetReach /\ ThreadInv)'
  BY <1>1 DEF PipelineInv, TableSpaced, TableCovers, KnownSettled, HandledBelow, ThreadInv,
              HandReach, QueueReach, OffsetReach, Top, Settled, Handled, Known, IsProcessed
<1>4. (HandBounds /\ QueueBounds /\ AnswerInv /\ OffsetBounds)'
  <2>1. (HandBounds /\ OffsetBounds)'
    BY <1>1, Elements DEF PipelineInv, HandBounds, OffsetBounds
  <2>2. QueueBounds'
    BY <1>1, Elements DEF PipelineInv, QueueBounds
  <2>3. AnswerInv'
    <3>1. Forgets' = Forgets /\ answer' = answer /\ confirmed' = confirmed
      BY <1>1 DEF Forgets
    <3>2. ASSUME NEW k \in 1 .. Len(answer)
          PROVE  /\ answer[k] = Forgets + k /\ answer[k] <= confirmed + BatchSize
                 /\ answer[k] \in Nat /\ answer[k] <= sent /\ sent \in Nat
      BY <3>2, Elements DEF PipelineInv, AnswerInv
    <3>3. ASSUME NEW k \in 1 .. Len(answer) PROVE answer[k] <= sent'
      BY <1>1, <3>2, <3>3
    <3> QED BY <3>1, <3>2, <3>3 DEF AnswerInv
  <2> QED BY <2>1, <2>2, <2>3
<1> QED BY <1>2, <1>3, <1>4 DEF PipelineInv

(* The gate opens and closes, is looked at, the queue is; the loop's       *)
(* rounds, the ends of a thread, the next service: nothing moves in the    *)
(* pipeline, but what the thread has not put may be dropped and its offset *)
(* forgotten.                                                              *)
Quiet ==
    /\ UNCHANGED <<sent, confirmed, updates, hand, processed, handled, casualties>>
    /\ offset' = offset \/ (offset' = 0 /\ answer' = <<>>)
    /\ answer' = answer \/ answer' = <<>>
    /\ main' = "handling" <=> main = "handling"
    /\ main' = "taken" => main = "taken"

LEMMA QuietInv == PipelineInv /\ Quiet /\ TypeOK' /\ ThreadInv' => PipelineInv'
<1> SUFFICES ASSUME PipelineInv, Quiet, TypeOK', ThreadInv' PROVE PipelineInv'
  OBVIOUS
<1>1. /\ UNCHANGED <<sent, confirmed, updates, hand, processed, handled, casualties>>
      /\ main' = "handling" <=> main = "handling"
      /\ main' = "taken" => main = "taken"
  BY DEF Quiet
<1>2. (TableSpaced /\ TableCovers /\ KnownSettled /\ HandledBelow /\ HandReach /\ QueueReach)'
  BY <1>1 DEF PipelineInv, TableSpaced, TableCovers, KnownSettled, HandledBelow,
              HandReach, QueueReach, Top, Settled, Handled, Known, IsProcessed
<1>3. (HandBounds /\ QueueBounds)'
  BY <1>1 DEF PipelineInv, HandBounds, QueueBounds
<1>4. (OffsetBounds /\ OffsetReach)'
  BY <1>1 DEF PipelineInv, Quiet, OffsetBounds, OffsetReach, Known, IsProcessed
<1>5. AnswerInv'
  <2>1. CASE answer' = <<>>
    BY <2>1, EmptySeq DEF AnswerInv
  <2>2. CASE answer' = answer /\ offset' = offset
    BY <1>1, <2>2 DEF PipelineInv, AnswerInv, Forgets
  <2> QED BY <2>1, <2>2 DEF Quiet
<1> QED BY <1>2, <1>3, <1>4, <1>5 DEF PipelineInv

LEMMA ThreadQuietInv == PipelineInv /\ (SeesGate \/ SeesQueue \/ ThreadDies) => PipelineInv'
<1> SUFFICES ASSUME PipelineInv, SeesGate \/ SeesQueue \/ ThreadDies PROVE PipelineInv'
  OBVIOUS
<1>1. CASE SeesGate
  BY <1>1, QuietInv DEF SeesGate, telegram, loop, history, PipelineInv, Quiet, TypeOK, ThreadInv
<1>2. CASE SeesQueue
  BY <1>2, QuietInv DEF SeesQueue, NothingQueued, telegram, loop, history, PipelineInv, Quiet, TypeOK, ThreadInv
<1>3. CASE ThreadDies
  <2>1. TypeOK'
    <3>1. left' \in [FaultKinds -> Nat]
      BY <1>3 DEF ThreadDies, Spend, FaultKinds, PipelineInv, TypeOK
    <3>2. answer' = <<>> /\ answer' \in Seq(Updates) /\ Len(answer') = 0
      BY <1>3, EmptySeq DEF ThreadDies
    <3> QED BY <1>3, <3>1, <3>2, InboundAssumption DEF ThreadDies, telegram, loop, history, PipelineInv, TypeOK
  <2> QED BY <1>3, <2>1, QuietInv DEF ThreadDies, telegram, loop, history, PipelineInv, Quiet, ThreadInv
<1> QED BY <1>1, <1>2, <1>3

LEMMA LoopQuietInv == PipelineInv /\ (StartsRound \/ EndsRound \/ Restart) => PipelineInv'
<1> SUFFICES ASSUME PipelineInv, StartsRound \/ EndsRound \/ Restart PROVE PipelineInv'
  OBVIOUS
<1>1. CASE StartsRound
  <2>1. TypeOK' /\ ThreadInv'
    <3>1. poller' \in {"idle", "gate", "asking", "putting", "dead"} /\ offset' \in 0 .. (MaxUpdates + 1)
      BY <1>1, InboundAssumption DEF StartsRound, PipelineInv, TypeOK
    <3>2. /\ poller' = "putting" <=> poller = "putting"
          /\ poller' = "asking" <=> poller = "asking"
      BY <1>1 DEF StartsRound
    <3> QED BY <1>1, <3>1, <3>2 DEF StartsRound, telegram, history, PipelineInv, TypeOK, ThreadInv
  <2>2. Quiet
    BY <1>1 DEF StartsRound, telegram, loop, history, PipelineInv, TypeOK, Quiet
  <2> QED BY <2>1, <2>2, QuietInv
<1>2. CASE EndsRound
  BY <1>2, QuietInv DEF EndsRound, telegram, thread, history, PipelineInv, Quiet, TypeOK, ThreadInv
<1>3. CASE Restart
  BY <1>3, QuietInv DEF Restart, telegram, thread, loop, history, PipelineInv, Quiet, TypeOK, ThreadInv
<1> QED BY <1>1, <1>2, <1>3

(* A request with an offset confirms what was put: it is known by now, or  *)
(* in hand.                                                                *)
LEMMA AskInv ==
  ASSUME PipelineInv, poller = "asking", confirmed' \in {confirmed, Forgets},
         UNCHANGED <<sent, offset, updates, gate, main, hand, processed, handled, casualties>>,
         left' \in [FaultKinds -> Nat],
         \/ answer' = <<>> /\ poller' = "idle"
         \/ confirmed' = Forgets /\ answer' = NextUpdates /\ poller' = IF NextUpdates = <<>> THEN "idle" ELSE "putting"
  PROVE  PipelineInv'
<1>1. Forgets \in confirmed .. sent /\ updates = <<>> /\ updates' = <<>>
  BY ForgetsType DEF PipelineInv, ThreadInv
<1>2. TypeOK'
  <2>1. answer' \in Seq(Updates) /\ Len(answer') <= BatchSize
    <3>1. NextUpdates \in Seq(Updates) /\ Len(NextUpdates) <= BatchSize
      BY AnswerOf
    <3>2. <<>> \in Seq(Updates) /\ Len(<<>>) <= BatchSize
      BY EmptySeq, InboundAssumption
    <3> QED BY <3>1, <3>2
  <2>2. confirmed' \in 0 .. sent'
    BY <1>1, Elements DEF PipelineInv, TypeOK
  <2>3. /\ poller' \in {"idle", "gate", "asking", "putting", "dead"}
        /\ poller' = "putting" <=> answer' # <<>>
    BY DEF PipelineInv, TypeOK
  <2> QED BY <2>1, <2>2, <2>3 DEF PipelineInv, TypeOK
<1>3. confirmed' \in Nat /\ confirmed <= confirmed'
  BY <1>1, Elements DEF PipelineInv
<1>4. \A u \in Nat : Known(u) => Known(u)'
  BY <1>3, Elements DEF Known, IsProcessed, PipelineInv
<1>5. (TableSpaced /\ TableCovers /\ HandledBelow /\ HandBounds)'
  <2>1. (TableSpaced /\ HandledBelow)'
    BY DEF PipelineInv, TableSpaced, HandledBelow, Top
  <2>2. TableCovers'
    BY <1>3, Elements DEF PipelineInv, TableCovers, Top, IsProcessed
  <2>3. HandBounds'
    BY <1>3, Elements DEF PipelineInv, HandBounds
  <2> QED BY <2>1, <2>2, <2>3
<1>6. KnownSettled'
  <2>1. \A u \in Updates : u <= Forgets => Settled(u) \/ u = hand
    <3>1. SUFFICES ASSUME NEW u \in Updates, confirmed < u, u <= offset - 1
                   PROVE  Settled(u) \/ u = hand
      BY Elements DEF PipelineInv, Forgets, KnownSettled
    <3>2. Known(u) \/ u = hand
      BY <1>1, <3>1, Elements, EmptySeq DEF PipelineInv, OffsetReach
    <3> QED BY <3>2 DEF PipelineInv, KnownSettled, Known
  <2> QED BY <2>1, <1>3, Elements DEF PipelineInv, KnownSettled, Settled, Handled, IsProcessed
<1>7. (HandReach /\ QueueReach /\ QueueBounds)'
  BY <1>1, <1>4, Elements, EmptySeq DEF PipelineInv, HandReach, QueueReach, QueueBounds, Top, IsProcessed
<1>8. (OffsetBounds /\ OffsetReach /\ ThreadInv)'
  BY <1>1, <1>4, Elements DEF PipelineInv, OffsetBounds, OffsetReach, ThreadInv, Forgets
<1>9. AnswerInv'
  <2>1. CASE answer' = <<>>
    BY <2>1, EmptySeq DEF AnswerInv
  <2>2. CASE confirmed' = Forgets /\ answer' = NextUpdates
    <3>1. Forgets' = Forgets
      BY <2>2, <1>1, Elements DEF PipelineInv, Forgets, OffsetBounds
    <3> QED BY <1>1, <2>2, <3>1, AnswerOf, Elements DEF PipelineInv, AnswerInv
  <2> QED BY <2>1, <2>2
<1> QED BY <1>2, <1>5, <1>6, <1>7, <1>8, <1>9 DEF PipelineInv

LEMMA PollsInv == PipelineInv /\ (Polls \/ PollFails) => PipelineInv'
<1>1. PipelineInv /\ Polls => PipelineInv'
  BY AskInv DEF Polls, loop, history, PipelineInv, TypeOK
<1>2. PipelineInv /\ PollFails => PipelineInv'
  BY AskInv DEF PollFails, Spend, FaultKinds, loop, history, PipelineInv, TypeOK
<1> QED BY <1>1, <1>2

(* Putting an update: the offset passes it, all in front of it is known or *)
(* in the pipeline.                                                        *)
LEMMA PutsInv == PipelineInv /\ Puts => PipelineInv'
<1> SUFFICES ASSUME PipelineInv, Puts PROVE PipelineInv'
  OBVIOUS
<1> DEFINE u == Head(answer)
<1>1. /\ offset' = u + 1 /\ updates' = Append(updates, u) /\ answer' = Tail(answer)
      /\ poller' = IF Tail(answer) = <<>> THEN "idle" ELSE "putting"
      /\ poller = "putting"
      /\ UNCHANGED <<sent, confirmed, gate, main, hand, processed, handled, casualties, left>>
  BY DEF Puts, telegram, loop, history
<1>2. answer # <<>> /\ answer \in Seq(Updates) /\ Len(answer) <= BatchSize /\ main # "down"
  BY <1>1 DEF PipelineInv, TypeOK, ThreadInv
<1>3. /\ u = answer[1] /\ u \in Updates /\ Len(answer) \in Nat \ {0}
      /\ Tail(answer) \in Seq(Updates) /\ Len(Tail(answer)) = Len(answer) - 1
      /\ \A i \in 1 .. Len(Tail(answer)) : i + 1 \in 1 .. Len(answer) /\ Tail(answer)[i] = answer[i + 1]
  BY <1>2, TailOf
<1>4. u = Forgets + 1 /\ u <= sent /\ u <= confirmed + BatchSize /\ Forgets \in confirmed .. sent
  BY <1>3, ForgetsType DEF PipelineInv, AnswerInv
<1>5. /\ updates' \in Seq(Updates) /\ updates' # <<>> /\ Len(updates) \in Nat
      /\ Len(updates') = Len(updates) + 1
      /\ updates'[Len(updates) + 1] = u
      /\ \A i \in 1 .. Len(updates) : updates'[i] = updates[i]
  BY <1>1, <1>3, AppendOf DEF PipelineInv, TypeOK
<1> HIDE DEF u
<1>6. TypeOK'
  <2>1. offset' \in 0 .. (MaxUpdates + 1)
    BY <1>1, <1>3, InboundAssumption DEF Updates
  <2>2. Len(answer') <= BatchSize
    BY <1>1, <1>2, <1>3, InboundAssumption
  <2>3. /\ poller' \in {"idle", "gate", "asking", "putting", "dead"}
        /\ poller' = "putting" <=> answer' # <<>>
    BY <1>1
  <2> QED BY <1>1, <1>3, <1>5, <2>1, <2>2, <2>3 DEF PipelineInv, TypeOK
<1>7. (TableSpaced /\ TableCovers /\ KnownSettled /\ HandledBelow /\ HandReach /\ HandBounds)'
  BY <1>1 DEF PipelineInv, TableSpaced, TableCovers, KnownSettled, HandledBelow,
              HandReach, HandBounds, Top, Settled, Handled, Known, IsProcessed
<1>8. \A v \in 1 .. u - 1 : Known(v) \/ v = hand \/ \E j \in 1 .. Len(updates) : updates[j] = v
  BY <1>4, Elements DEF PipelineInv, OffsetReach, Forgets, Known
<1>9. QueueBounds'
  <2> SUFFICES ASSUME NEW i \in 1 .. Len(updates) + 1
               PROVE  confirmed < updates'[i] /\ updates'[i] <= sent /\ updates'[i] <= confirmed + BatchSize
    BY <1>1, <1>5 DEF QueueBounds
  <2>1. CASE i = Len(updates) + 1
    BY <1>4, <1>5, <2>1, Elements DEF PipelineInv
  <2>2. CASE i \in 1 .. Len(updates)
    BY <1>5, <2>2 DEF PipelineInv, QueueBounds
  <2> QED BY <1>5, <2>1, <2>2
<1>10. QueueReach'
  <2> SUFFICES ASSUME NEW i \in 1 .. Len(updates) + 1, NEW v \in 1 .. updates'[i] - 1
               PROVE  Known(v) \/ v = hand \/ \E j \in 1 .. i - 1 : updates'[j] = v
    BY <1>1, <1>5 DEF QueueReach, Known, IsProcessed
  <2>1. CASE i = Len(updates) + 1
    BY <1>5, <1>8, <2>1
  <2>2. CASE i \in 1 .. Len(updates)
    <3>1. Known(v) \/ v = hand \/ \E j \in 1 .. i - 1 : updates[j] = v
      BY <1>5, <2>2 DEF PipelineInv, QueueReach
    <3> QED BY <1>5, <2>2, <3>1
  <2> QED BY <1>5, <2>1, <2>2
<1>11. OffsetBounds'
  BY <1>1, <1>4, Elements DEF PipelineInv, OffsetBounds
<1>12. OffsetReach'
  <2> SUFFICES ASSUME NEW v \in 1 .. u
               PROVE  Known(v) \/ v = hand \/ \E j \in 1 .. Len(updates) + 1 : updates'[j] = v
    <3>1. offset' - 1 = u
      BY <1>1, <1>3, Elements DEF PipelineInv
    <3>2. hand' = hand /\ \A v : Known(v)' <=> Known(v)
      BY <1>1 DEF Known, IsProcessed
    <3> QED BY <1>5, <3>1, <3>2 DEF OffsetReach
  <2>1. CASE v = u
    BY <1>5, <2>1
  <2>2. CASE v \in 1 .. u - 1
    BY <1>5, <1>8, <2>2
  <2> QED BY <1>4, <2>1, <2>2, Elements DEF PipelineInv
<1>13. AnswerInv'
  <2>1. Forgets' = Forgets + 1
    <3>1. offset' > confirmed' /\ offset' - 1 = u
      BY <1>1, <1>3, <1>4, Elements DEF PipelineInv
    <3> QED BY <1>4, <3>1 DEF Forgets
  <2> QED BY <1>1, <1>3, <1>4, <2>1, Elements DEF PipelineInv, AnswerInv
<1>14. ThreadInv'
  BY <1>1, <1>2 DEF ThreadInv
<1> QED BY <1>6, <1>7, <1>9, <1>10, <1>11, <1>12, <1>13, <1>14 DEF PipelineInv

(* Taking an update out of the queue: nothing was in hand. *)
LEMMA TakesInv == PipelineInv /\ Takes => PipelineInv'
<1> SUFFICES ASSUME PipelineInv, Takes PROVE PipelineInv'
  OBVIOUS
<1> DEFINE u == Head(updates)
<1>1. /\ main = "drain" /\ updates # <<>> /\ hand' = u /\ updates' = Tail(updates) /\ main' = "taken"
      /\ hand = 0
      /\ UNCHANGED <<sent, confirmed, poller, offset, answer, gate, processed, handled, casualties, left>>
  BY DEF Takes, telegram, thread, history, PipelineInv, TypeOK
<1>2. /\ u = updates[1] /\ u \in Updates /\ Len(updates) \in Nat \ {0}
      /\ Tail(updates) \in Seq(Updates) /\ Len(Tail(updates)) = Len(updates) - 1
      /\ \A i \in 1 .. Len(Tail(updates)) : i + 1 \in 1 .. Len(updates) /\ Tail(updates)[i] = updates[i + 1]
  BY <1>1, TailOf DEF PipelineInv, TypeOK
<1> HIDE DEF u
<1>3. /\ confirmed < u /\ u <= sent /\ u <= confirmed + BatchSize
      /\ \A v \in 1 .. u - 1 : Known(v)
  <2>1. \A v \in 1 .. u - 1 : Known(v) \/ v = hand
    BY <1>2 DEF PipelineInv, QueueReach
  <2> QED BY <1>1, <1>2, <2>1 DEF PipelineInv, QueueBounds
<1>4. TypeOK'
  BY <1>1, <1>2, InboundAssumption DEF PipelineInv, TypeOK, Updates
<1>5. (TableSpaced /\ TableCovers /\ HandledBelow /\ AnswerInv /\ OffsetBounds)'
  BY <1>1 DEF PipelineInv, TableSpaced, TableCovers, HandledBelow, AnswerInv, OffsetBounds,
              Top, IsProcessed, Forgets
<1>6. KnownSettled' /\ HandBounds'
  BY <1>1, <1>3, Elements
     DEF PipelineInv, KnownSettled, Settled, Handled, IsProcessed, HandBounds, Updates
<1>7. HandReach'
  <2>1. IsProcessed(u) \/ Top < u
    BY <1>2, <1>3, Elements, TopType DEF PipelineInv, TableCovers
  <2> QED BY <1>1, <1>3, <2>1 DEF HandReach, Known, IsProcessed, Top
<1>8. QueueBounds'
  BY <1>1, <1>2 DEF PipelineInv, QueueBounds
<1>9. \A i \in 1 .. Len(updates) : \A v : v = updates[i] => v = u \/ \E k \in 1 .. i - 1 : updates'[k] = v
  <2> SUFFICES ASSUME NEW i \in 1 .. Len(updates), i # 1
               PROVE  \E k \in 1 .. i - 1 : updates'[k] = updates[i]
    BY <1>2
  <2>1. i - 1 \in 1 .. Len(Tail(updates)) /\ updates'[i - 1] = updates[i]
    BY <1>1, <1>2
  <2> QED BY <2>1, <1>2
<1>10. QueueReach'
  <2> SUFFICES ASSUME NEW i \in 1 .. Len(updates) - 1, NEW v \in 1 .. updates[i + 1] - 1
               PROVE  Known(v) \/ v = u \/ \E j \in 1 .. i - 1 : updates'[j] = v
    <3>1. /\ Len(updates') = Len(updates) - 1
          /\ \A k \in 1 .. Len(updates') : updates'[k] = updates[k + 1]
      BY <1>1, <1>2
    <3>2. hand' = u /\ \A w : Known(w)' <=> Known(w)
      BY <1>1 DEF Known, IsProcessed
    <3> QED BY <3>1, <3>2 DEF QueueReach
  <2>1. Known(v) \/ v = hand \/ \E j \in 1 .. i : updates[j] = v
    BY <1>2 DEF PipelineInv, QueueReach
  <2>2. ASSUME NEW j \in 1 .. i, updates[j] = v
        PROVE  v = u \/ \E k \in 1 .. i - 1 : updates'[k] = v
    BY <1>2, <1>9, <2>2
  <2> QED BY <1>1, <2>1, <2>2
<1>11. OffsetReach'
  <2> SUFFICES ASSUME NEW v \in 1 .. offset - 1
               PROVE  Known(v) \/ v = u \/ \E j \in 1 .. Len(updates) - 1 : updates'[j] = v
    BY <1>1, <1>2 DEF OffsetReach, Known, IsProcessed
  <2>1. Known(v) \/ v = hand \/ \E j \in 1 .. Len(updates) : updates[j] = v
    BY DEF PipelineInv, OffsetReach
  <2>2. ASSUME NEW j \in 1 .. Len(updates), updates[j] = v
        PROVE  v = u \/ \E k \in 1 .. Len(updates) - 1 : updates'[k] = v
    BY <1>2, <1>9, <2>2
  <2> QED BY <1>1, <2>1, <2>2
<1>12. ThreadInv'
  BY <1>1, EmptySeq DEF PipelineInv, ThreadInv
<1> QED BY <1>4, <1>5, <1>6, <1>7, <1>8, <1>10, <1>11, <1>12 DEF PipelineInv

(* What the table forgets with a row that is new to it, Telegram does not  *)
(* deliver again: the rows are as many as a batch, and in order.           *)
LEMMA MarkOf ==
  ASSUME PipelineInv, main = "taken", ~IsProcessed(hand), processed' = WithMark(processed, hand), hand' = hand
  PROVE  /\ processed' \in Seq(Updates) /\ processed' # <<>> /\ Len(processed') <= MaxEntries
         /\ hand \in Updates /\ Top < hand /\ Top' = hand
         /\ TableSpaced'
         /\ IsProcessed(hand)'
         /\ \A u : IsProcessed(u)' => IsProcessed(u) \/ u = hand
         /\ \A u : IsProcessed(u) => u <= confirmed \/ IsProcessed(u)'
<1> DEFINE all  == Append(processed, hand)
           n    == Len(processed)
           gone == Trimmed(processed)
<1>1. hand \in Updates /\ Top < hand
  BY DEF PipelineInv, TypeOK, HandReach, Updates
<1>2. /\ n \in Nat /\ n <= MaxEntries /\ processed \in Seq(Updates)
      /\ all[n + 1] = hand
      /\ \A i \in 1 .. n : all[i] = processed[i] /\ processed[i] \in Updates
  BY <1>1, AppendOf, Elements DEF PipelineInv, TypeOK
<1>3. /\ processed' \in Seq(Updates) /\ processed' # <<>> /\ Len(processed') <= MaxEntries
      /\ Len(processed') = n + 1 - gone
      /\ \A i \in 1 .. Len(processed') : processed'[i] = all[i + gone]
  BY <1>1, <1>2, TrimOf
<1>4. gone \in {0, 1} /\ (gone = 1 => n = MaxEntries)
  BY DEF Trimmed
<1> HIDE DEF all, n, gone
<1>5. \A i \in 1 .. n : processed[i] + (n - i) <= Top
  <2> SUFFICES ASSUME NEW i \in 1 .. n PROVE processed[i] + (n - i) <= Top
    OBVIOUS
  <2>1. processed # <<>> /\ n \in 1 .. n /\ Top = processed[n]
    BY <1>2, EmptySeq DEF n, Top
  <2> QED BY <1>2, <2>1 DEF PipelineInv, TableSpaced, n
<1>6. \A i, j \in 1 .. n + 1 : i <= j => all[i] + (j - i) <= all[j]
  <2> SUFFICES ASSUME NEW i \in 1 .. n + 1, NEW j \in 1 .. n + 1, i <= j
               PROVE  all[i] + (j - i) <= all[j]
    OBVIOUS
  <2>1. CASE i \in 1 .. n /\ j \in 1 .. n
    BY <1>2, <2>1 DEF PipelineInv, TableSpaced, n
  <2>2. CASE i \in 1 .. n /\ j = n + 1
    <3>1. processed[i] + (n - i) <= Top /\ processed[i] \in Nat
      BY <1>2, <1>5, <2>2, Elements DEF PipelineInv
    <3>2. Top \in Nat /\ hand \in Nat /\ Top < hand
      BY <1>1, Elements, TopType DEF PipelineInv
    <3>3. all[i] = processed[i] /\ all[j] = hand /\ j - i = n - i + 1 /\ n - i \in Nat
      BY <1>2, <2>2
    <3> QED BY <3>1, <3>2, <3>3
  <2>3. CASE i = n + 1 /\ j = n + 1
    BY <1>1, <1>2, <2>3, Elements DEF PipelineInv
  <2> QED BY <1>2, <2>1, <2>2, <2>3
<1>7. Top' = hand /\ IsProcessed(hand)' /\ Len(processed') \in Nat \ {0}
  <2>1. Len(processed') \in 1 .. Len(processed') /\ Len(processed') \in Nat
    BY <1>3, EmptySeq, LenProperties
  <2>2. processed'[Len(processed')] = hand
    BY <1>2, <1>3, <1>4, <2>1
  <2>3. Top' = hand
    BY <1>3, <2>2 DEF Top
  <2>4. IsProcessed(hand)'
    BY <2>1, <2>2 DEF IsProcessed
  <2> QED BY <1>3, <2>1, <2>3, <2>4, EmptySeq
<1>8. TableSpaced'
  <2> SUFFICES ASSUME NEW i \in 1 .. Len(processed'), NEW j \in 1 .. Len(processed'), i <= j
               PROVE  processed'[i] + (j - i) <= processed'[j]
    BY DEF TableSpaced
  <2>1. i + gone \in 1 .. n + 1 /\ j + gone \in 1 .. n + 1
    BY <1>2, <1>3, <1>4
  <2>2. all[i + gone] + ((j + gone) - (i + gone)) <= all[j + gone]
    BY <1>4, <1>6, <2>1
  <2> QED BY <1>3, <1>4, <2>2
<1>9. ASSUME NEW u, IsProcessed(u)' PROVE IsProcessed(u) \/ u = hand
  <2>1. PICK i \in 1 .. Len(processed') : processed'[i] = u
    BY <1>9 DEF IsProcessed
  <2>2. i + gone \in 1 .. n + 1 /\ all[i + gone] = u
    BY <1>2, <1>3, <1>4, <2>1
  <2>3. i + gone \in 1 .. n \/ i + gone = n + 1
    BY <1>2, <2>2
  <2> QED BY <1>2, <2>2, <2>3 DEF IsProcessed, n
<1>10. ASSUME NEW u, IsProcessed(u) PROVE u <= confirmed \/ IsProcessed(u)'
  <2>1. PICK i \in 1 .. n : processed[i] = u
    BY <1>10 DEF IsProcessed, n
  <2>2. CASE i - gone \in 1 .. Len(processed')
    <3>1. processed'[i - gone] = all[i]
      BY <1>3, <1>4, <2>2
    <3> QED BY <1>2, <2>1, <2>2, <3>1 DEF IsProcessed
  <2>3. CASE i - gone \notin 1 .. Len(processed')
    <3>1. i = 1 /\ gone = 1 /\ n = MaxEntries
      BY <1>2, <1>3, <1>4, <2>1, <2>3
    <3>2. /\ u + (n - 1) <= Top /\ Top < hand
          /\ u \in Nat /\ Top \in Nat /\ hand \in Nat /\ n \in Nat
      BY <1>1, <1>2, <1>5, <2>1, <3>1, Elements, TopType DEF PipelineInv
    <3>3. u + MaxEntries <= hand
      BY <3>1, <3>2
    <3>4. hand <= confirmed + BatchSize
      BY DEF PipelineInv, HandBounds
    <3>5. confirmed \in Nat /\ BatchSize \in Nat /\ MaxEntries \in Nat /\ BatchSize <= MaxEntries
      BY Elements DEF PipelineInv
    <3> QED BY <3>2, <3>3, <3>4, <3>5
  <2> QED BY <2>2, <2>3
<1> QED BY <1>1, <1>3, <1>7, <1>8, <1>9, <1>10

(* mark_processed of an update that is new to the table. *)
LEMMA MarksNewInv == PipelineInv /\ Marks /\ ~IsProcessed(hand) => PipelineInv'
<1> SUFFICES ASSUME PipelineInv, Marks, ~IsProcessed(hand) PROVE PipelineInv'
  OBVIOUS
<1>1. /\ main = "taken" /\ main' = "handling" /\ processed' = WithMark(processed, hand)
      /\ UNCHANGED <<sent, confirmed, poller, offset, answer, updates, gate, hand, handled, casualties, left>>
  BY DEF Marks, WithMark, telegram, thread, history
<1>2. /\ processed' \in Seq(Updates) /\ processed' # <<>> /\ Len(processed') <= MaxEntries
      /\ hand \in Updates /\ Top < hand /\ Top' = hand
      /\ TableSpaced'
      /\ IsProcessed(hand)'
      /\ \A u : IsProcessed(u)' => IsProcessed(u) \/ u = hand
      /\ \A u : IsProcessed(u) => u <= confirmed \/ IsProcessed(u)'
  BY <1>1, MarkOf
<1>3. \A v : Known(v) => Known(v)'
  BY <1>1, <1>2 DEF Known
<1>4. TypeOK'
  BY <1>1, <1>2 DEF PipelineInv, TypeOK
<1>5. TableCovers'
  <2> SUFFICES ASSUME NEW u \in Updates, confirmed < u, u <= hand PROVE IsProcessed(u)'
    BY <1>1, <1>2 DEF TableCovers
  <2>1. u = hand \/ Known(u)
    BY <1>2, Elements DEF PipelineInv, HandReach
  <2>2. ~(u <= confirmed)
    BY Elements DEF PipelineInv
  <2>3. CASE u = hand
    BY <1>1, <1>2, <2>3 DEF IsProcessed
  <2>4. CASE Known(u)
    BY <1>2, <2>2, <2>4 DEF Known
  <2> QED BY <2>1, <2>3, <2>4
<1>6. KnownSettled'
  BY <1>1, <1>2 DEF PipelineInv, KnownSettled, Settled, Handled
<1>7. HandledBelow'
  BY <1>1, <1>2, Elements, TopType DEF PipelineInv, HandledBelow
<1>8. (HandBounds /\ QueueBounds /\ AnswerInv /\ OffsetBounds)'
  BY <1>1 DEF PipelineInv, HandBounds, QueueBounds, AnswerInv, OffsetBounds, Forgets
<1>9. HandReach'
  BY <1>1, <1>3 DEF PipelineInv, HandReach
<1>10. QueueReach'
  BY <1>1, <1>3 DEF PipelineInv, QueueReach
<1>11. OffsetReach'
  BY <1>1, <1>3 DEF PipelineInv, OffsetReach
<1>12. ThreadInv'
  BY <1>1 DEF PipelineInv, ThreadInv
<1> QED BY <1>2, <1>4, <1>5, <1>6, <1>7, <1>8, <1>9, <1>10, <1>11, <1>12 DEF PipelineInv

(* mark_processed of a duplicate: what is in hand is dropped, for it was   *)
(* dealt with.                                                             *)
LEMMA MarksOldInv == PipelineInv /\ Marks /\ IsProcessed(hand) => PipelineInv'
<1> SUFFICES ASSUME PipelineInv, Marks, IsProcessed(hand) PROVE PipelineInv'
  OBVIOUS
<1>1. /\ main = "taken" /\ main' = "drain" /\ hand' = 0
      /\ UNCHANGED <<sent, confirmed, poller, offset, answer, updates, gate, processed, handled, casualties, left>>
  BY DEF Marks, telegram, thread, history
<1>2. hand \in Updates /\ Known(hand) /\ Settled(hand)
  BY <1>1 DEF PipelineInv, TypeOK, Updates, KnownSettled, Known
<1>3. \A v : Known(v)' <=> Known(v)
  BY <1>1 DEF Known, IsProcessed
<1>4. TypeOK'
  BY <1>1, InboundAssumption DEF PipelineInv, TypeOK
<1>5. (TableSpaced /\ TableCovers /\ HandledBelow /\ QueueBounds /\ AnswerInv /\ OffsetBounds /\ ThreadInv)'
  BY <1>1 DEF PipelineInv, TableSpaced, TableCovers, HandledBelow, QueueBounds, AnswerInv, OffsetBounds,
              ThreadInv, Top, IsProcessed, Forgets
<1>6. KnownSettled'
  BY <1>1, <1>2 DEF PipelineInv, KnownSettled, Settled, Handled, IsProcessed
<1>7. HandBounds' /\ HandReach'
  BY <1>1, Elements DEF PipelineInv, HandBounds, HandReach
<1>8. QueueReach'
  BY <1>1, <1>2, <1>3 DEF PipelineInv, QueueReach
<1>9. OffsetReach'
  BY <1>1, <1>2, <1>3 DEF PipelineInv, OffsetReach
<1> QED BY <1>4, <1>5, <1>6, <1>7, <1>8, <1>9 DEF PipelineInv

(* An update is handled: it is the newest row of the table. *)
LEMMA HandlesInv == PipelineInv /\ Handles => PipelineInv'
<1> SUFFICES ASSUME PipelineInv, Handles PROVE PipelineInv'
  OBVIOUS
<1>1. /\ main = "handling" /\ main' = "drain" /\ hand' = 0 /\ handled' = Append(handled, hand)
      /\ UNCHANGED <<sent, confirmed, poller, offset, answer, updates, gate, processed, casualties, left>>
  BY DEF Handles, telegram, thread
<1>2. hand \in Updates /\ Top = hand /\ processed # <<>>
  BY <1>1 DEF PipelineInv, TypeOK, HandledBelow, Updates
<1>3. IsProcessed(hand)
  BY <1>2, TopType DEF PipelineInv, IsProcessed, Top
<1>4. /\ handled' \in Seq(Updates) /\ Len(handled) \in Nat /\ Len(handled') = Len(handled) + 1
      /\ handled'[Len(handled) + 1] = hand
      /\ \A i \in 1 .. Len(handled) : handled'[i] = handled[i]
  BY <1>1, <1>2, AppendOf DEF PipelineInv, TypeOK
<1>5. \A v : Known(v)' <=> Known(v)
  BY <1>1 DEF Known, IsProcessed
<1>6. TypeOK'
  BY <1>1, <1>4, InboundAssumption DEF PipelineInv, TypeOK
<1>7. (TableSpaced /\ TableCovers /\ QueueBounds /\ AnswerInv /\ OffsetBounds /\ ThreadInv)'
  BY <1>1 DEF PipelineInv, TableSpaced, TableCovers, QueueBounds, AnswerInv, OffsetBounds,
              ThreadInv, Top, IsProcessed, Forgets
<1>8. Handled' = Handled \cup {hand}
  <2>1. Len(handled) + 1 \in 1 .. Len(handled')
    BY <1>4
  <2>2. \A i \in 1 .. Len(handled') : i \in 1 .. Len(handled) \/ i = Len(handled) + 1
    BY <1>4
  <2>3. 1 .. Len(handled) \subseteq 1 .. Len(handled')
    BY <1>4
  <2> QED BY <1>4, <2>1, <2>2, <2>3 DEF Handled
<1>9. KnownSettled'
  BY <1>1, <1>8 DEF PipelineInv, KnownSettled, Settled, IsProcessed
<1>10. HandledBelow'
  <2> SUFFICES ASSUME NEW i \in 1 .. Len(handled) + 1 PROVE handled'[i] <= Top
    BY <1>1, <1>4 DEF HandledBelow, Top
  <2>1. CASE i = Len(handled) + 1
    BY <1>2, <1>4, <2>1, Elements DEF PipelineInv
  <2>2. CASE i \in 1 .. Len(handled)
    BY <1>4, <2>2 DEF PipelineInv, HandledBelow
  <2> QED BY <1>4, <2>1, <2>2
<1>11. HandBounds' /\ HandReach'
  BY <1>1, Elements DEF PipelineInv, HandBounds, HandReach
<1>12. QueueReach'
  BY <1>1, <1>3, <1>5 DEF PipelineInv, QueueReach, Known
<1>13. OffsetReach'
  BY <1>1, <1>3, <1>5 DEF PipelineInv, OffsetReach, Known
<1> QED BY <1>6, <1>7, <1>9, <1>10, <1>11, <1>12, <1>13 DEF PipelineInv

(* The service dies: the update in hand is a casualty, the rest comes      *)
(* again.                                                                  *)
LEMMA CrashInv == PipelineInv /\ Crash => PipelineInv'
<1> SUFFICES ASSUME PipelineInv, Crash PROVE PipelineInv'
  OBVIOUS
<1>1. /\ main' = "down" /\ hand' = 0 /\ casualties' = casualties \cup ({hand} \ {0})
      /\ poller' = "dead" /\ offset' = 0 /\ answer' = <<>> /\ updates' = <<>>
      /\ left' = [left EXCEPT !["crash"] = @ - 1] /\ left["crash"] > 0
      /\ UNCHANGED <<sent, confirmed, gate, processed, handled>>
  BY DEF Crash, Spend, telegram
<1>2. TypeOK'
  <2>1. left' \in [FaultKinds -> Nat]
    BY <1>1 DEF PipelineInv, TypeOK, FaultKinds
  <2>2. answer' \in Seq(Updates) /\ updates' \in Seq(Updates) /\ Len(answer') = 0
    BY <1>1, EmptySeq
  <2>3. casualties' \subseteq Updates
    BY <1>1 DEF PipelineInv, TypeOK, Updates
  <2> QED BY <1>1, <2>1, <2>2, <2>3, InboundAssumption DEF PipelineInv, TypeOK
<1>3. (TableSpaced /\ TableCovers)'
  BY <1>1 DEF PipelineInv, TableSpaced, TableCovers, Top, IsProcessed
<1>4. KnownSettled'
  BY <1>1, Elements DEF PipelineInv, KnownSettled, Settled, Handled, IsProcessed
<1>5. HandledBelow'
  BY <1>1 DEF PipelineInv, HandledBelow, Top
<1>6. (HandBounds /\ HandReach)'
  BY <1>1, Elements DEF PipelineInv, HandBounds, HandReach
<1>7. (QueueBounds /\ QueueReach /\ AnswerInv)'
  BY <1>1, EmptySeq DEF QueueBounds, QueueReach, AnswerInv
<1>8. (OffsetBounds /\ OffsetReach /\ ThreadInv)'
  BY <1>1 DEF OffsetBounds, OffsetReach, ThreadInv
<1> QED BY <1>2, <1>3, <1>4, <1>5, <1>6, <1>7, <1>8 DEF PipelineInv

LEMMA StutterInv == PipelineInv /\ UNCHANGED vars => PipelineInv'
  BY DEF vars, telegram, thread, loop, history, PipelineInv, TypeOK, TableSpaced, TableCovers,
         KnownSettled, HandledBelow, HandBounds, HandReach, QueueBounds, QueueReach, AnswerInv,
         OffsetBounds, OffsetReach, ThreadInv, Top, Settled, Handled, Known, IsProcessed, Forgets

LEMMA InitPipeline == Init => PipelineInv
<1> SUFFICES ASSUME Init PROVE PipelineInv
  OBVIOUS
<1>1. <<>> \in Seq(Updates) /\ Len(<<>>) = 0
  BY EmptySeq
<1>2. TypeOK
  BY <1>1, InboundAssumption DEF Init, TypeOK
<1>3. TableSpaced /\ TableCovers /\ HandledBelow /\ QueueBounds /\ QueueReach /\ AnswerInv
  BY <1>1 DEF Init, TableSpaced, TableCovers, HandledBelow, QueueBounds, QueueReach, AnswerInv, Top, Updates
<1>4. KnownSettled
  BY <1>1 DEF Init, KnownSettled, IsProcessed, Updates
<1>5. HandBounds /\ HandReach /\ OffsetBounds /\ OffsetReach /\ ThreadInv
  BY InboundAssumption DEF Init, HandBounds, HandReach, OffsetBounds, OffsetReach, ThreadInv
<1> QED BY <1>2, <1>3, <1>4, <1>5 DEF PipelineInv

LEMMA StepPipeline == PipelineInv /\ [Next]_vars => PipelineInv'
  BY UserSendsInv, ThreadQuietInv, LoopQuietInv, PollsInv, PutsInv, TakesInv, MarksNewInv,
     MarksOldInv, HandlesInv, CrashInv, StutterInv DEF Next, Poller, MainLoop

(* Nothing in the pipeline overtakes or skips what is not yet known: the   *)
(* invariant of the polling thread, the queue, the table and the loop.     *)
THEOREM PipelineHolds == Spec => []PipelineInv
  BY InitPipeline, StepPipeline, PTL DEF Spec

(* The variables have their types. *)
THEOREM InboundTypes == Spec => []TypeOK
<1>1. PipelineInv => TypeOK
  BY DEF PipelineInv
<1> QED BY <1>1, PipelineHolds, PTL

(* A crash loses no more than the update in hand. *)
THEOREM AtRisk == Spec => []OnlyInHandAtRisk
<1>1. PipelineInv => OnlyInHandAtRisk
  BY DEF PipelineInv, KnownSettled, Settled, OnlyInHandAtRisk
<1> QED BY <1>1, PipelineHolds, PTL

(* Only Handles changes what was handled. *)
LEMMA HandledOnly == [Next]_vars => Handles \/ UNCHANGED handled
  BY DEF Next, Poller, MainLoop, UserSends, SeesGate, SeesQueue, Polls, PollFails, Puts, ThreadDies,
         StartsRound, Takes, Marks, EndsRound, Crash, Restart, history, vars

(* No update is handled twice, and none overtakes another: "Duplicate      *)
(* Telegram update does not start duplicate turns".                        *)
THEOREM InOrder == Spec => []HandledInOrder
<1>1. Init => HandledInOrder
  BY EmptySeq DEF Init, HandledInOrder
<1>2. PipelineInv /\ HandledInOrder /\ [Next]_vars => HandledInOrder'
  <2> SUFFICES ASSUME PipelineInv, HandledInOrder, [Next]_vars PROVE HandledInOrder'
    OBVIOUS
  <2>1. CASE UNCHANGED handled
    BY <2>1 DEF HandledInOrder
  <2>2. CASE Handles
    <3>1. /\ main = "handling" /\ handled' = Append(handled, hand) /\ hand \in Updates
          /\ handled \in Seq(Updates)
      BY <2>2 DEF Handles, PipelineInv, TypeOK, Updates
    <3>2. /\ Len(handled) \in Nat /\ Len(handled') = Len(handled) + 1
          /\ handled'[Len(handled) + 1] = hand
          /\ \A i \in 1 .. Len(handled) : handled'[i] = handled[i] /\ handled[i] < hand
      BY <3>1, AppendOf DEF PipelineInv, HandledBelow
    <3> QED BY <3>2 DEF HandledInOrder
  <2> QED BY <2>1, <2>2, HandledOnly
<1> QED BY <1>1, <1>2, PipelineHolds, PTL DEF Spec

-----------------------------------------------------------------------------
(* The refinement of Inbox.                                                *)

Deaths == FaultBudget["crash"] - left["crash"]

(* A message whose turn it is, and one whose turn is over. *)
Turn(m) == Promise!NextOne(m)
Over    == Handled \cup Lost

(* What is in front of the update in hand is handled or lost. *)
LEMMA FrontIsOver ==
  ASSUME PipelineInv, hand # 0
  PROVE  /\ hand \in 1 .. sent
         /\ 1 .. hand - 1 \subseteq Over
<1>1. hand \in Updates /\ hand \in 1 .. sent
  BY Elements DEF PipelineInv, TypeOK, HandBounds, Updates
<1>2. ASSUME NEW v \in 1 .. hand - 1 PROVE v \in Over
  <2>1. v \in Updates /\ v # hand /\ v \in Nat
    BY <1>1, InboundAssumption DEF Updates
  <2>2. Known(v)
    BY DEF PipelineInv, HandReach
  <2>3. v \in Handled \cup casualties
    BY <2>1, <2>2 DEF PipelineInv, KnownSettled, Settled, Known
  <2>4. ~OnItsWay(v)
    BY <2>1, <2>2, Elements DEF PipelineInv, OnItsWay, Known
  <2> QED BY <2>3, <2>4 DEF Over, Lost
<1> QED BY <1>1, <1>2

(* So it is its turn, unless it is handled or lost itself. *)
LEMMA HandsTurn == PipelineInv /\ hand # 0 /\ hand \notin Over => Turn(hand)
  BY FrontIsOver DEF Turn, Over, Promise!NextOne, Promise!Served, Handled

(* Who is lost depends on what is on its way. *)
LEMMA LostSame ==
  ASSUME UNCHANGED <<casualties, handled>>,
         \A u \in casualties : u \notin Handled => (OnItsWay(u)' <=> OnItsWay(u))
  PROVE  Lost' = Lost
  BY DEF Lost, Handled

LEMMA UserSendsMaps == PipelineInv /\ UserSends => Promise!Send
<1> SUFFICES ASSUME PipelineInv, UserSends PROVE Promise!Send
  OBVIOUS
<1>1. sent' = sent + 1 /\ UNCHANGED <<confirmed, processed, main, hand, handled, casualties, left>>
  BY DEF UserSends, loop, history
<1>2. Lost' = Lost
  BY <1>1 DEF Lost, Handled, OnItsWay, IsProcessed
<1> QED BY <1>1, <1>2 DEF Promise!Send

(* The update in hand is handled: it was its turn. *)
LEMMA HandlesMaps == PipelineInv /\ Handles => Promise!Handle
<1> SUFFICES ASSUME PipelineInv, Handles PROVE Promise!Handle
  OBVIOUS
<1>1. /\ main = "handling" /\ main' = "drain" /\ hand' = 0 /\ handled' = Append(handled, hand)
      /\ hand # 0 /\ hand \in Updates
      /\ UNCHANGED <<sent, confirmed, processed, casualties, left>>
  BY DEF Handles, telegram, PipelineInv, TypeOK, Updates
<1>2. hand \notin Handled
  BY <1>1, Elements DEF PipelineInv, HandledBelow, Handled
<1>3. OnItsWay(hand)
  BY <1>1 DEF OnItsWay
<1>4. Turn(hand)
  BY <1>1, <1>2, <1>3, HandsTurn DEF Over, Lost
<1>5. Handled' = Handled \cup {hand}
  <2>1. /\ Len(handled) \in Nat /\ Len(handled') = Len(handled) + 1
        /\ handled'[Len(handled) + 1] = hand
        /\ \A i \in 1 .. Len(handled) : handled'[i] = handled[i]
    BY <1>1, AppendOf DEF PipelineInv, TypeOK
  <2>2. 1 .. Len(handled') = 1 .. Len(handled) \cup {Len(handled) + 1}
    BY <2>1
  <2> QED BY <2>1, <2>2 DEF Handled
<1>6. Lost' = Lost
  BY <1>1, <1>3, <1>5, Elements DEF PipelineInv, TypeOK, Lost, OnItsWay, IsProcessed, Updates
<1> QED BY <1>1, <1>4, <1>6, FrontIsOver DEF Turn, Promise!Handle

(* A death costs at most the update in hand: it was its turn. *)
LEMMA CrashMaps == PipelineInv /\ Crash => Promise!Die
<1> SUFFICES ASSUME PipelineInv, Crash PROVE Promise!Die
  OBVIOUS
<1>1. /\ main' = "down" /\ hand' = 0 /\ casualties' = casualties \cup ({hand} \ {0})
      /\ left' = [left EXCEPT !["crash"] = @ - 1]
      /\ UNCHANGED <<sent, confirmed, processed, handled>>
  BY DEF Crash, Spend, telegram
<1>2. (FaultBudget["crash"] - left["crash"])' = FaultBudget["crash"] - left["crash"] + 1
  BY <1>1, InboundAssumption DEF PipelineInv, TypeOK, FaultKinds
<1>3. \A u \in Updates : u # hand => (OnItsWay(u)' <=> OnItsWay(u))
  BY <1>1, InboundAssumption DEF OnItsWay, IsProcessed, Updates
<1>4. casualties \subseteq Updates /\ 0 \notin casualties
  BY InboundAssumption DEF PipelineInv, TypeOK, Updates
<1>5. Handled' = Handled
  BY <1>1 DEF Handled
<1>6. \A u \in Updates : OnItsWay(u)' => OnItsWay(u)
  BY <1>1, InboundAssumption DEF OnItsWay, IsProcessed, Updates
<1>7. hand = 0 \/ hand \in Updates
  BY DEF PipelineInv, TypeOK, Updates
<1>8. CASE Lost' = Lost
  BY <1>1, <1>2, <1>8 DEF Promise!Die
<1>9. CASE Lost' # Lost
  <2>1. \A u \in casualties : u # hand => (u \in Lost' <=> u \in Lost)
    BY <1>1, <1>3, <1>4, <1>5 DEF Lost
  <2>2. Lost \subseteq casualties /\ Lost' \subseteq casualties \cup {hand} /\ 0 \notin Lost'
    BY <1>1, <1>4 DEF Lost
  <2>3. hand \in Lost => hand \in Lost'
    BY <1>1, <1>4, <1>5, <1>6 DEF Lost
  <2>4. hand # 0 /\ Lost' = Lost \cup {hand} /\ hand \notin Lost
    BY <1>4, <1>9, <2>1, <2>2, <2>3
  <2>5. hand \notin Handled
    BY <1>5, <2>4 DEF Lost
  <2> QED BY <1>1, <1>2, <2>4, <2>5, HandsTurn, FrontIsOver DEF Turn, Over, Promise!Die
<1> QED BY <1>8, <1>9

(* The rest changes nothing that a user sees: what is confirmed, taken or  *)
(* marked was on its way before if and only if it is afterwards.           *)
LEMMA HiddenMaps ==
  ASSUME PipelineInv,
         UNCHANGED <<sent, handled, casualties>>, left'["crash"] = left["crash"],
         \A u \in Updates : OnItsWay(u)' <=> OnItsWay(u)
  PROVE  UNCHANGED Promise!inbox
<1>1. Lost' = Lost
  BY LostSame DEF PipelineInv, TypeOK
<1> QED BY <1>1 DEF Promise!inbox

(* What a request confirms is not on its way any more, unless it is in     *)
(* hand.                                                                   *)
LEMMA ConfirmMaps ==
  ASSUME PipelineInv, poller = "asking", confirmed' \in {confirmed, Forgets},
         UNCHANGED <<processed, main, hand>>
  PROVE  \A u \in Updates : OnItsWay(u)' <=> OnItsWay(u)
<1> SUFFICES ASSUME NEW u \in Updates PROVE OnItsWay(u)' <=> OnItsWay(u)
  OBVIOUS
<1>1. confirmed' \in Nat /\ confirmed <= confirmed' /\ confirmed' <= Forgets /\ u \in Nat /\ Forgets \in Nat
  BY ForgetsType, Elements DEF PipelineInv
<1>2. confirmed < u /\ u <= Forgets /\ ~IsProcessed(u) => u = hand
  <2> SUFFICES ASSUME confirmed < u, u <= Forgets, ~IsProcessed(u) PROVE u = hand
    OBVIOUS
  <2>1. u \in 1 .. offset - 1
    BY Elements DEF PipelineInv, Forgets
  <2>2. updates = <<>>
    BY DEF PipelineInv, ThreadInv
  <2> QED BY <2>1, <2>2, Elements, EmptySeq DEF PipelineInv, OffsetReach, Known
<1>3. u > confirmed' => u > confirmed
  BY <1>1, Elements DEF PipelineInv
<1>4. u > confirmed /\ ~(u > confirmed') /\ ~IsProcessed(u) => u = hand
  BY <1>1, <1>2, Elements DEF PipelineInv
<1> QED BY <1>3, <1>4 DEF OnItsWay, IsProcessed

LEMMA HiddenSteps ==
  ASSUME PipelineInv, Poller \/ ThreadDies \/ StartsRound \/ Takes \/ Marks \/ EndsRound \/ Restart
  PROVE  UNCHANGED Promise!inbox
<1>1. CASE SeesGate \/ SeesQueue \/ Puts
  BY <1>1, HiddenMaps DEF SeesGate, SeesQueue, Puts, telegram, loop, history, OnItsWay, IsProcessed
<1>2. CASE Polls
  BY <1>2, ConfirmMaps, HiddenMaps DEF Polls, loop, history
<1>3. CASE PollFails
  BY <1>3, ConfirmMaps, HiddenMaps DEF PollFails, Spend, loop, history, PipelineInv, TypeOK, FaultKinds
<1>4. CASE ThreadDies
  BY <1>4, HiddenMaps DEF ThreadDies, Spend, telegram, loop, history, OnItsWay, IsProcessed,
                          PipelineInv, TypeOK, FaultKinds
<1>5. CASE StartsRound \/ EndsRound \/ Restart
  BY <1>5, HiddenMaps DEF StartsRound, EndsRound, Restart, telegram, thread, loop, history, OnItsWay,
                          IsProcessed
<1>6. CASE Takes
  <2>1. /\ main = "drain" /\ hand = 0 /\ main' = "taken" /\ hand' = Head(updates) /\ updates # <<>>
        /\ UNCHANGED <<sent, confirmed, processed, handled, casualties, left>>
    BY <1>6 DEF Takes, telegram, history, PipelineInv, TypeOK
  <2>2. hand' > confirmed
    BY <2>1, TailOf DEF PipelineInv, TypeOK, QueueBounds
  <2>3. \A u \in Updates : OnItsWay(u)' <=> OnItsWay(u)
    BY <2>1, <2>2, Elements DEF PipelineInv, OnItsWay, IsProcessed
  <2> QED BY <2>1, <2>3, HiddenMaps
<1>7. CASE Marks /\ IsProcessed(hand)
  <2>1. /\ main = "taken" /\ hand' = 0 /\ main' = "drain"
        /\ UNCHANGED <<sent, confirmed, processed, handled, casualties, left>>
    BY <1>7 DEF Marks, telegram, history
  <2>2. \A u \in Updates : OnItsWay(u)' <=> OnItsWay(u)
    BY <1>7, <2>1, Elements DEF PipelineInv, OnItsWay, IsProcessed
  <2> QED BY <2>1, <2>2, HiddenMaps
<1>8. CASE Marks /\ ~IsProcessed(hand)
  <2>1. /\ main = "taken" /\ main' = "handling" /\ processed' = WithMark(processed, hand)
        /\ UNCHANGED <<sent, confirmed, hand, handled, casualties, left>>
    BY <1>8 DEF Marks, WithMark, telegram, history
  <2>2. /\ \A u : IsProcessed(u)' => IsProcessed(u) \/ u = hand
        /\ \A u : IsProcessed(u) => u <= confirmed \/ IsProcessed(u)'
    BY <1>8, <2>1, MarkOf
  <2>3. \A u \in Updates : OnItsWay(u)' <=> OnItsWay(u)
    <3> SUFFICES ASSUME NEW u \in Updates PROVE OnItsWay(u)' <=> OnItsWay(u)
      OBVIOUS
    <3>1. CASE u = hand
      BY <1>8, <2>1, <3>1 DEF OnItsWay
    <3>2. CASE u # hand
      <4>1. u > confirmed => (IsProcessed(u)' <=> IsProcessed(u))
        BY <2>2, <3>2, Elements DEF PipelineInv
      <4> QED BY <2>1, <3>2, <4>1 DEF OnItsWay
    <3> QED BY <3>1, <3>2
  <2> QED BY <2>1, <2>3, HiddenMaps
<1> QED BY <1>1, <1>2, <1>3, <1>4, <1>5, <1>6, <1>7, <1>8 DEF Poller

(* The inbound side keeps the promise of Inbox, whatever is lost and how   *)
(* often: messages are handled one by one, in order, none twice and none   *)
(* skipped, and a death costs at most the message whose turn it was.       *)
THEOREM PromiseKept == Spec => Promise!Spec
<1>1. Init => Promise!Init
  BY EmptySeq, InboundAssumption DEF Init, Promise!Init, Lost, FaultKinds
<1>2. PipelineInv /\ [Next]_vars => [Promise!Next]_(Promise!inbox)
  <2> SUFFICES ASSUME PipelineInv, [Next]_vars PROVE [Promise!Next]_(Promise!inbox)
    OBVIOUS
  <2>1. CASE UserSends
    BY <2>1, UserSendsMaps DEF Promise!Next
  <2>2. CASE Handles
    BY <2>2, HandlesMaps DEF Promise!Next
  <2>3. CASE Crash
    BY <2>3, CrashMaps DEF Promise!Next
  <2>4. CASE Poller \/ ThreadDies \/ StartsRound \/ Takes \/ Marks \/ EndsRound \/ Restart
    BY <2>4, HiddenSteps
  <2>5. CASE UNCHANGED vars
    BY <2>5 DEF vars, telegram, loop, history, Promise!inbox, Lost, Handled, OnItsWay, IsProcessed
  <2> QED BY <2>1, <2>2, <2>3, <2>4, <2>5 DEF Next, MainLoop
<1> QED BY <1>1, <1>2, PipelineHolds, PTL DEF Spec, Promise!Spec

-----------------------------------------------------------------------------
(* The service that has to own its state directory.                        *)

(* What the composition with app.lock does to the inbound side is what the *)
(* inbound side does: all of the above holds of the service, too.          *)
THEOREM LifeIsInbound == LifeSpec => Spec
<1>1. LifeInit => Init
  BY DEF LifeInit
<1>2. [LifeNext]_lifeVars => [Next]_vars
  BY DEF LifeNext, lifeVars, Works, OutOfService, EndsServing, EndsEarlier, BeginsServing, Next
<1> QED BY <1>1, <1>2, PTL DEF LifeSpec, Spec
=============================================================================
