-------------------------- MODULE ConversationProofs --------------------------
(***************************************************************************)
(* The sessions of a chat and their turns, for any number of sessions,     *)
(* messages, pieces and faults: the service never loses track of a turn    *)
(* that runs, nor waits for the end of one that cannot end; and the answer *)
(* it delivers is the whole message of its turn, and nothing else.         *)
(***************************************************************************)
EXTENDS Conversation, FiniteSetTheorems, SequenceTheorems, TLAPS

WorkItem == [r : SessionRow, handed : [0..MaxMessages -> Texts], rows : [Turns -> SUBSET RowStates]]

(* What collecting, streaming and delivering leave alone. *)
SameTurn(r, q) == /\ q.active = r.active /\ q.completed = r.completed /\ q.follow = r.follow
                  /\ q.thread = r.thread
                  /\ q.attached => r.attached

(* Only the messages of the session's turn get another text, and none if   *)
(* the session is detached.                                                *)
Spares(w, v) == \A t \in Turns : v.handed[t] \subseteq w.handed[t] \/ (t = TurnOf(w.r) /\ w.r.attached)

Keeps(w, v) == v \in WorkItem /\ SameTurn(w.r, v.r) /\ Spares(w, v)

-----------------------------------------------------------------------------
(* The work items: each function makes one of another.                     *)

LEMMA WithRowOf ==
  ASSUME NEW w \in WorkItem, NEW r \in SessionRow
  PROVE  [w EXCEPT !.r = r] \in WorkItem /\ [w EXCEPT !.r = r].r = r
         /\ [w EXCEPT !.r = r].handed = w.handed /\ [w EXCEPT !.r = r].rows = w.rows
  BY DEF WorkItem

LEMMA TextOf ==
  ASSUME NEW r \in SessionRow
  PROVE  /\ Text(r) \in Texts /\ {} \in Texts /\ r.pending \in Texts /\ r.streamed \in Texts /\ r.delivered \in Texts
         /\ TurnOf(r) \in {NoTurn} \cup Turns /\ r.ids \in {NoIds, NoTurn} \cup Turns
  BY DEF SessionRow, Text, TurnOf, Texts

LEMMA BlankRow ==
  ASSUME NEW r \in SessionRow
  PROVE  Blank(r) \in SessionRow /\ SameTurn(r, Blank(r))
  BY TextOf DEF Blank, SessionRow, SameTurn

LEMMA ResetRow ==
  ASSUME NEW r \in SessionRow, NEW forget \in BOOLEAN
  PROVE  /\ Reset(r, forget) \in SessionRow /\ Reset(r, forget).active = NoTurn /\ Reset(r, forget).follow = r.follow
         /\ Reset(r, forget).completed \in {r.completed, NoTurn}
<1>1. PICK q \in SessionRow : q = Blank(r)
  BY BlankRow
<1>2. PICK thread \in 0..MaxMessages : thread = IF forget THEN 0 ELSE q.thread
  BY ConversationAssumption DEF SessionRow
<1>3. PICK completed \in {NoTurn} \cup Turns : completed = IF forget THEN NoTurn ELSE q.completed
  BY DEF SessionRow
<1>4. Reset(r, forget) = [q EXCEPT !.active = NoTurn, !.ids = NoIds, !.status = "ACTIVE",
                                   !.thread = thread, !.completed = completed]
  BY <1>1, <1>2, <1>3 DEF Reset, SessionRow
<1>5. /\ Reset(r, forget) \in SessionRow /\ Reset(r, forget).active = NoTurn /\ Reset(r, forget).follow = q.follow
      /\ Reset(r, forget).completed = completed
  <2>1. PICK z : z = [q EXCEPT !.active = NoTurn, !.ids = NoIds, !.status = "ACTIVE",
                               !.thread = thread, !.completed = completed]
    OBVIOUS
  <2>2. NoTurn \in {NoTurn} \cup Turns /\ NoIds \in {NoIds, NoTurn} \cup Turns
    OBVIOUS
  <2>3. z \in SessionRow
    BY <2>1, <2>2 DEF SessionRow
  <2>4. z.active = NoTurn /\ z.follow = q.follow /\ z.completed = completed
    BY <2>1 DEF SessionRow
  <2> QED BY <1>4, <2>1, <2>3, <2>4
<1> QED BY <1>1, <1>3, <1>5, BlankRow DEF SameTurn

LEMMA TurnOverRow ==
  ASSUME NEW r \in SessionRow, NEW t \in Turns
  PROVE  /\ TurnOver(r, t) \in SessionRow /\ TurnOver(r, t).active = NoTurn /\ TurnOver(r, t).follow = r.follow
         /\ TurnOver(r, t).completed = t /\ TurnOver(r, t).attached = r.attached
  BY DEF TurnOver, SessionRow

(* Another text in the messages of the chat, and other messages.           *)
InMessages(w, groups, ids) == [w EXCEPT !.handed = groups, !.r.ids = ids]

LEMMA WithMessages ==
  ASSUME NEW w \in WorkItem, NEW groups \in [0..MaxMessages -> Texts], NEW ids \in {NoIds, NoTurn} \cup Turns,
         \A t \in Turns : groups[t] \subseteq w.handed[t] \/ (t = TurnOf(w.r) /\ w.r.attached)
  PROVE  Keeps(w, InMessages(w, groups, ids))
<1>1. PICK q : q = [w.r EXCEPT !.ids = ids]
  OBVIOUS
<1>2. q \in SessionRow /\ SameTurn(w.r, q)
  BY <1>1 DEF WorkItem, SessionRow, SameTurn
<1>3. InMessages(w, groups, ids) = [w EXCEPT !.handed = groups, !.r = q]
  BY <1>1 DEF WorkItem, InMessages
<1> QED BY <1>2, <1>3 DEF WorkItem, Keeps, Spares

LEMMA SyncItem ==
  ASSUME NEW w \in WorkItem, NEW text \in Texts, NEW known \in BOOLEAN, w.r.attached
  PROVE  Keeps(w, Sync(w, text, known))
<1> DEFINE t == TurnOf(w.r)
           groups == [u \in 0..MaxMessages |-> IF u = t THEN text ELSE IF u = w.r.ids THEN {} ELSE w.handed[u]]
           ids == IF w.r.ids # NoIds \/ known THEN t ELSE NoIds
<1>1. w.r \in SessionRow /\ w.handed \in [0..MaxMessages -> Texts]
  BY DEF WorkItem
<1>2. groups \in [0..MaxMessages -> Texts] /\ ids \in {NoIds, NoTurn} \cup Turns
  BY <1>1, TextOf
<1>3. Sync(w, text, known) = InMessages(w, groups, ids)
  BY DEF Sync, WorkItem, InMessages
<1>4. \A u \in Turns : groups[u] \subseteq w.handed[u] \/ (u = TurnOf(w.r) /\ w.r.attached)
  BY ConversationAssumption DEF Turns
<1> HIDE DEF groups, ids
<1> QED BY <1>2, <1>3, <1>4, WithMessages

LEMMA ClearedItem ==
  ASSUME NEW w \in WorkItem
  PROVE  Keeps(w, Cleared(w)) /\ \A t \in Turns : Cleared(w).handed[t] \subseteq w.handed[t]
<1> DEFINE groups == [u \in 0..MaxMessages |-> IF u = w.r.ids THEN {} ELSE w.handed[u]]
<1>1. w.r \in SessionRow /\ w.handed \in [0..MaxMessages -> Texts]
  BY DEF WorkItem
<1>2. groups \in [0..MaxMessages -> Texts]
  BY <1>1, TextOf
<1>3. Cleared(w) = InMessages(w, groups, NoIds)
  BY DEF Cleared, WorkItem, InMessages
<1>4. \A u \in Turns : groups[u] \subseteq w.handed[u]
  BY ConversationAssumption DEF Turns
<1>5. InMessages(w, groups, NoIds).handed = groups
  BY DEF InMessages, WorkItem
<1> HIDE DEF groups
<1> QED BY <1>2, <1>3, <1>4, <1>5, WithMessages

LEMMA QueuedItem ==
  ASSUME NEW w \in WorkItem
  PROVE  Keeps(w, Queued(w)) /\ Queued(w).r = w.r
<1>1. ASSUME NEW f \in [Turns -> SUBSET RowStates], NEW t
      PROVE  [f EXCEPT ![t] = @ \cup {"queued"}] \in [Turns -> SUBSET RowStates]
  BY DEF RowStates
<1>2. Queued(w) = [w EXCEPT !.rows = [w.rows EXCEPT ![w.r.completed] = @ \cup {"queued"}]]
  BY DEF Queued, WorkItem
<1> QED BY <1>1, <1>2 DEF WorkItem, Keeps, SameTurn, Spares

LEMMA KeepsOn ==
  ASSUME NEW w, NEW v, NEW x, Keeps(w, v), Keeps(v, x)
  PROVE  Keeps(w, x)
  BY DEF Keeps, SameTurn, Spares, TurnOf

(* A work item whose session gets another text. *)
AsStream(n, text) == [n EXCEPT !.r.streamed = text, !.r.phase = "answer", !.r.delivered = text,
                               !.r.pending = {}, !.r.quiet = FALSE]
AsFinal(n, text)  == [n EXCEPT !.r.streamed = text, !.r.phase = "finalizing", !.r.status = "DELIVERING_FINAL"]
Unread(w)         == [w EXCEPT !.r.pending = {}]
Blanked(w)        == [w EXCEPT !.r = Blank(@)]

LEMMA WithText ==
  ASSUME NEW w \in WorkItem, NEW text \in Texts
  PROVE  Keeps(w, Unread(w)) /\ Keeps(w, Blanked(w)) /\ Keeps(w, AsStream(w, text)) /\ Keeps(w, AsFinal(w, text))
<1>1. {} \in Texts
  BY DEF Texts
<1>2. Keeps(w, Unread(w))
  BY <1>1 DEF Keeps, WorkItem, SessionRow, SameTurn, Unread, Spares
<1>3. Keeps(w, Blanked(w))
  BY BlankRow DEF Keeps, WorkItem, Blanked, Spares
<1>4. Keeps(w, AsStream(w, text))
  BY <1>1 DEF Keeps, WorkItem, SessionRow, SameTurn, AsStream, Spares
<1>5. Keeps(w, AsFinal(w, text))
  BY <1>1 DEF Keeps, WorkItem, SessionRow, SameTurn, AsFinal, Spares
<1> QED BY <1>2, <1>3, <1>4, <1>5

LEMMA Kept ==
  ASSUME NEW w \in WorkItem
  PROVE  Keeps(w, w) /\ w.r \in SessionRow
  BY DEF Keeps, SameTurn, WorkItem, Spares

LEMMA StreamedItem ==
  ASSUME NEW w \in WorkItem, NEW known \in BOOLEAN
  PROVE  Keeps(w, Streamed(w, known))
<1>1. w.r \in SessionRow /\ Text(w.r) \in Texts
  BY TextOf DEF WorkItem
<1>2. PICK q \in WorkItem : q = IF w.r.status = "DELIVERING_FINAL" THEN Queued(w) ELSE w
  BY QueuedItem DEF Keeps
<1>3. Keeps(w, q) /\ q.r = w.r
  BY <1>2, QueuedItem, Kept
<1>4. w.r.attached => Keeps(w, Sync(q, Text(w.r), known))
  BY <1>1, <1>3, SyncItem, KeepsOn
<1>5. PICK n : n = Sync(q, Text(w.r), known)
  OBVIOUS
<1>6. Streamed(w, known) = IF w.r.pending = {} THEN w
                           ELSE IF Hidden(w.r) \/ Text(w.r) = w.r.delivered THEN Unread(w)
                           ELSE AsStream(n, Text(w.r))
  BY <1>2, <1>5 DEF Streamed, Unread, AsStream
<1>7. ASSUME w.r.attached PROVE Keeps(w, AsStream(n, Text(w.r)))
  <2>1. Keeps(w, n) /\ n \in WorkItem
    BY <1>4, <1>5, <1>7 DEF Keeps
  <2>2. Keeps(n, AsStream(n, Text(w.r)))
    BY <1>1, <2>1, WithText
  <2> QED BY <2>1, <2>2, KeepsOn
<1> QED BY <1>1, <1>6, <1>7, WithText, Kept DEF Hidden

LEMMA FinalizedItem ==
  ASSUME NEW w \in WorkItem, NEW known \in BOOLEAN
  PROVE  Keeps(w, Finalized(w, known))
<1>1. w.r \in SessionRow /\ Text(w.r) \in Texts
  BY TextOf DEF WorkItem
<1>2. PICK q : q = Sync(w, Text(w.r), known)
  OBVIOUS
<1>3. w.r.attached => q \in WorkItem /\ Keeps(w, q)
  BY <1>1, <1>2, SyncItem DEF Keeps
<1>4. PICK n : n = Queued(q)
  OBVIOUS
<1>5. w.r.attached => Keeps(w, n)
  BY <1>3, <1>4, QueuedItem, KeepsOn
<1>6. Finalized(w, known) = IF w.r.pending = {} THEN w
                            ELSE IF Hidden(w.r) THEN Unread(w)
                            ELSE IF Text(w.r) = w.r.delivered /\ w.r.ids = NoIds THEN Blanked(w)
                            ELSE AsFinal(n, Text(w.r))
  BY <1>2, <1>4 DEF Finalized, Unread, Blanked, AsFinal
<1>7. w.r.attached => Keeps(w, AsFinal(n, Text(w.r)))
  BY <1>1, <1>5, WithText, KeepsOn DEF Keeps
<1> QED BY <1>1, <1>6, <1>7, WithText, Kept DEF Hidden

LEMMA MergedRow ==
  ASSUME NEW r \in SessionRow, NEW text \in Texts
  PROVE  Merged(r, text) \in SessionRow /\ SameTurn(r, Merged(r, text))
<1> DEFINE pending == r.pending \cup (text \ (r.streamed \cup (IF r.delivered \subseteq text THEN r.delivered ELSE {})))
<1>1. pending \in Texts
  BY TextOf DEF Texts
<1>2. Merged(r, text) = IF text = r.delivered \/ text \subseteq Text(r) THEN r
                        ELSE [r EXCEPT !.pending = pending, !.quiet = FALSE]
  BY DEF Merged, SessionRow
<1> HIDE DEF pending
<1>3. CASE Merged(r, text) = r
  BY <1>3 DEF SameTurn
<1>4. CASE Merged(r, text) = [r EXCEPT !.pending = pending, !.quiet = FALSE]
  BY <1>1, <1>4 DEF SessionRow, SameTurn
<1> QED BY <1>2, <1>3, <1>4

LEMMA CollectedRow ==
  ASSUME NEW r \in SessionRow, NEW note \in Notices
  PROVE  Collected(r, note) \in SessionRow /\ SameTurn(r, Collected(r, note))
<1>1. note.text \in Texts /\ {} \in Texts
  BY DEF Notices, Texts
<1>2. PICK pending \in Texts : pending = r.pending \cup note.text
  BY <1>1, TextOf DEF Texts
<1>3. CASE note.kind = "delta"
  <2>1. Collected(r, note) = [r EXCEPT !.pending = pending, !.phase = "answer", !.quiet = FALSE]
    BY <1>2, <1>3 DEF Collected, SessionRow
  <2> QED BY <2>1 DEF SessionRow, SameTurn
<1>4. CASE note.kind # "delta" /\ Text(r) = {}
  <2>1. PICK m \in SessionRow : m = Merged(r, note.text) /\ SameTurn(r, m)
    BY <1>1, MergedRow
  <2>2. Collected(r, note) \in {r, [m EXCEPT !.phase = "answer"]}
    BY <1>4, <2>1 DEF Collected, Answering
  <2> QED BY <2>1, <2>2 DEF SessionRow, SameTurn
<1>5. CASE note.kind # "delta" /\ Text(r) # {}
  <2>1. Collected(r, note) = [r EXCEPT !.pending = note.text, !.streamed = {}, !.phase = "answer", !.quiet = FALSE]
    BY <1>5 DEF Collected
  <2> QED BY <1>1, <2>1 DEF SessionRow, SameTurn
<1> QED BY <1>3, <1>4, <1>5

Silenced(w, text) == [w EXCEPT !.r.streamed = {}, !.r.phase = "none", !.r.delivered = text]
Pending(w, text)  == [w EXCEPT !.r.pending = text]

LEMMA ConcludedItem ==
  ASSUME NEW w \in WorkItem, NEW known \in BOOLEAN
  PROVE  Keeps(w, Concluded(w, known))
<1>1. w.r.streamed \in Texts /\ {} \in Texts /\ w.r.delivered \in Texts
  BY TextOf DEF WorkItem
<1>2. ASSUME NEW text \in Texts
      PROVE  Keeps(w, Pending(w, text)) /\ Keeps(w, Finalized(Pending(w, text), known))
  <2>1. Keeps(w, Pending(w, text))
    BY DEF Keeps, WorkItem, SessionRow, SameTurn, Pending, Spares
  <2> QED BY <2>1, FinalizedItem, KeepsOn DEF Keeps
<1>3. ASSUME NEW text \in Texts
      PROVE  Keeps(w, Silenced(Cleared(w), text))
  <2>1. PICK n : n = Cleared(w)
    OBVIOUS
  <2>2. n \in WorkItem /\ Keeps(w, n)
    BY <2>1, ClearedItem DEF Keeps
  <2>3. Keeps(n, Silenced(n, text))
    BY <1>1, <2>2 DEF Keeps, WorkItem, SessionRow, SameTurn, Silenced, Spares
  <2> QED BY <2>1, <2>2, <2>3, KeepsOn
<1>4. PICK n : n = Cleared(w)
  OBVIOUS
<1>5. n.r.delivered \in Texts
  BY <1>4, ClearedItem, TextOf DEF Keeps, WorkItem
<1>6. Concluded(w, known) =
        IF w.r.pending # {} THEN Finalized(w, known)
        ELSE IF w.r.streamed # {} /\ w.r.ids # NoIds THEN Finalized(Pending(w, w.r.streamed), known)
        ELSE Silenced(n, IF w.r.streamed # {} THEN w.r.streamed ELSE n.r.delivered)
  BY <1>4, <1>5, ClearedItem DEF Concluded, Pending, Silenced, Keeps, WorkItem, Spares
<1>7. (IF w.r.streamed # {} THEN w.r.streamed ELSE n.r.delivered) \in Texts
  BY <1>1, <1>5
<1> QED BY <1>1, <1>2, <1>3, <1>4, <1>6, <1>7, FinalizedItem

NoLonger(w) == [w EXCEPT !.r.ids = NoIds]

LEMMA EmptiedItem ==
  ASSUME NEW w \in WorkItem
  PROVE  Keeps(w, Emptied(w))
<1>1. PICK n : n = IF Preserved(w.r) THEN NoLonger(w) ELSE Cleared(w)
  OBVIOUS
<1>2. Keeps(w, NoLonger(w))
  BY DEF Keeps, WorkItem, SessionRow, SameTurn, NoLonger, Spares
<1>3. Keeps(w, n) /\ n \in WorkItem
  BY <1>1, <1>2, ClearedItem DEF Keeps
<1>4. Emptied(w) = Blanked(n)
  BY <1>1 DEF Emptied, NoLonger, Blanked
<1> QED BY <1>3, <1>4, WithText, KeepsOn, TextOf DEF WorkItem

LEMMA ReadyRow ==
  ASSUME NEW r \in SessionRow, NEW thread \in 0..MaxMessages
  PROVE  /\ Ready(r, thread) \in SessionRow /\ Ready(r, thread).active = r.active
         /\ Ready(r, thread).follow = r.follow /\ Ready(r, thread).completed = r.completed
<1>1. {} \in Texts
  BY DEF Texts
<1> QED BY <1>1 DEF Ready, SessionRow

LEMMA RecoveredRow ==
  ASSUME NEW r \in SessionRow
  PROVE  /\ Recovered(r) \in SessionRow /\ Recovered(r).follow = r.follow
         /\ Recovered(r).active \in {r.active, NoTurn} /\ Recovered(r).completed \in {r.completed, NoTurn}
<1>1. {} \in Texts
  BY DEF Texts
<1>2. PICK q \in SessionRow : q = Blank(r) /\ SameTurn(r, q)
  BY BlankRow
<1>3. [q EXCEPT !.active = NoTurn, !.delivered = {}, !.completed = NoTurn, !.status = "ACTIVE"] \in SessionRow
      /\ [q EXCEPT !.active = NoTurn, !.delivered = {}, !.completed = NoTurn, !.status = "ACTIVE"].active = NoTurn
      /\ [q EXCEPT !.active = NoTurn, !.delivered = {}, !.completed = NoTurn, !.status = "ACTIVE"].follow = q.follow
      /\ [q EXCEPT !.active = NoTurn, !.delivered = {}, !.completed = NoTurn, !.status = "ACTIVE"].completed = NoTurn
  BY <1>1 DEF SessionRow
<1>4. [r EXCEPT !.status = "ACTIVE"] \in SessionRow
      /\ [r EXCEPT !.status = "ACTIVE"].active = r.active /\ [r EXCEPT !.status = "ACTIVE"].follow = r.follow
      /\ [r EXCEPT !.status = "ACTIVE"].completed = r.completed
  BY DEF SessionRow
<1> QED BY <1>2, <1>3, <1>4 DEF Recovered, SameTurn

LEMMA WithoutFailedItem ==
  ASSUME NEW w \in WorkItem
  PROVE  Keeps(w, WithoutFailed(w))
<1>1. ASSUME NEW f \in [Turns -> SUBSET RowStates], NEW t
      PROVE  [f EXCEPT ![t] = @ \ Errors(@)] \in [Turns -> SUBSET RowStates]
  OBVIOUS
<1>2. WithoutFailed(w) = [w EXCEPT !.rows = [w.rows EXCEPT ![w.r.completed] = @ \ Errors(@)]]
  BY DEF WithoutFailed, WorkItem
<1> QED BY <1>1, <1>2 DEF WorkItem, Keeps, SameTurn, Spares

AnswerRow(r, text) == [Blank(r) EXCEPT !.ids = NoIds, !.status = "ACTIVE", !.delivered = text]
GivenUp(r)         == [Blank(r) EXCEPT !.ids = NoIds, !.status = "ACTIVE", !.attached = FALSE]

LEMMA AnswerRows ==
  ASSUME NEW r \in SessionRow, NEW text \in Texts
  PROVE  /\ AnswerRow(r, text) \in SessionRow /\ SameTurn(r, AnswerRow(r, text))
         /\ GivenUp(r) \in SessionRow /\ SameTurn(r, GivenUp(r))
<1>1. PICK b \in SessionRow : b = Blank(r) /\ SameTurn(r, b)
  BY BlankRow
<1>2. AnswerRow(r, text) = [b EXCEPT !.ids = NoIds, !.status = "ACTIVE", !.delivered = text]
  BY <1>1 DEF AnswerRow
<1>3. GivenUp(r) = [b EXCEPT !.ids = NoIds, !.status = "ACTIVE", !.attached = FALSE]
  BY <1>1 DEF GivenUp
<1>4. AnswerRow(r, text) \in SessionRow /\ SameTurn(b, AnswerRow(r, text))
  BY <1>2 DEF SessionRow, SameTurn
<1>5. GivenUp(r) \in SessionRow /\ SameTurn(b, GivenUp(r))
  BY <1>3 DEF SessionRow, SameTurn
<1> QED BY <1>1, <1>4, <1>5 DEF SameTurn

Answered(w, text) == [w EXCEPT !.r = AnswerRow(@, text)]
ToChat(w) == [w EXCEPT !.r.topic = FALSE]

LEMMA DeliveredItem ==
  ASSUME NEW w \in WorkItem
  PROVE  Keeps(w, Delivered(w))
<1>1. PICK n : n = WithoutFailed(w)
  OBVIOUS
<1>2. n \in WorkItem /\ Keeps(w, n)
  BY <1>1, WithoutFailedItem DEF Keeps
<1>3. PICK text \in Texts : text = IF w.r.pending # {} THEN w.r.pending ELSE w.r.streamed
  BY TextOf DEF WorkItem
<1>4. Delivered(w) = Answered(n, text)
  BY <1>1, <1>3 DEF Delivered, Answered, AnswerRow
<1>5. Keeps(n, Answered(n, text))
  BY <1>2, AnswerRows DEF Answered, Keeps, WorkItem, Spares
<1> QED BY <1>2, <1>4, <1>5, KeepsOn

LEMMA ResentItem ==
  ASSUME NEW w \in WorkItem, NEW known \in BOOLEAN
  PROVE  Keeps(w, Resent(w, known))
<1>1. PICK n : n = WithoutFailed(w)
  OBVIOUS
<1>2. n \in WorkItem /\ Keeps(w, n)
  BY <1>1, WithoutFailedItem DEF Keeps
<1>3. Keeps(n, Abandoned(n))
  <2>1. Abandoned(n) = [n EXCEPT !.r = GivenUp(@)]
    BY DEF Abandoned, GivenUp
  <2> QED BY <1>2, <2>1, AnswerRows, TextOf DEF Keeps, WorkItem, Spares
<1>4. Keeps(n, ToChat(n))
  BY <1>2 DEF ToChat, Keeps, WorkItem, SessionRow, SameTurn, Spares
<1>5. Keeps(n, Finalized(ToChat(n), known))
  BY <1>4, FinalizedItem, KeepsOn DEF Keeps
<1>6. Resent(w, known) = IF w.r.topic THEN Finalized(ToChat(n), known) ELSE Abandoned(n)
  BY <1>1 DEF Resent, ToChat
<1> QED BY <1>2, <1>3, <1>5, <1>6, KeepsOn

-----------------------------------------------------------------------------
(* The inductive invariant: turns are used in order, the session that runs *)
(* a turn is the one it was started for, an end in the notifications is    *)
(* the end of a turn that is over, a request to start a turn is made for a *)
(* session without one, and every turn, queued follow-up and thread comes  *)
(* from a message of the user.                                             *)
Started == {t \in Turns : ran[t] # "unused"}
Begun   == Cardinality(Started)

EndKinds == {"completed", "failed"}
Ended(t) == \E i \in DOMAIN notes : notes[i].turn = t /\ notes[i].kind \in EndKinds

InTurn == Started = 1..Begun

AtHome == \A s \in Sessions : sess[s].active # NoTurn =>
              sess[s].active \in Started /\ home[sess[s].active].s = s /\ s <= made

EndsAreTrue == \A i \in DOMAIN notes : notes[i].kind \in EndKinds => ran[notes[i].turn] = "over"

ForATurn == call.kind \in {"thread", "turn"}

CallFits == call.kind # "none" => call.s <= made /\ (ForATurn <=> sess[call.s].active = NoTurn)

NobodyRuns == \A t \in Turns : ~Running(t)

Gates == (server # "up" => NobodyRuns) /\ past <= Begun

Follows == {s \in Sessions : sess[s].follow}

One(b) == IF b THEN 1 ELSE 0

Budget == /\ Begun + Cardinality(Follows) + One(ForATurn) <= asked
          /\ threads + Cardinality(Follows) + One(call.kind = "thread") <= asked

TurnInv == InTurn /\ AtHome /\ EndsAreTrue /\ CallFits /\ Gates /\ RunningTurnKnown /\ TurnComes

ConversationInv == TypeOK /\ TurnInv /\ Budget

-----------------------------------------------------------------------------
(* Steps that start no turn: what a step may do to the turns and to the    *)
(* sessions' active turns, for the invariant to hold after it.             *)
KeepsTurns == \A t \in Turns : \/ ran'[t] = ran[t]
                               \/ ran[t] = "running" /\ ran'[t] = "spoken"
                               \/ Running(t) /\ ran'[t] = "over"

KeepsActive == \A s \in Sessions :
    \/ sess'[s].active = sess[s].active
    \/ /\ sess'[s].active = NoTurn
       /\ \A t \in Turns : t = sess[s].active /\ Running(t)' => t \in loose'

KeepsEnds == \A s \in Sessions : \A t \in Turns :
    sess[s].active = t /\ sess'[s].active = t /\ (Running(t) \/ Ended(t)) => Running(t)' \/ Ended(t)' \/ t <= past'

LEMMA StartedFinite == IsFiniteSet(Started) /\ Begun \in Nat /\ Started \subseteq Turns
<1>1. IsFiniteSet(1..MaxMessages)
  BY FS_Interval, ConversationAssumption
<1>2. Started \subseteq 1..MaxMessages
  BY DEF Started, Turns
<1>3. IsFiniteSet(Started)
  BY <1>1, <1>2, FS_Subset
<1> QED BY <1>2, <1>3, FS_CardinalityType DEF Begun, Turns

LEMMA NoTurnStarts ==
  ASSUME TypeOK, TypeOK', TurnInv, KeepsTurns, KeepsActive, KeepsEnds,
         home' = home, made <= made', loose \subseteq loose', past' \in {past, Begun},
         EndsAreTrue', CallFits', server' # "up" => NobodyRuns'
  PROVE  TurnInv' /\ Begun' = Begun
<1>1. Started' = Started
  BY DEF Started, KeepsTurns, Running, TypeOK
<1>2. Begun' = Begun /\ Begun \in Nat
  <2>1. IsFiniteSet(Started)
    BY StartedFinite
  <2> QED BY <1>1, <2>1, FS_CardinalityType DEF Begun
<1>3. InTurn'
  BY <1>1, <1>2 DEF InTurn, TurnInv
<1>4. AtHome'
  <2> SUFFICES ASSUME NEW s \in Sessions, sess'[s].active # NoTurn
               PROVE  sess'[s].active \in Started' /\ home'[sess'[s].active].s = s /\ s <= made'
    BY DEF AtHome
  <2>1. sess'[s].active = sess[s].active
    BY DEF KeepsActive
  <2>2. made \in Nat /\ made' \in Nat /\ s \in Nat
    BY DEF TypeOK, Sessions
  <2> QED BY <1>1, <2>1, <2>2 DEF TurnInv, AtHome
<1>5. Gates'
  BY <1>2 DEF Gates, TurnInv, TypeOK
<1>6. RunningTurnKnown'
  <2> SUFFICES ASSUME NEW t \in Turns, Running(t)'
               PROVE  sess'[home'[t].s].active = t \/ t \in loose'
    BY DEF RunningTurnKnown
  <2>1. Running(t)
    BY DEF KeepsTurns, Running
  <2>2. home[t].s \in Sessions
    BY DEF TypeOK
  <2>3. CASE sess[home[t].s].active = t
    BY <2>2, <2>3 DEF KeepsActive
  <2>4. CASE t \in loose
    BY <2>4
  <2> QED BY <2>1, <2>3, <2>4 DEF TurnInv, RunningTurnKnown
<1>7. TurnComes'
  <2> SUFFICES ASSUME NEW s \in Sessions, NEW t, t = sess'[s].active, t # NoTurn
               PROVE  Running(t)' \/ Ended(t)' \/ t <= past'
    BY DEF TurnComes, Ended, EndKinds
  <2>1. sess[s].active = t
    BY DEF KeepsActive
  <2>2. Running(t) \/ Ended(t) \/ t <= past
    BY <2>1 DEF TurnInv, TurnComes, Ended, EndKinds
  <2>3. t \in Turns /\ t \in Nat /\ past \in Nat
    <3>1. sess[s] \in SessionRow /\ past \in Nat
      BY ConversationAssumption DEF TypeOK
    <3>2. t \in {NoTurn} \cup Turns
      BY <2>1, <3>1 DEF SessionRow
    <3> QED BY <3>1, <3>2 DEF Turns
  <2>4. past <= past'
    BY <1>2, <2>3 DEF TurnInv, Gates
  <2>5. CASE t <= past
    BY <1>2, <2>3, <2>4, <2>5
  <2> QED BY <2>1, <2>2, <2>3, <2>5 DEF KeepsEnds
<1> QED BY <1>2, <1>3, <1>4, <1>5, <1>6, <1>7 DEF TurnInv

(* Steps that only give up turns that do not run, or are counted as loose. *)
LEMMA Undisturbed ==
  ASSUME TypeOK, TypeOK', TurnInv, KeepsActive, CallFits',
         UNCHANGED <<ran, home, past>>, server' # "up" => server # "up", made <= made', loose \subseteq loose',
         notes' = notes \/ (notes # <<>> /\ notes' = Tail(notes)
                            /\ (Head(notes).kind \in EndKinds => \A s \in Sessions : sess'[s].active # Head(notes).turn))
  PROVE  TurnInv' /\ Begun' = Begun
<1>1. \A t : Running(t)' = Running(t)
  BY DEF Running
<1>2. KeepsTurns
  BY DEF KeepsTurns
<1>3. notes' = notes => EndsAreTrue' /\ \A t : Ended(t)' = Ended(t)
  BY DEF TurnInv, EndsAreTrue, Ended
<1>4. CASE notes' = notes
  BY <1>1, <1>2, <1>3, <1>4, NoTurnStarts DEF KeepsEnds, TurnInv, Gates, NobodyRuns
<1>5. CASE notes # <<>> /\ notes' = Tail(notes)
  <2>1. notes \in Seq(Notices) /\ Len(notes) \in Nat /\ Len(notes) > 0 /\ notes[1] = Head(notes)
    BY <1>5 DEF TypeOK
  <2>2. DOMAIN notes = 1..Len(notes) /\ DOMAIN notes' = 1..(Len(notes) - 1)
        /\ \A i \in DOMAIN notes' : notes'[i] = notes[i + 1] /\ i + 1 \in DOMAIN notes
    BY <1>5, <2>1
  <2>3. EndsAreTrue'
    BY <2>2 DEF TurnInv, EndsAreTrue
  <2>4. ASSUME NEW s \in Sessions, NEW t, sess[s].active = t, sess'[s].active = t, Ended(t)
        PROVE  Ended(t)'
    <3>1. PICK i \in DOMAIN notes : notes[i].turn = t /\ notes[i].kind \in EndKinds
      BY <2>4 DEF Ended
    <3>2. notes' # notes
      BY <1>5, <2>1
    <3>3. i # 1
      BY <2>1, <2>4, <3>1, <3>2
    <3>4. i - 1 \in DOMAIN notes' /\ notes'[i - 1] = notes[i]
      <4>1. i - 1 \in DOMAIN notes'
        BY <2>1, <2>2, <3>3
      <4> QED BY <2>1, <2>2, <4>1
    <3> QED BY <3>1, <3>4 DEF Ended
  <2>5. KeepsEnds
    BY <1>1, <2>4 DEF KeepsEnds
  <2> QED BY <1>1, <1>2, <2>3, <2>5, NoTurnStarts DEF TurnInv, Gates, NobodyRuns
<1> QED BY <1>4, <1>5

-----------------------------------------------------------------------------
(* The invariant after steps that use no turn and no message.              *)

TakesNote == notes # <<>> /\ notes' = Tail(notes)
             /\ (Head(notes).kind \in EndKinds => \A s \in Sessions : sess'[s].active # Head(notes).turn)

LEMMA SavedRow ==
  ASSUME TypeOK, NEW s \in Sessions, NEW w \in WorkItem, Saved(s, w)
  PROVE  /\ sess' \in [Sessions -> SessionRow] /\ handed' \in [0..MaxMessages -> Texts]
         /\ rows' \in [Turns -> SUBSET RowStates]
         /\ sess'[s] = w.r /\ \A q \in Sessions : q # s => sess'[q] = sess[q]
  BY DEF TypeOK, Saved, WorkItem

LEMMA WorkOfRow ==
  ASSUME TypeOK, NEW s \in Sessions
  PROVE  Work(s) \in WorkItem /\ Work(s).r = sess[s]
  BY DEF TypeOK, Work, WorkItem

(* Only the messages of a turn of an attached session get another text, a  *)
(* turn that is completed was the active one of its session, and the       *)
(* turns stay with the sessions they were started for.                     *)
Careful ==
    /\ \A s \in Sessions : sess'[s].completed \in {sess[s].completed, sess[s].active, NoTurn}
    /\ \A t \in Turns : \/ handed'[t] \subseteq handed[t]
                        \/ \E s \in Sessions : sess[s].attached /\ t \in {sess[s].active, sess[s].completed}
    /\ \A t \in Started : t \in Started' /\ home'[t] = home[t]

LEMMA CarefulStep ==
  ASSUME TypeOK, home' = home, KeepsTurns, handed' = handed,
         \A s \in Sessions : sess'[s].completed \in {sess[s].completed, sess[s].active, NoTurn}
  PROVE  Careful
  BY DEF Careful, Started, KeepsTurns, Running

CarefulWith(s) ==
    /\ home' = home /\ \A q \in Sessions : q # s => sess'[q] = sess[q]
    /\ sess'[s].completed \in {sess[s].completed, sess[s].active, NoTurn}
    /\ \A t \in Turns : \/ handed'[t] \subseteq handed[t]
                        \/ sess[s].attached /\ t \in {sess[s].active, sess[s].completed}

LEMMA CarefulAt ==
  ASSUME NEW s \in Sessions, KeepsTurns, CarefulWith(s)
  PROVE  Careful
<1>1. \A q \in Sessions : sess'[q].completed \in {sess[q].completed, sess[q].active, NoTurn}
  BY DEF CarefulWith
<1>2. \A t \in Turns : \/ handed'[t] \subseteq handed[t]
                       \/ sess[s].attached /\ t \in {sess[s].active, sess[s].completed}
  BY DEF CarefulWith
<1>3. \A t \in Started : t \in Started' /\ home'[t] = home[t]
  BY DEF Started, KeepsTurns, Running, CarefulWith
<1> QED BY <1>1, <1>2, <1>3 DEF Careful

LEMMA SavedCareful ==
  ASSUME TypeOK, NEW s \in Sessions, NEW w \in WorkItem, NEW v \in WorkItem, Keeps(w, v), Saved(s, v),
         w.handed = handed, TurnOf(w.r) \in {sess[s].active, sess[s].completed},
         w.r.completed \in {sess[s].active, sess[s].completed}, w.r.attached => sess[s].attached,
         home' = home, KeepsTurns
  PROVE  Careful
<1>1. handed' = v.handed /\ sess'[s] = v.r /\ \A q \in Sessions : q # s => sess'[q] = sess[q]
  BY SavedRow DEF Saved
<1>2. \A q \in Sessions : sess'[q].completed \in {sess[q].completed, sess[q].active, NoTurn}
  BY <1>1 DEF Keeps, SameTurn
<1>3. \A t \in Turns : \/ handed'[t] \subseteq handed[t]
                       \/ sess[s].attached /\ t \in {sess[s].active, sess[s].completed}
  BY <1>1 DEF Keeps, Spares
<1>4. \A t \in Started : t \in Started'
  BY DEF Started, KeepsTurns, Running
<1> QED BY <1>2, <1>3, <1>4 DEF Careful

LEMMA NoCallTyped == NoCall \in [kind : {"none", "thread", "turn", "steer"}, s : Sessions,
                                 thread : 0..MaxMessages, delivered : Texts]
  BY ConversationAssumption DEF NoCall, Sessions, Texts

LEMMA FollowsFinite == IsFiniteSet(Follows) /\ Cardinality(Follows) \in Nat
<1>1. IsFiniteSet(1..MaxSessions)
  BY FS_Interval, ConversationAssumption
<1>2. Follows \subseteq 1..MaxSessions
  BY DEF Follows, Sessions
<1> QED BY <1>1, <1>2, FS_Subset, FS_CardinalityType

LEMMA SameFollows ==
  ASSUME \A s \in Sessions : sess'[s].follow = sess[s].follow
  PROVE  Follows' = Follows
  BY DEF Follows

LEMMA CalmStep ==
  ASSUME ConversationInv, TypeOK', KeepsActive, \A s \in Sessions : sess'[s].follow = sess[s].follow,
         UNCHANGED <<ran, home, past, threads, asked>>, made <= made', loose \subseteq loose',
         server' # "up" => server # "up",
         call' = NoCall \/ (call' = call /\ (MainFree \/ sess'[call.s].active = sess[call.s].active)),
         notes' = notes \/ TakesNote
  PROVE  /\ ConversationInv'
         /\ handed' = handed /\ (\A s \in Sessions : sess'[s].completed \in {sess[s].completed, sess[s].active, NoTurn})
            => Careful
<1>0. TypeOK /\ TurnInv /\ Budget
  BY DEF ConversationInv
<1>1. CallFits'
  <2>1. call.s \in Sessions /\ made \in Int /\ made' \in Int
    BY <1>0 DEF TypeOK, Sessions
  <2>2. CASE call' = NoCall
    BY <2>2 DEF CallFits, NoCall
  <2>3. CASE call' = call /\ MainFree
    BY <2>3 DEF CallFits, MainFree
  <2>4. CASE call' = call /\ sess'[call.s].active = sess[call.s].active
    <3>1. ForATurn' <=> ForATurn
      BY <2>4 DEF ForATurn
    <3>2. CallFits
      BY <1>0 DEF TurnInv
    <3>3. call.s \in Int
      BY <2>1 DEF Sessions
    <3> QED BY <2>1, <2>4, <3>1, <3>2, <3>3 DEF CallFits
  <2> QED BY <2>2, <2>3, <2>4
<1>2. TurnInv' /\ Begun' = Begun
  BY <1>0, <1>1, Undisturbed DEF TakesNote
<1>3. Budget'
  <2>1. Follows' = Follows /\ Cardinality(Follows) \in Nat /\ Begun \in Nat
    BY SameFollows, FollowsFinite, StartedFinite
  <2>2. One(ForATurn)' <= One(ForATurn) /\ One(call.kind = "thread")' <= One(call.kind = "thread")
    BY DEF One, ForATurn, NoCall
  <2>3. threads \in Int /\ asked \in Int /\ One(ForATurn) \in Int /\ One(call.kind = "thread") \in Int
        /\ One(ForATurn)' \in Int /\ One(call.kind = "thread")' \in Int
    BY <1>0 DEF TypeOK, One
  <2> QED BY <1>0, <1>2, <2>1, <2>2, <2>3 DEF Budget
<1>4. KeepsTurns
  BY DEF KeepsTurns
<1> QED BY <1>0, <1>2, <1>3, <1>4, CarefulStep DEF ConversationInv

-----------------------------------------------------------------------------
(* What the steps preserve: notifications.                                 *)

LEMMA NoteTaken ==
  ASSUME TypeOK, NEW kinds, HandlesNote(kinds)
  PROVE  /\ notes # <<>> /\ notes' = Tail(notes) /\ notes' \in Seq(Notices) /\ Len(notes') <= MaxNotes
         /\ Note \in Notices /\ Note.kind \in kinds /\ Note.turn \in Turns
         /\ \E i \in DOMAIN notes : notes[i] = Note
<1>1. notes \in Seq(Notices) /\ notes # <<>> /\ Len(notes) \in Nat /\ Len(notes) <= MaxNotes /\ MaxNotes \in Nat
  BY ConversationAssumption DEF TypeOK, HandlesNote
<1>2. 1 \in DOMAIN notes /\ notes[1] = Note /\ Note \in Notices
  BY <1>1 DEF Note
<1>3. notes' = Tail(notes) /\ Note.kind \in kinds
  BY DEF HandlesNote
<1>4. notes' \in Seq(Notices) /\ Len(notes') = Len(notes) - 1
  BY <1>1, <1>3
<1> QED BY <1>1, <1>2, <1>3, <1>4 DEF Notices

(* The notification says the truth: the turn that ended is over, and no    *)
(* other session runs it.                                                  *)
LEMMA OneRuns ==
  ASSUME TypeOK, TurnInv, NEW t \in Turns, NEW s \in Sessions, s \in Runs(t)
  PROVE  \A q \in Sessions : sess[q].active = t => q = s
  BY DEF TurnInv, AtHome, Runs, NoTurn, Turns

LEMMA MadeAreSessions ==
  ASSUME TypeOK
  PROVE  1..made \subseteq Sessions
  BY ConversationAssumption DEF TypeOK, Sessions

LEMMA RunsTyped ==
  ASSUME TypeOK, NEW t, NEW s \in Runs(t)
  PROVE  s \in Sessions /\ sess[s].active = t
  BY MadeAreSessions DEF Runs

LEMMA NobodyRunsIt ==
  ASSUME TypeOK, TurnInv, NEW t \in Turns, Runs(t) = {}
  PROVE  \A q \in Sessions : sess[q].active # t
  BY DEF TurnInv, AtHome, Runs, NoTurn, Turns, Sessions, TypeOK

LEMMA TextStep ==
  ASSUME ConversationInv, HandlesText
  PROVE  ConversationInv' /\ Careful
<1>0. TypeOK /\ TurnInv
  BY DEF ConversationInv
<1>1. HandlesNote({"delta", "message"}) /\ done' = done
  BY DEF HandlesText
<1>2. /\ notes # <<>> /\ notes' = Tail(notes) /\ notes' \in Seq(Notices) /\ Len(notes') <= MaxNotes
      /\ Note \in Notices /\ Note.kind \in {"delta", "message"}
  BY <1>0, <1>1, NoteTaken
<1>3. /\ sess' \in [Sessions -> SessionRow] /\ handed' \in [0..MaxMessages -> Texts]
      /\ rows' \in [Turns -> SUBSET RowStates] /\ \A q \in Sessions : SameTurn(sess[q], sess'[q])
      /\ Careful
  <2>0. KeepsTurns /\ home' = home
    BY <1>1 DEF KeepsTurns, HandlesNote
  <2>1. CASE UNCHANGED <<sess, queue>>
    <3>1. sess' = sess /\ handed' = handed /\ rows' = rows
      BY <2>1 DEF queue
    <3> QED BY <1>0, <2>0, <3>1, CarefulStep DEF TypeOK, SameTurn
  <2>2. CASE ~UNCHANGED <<sess, queue>>
    <3>1. PICK s \in Addressed(Note.turn), flush \in BOOLEAN, known \in BOOLEAN :
            Saved(s, IF flush /\ Note.kind = "delta" THEN Streamed([Work(s) EXCEPT !.r = Collected(@, Note)], known)
                     ELSE [Work(s) EXCEPT !.r = Collected(@, Note)])
      BY <2>2 DEF HandlesText
    <3>2. s \in Sessions
      BY <1>0, MadeAreSessions DEF Addressed
    <3>3. PICK w : w = [Work(s) EXCEPT !.r = Collected(@, Note)]
      OBVIOUS
    <3>4. Keeps(Work(s), w) /\ w \in WorkItem
      BY <1>0, <1>2, <3>2, <3>3, WorkOfRow, CollectedRow, WithRowOf DEF Keeps, WorkItem, Spares
    <3>5. PICK v : v = IF flush /\ Note.kind = "delta" THEN Streamed(w, known) ELSE w
      OBVIOUS
    <3>6. Keeps(Work(s), v) /\ v \in WorkItem
      BY <3>4, <3>5, StreamedItem, KeepsOn DEF Keeps
    <3>7. Saved(s, v)
      BY <3>1, <3>3, <3>5
    <3>8. Work(s) \in WorkItem /\ Work(s).r = sess[s] /\ Work(s).handed = handed
      BY <1>0, <3>2, WorkOfRow DEF Work
    <3>9. Careful
      BY <1>0, <2>0, <3>2, <3>6, <3>7, <3>8, SavedCareful DEF TurnOf
    <3> QED BY <1>0, <3>2, <3>6, <3>7, <3>8, <3>9, SavedRow DEF Keeps, SameTurn
  <2> QED BY <2>1, <2>2
<1>4. TypeOK'
  BY <1>0, <1>1, <1>2, <1>3 DEF TypeOK, HandlesNote
<1>5. Note.kind \notin EndKinds
  BY <1>2 DEF EndKinds
<1>6. made' = made /\ made \in Int /\ loose' = loose /\ call.s \in Sessions
  BY <1>0, <1>1 DEF HandlesNote, TypeOK, Sessions
<1>7. KeepsActive
  BY <1>3 DEF KeepsActive, SameTurn
<1> QED BY <1>1, <1>2, <1>3, <1>4, <1>5, <1>6, <1>7, CalmStep DEF HandlesNote, SameTurn, TakesNote, Note

(* What the end of a turn does to its session.                             *)
LetsGo(s) == /\ sess' \in [Sessions -> SessionRow] /\ handed' \in [0..MaxMessages -> Texts]
             /\ rows' \in [Turns -> SUBSET RowStates]
             /\ sess'[s].active = NoTurn /\ sess'[s].follow = sess[s].follow
             /\ \A q \in Sessions : q # s => sess'[q] = sess[q]
             /\ sess'[s].completed \in {sess[s].completed, sess[s].active, NoTurn}
             /\ \A t \in Turns : \/ handed'[t] \subseteq handed[t]
                                 \/ sess[s].attached /\ t \in {sess[s].active, sess[s].completed}

LEMMA LetsGoCareful ==
  ASSUME NEW s \in Sessions, LetsGo(s), KeepsTurns, home' = home
  PROVE  Careful
<1>1. CarefulWith(s)
  BY DEF LetsGo, CarefulWith
<1> QED BY <1>1, CarefulAt

LEMMA EndStep ==
  ASSUME ConversationInv, HandlesNote(EndKinds), done' \subseteq Turns,
         \/ UNCHANGED <<sess, queue>> /\ Runs(Note.turn) = {}
         \/ \E s \in Runs(Note.turn) : LetsGo(s)
  PROVE  ConversationInv' /\ Careful
<1>0. TypeOK /\ TurnInv
  BY DEF ConversationInv
<1>1. /\ notes # <<>> /\ notes' = Tail(notes) /\ notes' \in Seq(Notices) /\ Len(notes') <= MaxNotes
      /\ Note.turn \in Turns
  BY <1>0, NoteTaken
<1>2. ran[Note.turn] = "over"
  <2>1. PICK i \in DOMAIN notes : notes[i] = Note /\ Note.kind \in EndKinds
    BY <1>0, NoteTaken
  <2> QED BY <1>0, <2>1 DEF TurnInv, EndsAreTrue
<1>3. /\ sess' \in [Sessions -> SessionRow] /\ handed' \in [0..MaxMessages -> Texts]
      /\ rows' \in [Turns -> SUBSET RowStates]
      /\ \A q \in Sessions : sess'[q].follow = sess[q].follow /\ sess'[q].active # Note.turn
      /\ KeepsActive /\ Careful
  <2>0. KeepsTurns /\ home' = home
    BY DEF KeepsTurns, HandlesNote
  <2>1. CASE UNCHANGED <<sess, queue>> /\ Runs(Note.turn) = {}
    <3>1. sess' = sess /\ handed' = handed /\ rows' = rows
      BY <2>1 DEF queue
    <3> QED BY <1>0, <1>1, <2>0, <2>1, <3>1, CarefulStep, NobodyRunsIt DEF TypeOK, KeepsActive
  <2>2. CASE \E s \in Runs(Note.turn) : LetsGo(s)
    <3>1. PICK s \in Runs(Note.turn) : LetsGo(s)
      BY <2>2
    <3>2. s \in Sessions /\ sess[s].active = Note.turn /\ \A q \in Sessions : sess[q].active = Note.turn => q = s
      BY <1>0, <1>1, OneRuns, RunsTyped
    <3>3. \A t \in Turns : t = Note.turn => ~Running(t)'
      BY <1>2 DEF Running, HandlesNote
    <3>4. KeepsActive
      BY <3>1, <3>2, <3>3 DEF KeepsActive, LetsGo
    <3>5. Note.turn # NoTurn
      BY <1>1 DEF Turns, NoTurn
    <3>6. Careful
      BY <2>0, <3>1, <3>2, LetsGoCareful
    <3> QED BY <3>1, <3>2, <3>4, <3>5, <3>6 DEF LetsGo
  <2> QED BY <2>1, <2>2
<1>4. TypeOK'
  BY <1>0, <1>1, <1>3 DEF TypeOK, HandlesNote
<1>5. made' = made /\ made \in Int /\ loose' = loose
  BY <1>0 DEF HandlesNote, TypeOK, Sessions
<1>6. call' = call /\ MainFree
  BY DEF HandlesNote
<1> QED BY <1>1, <1>3, <1>4, <1>5, <1>6, CalmStep DEF HandlesNote, TakesNote, Note

LEMMA PiecesTyped ==
  ASSUME TypeOK, NEW t \in Turns
  PROVE  Pieces(t) \in Texts
<1>1. said[t] \in 0..MaxPieces /\ MaxPieces \in Nat
  BY ConversationAssumption DEF TypeOK
<1> QED BY <1>1 DEF Pieces, Texts

LEMMA LatestTyped ==
  ASSUME TypeOK, NEW r, NEW text \in CompletionTexts(r)
  PROVE  text \in Texts
<1>1. {} \in Texts
  BY DEF Texts
<1>2. Latest(r.thread) \in Texts
  <2> DEFINE ts == {t \in Turns : home[t].thread = r.thread /\ said[t] > 0}
             last == {u \in ts : \A v \in ts : v <= u}
  <2>1. \A t \in last : Pieces(t) \subseteq Turns \X (1..MaxPieces)
    BY PiecesTyped DEF Texts
  <2>2. Latest(r.thread) = UNION {Pieces(t) : t \in last}
    BY DEF Latest
  <2> HIDE DEF last
  <2>3. UNION {Pieces(t) : t \in last} \subseteq Turns \X (1..MaxPieces)
    BY <2>1
  <2> QED BY <2>2, <2>3 DEF Texts
<1> QED BY <1>1, <1>2 DEF CompletionTexts

LEMMA CompletedStep ==
  ASSUME ConversationInv, HandlesCompleted
  PROVE  ConversationInv' /\ Careful
<1>0. TypeOK
  BY DEF ConversationInv
<1>1. HandlesNote({"completed"})
  BY DEF HandlesCompleted
<1>2. HandlesNote(EndKinds) /\ Note.turn \in Turns
  BY <1>0, <1>1, NoteTaken DEF HandlesNote, EndKinds
<1>3. CASE Runs(Note.turn) = {}
  <2>1. done' \subseteq Turns
    BY <1>0, <1>3 DEF HandlesCompleted, TypeOK
  <2> QED BY <1>2, <1>3, <2>1, EndStep DEF HandlesCompleted
<1>4. CASE Runs(Note.turn) # {}
  <2>1. PICK s \in Runs(Note.turn), known \in BOOLEAN : \E text \in CompletionTexts(sess[s]) :
               /\ Saved(s, Concluded([Work(s) EXCEPT !.r = TurnOver(IF News(sess[s], text) THEN Merged(sess[s], text)
                                                                    ELSE sess[s], Note.turn)], known))
               /\ done' = IF sess[s].attached THEN done \cup {Note.turn} ELSE done
    BY <1>4 DEF HandlesCompleted
  <2>2. PICK text \in CompletionTexts(sess[s]) :
               /\ Saved(s, Concluded([Work(s) EXCEPT !.r = TurnOver(IF News(sess[s], text) THEN Merged(sess[s], text)
                                                                    ELSE sess[s], Note.turn)], known))
               /\ done' = IF sess[s].attached THEN done \cup {Note.turn} ELSE done
    BY <2>1
  <2>3. s \in Sessions /\ sess[s] \in SessionRow /\ text \in Texts
    BY <1>0, <1>2, <2>1, <2>2, LatestTyped, RunsTyped DEF TypeOK
  <2>4. PICK q \in SessionRow : q = IF News(sess[s], text) THEN Merged(sess[s], text) ELSE sess[s]
    BY <2>3, MergedRow
  <2>5. SameTurn(sess[s], q)
    BY <2>3, <2>4, MergedRow DEF SameTurn
  <2>6. PICK w : w = [Work(s) EXCEPT !.r = TurnOver(q, Note.turn)]
    OBVIOUS
  <2>7. /\ w \in WorkItem /\ w.r.active = NoTurn /\ w.r.follow = sess[s].follow /\ w.handed = handed
        /\ w.r.completed = Note.turn /\ (w.r.attached => sess[s].attached)
    <3>1. Work(s) \in WorkItem /\ Work(s).handed = handed
      BY <1>0, <2>3, WorkOfRow DEF Work
    <3>2. TurnOver(q, Note.turn) \in SessionRow
      BY <1>2, TurnOverRow
    <3>3. w \in WorkItem /\ w.r = TurnOver(q, Note.turn) /\ w.handed = handed
      BY <2>6, <3>1, <3>2, WithRowOf
    <3> QED BY <1>2, <2>5, <3>3, TurnOverRow DEF SameTurn
  <2>8. PICK v : v = Concluded(w, known)
    OBVIOUS
  <2>9. /\ v \in WorkItem /\ v.r.active = NoTurn /\ v.r.follow = sess[s].follow
        /\ v.r.completed = sess[s].active
        /\ \A t \in Turns : v.handed[t] \subseteq handed[t] \/ (t = sess[s].active /\ sess[s].attached)
    <3>1. sess[s].active = Note.turn /\ TurnOf(w.r) = Note.turn
      BY <1>0, <1>2, <2>1, <2>7, RunsTyped DEF TurnOf
    <3> QED BY <2>7, <2>8, <3>1, ConcludedItem DEF Keeps, SameTurn, Spares
  <2>10. Saved(s, v)
    BY <2>2, <2>4, <2>6, <2>8
  <2>11. LetsGo(s)
    BY <1>0, <2>3, <2>9, <2>10, SavedRow DEF LetsGo, Saved
  <2>12. done' \subseteq Turns
    BY <1>0, <1>2, <2>2 DEF TypeOK
  <2> QED BY <1>2, <2>1, <2>11, <2>12, EndStep
<1> QED BY <1>3, <1>4

LEMMA PublishedRow ==
  ASSUME TypeOK, NEW s \in Sessions, NEW w \in WorkItem, w.r.follow = sess[s].follow, w.handed = handed,
         w.r.completed \in {sess[s].completed, sess[s].active}, Published(s, w)
  PROVE  LetsGo(s)
<1>1. PICK edits \in BOOLEAN, forget \in BOOLEAN :
        Saved(s, [(IF edits THEN Cleared(w) ELSE w) EXCEPT !.r = Reset(@, forget)])
  BY DEF Published
<1>2. PICK n : n = IF edits THEN Cleared(w) ELSE w
  OBVIOUS
<1>3. /\ n \in WorkItem /\ n.r.follow = sess[s].follow /\ n.r \in SessionRow
      /\ n.r.completed \in {sess[s].completed, sess[s].active}
      /\ \A t \in Turns : n.handed[t] \subseteq handed[t]
  BY <1>2, ClearedItem DEF Keeps, SameTurn, WorkItem
<1>4. PICK v : v = [n EXCEPT !.r = Reset(@, forget)]
  OBVIOUS
<1>5. /\ v \in WorkItem /\ v.r.active = NoTurn /\ v.r.follow = sess[s].follow
      /\ v.r.completed \in {sess[s].completed, sess[s].active, NoTurn} /\ v.handed = n.handed
  BY <1>3, <1>4, ResetRow DEF WorkItem
<1>6. Saved(s, v)
  BY <1>1, <1>2, <1>4
<1> QED BY <1>3, <1>5, <1>6, SavedRow DEF LetsGo, Saved

LEMMA FailedStep ==
  ASSUME ConversationInv, HandlesFailed
  PROVE  ConversationInv' /\ Careful
<1>0. TypeOK
  BY DEF ConversationInv
<1>1. HandlesNote({"failed"}) /\ done' = done
  BY DEF HandlesFailed
<1>2. HandlesNote(EndKinds) /\ Note.turn \in Turns /\ done' \subseteq Turns
  BY <1>0, <1>1, NoteTaken DEF HandlesNote, EndKinds, TypeOK
<1>3. CASE Runs(Note.turn) = {}
  BY <1>2, <1>3, EndStep DEF HandlesFailed
<1>4. CASE Runs(Note.turn) # {}
  <2>1. PICK s \in Runs(Note.turn) : Published(s, [Work(s) EXCEPT !.r = TurnOver(@, Note.turn)])
    BY <1>4 DEF HandlesFailed
  <2>2. s \in Sessions /\ sess[s] \in SessionRow
    BY <1>0, <1>2, <2>1, RunsTyped DEF TypeOK
  <2>3. PICK w : w = [Work(s) EXCEPT !.r = TurnOver(sess[s], Note.turn)]
    OBVIOUS
  <2>4. w = [Work(s) EXCEPT !.r = TurnOver(@, Note.turn)]
    BY <2>3 DEF Work
  <2>6. w \in WorkItem /\ w.r.follow = sess[s].follow /\ w.handed = handed /\ w.r.completed = sess[s].active
    <3>1. Work(s) \in WorkItem /\ Work(s).handed = handed /\ sess[s].active = Note.turn
      BY <1>0, <1>2, <2>1, <2>2, WorkOfRow, RunsTyped DEF Work
    <3>2. TurnOver(sess[s], Note.turn) \in SessionRow
      BY <1>2, <2>2, TurnOverRow
    <3>3. w \in WorkItem /\ w.r = TurnOver(sess[s], Note.turn) /\ w.handed = handed
      BY <2>3, <3>1, <3>2, WithRowOf
    <3> QED BY <1>2, <2>2, <3>1, <3>3, TurnOverRow
  <2>5. LetsGo(s)
    BY <1>0, <2>1, <2>2, <2>4, <2>6, PublishedRow
  <2> QED BY <1>2, <2>1, <2>5, EndStep
<1> QED BY <1>3, <1>4

-----------------------------------------------------------------------------
(* What the steps preserve: the periodic work, the queue and commands.     *)

(* A session's texts change, not what it runs.                             *)
LEMMA UpkeepStep ==
  ASSUME ConversationInv, NEW s \in Sessions, NEW w \in WorkItem, Upkeep(s), Saved(s, w), Keeps(Work(s), w)
  PROVE  ConversationInv' /\ Careful
<1>0. TypeOK
  BY DEF ConversationInv
<1>1. /\ sess' \in [Sessions -> SessionRow] /\ handed' \in [0..MaxMessages -> Texts]
      /\ rows' \in [Turns -> SUBSET RowStates] /\ \A q \in Sessions : SameTurn(sess[q], sess'[q])
  BY <1>0, SavedRow, WorkOfRow DEF SameTurn, Keeps
<1>2. UNCHANGED <<ran, home, past, threads, asked, made, loose, server, call, notes>> /\ MainFree
  BY DEF Upkeep, codex, history
<1>3. TypeOK'
  BY <1>0, <1>1 DEF TypeOK, Upkeep, codex, history
<1>4. made \in Int
  BY <1>0 DEF TypeOK, Sessions
<1>5. KeepsActive
  BY <1>1 DEF KeepsActive, SameTurn
<1>6. Careful
  <2>1. Work(s) \in WorkItem /\ Work(s).r = sess[s] /\ Work(s).handed = handed
    BY <1>0, WorkOfRow DEF Work
  <2>2. KeepsTurns
    BY <1>2 DEF KeepsTurns
  <2> QED BY <1>0, <1>2, <2>1, <2>2, SavedCareful DEF TurnOf
<1> QED BY <1>1, <1>2, <1>3, <1>4, <1>5, <1>6, CalmStep DEF SameTurn

LEMMA FlushStep ==
  ASSUME ConversationInv, NEW s \in Sessions, FlushesIdle(s)
  PROVE  ConversationInv' /\ Careful
<1>1. PICK known \in BOOLEAN : Saved(s, Streamed(Work(s), known))
  BY DEF FlushesIdle
<1>2. TypeOK /\ Upkeep(s)
  BY DEF ConversationInv, FlushesIdle
<1>3. Keeps(Work(s), Streamed(Work(s), known))
  BY <1>2, WorkOfRow, StreamedItem
<1> QED BY <1>1, <1>2, <1>3, UpkeepStep DEF Keeps

LEMMA ReconcileStep ==
  ASSUME ConversationInv, NEW s \in Sessions, Reconciles(s)
  PROVE  ConversationInv' /\ Careful
<1>1. TypeOK /\ Upkeep(s)
  BY DEF ConversationInv, Reconciles
<1>2. Work(s) \in WorkItem /\ Work(s).r = sess[s]
  BY <1>1, WorkOfRow
<1>3. \/ Saved(s, Delivered(Work(s)))
      \/ \E known \in BOOLEAN : Saved(s, Resent(Work(s), known))
  BY DEF Reconciles
<1>4. \E w \in WorkItem : Saved(s, w) /\ Keeps(Work(s), w)
  BY <1>2, <1>3, DeliveredItem, ResentItem DEF Keeps
<1> QED BY <1>1, <1>4, UpkeepStep

LEMMA QuietStep ==
  ASSUME ConversationInv, NEW s \in Sessions, GoesQuiet(s)
  PROVE  ConversationInv' /\ Careful
<1>1. TypeOK /\ Upkeep(s)
  BY DEF ConversationInv, GoesQuiet
<1>2. Work(s) \in WorkItem /\ Work(s).r = sess[s] /\ sess[s] \in SessionRow
  BY <1>1, WorkOfRow DEF WorkItem
<1>3. PICK r : r = [sess[s] EXCEPT !.quiet = TRUE]
  OBVIOUS
<1>4. r \in SessionRow /\ SameTurn(sess[s], r)
  BY <1>2, <1>3 DEF SessionRow, SameTurn
<1>5. PICK w : w = [Work(s) EXCEPT !.r = r]
  OBVIOUS
<1>6. sess' = [sess EXCEPT ![s] = r] /\ UNCHANGED queue
  BY <1>1, <1>3 DEF GoesQuiet, TypeOK
<1>7. w \in WorkItem /\ w.r = r /\ Saved(s, w)
  <2>1. w \in WorkItem /\ w.r = r /\ w.handed = handed /\ w.rows = rows
    BY <1>2, <1>4, <1>5, WithRowOf DEF Work
  <2> QED BY <1>6, <2>1 DEF Saved, queue
<1>8. Keeps(Work(s), w)
  BY <1>2, <1>4, <1>5, <1>7, WithRowOf DEF Keeps, Spares
<1> QED BY <1>1, <1>7, <1>8, UpkeepStep

LEMMA DeliversStep ==
  ASSUME ConversationInv, NEW t \in Turns, Delivers(t)
  PROVE  ConversationInv' /\ Careful
<1>0. TypeOK
  BY DEF ConversationInv
<1>1. PICK end \in RowEnds : rows' = [rows EXCEPT ![t] = (@ \ {"queued"}) \cup {end}]
  BY DEF Delivers
<1>2. rows' \in [Turns -> SUBSET RowStates]
  <2>1. end \in RowStates
    BY ConversationAssumption DEF RowStates
  <2> QED BY <1>0, <1>1, <2>1 DEF TypeOK
<1>3. UNCHANGED <<sess, made, topic, codex, call, handed, asked, history, left>>
  BY DEF Delivers
<1>4. TypeOK'
  BY <1>0, <1>2, <1>3 DEF TypeOK, codex, history
<1>5. made \in Int
  BY <1>0 DEF TypeOK, Sessions
<1>6. KeepsActive
  BY <1>3 DEF KeepsActive
<1> QED BY <1>3, <1>4, <1>5, <1>6, CalmStep DEF codex, history

LEMMA SpendTyped ==
  ASSUME TypeOK, NEW kind \in Faults \cup Commands, Spend(kind)
  PROVE  left' \in [Faults \cup Commands -> Nat]
<1>1. left \in [Faults \cup Commands -> Nat] /\ left[kind] > 0 /\ left' = [left EXCEPT ![kind] = left[kind] - 1]
  BY DEF TypeOK, Spend
<1>2. left[kind] - 1 \in Nat
  BY <1>1
<1> QED BY <1>1, <1>2

LEMMA NewStep ==
  ASSUME ConversationInv, New
  PROVE  ConversationInv' /\ Careful
<1>0. TypeOK
  BY DEF ConversationInv
<1>1. /\ made' = made + 1 /\ made < MaxSessions /\ MainFree
      /\ sess' = [s \in Sessions |-> IF s \in Current THEN [sess[s] EXCEPT !.attached = FALSE] ELSE sess[s]]
      /\ UNCHANGED <<topic, codex, call, queue, asked, history>>
  BY DEF New
<1>2. left' \in [Faults \cup Commands -> Nat]
  BY <1>0, SpendTyped DEF New, Commands
<1>3. made \in Int /\ made' \in Sessions
  BY <1>0, <1>1, ConversationAssumption DEF TypeOK, Sessions
<1>4. \A s \in Sessions : sess'[s] \in SessionRow /\ SameTurn(sess[s], sess'[s])
  <2> SUFFICES ASSUME NEW s \in Sessions
               PROVE  sess'[s] \in SessionRow /\ SameTurn(sess[s], sess'[s])
    OBVIOUS
  <2>1. PICK r \in SessionRow : r = sess[s]
    BY <1>0 DEF TypeOK
  <2>2. [r EXCEPT !.attached = FALSE] \in SessionRow /\ SameTurn(r, [r EXCEPT !.attached = FALSE])
    BY DEF SessionRow, SameTurn
  <2> QED BY <1>1, <2>1, <2>2 DEF SameTurn
<1>5. sess' \in [Sessions -> SessionRow]
  BY <1>1, <1>4
<1>6. TypeOK'
  BY <1>0, <1>1, <1>2, <1>3, <1>5 DEF TypeOK, codex, queue, history
<1>7. KeepsActive
  BY <1>4 DEF KeepsActive, SameTurn
<1> QED BY <1>1, <1>3, <1>4, <1>6, <1>7, CalmStep DEF codex, queue, history, SameTurn

LEMMA ServerNoticed ==
  ASSUME ConversationInv, NoticesDeath
  PROVE  ConversationInv' /\ Careful
<1>0. TypeOK
  BY DEF ConversationInv
<1>1. TypeOK' /\ made \in Int
  BY <1>0 DEF TypeOK, NoticesDeath, queue, history, Sessions
<1>2. KeepsActive
  BY DEF KeepsActive, NoticesDeath
<1> QED BY <1>1, <1>2, CalmStep DEF NoticesDeath, queue, history

LEMMA CodexStep ==
  ASSUME ConversationInv, CodexStarts
  PROVE  ConversationInv' /\ Careful
<1>0. TypeOK /\ TurnInv
  BY DEF ConversationInv
<1>1. /\ MainFree /\ server = "none" /\ server' = "up" /\ resumed' = {}
      /\ sess' = [s \in Sessions |-> Recovered(sess[s])]
      /\ UNCHANGED <<made, topic, ran, home, said, threads, notes, past, call, queue, asked, history, left>>
  BY DEF CodexStarts
<1>2. \A s \in Sessions : /\ sess'[s] \in SessionRow /\ sess'[s].follow = sess[s].follow
                          /\ sess'[s].active \in {sess[s].active, NoTurn}
                          /\ sess'[s].completed \in {sess[s].completed, NoTurn}
  BY <1>0, <1>1, RecoveredRow DEF TypeOK
<1>3. sess' \in [Sessions -> SessionRow]
  BY <1>1, <1>2
<1>4. TypeOK' /\ made \in Int
  BY <1>0, <1>1, <1>3 DEF TypeOK, queue, history, Sessions
<1>5. \A t \in Turns : ~Running(t)'
  BY <1>0, <1>1 DEF TurnInv, Gates, NobodyRuns, Running
<1>6. KeepsActive
  BY <1>2, <1>5 DEF KeepsActive
<1> QED BY <1>1, <1>2, <1>4, <1>6, CalmStep DEF queue, history

LEMMA SteeredStep ==
  ASSUME ConversationInv, Steered
  PROVE  ConversationInv' /\ Careful
<1>0. TypeOK
  BY DEF ConversationInv
<1>1. PICK s \in Sessions : s = call.s
  BY <1>0 DEF TypeOK
<1>2. PICK r : r = [sess[s] EXCEPT !.status = "RUNNING_TURN"]
  OBVIOUS
<1>3. sess[s] \in SessionRow
  BY <1>0 DEF TypeOK
<1>4. r \in SessionRow /\ SameTurn(sess[s], r)
  BY <1>2, <1>3 DEF SessionRow, SameTurn
<1>5. sess' = [sess EXCEPT ![s] = r] /\ call' = NoCall
      /\ UNCHANGED <<made, topic, codex, queue, asked, history, left>>
  BY <1>0, <1>1, <1>2 DEF Steered, TypeOK
<1>6. sess' \in [Sessions -> SessionRow] /\ \A q \in Sessions : SameTurn(sess[q], sess'[q])
  BY <1>0, <1>4, <1>5 DEF TypeOK, SameTurn
<1>7. TypeOK' /\ made \in Int
  BY <1>0, <1>5, <1>6, NoCallTyped DEF TypeOK, codex, queue, history, Sessions
<1>8. KeepsActive
  BY <1>6 DEF KeepsActive, SameTurn
<1> QED BY <1>5, <1>6, <1>7, <1>8, CalmStep DEF codex, queue, history, SameTurn

-----------------------------------------------------------------------------
(* What the steps preserve: the app server and the crash.                  *)

LEMMA ServerStep ==
  ASSUME ConversationInv, TypeOK', KeepsTurns, KeepsEnds, EndsAreTrue',
         UNCHANGED <<sess, made, home, threads, asked, loose, handed>>, past' \in {past, Begun},
         call' = call \/ call' = NoCall, server' # "up" => NobodyRuns'
  PROVE  ConversationInv' /\ Careful
<1>0. TypeOK /\ TurnInv /\ Budget
  BY DEF ConversationInv
<1>1. made \in Int /\ made <= made'
  BY <1>0 DEF TypeOK, Sessions
<1>2. CallFits'
  <2>1. CASE call' = call
    BY <1>0, <2>1 DEF TurnInv, CallFits, ForATurn
  <2>2. CASE call' = NoCall
    BY <2>2 DEF CallFits, NoCall
  <2> QED BY <2>1, <2>2
<1>3. KeepsActive
  BY DEF KeepsActive
<1>4. TurnInv' /\ Begun' = Begun
  BY <1>0, <1>1, <1>2, <1>3, NoTurnStarts
<1>5. Budget'
  <2>1. Follows' = Follows /\ Cardinality(Follows) \in Nat /\ Begun \in Nat
    BY SameFollows, FollowsFinite, StartedFinite
  <2>2. One(ForATurn)' <= One(ForATurn) /\ One(call.kind = "thread")' <= One(call.kind = "thread")
    BY DEF One, ForATurn, NoCall
  <2>3. threads \in Int /\ asked \in Int /\ One(ForATurn) \in Int /\ One(call.kind = "thread") \in Int
        /\ One(ForATurn)' \in Int /\ One(call.kind = "thread")' \in Int
    BY <1>0 DEF TypeOK, One
  <2> QED BY <1>0, <1>4, <2>1, <2>2, <2>3 DEF Budget
<1>6. Careful
  BY <1>0, CarefulStep
<1> QED BY <1>4, <1>5, <1>6 DEF ConversationInv

LEMMA NotesTyped ==
  ASSUME TypeOK
  PROVE  \A i \in DOMAIN notes : notes[i] \in Notices /\ notes[i].turn \in Turns
<1>1. notes \in Seq(Notices)
  BY DEF TypeOK
<1>2. \A i \in DOMAIN notes : notes[i] \in Notices
  BY <1>1
<1> QED BY <1>2 DEF Notices

LEMMA NoteSent ==
  ASSUME TypeOK, NEW kind \in {"delta", "message", "completed", "failed"}, NEW t \in Turns, NEW text \in Texts,
         Notifies(kind, t, text)
  PROVE  /\ notes' \in Seq(Notices) /\ Len(notes') <= MaxNotes
         /\ \A i \in DOMAIN notes : i \in DOMAIN notes' /\ notes'[i] = notes[i]
         /\ \A i \in DOMAIN notes' : i \in DOMAIN notes \/ notes'[i] = [kind |-> kind, turn |-> t, text |-> text]
         /\ kind \in EndKinds => Ended(t)'
<1>1. notes \in Seq(Notices) /\ Len(notes) < MaxNotes /\ MaxNotes \in Nat /\ Len(notes) \in Nat
  BY ConversationAssumption DEF TypeOK, Notifies
<1>2. PICK note \in Notices : note = [kind |-> kind, turn |-> t, text |-> text]
  BY DEF Notices
<1>3. notes' = Append(notes, note)
  BY <1>2 DEF Notifies
<1>4. /\ notes' \in Seq(Notices) /\ Len(notes') = Len(notes) + 1 /\ notes'[Len(notes) + 1] = note
      /\ DOMAIN notes = 1..Len(notes) /\ DOMAIN notes' = 1..(Len(notes) + 1)
      /\ \A i \in 1..Len(notes) : notes'[i] = notes[i]
  BY <1>1, <1>3
<1>5. \A i \in 1..(Len(notes) + 1) : i \in 1..Len(notes) \/ i = Len(notes) + 1
  BY <1>1
<1>6. kind \in EndKinds => Ended(t)'
  <2>1. Len(notes) + 1 \in DOMAIN notes'
    BY <1>1, <1>4
  <2>2. note.turn = t /\ note.kind = kind
    BY <1>2
  <2> QED BY <1>4, <2>1, <2>2 DEF Ended
<1> QED BY <1>1, <1>2, <1>4, <1>5, <1>6

LEMMA SaysStep ==
  ASSUME ConversationInv, NEW t \in Turns, Says(t)
  PROVE  ConversationInv' /\ Careful
<1>0. TypeOK /\ TurnInv
  BY DEF ConversationInv
<1>1. /\ said[t] < MaxPieces /\ said' = [said EXCEPT ![t] = said[t] + 1]
      /\ Notifies("delta", t, {<<t, said[t] + 1>>})
      /\ UNCHANGED <<sess, made, topic, server, ran, home, threads, resumed, past, call, queue, asked,
                     history, left>>
  BY DEF Says
<1>2. said[t] + 1 \in 0..MaxPieces /\ {<<t, said[t] + 1>>} \in Texts
  <2>1. said[t] \in 0..MaxPieces /\ MaxPieces \in Nat
    BY <1>0, ConversationAssumption DEF TypeOK
  <2> QED BY <1>1, <2>1 DEF Texts
<1>3. /\ notes' \in Seq(Notices) /\ Len(notes') <= MaxNotes
      /\ \A i \in DOMAIN notes : i \in DOMAIN notes' /\ notes'[i] = notes[i]
      /\ \A i \in DOMAIN notes' : i \in DOMAIN notes \/ notes'[i].kind = "delta"
  BY <1>0, <1>1, <1>2, NoteSent
<1>4. TypeOK'
  BY <1>0, <1>1, <1>2, <1>3 DEF TypeOK, queue, history
<1>5. KeepsTurns /\ KeepsEnds
  BY <1>1, <1>3 DEF KeepsTurns, KeepsEnds, Ended, Running
<1>6. EndsAreTrue'
  BY <1>0, <1>1, <1>3 DEF TurnInv, EndsAreTrue, EndKinds
<1>7. server' # "up" => NobodyRuns'
  BY <1>0, <1>1 DEF TurnInv, Gates, NobodyRuns, Running
<1> QED BY <1>1, <1>4, <1>5, <1>6, <1>7, ServerStep DEF queue, history

LEMMA MessageStep ==
  ASSUME ConversationInv, NEW t \in Turns, CompletesMessage(t)
  PROVE  ConversationInv' /\ Careful
<1>0. TypeOK /\ TurnInv
  BY DEF ConversationInv
<1>1. /\ ran[t] = "running" /\ ran' = [ran EXCEPT ![t] = "spoken"]
      /\ Notifies("message", t, Pieces(t))
      /\ UNCHANGED <<sess, made, topic, server, home, said, threads, resumed, past, call, queue, asked,
                     history, left>>
  BY DEF CompletesMessage
<1>2. /\ notes' \in Seq(Notices) /\ Len(notes') <= MaxNotes
      /\ \A i \in DOMAIN notes : i \in DOMAIN notes' /\ notes'[i] = notes[i]
      /\ \A i \in DOMAIN notes' : i \in DOMAIN notes \/ notes'[i].kind = "message"
  BY <1>0, <1>1, PiecesTyped, NoteSent
<1>3. /\ ran' \in [Turns -> {"unused", "running", "spoken", "over"}]
      /\ \A u \in Turns : ran'[u] = IF u = t THEN "spoken" ELSE ran[u]
  BY <1>0, <1>1 DEF TypeOK
<1>4. TypeOK'
  BY <1>0, <1>1, <1>2, <1>3 DEF TypeOK, queue, history
<1>5. KeepsTurns /\ KeepsEnds
  BY <1>1, <1>2, <1>3 DEF KeepsTurns, KeepsEnds, Ended, Running
<1>6. EndsAreTrue'
  <2>1. \A i \in DOMAIN notes : notes[i].turn \in Turns
    BY <1>0, NotesTyped
  <2> QED BY <1>0, <1>1, <1>2, <1>3, <2>1 DEF TurnInv, EndsAreTrue, EndKinds
<1>7. server' # "up" => NobodyRuns'
  BY <1>0, <1>1 DEF TurnInv, Gates, NobodyRuns, Running
<1> QED BY <1>1, <1>4, <1>5, <1>6, <1>7, ServerStep DEF queue, history

LEMMA EndsStep ==
  ASSUME ConversationInv, NEW t \in Turns, Ends(t)
  PROVE  ConversationInv' /\ Careful
<1>0. TypeOK /\ TurnInv
  BY DEF ConversationInv
<1>1. /\ Running(t) /\ ran' = [ran EXCEPT ![t] = "over"]
      /\ UNCHANGED <<sess, made, topic, server, home, said, threads, resumed, past, call, queue, asked,
                     history, left>>
  BY DEF Ends
<1>2. PICK kind \in EndKinds : Notifies(kind, t, {})
  BY DEF Ends, EndKinds
<1>3. /\ notes' \in Seq(Notices) /\ Len(notes') <= MaxNotes
      /\ \A i \in DOMAIN notes : i \in DOMAIN notes' /\ notes'[i] = notes[i]
      /\ \A i \in DOMAIN notes' : i \in DOMAIN notes \/ notes'[i].turn = t
      /\ Ended(t)'
  <2>1. {} \in Texts /\ kind \in {"delta", "message", "completed", "failed"}
    BY <1>2 DEF Texts, EndKinds
  <2> QED BY <1>0, <1>2, <2>1, NoteSent
<1>4. /\ ran' \in [Turns -> {"unused", "running", "spoken", "over"}]
      /\ \A u \in Turns : ran'[u] = IF u = t THEN "over" ELSE ran[u]
  BY <1>0, <1>1 DEF TypeOK
<1>5. TypeOK'
  BY <1>0, <1>1, <1>3, <1>4 DEF TypeOK, queue, history
<1>6. KeepsTurns
  BY <1>1, <1>4 DEF KeepsTurns
<1>7. KeepsEnds
  <2>1. \A u \in Turns : Ended(u) => Ended(u)'
    BY <1>3 DEF Ended
  <2>2. \A u \in Turns : u # t /\ Running(u) => Running(u)'
    BY <1>4 DEF Running
  <2> QED BY <1>3, <2>1, <2>2 DEF KeepsEnds
<1>8. EndsAreTrue'
  <2>1. \A i \in DOMAIN notes : notes[i].turn \in Turns
    BY <1>0, NotesTyped
  <2> QED BY <1>0, <1>3, <1>4, <2>1 DEF TurnInv, EndsAreTrue
<1>9. server' # "up" => NobodyRuns'
  BY <1>0, <1>1, <1>4 DEF TurnInv, Gates, NobodyRuns, Running
<1> QED BY <1>1, <1>5, <1>6, <1>7, <1>8, <1>9, ServerStep DEF queue, history

(* Every turn of an app server that is gone is over, and known to be.      *)
LEMMA GoneTurns ==
  ASSUME TypeOK, TurnInv, Gone, UNCHANGED sess
  PROVE  /\ ran' \in [Turns -> {"unused", "running", "spoken", "over"}] /\ past' = Begun /\ past' \in 0..MaxMessages
         /\ KeepsTurns /\ KeepsEnds /\ NobodyRuns' /\ \A t \in Turns : ran[t] = "over" => ran'[t] = "over"
<1>1. ran' = [t \in Turns |-> IF Running(t) THEN "over" ELSE ran[t]] /\ past' = Begun
  BY DEF Gone, Begun, Started
<1>2. ran' \in [Turns -> {"unused", "running", "spoken", "over"}]
  BY <1>1 DEF TypeOK
<1>3. Begun \in 0..MaxMessages
  <2>1. Begun \in Nat /\ Started \subseteq Turns /\ Started = 1..Begun
    BY StartedFinite DEF TurnInv, InTurn
  <2>2. Begun = 0 \/ Begun \in Started
    BY <2>1
  <2> QED BY <2>1, <2>2, ConversationAssumption DEF Turns
<1>4. KeepsTurns
  BY <1>1 DEF KeepsTurns
<1>5. NobodyRuns'
  BY <1>1 DEF NobodyRuns, Running
<1>6. KeepsEnds
  <2> SUFFICES ASSUME NEW s \in Sessions, NEW t \in Turns, sess[s].active = t
               PROVE  t <= past'
    BY DEF KeepsEnds
  <2>1. t \in Started
    BY DEF TurnInv, AtHome, NoTurn, Turns
  <2> QED BY <1>1, <2>1, StartedFinite DEF TurnInv, InTurn
<1>7. \A t \in Turns : ran[t] = "over" => ran'[t] = "over"
  BY <1>1
<1> QED BY <1>1, <1>2, <1>3, <1>4, <1>5, <1>6, <1>7

LEMMA StopsStep ==
  ASSUME ConversationInv, ServerStops
  PROVE  ConversationInv' /\ Careful
<1>0. TypeOK /\ TurnInv
  BY DEF ConversationInv
<1>1. /\ Gone /\ server' \in {"dead", "none"} /\ Spend("server")
      /\ UNCHANGED <<sess, made, topic, home, said, threads, resumed, call, queue, asked, history>>
  BY DEF ServerStops
<1>2. PICK n \in 0..Len(notes) : notes' = SubSeq(notes, 1, n)
  BY DEF ServerStops
<1>3. /\ notes' \in Seq(Notices) /\ Len(notes') <= MaxNotes
      /\ \A i \in DOMAIN notes' : i \in DOMAIN notes /\ notes'[i] = notes[i]
  <2>1. notes \in Seq(Notices) /\ Len(notes) \in Nat /\ Len(notes) <= MaxNotes /\ MaxNotes \in Nat
        /\ DOMAIN notes = 1..Len(notes)
    BY <1>0, ConversationAssumption DEF TypeOK
  <2>2. /\ notes' \in Seq(Notices) /\ Len(notes') = n /\ DOMAIN notes' = 1..n
        /\ \A i \in 1..n : notes'[i] = notes[i]
    BY <1>2, <2>1
  <2> QED BY <2>1, <2>2
<1>4. left' \in [Faults \cup Commands -> Nat]
  BY <1>0, <1>1, SpendTyped DEF Faults
<1>5. /\ ran' \in [Turns -> {"unused", "running", "spoken", "over"}] /\ past' = Begun /\ past' \in 0..MaxMessages
      /\ KeepsTurns /\ KeepsEnds /\ NobodyRuns' /\ \A t \in Turns : ran[t] = "over" => ran'[t] = "over"
  BY <1>0, <1>1, GoneTurns
<1>6. TypeOK'
  BY <1>0, <1>1, <1>3, <1>4, <1>5 DEF TypeOK, queue, history
<1>7. EndsAreTrue'
  <2>1. \A i \in DOMAIN notes : notes[i].turn \in Turns
    BY <1>0, NotesTyped
  <2> QED BY <1>0, <1>3, <1>5, <2>1 DEF TurnInv, EndsAreTrue
<1> QED BY <1>1, <1>5, <1>6, <1>7, ServerStep DEF queue, history

LEMMA CrashStep ==
  ASSUME ConversationInv, Crash
  PROVE  ConversationInv' /\ Careful
<1>0. TypeOK /\ TurnInv
  BY DEF ConversationInv
<1>1. /\ Gone /\ server' = "none" /\ Spend("crash") /\ notes' = <<>> /\ call' = NoCall
      /\ UNCHANGED <<sess, made, topic, home, said, threads, resumed, queue, asked, history>>
  BY DEF Crash
<1>2. left' \in [Faults \cup Commands -> Nat]
  BY <1>0, <1>1, SpendTyped DEF Faults
<1>3. /\ ran' \in [Turns -> {"unused", "running", "spoken", "over"}] /\ past' = Begun /\ past' \in 0..MaxMessages
      /\ KeepsTurns /\ KeepsEnds /\ NobodyRuns'
  BY <1>0, <1>1, GoneTurns
<1>4. notes' \in Seq(Notices) /\ Len(notes') <= MaxNotes /\ EndsAreTrue'
  BY <1>1, ConversationAssumption DEF EndsAreTrue
<1>5. TypeOK'
  BY <1>0, <1>1, <1>2, <1>3, <1>4, NoCallTyped DEF TypeOK, queue, history
<1> QED BY <1>1, <1>3, <1>4, <1>5, ServerStep DEF queue, history

-----------------------------------------------------------------------------
(* What the steps preserve: the answers to the requests.                   *)

LEMMA CallTyped ==
  ASSUME TypeOK
  PROVE  /\ call.kind \in {"none", "thread", "turn", "steer"} /\ call.s \in Sessions
         /\ call.thread \in 0..MaxMessages /\ call.delivered \in Texts
         /\ sess[call.s] \in SessionRow
  BY DEF TypeOK

(* The next turn is one of the turns: a message of the user paid for it.   *)
LEMMA RoomForTurn ==
  ASSUME ConversationInv, ForATurn
  PROVE  /\ NextTurn = Begun + 1 /\ NextTurn \in Turns /\ NextTurn \notin Started
         /\ Started \cup {NextTurn} = 1..(Begun + 1) /\ Begun \in Nat
<1>1. NextTurn = 1 + Begun
  BY DEF NextTurn, Begun, Started
<1>2. Begun \in Nat /\ Cardinality(Follows) \in Nat /\ One(ForATurn) = 1 /\ Started = 1..Begun
  BY StartedFinite, FollowsFinite DEF One, ConversationInv, TurnInv, InTurn
<1>3. asked \in Nat /\ asked <= MaxMessages /\ MaxMessages \in Nat
  BY ConversationAssumption DEF ConversationInv, TypeOK
<1>4. Begun + 1 \in Turns
  <2>1. Begun + Cardinality(Follows) + One(TRUE) <= asked
    BY DEF ConversationInv, Budget, ForATurn
  <2>2. Begun + 1 <= asked
    BY <1>2, <1>3, <2>1 DEF One
  <2> QED BY <1>2, <1>3, <2>2 DEF Turns
<1>5. 1..(Begun + 1) = (1..Begun) \cup {Begun + 1}
  BY <1>2
<1> QED BY <1>1, <1>2, <1>4, <1>5

LEMMA TurnBegins ==
  ASSUME ConversationInv, NEW s \in Sessions, s = call.s, call.kind = "turn", server = "up", TurnRuns(s),
         UNCHANGED <<made, server, notes, past, threads, asked>>, call' = NoCall,
         sess' \in [Sessions -> SessionRow], sess'[s].follow = sess[s].follow,
         \A q \in Sessions : q # s => sess'[q] = sess[q],
         \/ sess'[s].active = NextTurn /\ loose' = loose
         \/ sess'[s].active = NoTurn /\ loose' = loose \cup {NextTurn}
  PROVE  /\ TurnInv' /\ Budget' /\ loose' \subseteq Turns
         /\ ran' \in [Turns -> {"unused", "running", "spoken", "over"}]
         /\ home' \in [Turns -> [s : Sessions, thread : 0..MaxMessages]]
         /\ \A t \in Started : t \in Started' /\ home'[t] = home[t]
<1>0. TypeOK /\ TurnInv /\ Budget
  BY DEF ConversationInv
<1>1. PICK n : n = NextTurn
  OBVIOUS
<1>2. ForATurn
  BY DEF ForATurn
<1>3. /\ n = Begun + 1 /\ n \in Turns /\ n \notin Started /\ Begun \in Nat
      /\ Started \cup {n} = 1..(Begun + 1) /\ Started = 1..Begun /\ Started \subseteq Turns
  BY <1>0, <1>1, <1>2, RoomForTurn, StartedFinite DEF TurnInv, InTurn
<1>4. /\ ran' \in [Turns -> {"unused", "running", "spoken", "over"}]
      /\ \A t \in Turns : ran'[t] = IF t = n THEN "running" ELSE ran[t]
  BY <1>0, <1>1 DEF TurnRuns, TypeOK
<1>5. /\ home' \in [Turns -> [s : Sessions, thread : 0..MaxMessages]]
      /\ home'[n].s = s /\ \A t \in Turns : t # n => home'[t] = home[t]
  <2>1. PICK h : h = [s |-> s, thread |-> sess[s].thread]
    OBVIOUS
  <2>2. h \in [s : Sessions, thread : 0..MaxMessages] /\ h.s = s
    BY <1>0, <2>1 DEF TypeOK, SessionRow
  <2>3. home' = [home EXCEPT ![n] = h]
    BY <1>1, <2>1 DEF TurnRuns
  <2> QED BY <1>0, <1>3, <2>2, <2>3 DEF TypeOK
<1>6. Started' = 1..(Begun + 1)
  <2>1. Started' = Started \cup {n}
    BY <1>3, <1>4 DEF Started
  <2> QED BY <1>3, <2>1
<1>7. Begun' = Begun + 1
  <2>1. Cardinality(Started') = Begun + 1
    <3>1. Cardinality(1..(Begun + 1)) = Begun + 1
      BY <1>3, FS_Interval
    <3> QED BY <1>6, <3>1
  <2> QED BY <2>1 DEF Begun
<1>8. sess[s].active = NoTurn /\ s <= made
  BY <1>0, <1>2 DEF TurnInv, CallFits
<1>9. AtHome'
  BY <1>0, <1>1, <1>3, <1>5, <1>6, <1>8 DEF TurnInv, AtHome
<1>10. EndsAreTrue'
  <2>1. \A i \in DOMAIN notes : notes[i].kind \in EndKinds => ran[notes[i].turn] = "over" /\ notes[i].turn \in Turns
    BY <1>0, NotesTyped DEF TurnInv, EndsAreTrue
  <2>2. \A t \in Turns : ran[t] = "over" => t # n
    BY <1>3 DEF Started
  <2> QED BY <1>4, <2>1, <2>2 DEF EndsAreTrue
<1>11. CallFits'
  BY DEF CallFits, NoCall
<1>12. Gates'
  <2>1. past \in Int
    BY <1>0 DEF TypeOK
  <2> QED BY <1>0, <1>3, <1>7, <2>1 DEF TurnInv, Gates
<1>13. RunningTurnKnown'
  <2> SUFFICES ASSUME NEW t \in Turns, Running(t)'
               PROVE  sess'[home'[t].s].active = t \/ t \in loose'
    BY DEF RunningTurnKnown
  <2>1. CASE t = n
    BY <1>1, <1>5, <2>1
  <2>2. CASE t # n
    <3>1. sess[home[t].s].active = t \/ t \in loose
      BY <1>0, <1>4, <2>2 DEF TurnInv, RunningTurnKnown, Running
    <3>2. home[t].s \in Sessions /\ t # NoTurn
      BY <1>0 DEF TypeOK, Turns, NoTurn
    <3> QED BY <1>5, <1>8, <2>2, <3>1, <3>2
  <2> QED BY <2>1, <2>2
<1>14. TurnComes'
  <2> SUFFICES ASSUME NEW q \in Sessions, NEW t, t = sess'[q].active, t # NoTurn
               PROVE  Running(t)' \/ Ended(t)' \/ t <= past'
    BY DEF TurnComes, Ended, EndKinds
  <2>1. CASE t = n
    BY <1>3, <1>4, <2>1 DEF Running
  <2>2. CASE t # n
    <3>1. sess[q].active = t
      BY <1>1, <2>2
    <3>2. Running(t) \/ Ended(t) \/ t <= past
      BY <1>0, <3>1 DEF TurnInv, TurnComes, Ended, EndKinds
    <3>3. t \in Turns
      BY <1>0, <1>3, <3>1 DEF TurnInv, AtHome
    <3> QED BY <1>4, <2>2, <3>2, <3>3 DEF Running, Ended
  <2> QED BY <2>1, <2>2
<1>15. Budget'
  <2>1. Follows' = Follows /\ Cardinality(Follows) \in Nat
    BY SameFollows, FollowsFinite
  <2>2. One(ForATurn)' = 0 /\ One(call.kind = "thread")' = 0 /\ One(ForATurn) = 1 /\ One(call.kind = "thread") = 0
    BY <1>2 DEF One, ForATurn, NoCall
  <2>3. threads \in Int /\ asked \in Int
    BY <1>0 DEF TypeOK
  <2> QED BY <1>0, <1>3, <1>7, <2>1, <2>2, <2>3 DEF Budget
<1>16. loose' \subseteq Turns
  BY <1>0, <1>1, <1>3 DEF TypeOK
<1>17. \A t \in Started : t \in Started' /\ home'[t] = home[t]
  BY <1>3, <1>5, <1>6
<1> QED BY <1>4, <1>5, <1>6, <1>7, <1>9, <1>10, <1>11, <1>12, <1>13, <1>14, <1>15, <1>16, <1>17 DEF TurnInv, InTurn

LEMMA StartsStep ==
  ASSUME ConversationInv, TurnStarts
  PROVE  ConversationInv' /\ Careful
<1>0. TypeOK
  BY DEF ConversationInv
<1>1. PICK s \in Sessions : s = call.s
  BY <1>0, CallTyped
<1>2. PICK n : n = NextTurn
  OBVIOUS
<1>3. PICK r : r = [sess[s] EXCEPT !.active = n, !.pending = {}, !.status = "RUNNING_TURN"]
  OBVIOUS
<1>4. call.kind = "turn" /\ server = "up" /\ TurnRuns(s) /\ call' = NoCall
      /\ UNCHANGED <<made, topic, server, said, threads, resumed, notes, past, queue, asked, history, left>>
  BY <1>1 DEF TurnStarts, Asked
<1>5. sess' = [sess EXCEPT ![s] = r]
  <2>1. sess' = [sess EXCEPT ![s].active = n, ![s].pending = {}, ![s].status = "RUNNING_TURN"]
    BY <1>1, <1>2 DEF TurnStarts
  <2> QED BY <1>0, <1>1, <1>3, <2>1 DEF TypeOK
<1>6. n \in Turns
  BY <1>2, <1>4, RoomForTurn DEF ForATurn
<1>7. r \in SessionRow /\ r.active = n /\ r.follow = sess[s].follow /\ r.completed = sess[s].completed
  <2>1. sess[s] \in SessionRow /\ {} \in Texts
    BY <1>0 DEF TypeOK, Texts
  <2> QED BY <1>3, <1>6, <2>1 DEF SessionRow
<1>8. /\ sess' \in [Sessions -> SessionRow] /\ sess'[s] = r
      /\ \A q \in Sessions : q # s => sess'[q] = sess[q]
  BY <1>0, <1>5, <1>7 DEF TypeOK
<1>9. loose' = loose
  BY <1>4 DEF history
<1>10. /\ TurnInv' /\ Budget'
       /\ ran' \in [Turns -> {"unused", "running", "spoken", "over"}]
       /\ home' \in [Turns -> [s : Sessions, thread : 0..MaxMessages]]
       /\ \A t \in Started : t \in Started' /\ home'[t] = home[t]
  BY <1>1, <1>2, <1>4, <1>7, <1>8, <1>9, TurnBegins
<1>11. TypeOK'
  BY <1>0, <1>4, <1>8, <1>10, NoCallTyped DEF TypeOK, queue, history
<1>12. Careful
  BY <1>4, <1>7, <1>8, <1>10 DEF Careful, queue
<1> QED BY <1>10, <1>11, <1>12 DEF ConversationInv

LEMMA ThreadStep ==
  ASSUME ConversationInv, ThreadReady
  PROVE  ConversationInv' /\ Careful
<1>0. TypeOK /\ TurnInv /\ Budget
  BY DEF ConversationInv
<1>1. PICK s \in Sessions : s = call.s
  BY <1>0, CallTyped
<1>2. call.kind = "thread" /\ server = "up" /\ call' = [call EXCEPT !.kind = "turn"]
      /\ UNCHANGED <<made, topic, server, ran, home, said, notes, past, queue, asked, history>>
  BY DEF ThreadReady, Asked
<1>3. PICK thread : /\ resumed' = resumed \cup {thread}
                    /\ sess' = [sess EXCEPT ![s] = Ready(sess[s], thread)]
                    /\ \/ sess[s].thread # 0 /\ thread = sess[s].thread /\ UNCHANGED <<threads, left>>
                       \/ threads' = threads + 1 /\ thread = threads' /\ (UNCHANGED left \/ Spend("request"))
  BY <1>1 DEF ThreadReady
<1>4. left' \in [Faults \cup Commands -> Nat]
  BY <1>0, <1>3, SpendTyped DEF Faults, TypeOK
<1>5. Cardinality(Follows) \in Nat /\ One(ForATurn) = 1 /\ One(call.kind = "thread") = 1 /\ Begun \in Nat
  BY <1>2, FollowsFinite, StartedFinite DEF One, ForATurn
<1>6. threads \in Nat /\ asked \in Nat /\ asked <= MaxMessages /\ MaxMessages \in Nat
  BY <1>0, ConversationAssumption DEF TypeOK
<1>7. threads + 1 <= MaxMessages
  BY <1>0, <1>5, <1>6 DEF Budget
<1>8. thread \in 1..MaxMessages /\ threads' \in 0..MaxMessages /\ threads' <= threads + 1
  <2>1. sess[s].thread \in 0..MaxMessages
    BY <1>0 DEF TypeOK, SessionRow
  <2> QED BY <1>3, <1>6, <1>7, <2>1
<1>9. PICK r : r = Ready(sess[s], thread)
  OBVIOUS
<1>10. /\ r \in SessionRow /\ r.active = sess[s].active /\ r.follow = sess[s].follow
       /\ r.completed = sess[s].completed
  <2>1. sess[s] \in SessionRow /\ thread \in 0..MaxMessages
    BY <1>0, <1>6, <1>8 DEF TypeOK
  <2> QED BY <1>9, <2>1, ReadyRow
<1>11. /\ sess' \in [Sessions -> SessionRow]
       /\ \A q \in Sessions : /\ sess'[q].active = sess[q].active /\ sess'[q].follow = sess[q].follow
                               /\ sess'[q].completed = sess[q].completed
  BY <1>0, <1>3, <1>9, <1>10 DEF TypeOK
<1>12. call'.kind = "turn" /\ call'.s = call.s
       /\ call' \in [kind : {"none", "thread", "turn", "steer"}, s : Sessions,
                     thread : 0..MaxMessages, delivered : Texts]
  BY <1>0, <1>2 DEF TypeOK
<1>13. TypeOK'
  <2>1. resumed' \subseteq 1..MaxMessages
    BY <1>0, <1>3, <1>8 DEF TypeOK
  <2> QED BY <1>0, <1>2, <1>4, <1>8, <1>11, <1>12, <2>1 DEF TypeOK, queue, history
<1>14. CallFits'
  BY <1>0, <1>1, <1>2, <1>11, <1>12 DEF TurnInv, CallFits, ForATurn
<1>15. KeepsTurns /\ KeepsActive /\ KeepsEnds
  BY <1>2, <1>11 DEF KeepsTurns, KeepsActive, KeepsEnds, Running, Ended
<1>16. EndsAreTrue' /\ (server' # "up" => NobodyRuns')
  BY <1>0, <1>2 DEF TurnInv, EndsAreTrue
<1>17. made \in Int /\ made' = made /\ loose' = loose
  BY <1>0, <1>2 DEF TypeOK, Sessions, history
<1>18. TurnInv' /\ Begun' = Begun
  BY <1>0, <1>2, <1>13, <1>14, <1>15, <1>16, <1>17, NoTurnStarts
<1>19. Budget'
  <2>1. Follows' = Follows
    BY <1>11, SameFollows
  <2>2. One(ForATurn)' = 1 /\ One(call.kind = "thread")' = 0
    BY <1>12 DEF One, ForATurn
  <2>3. threads' \in Nat
    BY <1>8
  <2> QED BY <1>0, <1>2, <1>5, <1>6, <1>8, <1>18, <2>1, <2>2, <2>3 DEF Budget
<1>20. Careful
  BY <1>0, <1>2, <1>11, <1>15, CarefulStep DEF queue
<1> QED BY <1>13, <1>18, <1>19, <1>20 DEF ConversationInv

LEMMA RequestFailsStep ==
  ASSUME ConversationInv, RequestFails
  PROVE  ConversationInv' /\ Careful
<1>0. TypeOK /\ TurnInv
  BY DEF ConversationInv
<1>1. PICK s \in Sessions : s = call.s
  BY <1>0, CallTyped
<1>2. /\ call.kind # "none" /\ call' = NoCall
      /\ Published(s, [Work(s) EXCEPT !.r.thread = call.thread, !.r.delivered = call.delivered])
      /\ UNCHANGED <<made, topic, server, said, threads, resumed, notes, past, asked, done, stopped>>
  BY <1>1 DEF RequestFails
<1>3. left' \in [Faults \cup Commands -> Nat]
  <2>1. UNCHANGED left \/ Spend("request")
    BY DEF RequestFails, Refused
  <2> QED BY <1>0, <2>1, SpendTyped DEF Faults, TypeOK
<1>4. LetsGo(s)
  <2>1. PICK w : w = [Work(s) EXCEPT !.r.thread = call.thread, !.r.delivered = call.delivered]
    OBVIOUS
  <2>2. w \in WorkItem /\ w.r.follow = sess[s].follow /\ w.handed = handed /\ w.r.completed = sess[s].completed
    <3>1. Work(s) \in WorkItem /\ Work(s).r = sess[s] /\ sess[s] \in SessionRow /\ Work(s).handed = handed
      BY <1>0, WorkOfRow DEF TypeOK, Work
    <3>2. PICK r : r = [sess[s] EXCEPT !.thread = call.thread, !.delivered = call.delivered]
      OBVIOUS
    <3>3. r \in SessionRow /\ r.follow = sess[s].follow /\ r.completed = sess[s].completed
      BY <1>0, <3>1, <3>2, CallTyped DEF SessionRow
    <3>4. w = [Work(s) EXCEPT !.r = r]
      BY <2>1, <3>2 DEF Work
    <3> QED BY <3>1, <3>3, <3>4, WithRowOf
  <2> QED BY <1>0, <1>2, <2>1, <2>2, PublishedRow
<1>5. /\ sess' \in [Sessions -> SessionRow] /\ handed' \in [0..MaxMessages -> Texts]
      /\ rows' \in [Turns -> SUBSET RowStates]
      /\ sess'[s].active = NoTurn /\ \A q \in Sessions : q # s => sess'[q] = sess[q]
      /\ \A q \in Sessions : sess'[q].follow = sess[q].follow
  BY <1>4 DEF LetsGo
<1>6. CASE Forgets(sess[s]) /\ UNCHANGED <<ran, home>>
  <2>1. loose' = loose \cup (IF sess[s].active # NoTurn /\ Running(sess[s].active) THEN {sess[s].active} ELSE {})
    BY <1>6 DEF Forgets
  <2>2. sess[s].active \in {NoTurn} \cup Turns
    BY <1>0 DEF TypeOK, SessionRow
  <2>3. TypeOK'
    BY <1>0, <1>2, <1>3, <1>5, <1>6, <2>1, <2>2, NoCallTyped DEF TypeOK
  <2>4. \A t : Running(t)' = Running(t)
    BY <1>6 DEF Running
  <2>5. KeepsActive
    BY <1>5, <2>1, <2>4 DEF KeepsActive, NoTurn, Turns
  <2>6. made \in Int
    BY <1>0 DEF TypeOK, Sessions
  <2>7. KeepsTurns
    BY <1>6 DEF KeepsTurns
  <2>8. Careful
    BY <1>4, <1>6, <2>7, LetsGoCareful
  <2> QED BY <1>2, <1>5, <1>6, <2>1, <2>3, <2>5, <2>6, <2>8, CalmStep
<1>7. CASE Asked("turn") /\ TurnRuns(s) /\ loose' = loose \cup {NextTurn}
  <2>1. /\ TurnInv' /\ Budget' /\ loose' \subseteq Turns
        /\ ran' \in [Turns -> {"unused", "running", "spoken", "over"}]
        /\ home' \in [Turns -> [s : Sessions, thread : 0..MaxMessages]]
        /\ \A t \in Started : t \in Started' /\ home'[t] = home[t]
    BY <1>1, <1>2, <1>5, <1>7, TurnBegins DEF Asked
  <2>2. TypeOK'
    BY <1>0, <1>2, <1>3, <1>5, <2>1, NoCallTyped DEF TypeOK
  <2>3. Careful
    BY <1>4, <1>5, <2>1 DEF LetsGo, Careful
  <2> QED BY <2>1, <2>2, <2>3 DEF ConversationInv
<1> QED BY <1>1, <1>6, <1>7 DEF RequestFails

-----------------------------------------------------------------------------
(* What the steps preserve: the user's messages and commands.              *)

LEMMA StopStep ==
  ASSUME ConversationInv, NEW s \in Sessions, Stop(s)
  PROVE  ConversationInv' /\ Careful
<1>0. TypeOK /\ TurnInv /\ Budget
  BY DEF ConversationInv
<1>1. PICK t : t = sess[s].active
  OBVIOUS
<1>2. t \in Turns /\ t \in Started /\ \A q \in Sessions : sess[q].active = t => q = s
  BY <1>0, <1>1 DEF Stop, TurnInv, AtHome, Started
<1>3. PICK r : r = [sess[s] EXCEPT !.active = NoTurn, !.pending = {}, !.status = "INTERRUPTED"]
  OBVIOUS
<1>4. /\ r \in SessionRow /\ r.active = NoTurn /\ r.follow = sess[s].follow
      /\ r.completed = sess[s].completed
  <2>1. sess[s] \in SessionRow /\ {} \in Texts
    BY <1>0 DEF TypeOK, Texts
  <2> QED BY <1>3, <2>1 DEF SessionRow
<1>5. sess' = [sess EXCEPT ![s] = r]
  <2>1. sess' = [sess EXCEPT ![s].active = NoTurn, ![s].pending = {}, ![s].status = "INTERRUPTED"]
    BY DEF Stop
  <2> QED BY <1>0, <1>3, <2>1 DEF TypeOK
<1>6. /\ sess' \in [Sessions -> SessionRow] /\ sess'[s] = r /\ \A q \in Sessions : q # s => sess'[q] = sess[q]
      /\ \A q \in Sessions : sess'[q].follow = sess[q].follow
  BY <1>0, <1>4, <1>5 DEF TypeOK
<1>7. /\ ran' = [ran EXCEPT ![t] = "over"] /\ stopped' = stopped \cup {t} /\ MainFree /\ server = "up"
      /\ UNCHANGED <<made, topic, server, home, said, threads, resumed, notes, past, call, queue, asked,
                     done, loose>>
  BY <1>1 DEF Stop
<1>8. left' \in [Faults \cup Commands -> Nat]
  BY <1>0, SpendTyped DEF Stop, Commands
<1>9. /\ ran' \in [Turns -> {"unused", "running", "spoken", "over"}]
      /\ \A u \in Turns : ran'[u] = IF u = t THEN "over" ELSE ran[u]
  BY <1>0, <1>7 DEF TypeOK
<1>10. TypeOK'
  BY <1>0, <1>2, <1>6, <1>7, <1>8, <1>9 DEF TypeOK, queue
<1>11. KeepsTurns
  BY <1>0, <1>2, <1>9 DEF KeepsTurns, Running, Started, TypeOK
<1>12. KeepsActive
  BY <1>1, <1>4, <1>6, <1>9 DEF KeepsActive, Running
<1>13. KeepsEnds
  BY <1>2, <1>4, <1>6, <1>7, <1>9 DEF KeepsEnds, Running, Ended, NoTurn, Turns
<1>14. EndsAreTrue'
  BY <1>0, <1>7, <1>9, NotesTyped DEF TurnInv, EndsAreTrue
<1>15. CallFits' /\ (server' # "up" => NobodyRuns') /\ made \in Int
  BY <1>0, <1>7 DEF CallFits, MainFree, TypeOK, Sessions
<1>16. TurnInv' /\ Begun' = Begun
  BY <1>0, <1>7, <1>10, <1>11, <1>12, <1>13, <1>14, <1>15, NoTurnStarts
<1>17. Budget'
  BY <1>0, <1>6, <1>7, <1>16, SameFollows DEF Budget, ForATurn
<1>18. Careful
  BY <1>0, <1>4, <1>6, <1>7, <1>11, CarefulStep DEF queue
<1> QED BY <1>10, <1>16, <1>17, <1>18 DEF ConversationInv

(* A turn is asked for, for a session that runs none.                      *)
LEMMA AskStep ==
  ASSUME TypeOK, NEW s \in Sessions, NEW w \in WorkItem, w.r.active = NoTurn, AsksForTurn(s, w)
  PROVE  /\ sess' \in [Sessions -> SessionRow] /\ handed' \in [0..MaxMessages -> Texts]
         /\ rows' \in [Turns -> SUBSET RowStates] /\ \A q \in Sessions : q # s => sess'[q] = sess[q]
         /\ sess'[s].active = NoTurn /\ sess'[s].follow = w.r.follow
         /\ sess'[s].completed = w.r.completed /\ handed' = w.handed
         /\ call' \in [kind : {"none", "thread", "turn", "steer"}, s : Sessions,
                       thread : 0..MaxMessages, delivered : Texts]
         /\ call'.kind \in {"thread", "turn"} /\ call'.s = s /\ loose' = loose
<1>1. PICK r : r = [w.r EXCEPT !.quiet = FALSE]
  OBVIOUS
<1>2. r \in SessionRow /\ r.active = NoTurn /\ r.follow = w.r.follow /\ r.thread = w.r.thread
      /\ r.completed = w.r.completed /\ r.thread \in 0..MaxMessages
  BY <1>1 DEF WorkItem, SessionRow
<1>3. PICK q : q = Ready(r, r.thread)
  OBVIOUS
<1>4. q \in SessionRow /\ q.active = NoTurn /\ q.follow = w.r.follow /\ q.completed = w.r.completed
  BY <1>2, <1>3, ReadyRow
<1>5. \/ Begins("turn", s) /\ Saved(s, [w EXCEPT !.r = q])
      \/ Begins("thread", s) /\ Saved(s, [w EXCEPT !.r = r])
  <2>1. [w EXCEPT !.r = Ready([@ EXCEPT !.quiet = FALSE], @.thread)] = [w EXCEPT !.r = q]
    BY <1>1, <1>2, <1>3
  <2>2. [w EXCEPT !.r.quiet = FALSE] = [w EXCEPT !.r = r]
    BY <1>1
  <2> QED BY <2>1, <2>2 DEF AsksForTurn
<1>6. PICK v \in WorkItem : /\ Saved(s, v) /\ v.r.active = NoTurn /\ v.r.follow = w.r.follow
                            /\ v.r.completed = w.r.completed /\ v.handed = w.handed
  <2>1. [w EXCEPT !.r = q] \in WorkItem /\ [w EXCEPT !.r = q].r = q
        /\ [w EXCEPT !.r = q].handed = w.handed
    BY <1>4, WithRowOf
  <2>2. [w EXCEPT !.r = r] \in WorkItem /\ [w EXCEPT !.r = r].r = r
        /\ [w EXCEPT !.r = r].handed = w.handed
    BY <1>2, WithRowOf
  <2>3. CASE Saved(s, [w EXCEPT !.r = q])
    BY <1>4, <2>1, <2>3
  <2>4. CASE Saved(s, [w EXCEPT !.r = r])
    BY <1>2, <2>2, <2>4
  <2> QED BY <1>5, <2>3, <2>4
<1>7. sess[s].thread \in 0..MaxMessages /\ sess[s].delivered \in Texts
  BY DEF TypeOK, SessionRow
<1>8. PICK kind \in {"turn", "thread"} :
        call' = [kind |-> kind, s |-> s, thread |-> sess[s].thread, delivered |-> sess[s].delivered]
  BY <1>5 DEF Begins
<1>9. loose' = loose
  BY DEF AsksForTurn
<1> QED BY <1>6, <1>7, <1>8, <1>9, SavedRow DEF Saved

(* What handling a message leads to.                                       *)
Handled(s, follow) ==
    /\ sess' \in [Sessions -> SessionRow] /\ handed' \in [0..MaxMessages -> Texts]
    /\ rows' \in [Turns -> SUBSET RowStates] /\ \A q \in Sessions : q # s => sess'[q] = sess[q]
    /\ call' \in [kind : {"none", "thread", "turn", "steer"}, s : Sessions,
                  thread : 0..MaxMessages, delivered : Texts]
    /\ left' \in [Faults \cup Commands -> Nat] /\ stopped' \subseteq Turns /\ loose' \subseteq Turns
    /\ ran' \in [Turns -> {"unused", "running", "spoken", "over"}]
    /\ UNCHANGED <<topic, server, home, said, threads, resumed, notes, past, done>>
    /\ KeepsTurns /\ KeepsActive /\ KeepsEnds /\ loose \subseteq loose' /\ Careful
    /\ \A t \in Turns : ran[t] = "over" => ran'[t] = "over"
    /\ call'.kind # "none" => call'.s = s /\ (ForATurn' <=> sess'[s].active = NoTurn)
    /\ sess'[s].follow => (follow \/ ~ForATurn')

(* One turn is over now, that of the session, which gives it up.           *)
LEMMA Replaced ==
  ASSUME TypeOK, TurnInv, NEW s \in Sessions, NEW t \in Turns, sess[s].active = t,
         ran' = [ran EXCEPT ![t] = "over"], sess'[s].active = NoTurn, UNCHANGED <<notes, past>>,
         \A q \in Sessions : q # s => sess'[q] = sess[q]
  PROVE  /\ ran' \in [Turns -> {"unused", "running", "spoken", "over"}]
         /\ KeepsTurns /\ KeepsActive /\ KeepsEnds /\ \A u \in Turns : ran[u] = "over" => ran'[u] = "over"
<1>1. t \in Started /\ \A q \in Sessions : sess[q].active = t => q = s
  BY DEF TurnInv, AtHome, NoTurn, Turns
<1>2. /\ ran' \in [Turns -> {"unused", "running", "spoken", "over"}]
      /\ \A u \in Turns : ran'[u] = IF u = t THEN "over" ELSE ran[u]
  BY DEF TypeOK
<1>3. KeepsTurns
  BY <1>1, <1>2 DEF KeepsTurns, Running, Started, TypeOK
<1>4. KeepsActive
  BY <1>1, <1>2 DEF KeepsActive, Running
<1>5. KeepsEnds
  BY <1>1, <1>2 DEF KeepsEnds, Running, Ended, NoTurn, Turns
<1> QED BY <1>2, <1>3, <1>4, <1>5

(* No turn is touched.                                                     *)
LEMMA SameTurns ==
  ASSUME TypeOK, UNCHANGED <<ran, notes, past>>, NEW s \in Sessions, \A q \in Sessions : q # s => sess'[q] = sess[q],
         \/ sess'[s].active = sess[s].active
         \/ sess'[s].active = NoTurn /\ Forgets(sess[s])
  PROVE  /\ KeepsTurns /\ KeepsActive /\ KeepsEnds /\ \A u \in Turns : ran[u] = "over" => ran'[u] = "over"
<1>1. \A t : Running(t)' = Running(t) /\ Ended(t)' = Ended(t)
  BY DEF Running, Ended
<1>2. KeepsTurns
  BY DEF KeepsTurns
<1>3. KeepsActive
  BY <1>1 DEF KeepsActive, Forgets, NoTurn, Turns
<1>4. KeepsEnds
  BY <1>1 DEF KeepsEnds
<1> QED BY <1>2, <1>3, <1>4

LEMMA HandlesStep ==
  ASSUME TypeOK, TurnInv, NEW s \in Sessions, NEW w \in WorkItem, MainFree, Handles(s, w),
         w.r.active = sess[s].active, w.r.follow = sess[s].follow \/ w.r.active = NoTurn,
         w.r.completed = sess[s].completed, w.r.attached = sess[s].attached, w.handed = handed
  PROVE  Handled(s, w.r.follow)
<1>0. w.r \in SessionRow /\ sess[s] \in SessionRow /\ MaxMessages \in Nat
  BY ConversationAssumption DEF WorkItem, TypeOK
<1>1. UNCHANGED <<topic, server, home, said, threads, resumed, notes, past, done>>
  BY DEF Handles
<1>2. UNCHANGED left \/ Spend("request")
  BY DEF Handles, Waits, StartsTurn, ReplacesTurn, Steers, Refused
<1>3. left' \in [Faults \cup Commands -> Nat]
  BY <1>2, SpendTyped DEF Faults, TypeOK
<1>4. CASE Waits(s, w)
  <2>1. PICK r : r = [w.r EXCEPT !.follow = TRUE, !.quiet = FALSE]
    OBVIOUS
  <2>2. r \in SessionRow /\ r.active = w.r.active /\ r.completed = w.r.completed
    BY <1>0, <2>1 DEF SessionRow
  <2>3. [w EXCEPT !.r.follow = TRUE, !.r.quiet = FALSE] = [w EXCEPT !.r = r]
    BY <2>1 DEF WorkItem
  <2>4. PICK v : v = [w EXCEPT !.r = r]
    OBVIOUS
  <2>5. /\ v \in WorkItem /\ v.r = r /\ Saved(s, v) /\ UNCHANGED <<ran, call, stopped, loose, left>>
        /\ v.handed = handed
    BY <1>4, <2>2, <2>3, <2>4, WithRowOf DEF Waits
  <2>6. /\ sess' \in [Sessions -> SessionRow] /\ handed' \in [0..MaxMessages -> Texts]
        /\ rows' \in [Turns -> SUBSET RowStates] /\ \A q \in Sessions : q # s => sess'[q] = sess[q]
        /\ sess'[s].active = sess[s].active /\ sess'[s].completed = sess[s].completed /\ handed' = handed
    BY <2>2, <2>5, SavedRow DEF Saved
  <2>7. KeepsTurns /\ KeepsActive /\ KeepsEnds /\ \A u \in Turns : ran[u] = "over" => ran'[u] = "over"
    BY <1>1, <2>5, <2>6, SameTurns
  <2>8. call'.kind = "none" /\ ~ForATurn'
    BY <2>5 DEF MainFree, ForATurn
  <2>9. Careful
    <3>1. CarefulWith(s)
      BY <1>1, <2>6 DEF CarefulWith
    <3> QED BY <2>7, <3>1, CarefulAt
  <2> QED BY <1>1, <1>3, <2>5, <2>6, <2>7, <2>8, <2>9 DEF Handled, TypeOK
<1>5. CASE StartsTurn(s, w) /\ w.r.active = NoTurn
  <2>1. PICK v : v = Emptied(w)
    OBVIOUS
  <2>2. /\ v \in WorkItem /\ v.r.active = NoTurn /\ v.r.follow = w.r.follow /\ v.r.completed = w.r.completed
        /\ \A t \in Turns : v.handed[t] \subseteq handed[t] \/ (t = sess[s].completed /\ sess[s].attached)
    BY <1>5, <2>1, EmptiedItem DEF Keeps, SameTurn, Spares, TurnOf
  <2>3. AsksForTurn(s, v) /\ UNCHANGED <<ran, stopped, left>>
    BY <1>5, <2>1 DEF StartsTurn
  <2>4. /\ sess' \in [Sessions -> SessionRow] /\ handed' \in [0..MaxMessages -> Texts]
        /\ rows' \in [Turns -> SUBSET RowStates] /\ \A q \in Sessions : q # s => sess'[q] = sess[q]
        /\ sess'[s].active = NoTurn /\ sess'[s].follow = w.r.follow
        /\ sess'[s].completed = w.r.completed /\ handed' = v.handed
        /\ call' \in [kind : {"none", "thread", "turn", "steer"}, s : Sessions,
                      thread : 0..MaxMessages, delivered : Texts]
        /\ call'.kind \in {"thread", "turn"} /\ call'.s = s /\ loose' = loose
    BY <2>2, <2>3, AskStep
  <2>5. KeepsTurns /\ KeepsActive /\ KeepsEnds /\ \A u \in Turns : ran[u] = "over" => ran'[u] = "over"
    BY <1>1, <1>5, <2>3, <2>4, SameTurns
  <2>6. Careful
    <3>1. CarefulWith(s)
      BY <1>1, <2>2, <2>4 DEF CarefulWith
    <3> QED BY <2>5, <3>1, CarefulAt
  <2> QED BY <1>1, <1>3, <2>3, <2>4, <2>5, <2>6 DEF Handled, TypeOK, ForATurn
<1>6. CASE ReplacesTurn(s, w) /\ w.r.active # NoTurn
  <2>1. PICK t \in Turns : t = sess[s].active
    BY <1>0, <1>6 DEF SessionRow
  <2>2. CASE /\ ran' = [ran EXCEPT ![t] = "over"]
             /\ stopped' = stopped \cup {t}
             /\ AsksForTurn(s, [w EXCEPT !.r = [Blank(@) EXCEPT !.active = NoTurn, !.status = "ACTIVE"]])
    <3>1. PICK b \in SessionRow : b = Blank(w.r) /\ b.follow = w.r.follow /\ b.completed = w.r.completed
      BY <1>0, BlankRow DEF SameTurn
    <3>2. PICK r : r = [b EXCEPT !.active = NoTurn, !.status = "ACTIVE"]
      OBVIOUS
    <3>3. r \in SessionRow /\ r.active = NoTurn /\ r.follow = w.r.follow /\ r.completed = w.r.completed
      BY <3>1, <3>2 DEF SessionRow
    <3>4. PICK v : v = [w EXCEPT !.r = r]
      OBVIOUS
    <3>5. v \in WorkItem /\ v.r = r /\ v.handed = handed
      BY <3>3, <3>4, WithRowOf
    <3>6. AsksForTurn(s, v)
      BY <2>2, <3>1, <3>2, <3>4
    <3>7. /\ sess' \in [Sessions -> SessionRow] /\ handed' \in [0..MaxMessages -> Texts]
          /\ rows' \in [Turns -> SUBSET RowStates] /\ \A q \in Sessions : q # s => sess'[q] = sess[q]
          /\ sess'[s].active = NoTurn /\ sess'[s].follow = w.r.follow
          /\ sess'[s].completed = w.r.completed /\ handed' = v.handed
          /\ call' \in [kind : {"none", "thread", "turn", "steer"}, s : Sessions,
                        thread : 0..MaxMessages, delivered : Texts]
          /\ call'.kind \in {"thread", "turn"} /\ call'.s = s /\ loose' = loose
      BY <3>3, <3>5, <3>6, AskStep
    <3>8. /\ ran' \in [Turns -> {"unused", "running", "spoken", "over"}]
          /\ KeepsTurns /\ KeepsActive /\ KeepsEnds /\ \A u \in Turns : ran[u] = "over" => ran'[u] = "over"
      BY <1>1, <2>1, <2>2, <3>7, Replaced
    <3>9. Careful
      <4>1. CarefulWith(s)
        BY <1>1, <3>5, <3>7 DEF CarefulWith
      <4> QED BY <3>8, <4>1, CarefulAt
    <3> QED BY <1>1, <1>3, <2>1, <2>2, <3>7, <3>8, <3>9 DEF Handled, TypeOK, ForATurn
  <2>3. CASE Forgets(w.r) /\ Published(s, w) /\ UNCHANGED <<ran, call, stopped>>
    <3>1. LetsGo(s) /\ sess'[s].follow = w.r.follow
      BY <1>6, <2>3, PublishedRow DEF LetsGo
    <3>2. loose' = loose \cup (IF t # NoTurn /\ Running(t) THEN {t} ELSE {})
      BY <2>1, <2>3 DEF Forgets
    <3>3. Forgets(sess[s])
      BY <2>1, <3>2 DEF Forgets
    <3>4. KeepsTurns /\ KeepsActive /\ KeepsEnds /\ \A u \in Turns : ran[u] = "over" => ran'[u] = "over"
      BY <1>1, <2>3, <3>1, <3>3, SameTurns DEF LetsGo
    <3>5. call'.kind = "none" /\ ~ForATurn'
      BY <2>3 DEF MainFree, ForATurn
    <3>6. Careful
      BY <1>1, <3>1, <3>4, LetsGoCareful
    <3> QED BY <1>1, <1>3, <2>1, <2>3, <3>1, <3>2, <3>4, <3>5, <3>6 DEF Handled, TypeOK, LetsGo
  <2> QED BY <1>6, <2>1, <2>2, <2>3 DEF ReplacesTurn
<1>7. CASE Steers(s, w) /\ w.r.active # NoTurn
  <2>1. PICK r : r = [w.r EXCEPT !.quiet = FALSE]
    OBVIOUS
  <2>2. r \in SessionRow /\ r.active = w.r.active /\ r.follow = w.r.follow /\ r.completed = w.r.completed
    BY <1>0, <2>1 DEF SessionRow
  <2>3. [w EXCEPT !.r.quiet = FALSE] = [w EXCEPT !.r = r]
    BY <2>1 DEF WorkItem
  <2>4. PICK v : v = [w EXCEPT !.r = r]
    OBVIOUS
  <2>5. /\ v \in WorkItem /\ v.r = r /\ Saved(s, v) /\ UNCHANGED <<ran, stopped, loose, left>> /\ v.handed = handed
        /\ call' = [kind |-> "steer", s |-> s, thread |-> sess[s].thread, delivered |-> sess[s].delivered]
    BY <1>7, <2>2, <2>3, <2>4, WithRowOf DEF Steers, Begins
  <2>6. /\ sess' \in [Sessions -> SessionRow] /\ handed' \in [0..MaxMessages -> Texts]
        /\ rows' \in [Turns -> SUBSET RowStates] /\ \A q \in Sessions : q # s => sess'[q] = sess[q]
        /\ sess'[s].active = sess[s].active /\ sess'[s].follow = w.r.follow
        /\ sess'[s].completed = sess[s].completed /\ handed' = handed
    BY <2>2, <2>5, SavedRow DEF Saved
  <2>7. KeepsTurns /\ KeepsActive /\ KeepsEnds /\ \A u \in Turns : ran[u] = "over" => ran'[u] = "over"
    BY <1>1, <2>5, <2>6, SameTurns
  <2>8. sess[s].thread \in 0..MaxMessages /\ sess[s].delivered \in Texts
    BY <1>0 DEF SessionRow
  <2>9. call' \in [kind : {"none", "thread", "turn", "steer"}, s : Sessions,
                   thread : 0..MaxMessages, delivered : Texts]
        /\ call'.s = s /\ ~ForATurn' /\ sess'[s].active # NoTurn
    BY <1>7, <2>5, <2>6, <2>8 DEF ForATurn
  <2>10. Careful
    <3>1. CarefulWith(s)
      BY <1>1, <2>6 DEF CarefulWith
    <3> QED BY <2>7, <3>1, CarefulAt
  <2> QED BY <1>1, <1>3, <2>5, <2>6, <2>7, <2>9, <2>10 DEF Handled, TypeOK
<1> QED BY <1>4, <1>5, <1>6, <1>7 DEF Handles, MustWait

(* Handling keeps the invariant, but for what it spends of the budget.     *)
LEMMA HandledTurns ==
  ASSUME ConversationInv, NEW s \in Sessions, NEW follow \in BOOLEAN, Handled(s, follow), MainFree,
         made' \in Sessions, made <= made', s <= made', asked' \in 0..MaxMessages
  PROVE  TypeOK' /\ TurnInv' /\ Begun' = Begun
<1>0. TypeOK /\ TurnInv
  BY DEF ConversationInv
<1>1. TypeOK'
  BY <1>0 DEF TypeOK, Handled
<1>2. /\ KeepsTurns /\ KeepsActive /\ KeepsEnds /\ loose \subseteq loose'
      /\ UNCHANGED <<topic, server, home, said, threads, resumed, notes, past, done>>
      /\ \A t \in Turns : ran[t] = "over" => ran'[t] = "over"
  BY DEF Handled
<1>3. EndsAreTrue'
  BY <1>0, <1>2, NotesTyped DEF TurnInv, EndsAreTrue
<1>4. CallFits'
  <2>1. call'.kind # "none" => call'.s = s /\ (ForATurn' <=> sess'[s].active = NoTurn)
    BY DEF Handled
  <2> QED BY <2>1 DEF CallFits
<1>5. server' # "up" => NobodyRuns'
  <2>1. NobodyRuns => NobodyRuns'
    BY <1>2 DEF NobodyRuns, KeepsTurns, Running
  <2> QED BY <1>0, <1>2, <2>1 DEF TurnInv, Gates
<1> QED BY <1>0, <1>1, <1>2, <1>3, <1>4, <1>5, NoTurnStarts

(* A message pays for a turn, or for the follow-up that will start one.    *)
LEMMA MessageHandled ==
  ASSUME ConversationInv, Message
  PROVE  ConversationInv' /\ Careful
<1>0. TypeOK /\ TurnInv /\ Budget
  BY DEF ConversationInv
<1>1. MainFree /\ asked < MaxMessages /\ asked' = asked + 1
  BY DEF Message
<1>2. PICK s \in Sessions : Target(s) /\ made' = (IF s > made THEN s ELSE made) /\ Handles(s, Work(s))
  BY DEF Message
<1>3. Work(s) \in WorkItem /\ Work(s).r = sess[s] /\ sess[s].follow \in BOOLEAN /\ Work(s).handed = handed
  BY <1>0, WorkOfRow DEF TypeOK, SessionRow, Work
<1>4. Handled(s, sess[s].follow)
  BY <1>0, <1>1, <1>2, <1>3, HandlesStep
<1>5. made' \in Sessions /\ made <= made' /\ s <= made'
  BY <1>0, <1>2 DEF TypeOK, Sessions
<1>6. asked' \in 0..MaxMessages /\ asked \in Nat
  BY <1>0, <1>1, ConversationAssumption DEF TypeOK
<1>7. TypeOK' /\ TurnInv' /\ Begun' = Begun
  BY <1>1, <1>3, <1>4, <1>5, <1>6, HandledTurns
<1>8. Budget'
  <2>1. /\ IsFiniteSet(Follows) /\ Cardinality(Follows) \in Nat /\ Begun \in Nat /\ threads \in Nat
        /\ threads' = threads /\ One(ForATurn) = 0 /\ One(call.kind = "thread") = 0
    BY <1>0, <1>1, <1>4, FollowsFinite, StartedFinite DEF TypeOK, Handled, MainFree, ForATurn, One
  <2>2. One(ForATurn)' \in {0, 1} /\ One(call.kind = "thread")' \in {0, 1}
        /\ One(call.kind = "thread")' <= One(ForATurn)'
    BY DEF One, ForATurn
  <2>3. \A q \in Sessions : q # s => sess'[q] = sess[q]
    BY <1>4 DEF Handled
  <2>4. CASE sess'[s].follow => sess[s].follow
    <3>1. Follows' \subseteq Follows
      BY <2>3, <2>4 DEF Follows
    <3>2. Cardinality(Follows') \in Nat /\ Cardinality(Follows') <= Cardinality(Follows)
      BY <2>1, <3>1, FS_Subset, FS_CardinalityType
    <3> QED BY <1>0, <1>1, <1>6, <1>7, <2>1, <2>2, <3>2 DEF Budget
  <2>5. CASE sess'[s].follow /\ ~sess[s].follow
    <3>1. Follows' \subseteq Follows \cup {s} /\ IsFiniteSet(Follows \cup {s})
          /\ Cardinality(Follows \cup {s}) = Cardinality(Follows) + 1
      <4>1. s \notin Follows
        BY <2>5 DEF Follows
      <4> QED BY <2>1, <2>3, <4>1, FS_AddElement DEF Follows
    <3>2. Cardinality(Follows') \in Nat /\ Cardinality(Follows') <= Cardinality(Follows) + 1
      BY <3>1, FS_Subset, FS_CardinalityType
    <3>3. One(ForATurn)' = 0
      BY <1>4, <2>5 DEF Handled, One
    <3> QED BY <1>0, <1>1, <1>6, <1>7, <2>1, <2>2, <3>2, <3>3 DEF Budget
  <2> QED BY <2>4, <2>5
<1> QED BY <1>4, <1>7, <1>8 DEF ConversationInv, Handled

LEMMA FollowUpHandled ==
  ASSUME ConversationInv, NEW s \in Sessions, DispatchesFollowUp(s)
  PROVE  ConversationInv' /\ Careful
<1>0. TypeOK /\ TurnInv /\ Budget
  BY DEF ConversationInv
<1>1. /\ MainFree /\ s <= made /\ MayFollow(sess[s]) /\ Handles(s, [Work(s) EXCEPT !.r.follow = FALSE])
      /\ made' = made /\ asked' = asked
  BY DEF DispatchesFollowUp
<1>2. PICK r : r = [sess[s] EXCEPT !.follow = FALSE]
  OBVIOUS
<1>3. Work(s) \in WorkItem /\ Work(s).r = sess[s] /\ sess[s] \in SessionRow
  BY <1>0, WorkOfRow DEF TypeOK
<1>4. /\ r \in SessionRow /\ r.active = sess[s].active /\ ~r.follow /\ r.follow \in BOOLEAN
      /\ r.completed = sess[s].completed /\ r.attached = sess[s].attached
  BY <1>2, <1>3 DEF SessionRow
<1>5. PICK w : w = [Work(s) EXCEPT !.r = r]
  OBVIOUS
<1>6. w \in WorkItem /\ w.r = r /\ w.handed = handed
  BY <1>3, <1>4, <1>5, WithRowOf DEF Work
<1>7. Handles(s, w) /\ w.r.active = NoTurn
  <2>1. w = [Work(s) EXCEPT !.r.follow = FALSE]
    BY <1>2, <1>5 DEF Work
  <2> QED BY <1>1, <1>4, <1>6, <2>1 DEF MayFollow
<1>8. Handled(s, r.follow)
  BY <1>0, <1>1, <1>4, <1>6, <1>7, HandlesStep
<1>9. made \in Sessions /\ made <= made' /\ asked \in 0..MaxMessages /\ asked \in Nat
  BY <1>0, <1>1, ConversationAssumption DEF TypeOK, Sessions
<1>10. TypeOK' /\ TurnInv' /\ Begun' = Begun
  BY <1>1, <1>4, <1>8, <1>9, HandledTurns
<1>11. Budget'
  <2>1. /\ IsFiniteSet(Follows) /\ Cardinality(Follows) \in Nat /\ Begun \in Nat /\ threads \in Nat
        /\ threads' = threads /\ One(ForATurn) = 0 /\ One(call.kind = "thread") = 0
    BY <1>0, <1>1, <1>8, FollowsFinite, StartedFinite DEF TypeOK, Handled, MainFree, ForATurn, One
  <2>2. One(ForATurn)' \in {0, 1} /\ One(call.kind = "thread")' \in {0, 1}
        /\ One(call.kind = "thread")' <= One(ForATurn)'
    BY DEF One, ForATurn
  <2>3. \A q \in Sessions : q # s => sess'[q] = sess[q]
    BY <1>8 DEF Handled
  <2>4. s \in Follows
    BY <1>1 DEF Follows, MayFollow
  <2>5. CASE ~sess'[s].follow
    <3>1. Follows' = Follows \ {s}
      BY <2>3, <2>5 DEF Follows
    <3>2. Cardinality(Follows') = Cardinality(Follows) - 1
      BY <2>1, <2>4, <3>1, FS_RemoveElement
    <3> QED BY <1>0, <1>1, <1>9, <1>10, <2>1, <2>2, <3>2 DEF Budget
  <2>6. CASE sess'[s].follow
    <3>1. Follows' = Follows
      BY <2>3, <2>4, <2>6 DEF Follows
    <3>2. One(ForATurn)' = 0
      BY <1>4, <1>8, <2>6 DEF Handled, One
    <3> QED BY <1>0, <1>1, <1>9, <1>10, <2>1, <2>2, <3>1, <3>2 DEF Budget
  <2> QED BY <2>5, <2>6
<1> QED BY <1>8, <1>10, <1>11 DEF ConversationInv, Handled

-----------------------------------------------------------------------------
(* The theorems.                                                           *)

LEMMA Initially ==
  ASSUME Init
  PROVE  ConversationInv
<1>1. MaxMessages \in Nat /\ MaxPieces \in Nat /\ MaxNotes \in Nat /\ 1 \in Sessions
  BY ConversationAssumption DEF Sessions
<1>2. /\ topic \in BOOLEAN /\ left \in [Faults \cup Commands -> Nat]
      /\ \A s \in Sessions : sess[s] = NewSession
      /\ sess = [s \in Sessions |-> NewSession]
  BY ConversationAssumption DEF Init
<1>3. NewSession \in SessionRow /\ NewSession.active = NoTurn /\ ~NewSession.follow
  BY <1>1, <1>2 DEF NewSession, SessionRow, Texts
<1>4. TypeOK
  <2>1. sess \in [Sessions -> SessionRow]
    BY <1>2, <1>3
  <2>2. /\ ran \in [Turns -> {"unused", "running", "spoken", "over"}]
        /\ home \in [Turns -> [s : Sessions, thread : 0..MaxMessages]]
        /\ said \in [Turns -> 0..MaxPieces] /\ rows \in [Turns -> SUBSET RowStates]
    BY <1>1 DEF Init
  <2>3. handed \in [0..MaxMessages -> Texts]
    BY DEF Init, Texts
  <2>4. notes \in Seq(Notices) /\ Len(notes) <= MaxNotes
    BY <1>1 DEF Init
  <2>5. made = 1 /\ server = "up" /\ threads = 0 /\ resumed = {} /\ past = 0 /\ asked = 0 /\ call = NoCall
        /\ done = {} /\ stopped = {} /\ loose = {}
    BY DEF Init
  <2>6. made \in Sessions /\ server \in {"up", "dead", "none"} /\ threads \in 0..MaxMessages
        /\ resumed \subseteq 1..MaxMessages /\ past \in 0..MaxMessages /\ asked \in 0..MaxMessages
        /\ done \subseteq Turns /\ stopped \subseteq Turns /\ loose \subseteq Turns
    BY <1>1, <2>5
  <2> QED BY <1>2, <2>1, <2>2, <2>3, <2>4, <2>5, <2>6, NoCallTyped DEF TypeOK
<1>5. Started = {} /\ Follows = {}
  BY <1>2, <1>3 DEF Init, Started, Follows
<1>6. Begun = 0 /\ Cardinality(Follows) = 0
  BY <1>5, FS_EmptySet DEF Begun
<1>7. call.kind = "none" /\ ~ForATurn
  BY DEF Init, NoCall, ForATurn
<1>8. InTurn /\ AtHome /\ CallFits /\ Gates /\ RunningTurnKnown /\ TurnComes /\ EndsAreTrue
  <2>1. InTurn
    BY <1>5, <1>6 DEF InTurn
  <2>2. AtHome /\ TurnComes
    BY <1>2, <1>3 DEF AtHome, TurnComes
  <2>3. Gates
    BY <1>6 DEF Gates, Init
  <2>4. RunningTurnKnown
    BY DEF Init, RunningTurnKnown, Running
  <2>5. EndsAreTrue
    BY DEF Init, EndsAreTrue
  <2> QED BY <1>7, <2>1, <2>2, <2>3, <2>4, <2>5 DEF CallFits
<1>9. Budget
  BY <1>6, <1>7 DEF Budget, One, Init
<1> QED BY <1>4, <1>8, <1>9 DEF ConversationInv, TurnInv

LEMMA Unchanged ==
  ASSUME ConversationInv, UNCHANGED vars
  PROVE  ConversationInv' /\ Careful
<1>0. TypeOK /\ TurnInv /\ Budget
  BY DEF ConversationInv
<1>1. UNCHANGED <<sess, made, topic, server, ran, home, said, threads, resumed, notes, past, call, rows, handed,
                  asked, done, stopped, loose, left>>
  BY DEF vars, codex, queue, history
<1>2. TypeOK' /\ made \in Int
  BY <1>0, <1>1 DEF TypeOK, Sessions
<1>3. KeepsActive
  BY <1>1 DEF KeepsActive
<1> QED BY <1>1, <1>2, <1>3, CalmStep

LEMMA Stepwise ==
  ASSUME ConversationInv, [Next]_vars
  PROVE  ConversationInv' /\ Careful
<1>1. CASE AppServer
  BY <1>1, SaysStep, MessageStep, EndsStep, StopsStep DEF AppServer
<1>2. CASE Notifications
  BY <1>2, TextStep, CompletedStep, FailedStep DEF Notifications
<1>3. CASE Answers
  BY <1>3, ThreadStep, StartsStep, SteeredStep, RequestFailsStep DEF Answers
<1>4. CASE User
  BY <1>4, MessageHandled, NewStep, StopStep DEF User
<1>5. CASE Periodic
  BY <1>5, ServerNoticed, CodexStep, FollowUpHandled, FlushStep, QuietStep, ReconcileStep DEF Periodic
<1>6. CASE Crash
  BY <1>6, CrashStep
<1>7. CASE \E t \in Turns : Delivers(t)
  BY <1>7, DeliversStep
<1>8. CASE UNCHANGED vars
  BY <1>8, Unchanged
<1> QED BY <1>1, <1>2, <1>3, <1>4, <1>5, <1>6, <1>7, <1>8 DEF Next

(* The invariant holds, whatever the user, the app server and the faults   *)
(* do, for any number of sessions, messages, pieces and notifications.     *)
THEOREM ConversationHolds == Spec => []ConversationInv
<1>1. Init => ConversationInv
  BY Initially
<1>2. ConversationInv /\ [Next]_vars => ConversationInv'
  BY Stepwise
<1> QED BY <1>1, <1>2, PTL DEF Spec

(* The sessions, turns, notifications and requests keep their types; a     *)
(* turn and a thread are never started beyond the user's messages.         *)
THEOREM ConversationTypes == Spec => []TypeOK
<1>1. ConversationInv => TypeOK
  BY DEF ConversationInv
<1> QED BY <1>1, ConversationHolds, PTL

(* A turn that runs is the active turn of the session it was started for,  *)
(* so that its text is heard and it can be steered and stopped; or a       *)
(* request failed and made the session forget it.                          *)
THEOREM RunningIsKnown == Spec => []RunningTurnKnown
<1>1. ConversationInv => RunningTurnKnown
  BY DEF ConversationInv, TurnInv
<1> QED BY <1>1, ConversationHolds, PTL

(* No session waits for a turn that cannot end: the turn runs, its end is  *)
(* among the notifications, or its app server is gone and the recovery     *)
(* clears it.                                                              *)
THEOREM ActiveTurnEnds == Spec => []TurnComes
<1>1. ConversationInv => TurnComes
  BY DEF ConversationInv, TurnInv
<1> QED BY <1>1, ConversationHolds, PTL

-----------------------------------------------------------------------------
(* What a detached session shows.                                          *)

(* The turn a session has completed was started for it.                    *)
DoneAtHome == \A s \in Sessions : sess[s].completed # NoTurn =>
                  sess[s].completed \in Started /\ home[sess[s].completed].s = s

LEMMA CompletedOwn ==
  ASSUME ConversationInv, DoneAtHome, Careful
  PROVE  DoneAtHome'
<1> SUFFICES ASSUME NEW s \in Sessions, sess'[s].completed # NoTurn
             PROVE  sess'[s].completed \in Started' /\ home'[sess'[s].completed].s = s
  BY DEF DoneAtHome
<1>1. PICK t : t = sess'[s].completed
  OBVIOUS
<1>2. t \in {sess[s].completed, sess[s].active}
  BY <1>1 DEF Careful
<1>3. t \in Started /\ home[t].s = s
  BY <1>1, <1>2 DEF DoneAtHome, ConversationInv, TurnInv, AtHome
<1> QED BY <1>1, <1>3 DEF Careful

LEMMA DetachedSilent ==
  ASSUME ConversationInv, DoneAtHome, Careful, NEW t \in Turns, ran[t] # "unused", ~sess[home[t].s].attached
  PROVE  handed'[t] \subseteq handed[t]
<1>1. SUFFICES ASSUME NEW s \in Sessions, sess[s].attached, t \in {sess[s].active, sess[s].completed}
               PROVE  FALSE
  BY DEF Careful
<1>2. home[t].s = s
  BY <1>1 DEF DoneAtHome, ConversationInv, TurnInv, AtHome, NoTurn, Turns
<1> QED BY <1>1, <1>2

(* Once a session is detached nothing more of its turns is shown: no text  *)
(* that arrives, no answer of an ended turn, no error, no sending again    *)
(* changes a message of its turns other than to delete it.                 *)
THEOREM DetachedIsHidden == Spec => HiddenOnceDetached
<1> DEFINE Hush == \A t \in Turns : ran[t] # "unused" /\ ~sess[home[t].s].attached => handed'[t] \subseteq handed[t]
<1>1. Init => DoneAtHome
  BY DEF Init, DoneAtHome, NewSession
<1>2. ConversationInv /\ DoneAtHome /\ [Next]_vars => DoneAtHome' /\ [Hush]_vars
  <2> SUFFICES ASSUME ConversationInv, DoneAtHome, [Next]_vars
               PROVE  DoneAtHome' /\ Hush
    OBVIOUS
  <2>1. Careful
    BY Stepwise
  <2> QED BY <2>1, CompletedOwn, DetachedSilent
<1> QED BY <1>1, <1>2, ConversationHolds, PTL DEF Spec, HiddenOnceDetached

(***************************************************************************)
(* The texts: why the final answer is the whole message of its turn, and   *)
(* why nothing of another turn is in it.                                   *)
(***************************************************************************)

(* A text that may be shown for a turn: pieces of its message, or anything *)
(* once the turn is over and has said nothing.                             *)
Own(t, text) == text \subseteq Pieces(t) \/ (ran[t] = "over" /\ said[t] = 0)

(* The answer of a turn that is over. *)
Full(t, text) == ran[t] = "over" /\ (said[t] > 0 => text = Pieces(t))

(* What is still to come of a turn, when ns are the notifications. *)
Coming(t, ns) == UNION {ns[i].text : i \in {j \in DOMAIN ns : ns[j].turn = t}}

(* Nothing of the turn is to come but its end. *)
NoMore(t, ns) == ran[t] # "running" /\ \A i \in DOMAIN ns : ns[i].turn = t => ns[i].kind \in EndKinds

EndsWith(t, ns) == \E i \in DOMAIN ns : ns[i].turn = t /\ ns[i].kind \in EndKinds

(* The text of a turn that runs: what was said is streamed, pending or to  *)
(* come; or the whole message has replaced it, and is pending, or was seen *)
(* to be what is streamed already and dropped.                             *)
Collects(r, ns) ==
    \/ r.streamed = r.delivered /\ Pieces(r.active) \subseteq Text(r) \cup Coming(r.active, ns)
    \/ NoMore(r.active, ns) /\ r.streamed = {} /\ r.pending = Pieces(r.active)
    \/ NoMore(r.active, ns) /\ Text(r) = {} /\ r.delivered = Pieces(r.active)

(* An active turn has no final answer yet.                                 *)
ActiveText(r, rs, ns) ==
    r.active # NoTurn =>
        /\ r.status # "DELIVERING_FINAL"
        /\ Own(r.active, Text(r))
        /\ rs[r.active] = {}
        /\ r.attached /\ (Running(r.active) \/ EndsWith(r.active, ns)) => Collects(r, ns)

(* A session without an active turn has a text only while it delivers it,  *)
(* or if it does not know of what turn it is.                              *)
IdleText(r) ==
    r.active = NoTurn /\ r.completed # NoTurn =>
        IF r.status = "DELIVERING_FINAL"
        THEN r.pending \subseteq r.streamed /\ (r.streamed # {} => Full(r.completed, r.streamed))
        ELSE r.pending = {}

(* The messages that a session knows are of its turns; they show a final   *)
(* answer only while it is delivered.                                      *)
OwnIds(s, r, rs) ==
    r.ids \in Turns =>
        /\ r.ids \in Started /\ home[r.ids].s = s
        /\ rs[r.ids] = {} \/ (r.status = "DELIVERING_FINAL" /\ r.completed = r.ids /\ Text(r) # {})

OwnTurns(s, r) ==
    /\ r.active # NoTurn => r.active \in Started /\ home[r.active].s = s
    /\ r.completed # NoTurn => r.completed \in Started /\ home[r.completed].s = s
    /\ r.status = "DELIVERING_FINAL" => r.completed # NoTurn

RowText(s, r, rs, ns) == ActiveText(r, rs, ns) /\ IdleText(r) /\ OwnIds(s, r, rs) /\ OwnTurns(s, r)

(* The messages in the chat. *)
ChatTexts(hd, rs) ==
    \A t \in Turns : /\ Own(t, hd[t])
                     /\ rs[t] # {} => Full(t, hd[t])

(* Notifications come in the order of the turn, with what it said. *)
Follow(m, n) == m.turn = n.turn => m.kind = "delta" \/ (m.kind = "message" /\ n.kind \in EndKinds)

NotesOwn(ns) ==
    /\ \A i \in DOMAIN ns :
        /\ ns[i].text \subseteq Pieces(ns[i].turn)
        /\ ns[i].kind = "message" => ran[ns[i].turn] \in {"spoken", "over"} /\ ns[i].text = Pieces(ns[i].turn)
        /\ ns[i].kind \in EndKinds => ns[i].text = {}
    /\ \A i, j \in DOMAIN ns : i < j => Follow(ns[i], ns[j])

SaidByStarted == \A t \in Turns : said[t] > 0 => t \in Started

(* A thread belongs to one session, whose active turn is its last one. *)
OneThread ==
    /\ \A s, q \in Sessions : sess[s].thread = sess[q].thread /\ s # q => sess[s].thread = 0
    /\ \A s \in Sessions : sess[s].thread <= threads
    /\ \A s \in Sessions : sess[s].thread = call.thread /\ s # call.s => call.thread = 0
    /\ call.thread <= threads

LastOfThread ==
    \A s \in Sessions :
        LET t == sess[s].active IN
        t # NoTurn => /\ sess[s].thread # 0 /\ home[t].thread = sess[s].thread
                      /\ \A u \in Started : home[u].thread = home[t].thread => u <= t

(* A turn is asked for with a clean session. *)
CleanCall ==
    /\ ForATurn => Text(sess[call.s]) = {}
    /\ call.kind = "turn" => sess[call.s].delivered = {} /\ sess[call.s].thread # 0

ShownInv ==
    /\ ChatTexts(handed, rows)
    /\ \A s \in Sessions : RowText(s, sess[s], rows, notes)
    /\ NotesOwn(notes) /\ SaidByStarted

ThreadInv == OneThread /\ LastOfThread /\ CleanCall

TextsInv == ShownInv /\ ThreadInv

ItemText(s, w, ns) == w \in WorkItem /\ ChatTexts(w.handed, w.rows) /\ RowText(s, w.r, w.rows, ns)

RowsKept(s, w, v) == \A t \in Turns : home[t].s # s => v.rows[t] = w.rows[t]

-----------------------------------------------------------------------------
(* The texts that the work items are given.                                *)

LEMMA SaidTypes ==
  ASSUME TypeOK, NEW t \in Turns
  PROVE  said[t] \in Nat /\ Pieces(t) \in Texts /\ (said[t] = 0 => Pieces(t) = {}) /\ t # NoTurn /\ t \in 0..MaxMessages
<1>1. said[t] \in 0..MaxPieces /\ MaxPieces \in Nat
  BY ConversationAssumption DEF TypeOK
<1>2. said[t] = 0 => Pieces(t) = {}
  BY DEF Pieces
<1>3. t # NoTurn /\ t \in 0..MaxMessages
  BY ConversationAssumption DEF Turns, NoTurn
<1> QED BY <1>1, <1>2, <1>3, PiecesTyped

LEMMA FullIsOwn ==
  ASSUME TypeOK, NEW t \in Turns, NEW text, Full(t, text)
  PROVE  Own(t, text)
  BY SaidTypes DEF Full, Own

(* The messages of the chat when a session's turn has a text in them. *)
NewText(w, text, groups, ids) ==
    /\ groups \in [0..MaxMessages -> Texts] /\ ids \in {NoIds, TurnOf(w.r)}
    /\ \A t \in Turns : groups[t] = IF t = TurnOf(w.r) THEN text ELSE IF t = w.r.ids THEN {} ELSE w.handed[t]

LEMMA SyncMeans ==
  ASSUME NEW w \in WorkItem, NEW text \in Texts, NEW known \in BOOLEAN
  PROVE  \E groups, ids : NewText(w, text, groups, ids) /\ Sync(w, text, known) = InMessages(w, groups, ids)
<1> DEFINE t == TurnOf(w.r)
           groups == [u \in 0..MaxMessages |-> IF u = t THEN text ELSE IF u = w.r.ids THEN {} ELSE w.handed[u]]
           ids == IF w.r.ids # NoIds \/ known THEN t ELSE NoIds
<1>1. w.r \in SessionRow /\ w.handed \in [0..MaxMessages -> Texts]
  BY DEF WorkItem
<1>2. groups \in [0..MaxMessages -> Texts] /\ ids \in {NoIds, TurnOf(w.r)}
  BY <1>1, TextOf
<1>3. Sync(w, text, known) = InMessages(w, groups, ids)
  BY DEF Sync, WorkItem, InMessages
<1>4. \A u \in Turns : groups[u] = IF u = TurnOf(w.r) THEN text ELSE IF u = w.r.ids THEN {} ELSE w.handed[u]
  BY ConversationAssumption DEF Turns
<1> HIDE DEF groups, ids
<1>5. NewText(w, text, groups, ids)
  BY <1>2, <1>4 DEF NewText
<1> QED BY <1>3, <1>5

StreamRow(r, text, ids) == [r EXCEPT !.ids = ids, !.streamed = text, !.phase = "answer", !.delivered = text,
                                     !.pending = {}, !.quiet = FALSE]
FinalRow(r, text, ids)  == [r EXCEPT !.ids = ids, !.streamed = text, !.phase = "finalizing",
                                     !.status = "DELIVERING_FINAL"]
QueuedRows(w) == [w.rows EXCEPT ![w.r.completed] = @ \cup {"queued"}]

LEMMA StreamedMeans ==
  ASSUME NEW w \in WorkItem, NEW known \in BOOLEAN
  PROVE  \/ w.r.pending = {} /\ Streamed(w, known) = w
         \/ (~w.r.attached \/ Text(w.r) = w.r.delivered) /\ Streamed(w, known) = Unread(w)
         \/ /\ w.r.pending # {} /\ w.r.attached
            /\ \E groups, ids :
                 /\ NewText(w, Text(w.r), groups, ids)
                 /\ Streamed(w, known).handed = groups
                 /\ Streamed(w, known).rows = IF w.r.status = "DELIVERING_FINAL" THEN QueuedRows(w) ELSE w.rows
                 /\ Streamed(w, known).r = StreamRow(w.r, Text(w.r), ids)
<1>1. w.r \in SessionRow /\ Text(w.r) \in Texts
  BY TextOf DEF WorkItem
<1>2. PICK q \in WorkItem : q = IF w.r.status = "DELIVERING_FINAL" THEN Queued(w) ELSE w
  BY QueuedItem DEF Keeps
<1>3. /\ q.r = w.r /\ q.handed = w.handed
      /\ q.rows = IF w.r.status = "DELIVERING_FINAL" THEN QueuedRows(w) ELSE w.rows
  BY <1>2 DEF Queued, QueuedRows, WorkItem
<1>4. PICK n : n = Sync(q, Text(w.r), known)
  OBVIOUS
<1>5. PICK groups, ids : NewText(q, Text(w.r), groups, ids) /\ n = InMessages(q, groups, ids)
  BY <1>1, <1>2, <1>4, SyncMeans
<1>6. NewText(w, Text(w.r), groups, ids)
  BY <1>3, <1>5 DEF NewText
<1>7. Streamed(w, known) = IF w.r.pending = {} THEN w
                           ELSE IF Hidden(w.r) \/ Text(w.r) = w.r.delivered THEN Unread(w)
                           ELSE AsStream(n, Text(w.r))
  BY <1>2, <1>4 DEF Streamed, Unread, AsStream
<1>8. /\ AsStream(n, Text(w.r)).handed = groups /\ AsStream(n, Text(w.r)).rows = q.rows
      /\ AsStream(n, Text(w.r)).r = StreamRow(w.r, Text(w.r), ids)
  BY <1>2, <1>3, <1>5 DEF AsStream, InMessages, StreamRow, WorkItem, SessionRow
<1> QED BY <1>3, <1>6, <1>7, <1>8 DEF Hidden

LEMMA FinalizedMeans ==
  ASSUME NEW w \in WorkItem, NEW known \in BOOLEAN
  PROVE  \/ w.r.pending = {} /\ Finalized(w, known) = w
         \/ ~w.r.attached /\ Finalized(w, known) = Unread(w)
         \/ w.r.ids = NoIds /\ Finalized(w, known) = Blanked(w)
         \/ /\ w.r.pending # {} /\ w.r.attached
            /\ \E groups, ids :
                 /\ NewText(w, Text(w.r), groups, ids)
                 /\ Finalized(w, known).handed = groups
                 /\ Finalized(w, known).rows = QueuedRows(w)
                 /\ Finalized(w, known).r = FinalRow(w.r, Text(w.r), ids)
<1>1. w.r \in SessionRow /\ Text(w.r) \in Texts
  BY TextOf DEF WorkItem
<1>2. PICK q : q = Sync(w, Text(w.r), known)
  OBVIOUS
<1>3. PICK groups, ids : NewText(w, Text(w.r), groups, ids) /\ q = InMessages(w, groups, ids)
  BY <1>1, <1>2, SyncMeans
<1>4. PICK n : n = Queued(q)
  OBVIOUS
<1>5. n.handed = groups /\ n.rows = QueuedRows(w) /\ n.r = [w.r EXCEPT !.ids = ids]
      /\ n = [r |-> n.r, handed |-> n.handed, rows |-> n.rows]
  BY <1>3, <1>4 DEF Queued, QueuedRows, InMessages, WorkItem, SessionRow
<1>6. Finalized(w, known) = IF w.r.pending = {} THEN w
                            ELSE IF Hidden(w.r) THEN Unread(w)
                            ELSE IF Text(w.r) = w.r.delivered /\ w.r.ids = NoIds THEN Blanked(w)
                            ELSE AsFinal(n, Text(w.r))
  BY <1>2, <1>4 DEF Finalized, Unread, Blanked, AsFinal
<1>7. /\ AsFinal(n, Text(w.r)).handed = groups /\ AsFinal(n, Text(w.r)).rows = QueuedRows(w)
      /\ AsFinal(n, Text(w.r)).r = FinalRow(w.r, Text(w.r), ids)
  BY <1>1, <1>5 DEF AsFinal, FinalRow, SessionRow
<1> QED BY <1>3, <1>6, <1>7 DEF Hidden

-----------------------------------------------------------------------------
(* What the work items keep.                                               *)

LEMMA RowTypes ==
  ASSUME NEW r \in SessionRow
  PROVE  /\ r.active = NoTurn \/ r.active \in Turns
         /\ r.completed = NoTurn \/ r.completed \in Turns
         /\ r.ids \in {NoIds, NoTurn} \cup Turns
         /\ NoTurn \notin Turns /\ NoIds \notin Turns /\ NoIds # NoTurn
  BY ConversationAssumption DEF SessionRow, Turns, NoTurn, NoIds

LEMMA StreamRowIs ==
  ASSUME NEW r \in SessionRow, NEW text, NEW ids, NEW q, q = StreamRow(r, text, ids)
  PROVE  /\ q.active = r.active /\ q.completed = r.completed /\ q.attached = r.attached /\ q.status = r.status
         /\ q.streamed = text /\ q.delivered = text /\ q.pending = {} /\ q.ids = ids /\ Text(q) = text
  BY DEF StreamRow, SessionRow, Text

LEMMA FinalRowIs ==
  ASSUME NEW r \in SessionRow, NEW text, NEW ids, NEW q, q = FinalRow(r, text, ids)
  PROVE  /\ q.active = r.active /\ q.completed = r.completed /\ q.attached = r.attached
         /\ q.status = "DELIVERING_FINAL" /\ q.streamed = text /\ q.pending = r.pending /\ q.ids = ids
         /\ Text(q) = text \cup r.pending
  BY DEF FinalRow, SessionRow, Text

LEMMA QueuedRowsAre ==
  ASSUME NEW w \in WorkItem
  PROVE  /\ \A t \in Turns : t # w.r.completed => QueuedRows(w)[t] = w.rows[t]
         /\ w.r.completed = NoTurn => QueuedRows(w) = w.rows
  BY RowTypes DEF QueuedRows, WorkItem

LEMMA RowsKeptOn ==
  ASSUME NEW s, NEW w, NEW v, NEW x, RowsKept(s, w, v), RowsKept(s, v, x)
  PROVE  RowsKept(s, w, x)
  BY DEF RowsKept

(* A session that runs no turn and has no text.                            *)
Bare(s, r, rs) ==
    /\ r.active = NoTurn /\ r.pending = {} /\ r.streamed = {}
    /\ OwnTurns(s, r)
    /\ r.ids \in Turns => r.ids \in Started /\ home[r.ids].s = s /\ rs[r.ids] = {}

LEMMA BareText ==
  ASSUME NEW s, NEW r, NEW rs, NEW ns, Bare(s, r, rs)
  PROVE  RowText(s, r, rs, ns)
  BY DEF Bare, RowText, ActiveText, IdleText, OwnIds

(* The messages whose ids the session forgets may be deleted. *)
Clearable(w) == w.r.ids \in Turns => w.rows[w.r.ids] = {}

LEMMA ClearedMeans ==
  ASSUME NEW w \in WorkItem, ChatTexts(w.handed, w.rows), Clearable(w)
  PROVE  /\ Cleared(w) \in WorkItem /\ ChatTexts(Cleared(w).handed, Cleared(w).rows) /\ Cleared(w).rows = w.rows
         /\ Cleared(w).r = [w.r EXCEPT !.ids = NoIds]
<1> DEFINE groups == [u \in 0..MaxMessages |-> IF u = w.r.ids THEN {} ELSE w.handed[u]]
<1>1. w.r \in SessionRow /\ w.handed \in [0..MaxMessages -> Texts] /\ w = [r |-> w.r, handed |-> w.handed, rows |-> w.rows]
  BY DEF WorkItem
<1>2. Cleared(w) = InMessages(w, groups, NoIds)
  BY DEF Cleared, WorkItem, InMessages
<1>3. \A u \in Turns : groups[u] = IF u = w.r.ids THEN {} ELSE w.handed[u]
  BY ConversationAssumption DEF Turns
<1> HIDE DEF groups
<1>4. Cleared(w).handed = groups /\ Cleared(w).rows = w.rows /\ Cleared(w).r = [w.r EXCEPT !.ids = NoIds]
  BY <1>1, <1>2 DEF InMessages
<1>5. ChatTexts(groups, w.rows)
  BY <1>3 DEF ChatTexts, Clearable, Own
<1> QED BY <1>4, <1>5, ClearedItem DEF Keeps

(* What a row of an item says about the turn of its text. *)
LEMMA StreamingTurn ==
  ASSUME TypeOK, NEW s, NEW w, NEW ns, ItemText(s, w, ns), w.r.pending # {}, TurnOf(w.r) # NoTurn
  PROVE  LET t == TurnOf(w.r) IN
         /\ t \in Turns /\ t \in Started /\ home[t].s = s /\ Own(t, Text(w.r))
         /\ IF w.r.active # NoTurn THEN w.rows[t] = {} /\ w.r.status # "DELIVERING_FINAL"
            ELSE w.r.status = "DELIVERING_FINAL" /\ t = w.r.completed /\ Full(t, Text(w.r))
                 /\ w.r.pending \subseteq w.r.streamed
<1>1. w.r \in SessionRow /\ RowText(s, w.r, w.rows, ns)
  BY DEF ItemText, WorkItem
<1>2. CASE w.r.active # NoTurn
  BY <1>1, <1>2, RowTypes DEF TurnOf, RowText, ActiveText, OwnTurns
<1>3. CASE w.r.active = NoTurn
  <2>1. TurnOf(w.r) = w.r.completed /\ w.r.completed \in Turns
    BY <1>1, <1>3, RowTypes DEF TurnOf
  <2>2. w.r.status = "DELIVERING_FINAL" /\ w.r.pending \subseteq w.r.streamed
    BY <1>1, <1>3, <2>1 DEF RowText, IdleText
  <2>3. w.r.streamed # {} /\ Text(w.r) = w.r.streamed
    BY <2>2 DEF Text
  <2>4. Full(w.r.completed, Text(w.r))
    BY <1>1, <1>3, <2>1, <2>2, <2>3 DEF RowText, IdleText
  <2> QED BY <1>1, <1>3, <2>1, <2>2, <2>4, FullIsOwn DEF RowText, OwnTurns
<1> QED BY <1>2, <1>3

(* The messages get a new text: they are the session's own.                *)
LEMMA NewTextOwn ==
  ASSUME TypeOK, NEW s, NEW w \in WorkItem, NEW text, NEW groups, NEW ids, NewText(w, text, groups, ids),
         NEW rs, \A t \in Turns : t # TurnOf(w.r) => rs[t] = w.rows[t],
         ChatTexts(w.handed, w.rows),
         TurnOf(w.r) \in Turns => Own(TurnOf(w.r), text) /\ (rs[TurnOf(w.r)] # {} => Full(TurnOf(w.r), text)),
         w.r.ids \in Turns /\ w.r.ids # TurnOf(w.r) => w.rows[w.r.ids] = {}
  PROVE  ChatTexts(groups, rs)
<1> SUFFICES ASSUME NEW t \in Turns
             PROVE  Own(t, groups[t]) /\ (rs[t] # {} => Full(t, groups[t]))
  BY DEF ChatTexts
<1>1. CASE t = TurnOf(w.r)
  BY <1>1 DEF NewText
<1>2. CASE t # TurnOf(w.r) /\ t = w.r.ids
  BY <1>2 DEF NewText, Own
<1>3. CASE t # TurnOf(w.r) /\ t # w.r.ids
  BY <1>3 DEF NewText, ChatTexts
<1> QED BY <1>1, <1>2, <1>3

LEMMA StreamedText ==
  ASSUME TypeOK, NEW s, NEW w, NEW ns, NEW known \in BOOLEAN, ItemText(s, w, ns)
  PROVE  ItemText(s, Streamed(w, known), ns) /\ RowsKept(s, w, Streamed(w, known))
<1>0. w \in WorkItem /\ w.r \in SessionRow /\ ChatTexts(w.handed, w.rows) /\ RowText(s, w.r, w.rows, ns)
      /\ Streamed(w, known) \in WorkItem
  BY StreamedItem DEF ItemText, WorkItem, Keeps
<1>1. CASE w.r.pending = {} /\ Streamed(w, known) = w
  BY <1>1 DEF RowsKept
<1>2. CASE (~w.r.attached \/ Text(w.r) = w.r.delivered) /\ Streamed(w, known) = Unread(w)
  <2>1. PICK q : q = [w.r EXCEPT !.pending = {}]
    OBVIOUS
  <2>2. /\ Unread(w).r = q /\ Unread(w).handed = w.handed /\ Unread(w).rows = w.rows
        /\ q.active = w.r.active /\ q.completed = w.r.completed /\ q.attached = w.r.attached /\ q.status = w.r.status
        /\ q.streamed = w.r.streamed /\ q.delivered = w.r.delivered /\ q.pending = {} /\ q.ids = w.r.ids
        /\ Text(q) = q.streamed /\ Text(q) \subseteq Text(w.r)
    BY <1>0, <2>1 DEF Unread, WorkItem, SessionRow, Text
  <2>3. ActiveText(q, w.rows, ns)
    <3> SUFFICES ASSUME w.r.active # NoTurn
                 PROVE  /\ q.status # "DELIVERING_FINAL" /\ Own(q.active, Text(q)) /\ w.rows[q.active] = {}
                        /\ q.attached /\ (Running(q.active) \/ EndsWith(q.active, ns)) => Collects(q, ns)
      BY <2>2 DEF ActiveText
    <3>1. q.status # "DELIVERING_FINAL" /\ Own(q.active, Text(q)) /\ w.rows[q.active] = {}
      BY <1>0, <2>2 DEF RowText, ActiveText, Own
    <3>2. ASSUME q.attached, Running(q.active) \/ EndsWith(q.active, ns)
          PROVE  Collects(q, ns)
      <4>1. Collects(w.r, ns) /\ Text(w.r) = w.r.delivered
        BY <1>0, <1>2, <2>2, <3>2 DEF RowText, ActiveText
      <4> QED BY <2>2, <4>1 DEF Collects, Text
    <3> QED BY <3>1, <3>2
  <2>4. IdleText(q)
    BY <1>0, <2>2 DEF RowText, IdleText
  <2>5. OwnIds(s, q, w.rows)
    <3>1. w.r.status = "DELIVERING_FINAL" /\ w.r.completed # NoTurn => Text(q) = Text(w.r)
      BY <1>0, <2>2 DEF RowText, IdleText, ActiveText, Text
    <3> QED BY <1>0, <2>2, <3>1 DEF RowText, OwnIds, OwnTurns
  <2>6. OwnTurns(s, q)
    BY <1>0, <2>2 DEF RowText, OwnTurns
  <2> QED BY <1>0, <1>2, <2>2, <2>3, <2>4, <2>5, <2>6 DEF ItemText, RowText, RowsKept
<1>3. ASSUME w.r.pending # {}, w.r.attached,
             NEW groups, NEW ids, NewText(w, Text(w.r), groups, ids),
             Streamed(w, known).handed = groups,
             Streamed(w, known).rows = IF w.r.status = "DELIVERING_FINAL" THEN QueuedRows(w) ELSE w.rows,
             Streamed(w, known).r = StreamRow(w.r, Text(w.r), ids)
      PROVE  ItemText(s, Streamed(w, known), ns) /\ RowsKept(s, w, Streamed(w, known))
  <2> DEFINE t == TurnOf(w.r)
             rs == Streamed(w, known).rows
  <2>0. PICK q : q = Streamed(w, known).r
    OBVIOUS
  <2>1. t # NoTurn => /\ t \in Turns /\ t \in Started /\ home[t].s = s /\ Own(t, Text(w.r))
                      /\ IF w.r.active # NoTurn THEN w.rows[t] = {} /\ w.r.status # "DELIVERING_FINAL"
                         ELSE w.r.status = "DELIVERING_FINAL" /\ t = w.r.completed /\ Full(t, Text(w.r))
                              /\ w.r.pending \subseteq w.r.streamed
    BY <1>3, StreamingTurn
  <2>2. /\ q.active = w.r.active /\ q.completed = w.r.completed /\ q.attached = w.r.attached /\ q.status = w.r.status
        /\ q.streamed = Text(w.r) /\ q.delivered = Text(w.r) /\ q.pending = {} /\ q.ids = ids /\ Text(q) = Text(w.r)
    <3>1. PICK text : text = Text(w.r)
      OBVIOUS
    <3>2. q = StreamRow(w.r, text, ids)
      BY <1>3, <2>0, <3>1
    <3>3. /\ q.active = w.r.active /\ q.completed = w.r.completed /\ q.attached = w.r.attached /\ q.status = w.r.status
          /\ q.streamed = text /\ q.delivered = text /\ q.pending = {} /\ q.ids = ids /\ Text(q) = text
      BY <1>0, <3>2, StreamRowIs
    <3> QED BY <3>1, <3>3
  <2>3. t = IF w.r.active # NoTurn THEN w.r.active ELSE w.r.completed
    BY DEF TurnOf
  <2>4. w.r.status = "DELIVERING_FINAL" => w.r.active = NoTurn /\ w.r.completed # NoTurn
    BY <1>0 DEF RowText, ActiveText, OwnTurns
  <2>5. \A u \in Turns : u # t => rs[u] = w.rows[u]
    BY <1>0, <1>3, <2>3, <2>4, QueuedRowsAre
  <2>6. w.r.active # NoTurn => rs = w.rows
    BY <1>3, <2>4
  <2>7. w.r.ids \in Turns /\ w.r.ids # t => w.rows[w.r.ids] = {}
    BY <1>0, <2>3, <2>4 DEF RowText, OwnIds
  <2>8. NoTurn \notin Turns /\ NoIds \notin Turns
    BY <1>0, RowTypes
  <2> HIDE DEF t, rs
  <2>9. ChatTexts(groups, rs)
    <3>1. t \in Turns => Own(t, Text(w.r)) /\ (rs[t] # {} => Full(t, Text(w.r)))
      BY <2>1, <2>3, <2>6, <2>8
    <3> QED BY <1>0, <1>3, <2>5, <2>7, <3>1, NewTextOwn DEF t
  <2>10. ActiveText(q, rs, ns)
    <3> SUFFICES ASSUME w.r.active # NoTurn
                 PROVE  /\ q.status # "DELIVERING_FINAL" /\ Own(q.active, Text(q)) /\ rs[q.active] = {}
                        /\ q.attached /\ (Running(q.active) \/ EndsWith(q.active, ns)) => Collects(q, ns)
      BY <2>2 DEF ActiveText
    <3>1. q.status # "DELIVERING_FINAL" /\ Own(q.active, Text(q)) /\ rs[q.active] = {}
      BY <2>1, <2>2, <2>3, <2>6
    <3>2. ASSUME q.attached, Running(q.active) \/ EndsWith(q.active, ns)
          PROVE  Collects(q, ns)
      <4>1. Collects(w.r, ns)
        BY <1>0, <2>2, <3>2 DEF RowText, ActiveText
      <4>2. Pieces(w.r.active) \subseteq Text(w.r) \cup Coming(w.r.active, ns)
        BY <1>3, <4>1 DEF Collects, Text
      <4> QED BY <2>2, <4>2 DEF Collects
    <3> QED BY <3>1, <3>2
  <2>11. IdleText(q)
    BY <2>1, <2>2, <2>3, <2>4 DEF IdleText
  <2>12. OwnIds(s, q, rs)
    <3> SUFFICES ASSUME ids \in Turns
                 PROVE  /\ ids \in Started /\ home[ids].s = s
                        /\ rs[ids] = {} \/ (q.status = "DELIVERING_FINAL" /\ q.completed = ids /\ Text(q) # {})
      BY <2>2 DEF OwnIds
    <3>1. ids = t
      BY <1>3, <2>8 DEF NewText, t
    <3>2. Text(w.r) # {}
      BY <1>3 DEF Text
    <3> QED BY <2>1, <2>2, <2>3, <2>6, <2>8, <3>1, <3>2
  <2>13. OwnTurns(s, q)
    BY <1>0, <2>2 DEF RowText, OwnTurns
  <2>14. RowsKept(s, w, Streamed(w, known))
    BY <2>1, <2>5, <2>8 DEF RowsKept, rs
  <2> QED BY <1>0, <1>3, <2>9, <2>10, <2>11, <2>12, <2>13, <2>14, <2>0 DEF ItemText, RowText, rs
<1> QED BY <1>0, <1>1, <1>2, <1>3, StreamedMeans

(* An item whose session has just ended a turn, or delivers its answer.    *)
Finishing(s, w) ==
    /\ w \in WorkItem /\ ChatTexts(w.handed, w.rows)
    /\ OwnIds(s, w.r, w.rows) /\ OwnTurns(s, w.r)
    /\ w.r.active = NoTurn /\ w.r.completed # NoTurn
    /\ w.r.pending # {} /\ w.r.attached => Full(w.r.completed, Text(w.r))
    /\ w.r.status = "DELIVERING_FINAL" => IdleText(w.r)

LEMMA FinalizedText ==
  ASSUME TypeOK, NEW s, NEW w, NEW ns, NEW known \in BOOLEAN, Finishing(s, w)
  PROVE  ItemText(s, Finalized(w, known), ns) /\ RowsKept(s, w, Finalized(w, known))
<1>0. /\ w \in WorkItem /\ w.r \in SessionRow /\ ChatTexts(w.handed, w.rows)
      /\ OwnIds(s, w.r, w.rows) /\ OwnTurns(s, w.r) /\ w.r.active = NoTurn /\ w.r.completed # NoTurn
      /\ Finalized(w, known) \in WorkItem
      /\ w.r.completed \in Turns /\ w.r.completed \in Started /\ home[w.r.completed].s = s
      /\ TurnOf(w.r) = w.r.completed
  <2>1. w \in WorkItem /\ w.r \in SessionRow /\ w.r.completed # NoTurn /\ w.r.active = NoTurn /\ OwnTurns(s, w.r)
    BY DEF Finishing, WorkItem
  <2>2. w.r.completed \in Turns /\ w.r.completed \in Started /\ home[w.r.completed].s = s
    BY <2>1, RowTypes DEF OwnTurns
  <2> QED BY <2>1, <2>2, FinalizedItem DEF Finishing, Keeps, TurnOf
<1>1. CASE w.r.pending = {} /\ Finalized(w, known) = w
  <2>1. IdleText(w.r)
    BY <1>1 DEF Finishing, IdleText
  <2> QED BY <1>0, <1>1, <2>1 DEF ItemText, RowText, ActiveText, RowsKept
<1>2. CASE ~w.r.attached /\ Finalized(w, known) = Unread(w)
  <2>1. PICK q : q = [w.r EXCEPT !.pending = {}]
    OBVIOUS
  <2>2. /\ Unread(w).r = q /\ Unread(w).handed = w.handed /\ Unread(w).rows = w.rows
        /\ q.active = NoTurn /\ q.completed = w.r.completed /\ q.status = w.r.status
        /\ q.streamed = w.r.streamed /\ q.pending = {} /\ q.ids = w.r.ids /\ Text(q) = w.r.streamed
    BY <1>0, <2>1 DEF Unread, WorkItem, SessionRow, Text
  <2>3. ActiveText(q, w.rows, ns) /\ OwnTurns(s, q)
    BY <1>0, <2>2 DEF ActiveText, OwnTurns
  <2>4. w.r.status = "DELIVERING_FINAL" =>
          w.r.pending \subseteq w.r.streamed /\ (w.r.streamed # {} => Full(w.r.completed, w.r.streamed))
    BY <1>0 DEF Finishing, IdleText
  <2>5. IdleText(q)
    BY <2>2, <2>4 DEF IdleText
  <2>6. OwnIds(s, q, w.rows)
    <3>1. w.r.status = "DELIVERING_FINAL" => Text(w.r) = w.r.streamed
      BY <2>4 DEF Text
    <3> QED BY <1>0, <2>2, <3>1 DEF OwnIds
  <2> QED BY <1>0, <1>2, <2>2, <2>3, <2>5, <2>6 DEF ItemText, RowText, RowsKept
<1>3. CASE w.r.ids = NoIds /\ Finalized(w, known) = Blanked(w)
  <2>1. PICK q : q = Blank(w.r)
    OBVIOUS
  <2>2. /\ Blanked(w).r = q /\ Blanked(w).handed = w.handed /\ Blanked(w).rows = w.rows
        /\ q.active = NoTurn /\ q.completed = w.r.completed /\ q.status = w.r.status
        /\ q.streamed = {} /\ q.pending = {} /\ q.ids = NoIds
    BY <1>0, <1>3, <2>1 DEF Blanked, WorkItem, SessionRow, Blank
  <2>3. Bare(s, q, w.rows)
    BY <1>0, <2>2, RowTypes DEF Bare, OwnTurns
  <2> QED BY <1>0, <1>3, <2>2, <2>3, BareText DEF ItemText, RowsKept
<1>4. ASSUME w.r.pending # {}, w.r.attached,
             NEW groups, NEW ids, NewText(w, Text(w.r), groups, ids),
             Finalized(w, known).handed = groups,
             Finalized(w, known).rows = QueuedRows(w),
             Finalized(w, known).r = FinalRow(w.r, Text(w.r), ids)
      PROVE  ItemText(s, Finalized(w, known), ns) /\ RowsKept(s, w, Finalized(w, known))
  <2>0. PICK q : q = Finalized(w, known).r
    OBVIOUS
  <2>1. Full(w.r.completed, Text(w.r)) /\ Own(w.r.completed, Text(w.r)) /\ Text(w.r) # {}
    BY <1>0, <1>4, FullIsOwn DEF Finishing, Text
  <2>2. /\ q.active = NoTurn /\ q.completed = w.r.completed /\ q.status = "DELIVERING_FINAL"
        /\ q.streamed = Text(w.r) /\ q.pending = w.r.pending /\ q.ids = ids /\ Text(q) = Text(w.r)
    <3>1. PICK text : text = Text(w.r)
      OBVIOUS
    <3>2. q = FinalRow(w.r, text, ids)
      BY <1>4, <2>0, <3>1
    <3>3. text \cup w.r.pending = text
      BY <3>1 DEF Text
    <3>4. /\ q.active = w.r.active /\ q.completed = w.r.completed /\ q.status = "DELIVERING_FINAL"
          /\ q.streamed = text /\ q.pending = w.r.pending /\ q.ids = ids /\ Text(q) = text \cup w.r.pending
      BY <1>0, <3>2, FinalRowIs
    <3> QED BY <1>0, <3>1, <3>3, <3>4
  <2>3. \A u \in Turns : u # TurnOf(w.r) => QueuedRows(w)[u] = w.rows[u]
    BY <1>0, QueuedRowsAre
  <2>4. w.r.ids \in Turns /\ w.r.ids # TurnOf(w.r) => w.rows[w.r.ids] = {}
    BY <1>0 DEF OwnIds
  <2>5. ChatTexts(groups, QueuedRows(w))
    BY <1>0, <1>4, <2>1, <2>3, <2>4, NewTextOwn
  <2>6. RowText(s, q, QueuedRows(w), ns)
    <3>1. ids \in Turns => ids = w.r.completed
      BY <1>0, <1>4, RowTypes DEF NewText
    <3>2. OwnIds(s, q, QueuedRows(w))
      BY <1>0, <2>1, <2>2, <3>1 DEF OwnIds
    <3>3. IdleText(q)
      BY <2>1, <2>2 DEF IdleText, Text
    <3> QED BY <1>0, <2>2, <3>2, <3>3 DEF RowText, ActiveText, OwnTurns
  <2>7. RowsKept(s, w, Finalized(w, known))
    BY <1>0, <1>4, <2>3 DEF RowsKept
  <2> QED BY <1>0, <1>4, <2>0, <2>5, <2>6, <2>7 DEF ItemText
<1> QED BY <1>0, <1>1, <1>2, <1>3, <1>4, FinalizedMeans

(* An item whose session's turn has just ended.                            *)
Ending(s, w) ==
    /\ w \in WorkItem /\ ChatTexts(w.handed, w.rows)
    /\ OwnTurns(s, w.r)
    /\ w.r.ids \in Turns => w.r.ids \in Started /\ home[w.r.ids].s = s /\ w.rows[w.r.ids] = {}
    /\ w.r.active = NoTurn /\ w.r.completed # NoTurn /\ w.r.status = "ACTIVE"
    /\ w.r.attached /\ Text(w.r) # {} => Full(w.r.completed, Text(w.r))

LEMMA ConcludedText ==
  ASSUME TypeOK, NEW s, NEW w, NEW ns, NEW known \in BOOLEAN, Ending(s, w)
  PROVE  ItemText(s, Concluded(w, known), ns) /\ RowsKept(s, w, Concluded(w, known))
<1>0. /\ w \in WorkItem /\ w.r \in SessionRow /\ ChatTexts(w.handed, w.rows) /\ OwnTurns(s, w.r)
      /\ w.r.active = NoTurn /\ w.r.completed # NoTurn /\ w.r.status = "ACTIVE" /\ Clearable(w)
      /\ OwnIds(s, w.r, w.rows)
  BY DEF Ending, WorkItem, Clearable, OwnIds
<1>1. CASE w.r.pending # {}
  <2>1. Finishing(s, w)
    BY <1>0, <1>1 DEF Ending, Finishing, Text
  <2>2. Concluded(w, known) = Finalized(w, known)
    BY <1>1 DEF Concluded
  <2> QED BY <2>1, <2>2, FinalizedText
<1>2. CASE w.r.pending = {} /\ w.r.streamed # {} /\ w.r.ids # NoIds
  <2>1. PICK v : v = Pending(w, w.r.streamed)
    OBVIOUS
  <2>2. Concluded(w, known) = Finalized(v, known)
    BY <1>2, <2>1 DEF Concluded, Pending
  <2>3. /\ v \in WorkItem /\ v.handed = w.handed /\ v.rows = w.rows
        /\ v.r = [w.r EXCEPT !.pending = w.r.streamed]
    BY <1>0, <2>1, TextOf DEF Pending, WorkItem, SessionRow
  <2>4. /\ v.r.active = NoTurn /\ v.r.completed = w.r.completed /\ v.r.status = "ACTIVE" /\ v.r.attached = w.r.attached
        /\ v.r.ids = w.r.ids /\ Text(v.r) = w.r.streamed /\ Text(w.r) = w.r.streamed
    BY <1>0, <1>2, <2>3 DEF SessionRow, Text
  <2>5. Finishing(s, v)
    <3>1. v.r.attached => Full(v.r.completed, Text(v.r))
      BY <1>2, <2>4 DEF Ending
    <3>2. OwnIds(s, v.r, v.rows) /\ OwnTurns(s, v.r)
      BY <1>0, <2>3, <2>4 DEF OwnIds, OwnTurns
    <3> QED BY <1>0, <2>3, <2>4, <3>1, <3>2 DEF Finishing
  <2>6. RowsKept(s, w, v)
    BY <2>3 DEF RowsKept
  <2> QED BY <2>2, <2>5, <2>6, FinalizedText, RowsKeptOn
<1>3. CASE w.r.pending = {} /\ ~(w.r.streamed # {} /\ w.r.ids # NoIds)
  <2>1. PICK n : n = Cleared(w)
    OBVIOUS
  <2>2. n \in WorkItem /\ ChatTexts(n.handed, n.rows) /\ n.rows = w.rows /\ n.r = [w.r EXCEPT !.ids = NoIds]
    BY <1>0, <2>1, ClearedMeans
  <2>3. PICK text \in Texts : text = IF w.r.streamed # {} THEN w.r.streamed ELSE n.r.delivered
    BY <1>0, <2>2, TextOf DEF WorkItem
  <2>4. Concluded(w, known) = Silenced(n, text)
    <3>1. Concluded(w, known) = [n EXCEPT !.r.streamed = {}, !.r.phase = "none",
                                          !.r.delivered = IF w.r.streamed # {} THEN w.r.streamed ELSE @]
      BY <1>3, <2>1 DEF Concluded
    <3> QED BY <2>2, <2>3, <3>1 DEF Silenced, WorkItem, SessionRow
  <2>5. PICK v : v = Silenced(n, text)
    OBVIOUS
  <2>6. /\ v.handed = n.handed /\ v.rows = w.rows /\ v.r.active = NoTurn /\ v.r.completed = w.r.completed
        /\ v.r.status = "ACTIVE" /\ v.r.pending = {} /\ v.r.streamed = {} /\ v.r.ids = NoIds
    BY <1>0, <1>3, <2>2, <2>5 DEF Silenced, WorkItem, SessionRow
  <2>7. Bare(s, v.r, v.rows)
    BY <1>0, <2>6, RowTypes DEF Bare, OwnTurns
  <2>8. v \in WorkItem
    BY <1>0, <2>4, <2>5, ConcludedItem DEF Keeps
  <2>9. RowsKept(s, w, v)
    BY <2>6 DEF RowsKept
  <2> QED BY <2>2, <2>4, <2>5, <2>6, <2>7, <2>8, <2>9, BareText DEF ItemText
<1> QED BY <1>1, <1>2, <1>3

(* Fewer rows are waited for. *)
LEMMA WithoutFailedMeans ==
  ASSUME NEW w \in WorkItem, NEW v, v = WithoutFailed(w)
  PROVE  /\ v \in WorkItem /\ v.handed = w.handed /\ v.r = w.r
         /\ \A t \in Turns : v.rows[t] \subseteq w.rows[t] /\ (t # w.r.completed => v.rows[t] = w.rows[t])
<1>1. v = [w EXCEPT !.rows = [w.rows EXCEPT ![w.r.completed] = @ \ Errors(@)]]
  BY DEF WithoutFailed, WorkItem
<1>2. v.handed = w.handed /\ v.r = w.r /\ v.rows = [w.rows EXCEPT ![w.r.completed] = @ \ Errors(@)]
  BY <1>1 DEF WorkItem
<1> QED BY <1>2, WithoutFailedItem DEF Keeps, WorkItem

LEMMA DeliveredText ==
  ASSUME TypeOK, NEW s, NEW w, NEW ns, ItemText(s, w, ns), w.r.status = "DELIVERING_FINAL"
  PROVE  /\ ItemText(s, Delivered(w), ns) /\ RowsKept(s, w, Delivered(w))
         /\ \A known \in BOOLEAN : ItemText(s, Resent(w, known), ns) /\ RowsKept(s, w, Resent(w, known))
<1>0. /\ w \in WorkItem /\ w.r \in SessionRow /\ ChatTexts(w.handed, w.rows)
      /\ OwnIds(s, w.r, w.rows) /\ OwnTurns(s, w.r) /\ IdleText(w.r)
      /\ w.r.active = NoTurn /\ w.r.completed \in Turns /\ home[w.r.completed].s = s /\ w.r.completed # NoTurn
  <2>1. w \in WorkItem /\ w.r \in SessionRow /\ RowText(s, w.r, w.rows, ns) /\ ChatTexts(w.handed, w.rows)
    BY DEF ItemText, WorkItem
  <2> QED BY <2>1, RowTypes DEF RowText, ActiveText, OwnTurns
<1>1. PICK n : n = WithoutFailed(w)
  OBVIOUS
<1>2. /\ n \in WorkItem /\ n.handed = w.handed /\ n.r = w.r
      /\ \A t \in Turns : n.rows[t] \subseteq w.rows[t] /\ (t # w.r.completed => n.rows[t] = w.rows[t])
  BY <1>0, <1>1, WithoutFailedMeans
<1>3. ChatTexts(n.handed, n.rows) /\ RowsKept(s, w, n) /\ OwnIds(s, n.r, n.rows)
  <2>1. ChatTexts(n.handed, n.rows)
    BY <1>0, <1>2 DEF ChatTexts
  <2>2. OwnIds(s, n.r, n.rows)
    BY <1>0, <1>2 DEF OwnIds
  <2> QED BY <1>0, <1>2, <2>1, <2>2 DEF RowsKept
<1>4. ASSUME NEW v \in WorkItem, v.handed = n.handed, v.rows = n.rows, v.r.active = NoTurn, v.r.completed = w.r.completed,
             v.r.pending = {}, v.r.streamed = {}, v.r.ids = NoIds
      PROVE  ItemText(s, v, ns) /\ RowsKept(s, w, v)
  <2>1. Bare(s, v.r, v.rows)
    BY <1>0, <1>4, RowTypes DEF Bare, OwnTurns
  <2> QED BY <1>3, <1>4, <2>1, BareText DEF ItemText, RowsKept
<1>5. ItemText(s, Delivered(w), ns) /\ RowsKept(s, w, Delivered(w))
  <2>1. PICK v : v = Delivered(w)
    OBVIOUS
  <2>2. v \in WorkItem
    BY <1>0, <2>1, DeliveredItem DEF Keeps
  <2>3. PICK text \in Texts : text = IF w.r.pending # {} THEN w.r.pending ELSE w.r.streamed
    BY <1>0, TextOf
  <2>4. v = Answered(n, text)
    BY <1>1, <2>1, <2>3 DEF Delivered, Answered, AnswerRow
  <2>5. /\ v.handed = n.handed /\ v.rows = n.rows /\ v.r.active = NoTurn /\ v.r.completed = w.r.completed
        /\ v.r.pending = {} /\ v.r.streamed = {} /\ v.r.ids = NoIds
    BY <1>0, <1>2, <2>4 DEF Answered, AnswerRow, Blank, WorkItem, SessionRow
  <2> QED BY <1>4, <2>1, <2>2, <2>5
<1>6. ASSUME NEW known \in BOOLEAN
      PROVE  ItemText(s, Resent(w, known), ns) /\ RowsKept(s, w, Resent(w, known))
  <2>1. CASE w.r.topic
    <3>1. PICK v : v = ToChat(n)
      OBVIOUS
    <3>2. Resent(w, known) = Finalized(v, known)
      BY <1>1, <2>1, <3>1 DEF Resent, ToChat
    <3>3. /\ v \in WorkItem /\ v.handed = n.handed /\ v.rows = n.rows
          /\ v.r.active = NoTurn /\ v.r.completed = w.r.completed /\ v.r.status = w.r.status
          /\ v.r.ids = w.r.ids /\ v.r.pending = w.r.pending /\ v.r.streamed = w.r.streamed
      <4>1. PICK q : q = [n.r EXCEPT !.topic = FALSE]
        OBVIOUS
      <4>2. q \in SessionRow /\ q.active = w.r.active /\ q.completed = w.r.completed /\ q.status = w.r.status
            /\ q.ids = w.r.ids /\ q.pending = w.r.pending /\ q.streamed = w.r.streamed
        BY <1>0, <1>2, <4>1 DEF SessionRow
      <4>3. v = [n EXCEPT !.r = q]
        BY <3>1, <4>1 DEF ToChat
      <4> QED BY <1>0, <1>2, <4>2, <4>3 DEF WorkItem
    <3>4. OwnIds(s, v.r, v.rows) /\ OwnTurns(s, v.r) /\ IdleText(v.r)
      BY <1>0, <1>2, <1>3, <3>3 DEF OwnIds, OwnTurns, IdleText, Text
    <3>5. v.r.pending # {} => Full(v.r.completed, Text(v.r))
      BY <1>0, <3>3 DEF IdleText, Text
    <3>6. Finishing(s, v)
      BY <1>0, <1>3, <3>3, <3>4, <3>5 DEF Finishing
    <3>7. RowsKept(s, w, v)
      BY <1>3, <3>3 DEF RowsKept
    <3> QED BY <3>2, <3>6, <3>7, FinalizedText, RowsKeptOn
  <2>2. CASE ~w.r.topic
    <3>1. PICK v : v = Abandoned(n)
      OBVIOUS
    <3>2. Resent(w, known) = v
      BY <1>1, <2>2, <3>1 DEF Resent
    <3>3. v = [n EXCEPT !.r = GivenUp(@)]
      BY <3>1 DEF Abandoned, GivenUp
    <3>4. /\ v.handed = n.handed /\ v.rows = n.rows /\ v.r.active = NoTurn /\ v.r.completed = w.r.completed
          /\ v.r.pending = {} /\ v.r.streamed = {} /\ v.r.ids = NoIds
      BY <1>0, <1>2, <3>3 DEF GivenUp, Blank, WorkItem, SessionRow
    <3>5. v \in WorkItem
      BY <1>0, <3>2, ResentItem DEF Keeps
    <3> QED BY <1>4, <3>2, <3>4, <3>5
  <2> QED BY <2>1, <2>2
<1> QED BY <1>5, <1>6

LEMMA EmptiedText ==
  ASSUME TypeOK, NEW s, NEW w, NEW ns, ItemText(s, w, ns), w.r.active = NoTurn
  PROVE  /\ Emptied(w) \in WorkItem /\ ChatTexts(Emptied(w).handed, Emptied(w).rows)
         /\ Emptied(w).rows = w.rows
         /\ Emptied(w).r = [Blank(w.r) EXCEPT !.ids = NoIds]
<1>0. w \in WorkItem /\ w.r \in SessionRow /\ ChatTexts(w.handed, w.rows) /\ OwnIds(s, w.r, w.rows)
  BY DEF ItemText, RowText, WorkItem
<1>1. PICK n : n = IF Preserved(w.r) THEN NoLonger(w) ELSE Cleared(w)
  OBVIOUS
<1>2. n \in WorkItem /\ ChatTexts(n.handed, n.rows) /\ n.rows = w.rows /\ n.r = [w.r EXCEPT !.ids = NoIds]
  <2>1. CASE Preserved(w.r)
    <3>1. n = NoLonger(w)
      BY <1>1, <2>1
    <3>2. n.handed = w.handed /\ n.rows = w.rows /\ n.r = [w.r EXCEPT !.ids = NoIds] /\ n \in WorkItem
      BY <1>0, <3>1 DEF NoLonger, WorkItem, SessionRow
    <3> QED BY <1>0, <3>2
  <2>2. CASE ~Preserved(w.r)
    <3>1. Clearable(w)
      BY <1>0, <2>2, RowTypes DEF Clearable, OwnIds, Preserved
    <3> QED BY <1>0, <1>1, <2>2, <3>1, ClearedMeans
  <2> QED BY <2>1, <2>2
<1>3. Emptied(w) = Blanked(n)
  BY <1>1 DEF Emptied, NoLonger, Blanked
<1>4. Emptied(w).handed = n.handed /\ Emptied(w).rows = n.rows /\ Emptied(w).r = Blank(n.r)
  BY <1>2, <1>3 DEF Blanked, WorkItem
<1>5. Blank([w.r EXCEPT !.ids = NoIds]) = [Blank(w.r) EXCEPT !.ids = NoIds]
  BY <1>0 DEF Blank, SessionRow
<1>6. Emptied(w) \in WorkItem
  BY <1>0, EmptiedItem DEF Keeps
<1> QED BY <1>2, <1>4, <1>5, <1>6

-----------------------------------------------------------------------------
(* The notifications.                                                      *)

LEMMA TailOfNotes ==
  ASSUME NEW ns \in Seq(Notices), ns # <<>>
  PROVE  /\ Len(ns) \in Nat /\ DOMAIN ns = 1..Len(ns) /\ 1 \in DOMAIN ns /\ ns[1] = Head(ns) /\ Head(ns) \in Notices
         /\ DOMAIN Tail(ns) = 1..(Len(ns) - 1) /\ Tail(ns) \in Seq(Notices)
         /\ \A i \in DOMAIN Tail(ns) : Tail(ns)[i] = ns[i + 1] /\ i + 1 \in DOMAIN ns
         /\ \A i \in DOMAIN ns : i = 1 \/ (i - 1 \in DOMAIN Tail(ns) /\ Tail(ns)[i - 1] = ns[i])
<1>1. Len(ns) \in Nat /\ DOMAIN ns = 1..Len(ns) /\ Len(ns) > 0
  BY EmptySeq, LenProperties
<1>2. Tail(ns) \in Seq(Notices) /\ Len(Tail(ns)) = Len(ns) - 1 /\ \A i \in 1..Len(Tail(ns)) : Tail(ns)[i] = ns[i + 1]
  BY HeadTailProperties
<1>3. Head(ns) = ns[1] /\ Head(ns) \in Notices
  BY HeadTailProperties, <1>1
<1>4. DOMAIN Tail(ns) = 1..(Len(ns) - 1)
  BY <1>2, LenProperties
<1>5. \A i \in DOMAIN ns : i = 1 \/ (i - 1 \in DOMAIN Tail(ns) /\ Tail(ns)[i - 1] = ns[i])
  <2> SUFFICES ASSUME NEW i \in DOMAIN ns, i # 1
               PROVE  i - 1 \in DOMAIN Tail(ns) /\ Tail(ns)[i - 1] = ns[i]
    OBVIOUS
  <2>1. i \in Int /\ i >= 2 /\ i <= Len(ns)
    BY <1>1
  <2>2. i - 1 \in 1..Len(Tail(ns)) /\ (i - 1) + 1 = i
    BY <1>1, <1>2, <2>1
  <2>3. Tail(ns)[i - 1] = ns[(i - 1) + 1]
    BY <1>2, <2>2
  <2> QED BY <1>2, <1>4, <2>2, <2>3
<1> QED BY <1>1, <1>2, <1>3, <1>4, <1>5

LEMMA TextsOfTail ==
  ASSUME NEW ns \in Seq(Notices), ns # <<>>, NEW t
  PROVE  /\ Coming(t, ns) \subseteq Coming(t, Tail(ns)) \cup (IF Head(ns).turn = t THEN Head(ns).text ELSE {})
         /\ NoMore(t, ns) => NoMore(t, Tail(ns))
         /\ EndsWith(t, Tail(ns)) => EndsWith(t, ns)
<1>1. ASSUME NEW x, x \in Coming(t, ns), x \notin Coming(t, Tail(ns))
      PROVE  Head(ns).turn = t /\ x \in Head(ns).text
  <2>1. PICK i \in DOMAIN ns : ns[i].turn = t /\ x \in ns[i].text
    BY <1>1 DEF Coming
  <2>2. i = 1 \/ (i - 1 \in DOMAIN Tail(ns) /\ Tail(ns)[i - 1] = ns[i])
    BY TailOfNotes
  <2>3. i = 1
    BY <1>1, <2>1, <2>2 DEF Coming
  <2> QED BY <2>1, <2>3, TailOfNotes
<1>2. NoMore(t, ns) => NoMore(t, Tail(ns))
  BY TailOfNotes DEF NoMore
<1>3. EndsWith(t, Tail(ns)) => EndsWith(t, ns)
  BY TailOfNotes DEF EndsWith
<1> QED BY <1>1, <1>2, <1>3

LEMMA NotesOwnTail ==
  ASSUME NEW ns \in Seq(Notices), ns # <<>>, NotesOwn(ns)
  PROVE  /\ NotesOwn(Tail(ns)) /\ Head(ns).text \subseteq Pieces(Head(ns).turn)
         /\ Head(ns).kind = "message" =>
              /\ ran[Head(ns).turn] \in {"spoken", "over"} /\ Head(ns).text = Pieces(Head(ns).turn)
         /\ \A i \in DOMAIN Tail(ns) : Follow(Head(ns), Tail(ns)[i])
<1>1. ASSUME NEW i \in DOMAIN Tail(ns) PROVE Follow(Head(ns), Tail(ns)[i])
  <2>1. i + 1 \in DOMAIN ns /\ 1 < i + 1 /\ Tail(ns)[i] = ns[i + 1] /\ 1 \in DOMAIN ns /\ Head(ns) = ns[1]
    BY TailOfNotes
  <2> QED BY <2>1 DEF NotesOwn
<1>2. ASSUME NEW i \in DOMAIN Tail(ns), NEW j \in DOMAIN Tail(ns), i < j PROVE Follow(Tail(ns)[i], Tail(ns)[j])
  <2>1. i + 1 \in DOMAIN ns /\ j + 1 \in DOMAIN ns /\ Tail(ns)[i] = ns[i + 1] /\ Tail(ns)[j] = ns[j + 1]
        /\ i + 1 < j + 1
    BY <1>2, TailOfNotes
  <2> QED BY <2>1 DEF NotesOwn
<1>3. \A i \in DOMAIN Tail(ns) :
        /\ Tail(ns)[i].text \subseteq Pieces(Tail(ns)[i].turn)
        /\ Tail(ns)[i].kind = "message" =>
             ran[Tail(ns)[i].turn] \in {"spoken", "over"} /\ Tail(ns)[i].text = Pieces(Tail(ns)[i].turn)
  BY TailOfNotes DEF NotesOwn
<1>4. NotesOwn(Tail(ns))
  BY <1>2, <1>3 DEF NotesOwn
<1> QED BY <1>1, <1>4, TailOfNotes DEF NotesOwn

(* After its message a turn only ends, after its end nothing comes.        *)
LEMMA NothingAfter ==
  ASSUME TypeOK, EndsAreTrue, NotesOwn(notes), notes # <<>>, Head(notes).kind # "delta"
  PROVE  /\ NoMore(Head(notes).turn, Tail(notes))
         /\ Head(notes).kind \in EndKinds =>
              Coming(Head(notes).turn, notes) = Head(notes).text /\ NoMore(Head(notes).turn, notes)
<1> DEFINE t == Head(notes).turn
<1>0. notes \in Seq(Notices) /\ Head(notes) \in Notices
  BY TailOfNotes DEF TypeOK
<1>1. \A i \in DOMAIN Tail(notes) : Follow(Head(notes), Tail(notes)[i])
  BY <1>0, NotesOwnTail
<1>2. Head(notes).kind \in {"message", "completed", "failed"}
  BY <1>0 DEF Notices
<1>3. \A i \in DOMAIN Tail(notes) : Tail(notes)[i].turn = t =>
          Tail(notes)[i].kind \in EndKinds /\ Head(notes).kind = "message"
  BY <1>1, <1>2 DEF Follow
<1>4. ran[t] # "running"
  <2>1. Head(notes).kind = "message" => ran[t] \in {"spoken", "over"}
    BY <1>0, NotesOwnTail
  <2>2. Head(notes).kind \in EndKinds => ran[t] = "over"
    BY <1>0, TailOfNotes DEF EndsAreTrue
  <2> QED BY <1>2, <2>1, <2>2 DEF EndKinds
<1>5. NoMore(t, Tail(notes))
  BY <1>3, <1>4 DEF NoMore
<1>6. ASSUME Head(notes).kind \in EndKinds
      PROVE  Coming(t, notes) = Head(notes).text /\ NoMore(t, notes)
  <2>1. \A i \in DOMAIN notes : notes[i].turn = t => i = 1
    BY <1>0, <1>3, <1>6, TailOfNotes DEF EndKinds
  <2>2. Coming(t, notes) = Head(notes).text
    <3>1. \A x : x \in Coming(t, notes) <=> \E i \in DOMAIN notes : notes[i].turn = t /\ x \in notes[i].text
      BY DEF Coming
    <3>2. \A x : x \in Coming(t, notes) <=> x \in Head(notes).text
      BY <1>0, <2>1, <3>1, TailOfNotes
    <3> QED BY <3>2
  <2>3. NoMore(t, notes)
    BY <1>0, <1>4, <1>6, <2>1, TailOfNotes DEF NoMore
  <2> QED BY <2>2, <2>3
<1> QED BY <1>5, <1>6

-----------------------------------------------------------------------------
(* From one state to the next.                                             *)

Grows ==
    /\ \A t \in Turns : /\ said[t] <= said'[t]
                        /\ ran[t] # "running" => said'[t] = said[t]
                        /\ ran[t] = "over" => ran'[t] = "over"
                        /\ ran[t] = "spoken" => ran'[t] \in {"spoken", "over"}
    /\ \A t \in Started : t \in Started' /\ home'[t] = home[t]

LEMMA GrowsText ==
  ASSUME TypeOK, TypeOK', Grows, NEW t \in Turns, NEW text
  PROVE  /\ Own(t, text) => Own(t, text)'
         /\ Full(t, text) => Full(t, text)'
         /\ text \subseteq Pieces(t) => text \subseteq Pieces(t)'
         /\ ran[t] # "running" => Pieces(t)' = Pieces(t)
<1>1. said[t] \in Nat /\ said'[t] \in Nat /\ said[t] <= said'[t]
  BY SaidTypes, ConversationAssumption DEF TypeOK, Grows
<1>2. Pieces(t) \subseteq Pieces(t)'
  BY <1>1 DEF Pieces
<1>3. ran[t] # "running" => said'[t] = said[t] /\ Pieces(t)' = Pieces(t)
  BY DEF Pieces, Grows
<1>4. ran[t] = "over" => ran'[t] = "over" /\ said'[t] = said[t]
  BY DEF Grows
<1> QED BY <1>2, <1>3, <1>4 DEF Own, Full

LEMMA ChatNext ==
  ASSUME TypeOK, TypeOK', Grows, ChatTexts(handed', rows')
  PROVE  ChatTexts(handed, rows)'
<1> SUFFICES ASSUME NEW t \in Turns
             PROVE  Own(t, handed[t])' /\ (rows'[t] # {} => Full(t, handed[t])')
  BY DEF ChatTexts
<1>1. PICK text : text = handed'[t]
  OBVIOUS
<1>2. Own(t, text) /\ (rows'[t] # {} => Full(t, text))
  BY <1>1 DEF ChatTexts
<1>3. Own(t, text)' /\ (rows'[t] # {} => Full(t, text)')
  BY <1>2, GrowsText
<1> QED BY <1>1, <1>3 DEF Own, Full

(* What a session collects of a turn that goes on. *)
Listens(r) == r.active # NoTurn /\ r.attached /\ (Running(r.active)' \/ EndsWith(r.active, notes'))
                => Collects(r, notes)'

LEMMA RowNext ==
  ASSUME TypeOK, TypeOK', Grows, NEW q \in Sessions, NEW r, r = sess'[q], NEW ns,
         RowText(q, r, rows', ns), Listens(r)
  PROVE  RowText(q, sess[q], rows, notes)'
<1>0. r \in SessionRow
  BY DEF TypeOK
<1>1. ActiveText(r, rows, notes)'
  <2> SUFFICES ASSUME r.active # NoTurn
               PROVE  /\ r.status # "DELIVERING_FINAL" /\ Own(r.active, Text(r))' /\ rows'[r.active] = {}
                      /\ r.attached /\ (Running(r.active)' \/ EndsWith(r.active, notes)') => Collects(r, notes)'
    BY DEF ActiveText
  <2>1. r.active \in Turns /\ r.status # "DELIVERING_FINAL" /\ Own(r.active, Text(r)) /\ rows'[r.active] = {}
    BY <1>0, RowTypes DEF RowText, ActiveText
  <2>2. PICK text : text = Text(r)
    OBVIOUS
  <2>3. Own(r.active, text)'
    BY <2>1, <2>2, GrowsText
  <2>4. EndsWith(r.active, notes)' <=> EndsWith(r.active, notes')
    BY DEF EndsWith
  <2> QED BY <2>1, <2>2, <2>3, <2>4 DEF Listens, Own, Text
<1>2. IdleText(r)'
  <2> SUFFICES ASSUME r.active = NoTurn, r.completed # NoTurn
               PROVE  IF r.status = "DELIVERING_FINAL"
                      THEN r.pending \subseteq r.streamed /\ (r.streamed # {} => Full(r.completed, r.streamed)')
                      ELSE r.pending = {}
    BY DEF IdleText
  <2>1. r.completed \in Turns
    BY <1>0, RowTypes
  <2>2. PICK text : text = r.streamed
    OBVIOUS
  <2>3. Full(r.completed, text) => Full(r.completed, text)'
    BY <2>1, GrowsText
  <2> QED BY <2>2, <2>3 DEF RowText, IdleText, Full
<1>3. OwnIds(q, r, rows)'
  BY DEF RowText, OwnIds, Grows, Text
<1>4. OwnTurns(q, r)'
  BY DEF RowText, OwnTurns, Grows
<1> QED BY <1>1, <1>2, <1>3, <1>4 DEF RowText, ActiveText, IdleText, OwnIds, OwnTurns, Collects, Text

LEMMA NotesNext ==
  ASSUME TypeOK, TypeOK', Grows, NotesOwn(notes')
  PROVE  NotesOwn(notes)'
<1>1. notes' \in Seq(Notices)
  BY DEF TypeOK
<1>2. ASSUME NEW n \in Notices, NEW i \in DOMAIN notes', n = notes'[i]
      PROVE  /\ n.text \subseteq Pieces(n.turn)'
             /\ n.kind = "message" => ran'[n.turn] \in {"spoken", "over"} /\ n.text = Pieces(n.turn)'
  <2>1. n.turn \in Turns /\ n.text \subseteq Pieces(n.turn)
        /\ (n.kind = "message" => ran[n.turn] \in {"spoken", "over"} /\ n.text = Pieces(n.turn))
    BY <1>2 DEF NotesOwn, Notices
  <2>2. PICK text : text = n.text
    OBVIOUS
  <2>3. text \subseteq Pieces(n.turn)' /\ (ran[n.turn] # "running" => Pieces(n.turn)' = Pieces(n.turn))
    BY <2>1, <2>2, GrowsText
  <2>4. n.kind = "message" => ran'[n.turn] \in {"spoken", "over"}
    BY <2>1 DEF Grows
  <2> QED BY <2>1, <2>2, <2>3, <2>4
<1>3. \A i, j \in DOMAIN notes' : i < j => Follow(notes'[i], notes'[j])
  BY DEF NotesOwn
<1>4. \A i \in DOMAIN notes' : notes'[i] \in Notices
  BY <1>1
<1>5. \A i \in DOMAIN notes' :
        /\ notes'[i].text \subseteq {<<notes'[i].turn, k>> : k \in 1..said'[notes'[i].turn]}
        /\ notes'[i].kind = "message" =>
             /\ ran'[notes'[i].turn] \in {"spoken", "over"}
             /\ notes'[i].text = {<<notes'[i].turn, k>> : k \in 1..said'[notes'[i].turn]}
  BY <1>2, <1>4 DEF Pieces
<1> QED BY <1>3, <1>5 DEF NotesOwn, Pieces, Follow, EndKinds

-----------------------------------------------------------------------------
(* What steps leave of the texts.                                          *)

(* A turn may go on, and be over. *)
GoesOn(t) == \/ ran'[t] = ran[t]
             \/ ran[t] = "running" /\ ran'[t] = "spoken"
             \/ Running(t) /\ ran'[t] = "over"

LEMMA GrowsCalmly ==
  ASSUME TypeOK, said' = said, \A t \in Started : GoesOn(t) /\ home'[t] = home[t]
  PROVE  Grows
<1>1. \A t \in Turns : said[t] \in Nat
  BY SaidTypes
<1>2. \A t \in Turns : ran[t] # "unused" => t \in Started
  BY DEF Started
<1>3. \A t \in Started : t \in Started'
  BY DEF Started, GoesOn, Running
<1> QED BY <1>1, <1>2, <1>3 DEF Grows, GoesOn, Running

LEMMA ListensOn ==
  ASSUME TypeOK, said' = said, NEW r, NEW rs, ActiveText(r, rs, notes'),
         r.active # NoTurn => GoesOn(r.active)
  PROVE  Listens(r)
<1> SUFFICES ASSUME r.active # NoTurn, r.attached, Running(r.active)' \/ EndsWith(r.active, notes')
             PROVE  Collects(r, notes)'
  BY DEF Listens
<1>1. Running(r.active)' => Running(r.active)
  BY DEF GoesOn, Running
<1>2. Collects(r, notes')
  BY <1>1 DEF ActiveText
<1>3. NoMore(r.active, notes') => NoMore(r.active, notes)'
  BY DEF NoMore, GoesOn, Running
<1>4. Pieces(r.active)' = Pieces(r.active) /\ Coming(r.active, notes)' = Coming(r.active, notes')
  BY DEF Pieces, Coming
<1> QED BY <1>2, <1>3, <1>4 DEF Collects, Text

LEMMA OtherRows ==
  ASSUME NEW q, NEW r, NEW rs, NEW more, NEW ns, RowText(q, r, rs, ns),
         \A t \in Turns : home[t].s = q => (more[t] = {} <=> rs[t] = {})
  PROVE  RowText(q, r, more, ns)
<1>1. Started \subseteq Turns
  BY DEF Started
<1>2. ActiveText(r, more, ns)
  BY <1>1 DEF RowText, ActiveText, OwnTurns
<1>3. OwnIds(q, r, more)
  BY <1>1 DEF RowText, OwnIds
<1> QED BY <1>2, <1>3 DEF RowText

(* A session may change what its texts do not depend on. *)
Like(r, q) ==
    /\ q.active = r.active /\ q.completed = r.completed /\ q.pending = r.pending
    /\ q.streamed = r.streamed /\ q.delivered = r.delivered /\ q.ids = r.ids
    /\ q.attached => r.attached
    /\ q.status = "DELIVERING_FINAL" <=> r.status = "DELIVERING_FINAL"

LEMMA LikeText ==
  ASSUME NEW s, NEW r, NEW q, NEW rs, NEW ns, RowText(s, r, rs, ns), Like(r, q)
  PROVE  RowText(s, q, rs, ns)
<1>1. Text(q) = Text(r)
  BY DEF Text, Like
<1>2. Collects(r, ns) => Collects(q, ns)
  BY <1>1 DEF Collects, Like
<1>3. ActiveText(q, rs, ns)
  BY <1>1, <1>2 DEF RowText, ActiveText, Like
<1> QED BY <1>1, <1>3 DEF RowText, IdleText, OwnIds, OwnTurns, Like

LEMMA TailRow ==
  ASSUME TypeOK, notes # <<>>, NEW q, NEW r, NEW rs, RowText(q, r, rs, notes),
         r.active # Head(notes).turn \/ r.active = NoTurn
  PROVE  RowText(q, r, rs, Tail(notes))
<1> SUFFICES ASSUME r.active # NoTurn, r.attached, Running(r.active) \/ EndsWith(r.active, Tail(notes))
             PROVE  Collects(r, Tail(notes))
  BY DEF RowText, ActiveText
<1>1. notes \in Seq(Notices)
  BY DEF TypeOK
<1>2. /\ Coming(r.active, notes) \subseteq Coming(r.active, Tail(notes))
      /\ NoMore(r.active, notes) => NoMore(r.active, Tail(notes))
      /\ EndsWith(r.active, Tail(notes)) => EndsWith(r.active, notes)
  BY <1>1, TextsOfTail
<1>3. Collects(r, notes)
  BY <1>2 DEF RowText, ActiveText
<1> QED BY <1>2, <1>3 DEF Collects

(* A step of one session with a text of its own. *)
LEMMA ActorStep ==
  ASSUME TypeOK, TypeOK', Grows, said' = said, NEW s \in Sessions, NEW v,
         \A t \in Started : GoesOn(t),
         ItemText(s, v, notes'), RowsKept(s, Work(s), v), Saved(s, v),
         \A q \in Sessions : q # s => RowText(q, sess[q], rows, notes'),
         NotesOwn(notes'), SaidByStarted
  PROVE  ShownInv'
<1>1. /\ handed' = v.handed /\ rows' = v.rows /\ sess'[s] = v.r
      /\ \A q \in Sessions : q # s => sess'[q] = sess[q]
  BY SavedRow DEF Saved, ItemText
<1>2. ChatTexts(handed, rows)'
  BY <1>1, ChatNext DEF ItemText
<1>3. ASSUME NEW q \in Sessions
      PROVE  RowText(q, sess'[q], rows', notes')
  <2>1. CASE q = s
    BY <1>1, <2>1 DEF ItemText
  <2>2. CASE q # s
    <3>1. \A t \in Turns : home[t].s = q => rows'[t] = rows[t]
      BY <1>1, <2>2 DEF RowsKept, Work
    <3>2. RowText(q, sess[q], rows, notes')
      BY <2>2
    <3>3. RowText(q, sess[q], rows', notes')
      BY <3>1, <3>2, OtherRows
    <3> QED BY <1>1, <2>2, <3>3
  <2> QED BY <2>1, <2>2
<1>4. ASSUME NEW q \in Sessions
      PROVE  RowText(q, sess[q], rows, notes)'
  <2>1. PICK r : r = sess'[q]
    OBVIOUS
  <2>2. RowText(q, r, rows', notes')
    BY <1>3, <2>1
  <2>3. r.active # NoTurn => GoesOn(r.active)
    BY <2>2 DEF RowText, OwnTurns
  <2>4. Listens(r)
    BY <2>2, <2>3, ListensOn DEF RowText
  <2> QED BY <2>1, <2>2, <2>4, RowNext
<1>5. NotesOwn(notes)'
  BY NotesNext
<1>6. SaidByStarted'
  BY DEF SaidByStarted, Grows
<1> QED BY <1>2, <1>4, <1>5, <1>6 DEF ShownInv

(* A step that leaves the messages alone. *)
LEMMA QuietText ==
  ASSUME TypeOK, TypeOK', Grows, said' = said,
         \A t \in Started : GoesOn(t), ChatTexts(handed', rows'),
         \A q \in Sessions : RowText(q, sess'[q], rows', notes'),
         NotesOwn(notes'), SaidByStarted
  PROVE  ShownInv'
<1>1. ChatTexts(handed, rows)'
  BY ChatNext
<1>2. ASSUME NEW q \in Sessions
      PROVE  RowText(q, sess[q], rows, notes)'
  <2>1. PICK r : r = sess'[q]
    OBVIOUS
  <2>2. RowText(q, r, rows', notes')
    BY <2>1
  <2>3. r.active # NoTurn => GoesOn(r.active)
    BY <2>2 DEF RowText, OwnTurns
  <2>4. Listens(r)
    BY <2>2, <2>3, ListensOn DEF RowText
  <2> QED BY <2>1, <2>2, <2>4, RowNext
<1>3. NotesOwn(notes)'
  BY NotesNext
<1>4. SaidByStarted'
  BY DEF SaidByStarted, Grows
<1> QED BY <1>1, <1>2, <1>3, <1>4 DEF ShownInv

-----------------------------------------------------------------------------
(* The texts through the notifications.                                    *)

(* What is collected of the active turn is its own. *)
LEMMA CollectedText ==
  ASSUME TypeOK, EndsAreTrue, NotesOwn(notes), notes # <<>>, Note.kind \in {"delta", "message"},
         NEW s \in Sessions, RowText(s, sess[s], rows, notes), Accepts(sess[s], Note.turn),
         NEW q, q = Collected(sess[s], Note)
  PROVE  RowText(s, q, rows, Tail(notes))
<1> DEFINE r == sess[s]
           t == Note.turn
<1>0. /\ r \in SessionRow /\ notes \in Seq(Notices) /\ Note \in Notices /\ t \in Turns /\ Note.text \in Texts
      /\ Head(notes) = Note
  BY TailOfNotes DEF TypeOK, Note, Notices
<1>1. Note.text \subseteq Pieces(t) /\ (Note.kind = "message" => Note.text = Pieces(t))
  BY <1>0, NotesOwnTail
<1>2. /\ q.active = r.active /\ q.completed = r.completed /\ q.attached = r.attached /\ q.status = r.status
      /\ q.ids = r.ids /\ q.delivered = r.delivered /\ q.streamed \in {r.streamed, {}}
      /\ q.pending \subseteq r.pending \cup Note.text
      /\ Note.kind = "delta" => q.pending = r.pending \cup Note.text /\ q.streamed = r.streamed
      /\ Note.kind = "message" =>
           IF Text(r) # {} THEN q.pending = Note.text /\ q.streamed = {}
           ELSE /\ q.streamed = r.streamed
                /\ IF Note.text = r.delivered \/ Note.text = {} THEN q.pending = r.pending
                   ELSE r.delivered = {} => q.pending = Note.text
  <2>1. CASE Note.kind = "delta"
    BY <1>0, <2>1 DEF Collected, SessionRow
  <2>2. CASE Note.kind # "delta" /\ Text(r) # {}
    BY <1>0, <2>2 DEF Collected, SessionRow
  <2>3. CASE Note.kind # "delta" /\ Text(r) = {}
    <3>0. /\ q = IF Merged(r, Note.text) = r THEN r ELSE Answering(Merged(r, Note.text))
          /\ r.pending = {} /\ r.streamed = {}
      BY <2>3 DEF Collected, Text
    <3>1. CASE Note.text = r.delivered \/ Note.text \subseteq Text(r)
      BY <3>0, <3>1, <2>3 DEF Merged
    <3>2. CASE ~(Note.text = r.delivered \/ Note.text \subseteq Text(r))
      <4>1. PICK m : m = [r EXCEPT !.pending = @ \cup (Note.text \ (r.streamed \cup (IF r.delivered \subseteq Note.text
                                                                                    THEN r.delivered ELSE {}))),
                                   !.quiet = FALSE]
        OBVIOUS
      <4>3. m = Merged(r, Note.text)
        BY <3>2, <4>1 DEF Merged
      <4>4. q = IF m = r THEN r ELSE [m EXCEPT !.phase = "answer"]
        BY <3>0, <4>3 DEF Answering
      <4>2. /\ q.active = r.active /\ q.completed = r.completed /\ q.attached = r.attached /\ q.status = r.status
            /\ q.ids = r.ids /\ q.delivered = r.delivered /\ q.streamed = r.streamed
            /\ q.pending = r.pending \cup (Note.text \ (r.streamed \cup (IF r.delivered \subseteq Note.text
                                                                        THEN r.delivered ELSE {})))
        BY <1>0, <4>1, <4>4 DEF SessionRow
      <4> QED BY <2>3, <3>0, <3>2, <4>2
    <3> QED BY <3>1, <3>2
  <2> QED BY <2>1, <2>2, <2>3
<1>3. r.status # "DELIVERING_FINAL" /\ (r.active = NoTurn => r.completed = NoTurn) /\ (r.active # NoTurn => r.active = t)
  BY DEF Accepts, RowText, ActiveText, OwnTurns
<1>4. ActiveText(q, rows, Tail(notes))
  <2> SUFFICES ASSUME r.active # NoTurn
               PROVE  /\ Own(t, Text(q))
                      /\ r.attached /\ (Running(t) \/ EndsWith(t, Tail(notes))) => Collects(q, Tail(notes))
    BY <1>2, <1>3 DEF RowText, ActiveText
  <2>1. Own(t, Text(r)) /\ rows[t] = {}
    BY <1>3 DEF RowText, ActiveText
  <2>2. Text(q) \subseteq Text(r) \cup Note.text
    BY <1>2 DEF Text
  <2>3. said[t] = 0 => Note.text = {}
    BY <1>0, <1>1, SaidTypes
  <2>4. Own(t, Text(q))
    BY <1>1, <2>1, <2>2, <2>3 DEF Own
  <2>5. ASSUME r.attached, Running(t) \/ EndsWith(t, Tail(notes))
        PROVE  Collects(q, Tail(notes))
    <3>1. Running(t) \/ EndsWith(t, notes)
      BY <1>0, <2>5, TextsOfTail
    <3>2. Collects(r, notes)
      BY <1>3, <2>5, <3>1 DEF RowText, ActiveText
    <3>3. ~NoMore(t, notes)
      BY <1>0, TailOfNotes DEF NoMore, EndKinds
    <3>4. r.streamed = r.delivered /\ Pieces(t) \subseteq Text(r) \cup Coming(t, notes)
      BY <1>3, <3>2, <3>3 DEF Collects
    <3>5. Coming(t, notes) \subseteq Coming(t, Tail(notes)) \cup Note.text
      BY <1>0, TextsOfTail
    <3>6. CASE Note.kind = "delta"
      BY <1>2, <1>3, <3>4, <3>5, <3>6 DEF Collects, Text
    <3>7. CASE Note.kind = "message"
      <4>1. NoMore(t, Tail(notes)) /\ Note.text = Pieces(t)
        BY <1>0, <1>1, <3>7, NothingAfter
      <4>2. CASE Text(r) # {}
        BY <1>2, <1>3, <3>7, <4>1, <4>2 DEF Collects
      <4>3. CASE Text(r) = {}
        <5>1. r.streamed = {} /\ r.pending = {} /\ r.delivered = {}
          BY <3>4, <4>3 DEF Text
        <5>2. q.streamed = {} /\ q.pending = Pieces(t)
          BY <1>2, <3>7, <4>1, <4>3, <5>1
        <5> QED BY <1>2, <1>3, <4>1, <5>2 DEF Collects
      <4> QED BY <4>2, <4>3
    <3> QED BY <3>6, <3>7
  <2> QED BY <2>4, <2>5
<1>5. IdleText(q)
  BY <1>2, <1>3 DEF IdleText
<1>6. OwnIds(s, q, rows)
  BY <1>2, <1>3 DEF RowText, OwnIds
<1>7. OwnTurns(s, q)
  BY <1>2, <1>3 DEF RowText, OwnTurns
<1> QED BY <1>4, <1>5, <1>6, <1>7 DEF RowText

LEMMA NoteTexts ==
  ASSUME TypeOK, NEW kinds, HandlesNote(kinds), NotesOwn(notes)
  PROVE  /\ notes' = Tail(notes) /\ notes # <<>> /\ Head(notes) = Note /\ NotesOwn(notes')
         /\ Grows /\ said' = said /\ \A t \in Started : GoesOn(t)
<1>1. notes \in Seq(Notices) /\ UNCHANGED <<ran, home, said>> /\ notes' = Tail(notes) /\ notes # <<>>
  BY DEF TypeOK, HandlesNote
<1>2. \A t \in Started : GoesOn(t) /\ home'[t] = home[t]
  BY <1>1 DEF GoesOn
<1> QED BY <1>1, <1>2, GrowsCalmly, NotesOwnTail DEF Note

(* The active turn of a session is that of its thread. *)
LEMMA ListensTo ==
  ASSUME TypeOK, AtHome, OneThread, LastOfThread, NEW q \in Sessions, NEW t \in Turns, sess[q].active = t
  PROVE  /\ q \in Addressed(t) /\ Accepts(sess[q], t)
         /\ \A s \in Addressed(t) : s = q
<1>1. q <= made /\ sess[q].thread # 0 /\ home[t].thread = sess[q].thread
  BY DEF AtHome, LastOfThread, Turns, NoTurn
<1>2. q \in 1..made /\ made \in Int
  BY <1>1 DEF TypeOK, Sessions
<1>3. 1..made \subseteq Sessions
  BY MadeAreSessions
<1> QED BY <1>1, <1>2, <1>3 DEF Addressed, Accepts, OneThread, Turns, NoTurn

LEMMA TextOfTexts ==
  ASSUME ConversationInv, TypeOK', TextsInv, HandlesText
  PROVE  ShownInv'
<1>0. TypeOK /\ TurnInv /\ EndsAreTrue /\ AtHome
  BY DEF ConversationInv, TurnInv
<1>1. HandlesNote({"delta", "message"})
  BY DEF HandlesText
<1>2. /\ NotesOwn(notes) /\ SaidByStarted /\ OneThread /\ LastOfThread /\ ChatTexts(handed, rows)
      /\ \A q \in Sessions : RowText(q, sess[q], rows, notes)
  BY DEF TextsInv, ShownInv, ThreadInv
<1>3. /\ notes' = Tail(notes) /\ notes # <<>> /\ Head(notes) = Note /\ NotesOwn(notes')
      /\ Grows /\ said' = said /\ \A t \in Started : GoesOn(t)
      /\ Note.kind \in {"delta", "message"} /\ Note.turn \in Turns
  BY <1>0, <1>1, <1>2, NoteTexts, NoteTaken
<1>4. ASSUME NEW q \in Sessions, sess[q].active # Note.turn
      PROVE  RowText(q, sess[q], rows, notes')
  BY <1>0, <1>2, <1>3, <1>4, TailRow
<1>5. CASE \E s \in Addressed(Note.turn) : Accepts(sess[s], Note.turn)
  <2>1. PICK s \in Addressed(Note.turn), flush \in BOOLEAN, known \in BOOLEAN :
          Saved(s, IF flush /\ Note.kind = "delta" THEN Streamed([Work(s) EXCEPT !.r = Collected(@, Note)], known)
                   ELSE [Work(s) EXCEPT !.r = Collected(@, Note)])
    BY <1>5 DEF HandlesText
  <2>2. s \in Sessions /\ 1..made \subseteq Sessions /\ Addressed(Note.turn) \subseteq Sessions
    BY <1>0, MadeAreSessions DEF Addressed
  <2>3. Accepts(sess[s], Note.turn) /\ \A q \in Addressed(Note.turn) : q = s
    BY <1>2, <1>5, <2>2 DEF OneThread, Addressed
  <2>4. PICK w : w = [Work(s) EXCEPT !.r = Collected(@, Note)]
    OBVIOUS
  <2>5. PICK r : r = Collected(sess[s], Note)
    OBVIOUS
  <2>6. Note \in Notices /\ r \in SessionRow
    BY <1>0, <1>1, <2>2, <2>5, NoteTaken, CollectedRow DEF TypeOK
  <2>7. w \in WorkItem /\ w.r = r /\ w.handed = handed /\ w.rows = rows
    BY <1>0, <2>2, <2>4, <2>5, <2>6, WorkOfRow, WithRowOf DEF Work
  <2>8. RowText(s, r, rows, notes')
    BY <1>0, <1>2, <1>3, <2>2, <2>3, <2>5, CollectedText
  <2>9. ItemText(s, w, notes')
    BY <1>2, <2>7, <2>8 DEF ItemText
  <2>10. PICK v : v = IF flush /\ Note.kind = "delta" THEN Streamed(w, known) ELSE w
    OBVIOUS
  <2>11. ItemText(s, v, notes') /\ RowsKept(s, w, v)
    BY <1>0, <2>9, <2>10, StreamedText DEF RowsKept
  <2>12. Saved(s, v) /\ RowsKept(s, Work(s), v)
    BY <2>1, <2>4, <2>7, <2>10, <2>11 DEF RowsKept, Work
  <2>13. \A q \in Sessions : q # s => RowText(q, sess[q], rows, notes')
    BY <1>0, <1>2, <1>3, <1>4, <2>3, ListensTo
  <2> QED BY <1>0, <1>2, <1>3, <2>2, <2>11, <2>12, <2>13, ActorStep
<1>6. CASE ~\E s \in Addressed(Note.turn) : Accepts(sess[s], Note.turn)
  <2>1. sess' = sess /\ handed' = handed /\ rows' = rows
    BY <1>6 DEF HandlesText, queue
  <2>2. \A q \in Sessions : sess[q].active # Note.turn
    BY <1>0, <1>2, <1>3, <1>6, ListensTo
  <2>3. \A q \in Sessions : RowText(q, sess'[q], rows', notes')
    BY <1>4, <2>1, <2>2
  <2> QED BY <1>0, <1>2, <1>3, <2>1, <2>3, QuietText
<1> QED BY <1>5, <1>6

(* The last message of the thread is the answer of its last turn. *)
LEMMA LatestIsOwn ==
  ASSUME TypeOK, SaidByStarted, LastOfThread, NEW s \in Sessions, NEW t \in Turns, sess[s].active = t, t \in Started,
         said[t] > 0
  PROVE  Latest(sess[s].thread) = Pieces(t)
<1> DEFINE ts == {u \in Turns : home[u].thread = sess[s].thread /\ said[u] > 0}
<1>1. t \in ts /\ \A u \in ts : u <= t
  BY DEF LastOfThread, SaidByStarted, Turns, NoTurn
<1>2. {u \in ts : \A v \in ts : v <= u} = {t}
  <2>1. ASSUME NEW u \in ts, \A v \in ts : v <= u
        PROVE  u = t
    <3>1. t <= u /\ u <= t /\ u \in Int /\ t \in Int
      BY <1>1, <2>1 DEF Turns
    <3> QED BY <3>1
  <2> QED BY <1>1, <2>1
<1>3. Latest(sess[s].thread) = UNION {Pieces(u) : u \in {u \in ts : \A v \in ts : v <= u}}
  BY DEF Latest
<1> HIDE DEF ts
<1>4. Latest(sess[s].thread) = UNION {Pieces(u) : u \in {t}}
  BY <1>2, <1>3
<1> QED BY <1>4

LEMMA CompletedRow ==
  ASSUME TypeOK, EndsAreTrue, NotesOwn(notes), SaidByStarted, LastOfThread, notes # <<>>, Note.kind \in EndKinds,
         NEW s \in Sessions, RowText(s, sess[s], rows, notes), sess[s].active = Note.turn,
         NEW text \in CompletionTexts(sess[s]), NEW q, q = IF News(sess[s], text) THEN Merged(sess[s], text) ELSE sess[s]
  PROVE  /\ q \in SessionRow /\ q.ids = sess[s].ids
         /\ q.attached /\ Text(q) # {} => Full(Note.turn, Text(q))
<1> DEFINE r == sess[s]
           t == Note.turn
<1>0. /\ r \in SessionRow /\ notes \in Seq(Notices) /\ Note \in Notices /\ t \in Turns /\ text \in Texts
      /\ Head(notes) = Note
  BY TailOfNotes, LatestTyped DEF TypeOK, Note, Notices
<1>1. q \in SessionRow /\ q.ids = r.ids /\ q.attached = r.attached
  <2>1. CASE q = r
    BY <1>0, <2>1
  <2>2. CASE q = Merged(r, text)
    <3>1. q \in SessionRow /\ SameTurn(r, q)
      BY <1>0, <2>2, MergedRow
    <3>2. q.ids = r.ids
      BY <1>0, <2>2 DEF Merged, SessionRow
    <3>3. q.attached = r.attached
      BY <1>0, <2>2 DEF Merged, SessionRow
    <3> QED BY <3>1, <3>2, <3>3
  <2> QED BY <2>1, <2>2
<1>2. ran[t] = "over" /\ Note.text = {} /\ EndsWith(t, notes)
  BY <1>0, TailOfNotes DEF EndsAreTrue, NotesOwn, EndsWith
<1>3. ASSUME r.attached, Text(q) # {}
      PROVE  Full(t, Text(q))
  <2> SUFFICES ASSUME said[t] > 0
               PROVE  Text(q) = Pieces(t)
    BY <1>2 DEF Full
  <2>1. t # NoTurn /\ Own(t, Text(r)) /\ Collects(r, notes) /\ t \in Started
    BY <1>0, <1>2, <1>3, SaidTypes DEF RowText, ActiveText, OwnTurns
  <2>2. Coming(t, notes) = {} /\ Text(r) \subseteq Pieces(t) /\ Pieces(t) # {}
    <3>1. Text(r) \subseteq Pieces(t)
      BY <2>1 DEF Own
    <3>2. Pieces(t) # {}
      <4>1. said[t] \in Nat /\ 1 \in 1..said[t]
        BY SaidTypes, <1>0
      <4> QED BY <4>1 DEF Pieces
    <3>3. Head(notes).kind # "delta"
      BY <1>0 DEF EndKinds
    <3> QED BY <1>0, <1>2, <3>1, <3>2, <3>3, NothingAfter
  <2>3. text \in {Pieces(t), {}}
    BY <1>0, <2>1, LatestIsOwn DEF CompletionTexts
  <2>4. CASE r.streamed = r.delivered /\ Pieces(r.active) \subseteq Text(r) \cup Coming(r.active, notes)
    <3>1. Text(r) = Pieces(t)
      BY <2>2, <2>4
    <3>2. Merged(r, text) = r
      BY <2>3, <3>1 DEF Merged
    <3> QED BY <3>1, <3>2
  <2>5. CASE r.streamed = {} /\ r.pending = Pieces(r.active)
    <3>1. ~News(r, text)
      BY <2>3, <2>5 DEF News
    <3> QED BY <2>5, <3>1 DEF Text
  <2>6. CASE Text(r) = {} /\ r.delivered = Pieces(r.active)
    <3>1. ~News(r, text)
      BY <2>3, <2>6 DEF News, Text
    <3> QED BY <1>3, <2>6, <3>1
  <2> QED BY <2>1, <2>4, <2>5, <2>6 DEF Collects
<1> QED BY <1>1, <1>3

(* The end of a turn, handled by nobody. *)
LEMMA UnheardEnd ==
  ASSUME ConversationInv, TypeOK', TextsInv, HandlesNote(EndKinds), Runs(Note.turn) = {}, UNCHANGED <<sess, queue>>
  PROVE  ShownInv'
<1>0. TypeOK /\ TurnInv
  BY DEF ConversationInv
<1>1. /\ NotesOwn(notes) /\ SaidByStarted /\ ChatTexts(handed, rows)
      /\ \A q \in Sessions : RowText(q, sess[q], rows, notes)
  BY DEF TextsInv, ShownInv
<1>2. /\ notes' = Tail(notes) /\ notes # <<>> /\ Head(notes) = Note /\ NotesOwn(notes')
      /\ Grows /\ said' = said /\ (\A t \in Started : GoesOn(t)) /\ Note.turn \in Turns
  BY <1>0, <1>1, NoteTexts, NoteTaken
<1>3. sess' = sess /\ handed' = handed /\ rows' = rows
  BY DEF queue
<1>4. \A q \in Sessions : sess[q].active # Note.turn
  BY <1>0, <1>2, NobodyRunsIt
<1>5. \A q \in Sessions : RowText(q, sess'[q], rows', notes')
  BY <1>0, <1>1, <1>2, <1>3, <1>4, TailRow
<1> QED BY <1>0, <1>1, <1>2, <1>3, <1>5, QuietText

(* The end of a turn, handled by the session that runs it. *)
LEMMA HeardEnd ==
  ASSUME ConversationInv, TypeOK', TextsInv, HandlesNote(EndKinds), NEW s \in Runs(Note.turn), NEW v,
         ItemText(s, v, Tail(notes)), RowsKept(s, Work(s), v), Saved(s, v)
  PROVE  ShownInv'
<1>0. TypeOK /\ TurnInv
  BY DEF ConversationInv
<1>1. /\ NotesOwn(notes) /\ SaidByStarted /\ ChatTexts(handed, rows)
      /\ \A q \in Sessions : RowText(q, sess[q], rows, notes)
  BY DEF TextsInv, ShownInv
<1>2. /\ notes' = Tail(notes) /\ notes # <<>> /\ Head(notes) = Note /\ NotesOwn(notes')
      /\ Grows /\ said' = said /\ (\A t \in Started : GoesOn(t)) /\ Note.turn \in Turns
  BY <1>0, <1>1, NoteTexts, NoteTaken
<1>3. s \in Sessions /\ \A q \in Sessions : q # s => sess[q].active # Note.turn
  BY <1>0, <1>2, OneRuns, RunsTyped
<1>4. \A q \in Sessions : q # s => RowText(q, sess[q], rows, notes')
  BY <1>0, <1>1, <1>2, <1>3, TailRow
<1> QED BY <1>0, <1>1, <1>2, <1>3, <1>4, ActorStep

LEMMA CompletedTexts ==
  ASSUME ConversationInv, TypeOK', TextsInv, HandlesCompleted
  PROVE  ShownInv'
<1>0. TypeOK /\ TurnInv /\ EndsAreTrue
  BY DEF ConversationInv, TurnInv
<1>1. HandlesNote(EndKinds) /\ Note.turn \in Turns /\ Note.kind \in EndKinds /\ notes # <<>>
  BY <1>0, NoteTaken DEF HandlesCompleted, HandlesNote, EndKinds
<1>2. /\ NotesOwn(notes) /\ SaidByStarted /\ LastOfThread /\ ChatTexts(handed, rows)
      /\ \A q \in Sessions : RowText(q, sess[q], rows, notes)
  BY DEF TextsInv, ShownInv, ThreadInv
<1>3. CASE Runs(Note.turn) = {}
  BY <1>1, <1>3, UnheardEnd DEF HandlesCompleted, queue
<1>4. CASE Runs(Note.turn) # {}
  <2>1. PICK s \in Runs(Note.turn), known \in BOOLEAN : \E text \in CompletionTexts(sess[s]) :
               Saved(s, Concluded([Work(s) EXCEPT !.r = TurnOver(IF News(sess[s], text) THEN Merged(sess[s], text)
                                                                 ELSE sess[s], Note.turn)], known))
    BY <1>4 DEF HandlesCompleted
  <2>2. PICK text \in CompletionTexts(sess[s]) :
               Saved(s, Concluded([Work(s) EXCEPT !.r = TurnOver(IF News(sess[s], text) THEN Merged(sess[s], text)
                                                                 ELSE sess[s], Note.turn)], known))
    BY <2>1
  <2>3. s \in Sessions /\ sess[s].active = Note.turn
    BY <1>0, <1>1, <2>1, RunsTyped
  <2>4. PICK q : q = IF News(sess[s], text) THEN Merged(sess[s], text) ELSE sess[s]
    OBVIOUS
  <2>5. /\ q \in SessionRow /\ q.ids = sess[s].ids
        /\ q.attached /\ Text(q) # {} => Full(Note.turn, Text(q))
    BY <1>0, <1>1, <1>2, <2>3, <2>4, CompletedRow
  <2>6. PICK w : w = [Work(s) EXCEPT !.r = TurnOver(q, Note.turn)]
    OBVIOUS
  <2>7. TurnOver(q, Note.turn) \in SessionRow
    BY <1>1, <2>5, TurnOverRow
  <2>8. w \in WorkItem /\ w.r = TurnOver(q, Note.turn) /\ w.handed = handed /\ w.rows = rows
    BY <1>0, <2>3, <2>6, <2>7, WorkOfRow, WithRowOf DEF Work
  <2>9. /\ w.r.active = NoTurn /\ w.r.completed = Note.turn /\ w.r.status = "ACTIVE" /\ w.r.ids = q.ids
        /\ w.r.attached = q.attached /\ Text(w.r) = Text(q)
    BY <1>1, <2>5, <2>8 DEF TurnOver, SessionRow, Text
  <2>10. Ending(s, w)
    <3>1. Note.turn # NoTurn
      BY <1>0, <1>1, SaidTypes
    <3>2. RowText(s, sess[s], rows, notes)
      BY <1>2, <2>3
    <3>3. Note.turn \in Started /\ home[Note.turn].s = s /\ sess[s].status # "DELIVERING_FINAL"
      BY <2>3, <3>1, <3>2 DEF RowText, OwnTurns, ActiveText
    <3>4. w.r.ids \in Turns => w.r.ids \in Started /\ home[w.r.ids].s = s /\ w.rows[w.r.ids] = {}
      BY <2>5, <2>8, <2>9, <3>2, <3>3 DEF RowText, OwnIds
    <3>5. OwnTurns(s, w.r)
      BY <2>9, <3>3 DEF OwnTurns
    <3> QED BY <1>2, <2>5, <2>8, <2>9, <3>1, <3>4, <3>5 DEF Ending
  <2>11. PICK v : v = Concluded(w, known)
    OBVIOUS
  <2>12. ItemText(s, v, Tail(notes)) /\ RowsKept(s, w, v)
    BY <1>0, <2>10, <2>11, ConcludedText
  <2>13. Saved(s, v)
    BY <2>2, <2>4, <2>6, <2>11
  <2>14. RowsKept(s, Work(s), v)
    BY <2>8, <2>12 DEF RowsKept, Work
  <2> QED BY <1>1, <2>1, <2>12, <2>13, <2>14, HeardEnd
<1> QED BY <1>3, <1>4

(* An error that takes the place of the answer. *)
LEMMA PublishedText ==
  ASSUME TypeOK, NEW s \in Sessions, NEW w \in WorkItem, ChatTexts(w.handed, w.rows), Clearable(w), w.rows = rows,
         w.r.completed # NoTurn => w.r.completed \in Started /\ home[w.r.completed].s = s,
         NEW ns, Published(s, w)
  PROVE  \E v : ItemText(s, v, ns) /\ RowsKept(s, Work(s), v) /\ Saved(s, v)
<1>1. PICK edits \in BOOLEAN, forget \in BOOLEAN :
        Saved(s, [(IF edits THEN Cleared(w) ELSE w) EXCEPT !.r = Reset(@, forget)])
  BY DEF Published
<1>2. PICK n : n = IF edits THEN Cleared(w) ELSE w
  OBVIOUS
<1>3. n \in WorkItem /\ ChatTexts(n.handed, n.rows) /\ n.rows = rows /\ n.r.completed = w.r.completed /\ n.r \in SessionRow
  <2>1. CASE n = w
    BY <2>1 DEF WorkItem
  <2>2. CASE n = Cleared(w)
    <3>1. n \in WorkItem /\ ChatTexts(n.handed, n.rows) /\ n.rows = rows /\ n.r = [w.r EXCEPT !.ids = NoIds]
      BY <2>2, ClearedMeans
    <3> QED BY <3>1 DEF WorkItem, SessionRow
  <2> QED BY <1>2, <2>1, <2>2
<1>4. PICK r : r = Reset(n.r, forget)
  OBVIOUS
<1>5. r \in SessionRow
  BY <1>3, <1>4, ResetRow
<1>6. /\ r.active = NoTurn /\ r.pending = {} /\ r.streamed = {} /\ r.ids = NoIds /\ r.status = "ACTIVE"
      /\ r.completed \in {NoTurn, w.r.completed}
  BY <1>3, <1>4 DEF Reset, Blank, SessionRow
<1>7. PICK v : v = [n EXCEPT !.r = Reset(@, forget)]
  OBVIOUS
<1>8. v \in WorkItem /\ v.r = r /\ v.handed = n.handed /\ v.rows = rows
  BY <1>3, <1>4, <1>5, <1>7 DEF WorkItem
<1>9. Bare(s, r, rows)
  BY <1>6 DEF Bare, OwnTurns, NoIds, Turns
<1>10. ItemText(s, v, ns)
  BY <1>3, <1>8, <1>9, BareText DEF ItemText
<1>11. RowsKept(s, Work(s), v)
  BY <1>8 DEF RowsKept, Work
<1>12. Saved(s, v)
  BY <1>1, <1>2, <1>7
<1> QED BY <1>10, <1>11, <1>12

LEMMA FailedTexts ==
  ASSUME ConversationInv, TypeOK', TextsInv, HandlesFailed
  PROVE  ShownInv'
<1>0. TypeOK /\ TurnInv
  BY DEF ConversationInv
<1>1. HandlesNote(EndKinds) /\ Note.turn \in Turns
  BY <1>0, NoteTaken DEF HandlesFailed, HandlesNote, EndKinds
<1>2. ChatTexts(handed, rows) /\ \A q \in Sessions : RowText(q, sess[q], rows, notes)
  BY DEF TextsInv, ShownInv
<1>3. CASE Runs(Note.turn) = {}
  BY <1>1, <1>3, UnheardEnd DEF HandlesFailed
<1>4. CASE Runs(Note.turn) # {}
  <2>1. PICK s \in Runs(Note.turn) : Published(s, [Work(s) EXCEPT !.r = TurnOver(@, Note.turn)])
    BY <1>4 DEF HandlesFailed
  <2>2. s \in Sessions /\ sess[s] \in SessionRow /\ sess[s].active = Note.turn
    BY <1>0, <1>1, <2>1, RunsTyped DEF TypeOK
  <2>3. PICK w : w = [Work(s) EXCEPT !.r = TurnOver(sess[s], Note.turn)]
    OBVIOUS
  <2>4. Published(s, w)
    BY <2>1, <2>3 DEF Work
  <2>5. TurnOver(sess[s], Note.turn) \in SessionRow
    BY <1>1, <2>2, TurnOverRow
  <2>6. w \in WorkItem /\ w.r = TurnOver(sess[s], Note.turn) /\ w.handed = handed /\ w.rows = rows
    BY <1>0, <2>2, <2>3, <2>5, WorkOfRow, WithRowOf DEF Work
  <2>7. w.r.completed = Note.turn /\ w.r.ids = sess[s].ids
    BY <2>2, <2>6 DEF TurnOver, SessionRow
  <2>8. RowText(s, sess[s], rows, notes) /\ Note.turn # NoTurn
    BY <1>0, <1>1, <1>2, <2>2, SaidTypes
  <2>9. Note.turn \in Started /\ home[Note.turn].s = s /\ Clearable(w)
    BY <2>2, <2>6, <2>7, <2>8 DEF RowText, OwnTurns, OwnIds, ActiveText, Clearable
  <2>10. \E v : ItemText(s, v, Tail(notes)) /\ RowsKept(s, Work(s), v) /\ Saved(s, v)
    BY <1>0, <1>2, <2>2, <2>4, <2>6, <2>7, <2>9, PublishedText
  <2> QED BY <1>1, <2>1, <2>10, HeardEnd
<1> QED BY <1>3, <1>4

-----------------------------------------------------------------------------
(* The texts through the periodic work, the queue and the commands.        *)

LEMMA TurnsStay ==
  ASSUME TypeOK, UNCHANGED <<ran, home, said>>
  PROVE  Grows /\ said' = said /\ \A t \in Started : GoesOn(t)
<1>1. \A t \in Started : GoesOn(t) /\ home'[t] = home[t]
  BY DEF GoesOn
<1> QED BY <1>1, GrowsCalmly

(* A session changes, and no text.                                         *)
LEMMA SameTexts ==
  ASSUME TypeOK, TypeOK', ShownInv, UNCHANGED <<ran, home, said, notes, handed, rows>>,
         \A s \in Sessions : RowText(s, sess'[s], rows, notes)
  PROVE  ShownInv'
<1>1. Grows /\ said' = said /\ \A t \in Started : GoesOn(t)
  BY TurnsStay
<1>2. ChatTexts(handed', rows') /\ NotesOwn(notes') /\ SaidByStarted
  BY DEF ShownInv
<1>3. \A s \in Sessions : RowText(s, sess'[s], rows', notes')
  OBVIOUS
<1> QED BY <1>1, <1>2, <1>3, QuietText

LEMMA SameRows ==
  ASSUME TypeOK, TypeOK', ShownInv, UNCHANGED <<ran, home, said, notes, handed, rows>>,
         \A s \in Sessions : Like(sess[s], sess'[s])
  PROVE  ShownInv'
<1>1. \A s \in Sessions : RowText(s, sess[s], rows, notes)
  BY DEF ShownInv
<1>2. \A s \in Sessions : RowText(s, sess'[s], rows, notes)
  BY <1>1, LikeText
<1> QED BY <1>2, SameTexts

(* A session's work of its own. *)
LEMMA OwnStep ==
  ASSUME TypeOK, TypeOK', ShownInv, UNCHANGED <<ran, home, said, notes>>,
         NEW s \in Sessions, NEW v, ItemText(s, v, notes), RowsKept(s, Work(s), v), Saved(s, v)
  PROVE  ShownInv'
<1>1. Grows /\ said' = said /\ \A t \in Started : GoesOn(t)
  BY TurnsStay
<1>2. NotesOwn(notes') /\ SaidByStarted /\ ItemText(s, v, notes')
  BY DEF ShownInv
<1>3. \A q \in Sessions : q # s => RowText(q, sess[q], rows, notes')
  BY DEF ShownInv
<1> QED BY <1>1, <1>2, <1>3, ActorStep

LEMMA WorkText ==
  ASSUME TypeOK, ShownInv, NEW s \in Sessions
  PROVE  ItemText(s, Work(s), notes)
<1>1. Work(s) \in WorkItem /\ Work(s).r = sess[s] /\ Work(s).handed = handed /\ Work(s).rows = rows
  BY WorkOfRow DEF Work
<1> QED BY <1>1 DEF ItemText, ShownInv

LEMMA FlushTexts ==
  ASSUME TypeOK, TypeOK', ShownInv, NEW s \in Sessions, FlushesIdle(s)
  PROVE  ShownInv'
<1>1. UNCHANGED <<ran, home, said, notes>>
  BY DEF FlushesIdle, Upkeep, codex
<1>2. PICK known \in BOOLEAN : Saved(s, Streamed(Work(s), known))
  BY DEF FlushesIdle
<1>3. ItemText(s, Streamed(Work(s), known), notes) /\ RowsKept(s, Work(s), Streamed(Work(s), known))
  BY WorkText, StreamedText
<1> QED BY <1>1, <1>2, <1>3, OwnStep

LEMMA ReconcileTexts ==
  ASSUME TypeOK, TypeOK', ShownInv, NEW s \in Sessions, Reconciles(s)
  PROVE  ShownInv'
<1>1. UNCHANGED <<ran, home, said, notes>> /\ sess[s].status = "DELIVERING_FINAL"
  BY DEF Reconciles, Upkeep, codex
<1>2. Work(s).r.status = "DELIVERING_FINAL" /\ ItemText(s, Work(s), notes)
  BY <1>1, WorkText, WorkOfRow
<1>3. \/ Saved(s, Delivered(Work(s)))
      \/ \E known \in BOOLEAN : Saved(s, Resent(Work(s), known))
  BY DEF Reconciles
<1>4. PICK v : /\ Saved(s, v)
               /\ v = Delivered(Work(s)) \/ \E known \in BOOLEAN : v = Resent(Work(s), known)
  BY <1>3
<1>5. ItemText(s, v, notes) /\ RowsKept(s, Work(s), v)
  BY <1>2, <1>4, DeliveredText
<1> QED BY <1>1, <1>4, <1>5, OwnStep

LEMMA QuietTexts ==
  ASSUME TypeOK, TypeOK', ShownInv, NEW s \in Sessions, GoesQuiet(s)
  PROVE  ShownInv'
<1>1. UNCHANGED <<ran, home, said, notes, handed, rows>>
  BY DEF GoesQuiet, Upkeep, codex, queue
<1>2. sess' = [sess EXCEPT ![s] = [@ EXCEPT !.quiet = TRUE]] /\ sess[s] \in SessionRow
  BY DEF GoesQuiet, TypeOK
<1>3. Like(sess[s], sess'[s]) /\ \A q \in Sessions : q # s => sess'[q] = sess[q]
  BY <1>2 DEF Like, TypeOK, SessionRow
<1>4. \A q \in Sessions : Like(sess[q], sess'[q])
  BY <1>3 DEF Like
<1> QED BY <1>1, <1>4, SameRows

LEMMA SettledTexts ==
  ASSUME TypeOK, TypeOK', ShownInv, NEW t \in Turns, Delivers(t)
  PROVE  ShownInv'
<1>1. UNCHANGED <<ran, home, said, notes, handed, sess>>
  BY DEF Delivers, codex
<1>2. Grows /\ said' = said /\ \A u \in Started : GoesOn(u)
  BY <1>1, TurnsStay
<1>3. \A u \in Turns : rows'[u] = {} <=> rows[u] = {}
  <2>1. PICK end \in RowEnds : rows' = [rows EXCEPT ![t] = (@ \ {"queued"}) \cup {end}]
    BY DEF Delivers
  <2>2. rows[t] # {} /\ rows'[t] # {} /\ \A u \in Turns : u # t => rows'[u] = rows[u]
    BY <2>1 DEF Delivers, TypeOK
  <2> QED BY <2>2
<1>4. ChatTexts(handed', rows')
  BY <1>1, <1>3 DEF ShownInv, ChatTexts
<1>5. \A q \in Sessions : RowText(q, sess[q], rows, notes)
  BY DEF ShownInv
<1>6. \A q \in Sessions : RowText(q, sess[q], rows', notes)
  BY <1>3, <1>5, OtherRows
<1>7. \A q \in Sessions : RowText(q, sess'[q], rows', notes')
  BY <1>1, <1>6
<1>8. NotesOwn(notes') /\ SaidByStarted
  BY <1>1 DEF ShownInv
<1> QED BY <1>2, <1>4, <1>7, <1>8, QuietText

LEMMA NewTexts ==
  ASSUME TypeOK, TypeOK', ShownInv, New
  PROVE  ShownInv'
<1>1. UNCHANGED <<ran, home, said, notes, handed, rows>>
  BY DEF New, codex, queue
<1>2. \A q \in Sessions : Like(sess[q], sess'[q])
  BY DEF New, Like, TypeOK, SessionRow
<1> QED BY <1>1, <1>2, SameRows

LEMMA SteeredTexts ==
  ASSUME TypeOK, TypeOK', ShownInv, CallFits, Steered
  PROVE  ShownInv'
<1>1. UNCHANGED <<ran, home, said, notes, handed, rows>>
  BY DEF Steered, codex, queue
<1>2. call.s \in Sessions /\ sess[call.s].active # NoTurn /\ sess[call.s] \in SessionRow
  BY DEF Steered, TypeOK, Asked, CallFits, ForATurn
<1>3. sess[call.s].status # "DELIVERING_FINAL"
  BY <1>2 DEF ShownInv, RowText, ActiveText
<1>4. \A q \in Sessions : Like(sess[q], sess'[q])
  BY <1>2, <1>3 DEF Steered, Like, TypeOK, SessionRow
<1> QED BY <1>1, <1>4, SameRows

LEMMA NoticedTexts ==
  ASSUME TypeOK, TypeOK', ShownInv, NoticesDeath \/ UNCHANGED vars
  PROVE  ShownInv'
<1>1. UNCHANGED <<ran, home, said, notes, handed, rows, sess>>
  BY DEF NoticesDeath, vars, codex, queue
<1>2. \A q \in Sessions : Like(sess[q], sess'[q])
  BY <1>1 DEF Like
<1> QED BY <1>1, <1>2, SameRows

LEMMA CodexTexts ==
  ASSUME TypeOK, TypeOK', ShownInv, CodexStarts
  PROVE  ShownInv'
<1>1. UNCHANGED <<ran, home, said, notes, handed, rows>>
  BY DEF CodexStarts, queue
<1>2. ASSUME NEW s \in Sessions
      PROVE  RowText(s, sess'[s], rows, notes)
  <2> DEFINE r == sess[s]
  <2>0. r \in SessionRow /\ RowText(s, r, rows, notes)
    BY DEF TypeOK, ShownInv
  <2>1. PICK q : q = Recovered(r)
    OBVIOUS
  <2>2. sess'[s] = q
    BY <2>1 DEF CodexStarts
  <2>3. CASE q = r
    BY <2>0, <2>2, <2>3
  <2>4. CASE r.status = "RUNNING_TURN" /\ q = [r EXCEPT !.status = "ACTIVE"]
    <3>1. Like(r, q)
      BY <2>0, <2>4 DEF Like, SessionRow
    <3> QED BY <2>0, <2>2, <3>1, LikeText
  <2>5. CASE r.status = "RUNNING_TURN" /\ q = [Blank(r) EXCEPT !.active = NoTurn, !.delivered = {}, !.completed = NoTurn,
                                                               !.status = "ACTIVE"]
    <3>1. /\ q.active = NoTurn /\ q.completed = NoTurn /\ q.pending = {} /\ q.streamed = {} /\ q.ids = r.ids
          /\ q.status = "ACTIVE"
      BY <2>0, <2>5 DEF Blank, SessionRow
    <3>2. Bare(s, q, rows)
      BY <2>0, <2>5, <3>1 DEF Bare, OwnTurns, RowText, OwnIds
    <3> QED BY <2>2, <3>2, BareText
  <2> QED BY <2>1, <2>3, <2>4, <2>5 DEF Recovered
<1> QED BY <1>1, <1>2, SameTexts

LEMMA StopTexts ==
  ASSUME TypeOK, TypeOK', ShownInv, AtHome, NEW s \in Sessions, Stop(s)
  PROVE  ShownInv'
<1> DEFINE r == sess[s]
<1>0. /\ r \in SessionRow /\ RowText(s, r, rows, notes) /\ UNCHANGED <<home, said, notes, handed, rows>>
      /\ r.active # NoTurn /\ r.active \in Started
  BY DEF TypeOK, ShownInv, Stop, queue, AtHome
<1>1. \A t \in Started : GoesOn(t) /\ home'[t] = home[t]
  BY <1>0 DEF Stop, GoesOn, Running, Started, TypeOK
<1>2. Grows
  BY <1>0, <1>1, GrowsCalmly
<1>3. PICK q : q = sess'[s]
  OBVIOUS
<1>4. /\ q.active = NoTurn /\ q.completed = r.completed /\ q.pending = {} /\ q.ids = r.ids /\ q.status = "INTERRUPTED"
      /\ \A p \in Sessions : p # s => sess'[p] = sess[p]
  BY <1>0, <1>3 DEF Stop, TypeOK, SessionRow
<1>5. RowText(s, q, rows, notes)
  BY <1>0, <1>4 DEF RowText, ActiveText, IdleText, OwnIds, OwnTurns
<1>6. \A p \in Sessions : RowText(p, sess'[p], rows', notes')
  BY <1>0, <1>3, <1>4, <1>5 DEF ShownInv
<1>7. ChatTexts(handed', rows') /\ NotesOwn(notes') /\ SaidByStarted
  BY <1>0 DEF ShownInv
<1> QED BY <1>0, <1>1, <1>2, <1>6, <1>7, QuietText

-----------------------------------------------------------------------------
(* The texts when the app server speaks, and when it is gone.              *)

(* What a notification says of its turn. *)
TrueNote(n) == /\ n.text \subseteq Pieces(n.turn)
               /\ n.kind = "message" => ran[n.turn] \in {"spoken", "over"} /\ n.text = Pieces(n.turn)
               /\ n.kind \in EndKinds => n.text = {}

LEMMA NoteLater ==
  ASSUME TypeOK, TypeOK', Grows, NEW n \in Notices, TrueNote(n)
  PROVE  TrueNote(n)'
<1>1. n.turn \in Turns
  BY DEF Notices
<1>2. PICK text : text = n.text
  OBVIOUS
<1>3. (text \subseteq Pieces(n.turn) => text \subseteq Pieces(n.turn)')
      /\ (ran[n.turn] # "running" => Pieces(n.turn)' = Pieces(n.turn))
  BY <1>1, <1>2, GrowsText
<1>4. n.kind = "message" => ran'[n.turn] \in {"spoken", "over"}
  BY <1>1 DEF Grows, TrueNote
<1> QED BY <1>2, <1>3, <1>4 DEF TrueNote

LEMMA NotesAreTrue ==
  ASSUME NEW ns
  PROVE  NotesOwn(ns) <=> /\ \A i \in DOMAIN ns : TrueNote(ns[i])
                          /\ \A i, j \in DOMAIN ns : i < j => Follow(ns[i], ns[j])
  BY DEF NotesOwn, TrueNote

LEMMA MoreNotes ==
  ASSUME NEW ns \in Seq(Notices), NEW n \in Notices, NEW more, more = Append(ns, n)
  PROVE  /\ DOMAIN ns = 1..Len(ns) /\ Len(ns) \in Nat /\ DOMAIN more = 1..(Len(ns) + 1) /\ more[Len(ns) + 1] = n
         /\ \A i \in DOMAIN ns : more[i] = ns[i]
         /\ \A i \in DOMAIN more : i \in DOMAIN ns \/ i = Len(ns) + 1
<1>1. DOMAIN ns = 1..Len(ns) /\ Len(ns) \in Nat /\ Len(more) = Len(ns) + 1 /\ DOMAIN more = 1..(Len(ns) + 1)
  BY AppendProperties, LenProperties
<1>2. more[Len(ns) + 1] = n /\ \A i \in DOMAIN ns : more[i] = ns[i]
  BY <1>1, AppendProperties
<1>3. \A i \in DOMAIN more : i \in DOMAIN ns \/ i = Len(ns) + 1
  BY <1>1
<1> QED BY <1>1, <1>2, <1>3

LEMMA MoreComing ==
  ASSUME NEW ns \in Seq(Notices), NEW n \in Notices, NEW more, more = Append(ns, n), NEW t
  PROVE  /\ \A x : x \in Coming(t, more) <=> x \in Coming(t, ns) \/ (n.turn = t /\ x \in n.text)
         /\ EndsWith(t, more) => EndsWith(t, ns) \/ (n.turn = t /\ n.kind \in EndKinds)
<1>1. /\ \A i \in DOMAIN ns : more[i] = ns[i] /\ i \in DOMAIN more
      /\ \A i \in DOMAIN more : i \in DOMAIN ns \/ i = Len(ns) + 1
      /\ Len(ns) + 1 \in DOMAIN more /\ more[Len(ns) + 1] = n
  BY MoreNotes
<1>2. ASSUME NEW x
      PROVE  x \in Coming(t, more) <=> x \in Coming(t, ns) \/ (n.turn = t /\ x \in n.text)
  <2>1. x \in Coming(t, more) <=> \E i \in DOMAIN more : more[i].turn = t /\ x \in more[i].text
    BY DEF Coming
  <2>2. x \in Coming(t, ns) <=> \E i \in DOMAIN ns : ns[i].turn = t /\ x \in ns[i].text
    BY DEF Coming
  <2> QED BY <1>1, <2>1, <2>2
<1>3. EndsWith(t, more) => EndsWith(t, ns) \/ (n.turn = t /\ n.kind \in EndKinds)
  BY <1>1 DEF EndsWith
<1> QED BY <1>2, <1>3

(* A turn says something more. *)
Speaks(t, n) ==
    /\ n.turn = t /\ notes' = Append(notes, n) /\ Running(t)
    /\ \A u \in Turns : u # t => ran'[u] = ran[u] /\ said'[u] = said[u]
    /\ \/ /\ n.kind = "delta" /\ ran[t] = "running" /\ ran'[t] = "running" /\ said'[t] = said[t] + 1
          /\ n.text = {<<t, said[t] + 1>>}
       \/ n.kind = "message" /\ ran[t] = "running" /\ ran'[t] = "spoken" /\ said'[t] = said[t] /\ n.text = Pieces(t)
       \/ n.kind \in EndKinds /\ ran'[t] = "over" /\ said'[t] = said[t] /\ n.text = {}

LEMMA SpeaksTexts ==
  ASSUME TypeOK, TypeOK', ShownInv, EndsAreTrue, UNCHANGED <<sess, home, handed, rows>>,
         NEW t \in Turns, NEW n \in Notices, Speaks(t, n)
  PROVE  ShownInv'
<1>0. notes \in Seq(Notices) /\ said[t] \in Nat /\ notes' = Append(notes, n) /\ n.turn = t /\ Running(t)
  BY SaidTypes DEF TypeOK, Speaks
<1>1. Grows
  <2>1. \A u \in Turns : said[u] \in Nat
    BY SaidTypes
  <2>2. \A u \in Turns : u # t => ran'[u] = ran[u] /\ said'[u] = said[u]
    BY DEF Speaks
  <2>3. said[t] <= said'[t] /\ (ran[t] # "running" => said'[t] = said[t]) /\ ran'[t] # "unused"
        /\ (ran[t] = "spoken" => ran'[t] = "over") /\ ran[t] \in {"running", "spoken"}
    BY <1>0 DEF Speaks, Running, EndKinds
  <2> QED BY <2>1, <2>2, <2>3 DEF Grows, Started
<1>2. /\ DOMAIN notes = 1..Len(notes) /\ Len(notes) \in Nat /\ DOMAIN notes' = 1..(Len(notes) + 1)
      /\ notes'[Len(notes) + 1] = n /\ \A i \in DOMAIN notes : notes'[i] = notes[i]
      /\ \A u : /\ Coming(u, notes') = Coming(u, notes) \cup (IF n.turn = u THEN n.text ELSE {})
                /\ EndsWith(u, notes') => EndsWith(u, notes) \/ (n.turn = u /\ n.kind \in EndKinds)
  <2>1. PICK more : more = notes'
    OBVIOUS
  <2>2. PICK ns : ns = notes
    OBVIOUS
  <2>3. ns \in Seq(Notices) /\ more = Append(ns, n)
    BY <1>0, <2>1, <2>2
  <2>4. /\ DOMAIN ns = 1..Len(ns) /\ Len(ns) \in Nat /\ DOMAIN more = 1..(Len(ns) + 1) /\ more[Len(ns) + 1] = n
        /\ \A i \in DOMAIN ns : more[i] = ns[i]
    BY <2>3, MoreNotes
  <2>5. ASSUME NEW u
        PROVE  Coming(u, more) = Coming(u, ns) \cup (IF n.turn = u THEN n.text ELSE {})
    <3>1. \A x : x \in Coming(u, more) <=> x \in Coming(u, ns) \/ (n.turn = u /\ x \in n.text)
      BY <2>3, MoreComing, Zenon
    <3> QED BY <3>1
  <2>6. ASSUME NEW u
        PROVE  EndsWith(u, more) => EndsWith(u, ns) \/ (n.turn = u /\ n.kind \in EndKinds)
    BY <2>3, MoreComing, Zenon
  <2> QED BY <2>1, <2>2, <2>4, <2>5, <2>6
<1>3. ChatTexts(handed, rows)'
  BY <1>1, ChatNext DEF ShownInv
<1>4. SaidByStarted'
  BY <1>0, <1>1 DEF ShownInv, SaidByStarted, Grows, Speaks, Started, Running
<1>5. \A i \in DOMAIN notes : TrueNote(notes[i]) /\ notes[i] \in Notices
  BY <1>0, NotesAreTrue DEF ShownInv
<1>6. TrueNote(n)'
  <2>1. n.text \subseteq Pieces(t)'
    <3>1. CASE n.text = {<<t, said[t] + 1>>} /\ said'[t] = said[t] + 1
      <4>1. said[t] + 1 \in 1..said'[t]
        BY <1>0, <3>1
      <4>2. <<t, said[t] + 1>> \in Pieces(t)'
        BY <4>1 DEF Pieces
      <4> QED BY <3>1, <4>2
    <3>2. CASE n.text = {} \/ (n.text = Pieces(t) /\ said'[t] = said[t])
      BY <3>2 DEF Pieces
    <3> QED BY <3>1, <3>2 DEF Speaks
  <2>2. n.kind = "message" => ran'[t] = "spoken" /\ n.text = Pieces(t)'
    BY DEF Speaks, Pieces, EndKinds
  <2>3. n.kind \in EndKinds => n.text = {}
    BY DEF Speaks, EndKinds
  <2> QED BY <1>0, <2>1, <2>2, <2>3 DEF TrueNote
<1>7. ASSUME NEW i \in DOMAIN notes
      PROVE  Follow(notes[i], n)
  <2> SUFFICES ASSUME notes[i].turn = t
               PROVE  notes[i].kind = "delta" \/ (notes[i].kind = "message" /\ n.kind \in EndKinds)
    BY <1>0 DEF Follow
  <2>1. notes[i].kind \in {"delta", "message"}
    BY <1>0, <1>5 DEF EndsAreTrue, Running, Notices, EndKinds
  <2>2. notes[i].kind = "message" => ran[t] # "running"
    BY <1>5 DEF TrueNote
  <2> QED BY <2>1, <2>2 DEF Speaks
<1>8. NotesOwn(notes)'
  <2>1. ASSUME NEW i \in DOMAIN notes'
        PROVE  /\ TrueNote(notes[i])'
               /\ \A j \in DOMAIN notes' : i < j => Follow(notes'[i], notes'[j])
    <3>1. CASE i \in DOMAIN notes
      <4>1. PICK m \in Notices : m = notes[i]
        BY <1>5, <3>1
      <4>2. TrueNote(m)'
        BY <1>1, <1>5, <3>1, <4>1, NoteLater
      <4>3. \A j \in DOMAIN notes' : i < j => Follow(notes'[i], notes'[j])
        BY <1>2, <1>7, <3>1 DEF ShownInv, NotesOwn
      <4> QED BY <1>2, <3>1, <4>1, <4>2, <4>3 DEF TrueNote
    <3>2. CASE i = Len(notes) + 1
      <4>1. \A j \in DOMAIN notes' : ~(i < j)
        BY <1>2, <3>2
      <4> QED BY <1>2, <1>6, <3>2, <4>1 DEF TrueNote
    <3> QED BY <1>2, <3>1, <3>2
  <2> QED BY <2>1 DEF NotesOwn, TrueNote, Follow, EndKinds
<1>9. ASSUME NEW q \in Sessions
      PROVE  RowText(q, sess[q], rows, notes)'
  <2>1. PICK r : r = sess[q]
    OBVIOUS
  <2>2. RowText(q, r, rows, notes) /\ r = sess'[q]
    BY <2>1 DEF ShownInv
  <2>3. Listens(r)
    <3> SUFFICES ASSUME r.active # NoTurn, r.attached, Running(r.active)' \/ EndsWith(r.active, notes')
                 PROVE  Collects(r, notes)'
      BY DEF Listens
    <3> DEFINE u == r.active
    <3>1. u \in Turns /\ u \in Started
      BY <2>2 DEF RowText, OwnTurns, Started
    <3>2. Running(u) \/ EndsWith(u, notes)
      <4>1. CASE u = t
        BY <1>0, <4>1
      <4>2. CASE u # t
        BY <1>0, <1>2, <3>1, <4>2 DEF Speaks, Running
      <4> QED BY <4>1, <4>2
    <3>3. Collects(r, notes)
      BY <2>2, <3>2 DEF RowText, ActiveText
    <3>4. Coming(u, notes)' = Coming(u, notes')
      BY DEF Coming
    <3>5. Coming(u, notes') = Coming(u, notes) \cup (IF n.turn = u THEN n.text ELSE {})
      BY <1>2
    <3>6. Pieces(u)' \subseteq Pieces(u) \cup (IF n.turn = u THEN n.text ELSE {})
      <4>1. CASE said'[u] = said[u]
        BY <4>1 DEF Pieces
      <4>2. CASE u = t /\ said'[t] = said[t] + 1 /\ n.text = {<<t, said[t] + 1>>}
        BY <1>0, <4>2 DEF Pieces
      <4> QED BY <3>1, <4>1, <4>2 DEF Speaks
    <3>7. ASSUME NoMore(u, notes)
          PROVE  NoMore(u, notes)' /\ Pieces(u)' = Pieces(u)
      <4>1. ran[u] # "running" /\ ran'[u] # "running" /\ said'[u] = said[u]
        BY <1>1, <3>1, <3>7 DEF NoMore, Grows, Started, TypeOK
      <4>2. n.turn = u => n.kind \in EndKinds
        BY <1>0, <4>1 DEF Speaks
      <4>3. \A i \in DOMAIN notes' : notes'[i].turn = u => notes'[i].kind \in EndKinds
        BY <1>2, <3>7, <4>2 DEF NoMore
      <4> QED BY <4>1, <4>3 DEF NoMore, Pieces, EndKinds
    <3>8. CASE r.streamed = r.delivered /\ Pieces(u) \subseteq Text(r) \cup Coming(u, notes)
      <4>1. Pieces(u)' \subseteq Text(r) \cup Coming(u, notes)'
        BY <3>4, <3>5, <3>6, <3>8
      <4> QED BY <3>8, <4>1 DEF Collects, Text
    <3>9. CASE NoMore(u, notes) /\ r.streamed = {} /\ r.pending = Pieces(u)
      BY <3>7, <3>9 DEF Collects
    <3>10. CASE NoMore(u, notes) /\ Text(r) = {} /\ r.delivered = Pieces(u)
      BY <3>7, <3>10 DEF Collects, Text
    <3> QED BY <3>3, <3>8, <3>9, <3>10 DEF Collects
  <2>4. rows' = rows
    OBVIOUS
  <2> QED BY <1>1, <2>2, <2>3, <2>4, RowNext
<1> QED BY <1>3, <1>4, <1>8, <1>9 DEF ShownInv

LEMMA SaysTexts ==
  ASSUME TypeOK, TypeOK', ShownInv, EndsAreTrue, NEW t \in Turns, Says(t)
  PROVE  ShownInv'
<1>1. /\ ran[t] = "running" /\ said' = [said EXCEPT ![t] = said[t] + 1]
      /\ Notifies("delta", t, {<<t, said[t] + 1>>})
      /\ UNCHANGED <<sess, home, handed, rows, ran>>
  BY DEF Says, queue
<1>2. said[t] + 1 \in 1..MaxPieces /\ {<<t, said[t] + 1>>} \in Texts
  <2>1. said[t] \in 0..MaxPieces /\ MaxPieces \in Nat /\ said[t] < MaxPieces
    BY ConversationAssumption DEF TypeOK, Says
  <2> QED BY <2>1 DEF Texts
<1>3. PICK n \in Notices : n = [kind |-> "delta", turn |-> t, text |-> {<<t, said[t] + 1>>}]
  BY <1>2 DEF Notices
<1>4. Speaks(t, n)
  BY <1>1, <1>3 DEF Speaks, Notifies, Running, TypeOK
<1> QED BY <1>1, <1>4, SpeaksTexts

LEMMA MessageTexts ==
  ASSUME TypeOK, TypeOK', ShownInv, EndsAreTrue, NEW t \in Turns, CompletesMessage(t)
  PROVE  ShownInv'
<1>1. /\ ran[t] = "running" /\ ran' = [ran EXCEPT ![t] = "spoken"] /\ Notifies("message", t, Pieces(t))
      /\ UNCHANGED <<sess, home, handed, rows, said>>
  BY DEF CompletesMessage, queue
<1>2. PICK n \in Notices : n = [kind |-> "message", turn |-> t, text |-> Pieces(t)]
  BY SaidTypes DEF Notices
<1>3. Speaks(t, n)
  BY <1>1, <1>2 DEF Speaks, Notifies, Running, TypeOK
<1> QED BY <1>1, <1>3, SpeaksTexts

LEMMA EndsTexts ==
  ASSUME TypeOK, TypeOK', ShownInv, EndsAreTrue, NEW t \in Turns, Ends(t)
  PROVE  ShownInv'
<1>1. Running(t) /\ ran' = [ran EXCEPT ![t] = "over"] /\ UNCHANGED <<sess, home, handed, rows, said>>
  BY DEF Ends, queue
<1>2. PICK kind \in EndKinds : Notifies(kind, t, {})
  BY DEF Ends, EndKinds
<1>3. PICK n \in Notices : n = [kind |-> kind, turn |-> t, text |-> {}]
  BY <1>2 DEF Notices, EndKinds, Texts
<1>4. Speaks(t, n)
  BY <1>1, <1>2, <1>3 DEF Speaks, Notifies, TypeOK
<1> QED BY <1>1, <1>4, SpeaksTexts

(* What is left of the notifications of a turn that ends among them is all *)
(* it has said.                                                            *)
LEMMA GoneTexts ==
  ASSUME ConversationInv, TypeOK', ShownInv, Gone, UNCHANGED <<sess, home, said, handed, rows>>,
         NEW n \in Nat, DOMAIN notes' = 1..n, \A i \in 1..n : i \in DOMAIN notes /\ notes'[i] = notes[i]
  PROVE  ShownInv'
<1>0. TypeOK /\ TurnInv
  BY DEF ConversationInv
<1>1. KeepsTurns /\ NobodyRuns'
  BY <1>0, GoneTurns
<1>2. \A t \in Started : GoesOn(t) /\ home'[t] = home[t]
  BY <1>1 DEF KeepsTurns, GoesOn, Started
<1>3. Grows
  BY <1>0, <1>2, GrowsCalmly
<1>4. ChatTexts(handed, rows)'
  BY <1>0, <1>3, ChatNext DEF ShownInv
<1>5. NotesOwn(notes)'
  <2>1. NotesOwn(notes')
    BY DEF ShownInv, NotesOwn
  <2> QED BY <1>0, <1>3, <2>1, NotesNext
<1>6. SaidByStarted'
  BY <1>3 DEF ShownInv, SaidByStarted, Grows
<1>7. ASSUME NEW q \in Sessions
      PROVE  RowText(q, sess[q], rows, notes)'
  <2>1. PICK r : r = sess[q]
    OBVIOUS
  <2>2. RowText(q, r, rows, notes) /\ r = sess'[q] /\ rows' = rows
    BY <2>1 DEF ShownInv
  <2>3. Listens(r)
    <3> SUFFICES ASSUME r.active # NoTurn, r.attached, Running(r.active)' \/ EndsWith(r.active, notes')
                 PROVE  Collects(r, notes)'
      BY DEF Listens
    <3>1. r.active \in Turns /\ r.active \in Started
      BY <2>2 DEF RowText, OwnTurns, Started
    <3>2. PICK i \in 1..n : notes[i].turn = r.active /\ notes[i].kind \in EndKinds /\ i \in DOMAIN notes
      BY <1>1, <3>1 DEF NobodyRuns, EndsWith
    <3>3. ASSUME NEW j \in DOMAIN notes, notes[j].turn = r.active
          PROVE  j \in 1..n /\ notes'[j] = notes[j]
      <4>1. notes \in Seq(Notices) /\ DOMAIN notes = 1..Len(notes) /\ Len(notes) \in Nat
        BY <1>0, LenProperties DEF TypeOK
      <4>2. ~(i < j)
        BY <3>2, <3>3 DEF ShownInv, NotesOwn, Follow, EndKinds
      <4> QED BY <4>1, <4>2
    <3>4. Coming(r.active, notes) \subseteq Coming(r.active, notes')
      BY <3>3 DEF Coming
    <3>5. NoMore(r.active, notes) => NoMore(r.active, notes)'
      BY <1>1, <3>1 DEF NoMore, NobodyRuns, Running
    <3>6. Collects(r, notes)
      BY <2>2, <3>2 DEF RowText, ActiveText, EndsWith
    <3>7. Pieces(r.active)' = Pieces(r.active) /\ Coming(r.active, notes)' = Coming(r.active, notes')
      BY DEF Pieces, Coming
    <3> QED BY <3>4, <3>5, <3>6, <3>7 DEF Collects, Text
  <2> QED BY <1>0, <1>3, <2>2, <2>3, RowNext
<1> QED BY <1>4, <1>5, <1>6, <1>7 DEF ShownInv

LEMMA ServerTexts ==
  ASSUME ConversationInv, TypeOK', ShownInv, ServerStops \/ Crash
  PROVE  ShownInv'
<1>1. Gone /\ UNCHANGED <<sess, home, said, handed, rows>>
  BY DEF ServerStops, Crash, queue
<1>2. CASE ServerStops
  <2>1. PICK n \in 0..Len(notes) : notes' = SubSeq(notes, 1, n)
    BY <1>2 DEF ServerStops
  <2>2. notes \in Seq(Notices) /\ Len(notes) \in Nat /\ DOMAIN notes = 1..Len(notes)
    BY DEF ConversationInv, TypeOK
  <2>3. n \in Nat /\ DOMAIN notes' = 1..n /\ \A i \in 1..n : i \in DOMAIN notes /\ notes'[i] = notes[i]
    BY <2>1, <2>2
  <2> QED BY <1>1, <2>3, GoneTexts
<1>3. CASE Crash
  <2>1. notes' = <<>> /\ DOMAIN <<>> = 1..0 /\ 0 \in Nat
    BY <1>3 DEF Crash
  <2>2. DOMAIN notes' = 1..0 /\ \A i \in 1..0 : i \in DOMAIN notes /\ notes'[i] = notes[i]
    BY <2>1
  <2> QED BY <1>1, <2>1, <2>2, GoneTexts
<1> QED BY <1>2, <1>3

-----------------------------------------------------------------------------
(* The texts through the requests.                                         *)

(* A session without a text, before its next turn. *)
LEMMA CleanRow ==
  ASSUME TypeOK, ShownInv, CallFits, CleanCall, ForATurn, NEW s, s = call.s
  PROVE  /\ s \in Sessions /\ sess[s] \in SessionRow /\ sess[s].active = NoTurn
         /\ sess[s].pending = {} /\ sess[s].streamed = {}
         /\ sess[s].ids \in Turns => /\ sess[s].ids \in Started /\ home[sess[s].ids].s = s
                                     /\ rows[sess[s].ids] = {}
         /\ OwnTurns(s, sess[s])
<1>1. s \in Sessions /\ sess[s] \in SessionRow
  BY CallTyped
<1>2. sess[s].active = NoTurn
  BY DEF CallFits, ForATurn
<1>3. Text(sess[s]) = {}
  BY DEF CleanCall
<1>4. sess[s].pending = {} /\ sess[s].streamed = {}
  BY <1>3 DEF Text
<1>5. RowText(s, sess[s], rows, notes)
  BY <1>1 DEF ShownInv
<1> QED BY <1>1, <1>2, <1>3, <1>4, <1>5 DEF RowText, OwnIds

LEMMA ThreadTexts ==
  ASSUME TypeOK, TypeOK', ShownInv, CallFits, CleanCall, ThreadReady
  PROVE  ShownInv'
<1>1. PICK s : s = call.s
  OBVIOUS
<1>2. ForATurn /\ UNCHANGED <<ran, home, said, notes, handed, rows>>
  BY DEF ThreadReady, Asked, ForATurn, queue
<1>3. /\ s \in Sessions /\ sess[s] \in SessionRow /\ sess[s].active = NoTurn
      /\ sess[s].pending = {} /\ sess[s].streamed = {}
      /\ sess[s].ids \in Turns => /\ sess[s].ids \in Started /\ home[sess[s].ids].s = s
                                  /\ rows[sess[s].ids] = {}
      /\ OwnTurns(s, sess[s])
  BY <1>1, <1>2, CleanRow
<1>4. PICK thread : sess' = [sess EXCEPT ![s] = Ready(sess[s], thread)]
  BY <1>1 DEF ThreadReady
<1>5. PICK r : r = Ready(sess[s], thread)
  OBVIOUS
<1>6. sess'[s] = r /\ \A q \in Sessions : q # s => sess'[q] = sess[q]
  BY <1>3, <1>4, <1>5 DEF TypeOK
<1>7. /\ r.active = NoTurn /\ r.pending = {} /\ r.streamed = {} /\ r.status = "ACTIVE" /\ r.ids = sess[s].ids
      /\ r.completed = sess[s].completed
  BY <1>3, <1>5 DEF Ready, SessionRow
<1>8. Bare(s, r, rows)
  BY <1>3, <1>7 DEF Bare, OwnTurns
<1>9. \A q \in Sessions : RowText(q, sess'[q], rows, notes)
  BY <1>6, <1>8, BareText DEF ShownInv
<1> QED BY <1>2, <1>9, SameTexts

LEMMA TurnsGoOn ==
  ASSUME ConversationInv, ForATurn, NEW s, TurnRuns(s), said' = said, NEW n, n = NextTurn
  PROVE  /\ Grows /\ \A t \in Started : GoesOn(t) /\ t # n /\ t <= n
         /\ n \in Turns /\ n \notin Started /\ ran'[n] = "running" /\ Started' = Started \cup {n}
         /\ home'[n].s = s /\ home'[n].thread = sess[s].thread
         /\ \A t \in Turns : t # n => home'[t] = home[t]
<1>0. TypeOK /\ n \in Turns /\ n \notin Started /\ n = Begun + 1 /\ Begun \in Nat /\ Started = 1..Begun
  BY RoomForTurn DEF ConversationInv, TurnInv, InTurn
<1>1. /\ ran' = [ran EXCEPT ![n] = "running"]
      /\ home' = [home EXCEPT ![n] = [s |-> s, thread |-> sess[s].thread]]
  BY DEF TurnRuns
<1>2. /\ ran'[n] = "running" /\ home'[n] = [s |-> s, thread |-> sess[s].thread]
      /\ \A t \in Turns : t # n => ran'[t] = ran[t] /\ home'[t] = home[t]
  BY <1>0, <1>1 DEF TypeOK
<1>3. \A t \in Started : t # n /\ t <= n /\ t \in Turns
  BY <1>0 DEF Started
<1>4. \A t \in Started : GoesOn(t) /\ home'[t] = home[t]
  BY <1>2, <1>3 DEF GoesOn
<1>5. Grows
  BY <1>0, <1>4, GrowsCalmly
<1>6. Started' = Started \cup {n}
  BY <1>0, <1>2 DEF Started
<1> QED BY <1>0, <1>2, <1>3, <1>4, <1>5, <1>6

LEMMA StartTexts ==
  ASSUME ConversationInv, TypeOK', ShownInv, CleanCall, TurnStarts
  PROVE  ShownInv'
<1>0. TypeOK /\ CallFits
  BY DEF ConversationInv, TurnInv
<1>1. PICK s : s = call.s
  OBVIOUS
<1>2. ForATurn /\ TurnRuns(s) /\ UNCHANGED <<said, notes, handed, rows>> /\ call.kind = "turn"
  BY <1>1 DEF TurnStarts, Asked, ForATurn, queue
<1>3. /\ s \in Sessions /\ sess[s] \in SessionRow /\ sess[s].active = NoTurn
      /\ sess[s].pending = {} /\ sess[s].streamed = {}
      /\ sess[s].ids \in Turns => /\ sess[s].ids \in Started /\ home[sess[s].ids].s = s
                                  /\ rows[sess[s].ids] = {}
      /\ OwnTurns(s, sess[s])
  BY <1>0, <1>1, <1>2, CleanRow
<1>4. PICK n : n = NextTurn
  OBVIOUS
<1>5. /\ Grows /\ (\A t \in Started : GoesOn(t) /\ t # n)
      /\ n \in Turns /\ n \notin Started /\ ran'[n] = "running" /\ Started' = Started \cup {n}
      /\ home'[n].s = s /\ \A t \in Turns : t # n => home'[t] = home[t]
  BY <1>2, <1>4, TurnsGoOn
<1>6. sess' = [sess EXCEPT ![s] = [@ EXCEPT !.active = n, !.pending = {}, !.status = "RUNNING_TURN"]]
  BY <1>1, <1>3, <1>4 DEF TurnStarts, TypeOK
<1>7. PICK r : r = sess'[s]
  OBVIOUS
<1>8. /\ r.active = n /\ r.pending = {} /\ r.streamed = {} /\ r.status = "RUNNING_TURN" /\ r.delivered = {}
      /\ r.ids = sess[s].ids /\ r.completed = sess[s].completed
      /\ \A q \in Sessions : q # s => sess'[q] = sess[q]
  <2>1. sess[s].delivered = {}
    BY <1>1, <1>2 DEF CleanCall
  <2> QED BY <1>0, <1>3, <1>6, <1>7, <2>1 DEF TypeOK, SessionRow
<1>9. said[n] = 0 /\ rows[n] = {} /\ ran[n] # "over" /\ n # NoTurn /\ Pieces(n)' = {}
  <2>1. said[n] = 0
    BY <1>0, <1>5, SaidTypes DEF ShownInv, SaidByStarted
  <2>2. ran[n] # "over"
    BY <1>5 DEF Started
  <2>3. rows[n] = {}
    BY <1>5, <2>2 DEF ShownInv, ChatTexts, Full
  <2>4. n # NoTurn
    BY <1>0, <1>5, SaidTypes
  <2>5. said'[n] = 0 /\ Pieces(n)' = {}
    BY <1>2, <2>1 DEF Pieces
  <2> QED BY <2>1, <2>2, <2>3, <2>4, <2>5
<1>10. RowText(s, r, rows, notes)'
  <2>1. Text(r) = {} /\ rows' = rows
    BY <1>2, <1>8 DEF Text
  <2>2. ActiveText(r, rows, notes)'
    <3>1. Collects(r, notes)'
      BY <1>8, <1>9 DEF Collects
    <3>2. Own(n, Text(r))'
      BY <2>1 DEF Own, Text
    <3> QED BY <1>8, <1>9, <2>1, <3>1, <3>2 DEF ActiveText, Own, Text
  <2>3. IdleText(r)'
    BY <1>8, <1>9 DEF IdleText
  <2>4. OwnIds(s, r, rows)'
    BY <1>3, <1>5, <1>8, <2>1 DEF OwnIds
  <2>5. OwnTurns(s, r)'
    BY <1>3, <1>5, <1>8, <1>9 DEF OwnTurns, Started
  <2> QED BY <2>2, <2>3, <2>4, <2>5 DEF RowText, ActiveText, IdleText, OwnIds, OwnTurns, Collects, Text
<1>11. ASSUME NEW q \in Sessions, q # s
       PROVE  RowText(q, sess[q], rows, notes)'
  <2>1. PICK p : p = sess'[q]
    OBVIOUS
  <2>2. RowText(q, p, rows', notes')
    BY <1>2, <1>8, <1>11, <2>1 DEF ShownInv
  <2>3. p.active # NoTurn => GoesOn(p.active)
    BY <1>5, <2>2 DEF RowText, OwnTurns
  <2>4. Listens(p)
    BY <1>0, <1>2, <2>2, <2>3, ListensOn DEF RowText
  <2> QED BY <1>0, <1>5, <2>1, <2>2, <2>4, RowNext
<1>12. \A q \in Sessions : RowText(q, sess[q], rows, notes)'
  <2>1. RowText(s, sess[s], rows, notes)'
    BY <1>7, <1>10
  <2> QED BY <1>11, <2>1
<1>13. ChatTexts(handed, rows)'
  BY <1>0, <1>2, <1>5, ChatNext DEF ShownInv
<1>14. NotesOwn(notes)'
  BY <1>0, <1>2, <1>5, NotesNext DEF ShownInv
<1>15. SaidByStarted'
  BY <1>2, <1>5 DEF ShownInv, SaidByStarted
<1> QED BY <1>12, <1>13, <1>14, <1>15 DEF ShownInv

LEMMA RequestFailsTexts ==
  ASSUME ConversationInv, TypeOK', ShownInv, CleanCall, RequestFails
  PROVE  ShownInv'
<1>0. TypeOK /\ CallFits
  BY DEF ConversationInv, TurnInv
<1>1. PICK s \in Sessions : s = call.s
  BY <1>0, CallTyped
<1>2. /\ call.kind # "none" /\ UNCHANGED <<said, notes>>
      /\ Published(s, [Work(s) EXCEPT !.r.thread = call.thread, !.r.delivered = call.delivered])
  BY <1>1 DEF RequestFails
<1>3. PICK w : w = [Work(s) EXCEPT !.r.thread = call.thread, !.r.delivered = call.delivered]
  OBVIOUS
<1>4. PICK r : r = [sess[s] EXCEPT !.thread = call.thread, !.delivered = call.delivered]
  OBVIOUS
<1>5. r \in SessionRow /\ r.ids = sess[s].ids /\ r.completed = sess[s].completed
  <2>1. sess[s] \in SessionRow /\ call.thread \in 0..MaxMessages /\ call.delivered \in Texts
    BY <1>0, <1>1, CallTyped
  <2> QED BY <1>4, <2>1 DEF SessionRow
<1>6. w \in WorkItem /\ w.r = r /\ w.handed = handed /\ w.rows = rows
  <2>1. w = [Work(s) EXCEPT !.r = r]
    BY <1>3, <1>4 DEF Work
  <2> QED BY <1>0, <1>5, <2>1, WorkOfRow, WithRowOf DEF Work
<1>7. RowText(s, sess[s], rows, notes) /\ ChatTexts(handed, rows)
  BY DEF ShownInv
<1>8. Clearable(w)
  <2>1. CASE ForATurn
    BY <1>0, <1>1, <1>5, <1>6, <2>1, CleanRow DEF Clearable
  <2>2. CASE ~ForATurn
    <3>1. sess[s].active # NoTurn
      BY <1>0, <1>1, <1>2, <2>2 DEF CallFits
    <3> QED BY <1>5, <1>6, <1>7, <3>1 DEF RowText, ActiveText, OwnIds, Clearable
  <2> QED BY <2>1, <2>2
<1>9. w.r.completed # NoTurn => w.r.completed \in Started /\ home[w.r.completed].s = s
  BY <1>5, <1>6, <1>7 DEF RowText, OwnTurns
<1>10. PICK v : ItemText(s, v, notes) /\ RowsKept(s, Work(s), v) /\ Saved(s, v)
  BY <1>0, <1>2, <1>3, <1>6, <1>7, <1>8, <1>9, PublishedText
<1>11. CASE UNCHANGED <<ran, home>>
  BY <1>0, <1>2, <1>10, <1>11, OwnStep
<1>12. CASE call.kind = "turn" /\ TurnRuns(s)
  <2>1. ForATurn
    BY <1>12 DEF ForATurn
  <2>2. Grows /\ \A t \in Started : GoesOn(t)
    BY <1>2, <1>12, <2>1, TurnsGoOn
  <2>3. \A q \in Sessions : q # s => RowText(q, sess[q], rows, notes')
    BY <1>2 DEF ShownInv
  <2>4. ItemText(s, v, notes') /\ NotesOwn(notes') /\ SaidByStarted
    BY <1>2, <1>10 DEF ShownInv
  <2> QED BY <1>0, <1>2, <1>10, <2>2, <2>3, <2>4, ActorStep
<1> QED BY <1>1, <1>11, <1>12 DEF RequestFails, Asked

-----------------------------------------------------------------------------
(* The texts through the messages of the user.                             *)

(* A turn is asked for with a clean session. *)
AsksWith(s, w, v) ==
    /\ ItemText(s, v, notes) /\ RowsKept(s, Work(s), v) /\ Saved(s, v)
    /\ v.r.active = NoTurn /\ Text(v.r) = {} /\ v.r.thread = w.r.thread
    /\ call'.kind \in {"thread", "turn"} /\ call'.s = s /\ call'.thread = sess[s].thread
    /\ call'.kind = "turn" => v.r.delivered = {} /\ v.r.thread # 0

LEMMA AskedText ==
  ASSUME TypeOK, NEW s \in Sessions, NEW w \in WorkItem, Bare(s, w.r, w.rows), w.rows = rows,
         ChatTexts(w.handed, w.rows), AsksForTurn(s, w)
  PROVE  \E v : AsksWith(s, w, v)
<1>1. PICK r : r = [w.r EXCEPT !.quiet = FALSE]
  OBVIOUS
<1>2. /\ w.r \in SessionRow /\ r \in SessionRow /\ r.thread \in 0..MaxMessages
      /\ r.active = w.r.active /\ r.completed = w.r.completed /\ r.thread = w.r.thread /\ r.ids = w.r.ids
      /\ r.pending = w.r.pending /\ r.streamed = w.r.streamed /\ r.status = w.r.status
  BY <1>1 DEF WorkItem, SessionRow
<1>3. PICK q : q = Ready(r, r.thread)
  OBVIOUS
<1>4. q \in SessionRow
  BY <1>2, <1>3, ReadyRow
<1>5. /\ q.active = w.r.active /\ q.completed = w.r.completed /\ q.thread = w.r.thread /\ q.ids = w.r.ids
      /\ q.pending = w.r.pending /\ q.streamed = {} /\ q.delivered = {} /\ q.status = "ACTIVE"
  BY <1>2, <1>3 DEF Ready, SessionRow
<1>6. Bare(s, r, rows) /\ Bare(s, q, rows)
  BY <1>2, <1>5 DEF Bare, OwnTurns
<1>7. PICK v : v = [w EXCEPT !.r = q]
  OBVIOUS
<1>8. PICK u : u = [w EXCEPT !.r = r]
  OBVIOUS
<1>9. /\ v \in WorkItem /\ v.r = q /\ v.handed = w.handed /\ v.rows = rows
      /\ u \in WorkItem /\ u.r = r /\ u.handed = w.handed /\ u.rows = rows
  BY <1>2, <1>4, <1>7, <1>8, WithRowOf
<1>10. ItemText(s, v, notes) /\ ItemText(s, u, notes) /\ RowsKept(s, Work(s), v) /\ RowsKept(s, Work(s), u)
  BY <1>6, <1>9, BareText DEF ItemText, RowsKept, Work
<1>11. \/ Begins("turn", s) /\ Saved(s, v) /\ w.r.thread \in resumed
       \/ Begins("thread", s) /\ Saved(s, u)
  <2>1. [w EXCEPT !.r = Ready([@ EXCEPT !.quiet = FALSE], @.thread)] = [w EXCEPT !.r = q]
    BY <1>1, <1>2, <1>3
  <2>2. [w EXCEPT !.r.quiet = FALSE] = [w EXCEPT !.r = r]
    BY <1>1
  <2> QED BY <1>7, <1>8, <2>1, <2>2 DEF AsksForTurn
<1>12. w.r.active = NoTurn /\ Text(q) = {} /\ Text(r) = {}
  BY <1>6 DEF Bare, Text
<1>13. CASE Begins("turn", s) /\ Saved(s, v) /\ w.r.thread \in resumed
  <2>1. w.r.thread # 0
    BY <1>13 DEF TypeOK
  <2>2. call'.kind = "turn" /\ call'.s = s /\ call'.thread = sess[s].thread
    BY <1>13 DEF Begins
  <2> QED BY <1>5, <1>9, <1>10, <1>12, <1>13, <2>1, <2>2 DEF AsksWith
<1>14. CASE Begins("thread", s) /\ Saved(s, u)
  <2>1. call'.kind = "thread" /\ call'.s = s /\ call'.thread = sess[s].thread
    BY <1>14 DEF Begins
  <2> QED BY <1>2, <1>9, <1>10, <1>12, <1>14, <2>1 DEF AsksWith
<1> QED BY <1>11, <1>13, <1>14

(* A session keeps its thread, or loses its turn. *)
KeepsThread(q) ==
    /\ sess'[q].thread \in {sess[q].thread, 0} /\ sess'[q].active \in {sess[q].active, NoTurn}
    /\ sess'[q].active # NoTurn => sess'[q].thread = sess[q].thread

AsksCleanly(s) ==
    /\ call'.s = s /\ call'.thread = sess[s].thread
    /\ ForATurn' => Text(sess'[s]) = {}
    /\ call'.kind = "turn" => sess'[s].delivered = {} /\ sess'[s].thread # 0

(* An error leaves a session without a turn. *)
LEMMA PublishedThread ==
  ASSUME TypeOK, NEW s \in Sessions, NEW w \in WorkItem, Published(s, w)
  PROVE  /\ sess'[s].thread \in {w.r.thread, 0} /\ sess'[s].active = NoTurn
         /\ \A q \in Sessions : q # s => sess'[q] = sess[q]
<1>1. PICK edits \in BOOLEAN, forget \in BOOLEAN :
        Saved(s, [(IF edits THEN Cleared(w) ELSE w) EXCEPT !.r = Reset(@, forget)])
  BY DEF Published
<1>2. PICK n : n = IF edits THEN Cleared(w) ELSE w
  OBVIOUS
<1>3. n \in WorkItem /\ n.r.thread = w.r.thread /\ n.r \in SessionRow
  BY <1>2, ClearedItem DEF Keeps, SameTurn, WorkItem
<1>4. PICK r : r = Reset(n.r, forget)
  OBVIOUS
<1>5. r \in SessionRow
  BY <1>3, <1>4, ResetRow
<1>6. r.thread \in {n.r.thread, 0} /\ r.active = NoTurn
  BY <1>3, <1>4 DEF Reset, Blank, SessionRow
<1>7. PICK v : v = [n EXCEPT !.r = Reset(@, forget)]
  OBVIOUS
<1>8. v \in WorkItem /\ v.r = r
  BY <1>3, <1>4, <1>5, <1>7 DEF WorkItem
<1>9. Saved(s, v)
  BY <1>1, <1>2, <1>7
<1> QED BY <1>3, <1>6, <1>8, <1>9, SavedRow

LEMMA HandledText ==
  ASSUME ConversationInv, TypeOK', ShownInv, MainFree, NEW s \in Sessions, NEW w \in WorkItem, Handles(s, w),
         w.handed = handed, w.rows = rows, Like(sess[s], w.r), w.r.thread = sess[s].thread
  PROVE  /\ ShownInv' /\ KeepsThread(s) /\ (\A q \in Sessions : q # s => sess'[q] = sess[q])
         /\ Started' = Started
         /\ call' = call \/ AsksCleanly(s)
<1>0. /\ TypeOK /\ AtHome /\ w.r \in SessionRow /\ w.r.active = sess[s].active
      /\ ChatTexts(handed, rows) /\ NotesOwn(notes) /\ SaidByStarted
      /\ \A q \in Sessions : RowText(q, sess[q], rows, notes)
  BY DEF ConversationInv, TurnInv, ShownInv, WorkItem, Like
<1>1. UNCHANGED <<home, said, notes>>
  BY DEF Handles
<1>2. RowText(s, w.r, rows, notes) /\ ItemText(s, w, notes)
  <2>1. RowText(s, w.r, rows, notes)
    BY <1>0, LikeText
  <2> QED BY <1>0, <2>1 DEF ItemText
<1>3. ASSUME NEW r \in SessionRow, Like(w.r, r), r.thread = w.r.thread, r.active = w.r.active,
             NEW v, v = [w EXCEPT !.r = r], Saved(s, v), UNCHANGED ran
      PROVE  /\ ShownInv' /\ KeepsThread(s) /\ (\A q \in Sessions : q # s => sess'[q] = sess[q])
             /\ Started' = Started /\ sess'[s] = r
  <2>1. v \in WorkItem /\ v.r = r /\ v.handed = handed /\ v.rows = rows
    BY <1>3, WithRowOf
  <2>2. ItemText(s, v, notes) /\ RowsKept(s, Work(s), v)
    BY <1>0, <1>2, <1>3, <2>1, LikeText DEF ItemText, RowsKept, Work
  <2>3. ShownInv'
    BY <1>0, <1>1, <1>3, <2>2, OwnStep
  <2>4. sess'[s] = r /\ \A q \in Sessions : q # s => sess'[q] = sess[q]
    BY <1>0, <1>3, <2>1, SavedRow
  <2>5. KeepsThread(s)
    BY <1>0, <1>3, <2>4 DEF KeepsThread
  <2> QED BY <1>3, <2>3, <2>4, <2>5 DEF Started
<1>4. CASE Waits(s, w)
  <2>1. PICK r : r = [w.r EXCEPT !.follow = TRUE, !.quiet = FALSE]
    OBVIOUS
  <2>2. r \in SessionRow /\ Like(w.r, r) /\ r.thread = w.r.thread /\ r.active = w.r.active
    BY <1>0, <2>1 DEF SessionRow, Like
  <2>3. PICK v : v = [w EXCEPT !.r = r]
    OBVIOUS
  <2>4. v = [w EXCEPT !.r.follow = TRUE, !.r.quiet = FALSE]
    BY <2>1, <2>3 DEF WorkItem
  <2>5. Saved(s, v) /\ UNCHANGED <<ran, call>>
    BY <1>4, <2>4 DEF Waits
  <2> QED BY <1>3, <2>2, <2>3, <2>5
<1>5. CASE Steers(s, w)
  <2>1. PICK r : r = [w.r EXCEPT !.quiet = FALSE]
    OBVIOUS
  <2>2. r \in SessionRow /\ Like(w.r, r) /\ r.thread = w.r.thread /\ r.active = w.r.active
    BY <1>0, <2>1 DEF SessionRow, Like
  <2>3. PICK v : v = [w EXCEPT !.r = r]
    OBVIOUS
  <2>4. v = [w EXCEPT !.r.quiet = FALSE]
    BY <2>1, <2>3 DEF WorkItem
  <2>5. Saved(s, v) /\ UNCHANGED ran /\ Begins("steer", s)
    BY <1>5, <2>4 DEF Steers
  <2>6. AsksCleanly(s)
    BY <2>5 DEF AsksCleanly, Begins, ForATurn
  <2> QED BY <1>3, <2>2, <2>3, <2>5, <2>6
<1>6. ASSUME NEW x \in WorkItem, Bare(s, x.r, x.rows), x.rows = rows, ChatTexts(x.handed, x.rows), AsksForTurn(s, x),
             x.r.thread = sess[s].thread, \A t \in Started : GoesOn(t)
      PROVE  /\ ShownInv' /\ KeepsThread(s) /\ (\A q \in Sessions : q # s => sess'[q] = sess[q])
             /\ AsksCleanly(s)
  <2>0. PICK v : AsksWith(s, x, v)
    <3>1. \E v : AsksWith(s, x, v)
      BY <1>0, <1>6, AskedText
    <3> QED BY <3>1
  <2>1. /\ ItemText(s, v, notes) /\ RowsKept(s, Work(s), v) /\ Saved(s, v)
        /\ v.r.active = NoTurn /\ Text(v.r) = {} /\ v.r.thread = x.r.thread
        /\ call'.kind \in {"thread", "turn"} /\ call'.s = s /\ call'.thread = sess[s].thread
        /\ call'.kind = "turn" => v.r.delivered = {} /\ v.r.thread # 0
    BY <2>0 DEF AsksWith
  <2>2. Grows
    BY <1>0, <1>1, <1>6, GrowsCalmly
  <2>3. \A q \in Sessions : q # s => RowText(q, sess[q], rows, notes')
    BY <1>0, <1>1
  <2>4. ItemText(s, v, notes') /\ NotesOwn(notes')
    BY <1>0, <1>1, <2>1
  <2>5. ShownInv'
    BY <1>0, <1>1, <1>6, <2>1, <2>2, <2>3, <2>4, ActorStep
  <2>6. sess'[s] = v.r /\ \A q \in Sessions : q # s => sess'[q] = sess[q]
    BY <1>0, <2>1, SavedRow DEF ItemText
  <2>7. KeepsThread(s)
    BY <1>6, <2>1, <2>6 DEF KeepsThread
  <2>8. AsksCleanly(s)
    BY <2>1, <2>6 DEF AsksCleanly
  <2> QED BY <2>5, <2>6, <2>7, <2>8
<1>7. CASE StartsTurn(s, w) /\ w.r.active = NoTurn
  <2>1. PICK x : x = Emptied(w)
    OBVIOUS
  <2>2. /\ x \in WorkItem /\ ChatTexts(x.handed, x.rows) /\ x.rows = rows
        /\ x.r = [Blank(w.r) EXCEPT !.ids = NoIds]
    BY <1>0, <1>2, <1>7, <2>1, EmptiedText
  <2>3. /\ x.r.active = NoTurn /\ x.r.pending = {} /\ x.r.streamed = {} /\ x.r.ids = NoIds
        /\ x.r.completed = w.r.completed /\ x.r.status = w.r.status /\ x.r.thread = w.r.thread
    BY <1>0, <1>7, <2>2 DEF Blank, SessionRow
  <2>4. Bare(s, x.r, x.rows)
    BY <1>2, <2>3 DEF Bare, RowText, OwnTurns, NoIds, Turns
  <2>5. AsksForTurn(s, x) /\ UNCHANGED ran
    BY <1>7, <2>1 DEF StartsTurn
  <2>6. Started' = Started /\ \A t \in Started : GoesOn(t)
    BY <2>5 DEF Started, GoesOn
  <2> QED BY <1>6, <2>2, <2>3, <2>4, <2>5, <2>6
<1>8. CASE ReplacesTurn(s, w) /\ w.r.active # NoTurn
  <2> DEFINE t == w.r.active
  <2>1. t \in Started /\ t \in Turns
    BY <1>0, <1>8 DEF AtHome, Started
  <2>2. CASE /\ ran' = [ran EXCEPT ![t] = "over"]
             /\ AsksForTurn(s, [w EXCEPT !.r = [Blank(@) EXCEPT !.active = NoTurn, !.status = "ACTIVE"]])
    <3>1. PICK r : r = [Blank(w.r) EXCEPT !.active = NoTurn, !.status = "ACTIVE"]
      OBVIOUS
    <3>2. r \in SessionRow
      <4>1. Blank(w.r) \in SessionRow
        BY <1>0, BlankRow
      <4> QED BY <3>1, <4>1 DEF SessionRow
    <3>3. /\ r.active = NoTurn /\ r.pending = {} /\ r.streamed = {} /\ r.ids = w.r.ids
          /\ r.completed = w.r.completed /\ r.status = "ACTIVE" /\ r.thread = w.r.thread
      BY <1>0, <3>1 DEF Blank, SessionRow
    <3>4. PICK x : x = [w EXCEPT !.r = r]
      OBVIOUS
    <3>5. x \in WorkItem /\ x.r = r /\ x.handed = handed /\ x.rows = rows
      BY <3>2, <3>4, WithRowOf
    <3>6. AsksForTurn(s, x)
      BY <2>2, <3>1, <3>4
    <3>7. Bare(s, r, rows)
      BY <1>2, <1>8, <3>3 DEF Bare, RowText, OwnTurns, OwnIds, ActiveText
    <3>8. Started' = Started /\ \A u \in Started : GoesOn(u)
      <4>1. \A u \in Turns : ran'[u] = IF u = t THEN "over" ELSE ran[u]
        BY <1>0, <2>1, <2>2 DEF TypeOK
      <4>2. \A u \in Turns : ran[u] \in {"unused", "running", "spoken", "over"}
        BY <1>0 DEF TypeOK
      <4> QED BY <2>1, <4>1, <4>2 DEF Started, GoesOn, Running
    <3> QED BY <1>0, <1>6, <3>3, <3>5, <3>6, <3>7, <3>8
  <2>3. CASE Published(s, w) /\ UNCHANGED <<ran, call>>
    <3>1. Clearable(w)
      BY <1>2, <1>8 DEF RowText, OwnIds, ActiveText, Clearable
    <3>2. w.r.completed # NoTurn => w.r.completed \in Started /\ home[w.r.completed].s = s
      BY <1>2 DEF RowText, OwnTurns
    <3>3. PICK v : ItemText(s, v, notes) /\ RowsKept(s, Work(s), v) /\ Saved(s, v)
      BY <1>0, <2>3, <3>1, <3>2, PublishedText
    <3>4. ShownInv'
      BY <1>0, <1>1, <2>3, <3>3, OwnStep
    <3>5. /\ sess'[s].thread \in {w.r.thread, 0} /\ sess'[s].active = NoTurn
          /\ \A q \in Sessions : q # s => sess'[q] = sess[q]
      BY <1>0, <2>3, PublishedThread
    <3> QED BY <2>3, <3>4, <3>5 DEF KeepsThread, Started
  <2> QED BY <1>8, <2>2, <2>3 DEF ReplacesTurn
<1> QED BY <1>4, <1>5, <1>7, <1>8 DEF Handles, MustWait

-----------------------------------------------------------------------------
(* The threads.                                                            *)

KeepsThreads == \A q \in Sessions : KeepsThread(q)

LEMMA SameStarted ==
  ASSUME KeepsTurns
  PROVE  Started' = Started
  BY DEF Started, KeepsTurns, Running

(* No turn and no thread is started. *)
LEMMA SameThreads ==
  ASSUME TypeOK, TypeOK', ThreadInv, AtHome, KeepsThreads, threads' = threads, Started' = Started,
         \A t \in Started : home'[t] = home[t],
         \/ call' = NoCall
         \/ call' = call /\ (MainFree \/ sess' = sess)
         \/ \E s \in Sessions : AsksCleanly(s)
  PROVE  ThreadInv'
<1>1. \A q \in Sessions : /\ sess[q].thread \in 0..MaxMessages /\ sess'[q].thread \in {sess[q].thread, 0}
                          /\ sess'[q].active # NoTurn =>
                               sess'[q].active = sess[q].active /\ sess'[q].thread = sess[q].thread
  BY DEF TypeOK, SessionRow, KeepsThreads, KeepsThread
<1>2. /\ \A s, q \in Sessions : sess[s].thread = sess[q].thread /\ s # q => sess[s].thread = 0
      /\ \A s \in Sessions : sess[s].thread <= threads
      /\ \A s \in Sessions : sess[s].thread = call.thread /\ s # call.s => call.thread = 0
      /\ call.thread <= threads /\ threads \in Nat
  BY DEF ThreadInv, OneThread, TypeOK
<1>3. /\ \A s, q \in Sessions : sess'[s].thread = sess'[q].thread /\ s # q => sess'[s].thread = 0
      /\ \A s \in Sessions : sess'[s].thread <= threads'
  BY <1>1, <1>2
<1>4. LastOfThread'
  <2> SUFFICES ASSUME NEW s \in Sessions, NEW t, t = sess'[s].active, t # NoTurn
               PROVE  /\ sess'[s].thread # 0 /\ home'[t].thread = sess'[s].thread
                      /\ \A u \in Started : home'[u].thread = home'[t].thread => u <= t
    BY DEF LastOfThread
  <2>1. t = sess[s].active /\ sess'[s].thread = sess[s].thread
    BY <1>1
  <2>2. t \in Started
    BY <2>1 DEF AtHome, Started
  <2> QED BY <2>1, <2>2 DEF ThreadInv, LastOfThread
<1>5. CASE call' = NoCall
  <2>1. OneThread'
    BY <1>2, <1>3, <1>5 DEF OneThread, NoCall
  <2>2. CleanCall'
    BY <1>5 DEF CleanCall, ForATurn, NoCall
  <2> QED BY <1>4, <2>1, <2>2 DEF ThreadInv
<1>6. CASE call' = call /\ (MainFree \/ sess' = sess)
  <2>1. OneThread'
    BY <1>1, <1>2, <1>3, <1>6 DEF OneThread
  <2>2. CleanCall'
    <3>1. CASE MainFree
      BY <1>6, <3>1 DEF CleanCall, ForATurn, MainFree
    <3>2. CASE sess' = sess
      BY <1>6, <3>2 DEF ThreadInv, CleanCall, ForATurn, Text
    <3> QED BY <1>6, <3>1, <3>2
  <2> QED BY <1>4, <2>1, <2>2 DEF ThreadInv
<1>7. ASSUME NEW s \in Sessions, AsksCleanly(s)
      PROVE  ThreadInv'
  <2>1. call'.s = s /\ call'.thread = sess[s].thread
    BY <1>7 DEF AsksCleanly
  <2>2. OneThread'
    BY <1>1, <1>2, <1>3, <2>1 DEF OneThread
  <2>3. CleanCall'
    BY <1>7, <2>1 DEF AsksCleanly, CleanCall, Text
  <2> QED BY <1>4, <2>2, <2>3 DEF ThreadInv
<1> QED BY <1>5, <1>6, <1>7

(* The main thread changes sessions without a request. *)
LEMMA CalmThreads ==
  ASSUME TypeOK, TypeOK', ThreadInv, AtHome, KeepsThreads, KeepsTurns, UNCHANGED <<threads, home>>,
         \/ call' = NoCall
         \/ call' = call /\ (MainFree \/ sess' = sess)
  PROVE  ThreadInv'
  BY SameStarted, SameThreads

LEMMA SavedThreads ==
  ASSUME TypeOK, NEW s \in Sessions, NEW w \in WorkItem, SameTurn(sess[s], w.r), Saved(s, w)
  PROVE  KeepsThreads
<1>1. sess'[s] = w.r /\ \A q \in Sessions : q # s => sess'[q] = sess[q]
  BY SavedRow
<1> QED BY <1>1 DEF KeepsThreads, KeepsThread, SameTurn

LEMMA SameRowsThreads ==
  ASSUME sess' = sess
  PROVE  KeepsThreads
  BY DEF KeepsThreads, KeepsThread

-----------------------------------------------------------------------------
(* The steps of the app server, the service and the queue.                 *)

LEMMA NoRequestTexts ==
  ASSUME ConversationInv, ConversationInv', TextsInv,
         \/ \E t \in Turns : Says(t) \/ CompletesMessage(t) \/ Ends(t) \/ Delivers(t)
         \/ ServerStops \/ Crash \/ NoticesDeath \/ UNCHANGED vars
  PROVE  TextsInv'
<1>0. TypeOK /\ TypeOK' /\ TurnInv /\ AtHome /\ EndsAreTrue /\ ShownInv /\ ThreadInv
  BY DEF ConversationInv, TurnInv, TextsInv
<1>1. ShownInv'
  BY <1>0, SaysTexts, MessageTexts, EndsTexts, SettledTexts, ServerTexts, NoticedTexts
<1>2. UNCHANGED <<sess, home, threads>> /\ (call' = call \/ call' = NoCall)
  BY DEF Says, CompletesMessage, Ends, Delivers, ServerStops, Crash, NoticesDeath, vars, codex
<1>3. KeepsTurns
  <2>1. CASE ServerStops \/ Crash
    BY <1>0, <1>2, <2>1, GoneTurns DEF ServerStops, Crash
  <2>2. CASE UNCHANGED ran
    BY <2>2 DEF KeepsTurns
  <2>3. ASSUME NEW t \in Turns, CompletesMessage(t)
        PROVE  KeepsTurns
    BY <1>0, <2>3 DEF KeepsTurns, CompletesMessage, TypeOK
  <2>4. ASSUME NEW t \in Turns, Ends(t)
        PROVE  KeepsTurns
    BY <1>0, <2>4 DEF KeepsTurns, Ends, TypeOK
  <2>5. (\E t \in Turns : Says(t) \/ Delivers(t)) \/ NoticesDeath \/ UNCHANGED vars => UNCHANGED ran
    BY DEF Says, Delivers, NoticesDeath, vars, codex
  <2> QED BY <2>1, <2>2, <2>3, <2>4, <2>5
<1>4. ThreadInv'
  BY <1>0, <1>2, <1>3, SameRowsThreads, CalmThreads
<1> QED BY <1>1, <1>4 DEF TextsInv

-----------------------------------------------------------------------------
(* The steps of the main thread that change its sessions.                  *)

LEMMA NoteThreads ==
  ASSUME ConversationInv, TypeOK', ThreadInv, NEW kinds, HandlesNote(kinds), KeepsThreads
  PROVE  ThreadInv'
<1>1. TypeOK /\ AtHome
  BY DEF ConversationInv, TurnInv
<1>2. UNCHANGED <<threads, home, ran, call>> /\ MainFree
  BY DEF HandlesNote
<1>3. KeepsTurns
  BY <1>2 DEF KeepsTurns
<1> QED BY <1>1, <1>2, <1>3, CalmThreads

LEMMA TextThreads ==
  ASSUME ConversationInv, HandlesText
  PROVE  KeepsThreads
<1>0. TypeOK
  BY DEF ConversationInv
<1>1. HandlesNote({"delta", "message"})
  BY DEF HandlesText
<1>2. Note \in Notices
  BY <1>0, <1>1, NoteTaken
<1>3. CASE sess' = sess
  BY <1>3, SameRowsThreads
<1>4. CASE sess' # sess
  <2>1. PICK s \in Addressed(Note.turn), flush \in BOOLEAN, known \in BOOLEAN :
          Saved(s, IF flush /\ Note.kind = "delta" THEN Streamed([Work(s) EXCEPT !.r = Collected(@, Note)], known)
                   ELSE [Work(s) EXCEPT !.r = Collected(@, Note)])
    BY <1>4 DEF HandlesText
  <2>2. s \in Sessions /\ sess[s] \in SessionRow
    BY <1>0, <2>1, MadeAreSessions DEF Addressed, TypeOK
  <2>3. PICK w : w = [Work(s) EXCEPT !.r = Collected(@, Note)]
    OBVIOUS
  <2>4. w \in WorkItem /\ SameTurn(sess[s], w.r)
    BY <1>0, <1>2, <2>2, <2>3, WorkOfRow, CollectedRow, WithRowOf
  <2>5. PICK v : v = IF flush /\ Note.kind = "delta" THEN Streamed(w, known) ELSE w
    OBVIOUS
  <2>6. v \in WorkItem /\ SameTurn(sess[s], v.r)
    <3>1. Keeps(w, v)
      BY <2>4, <2>5, StreamedItem, Kept
    <3> QED BY <2>4, <3>1 DEF Keeps, SameTurn
  <2>7. Saved(s, v)
    BY <2>1, <2>3, <2>5
  <2> QED BY <1>0, <2>2, <2>6, <2>7, SavedThreads
<1> QED BY <1>3, <1>4

(* The end of a turn leaves its session the thread, or none. *)
LEMMA EndThreads ==
  ASSUME TypeOK, NEW s \in Sessions, sess'[s].thread \in {sess[s].thread, 0}, sess'[s].active = NoTurn,
         \A q \in Sessions : q # s => sess'[q] = sess[q]
  PROVE  KeepsThreads
  BY DEF KeepsThreads, KeepsThread

LEMMA TurnOverThread ==
  ASSUME NEW r \in SessionRow, NEW t \in Turns
  PROVE  TurnOver(r, t).thread = r.thread
  BY DEF TurnOver, SessionRow

LEMMA CompletedThreads ==
  ASSUME ConversationInv, HandlesCompleted
  PROVE  KeepsThreads
<1>0. TypeOK
  BY DEF ConversationInv
<1>1. HandlesNote({"completed"})
  BY DEF HandlesCompleted
<1>2. Note \in Notices /\ Note.turn \in Turns
  BY <1>0, <1>1, NoteTaken DEF Notices
<1>3. CASE Runs(Note.turn) = {}
  BY <1>3, SameRowsThreads DEF HandlesCompleted
<1>4. CASE Runs(Note.turn) # {}
  <2>1. PICK s \in Runs(Note.turn), known \in BOOLEAN : \E text \in CompletionTexts(sess[s]) :
               Saved(s, Concluded([Work(s) EXCEPT !.r = TurnOver(IF News(sess[s], text) THEN Merged(sess[s], text)
                                                                 ELSE sess[s], Note.turn)], known))
    BY <1>4 DEF HandlesCompleted
  <2>2. PICK text \in CompletionTexts(sess[s]) :
               Saved(s, Concluded([Work(s) EXCEPT !.r = TurnOver(IF News(sess[s], text) THEN Merged(sess[s], text)
                                                                 ELSE sess[s], Note.turn)], known))
    BY <2>1
  <2>3. s \in Sessions /\ sess[s] \in SessionRow /\ text \in Texts
    BY <1>0, <1>2, <2>1, <2>2, LatestTyped, RunsTyped DEF TypeOK
  <2>4. PICK q : q = IF News(sess[s], text) THEN Merged(sess[s], text) ELSE sess[s]
    OBVIOUS
  <2>5. q \in SessionRow /\ q.thread = sess[s].thread
    BY <2>3, <2>4, MergedRow DEF SameTurn
  <2>6. PICK w : w = [Work(s) EXCEPT !.r = TurnOver(q, Note.turn)]
    OBVIOUS
  <2>7. w \in WorkItem /\ w.r.thread = sess[s].thread /\ w.r.active = NoTurn
    BY <1>0, <1>2, <2>3, <2>5, <2>6, WorkOfRow, TurnOverRow, TurnOverThread, WithRowOf
  <2>8. PICK v : v = Concluded(w, known)
    OBVIOUS
  <2>9. v \in WorkItem /\ v.r.thread = sess[s].thread /\ v.r.active = NoTurn
    BY <2>1, <2>7, <2>8, ConcludedItem DEF Keeps, SameTurn
  <2>10. Saved(s, v)
    BY <2>2, <2>4, <2>6, <2>8
  <2>11. sess'[s] = v.r /\ \A p \in Sessions : p # s => sess'[p] = sess[p]
    BY <1>0, <2>3, <2>9, <2>10, SavedRow
  <2> QED BY <1>0, <2>3, <2>9, <2>11, EndThreads
<1> QED BY <1>3, <1>4

LEMMA FailedThreads ==
  ASSUME ConversationInv, HandlesFailed
  PROVE  KeepsThreads
<1>0. TypeOK
  BY DEF ConversationInv
<1>1. HandlesNote({"failed"})
  BY DEF HandlesFailed
<1>2. Note \in Notices /\ Note.turn \in Turns
  BY <1>0, <1>1, NoteTaken DEF Notices
<1>3. CASE Runs(Note.turn) = {}
  BY <1>3, SameRowsThreads DEF HandlesFailed
<1>4. CASE Runs(Note.turn) # {}
  <2>1. PICK s \in Runs(Note.turn) : Published(s, [Work(s) EXCEPT !.r = TurnOver(@, Note.turn)])
    BY <1>4 DEF HandlesFailed
  <2>2. s \in Sessions /\ sess[s] \in SessionRow
    BY <1>0, <1>2, <2>1, RunsTyped DEF TypeOK
  <2>3. PICK w : w = [Work(s) EXCEPT !.r = TurnOver(sess[s], Note.turn)]
    OBVIOUS
  <2>4. w = [Work(s) EXCEPT !.r = TurnOver(@, Note.turn)]
    BY <2>3 DEF Work
  <2>5. w \in WorkItem /\ w.r.thread = sess[s].thread
    BY <1>0, <1>2, <2>2, <2>3, WorkOfRow, TurnOverRow, TurnOverThread, WithRowOf
  <2>6. /\ sess'[s].thread \in {w.r.thread, 0} /\ sess'[s].active = NoTurn
        /\ \A q \in Sessions : q # s => sess'[q] = sess[q]
    BY <1>0, <2>1, <2>2, <2>4, <2>5, PublishedThread
  <2> QED BY <1>0, <2>2, <2>5, <2>6, EndThreads
<1> QED BY <1>3, <1>4

(* The notifications leave every thread with its session. *)
LEMMA NotificationTexts ==
  ASSUME ConversationInv, ConversationInv', TextsInv, Notifications
  PROVE  TextsInv'
<1>0. TypeOK' /\ ThreadInv
  BY DEF ConversationInv, TextsInv
<1>1. KeepsThreads
  BY TextThreads, CompletedThreads, FailedThreads DEF Notifications
<1>2. \E kinds : HandlesNote(kinds)
  BY DEF Notifications, HandlesText, HandlesCompleted, HandlesFailed
<1>3. ThreadInv'
  BY <1>0, <1>1, <1>2, NoteThreads
<1>4. ShownInv'
  BY <1>0, TextOfTexts, CompletedTexts, FailedTexts DEF Notifications
<1> QED BY <1>3, <1>4 DEF TextsInv

LEMMA RecoveredThread ==
  ASSUME NEW r \in SessionRow
  PROVE  Recovered(r).thread = r.thread /\ Recovered(r).active \in {r.active, NoTurn}
  BY RecoveredRow DEF Recovered, Blank, SessionRow

(* A session's texts change, or what it says of itself. *)
LEMMA SessionThreads ==
  ASSUME ConversationInv,
         \/ CodexStarts \/ Steered \/ New
         \/ \E s \in Sessions : Stop(s) \/ FlushesIdle(s) \/ GoesQuiet(s) \/ Reconciles(s)
  PROVE  KeepsThreads
<1>0. TypeOK /\ CallFits /\ \A q \in Sessions : sess[q] \in SessionRow
  BY DEF ConversationInv, TurnInv, TypeOK
<1>1. CASE CodexStarts
  BY <1>0, <1>1, RecoveredThread DEF CodexStarts, KeepsThreads, KeepsThread
<1>2. CASE Steered
  <2>1. PICK s \in Sessions : s = call.s
    BY <1>0, CallTyped
  <2>2. sess' = [sess EXCEPT ![s] = [@ EXCEPT !.status = "RUNNING_TURN"]]
    BY <2>1, <1>2 DEF Steered
  <2>3. /\ sess'[s].thread = sess[s].thread /\ sess'[s].active = sess[s].active
        /\ \A q \in Sessions : q # s => sess'[q] = sess[q]
    BY <1>0, <2>1, <2>2 DEF TypeOK, SessionRow
  <2> QED BY <2>1, <2>3 DEF KeepsThreads, KeepsThread
<1>3. CASE New
  <2> SUFFICES ASSUME NEW q \in Sessions
               PROVE  KeepsThread(q)
    BY DEF KeepsThreads
  <2>1. sess'[q] = sess[q] \/ sess'[q] = [sess[q] EXCEPT !.attached = FALSE]
    BY <1>3 DEF New
  <2>2. sess'[q].thread = sess[q].thread /\ sess'[q].active = sess[q].active
    BY <1>0, <2>1 DEF SessionRow
  <2> QED BY <2>2 DEF KeepsThread
<1>4. ASSUME NEW s \in Sessions, Stop(s)
      PROVE  KeepsThreads
  <2>1. sess' = [sess EXCEPT ![s] = [@ EXCEPT !.active = NoTurn, !.pending = {}, !.status = "INTERRUPTED"]]
    BY <1>0, <1>4 DEF Stop, TypeOK
  <2>2. /\ sess'[s].thread = sess[s].thread /\ sess'[s].active = NoTurn
        /\ \A q \in Sessions : q # s => sess'[q] = sess[q]
    BY <1>0, <2>1 DEF TypeOK, SessionRow
  <2> QED BY <1>0, <2>2, EndThreads
<1>5. ASSUME NEW s \in Sessions, FlushesIdle(s)
      PROVE  KeepsThreads
  <2>1. PICK known \in BOOLEAN : Saved(s, Streamed(Work(s), known))
    BY <1>5 DEF FlushesIdle
  <2>2. Keeps(Work(s), Streamed(Work(s), known)) /\ Work(s).r = sess[s]
    BY <1>0, WorkOfRow, StreamedItem
  <2> QED BY <1>0, <2>1, <2>2, SavedThreads DEF Keeps
<1>6. ASSUME NEW s \in Sessions, GoesQuiet(s)
      PROVE  KeepsThreads
  <2>1. sess' = [sess EXCEPT ![s] = [@ EXCEPT !.quiet = TRUE]]
    BY <1>6 DEF GoesQuiet
  <2>2. /\ sess'[s].thread = sess[s].thread /\ sess'[s].active = sess[s].active
        /\ \A q \in Sessions : q # s => sess'[q] = sess[q]
    BY <1>0, <2>1 DEF TypeOK, SessionRow
  <2> QED BY <2>2 DEF KeepsThreads, KeepsThread
<1>7. ASSUME NEW s \in Sessions, Reconciles(s)
      PROVE  KeepsThreads
  <2>1. Work(s) \in WorkItem /\ Work(s).r = sess[s]
    BY <1>0, WorkOfRow
  <2>2. \/ Saved(s, Delivered(Work(s)))
        \/ \E known \in BOOLEAN : Saved(s, Resent(Work(s), known))
    BY <1>7 DEF Reconciles
  <2>3. PICK w \in WorkItem : Saved(s, w) /\ Keeps(Work(s), w)
    BY <2>1, <2>2, DeliveredItem, ResentItem DEF Keeps
  <2> QED BY <1>0, <2>1, <2>3, SavedThreads DEF Keeps
<1> QED BY <1>1, <1>2, <1>3, <1>4, <1>5, <1>6, <1>7

LEMMA SessionTexts ==
  ASSUME ConversationInv, ConversationInv', TextsInv,
         \/ CodexStarts \/ Steered \/ New
         \/ \E s \in Sessions : Stop(s) \/ FlushesIdle(s) \/ GoesQuiet(s) \/ Reconciles(s)
  PROVE  TextsInv'
<1>0. TypeOK /\ TypeOK' /\ TurnInv /\ AtHome /\ CallFits /\ ShownInv /\ ThreadInv
  BY DEF ConversationInv, TurnInv, TextsInv
<1>1. ShownInv'
  BY <1>0, CodexTexts, SteeredTexts, NewTexts, StopTexts, FlushTexts, QuietTexts, ReconcileTexts
<1>2. KeepsThreads
  BY SessionThreads
<1>3. /\ UNCHANGED <<threads, home>> /\ (call' = NoCall \/ (call' = call /\ MainFree))
      /\ (UNCHANGED ran \/ \E s \in Sessions : Stop(s))
  BY DEF CodexStarts, Steered, New, Stop, FlushesIdle, GoesQuiet, Reconciles, Upkeep, codex
<1>4. Started' = Started
  <2>1. CASE UNCHANGED ran
    BY <2>1 DEF Started
  <2>2. ASSUME NEW s \in Sessions, Stop(s)
        PROVE  Started' = Started
    <3>1. ran' = [ran EXCEPT ![sess[s].active] = "over"]
      BY <2>2 DEF Stop
    <3>2. sess[s].active \in Started
      BY <1>0, <2>2 DEF Stop, AtHome
    <3> QED BY <1>0, <3>1, <3>2 DEF Started, TypeOK
  <2> QED BY <1>3, <2>1, <2>2
<1>5. ThreadInv'
  BY <1>0, <1>2, <1>3, <1>4, SameThreads
<1> QED BY <1>1, <1>5 DEF TextsInv

-----------------------------------------------------------------------------
(* The messages of the user.                                               *)

LEMMA LikeItself ==
  ASSUME NEW r
  PROVE  Like(r, r)
  BY DEF Like

LEMMA UserTexts ==
  ASSUME ConversationInv, ConversationInv', TextsInv, Message \/ \E s \in Sessions : DispatchesFollowUp(s)
  PROVE  TextsInv'
<1>0. TypeOK /\ TypeOK' /\ AtHome /\ ShownInv /\ ThreadInv
  BY DEF ConversationInv, TurnInv, TextsInv
<1>1. PICK s \in Sessions, w \in WorkItem :
        /\ MainFree /\ Handles(s, w) /\ w.handed = handed /\ w.rows = rows
        /\ Like(sess[s], w.r) /\ w.r.thread = sess[s].thread
  <2>1. CASE Message
    <3>1. PICK s \in Sessions : Handles(s, Work(s))
      BY <2>1 DEF Message
    <3>2. Work(s) \in WorkItem /\ Work(s).r = sess[s] /\ Work(s).handed = handed /\ Work(s).rows = rows
      BY <1>0, WorkOfRow DEF Work
    <3> QED BY <2>1, <3>1, <3>2, LikeItself DEF Message
  <2>2. ASSUME NEW s \in Sessions, DispatchesFollowUp(s)
        PROVE  \E w \in WorkItem : /\ MainFree /\ Handles(s, w) /\ w.handed = handed /\ w.rows = rows
                                   /\ Like(sess[s], w.r) /\ w.r.thread = sess[s].thread
    <3>1. PICK r : r = [sess[s] EXCEPT !.follow = FALSE]
      OBVIOUS
    <3>2. Work(s) \in WorkItem /\ sess[s] \in SessionRow /\ Work(s).handed = handed /\ Work(s).rows = rows
      BY <1>0, WorkOfRow DEF TypeOK, Work
    <3>3. r \in SessionRow /\ Like(sess[s], r) /\ r.thread = sess[s].thread
      BY <3>1, <3>2 DEF SessionRow, Like
    <3>4. PICK w : w = [Work(s) EXCEPT !.r = r]
      OBVIOUS
    <3>5. w \in WorkItem /\ w.r = r /\ w.handed = handed /\ w.rows = rows
      BY <3>2, <3>3, <3>4, WithRowOf
    <3>6. w = [Work(s) EXCEPT !.r.follow = FALSE]
      BY <3>1, <3>4 DEF Work
    <3> QED BY <2>2, <3>3, <3>5, <3>6 DEF DispatchesFollowUp
  <2> QED BY <2>1, <2>2
<1>2. /\ ShownInv' /\ KeepsThread(s) /\ (\A q \in Sessions : q # s => sess'[q] = sess[q])
      /\ Started' = Started
      /\ call' = call \/ AsksCleanly(s)
  BY <1>0, <1>1, HandledText
<1>3. KeepsThreads
  BY <1>2 DEF KeepsThreads, KeepsThread
<1>4. UNCHANGED <<threads, home>>
  BY <1>1 DEF Handles
<1>5. ThreadInv'
  BY <1>0, <1>1, <1>2, <1>3, <1>4, SameThreads
<1> QED BY <1>2, <1>5 DEF TextsInv

-----------------------------------------------------------------------------
(* The answers to the requests: a thread or a turn is started.             *)

(* A new thread is nobody else's. *)
LEMMA ThreadReadyThreads ==
  ASSUME ConversationInv, TypeOK', TextsInv, ThreadReady
  PROVE  ThreadInv'
<1>0. TypeOK /\ CallFits /\ AtHome /\ ShownInv /\ OneThread /\ LastOfThread /\ CleanCall
  BY DEF ConversationInv, TurnInv, TextsInv, ThreadInv
<1>1. PICK s \in Sessions : s = call.s
  BY <1>0, CallTyped
<1>2. ForATurn
  BY DEF ThreadReady, Asked, ForATurn
<1>3. sess[s] \in SessionRow /\ sess[s].active = NoTurn /\ sess[s].pending = {}
  BY <1>0, <1>1, <1>2, CleanRow
<1>4. UNCHANGED <<ran, home>> /\ call' = [call EXCEPT !.kind = "turn"]
  BY DEF ThreadReady
<1>5. threads \in Nat /\ \A q \in Sessions : sess[q].thread \in Nat /\ sess[q].thread <= threads
  BY <1>0 DEF TypeOK, SessionRow, OneThread
<1>6. PICK thread : /\ sess' = [sess EXCEPT ![s] = Ready(sess[s], thread)] /\ thread # 0
                    /\ \/ thread = sess[s].thread /\ threads' = threads
                       \/ thread = threads + 1 /\ threads' = threads + 1
  BY <1>1, <1>5 DEF ThreadReady
<1>7. PICK r : r = Ready(sess[s], thread)
  OBVIOUS
<1>8. r = sess'[s] /\ \A q \in Sessions : q # s => sess'[q] = sess[q]
  BY <1>0, <1>6, <1>7 DEF TypeOK
<1>9. r.thread = thread /\ r.active = NoTurn /\ Text(r) = {} /\ r.delivered = {}
  BY <1>3, <1>7 DEF Ready, SessionRow, Text
<1>10. call'.thread = call.thread /\ call'.s = s /\ call'.kind = "turn"
  BY <1>0, <1>1, <1>4 DEF TypeOK
<1>11. OneThread'
  <2>1. \A q \in Sessions : q # s => sess'[q].thread # thread
    <3> SUFFICES ASSUME NEW q \in Sessions, q # s, sess[q].thread = thread
                 PROVE  FALSE
      BY <1>8
    <3>1. CASE thread = sess[s].thread
      BY <1>0, <1>6, <3>1 DEF OneThread
    <3>2. CASE thread = threads + 1
      BY <1>5, <3>2
    <3> QED BY <1>6, <3>1, <3>2
  <2>2. \A p, q \in Sessions : sess'[p].thread = sess'[q].thread /\ p # q => sess'[p].thread = 0
    <3> SUFFICES ASSUME NEW p \in Sessions, NEW q \in Sessions, p # q, sess'[p].thread = sess'[q].thread
                 PROVE  sess'[p].thread = 0
      OBVIOUS
    <3>1. p # s /\ q # s
      BY <1>8, <1>9, <2>1
    <3> QED BY <1>0, <1>8, <3>1 DEF OneThread
  <2>3. threads' \in Nat /\ threads <= threads' /\ thread <= threads'
    BY <1>5, <1>6
  <2>4. \A q \in Sessions : sess'[q].thread <= threads'
    <3> SUFFICES ASSUME NEW q \in Sessions
                 PROVE  sess'[q].thread <= threads'
      OBVIOUS
    <3>1. CASE q = s
      BY <1>8, <1>9, <2>3, <3>1
    <3>2. CASE q # s
      BY <1>5, <1>8, <2>3, <3>2
    <3> QED BY <3>1, <3>2
  <2>5. \A q \in Sessions : sess'[q].thread = call'.thread /\ q # call'.s => call'.thread = 0
    BY <1>0, <1>1, <1>8, <1>10 DEF OneThread
  <2>6. call'.thread <= threads'
    <3>1. call.thread \in Nat /\ call.thread <= threads
      BY <1>0 DEF TypeOK, OneThread
    <3> QED BY <1>5, <1>10, <2>3, <3>1
  <2> QED BY <2>2, <2>4, <2>5, <2>6 DEF OneThread
<1>12. LastOfThread'
  <2>1. Started' = Started
    BY <1>4 DEF Started
  <2> QED BY <1>0, <1>4, <1>8, <1>9, <2>1 DEF LastOfThread
<1>13. CleanCall'
  <2>1. Text(sess'[s]) = {} /\ sess'[s].delivered = {} /\ sess'[s].thread # 0
    BY <1>6, <1>8, <1>9
  <2> QED BY <1>10, <2>1 DEF CleanCall, Text
<1> QED BY <1>11, <1>12, <1>13 DEF ThreadInv

(* The new turn is the last one of its session's thread, and of no other   *)
(* session's.                                                              *)
LEMMA NewTurnThreads ==
  ASSUME ConversationInv, TypeOK', TextsInv, NEW s \in Sessions, s = call.s, ForATurn, TurnRuns(s), said' = said,
         NEW n, n = NextTurn, NEW q \in Sessions, q # s, sess'[q] = sess[q], NEW t, t = sess[q].active, t # NoTurn
  PROVE  /\ sess'[q].thread # 0 /\ home'[t].thread = sess'[q].thread
         /\ \A u \in Started' : home'[u].thread = home'[t].thread => u <= t
<1>0. TypeOK /\ AtHome /\ OneThread /\ LastOfThread
  BY DEF ConversationInv, TurnInv, TextsInv, ThreadInv
<1>1. /\ \A u \in Started : u # n
      /\ Started' = Started \cup {n} /\ home'[n].thread = sess[s].thread
      /\ \A u \in Turns : u # n => home'[u] = home[u]
  BY TurnsGoOn
<1>2. t \in Started /\ Started \subseteq Turns
  BY <1>0 DEF AtHome, Started
<1>3. /\ sess[q].thread # 0 /\ home[t].thread = sess[q].thread
      /\ \A u \in Started : home[u].thread = home[t].thread => u <= t
  BY <1>0 DEF LastOfThread
<1>4. home'[t] = home[t]
  BY <1>1, <1>2
<1>5. home'[n].thread # home[t].thread
  BY <1>0, <1>1, <1>3 DEF OneThread
<1>6. \A u \in Started : home'[u] = home[u]
  BY <1>1, <1>2
<1> QED BY <1>1, <1>3, <1>4, <1>5, <1>6

LEMMA StartThreads ==
  ASSUME ConversationInv, TypeOK', TextsInv, TurnStarts
  PROVE  ThreadInv'
<1>0. TypeOK /\ CallFits /\ AtHome /\ ShownInv /\ OneThread /\ LastOfThread /\ CleanCall
  BY DEF ConversationInv, TurnInv, TextsInv, ThreadInv
<1>1. PICK s \in Sessions : s = call.s
  BY <1>0, CallTyped
<1>2. ForATurn /\ TurnRuns(s) /\ UNCHANGED <<said, threads>> /\ call.kind = "turn" /\ call' = NoCall
  BY <1>1 DEF TurnStarts, Asked, ForATurn
<1>3. PICK n : n = NextTurn
  OBVIOUS
<1>4. /\ \A t \in Started : t # n /\ t <= n
      /\ n \in Turns /\ Started' = Started \cup {n} /\ home'[n].thread = sess[s].thread
  BY <1>2, <1>3, TurnsGoOn
<1>5. sess' = [sess EXCEPT ![s] = [@ EXCEPT !.active = n, !.pending = {}, !.status = "RUNNING_TURN"]]
  BY <1>0, <1>1, <1>3 DEF TurnStarts, TypeOK
<1>6. /\ sess'[s].active = n /\ sess'[s].thread = sess[s].thread
      /\ \A q \in Sessions : q # s => sess'[q] = sess[q]
  BY <1>0, <1>5 DEF TypeOK, SessionRow
<1>7. \A q \in Sessions : sess'[q].thread = sess[q].thread
  BY <1>6
<1>8. OneThread'
  <2>1. threads \in Nat
    BY <1>0 DEF TypeOK
  <2> QED BY <1>0, <1>2, <1>7, <2>1 DEF OneThread, NoCall
<1>9. CleanCall'
  BY <1>2 DEF CleanCall, ForATurn, NoCall
<1>10. LastOfThread'
  <2> SUFFICES ASSUME NEW q \in Sessions, NEW t, t = sess'[q].active, t # NoTurn
               PROVE  /\ sess'[q].thread # 0 /\ home'[t].thread = sess'[q].thread
                      /\ \A u \in Started' : home'[u].thread = home'[t].thread => u <= t
    BY DEF LastOfThread
  <2>1. CASE q = s
    <3>1. sess[s].thread # 0
      BY <1>0, <1>1, <1>2 DEF CleanCall
    <3>2. n <= n
      BY <1>4 DEF Turns
    <3> QED BY <1>4, <1>6, <2>1, <3>1, <3>2
  <2>2. CASE q # s
    BY <1>1, <1>2, <1>3, <1>6, <2>2, NewTurnThreads
  <2> QED BY <2>1, <2>2
<1> QED BY <1>8, <1>9, <1>10 DEF ThreadInv

LEMMA RequestFailsThreads ==
  ASSUME ConversationInv, TypeOK', TextsInv, RequestFails
  PROVE  ThreadInv'
<1>0. TypeOK /\ CallFits /\ AtHome /\ OneThread /\ LastOfThread /\ CleanCall
  BY DEF ConversationInv, TurnInv, TextsInv, ThreadInv
<1>1. PICK s \in Sessions : s = call.s
  BY <1>0, CallTyped
<1>2. /\ UNCHANGED <<said, threads>> /\ call' = NoCall
      /\ Published(s, [Work(s) EXCEPT !.r.thread = call.thread, !.r.delivered = call.delivered])
  BY <1>1 DEF RequestFails
<1>3. PICK r : r = [sess[s] EXCEPT !.thread = call.thread, !.delivered = call.delivered]
  OBVIOUS
<1>4. r \in SessionRow /\ r.thread = call.thread /\ call.thread \in Nat
  <2>1. sess[s] \in SessionRow /\ call.thread \in 0..MaxMessages /\ call.delivered \in Texts
    BY <1>0, <1>1, CallTyped
  <2>2. r \in SessionRow /\ r.thread = call.thread
    BY <1>3, <2>1 DEF SessionRow
  <2>3. call.thread \in Nat
    BY <2>1, ConversationAssumption
  <2> QED BY <2>2, <2>3
<1>5. PICK w : w = [Work(s) EXCEPT !.r = r]
  OBVIOUS
<1>6. w \in WorkItem /\ w.r = r
  BY <1>0, <1>4, <1>5, WorkOfRow, WithRowOf
<1>7. Published(s, w)
  BY <1>2, <1>3, <1>5 DEF Work
<1>8. /\ sess'[s].thread \in {call.thread, 0} /\ sess'[s].active = NoTurn
      /\ \A q \in Sessions : q # s => sess'[q] = sess[q]
  BY <1>0, <1>4, <1>6, <1>7, PublishedThread
<1>9. OneThread'
  <2>1. threads \in Nat /\ call.thread <= threads
    BY <1>0 DEF TypeOK, OneThread
  <2>2. \A p, q \in Sessions : sess'[p].thread = sess'[q].thread /\ p # q => sess'[p].thread = 0
    BY <1>0, <1>1, <1>8 DEF OneThread
  <2>3. \A q \in Sessions : sess'[q].thread <= threads'
    BY <1>0, <1>2, <1>4, <1>8, <2>1 DEF OneThread
  <2> QED BY <1>2, <2>1, <2>2, <2>3 DEF OneThread, NoCall
<1>10. CleanCall'
  BY <1>2 DEF CleanCall, ForATurn, NoCall
<1>11. LastOfThread'
  <2> SUFFICES ASSUME NEW q \in Sessions, NEW t, t = sess'[q].active, t # NoTurn
               PROVE  /\ sess'[q].thread # 0 /\ home'[t].thread = sess'[q].thread
                      /\ \A u \in Started' : home'[u].thread = home'[t].thread => u <= t
    BY DEF LastOfThread
  <2>1. q # s /\ sess'[q] = sess[q]
    BY <1>8
  <2>2. CASE UNCHANGED <<ran, home>>
    <3>1. Started' = Started
      BY <2>2 DEF Started
    <3> QED BY <1>0, <2>1, <2>2, <3>1 DEF LastOfThread
  <2>3. CASE call.kind = "turn" /\ TurnRuns(s)
    <3>1. PICK n : n = NextTurn
      OBVIOUS
    <3>2. ForATurn
      BY <2>3 DEF ForATurn
    <3> QED BY <1>1, <1>2, <2>1, <2>3, <3>1, <3>2, NewTurnThreads
  <2> QED BY <1>1, <2>2, <2>3 DEF RequestFails, Asked
<1> QED BY <1>9, <1>10, <1>11 DEF ThreadInv

LEMMA AnswerTexts ==
  ASSUME ConversationInv, ConversationInv', TextsInv, ThreadReady \/ TurnStarts \/ RequestFails
  PROVE  TextsInv'
<1>0. TypeOK /\ TypeOK' /\ CallFits /\ ShownInv /\ CleanCall
  BY DEF ConversationInv, TurnInv, TextsInv, ThreadInv
<1>1. ShownInv'
  BY <1>0, ThreadTexts, StartTexts, RequestFailsTexts
<1>2. ThreadInv'
  BY <1>0, ThreadReadyThreads, StartThreads, RequestFailsThreads
<1> QED BY <1>1, <1>2 DEF TextsInv

-----------------------------------------------------------------------------
(* The theorems about the texts.                                           *)

LEMMA FirstTexts ==
  ASSUME Init
  PROVE  TextsInv
<1>0. TypeOK
  BY Initially DEF ConversationInv
<1>1. \A s \in Sessions : sess[s] = NewSession
  BY DEF Init
<1>2. /\ NewSession.active = NoTurn /\ NewSession.completed = NoTurn /\ NewSession.pending = {}
      /\ NewSession.streamed = {} /\ NewSession.ids = NoIds /\ NewSession.thread = 0 /\ NewSession.status = "ACTIVE"
  BY DEF NewSession
<1>3. /\ \A t \in Turns : ran[t] = "unused" /\ said[t] = 0 /\ rows[t] = {} /\ handed[t] = {}
      /\ notes = <<>> /\ call = NoCall /\ threads = 0
  <2>1. \A t \in Turns : t \in 0..MaxMessages
    BY ConversationAssumption DEF Turns
  <2> QED BY <2>1 DEF Init
<1>4. ChatTexts(handed, rows)
  BY <1>3 DEF ChatTexts, Own
<1>5. \A s \in Sessions : RowText(s, sess[s], rows, notes)
  <2>1. \A s \in Sessions : Bare(s, sess[s], rows)
    BY <1>1, <1>2 DEF Bare, OwnTurns, NoIds, Turns
  <2> QED BY <2>1, BareText
<1>6. NotesOwn(notes) /\ SaidByStarted
  <2>1. DOMAIN notes = {}
    BY <1>3
  <2> QED BY <1>3, <2>1 DEF NotesOwn, SaidByStarted
<1>7. OneThread /\ CleanCall
  BY <1>1, <1>2, <1>3 DEF OneThread, CleanCall, ForATurn, NoCall
<1>8. LastOfThread
  BY <1>1, <1>2 DEF LastOfThread
<1> QED BY <1>4, <1>5, <1>6, <1>7, <1>8 DEF TextsInv, ShownInv, ThreadInv

LEMMA TextsNext ==
  ASSUME ConversationInv, ConversationInv', TextsInv, [Next]_vars
  PROVE  TextsInv'
<1>1. CASE AppServer \/ Crash \/ (\E t \in Turns : Delivers(t)) \/ UNCHANGED vars
  BY <1>1, NoRequestTexts DEF AppServer
<1>2. CASE Notifications
  BY <1>2, NotificationTexts
<1>3. CASE Answers
  BY <1>3, SessionTexts, AnswerTexts DEF Answers
<1>4. CASE User
  BY <1>4, SessionTexts, UserTexts DEF User
<1>5. CASE Periodic
  BY <1>5, NoRequestTexts, SessionTexts, UserTexts DEF Periodic
<1> QED BY <1>1, <1>2, <1>3, <1>4, <1>5 DEF Next

(* What a session streams, what it has pending and what is still to come   *)
(* is the message of its turn, and its thread is nobody else's.            *)
THEOREM TextsHold == Spec => []TextsInv
<1>1. Init => TextsInv
  BY FirstTexts
<1>2. ConversationInv /\ ConversationInv' /\ TextsInv /\ [Next]_vars => TextsInv'
  BY TextsNext
<1> QED BY <1>1, <1>2, ConversationHolds, PTL DEF Spec

(* The final answer is the whole message of its turn, in whatever order    *)
(* deltas, the complete message, the end of the turn and the text read     *)
(* from the thread come together, for any length of the message; and no    *)
(* later message, turn, error or restart takes it off the screen again.    *)
THEOREM AnswersAreWhole == Spec => []FinalIsWhole
<1>1. TextsInv => FinalIsWhole
  BY DEF TextsInv, ShownInv, ChatTexts, Full, FinalIsWhole
<1> QED BY <1>1, TextsHold, PTL

(* Nothing of one turn's text is ever in the messages of another turn that *)
(* says something.                                                         *)
THEOREM TextsAreOwn == Spec => []OwnText
<1>1. TextsInv => OwnText
  <2> SUFFICES ASSUME TextsInv, NEW t \in Turns, said[t] > 0
               PROVE  handed[t] \subseteq Pieces(t)
    BY DEF OwnText
  <2>1. Own(t, handed[t])
    BY DEF TextsInv, ShownInv, ChatTexts
  <2>2. CASE said[t] = 0
    BY <2>2
  <2> QED BY <2>1, <2>2 DEF Own
<1> QED BY <1>1, TextsHold, PTL
=============================================================================
