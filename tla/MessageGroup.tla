---------------------------- MODULE MessageGroup ----------------------------
(***************************************************************************)
(* A text that grows and shrinks while it is streamed, the chunks it is    *)
(* split into, and the messages of the chat that show them: the calls of   *)
(* _sync_telegram_message_chunks for one message group, the rows they      *)
(* enqueue, the worker that executes the rows through TelegramClient, and  *)
(* the ids of the messages in the session and in telegram_message_chunks.  *)
(*                                                                         *)
(* Of the queue the module takes what TelegramQueue shows: rows are        *)
(* executed in the order of their creation, rate limits included.  A chunk *)
(* is named by its place in the text, a text by the rank of its sync.      *)
(***************************************************************************)
EXTENDS TelegramClient, FiniteSetsExt

CONSTANTS
    Delivery,   \* the only caller: the delivery worker
    MaxChunks,  \* bound: chunks of a text
    MaxTexts,   \* bound: syncs of the group
    MaxRefused  \* bound: sends and edits that Telegram refuses

ASSUME GroupAssumption ==
    /\ Callers = {Delivery}
    /\ MaxChunks \in Nat \ {0} /\ MaxTexts \in Nat /\ MaxRefused \in Nat

Chunks == 1..MaxChunks
None   == 0

VARIABLES
    sync,     \* the main thread inside _sync_telegram_message_chunks
    ids,      \* streaming_message_ids of the session
    stored,   \* per chunk index: the telegram_message_id of its row, and whether the row is active
    rows,     \* the outbound rows of the group, in the order of their creation
    row,      \* the row the worker has (None: none)
    stage,    \* "idle", "called" or "storing" (its row is completed, its chunk id is not)
    reason,   \* why the call failed: "limited", "gone" or "refused"
    chat,     \* the messages posted: the chunk and the text each shows
    gone,     \* the messages deleted
    texts,    \* the syncs begun so far
    size,     \* the number of chunks of the last text
    odd,      \* history: what went wrong between the texts and the messages
    refused   \* the calls refused so far

client == <<requests, job, result, closed, calls>>
delivery == <<row, stage, reason>>
shown  == <<chat, gone>>
main   == <<sync, ids, texts, size, odd>>
groupVars == <<client, delivery, shown, main, rows, stored, refused>>

(* A sync at work: the chunk it is at, the messages it found before its    *)
(* first chunk, those it has kept, and the message of the chunk it is at.  *)
Idle == [at |-> "idle", i |-> 1, existing |-> <<>>, kept |-> <<>>, found |-> None]

GroupInit ==
    /\ Init
    /\ sync = Idle
    /\ ids = <<>>
    /\ stored = [i \in Chunks |-> [id |-> None, active |-> FALSE]]
    /\ rows = <<>>
    /\ row = None /\ stage = "idle" /\ reason = "none"
    /\ chat = <<>> /\ gone = {}
    /\ texts = 0 /\ size = 0 /\ odd = {} /\ refused = 0

-----------------------------------------------------------------------------
(* The main thread: _sync_telegram_message_chunks.                         *)

(* mutant: one key for the whole group *)
GroupKey(i) == 1

(* _message_chunk_dedupe_key *)
DedupeKey(i) == i

(* enqueue: the queued rows of the key are replaced. *)
Enqueue(o, i, m) ==
    rows' = Append([r \in DOMAIN rows |->
                       IF i # None /\ rows[r].key = DedupeKey(i) /\ rows[r].status = "queued"
                       THEN [rows[r] EXCEPT !.status = "deleted"]
                       ELSE rows[r]],
                   [op |-> o, key |-> IF i = None THEN None ELSE DedupeKey(i), chunk |-> i,
                    text |-> texts, msg |-> m, status |-> "queued"])

QueueMessage(i)   == Enqueue("send", i, None)
QueueEdit(i, m)   == Enqueue("edit", i, m)
QueueDelete(m)    == Enqueue("delete", None, m)

(* latest_message_id_for_dedupe *)
LatestId(i) ==
    LET hits == {r \in DOMAIN rows : /\ rows[r].key = DedupeKey(i) /\ rows[r].status = "completed"
                                     /\ rows[r].msg # None}
    IN IF hits = {} THEN None ELSE rows[Max(hits)].msg

(* load_active_message_chunk_ids: the rows without an id are left out, the *)
(* others close up.                                                        *)
HasId(i)  == stored[i].active /\ stored[i].id # None
StoredIds == LET hasId == {i \in Chunks : HasId(i)}
                 nth(k) == CHOOSE i \in hasId : Cardinality({j \in hasId : j <= i}) = k
             IN [k \in 1..Cardinality(hasId) |-> stored[nth(k)].id]

(* The list ms does not have the message of chunk k in place k. *)
Displaced(ms) == \E k \in DOMAIN ms : chat[ms[k]].chunk # k

Existing == IF ids # <<>> THEN ids ELSE StoredIds

(* A text of n chunks is to be shown. *)
Begins(n) ==
    /\ sync.at = "idle"
    /\ texts < MaxTexts
    /\ texts' = texts + 1
    /\ size' = n
    /\ sync' = [Idle EXCEPT !.at = "find", !.existing = Existing]
    /\ odd' = odd \cup (IF Displaced(Existing) THEN {"displaced"} ELSE {})
    /\ UNCHANGED <<client, delivery, shown, ids, rows, stored, refused>>

(* The message of the next chunk is looked up. *)
Finds ==
    /\ sync.at = "find"
    /\ sync.i <= size
    /\ sync' = [sync EXCEPT !.at = "submit",
                            !.found = IF sync.i <= Len(sync.existing) THEN sync.existing[sync.i]
                                      ELSE LatestId(sync.i)]
    /\ UNCHANGED <<client, delivery, shown, ids, texts, size, odd, rows, stored, refused>>

(* The message m is deleted, or will be. *)
Doomed(m) == m \in gone \/ \E r \in DOMAIN rows : rows[r].op = "delete" /\ rows[r].msg = m

(* The chunk is queued, as an edit of the message found or as a new        *)
(* message, whose id is not known yet.                                     *)
Submits ==
    LET i == sync.i
        m == sync.found
    IN
    /\ sync.at = "submit"
    /\ IF m # None THEN QueueEdit(i, m) ELSE QueueMessage(i)
    /\ sync' = [sync EXCEPT !.at = "find", !.i = i + 1, !.found = None,
                            !.kept = IF m # None THEN Append(@, m) ELSE @]
    /\ odd' = odd \cup (IF m = None /\ LatestId(i) # None THEN {"twice"} ELSE {})
                  \cup (IF m # None /\ Doomed(m) THEN {"doomed"} ELSE {})
    /\ UNCHANGED <<client, delivery, shown, ids, texts, size, stored, refused>>

(* mutant: the messages beyond the text stay *)
NoneBeyond == {}

(* The messages found that are beyond the last chunk. *)
Beyond == {k \in DOMAIN sync.existing : k >= sync.i /\ k > size}

(* A message beyond the last chunk is deleted. *)
Drops ==
    /\ sync.at = "find"
    /\ sync.i > size
    /\ Beyond # {}
    /\ QueueDelete(sync.existing[Min(Beyond)])
    /\ sync' = [sync EXCEPT !.i = Min(Beyond) + 1]
    /\ UNCHANGED <<client, delivery, shown, ids, texts, size, odd, stored, refused>>

(* A chunk beyond the last one whose message is still to be posted. *)
StillComing == \E r \in DOMAIN rows : /\ rows[r].op = "send" /\ rows[r].chunk > size
                                      /\ rows[r].status \in {"queued", "claimed"}

(* A chunk beyond the last one whose message was not in the list. *)
Overlooked == \E m \in DOMAIN chat : /\ chat[m].chunk > size /\ ~Doomed(m)
                                      /\ \A k \in DOMAIN sync.existing : sync.existing[k] # m

(* The session keeps the ids it knows, upsert_message_group and            *)
(* sync_message_chunks write the rows of the group: the ids close up here  *)
(* too.                                                                    *)
Ends ==
    /\ sync.at = "find"
    /\ sync.i > size
    /\ Beyond = {}
    /\ ids' = sync.kept
    /\ stored' = [i \in Chunks |->
                     IF i > size THEN [stored[i] EXCEPT !.active = FALSE]
                     ELSE [id |-> IF i <= Len(sync.kept) THEN sync.kept[i] ELSE None, active |-> TRUE]]
    /\ odd' = odd \cup (IF Displaced(sync.kept) THEN {"displaced"} ELSE {})
                  \cup (IF StillComing \/ Overlooked THEN {"left over"} ELSE {})
    /\ sync' = Idle
    /\ UNCHANGED <<client, delivery, shown, texts, size, rows, refused>>

-----------------------------------------------------------------------------
(* The delivery worker and the client.                                     *)

Queued == {r \in DOMAIN rows : rows[r].status = "queued"}

(* process_next claims the next row and calls the client. *)
Claims ==
    /\ stage = "idle"
    /\ Queued # {}
    /\ row' = Min(Queued)
    /\ rows' = [rows EXCEPT ![row'].status = "claimed"]
    /\ stage' = "called"
    /\ Dispatches(Delivery)
    /\ UNCHANGED <<reason, shown, main, stored, refused>>

(* Telegram executes the row, and how it answers. *)
Executes(outcome, why) ==
    LET r == rows[row] IN
    \/ /\ r.op = "send"
       /\ chat' = Append(chat, [chunk |-> r.chunk, text |-> r.text])
       /\ outcome = "ok" /\ why = "none" /\ UNCHANGED <<gone, refused>>
    \/ /\ r.op = "edit" /\ r.msg \notin gone
       /\ chat' = [chat EXCEPT ![r.msg] = [chunk |-> r.chunk, text |-> r.text]]
       /\ outcome = "ok" /\ why = "none" /\ UNCHANGED <<gone, refused>>
    \/ /\ r.op = "delete" /\ r.msg \notin gone
       /\ gone' = gone \cup {r.msg}
       /\ outcome = "ok" /\ why = "none" /\ UNCHANGED <<chat, refused>>
    \/ /\ r.op \in {"edit", "delete"} /\ r.msg \in gone
       /\ outcome = "error" /\ why = "gone" /\ UNCHANGED <<shown, refused>>
    \/ /\ r.op \in {"send", "edit"} /\ refused < MaxRefused
       /\ refused' = refused + 1
       /\ outcome = "error" /\ why = "refused" /\ UNCHANGED shown

(* The client's worker meets an answer to a row. *)
AnswersRow ==
    /\ \/ Accepted /\ Executes(result'[Delivery], reason')
       \/ Limited /\ reason' = "limited" /\ UNCHANGED <<shown, refused>>
    /\ UNCHANGED <<row, stage, main, rows, stored>>

(* What the client does between answers. *)
ClientGoesOn ==
    /\ TakesRequest \/ WakesUp \/ Tick
    /\ UNCHANGED <<delivery, shown, main, rows, stored, refused>>

(* mutant: no promotion *)
NonePromoted(r, m) == rows[r]

(* _promote_pending_send_replacements: a queued send of the key becomes an *)
(* edit of the message that was just posted.                               *)
Promoted(r, m) ==
    IF /\ rows[row].op = "send" /\ rows[r].key = rows[row].key
       /\ rows[r].status = "queued" /\ rows[r].op = "send"
    THEN [rows[r] EXCEPT !.op = "edit", !.msg = m]
    ELSE rows[r]

(* The row is executed, or there was nothing to delete: it is completed. *)
Completes ==
    LET m == IF rows[row].op = "send" THEN Len(chat) ELSE rows[row].msg IN
    /\ stage = "called"
    /\ \/ result[Delivery] = "ok"
       \/ result[Delivery] = "error" /\ reason = "gone" /\ rows[row].op = "delete"
    /\ rows' = [r \in DOMAIN rows |-> IF r = row THEN [rows[r] EXCEPT !.status = "completed", !.msg = m]
                                      ELSE Promoted(r, m)]
    /\ Returns(Delivery)
    /\ IF rows[row].op = "send" THEN stage' = "storing" /\ UNCHANGED row
                                ELSE stage' = "idle" /\ row' = None
    /\ reason' = "none"
    /\ UNCHANGED <<shown, main, stored, refused>>

(* update_message_chunk_id, in a transaction of its own. *)
StoresId ==
    LET r == rows[row] IN
    /\ stage = "storing"
    /\ stored' = IF stored[r.chunk].active THEN [stored EXCEPT ![r.chunk].id = r.msg] ELSE stored
    /\ stage' = "idle" /\ row' = None
    /\ UNCHANGED <<client, reason, shown, main, rows, refused>>

(* A rate limit that outlasts the client's repetitions: the row is queued  *)
(* again.  Any other error: it has failed.                                 *)
GivesBack ==
    /\ stage = "called"
    /\ result[Delivery] = "error"
    /\ ~(reason = "gone" /\ rows[row].op = "delete")
    /\ rows' = [rows EXCEPT ![row].status = IF reason = "limited" THEN "queued" ELSE "failed"]
    /\ Returns(Delivery)
    /\ stage' = "idle" /\ row' = None /\ reason' = "none"
    /\ UNCHANGED <<shown, main, stored, refused>>

-----------------------------------------------------------------------------
Syncs    == (\E n \in Chunks : Begins(n)) \/ Finds \/ Submits \/ Drops \/ Ends
Delivers == Claims \/ Completes \/ StoresId \/ GivesBack

GroupNext == Syncs \/ Delivers \/ AnswersRow \/ ClientGoesOn

GroupSpec == GroupInit /\ [][GroupNext]_groupVars

(* The threads and the clock go on, as in TelegramClient. *)
GroupFairSpec ==
    /\ GroupSpec
    /\ WF_groupVars(AnswersRow \/ (Worker /\ ClientGoesOn))
    /\ WF_groupVars(Tick /\ ClientGoesOn)
    /\ WF_groupVars(Delivers)

-----------------------------------------------------------------------------
Visible == DOMAIN chat \ gone

(* Nothing waits to be executed. *)
Settled == sync.at = "idle" /\ stage = "idle" /\ Queued = {}

Failed == \E r \in DOMAIN rows : rows[r].status = "failed"

(* The ids a session keeps are the messages of the chunks in their order:  *)
(* a chunk is never edited into the message of another one, unless an id   *)
(* that was not known yet made the list close up.                          *)
OwnMessages == "displaced" \in odd \/ ~Displaced(ids)

(* Once everything is sent the chat shows the last text and nothing else:  *)
(* every chunk in one message, whatever the client repeats and the queue   *)
(* replaces, promotes and queues again.  The exceptions are a refused call *)
(* and the entries of odd: a list that closed up, a lookup that the send   *)
(* overtook, an edit of a message that is deleted, and a text that shrank  *)
(* before the message of a chunk was known.                                *)
TextStands ==
    Settled /\ ~Failed /\ odd = {} /\ texts > 0
        => /\ \A i \in 1..size : \E m \in Visible : chat[m] = [chunk |-> i, text |-> texts]
           /\ Cardinality(Visible) = size
=============================================================================
