--------------------------- MODULE TelegramQueue ---------------------------
(***************************************************************************)
(* The outbound Telegram queue of the service: the SQLite table            *)
(* telegram_outbound_queue, the worker thread that empties it, the main    *)
(* thread that fills it, the crash recovery of ServiceRunStore.start and   *)
(* the effect of every API call on the chat.                               *)
(*                                                                         *)
(* A row is named by its rank in created_at order, and its text by the     *)
(* row: a later row of a chunk carries a later text.  A timestamp is       *)
(* modelled by the number of ticks left until it (0: it has passed).       *)
(***************************************************************************)
EXTENDS Integers, FiniteSets

CONSTANTS
    PartialKeys,    \* dedupe keys of the answer streamed while its turn runs
    FinalKeys,      \* dedupe keys of the answer flushed once the turn is over
    LiveKeys,       \* dedupe keys of the live progress of the turn
    ErrorKeys,      \* dedupe keys of an error notice
    TypingKeys,     \* dedupe keys of typing indicators
    NoKey,          \* the NULL dedupe key (a reply to a command, a deletion)
    ChunkOf,        \* the chunk index in a key of those texts
    MaxRows,        \* bound: rows ever inserted
    MaxMessages,    \* bound: messages ever posted in the chat
    Throttle,       \* _QUEUE_THROTTLE_SECONDS, in ticks
    InitialBackoff, \* _INITIAL_RATE_LIMIT_BACKOFF_SECONDS, in ticks
    MaxBackoff,     \* _MAX_RATE_LIMIT_BACKOFF_SECONDS, in ticks
    RetryAfters,    \* the retry_after values Telegram may send, in ticks
    FaultBudget,    \* bound: how often each kind of fault happens
    PidsReused      \* may a dead run's pid be found alive at the next start?

AnswerKeys == PartialKeys \cup FinalKeys
TextKeys   == AnswerKeys \cup LiveKeys \cup ErrorKeys
Keys       == TextKeys \cup TypingKeys
FaultKinds == {"limit", "fail", "db", "crash", "stop"}
Ops        == {"send", "edit", "delete", "typing"}
Statuses   == {"absent", "queued", "claimed", "completed", "failed", "deleted"}
Stages     == {"idle", "check", "call", "ok", "noop", "limited", "failed"}

(* Who may run process_next: the worker thread, and the main thread while *)
(* it drains the queue in stop().                                         *)
Claimers == {"worker", "main"}

ASSUME QueueAssumption ==
    /\ NoKey \notin Keys
    /\ TextKeys \cap TypingKeys = {}
    /\ LiveKeys \cap (AnswerKeys \cup ErrorKeys) = {}
    /\ ErrorKeys \cap AnswerKeys = {}
    /\ ChunkOf \in [TextKeys -> Nat]
    /\ MaxRows \in Nat
    /\ MaxMessages \in Nat
    /\ Throttle \in Nat
    /\ InitialBackoff \in Nat \ {0}
    /\ MaxBackoff \in Nat
    /\ InitialBackoff <= MaxBackoff
    /\ RetryAfters \subseteq Nat
    /\ FaultBudget \in [FaultKinds -> Nat]
    /\ PidsReused \in BOOLEAN

Rows     == 1..MaxRows
Messages == 1..MaxMessages
Runs     == 1..(1 + FaultBudget["crash"] + FaultBudget["stop"])

VARIABLES
    \* the table, one function per column, and the pause kept in app_state
    last,      \* the number of rows inserted so far
    status,    \* status; "absent" before the insert, "deleted" after a DELETE
    op,        \* op_type
    key,       \* dedupe_key
    target,    \* telegram_message_id (0: NULL)
    wait,      \* available_at
    limited,   \* the rows whose last_error is a rate-limit error
    owner,     \* claimed_by_run_id (0: NULL)
    known,     \* what latest_message_id_for_dedupe answers for a key (0: None)
    pause,     \* paused_until
    backoff,   \* backoff_seconds
    \* the chat, as Telegram shows it
    posted,    \* the number of messages posted
    author,    \* the row whose send created the message (0: not posted yet)
    shown,     \* the row whose text the message shows
    gone,      \* the messages deleted from the chat
    \* the service process
    phase,     \* "up", "stopping" (inside TelegramDeliveryManager.stop) or "down"
    run,       \* the current run_id
    stopped,   \* the runs with a stopped_at
    at, job, got, \* per claimer: stage of process_next, its row, the message id returned
    turn,      \* the turn of the session: "running" or "ended"
    since,     \* the last row of the live progress groups that were replaced
    plan,      \* the main thread inside _sync_telegram_message_chunks
    waiting,   \* the row the main thread waits for in enqueue_and_wait (0: none)
    allow,     \* that call's allow_paused_return
    blind,     \* history: rows sent as new messages though their message was known
    left       \* the faults that may still happen

table   == <<last, status, op, key, target, wait, limited, owner, known>>
rate    == <<pause, backoff>>
chat    == <<posted, author, shown, gone>>
claims  == <<at, job, got>>
process == <<phase, run, stopped>>
main    == <<turn, since, plan, waiting, allow, blind>>
vars    == <<table, rate, chat, process, claims, main, left>>

NoPlan == [key |-> NoKey, msg |-> 0, allow |-> FALSE]
Plans  == [key : TextKeys, msg : 0..MaxMessages, allow : BOOLEAN]

Later(a, b)   == IF a < b THEN b ELSE a
Sooner(a, b)  == IF a < b THEN a ELSE b

(* typing indicators go first: queue_telegram_typing passes priority=10,  *)
(* every other operation the default 100                                  *)
Priority(r) == IF op[r] = "typing" THEN 10 ELSE 100

(* mutant: among equals, the newest row first *)
NewestFirst(a, b) == Priority(a) < Priority(b) \/ (Priority(a) = Priority(b) /\ a > b)

(* The ORDER BY of process_next: priority, then created_at. *)
Before(a, b) == \/ Priority(a) < Priority(b)
                \/ Priority(a) = Priority(b) /\ a < b

(* mutants: available_at is not compared; a claimed row is claimed again *)
DueAtOnce  == {r \in Rows : status[r] = "queued"}
DueClaimed == {r \in Rows : status[r] \in {"queued", "claimed"} /\ wait[r] = 0}

(* mutant: a row that was rate-limited once is never due again *)
DueUnlimited == {r \in Rows : status[r] = "queued" /\ wait[r] = 0 /\ r \notin limited}

Due == {r \in Rows : status[r] = "queued" /\ wait[r] = 0}

(* The message group of the row is one _stale_row_reason looks at. *)
IsLive(r) == key[r] \in LiveKeys \cup TypingKeys

(* mutant: every row of an ended turn is stale *)
StaleAny(r) == turn = "ended"

(* _stale_row_reason: the session is detached or no longer in a live       *)
(* status, its turn is over or its live progress group was replaced.       *)
Stale(r) == IsLive(r) /\ (turn = "ended" \/ r <= since)

(* A typing row goes by the trace alone, which not every new group changes. *)
Current(r) == ~Stale(r) \/ (key[r] \in TypingKeys /\ turn = "running")

Spend(kind) == /\ left[kind] > 0
               /\ left' = [left EXCEPT ![kind] = @ - 1]

Init ==
    /\ last = 0
    /\ status = [r \in Rows |-> "absent"]
    /\ op = [r \in Rows |-> "send"]
    /\ key = [r \in Rows |-> NoKey]
    /\ target = [r \in Rows |-> 0]
    /\ wait = [r \in Rows |-> 0]
    /\ limited = {}
    /\ owner = [r \in Rows |-> 0]
    /\ known = [k \in Keys |-> 0]
    /\ pause = 0 /\ backoff = 0
    /\ posted = 0
    /\ author = [m \in Messages |-> 0]
    /\ shown = [m \in Messages |-> 0]
    /\ gone = {}
    /\ phase = "up" /\ run = 1 /\ stopped = {}
    /\ at = [c \in Claimers |-> "idle"]
    /\ job = [c \in Claimers |-> 0]
    /\ got = [c \in Claimers |-> 0]
    /\ turn = "running" /\ since = 0 /\ plan = NoPlan
    /\ waiting = 0 /\ allow = FALSE /\ blind = {}
    /\ left = FaultBudget

-----------------------------------------------------------------------------
(* The main thread: the producer.                                          *)

(* The main loop is between two operations. *)
MainFree == phase = "up" /\ plan = NoPlan /\ waiting = 0

(* mutant: only the throttle delays a new row *)
ThrottleOnly == Throttle

(* _initial_available_at *)
AvailableAt == Later(Throttle, pause)

(* The rows that enqueue deletes: queued, with the key of the new one. *)
Replaced(k) == {q \in Rows : k # NoKey /\ status[q] = "queued" /\ key[q] = k}

(* enqueue: one transaction that replaces the queued rows of the key and   *)
(* inserts the new one, held until the throttle and the pause are over.    *)
Enqueue(o, k, m) ==
    LET r == last + 1 IN
    /\ last < MaxRows
    /\ last' = r
    /\ status' = [q \in Rows |-> IF q = r THEN "queued"
                                 ELSE IF q \in Replaced(k) THEN "deleted"
                                 ELSE status[q]]
    /\ op' = [op EXCEPT ![r] = o]
    /\ key' = [key EXCEPT ![r] = k]
    /\ target' = [target EXCEPT ![r] = m]
    /\ wait' = [wait EXCEPT ![r] = AvailableAt]
    /\ UNCHANGED <<limited, owner, known, rate, chat, process, claims, left>>

(* The ids by which _sync_telegram_message_chunks may find a chunk: the    *)
(* session's streaming ids, those stored for the group or for the live     *)
(* progress, or the last id completed under the key.  Every answer, notice *)
(* and live text of a session goes to the same messages.                   *)
Found(k) ==
    LET ids == {known[j] : j \in {j \in TextKeys : ChunkOf[j] = ChunkOf[k]}} \ {0}
    IN  IF known[k] = 0 THEN ids \cup {0} ELSE ids

(* When a text of the key is written: the group of a streamed answer and   *)
(* of live progress is named by the running turn's trace, that of the      *)
(* final answer by the completed turn.                                     *)
Writes(k) ==
    \/ k \in PartialKeys /\ turn = "running"
    \/ k \in FinalKeys /\ turn = "ended"
    \/ k \in LiveKeys /\ turn = "running" /\ \A r \in Rows : r <= since => key[r] # k
    \/ k \in ErrorKeys

(* _sync_telegram_message_chunks, first half: look for the message of the  *)
(* chunk, and for a pause.  An error notice is edited into a message of    *)
(* the session (publish_codex_request_error).                              *)
Lookup(k) ==
    /\ MainFree
    /\ last < MaxRows
    /\ Writes(k)
    /\ \E m \in Found(k) :
        /\ k \in ErrorKeys => m # 0
        /\ plan' = [key |-> k, msg |-> m, allow |-> pause > 0]
    /\ UNCHANGED <<table, rate, chat, process, claims, turn, since, waiting, allow, blind, left>>

(* _sync_telegram_message_chunks, second half: enqueue an edit of the      *)
(* message found, or a new message.  Only an error notice is waited for    *)
(* (queue_only=False).                                                     *)
Submit ==
    /\ phase = "up"
    /\ plan # NoPlan
    /\ Enqueue(IF plan.msg = 0 THEN "send" ELSE "edit", plan.key, plan.msg)
    /\ blind' = IF plan.msg = 0 /\ known[plan.key] # 0 THEN blind \cup {last'} ELSE blind
    /\ plan' = NoPlan
    /\ waiting' = IF plan.key \in ErrorKeys THEN last' ELSE 0
    /\ allow' = (plan.key \in ErrorKeys /\ plan.allow)
    /\ UNCHANGED <<turn, since>>

(* send_telegram_message without a dedupe key: the reply to a command. *)
Reply ==
    /\ MainFree
    /\ Enqueue("send", NoKey, 0)
    /\ waiting' = last'
    /\ UNCHANGED <<turn, since, plan, allow, blind>>

(* maybe_send_typing_indicator *)
Typing(k) ==
    /\ MainFree
    /\ turn = "running"
    /\ Enqueue("typing", k, 0)
    /\ UNCHANGED main

(* The deletion of a message the session knows: of a chunk the text no     *)
(* longer has (not waited for), or of the streamed messages of a turn      *)
(* (_clear_streaming_messages, with allow_paused_return).                  *)
Delete(m, waits) ==
    /\ MainFree
    /\ \E k \in TextKeys : known[k] = m
    /\ m \notin gone
    /\ Enqueue("delete", NoKey, m)
    /\ waiting' = IF waits THEN last' ELSE 0
    /\ allow' = waits
    /\ UNCHANGED <<turn, since, plan, blind>>

(* _cancel_queued_live_progress_operations, by a message that steers the   *)
(* turn and by flush_buffer before the final answer.                       *)
CancelLive ==
    /\ MainFree
    /\ status' = [r \in Rows |-> IF status[r] = "queued" /\ IsLive(r) THEN "deleted" ELSE status[r]]
    /\ UNCHANGED <<last, op, key, target, wait, limited, owner, known, rate, chat, process, claims,
                   main, left>>

(* A message of the user during the turn gives its live progress a new     *)
(* group.                                                                  *)
NewGroup ==
    /\ MainFree
    /\ turn = "running"
    /\ since' = last
    /\ UNCHANGED <<table, rate, chat, process, claims, turn, plan, waiting, allow, blind, left>>

(* turn/completed or turn/failed, or the session is detached: the session  *)
(* is saved without its turn, which is what the stale check reads.         *)
EndTurn ==
    /\ MainFree
    /\ turn = "running"
    /\ turn' = "ended"
    /\ UNCHANGED <<table, rate, chat, process, claims, since, plan, waiting, allow, blind, left>>

(* The row held by the pause that lets _wait_for_completion return. *)
ReturnsQueued(r) == status[r] = "queued" /\ wait[r] > 0 /\ (allow \/ r \in limited)

(* mutant: a failed row is waited for *)
SettledUnlessFailed == {"completed", "deleted"}

(* The row is over: _wait_for_completion returns or raises. *)
Settled == {"completed", "failed", "deleted"}

(* _wait_for_completion *)
WaitReturns ==
    /\ phase = "up"
    /\ waiting # 0
    /\ \/ status[waiting] \in Settled
       \/ ReturnsQueued(waiting)
    /\ waiting' = 0
    /\ allow' = FALSE
    /\ UNCHANGED <<table, rate, chat, process, claims, turn, since, plan, blind, left>>

-----------------------------------------------------------------------------
(* process_next, run by claimer c.                                         *)

MayClaim(c) == IF c = "worker" THEN phase \in {"up", "stopping"} ELSE phase = "stopping"

(* The claiming transaction: the first due row. *)
Claim(c) ==
    /\ MayClaim(c)
    /\ at[c] = "idle"
    /\ \E r \in Due :
        /\ \A q \in Due \ {r} : Before(r, q)
        /\ status' = [status EXCEPT ![r] = "claimed"]
        /\ owner' = [owner EXCEPT ![r] = run]
        /\ job' = [job EXCEPT ![c] = r]
    /\ at' = [at EXCEPT ![c] = "check"]
    /\ UNCHANGED <<last, op, key, target, wait, limited, known, rate, chat, process, got, main, left>>

(* _skip_claimed_row_if_stale: the claimed row is completed unexecuted. *)
SkipStale(c) ==
    /\ at[c] = "check"
    /\ Stale(job[c])
    /\ status' = [status EXCEPT ![job[c]] = "completed"]
    /\ owner' = [owner EXCEPT ![job[c]] = 0]
    /\ limited' = limited \ {job[c]}
    /\ known' = IF target[job[c]] # 0 /\ key[job[c]] # NoKey
                THEN [known EXCEPT ![key[job[c]]] = target[job[c]]]
                ELSE known
    /\ at' = [at EXCEPT ![c] = "idle"]
    /\ job' = [job EXCEPT ![c] = 0]
    /\ UNCHANGED <<last, op, key, target, wait, rate, chat, process, got, main, left>>

(* The row is not stale: _execute_row. *)
StartCall(c) ==
    /\ at[c] = "check"
    /\ Current(job[c])
    /\ at' = [at EXCEPT ![c] = "call"]
    /\ UNCHANGED <<table, rate, chat, process, job, got, main, left>>

(* What a call of row r does to the chat. *)
PostMessage(r) ==
    /\ posted < MaxMessages
    /\ posted' = posted + 1
    /\ author' = [author EXCEPT ![posted + 1] = r]
    /\ shown' = [shown EXCEPT ![posted + 1] = r]
    /\ UNCHANGED gone

EditMessage(r) ==
    /\ target[r] \notin gone
    /\ shown[target[r]] # r
    /\ shown' = [shown EXCEPT ![target[r]] = r]
    /\ UNCHANGED <<posted, author, gone>>

DeleteMessage(r) ==
    /\ target[r] \notin gone
    /\ gone' = gone \cup {target[r]}
    /\ UNCHANGED <<posted, author, shown>>

Effect(r) ==
    \/ op[r] = "send"   /\ PostMessage(r)
    \/ op[r] = "edit"   /\ EditMessage(r)
    \/ op[r] = "delete" /\ DeleteMessage(r)
    \/ op[r] = "typing" /\ UNCHANGED chat

(* The call succeeds; a send or an edit returns the message id. *)
CallSucceeds(c) ==
    /\ at[c] = "call"
    /\ Effect(job[c])
    /\ at' = [at EXCEPT ![c] = "ok"]
    /\ got' = [got EXCEPT ![c] = CASE op[job[c]] = "send" -> posted'
                                   [] op[job[c]] = "edit" -> target[job[c]]
                                   [] OTHER -> 0]
    /\ UNCHANGED <<table, rate, process, job, main, left>>

(* "message is not modified" for an edit that changes nothing, "message    *)
(* not found" for a deletion: errors that complete the row.                *)
CallIsNoop(c) ==
    /\ at[c] = "call"
    /\ \/ op[job[c]] = "edit" /\ target[job[c]] \notin gone /\ shown[target[job[c]]] = job[c]
       \/ op[job[c]] = "delete" /\ target[job[c]] \in gone
    /\ at' = [at EXCEPT ![c] = "noop"]
    /\ UNCHANGED <<table, rate, chat, process, job, got, main, left>>

(* An edit of a deleted message is an error like any other. *)
CallIsRejected(c) ==
    /\ at[c] = "call"
    /\ op[job[c]] = "edit" /\ target[job[c]] \in gone
    /\ at' = [at EXCEPT ![c] = "failed"]
    /\ UNCHANGED <<table, rate, chat, process, job, got, main, left>>

(* 429 Too Many Requests *)
CallIsLimited(c) ==
    /\ at[c] = "call"
    /\ Spend("limit")
    /\ at' = [at EXCEPT ![c] = "limited"]
    /\ UNCHANGED <<table, rate, chat, process, job, got, main>>

(* Any other error: the request was refused, or it was lost on its way.    *)
CallFails(c) ==
    /\ at[c] = "call"
    /\ Spend("fail")
    /\ at' = [at EXCEPT ![c] = "failed"]
    /\ UNCHANGED <<table, rate, chat, process, job, got, main>>

(* A timeout: Telegram has executed the request, its answer is lost. *)
AnswerLost(c) ==
    /\ at[c] = "call"
    /\ Spend("fail")
    /\ Effect(job[c])
    /\ at' = [at EXCEPT ![c] = "failed"]
    /\ UNCHANGED <<table, rate, process, job, got, main>>

Return(c) ==
    /\ at' = [at EXCEPT ![c] = "idle"]
    /\ job' = [job EXCEPT ![c] = 0]
    /\ got' = [got EXCEPT ![c] = 0]

(* _save_rate_limit_state *)
SavePause(delay) == pause' = delay /\ backoff' = delay

(* _clear_global_pause *)
ClearPause == SavePause(0)

(* mutant: no promotion *)
NonePromoted(r, m) == {}

(* _promote_pending_send_replacements: the queued sends of the same chunk  *)
(* become edits of message m.                                              *)
Promoted(r, m) ==
    IF op[r] = "send" /\ m # 0 /\ key[r] # NoKey
    THEN {q \in Rows \ {r} : status[q] = "queued" /\ key[q] = key[r] /\ op[q] = "send"}
    ELSE {}

(* The transaction after a successful call. *)
Complete(c) ==
    LET r == job[c]
        m == got[c]
        kept == IF m # 0 THEN m ELSE target[r]
    IN
    /\ at[c] = "ok"
    /\ status' = [status EXCEPT ![r] = "completed"]
    /\ limited' = limited \ {r}
    /\ op' = [q \in Rows |-> IF q \in Promoted(r, m) THEN "edit" ELSE op[q]]
    /\ target' = [q \in Rows |-> IF q = r THEN kept
                                 ELSE IF q \in Promoted(r, m) THEN m ELSE target[q]]
    /\ known' = IF key[r] # NoKey /\ kept # 0 THEN [known EXCEPT ![key[r]] = kept] ELSE known
    /\ ClearPause
    /\ Return(c)
    /\ UNCHANGED <<last, key, wait, owner, chat, process, main, left>>

(* The transaction after an error that only says there was nothing to do. *)
CompleteNoop(c) ==
    LET r == job[c] IN
    /\ at[c] = "noop"
    /\ status' = [status EXCEPT ![r] = "completed"]
    /\ limited' = limited \ {r}
    /\ known' = IF key[r] # NoKey THEN [known EXCEPT ![key[r]] = target[r]] ELSE known
    /\ ClearPause
    /\ Return(c)
    /\ UNCHANGED <<last, op, key, target, wait, owner, chat, process, main, left>>

(* mutant: retry_after is not capped *)
UncappedBackoff(retryAfter) ==
    Later(IF backoff < InitialBackoff THEN InitialBackoff ELSE 2 * backoff, Later(retryAfter, 1))

(* _advance_global_pause *)
NextBackoff(retryAfter) ==
    LET doubled == IF backoff < InitialBackoff THEN InitialBackoff
                   ELSE Sooner(2 * backoff, MaxBackoff)
    IN Sooner(Later(doubled, Later(retryAfter, 1)), MaxBackoff)

(* mutant: only the rate-limited row is held *)
HoldOne(r, until) == [wait EXCEPT ![r] = until]

(* available_at after a 429 of row r: no queued row before the pause ends. *)
HoldBack(r, until) ==
    [q \in Rows |-> IF q = r THEN until
                    ELSE IF status[q] = "queued" THEN Later(wait[q], until)
                    ELSE wait[q]]

(* The transaction after a 429: the row is queued again, the whole queue   *)
(* is held until the pause is over.                                        *)
Requeue(c) ==
    LET r == job[c] IN
    /\ at[c] = "limited"
    /\ \E retryAfter \in RetryAfters : SavePause(NextBackoff(retryAfter))
    /\ status' = [status EXCEPT ![r] = "queued"]
    /\ limited' = limited \cup {r}
    /\ owner' = [owner EXCEPT ![r] = 0]
    /\ wait' = HoldBack(r, pause')
    /\ Return(c)
    /\ UNCHANGED <<last, op, key, target, known, chat, process, main, left>>

(* The transaction after any other error. *)
Fail(c) ==
    LET r == job[c] IN
    /\ at[c] = "failed"
    /\ status' = [status EXCEPT ![r] = "failed"]
    /\ limited' = limited \ {r}
    /\ owner' = [owner EXCEPT ![r] = 0]
    /\ Return(c)
    /\ UNCHANGED <<last, op, key, target, wait, known, rate, chat, process, main, left>>

(* The stale check or the last transaction raises sqlite3.Error: _run_loop *)
(* swallows it and the row stays claimed.                                  *)
DatabaseError ==
    /\ at["worker"] \in {"check", "ok", "noop", "limited", "failed"}
    /\ Spend("db")
    /\ Return("worker")
    /\ UNCHANGED <<table, rate, chat, process, main>>

-----------------------------------------------------------------------------
(* Time, the end of the process and its restart.                           *)

Countdown(n) == IF n > 0 THEN n - 1 ELSE 0

Tick ==
    /\ pause > 0 \/ \E r \in Rows : status[r] = "queued" /\ wait[r] > 0
    /\ pause' = Countdown(pause)
    /\ wait' = [r \in Rows |-> Countdown(wait[r])]
    /\ UNCHANGED <<last, status, op, key, target, limited, owner, known, backoff, chat, process,
                   claims, main, left>>

(* uninstall_delivery_manager: the main thread starts to drain the queue,  *)
(* next to the worker.                                                     *)
BeginStop ==
    /\ MainFree
    /\ Spend("stop")
    /\ phase' = "stopping"
    /\ UNCHANGED <<table, rate, chat, run, stopped, claims, main>>

ProcessEnds ==
    /\ phase' = "down"
    /\ at' = [c \in Claimers |-> "idle"]
    /\ job' = [c \in Claimers |-> 0]
    /\ got' = [c \in Claimers |-> 0]
    /\ plan' = NoPlan
    /\ waiting' = 0
    /\ allow' = FALSE
    /\ UNCHANGED <<table, rate, chat, run, turn, since, blind>>

(* The drain is over, the worker has finished or has not been waited for   *)
(* (join(timeout=2.0)); ServiceRunStore.stop and the process exits.        *)
FinishStop ==
    /\ phase = "stopping"
    /\ at["main"] = "idle"
    /\ stopped' = stopped \cup {run}
    /\ ProcessEnds
    /\ UNCHANGED left

Crash ==
    /\ phase \in {"up", "stopping"}
    /\ Spend("crash")
    /\ ProcessEnds
    /\ UNCHANGED stopped

(* mutant: claimed rows are left alone *)
NoneOrphaned(alive) == {}

(* The claimed rows of runs that are over. *)
Orphaned(alive) == {r \in Rows : status[r] = "claimed" /\ owner[r] \notin alive}

(* ServiceRunStore.start: the rows claimed by a run that is over are       *)
(* queued again, before the new delivery manager is installed.  A run that *)
(* did not record its end counts as alive while a process has its pid.     *)
(* The session comes back running or, if its turn went stale, without it.  *)
Start ==
    /\ phase = "down"
    /\ run + 1 \in Runs
    /\ \E alive \in IF PidsReused THEN SUBSET (1..run \ stopped) ELSE {{}} :
        /\ status' = [r \in Rows |-> IF r \in Orphaned(alive) THEN "queued" ELSE status[r]]
        /\ owner' = [r \in Rows |-> IF r \in Orphaned(alive) THEN 0 ELSE owner[r]]
    /\ phase' = "up"
    /\ run' = run + 1
    /\ turn' \in {turn, "ended"}
    /\ UNCHANGED <<last, op, key, target, wait, limited, known, rate, chat, stopped, claims,
                   since, plan, waiting, allow, blind, left>>

-----------------------------------------------------------------------------
Produce ==
    \/ \E k \in TextKeys : Lookup(k)
    \/ Submit
    \/ Reply
    \/ \E k \in TypingKeys : Typing(k)
    \/ \E m \in Messages, waits \in BOOLEAN : Delete(m, waits)
    \/ CancelLive
    \/ NewGroup
    \/ EndTurn
    \/ WaitReturns

Answer(c) == \/ CallSucceeds(c) \/ CallIsNoop(c) \/ CallIsRejected(c)
             \/ CallIsLimited(c) \/ CallFails(c) \/ AnswerLost(c)

Commit(c) == Complete(c) \/ CompleteNoop(c) \/ Requeue(c) \/ Fail(c)

ProcessNext(c) == Claim(c) \/ SkipStale(c) \/ StartCall(c) \/ Answer(c) \/ Commit(c)

Next ==
    \/ Produce
    \/ \E c \in Claimers : ProcessNext(c)
    \/ DatabaseError
    \/ Tick
    \/ BeginStop \/ FinishStop \/ Crash \/ Start

Spec == Init /\ [][Next]_vars

(* The threads keep running, HTTP calls have timeouts, time passes, and    *)
(* the service manager restarts the service (Restart=always, KeepAlive).   *)
(* Nothing obliges the main thread to enqueue or to end the turn.          *)
Fairness ==
    /\ \A c \in Claimers : WF_vars(ProcessNext(c))
    /\ WF_vars(WaitReturns)
    /\ WF_vars(Tick)
    /\ WF_vars(FinishStop)
    /\ WF_vars(Start)

FairSpec == Spec /\ Fairness
-----------------------------------------------------------------------------
(* Properties.                                                             *)

TableOK ==
    /\ last \in 0..MaxRows
    /\ status \in [Rows -> Statuses]
    /\ op \in [Rows -> Ops]
    /\ key \in [Rows -> Keys \cup {NoKey}]
    /\ target \in [Rows -> 0..MaxMessages]
    /\ wait \in [Rows -> Nat]
    /\ limited \subseteq Rows
    /\ owner \in [Rows -> {0} \cup Runs]
    /\ known \in [Keys -> 0..MaxMessages]

RateOK == pause \in 0..MaxBackoff /\ backoff \in 0..MaxBackoff

ChatOK ==
    /\ posted \in 0..MaxMessages
    /\ author \in [Messages -> 0..MaxRows]
    /\ shown \in [Messages -> 0..MaxRows]
    /\ gone \subseteq 0..MaxMessages

ProcessOK ==
    /\ phase \in {"up", "stopping", "down"}
    /\ run \in Runs
    /\ stopped \subseteq Runs

ClaimsOK ==
    /\ at \in [Claimers -> Stages]
    /\ job \in [Claimers -> 0..MaxRows]
    /\ got \in [Claimers -> 0..MaxMessages]
    /\ \A c \in Claimers : at[c] = "idle" <=> job[c] = 0

MainOK ==
    /\ turn \in {"running", "ended"}
    /\ since \in 0..MaxRows
    /\ plan \in Plans \cup {NoPlan}
    /\ waiting \in 0..MaxRows
    /\ allow \in BOOLEAN
    /\ blind \subseteq Rows

(* Every row, message id, run and timestamp stays in its range. *)
TypeOK ==
    /\ TableOK
    /\ RateOK
    /\ ChatOK
    /\ ProcessOK
    /\ ClaimsOK
    /\ MainOK
    /\ left \in [FaultKinds -> Nat]

Pending(r)      == status[r] \in {"queued", "claimed"}
RowsOf(k)       == {r \in Rows : r <= last /\ key[r] = k}

(* "Once the pause expires, resume queued work in order": no row is        *)
(* claimed, and none is over, while an earlier row of its priority or of a *)
(* better one is queued, held by a pause or in flight.  process_next never *)
(* compares a row with those it skips: the order rests on the available_at *)
(* arithmetic of enqueue and of the 429 path.                              *)
ExecutedInOrder ==
    \A a, b \in Rows :
        a < b /\ Priority(a) <= Priority(b) /\ Pending(a)
            => status[b] \notin {"claimed", "completed", "failed"}

(* What a message shows is only ever replaced by a text enqueued later,    *)
(* across 429 retries, promotions of sends to edits, and restarts that     *)
(* execute a claimed row again.                                            *)
TextsOnlyAdvance == [][\A m \in Messages : shown[m] <= shown'[m]]_shown

(* The text of an answer's row that completed stays on screen, unless a    *)
(* later text of its chunk has replaced it: neither the replacement of     *)
(* queued rows by enqueue, nor the promotion of sends, nor the stale check *)
(* loses a text.                                                           *)
NewestTextStands ==
    \A n \in Rows : status[n] = "completed" /\ key[n] \in AnswerKeys
        => \E m \in 1..posted : /\ shown[m] >= n
                               /\ key[shown[m]] \in TextKeys
                               /\ ChunkOf[key[shown[m]]] = ChunkOf[key[n]]

(* During the pause that follows a 429 no row is claimed or executed.      *)
NoCallDuringPause == pause > 0 => \A c \in Claimers : at[c] \notin {"check", "call"}

(* A claimed row is always the row of a thread that works on it, or of a   *)
(* run that is over and whose rows the next start queues again: no row is  *)
(* left claimed for good.                                                  *)
ClaimsAreHeld ==
    \A r \in Rows : status[r] = "claimed"
        => \/ phase = "down"
           \/ owner[r] = run /\ \E c \in Claimers : job[c] = r

(* A second message for one chunk is only posted after a lookup that a     *)
(* completing send has made stale, a send that failed, or a fault between  *)
(* a call and its transaction: otherwise promotion and the lookup turn     *)
(* every later text into an edit.                                          *)
Faults(kinds) == \E kind \in kinds : left[kind] < FaultBudget[kind]
DuplicatesExplained ==
    Faults({"crash", "stop", "db"}) \/
    \A k \in TextKeys :
        Cardinality({m \in 1..posted : key[author[m]] = k})
            <= 1 + Cardinality({r \in RowsOf(k) : r \in blind \/ status[r] = "failed"})

(* A claimed row that nobody works on: its transaction failed, or the pid  *)
(* of the dead run that claimed it is alive again.                         *)
Stranded(r) ==
    /\ status[r] = "claimed"
    /\ \A c \in Claimers : job[c] # r
    /\ Faults({"db"}) \/ owner[r] # run

(* Every enqueued row is eventually executed, replaced, cancelled or       *)
(* failed: only a failed transaction or a reused pid strands it, 429       *)
(* pauses, priorities, crashes and a stop do not.                          *)
EveryRowSettles ==
    \A r \in Rows :
        (status[r] = "queued") ~> (status[r] \in {"completed", "failed", "deleted"} \/ Stranded(r))

(* The main thread, which serves every other event of the service, never   *)
(* waits for ever in enqueue_and_wait; for a stranded row it waits an hour.*)
WaiterReleased == (waiting # 0) ~> (waiting = 0 \/ Stranded(waiting))

(* Two threads never execute the same row: the drain of stop() and the     *)
(* worker claim in transactions of their own.                              *)
ClaimedOnce == \A r \in Rows : Cardinality({c \in Claimers : job[c] = r}) <= 1

(* A row of an answer that ends as completed was executed: whatever fault  *)
(* hits the worker, a send that completes has created its message.         *)
CompletedWasPosted ==
    \A r \in Rows :
        status[r] = "completed" /\ op[r] = "send" /\ key[r] \notin LiveKeys
            => \E m \in 1..posted : author[m] = r

-----------------------------------------------------------------------------
(* The inductive invariant behind ExecutedInOrder, TextsOnlyAdvance,       *)
(* NoCallDuringPause and ClaimsAreHeld, for a service that is never        *)
(* stopped gracefully (one claimer) and whose transactions succeed.        *)

SingleClaimer == FaultBudget["stop"] = 0 /\ FaultBudget["db"] = 0 /\ ~PidsReused

(* No drain and no database error has happened. *)
OnlyWorker ==
    /\ left["stop"] = 0 /\ left["db"] = 0
    /\ phase # "stopping"
    /\ at["main"] = "idle"

(* Rows exist in the order of their numbers. *)
RowShape == \A r \in Rows : status[r] = "absent" <=> r > last

(* The only claimed row is the worker's, or the one a crash left. *)
OneClaim ==
    /\ job["worker"] # 0 => phase = "up" /\ status[job["worker"]] = "claimed"
    /\ \A r \in Rows : status[r] = "claimed" => phase = "down" \/ (job["worker"] = r /\ owner[r] = run)
    /\ \A r, q \in Rows : status[r] = "claimed" /\ status[q] = "claimed" => r = q

(* available_at grows with created_at, is never earlier than the pause,    *)
(* and nothing is claimed during a pause.                                  *)
Schedule ==
    /\ \A r \in Rows : status[r] = "queued" => pause <= wait[r] /\ wait[r] <= Later(Throttle, pause)
    /\ \A r \in Rows : status[r] = "claimed" => wait[r] = 0 /\ pause = 0
    /\ \A a, b \in Rows : a < b /\ Pending(a) /\ Pending(b) => wait[a] <= wait[b]

(* A message shows the text of a row; no row that can still be executed    *)
(* has an earlier text.                                                    *)
ShownIsNewest ==
    \A m \in Messages :
        /\ shown[m] \in 0..last
        /\ \A r \in Rows : r < shown[m] /\ op[r] # "typing" => ~Pending(r)

QueueInv ==
    /\ TypeOK
    /\ OnlyWorker
    /\ RowShape
    /\ OneClaim
    /\ Schedule
    /\ ExecutedInOrder
    /\ ShownIsNewest
=============================================================================
