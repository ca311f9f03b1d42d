# A verification project for Tele CLI

Tele CLI is a Python service that carries a Telegram chat to a Codex *app
server* (a child process that speaks JSON-RPC over its pipes) and the answers
back. This directory holds TLA+ models of the parts in which order, concurrency
and failure matter, the TLC configurations that check them, and TLAPS proofs of
the most important results. Paths of Python files below are relative to the
repository's `src/`, and `service.py` is `runtime/service.py` there; `spec/...` is
relative to the repository's root.

## The system

Three threads of one process do the work: the *main thread* (`run_service`,
service.py:4560) handles updates and notifications and does all periodic work;
the *polling thread* (`poll_telegram_updates`, service.py:930) calls getUpdates;
the *delivery worker* (`TelegramDeliveryManager`, telegram_queue.py) sends what
is in the outbound queue. `TelegramClient` has one more worker thread for its
HTTP requests, and the JSON-RPC client a reader thread. A sqlite database keeps
sessions, queue, processed updates, approvals and runs over restarts; launchd,
systemd or the task scheduler starts the process again whenever it ends.

| Component | State | Operations | Hard behaviour | What makes it correct |
|---|---|---|---|---|
| **Telegram delivery queue** (`storage/telegram_queue.py`) | `telegram_outbound_queue`, the pause in `app_state`, message ids per dedupe key | enqueue with replacement, claim, skip stale, call, complete, re-queue, fail, promote sends to edits, stop, start | two claimers while `stop()` drains; a crash between the call and its commit; 429 pauses; lookups that a completing send makes stale | rows are executed in order, no text goes back or is lost, duplicates only after a known race, every row settles |
| **Inbound updates** (service.py:930-1060, `runtime/telegram_update_store.py`) | the queue and the gate between the two threads, the offset (memory only), `telegram_updates` | poll, put, drain, mark, handle, trim | the offset confirms updates that are only in memory; a crash; a dead thread | each update is handled once and in order; only the update in hand can be lost |
| **Telegram client** (`integrations/telegram.py`) | request queue, attempts | dispatch, send, retry | one worker serves all callers and sleeps through its retries | every caller is answered |
| **Service ownership** (`core/locks.py`, `runtime/control.py`, `setup/setup_flow.py`) | `app.lock` | inspect, classify, kill, heal, ignore, write, clear | test-then-write, reused pids, a lock cleared by a process that does not own it | one service works on a state directory |
| **Conversation turns** (service.py, `runtime/app_server_runtime.py`, `runtime/session_store.py`) | the session row: status, thread, turns, pending, streamed and delivered text, follow-up | message, steer, /stop, /new, notifications, idle flush, final flush, reconciliation, follow-ups, stale-turn and app-server recovery | notifications of an earlier turn, requests that fail after the session changed, three sources of the same text | an answer is complete, in the chat, and its own; no turn is forgotten or waited for in vain |
| **Message groups and chunks** (`storage/telegram_groups.py`, service.py:410) | ids in the session and in `telegram_message_chunks` | edit, send, delete until messages match chunks | ids of sends in flight are unknown; edits of messages that are being deleted | every chunk stays in its own message; the chat ends up with the last text and nothing else |
| **Session store** (`runtime/session_store.py`, `local_chat.py`) | the table `sessions` | load, save (deletes what it was not given), attach, detach, prune, turn start and end | two processes write from copies they loaded earlier | no session in use is deleted, none is attached twice |
| **App server supervision** (service.py:3060-3160, 4480-4540, `runtime/app_server_runtime.py`) | `codex`, `codex_state`, failures and delay, the pump's queue | start, bootstrap, notice a death, back off, /model, pump | a replaced app server's notifications; a bounded queue; deaths of either process at any step | notifications are handled once and in order, another start is always tried |
| **Approvals** (`runtime/approval_store.py`, service.py:4000) | the table `approvals` | store, answer, mark stale | ids start again with every app server | a request is shown and answered once, by an answer that reaches its asker |
| **JSON-RPC client** (`runtime/jsonrpc.py`) | pending requests, the reader thread | request, time out, respond, close | late responses; lines that are no messages; a server that dies in a call | a response reaches its own request only |
| **Sleep** (`runtime/sleep.py`) | short and long memory, lessons, `sleep_state`, what each session has seen | the steps of `run_sleep`; the refresh in a turn's first message | an end of the process between any two steps; agents and local_chat go on meanwhile | nothing noted is lost, everything reaches the long memory and every session |
| Pairing (`setup/pairing.py`, telegram.py) | pending codes | request, confirm, expire | two processes | one chat is paired, with the newest code |
| Service registration (`setup/service_manager.py`, `setup/host_service.py`) | registrations with the OS | ensure, repair, update, remove | partial failure | the registration matches the instance |
| Text merging (service.py) | none | merges of deltas, messages and thread text | overlapping texts | nothing lost or doubled |
| Storage, logs, workspaces, operator shell, HTML | files and tables | see `PROJECT.json` | - | not modelled, see below |

How they interact: the polling thread hands updates to the main thread; a
message becomes a JSON-RPC request (`thread/start`, `turn/start`, `turn/steer`)
on which the main thread waits; notifications come back through a pump and are
handled by the main thread, which collects an answer in the session row and
writes rows into the outbound queue; the worker executes them through
`TelegramClient` and commits their outcome; the main thread reads those outcomes
(`reconcile_pending_final_deliveries`) to see that an answer has arrived.

## Modules

| Module | Models |
|---|---|
| `TelegramQueue` | the delivery queue, its worker, the callers' lookups, crash, stop and restart |
| `TelegramQueueProofs`, `TelegramQueueOrder` | theorems about it: what holds through every fault; then the order and the texts, for one claimer |
| `Inbox` | abstract: what the inbound side promises a user |
| `InboundUpdates` | polling thread, gate, in-memory queue, dedupe table, main loop; implements `Inbox` |
| `ServiceLife` | composes `InboundUpdates` with `ServiceLock`: the threads run in the process that owns the lock |
| `InboundProofs` | theorems about the three: the pipeline's invariant, the refinement's steps, the composition |
| `TelegramClient` | the request worker and its retries |
| `MessageGroup` | a streamed text's chunks, composed with `TelegramClient`, whose only caller is the delivery worker |
| `MessageGroupProofs` | theorems about both |
| `ServiceLock` | app.lock and the processes that contend for it |
| `ServiceLockProofs` | theorems about it |
| `Conversation` | a chat's sessions, their turns and their answers |
| `ConversationProofs` | theorems about it |
| `JsonRpc` | app server processes, their pipes, the reader thread, requests |
| `AppServer` | extends `JsonRpc`: supervision, notification pump, approvals |
| `AppServerProofs` | theorems about both |
| `SessionStore` | the table `sessions` and its two writers |
| `Sleep` | extends `SessionStore`: the memories, `run_sleep`, and who is told what |
| `SleepProofs` | theorems about both |
| `MC*` | the event budgets and symmetry sets that TLC instantiates the above with |

### TelegramQueue

A row is a number in the order of insertion; the columns of the table are
functions of rows (`status`, `op`, `key`, `target`, `wait` for `available_at`,
`owner` for `claimed_by_run_id`, ...). `known` is what
`latest_message_id_for_dedupe` answers. Telegram itself is the set of messages
posted, the row that created and the row that last wrote each of them, and those
deleted. A dedupe key belongs to a streamed text, a final text, live progress,
an error or a typing indicator; `ChunkOf` says which chunk of the text it is. A
deletion has no key here; the keys of the code's synchronous deletions name one message
id each, so that one of them could only replace a queued deletion of the same message.

`process_next` is split where other threads can run: `Claim` (its transaction),
`SkipStale`/`StartCall` (the stale check, outside any transaction), the answers
of Telegram, and `Complete`, `CompleteNoop`, `Requeue` or `Fail` (the second
transaction, with the 429 pause and the promotion of waiting sends to edits).
Worker and main thread run the same steps: the main one does when `stop()`
drains. `Lookup` and `Submit` are the two halves of
`_sync_telegram_message_chunks`; `WaitReturns` is the loop of
`enqueue_and_wait`. `Crash` forgets everything that is not in the database;
`Start` re-queues rows of runs that are over (`operations.py`). Time is in
ticks; only differences matter, so `wait` and `pause` count down.

### InboundUpdates, Inbox and ServiceLife

The polling thread reads the gate, then the queue, then polls, then puts one
update after another: each is an action, since the main loop runs between them.
`confirmed` is what Telegram has forgotten: a getUpdates with an offset confirms
everything before it. The main loop takes an update, marks it (`telegram_updates`
is trimmed in the same transaction) and handles it; the death of the thread and
of the process can come between any two of these.

`Inbox` says what all this is for, without polling, tables or threads: messages
are handled one by one in the order they were sent, a death costs at most the
message whose turn it was, and every other message is handled in the end.
`KeepsPromise` is the refinement: `handled` maps to itself, a death to a crash of
the service, and `lost` to the updates that were in hand at a death and that
nobody will deliver again (`Lost`, `OnItsWay`: a death before the table's commit
or before the next getUpdates does not lose the update).

`ServiceLife` adds the life of the process: the two threads run while a process
serves, an end of that process (a kill, which leaves the lock, or an exception,
which clears it) is the crash of the inbound side, and the restart is the write of
the lock by the service manager's next process.

### TelegramClient

Callers queue a request and wait. The worker sends it; Telegram accepts, or
limits it for one of `Windows` seconds; the worker sleeps and tries again, at
most `MaxAttempts` times. `Described` chooses the branch at telegram.py:64, in
which a described error loses its `retry_after`.

### MessageGroup

`_sync_telegram_message_chunks` is a look-up and a submission per chunk, then the
deletion of the messages beyond the last one, then the write of the ids; the
worker runs in between. The queue is reduced to what `TelegramQueue` shows (rows
run in the order of their creation, queued rows of a key are replaced or
promoted), but a row is executed through the actions of `TelegramClient`, which
sleeps through rate limits and gives up after `MaxAttempts`. A message in the chat
is the chunk and the text it shows. `odd` records the four ways in which the code
is known to leave a wrong picture (below), so that `OwnMessages` and `TextStands`
claim everything else.

### ServiceLock

Every process is a pid with a role: the service manager's `service`, a
`foreground` run, a `setup`. Its stages are the steps of `prepare_instance` and
the flow around it: inspect and classify, perhaps a conflict that waits for the
operator's choice, write, serve, drain, off. A crash leaves the lock behind;
`PidsReused` says whether the pid of a dead process may name a live one. The history
variable `entangled` holds the processes that overlapped others on their way to the
lock: a writer that ignored a conflict, or that finds another process between its
inspection and its write, entangles itself and everybody who is there; a new inspection
begins with a clean slate. What the code leaves behind after a race is thus recorded and
not excused for ever. A process that drains after it has cleared the lock is a stage of
its own and does not count as at work: the next owner may run beside it.

### Conversation

A session is a record of the columns that decide anything. A turn's message is a
set of *pieces*, so that "whole" is set equality and a text that mixes turns is
seen as such; `handed` is the text last handed to the queue for the messages of a
turn. The app server says pieces, completes the message and ends the turn; each
puts a notification in a queue of bounded length that the main thread handles in
order. A request is two actions, its call and its answer (or its failure), as the
main thread blocks in it for up to 5 s while notifications wait. The queue is
reduced to what the properties of `TelegramQueue` promise: every row of a final
answer settles, done or with an error.

Abstractions to know about: a session's knowledge of its message ids is a choice
(`known`), because whether a send has completed by the time it is looked up is a
matter of the queue; `quiet` stands for 30 s without an event; pruning of old
sessions is left out (traces and events keep the rows of sessions in use); the
end notification of an interrupted turn is not sent, since the handler drops it.
Thinking and commentary messages are not in the model. Pieces are pairwise
different texts, so that no delta passes for a repetition of what is there
(`merge_streamed_agent_delta_text` drops those).

### JsonRpc and AppServer

An app server is numbered in the order of its start and has a process, a reader
thread, an output pipe (`lines`) and the client's two queues (`notes`, `asks`).
A request is its write and its return; in between the reader may file its
response, the time may run out, the process may die or a line may end the reader. Each
request made of a server has an identity of its own (`asked` counts them, `of` travels
with the request and its response), beside the id that `_allocate_id` gives it: the
program sees ids only, `OwnResponse` compares identities. Servers speak, and answer late,
from their start on, during their own bootstrap too.
Requests of the bootstrap follow one another as in `bootstrap_app_server_session`
(`Following`, with the fall-back to older method names); `NotBooted` is every way
in which it fails. The main thread is `Idle` or inside one of those chains, and
only when idle does it handle a notification, store approval requests or notice a
death. The pump's thread reads its `_codex`, polls and puts in three steps, so
that it may hold a notification of a server that has been replaced. A failed
write in `/approve`, which nothing catches, ends the service like a crash.

### SessionStore and Sleep

A row is the part of a session that the two writers fight over: whose it is,
attached, thread, active turn, instructions dirty, last generation seen. `copy` is
what a process has read and will write back; each write is one transaction,
nothing between a read and a write is. `save` deletes what it was not given unless
another table names it (`logged`, `traced`). The unique index for the local
channel makes a write fail; the one for Telegram does not apply to a chat without
topic, whose key is NULL. The texts of a session are not here: `Prunable` leaves out the
condition that it has no pending output, so that the model prunes more than the code.

`Sleep` adds the short memory of each session, the steps of `run_sleep` as
`stage["service"]` (list and read, think, long memory, lesson, empty the files,
mark the sessions, save them, stamp the state) and the agents that go on noting.
The generation a turn is about to tell is saved with the session before
`turn/start` is asked for, which is what `CaughtUpWasTold` is about; `slipped`
records the sessions that were in a race or lost such a turn, `erased` what was
noted while `run_sleep` was at work, `revived` what a stale copy attached again.

## Runs

| Run | Question | Instance | States |
|---|---|---|---|
| `q_safe` | Do order, pauses, claims and texts survive one rate limit, one failed or lost call and one crash? | 3 rows of a streamed answer, live progress and deletions; the graceful stop is off, as for the proofs | 1,461,838 |
| `q_live` | Does every row settle, is a waiting main thread released, does no row run twice at a time or complete without its call? | 2 rows of a final answer, an error notice, a typing action, deletions; every fault once, a graceful stop with two claimers, pids reused; `retry_after` above the cap; fair | 511,701 |
| `group` | Do chunks keep their messages, does the chat end up with the last text, is every caller of the client answered? | 3 texts of 1 or 2 chunks, 5 calls, limits of 2 s against one attempt, one refused call; fair | 617,507 |
| `life` | Is each update handled once, in order and eventually, by a service that comes back when it has gone? | 4 updates in batches of 2, a table of 2, one failed poll, one dead thread; 2 pids, two kills, one stop; fair | 238,786 |
| `lk_owner` | Does the lock name who works on a state directory, and whom does a race for it harm? | 3 processes of any role, every choice, one crash, one stop, reused pids | 1,166,186 |
| `conv` | Are answers whole and their own, and turns never lost from sight? | 2 sessions, 2 messages of 2 pieces, 2 notifications in flight, any one fault with any one command | 1,632,663 |
| `conv_live` | Are follow-ups sent, and is a detached session silent? | 2 sessions, chat or topic, rows that settle in all ways; fair | 196,213 |
| `conv_gone` | *Violation.* Does a completed turn's answer stay in the chat? | one message of one piece, no fault | |
| `srv` | Does a response reach its very request, are notifications handled in order and all of them, and does the supervisor go on? | 2 app servers, a pump queue of one place, 3 notifications or 2 approval requests, a second message behind a late answer, pairs of any fault with a message, a restart, a reply or a death; fair | 644,960 |
| `srv_ask` | *Violation.* Does an answer reach the app server that asked? | the same approvals | |
| `mem` | Is no session in use deleted, none attached twice, nothing noted lost, and is everybody told? | up to 4 sessions, 3 messages, 2 entries; 14 choices of faults and commands for the service alone, both processes, and replaced or cut-off sessions; fair | 632,571 |
| `mem_told` | *Violation.* Was every session that counts as caught up told? | the same with 2 sessions and one entry | |

Why the bounds are enough. The queue properties relate two rows (order,
promotion, replacement) and a third pushes between them; one pause, one crash and
one lost answer give every combination of two faults around a call, and delays of
2, capped at 3, lie on both sides of the throttle of 1. A batch of 2, a table of 2
and 4 updates let an update be redelivered after it was trimmed. Three processes
are a holder, a contender and one that comes between, or two that race and one that
comes after. Two chunks and three texts let
a text grow, shrink and grow again around a message whose id is not known yet. A
pump queue of one place is full with the second notification. Two app servers are
the one replaced and its successor. Two processes with two replaced sessions each
give a stale copy rows to bring back or to delete. In a conversation the second
message of two is the one that steers, waits, overtakes or starts the next turn,
and a message of two pieces can be split between a flush and the end of the turn.
A larger instance of `Conversation` (one of each fault, both commands, both kinds
of chat, all row ends, three notifications, one piece) passed the invariants of
`conv` with 4.5 million states.

### Fairness

- The worker, the polling and the main thread keep running; HTTP requests have
  timeouts (30 s) and so have JSON-RPC requests (5 s), so an answer or a failure
  comes: weak fairness of their steps.
- Strong fairness only for the polling thread's look at the gate: it looks every
  10 ms while the gate is open for the length of a sleep of the main loop.
- `Restart=always` and `KeepAlive` (`setup/host_service.py`:244 and :272) start
  the process again: weak fairness of `Start`, `Restart` and `Launch`.
- The main loop handles every notification and does its periodic work in every
  round, and the queue settles every row (which `q_live` shows).
- The reader threads, the pump and the app server's answers to requests that are
  not lost go on; `NewDay`: the clock reaches the next deadline of the sleep, which
  the main loop checks every half minute (service.py:4786).
- Nothing is assumed of users, of the app server, of Telegram's answers or of
  operators, and no fault is fair.

`KeepsPromise` contains the return of the service: a lock that the next process does not
get over breaks it.

`CHECK_DEADLOCK FALSE` is set where bounds or an idle system let it stop.

## Proofs

Every theorem is about the specification without fairness, for every value of the
constants that the modules' assumptions admit. An invariant of the runs is seldom
inductive; each of the following paragraphs names the one that is, and what it adds.

**The queue, with every fault** (`TelegramQueueProofs`). `TypeCorrect`: rows, ids, runs
and delays stay in their ranges. `PostInv` adds to the types that a row is in one hand
(`OneHand`, with a second claimer too), that an operation fits its dedupe key, and that
what Telegram answered is what happened; `ClaimedOnce` and `CompletedWasPosted` follow.
`DuplicateInv` is about histories: as long as no answer was lost, no run ended in a
call, no transaction failed and no second claimer drained (`Unharmed`), a key has at
most one send that is not blind, and when it completes its id is known before the next
look-up. So every second message of a chunk has one of the known causes
(`DuplicatesExplained`).

**Its order, for one claimer** (`TelegramQueueOrder`). `QueueInv` is inductive under
`SingleClaimer`: no graceful stop, no database error, no reused pid. `OnlyWorker` and
`OneClaim` say that one thread claims, one row at a time; `Schedule` is the heart:
`available_at` never decreases with the row's number and is never before the end of the
pause. That is why `ExecutedInOrder` holds although `process_next` takes any row that is
due: an older row of the same priority is due at least as early. `ShownIsNewest` adds
that no row that can still run is older than what its message shows. From the invariant
follow `OrderKept`, `PauseHonoured`, `NoRowStranded` and, as an action property,
`TextsAdvance`. The assumptions are needed: with a graceful stop two claimers break the
pause and the order (below). `TextInv` joins `QueueInv` and `PostInv` with what the ids
refer to (`Links`): every id, in the table, in a look-up or in an answer, is that of a
message which shows a text of the same chunk, and what a completed row has written is
there or was overwritten by a later row of the chunk. `NewestTextIsShown` follows.

**The inbound pipeline** (`InboundProofs`). `PipelineInv` looks at the whole way of an
update: the table keeps its rows in order and at distances that, with `BatchSize <=
MaxEntries`, make what is trimmed too old to be delivered again (`TableSpaced`,
`TableCovers`); what is in front of the update in hand, of one in the queue and of the
offset is known, in hand, or in front of it in the queue (`HandReach`, `QueueReach`,
`OffsetReach`). `OnlyInHandAtRisk` and `HandledInOrder` follow, and `PromiseKept`: every
step is a step of `Inbox` or leaves it alone, which is the safety part of the refinement
that `KeepsPromise` checks. `LifeIsInbound`: the composition with the lock has no
behaviour that `InboundUpdates` has not, so all this holds there too.

**Chunks** (`MessageGroupProofs`). `GroupInv`: the ids that the session, the table, a
sync in progress and the queued rows hold are those of posted messages; a row is of one
chunk; the worker's one call of `TelegramClient` is for the row it has claimed. Until a
list of ids has closed up, each id is at the place of the chunk its message shows.
`ChunksKeepMessages` and the types of `TelegramClient` (`ClientTypes`) follow.

`StandingInv` is about a group of which nothing has gone wrong: no row has failed and
`odd` is empty, two facts that no step takes back. It says when the last text is already
settled although rows are still queued. The rows are executed in their order, so that
what is completed precedes what is queued (`InOrder`). A chunk has one message: once a
row of it is completed no send of it is left, by promotion or because the look-up found
the message (`SendsFirst`), and every message is known from a completed row or belongs to
the call being answered (`MessagesKnown`, `OneMessage`). The newest row of a chunk has the
last text (`LastTexts`), and once it is completed the message shows it, for an older row
cannot be executed after it (`NewestShown`). Only messages beyond the text are deleted
(`DeadChunks`), and between two syncs all of those are (`Clean`, for which a sync in
progress follows what it has dropped: `Dropped`). When nothing waits any more, the visible
messages and the chunks of the last text correspond one to one: `LastTextStands`. TLC
checked this invariant on the instance of `group` and on the first 20 million states of a
larger one (three chunks, four texts) before it was proved.

**Ownership** (`ServiceLockProofs`). `LockInv` is inductive for any set of processes.
Of the processes that are not entangled: the lock names whoever is at work
(`HolderNamed`), a process about to write knows there is no holder (`WriterAlone`), and a
conflict that is still unanswered is about the process that holds the lock, or nobody
does (`ConflictCurrent`): without the last the answer of an operator minutes later could
free a lock that has changed hands. `Apart` is what confines a race: beside an orderly
process at work, an entangled one is at most about to write, which entangles both. Of two
processes at work both are therefore entangled (`TogetherEntangled`), and a process that
starts after those that raced have gone owns the lock alone, as if there had been none.

**Turns** (`ConversationProofs`). `ConversationInv` says where the turns are at home:
they are used in order, an active turn belongs to the session it was started for, an end
among the notifications is that of a turn that is over, a request to start a turn is made
for a session without one, and every turn, follow-up and thread is paid for by a message
of the user (`Budget`, which the types of turns and threads need). `RunningIsKnown` and
`ActiveTurnEnds` are parts of it; `DetachedIsHidden` needs that a completed turn belongs
to its session too (`DoneAtHome`).

`TextsInv` is about what is shown. It follows the pieces of a turn's message through every
place they pass: the active turn's pieces are streamed, pending or still among the
notifications, or the complete message has replaced them (`Collects`); a session that
delivers a final answer streams the whole message and has nothing else pending
(`IdleText`); the message ids it knows are of its own turns, and show a final answer only
while that is delivered (`OwnIds`), which is why neither an error nor the next turn takes
one off the screen; and a thread belongs to one session, whose active turn is its last
one (`OneThread`, `LastOfThread`), which is why the text read from the thread at the end
is that turn's. `AnswersAreWhole` and `TextsAreOwn` follow.

**The app server** (`AppServerProofs`). `SupervisorInv`: who waits for an answer, and
which servers still have an open client (the one in use and the one that is being
started); `PendingWaits` is part of it. `IdentityInv` follows each request of a server
through the places its id is in: the request lines not yet answered, the responses in the
pipe, late ones included, and the call in progress all carry the identity that the id was
given to, because the next id counts every request ever made. `OwnResponses` follows; an
`_allocate_id` that used an id again which nobody waits for any more breaks it.
`NotesInv`: what was handled,
what the pump's queue holds, what the pump has in hand, what waits in a client and what
is still a line of its output are one chain without a gap (`Chain`, `NotesWait`,
`LinesWait`), and the pump never goes back to an older server. `NotesAreInOrder` follows.
`SupervisionTypes` includes the restart delay, whose doubling stays below its cap.

**Sessions and memory** (`SleepProofs`). `SleepInv` relates the table to the copies of
its rows in the hands of two processes: all rows of a session agree on whose it is
(`RowInv`), nobody else knows the session that a process is making (`HandInv`), and a
session that no other table names is one being made, one cut off between its row and its
event, or one that a stale copy brought back (`NamedInv`). `EntriesAreKept`,
`OneIsAttached` and `SessionsAreKept` follow. `ToldInv` adds what each session was told:
a row that needs no refresh counts as seen no more than was told (`Fits`), a process that
starts a turn is about to tell the rest (`Completes`), and while `run_sleep` marks the
sessions, what it holds is marked and what it does not hold is new (`MarkedRows`).
`SessionsAreTold` follows.

The attempt to prove `ToldUnlessSlipped` found a case that the model recorded wrongly
and the checked instance was too small for: a local session that was cut off in its
creation, deleted by the other process's stale save while local_chat starts its turn,
counts as caught up without having been told. `Endangered` covers such sessions now. A
larger instance (two turns of local_chat with every fault that meets them, 199,316
states) passed with it, and `ToldInv` was checked on it too.

Only model-checked:

- Everything about liveness (`EveryRowSettles`, `WaiterReleased`, `CallsReturn`,
  `FollowUpSent`, `NotesHandled`, `AsksSurface`, `TriesAgain`, `MemoriesConsolidated`,
  and that `KeepsPromise` handles every message in the end): fairness is about ENABLED,
  which the proof system does not handle.

Every invariant and every action property that a run checks is stated by a theorem.

## What the runs found

Three statements of the repository's documents that the code does not meet:

- **`conv_gone`.** "final answer is delivered once on `turn/completed`"
  (spec/codex_app_server_integration_test_plan.md:236). An answer that was streamed
  whole, then replaced by its `item/completed` and dropped from the pending text by
  an idle flush, is deleted from the chat when its turn completes (service.py:4410).
- **`srv_ask`.** "stale approval is not auto-answered after process loss"
  (spec/codex_app_server_integration_test_plan.md:255) and "orphaned pending
  approvals are marked stale" (spec/codex_app_server_integration_spec.md:397). Rows
  are made stale when a service starts (service.py:4587), not when an app server is
  replaced: `/approve` then answers the new server (service.py:3394).
- **`mem_told`.** "After a successful refreshed turn starts, that session is marked"
  (docs/memory-process.md). The mark is saved with the thread, before the turn is
  asked for (`runtime/app_server_runtime.py`:143); a process that ends in between
  leaves a session that is never told.
Other divergences the models exhibit or carry, without a run of their own:

- `stop()` drains while the worker may be in a pause or a call
  (telegram_queue.py:73), so calls are made during a pause.
- A crash between a call and its commit sends a final answer twice.
- The streamed and the final text have different dedupe keys (service.py:4339): if
  the send of the first is in flight at the end of the turn, the chat gets two
  messages (spec/codex_app_server_integration_test_plan.md:236).
- `run_service` clears the lock before it drains the queue (service.py:4893), so the
  next owner may start while the old one still writes
  (spec/services_and_lifecycle_spec.md:305, :314).
- `ignore` is to "continue without taking ownership" (spec.md:174); the code writes the
  lock all the same (control.py:75).
- Two processes that start at once both write the lock (control.py:77); a process
  whose own pid is in a stale lock takes itself for a live owner (locks.py:40).
- `TelegramClient` ignores `retry_after` when an error is described
  (telegram.py:64).
- Follow-ups in a topic are never dispatched, nor is partial text flushed there:
  both walk the sessions without a topic.
- `/stop` leaves a queued follow-up in the session; a newer message overtakes it.
- A follow-up is cleared before it is sent: a crash in between loses it.
- A final answer with a row that failed for good stays `DELIVERING_FINAL`.
- A turn that says nothing is given the thread's previous answer; a `thread/resume`
  that fails silently starts a new thread.
- `turn/start` that times out leaves a turn no session knows, and steering a turn
  that has just ended loses its answer.
- `mark_recovering_turns` is never called; stale-turn recovery keeps the message
  ids of the turn it interrupts, which the next answer then edits.

Of chunks (`odd` in `MessageGroup`):

- The id lists close up when the id of an earlier chunk is not known (its send
  failed, or the worker completed it between two look-ups): chunks are then edited
  into each other's messages (service.py:443-503, telegram_groups.py:118-130).
- A look-up that the send overtakes posts the chunk twice.
- A text that shrinks and grows again edits the message it has deleted, which fails:
  `latest_message_id_for_dedupe` still finds it.
- A text that shrinks before a chunk's message is known leaves it in the chat.
- `sync_message_chunks` overwrites an id that the worker has stored meanwhile.
- An HTTP error with an empty body leaves `payload` unbound in
  `TelegramClient._request` (telegram.py:111-132).

Of the app server:

- A line that is no JSON object, or an id that is no number, ends the reader thread
  (jsonrpc.py:149); the process lives, so that nothing restarts it.
- `/approve`, `/deny` or `/stop` for an app server whose death was not noticed yet
  raises, and the service ends. While a login is required they are refused.
- An ordinary message starts an app server at once, whatever the restart delay
  (service.py:3967; spec/codex_app_server_integration_test_plan.md:194).
- What a replaced app server has said and the pump has not read is lost; a late
  account notification of it sets `codex_state` to RUNNING while there is none.
- A `thread/resume` that fails starts a new thread without a word
  (`runtime/app_server_runtime.py`:260; spec/codex_app_server_integration_spec.md:398), which
  gets no instructions if its session is not dirty.

Of sessions and memory:

- What an agent notes in its short memory while the sleep's AI works is emptied
  unread (`runtime/sleep.py`:303; docs/memory-process.md calls it append-only).
- `idx_sessions_attached_telegram` does not protect the operator's chat (its topic
  is NULL): a stale whole-state save can leave two attached sessions.
- A stale save that meets `/new` of local_chat violates the other index: an
  IntegrityError that ends the service's flush, and with it the service.
- `prune_detached_sessions` never removes a row that an event names, yet writes all
  rows back with every flush.
- A session of local_chat that is cut off between its row and its `session.created`
  event, or that a stale save brings back, is deleted by the next prune although it may
  be in use: no other table names it (`orphans`).
- A sleep that failed is not tried again before the next deadline.
- local_chat restarted while its session runs a turn stays locked, and reads no
  `/stop` while a turn is active (`local_chat.py`:177).

## Not modelled, and the plan

Left out for good: storage and migrations, logs and traces, workspaces, the operator
shell and demo and the HTML rendering (file and screen output, one-off imports, or
string conversion with no protocol); service registration, which calls the tools of
the operating system one after another; text merging, whose outcome `Conversation`
has on sets of pieces and whose string overlaps are better tested; and pairing, two
small files that the setup and the service write, whose expiry the repository's tests
reach. Of what is modelled the parts left out are named in `PROJECT.json`: thinking
and commentary messages, the browser login, topics and titles of sessions, the
fall-back of a message group to the ids of live progress.

Planned next:

1. An abstract delivery specification for `TelegramQueue` (every operation settles, those
   of a key in their order, the newest text stands), and that each step implements it.
2. Theorems about the approvals of `AppServer`: an answer reaches the ask it was given to,
   or nobody.

Out of reach of the proof system: liveness under fairness and whatever follows from
ENABLED.

## Running

`tlc -config q_safe.cfg MCTelegramQueue` (each run's module and configuration are
in `PROJECT.json`), `tlapm TelegramQueueOrder.tla`. `q_safe`, `q_live`, `conv` and `srv` take
about two minutes on two cores, the others about one.
