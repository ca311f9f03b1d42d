----------------------------- MODULE AppServer -----------------------------
(***************************************************************************)
(* The supervision of the app server: how the main thread starts one, asks *)
(* it, notices its death and starts the next after a delay; how the        *)
(* notification pump hands its notifications to the main loop; and how its *)
(* approval requests are stored, shown to the operator and answered.       *)
(***************************************************************************)
EXTENDS JsonRpc, SequencesExt

CONSTANTS
    MaxQueue,    \* CODEX_NOTIFICATION_QUEUE_MAX_SIZE
    Base,        \* codex_restart_backoff_seconds, in ticks
    Maximum,     \* codex_restart_backoff_max_seconds, in ticks
    Budgets      \* bounds, one of which is chosen: how often each event happens

Faults   == {"die", "launch", "slow", "junk", "crash"}
Commands == {"message", "restart", "reply"}
Words    == {"note", "ask"}
Events   == Faults \cup Commands \cup Words

ASSUME SupervisorAssumption ==
    /\ MaxQueue \in Nat \ {0}
    /\ Base \in Nat \ {0} /\ Maximum \in Nat
    /\ Budgets \subseteq [Events -> Nat]

VARIABLES
    up,         \* run_service is running
    codex,      \* the main thread's app server, or None
    codexState, \* runtime_state.codex_state
    task,       \* what the main thread is in the middle of
    failures,   \* codex_restart_failures
    wait,       \* time until next_codex_restart_at
    pumped,     \* the pump's _codex
    looked,     \* the server its thread is about to poll
    held,       \* the notification its thread is about to put
    queue,      \* the pump's queue
    taken,      \* history: the notifications handled
    said,       \* per server: notifications and requests written so far
    rows,       \* the table approvals: per request id
    answered,   \* history: the responses to approval requests
    left        \* the events that may still happen

supVars  == <<up, codex, codexState, task, failures, wait>>
pumpVars == <<pumped, looked, held, queue>>
appVars  == <<rows, answered>>
vars     == <<rpcVars, supVars, pumpVars, appVars, taken, said, left>>

None == 0
NoNote == <<>>

Starters == {"service", "maintain", "message", "restart"}
NoRow == [status |-> "none", of |-> None]

Spend(kind) == left[kind] > 0 /\ left' = [left EXCEPT ![kind] = @ - 1]

(* "none", the starter of the app server that is being started, or the     *)
(* delivery of a message to it.                                            *)
Tasks == Starters \cup {"none", "deliver"}

Idle == up /\ task = "none"

Started == {s \in Servers : proc[s] # "off"}
Open    == {s \in Servers : reader[s] \in {"reads", "died"}}

(* codex_restart_delay *)
Delay(n) == LET d == Base * 2^(n - 1) IN IF d < Maximum \/ Maximum < Base THEN d ELSE Maximum

Init ==
    /\ RpcInit
    /\ up = FALSE /\ codex = None /\ codexState = "STOPPED" /\ task = "none"
    /\ failures = 0 /\ wait = 0
    /\ pumped = None /\ looked = None /\ held = NoNote /\ queue = <<>>
    /\ taken = <<>>
    /\ said = [s \in Servers |-> [note |-> 0, ask |-> {}]]
    /\ rows = [i \in AskIds |-> NoRow]
    /\ answered = {}
    /\ left \in Budgets

-----------------------------------------------------------------------------
(* Starting an app server: start_app_server_session and the bootstrap.     *)

(* A response is there, or the time is up. *)
Waited ==
    IF call.slot # Empty \/ Unanswerable(call.server) THEN UNCHANGED left ELSE Spend("slow")

(* What follows an outcome of a request of the bootstrap: the next one,    *)
(* "done" or "failed".  AppServerClient tries an older name of a method    *)
(* that the server does not know, or whose result it does not recognise.   *)
Following(method, outcome) ==
    CASE method = "initialize" -> IF outcome = "ok" THEN "account/read" ELSE "failed"
      [] method = "account/read" ->
             CASE outcome = "ok" -> "done"
               [] outcome = "auth" -> "account/login/start"
               [] outcome = "unrecognised" -> "getAccount"
               [] OTHER -> "failed"
      [] method = "getAccount" ->
             CASE outcome = "ok" -> "done"
               [] outcome = "auth" -> "account/login/start"
               [] OTHER -> "failed"
      [] method = "account/login/start" ->
             IF outcome = "unrecognised" THEN "login/account" ELSE "done"
      [] method = "login/account" -> "done"

LoginMethods == {"account/login/start", "login/account"}

(* There is no app server: a delay, for the starters that count failures.  *)
NotBooted(starter) ==
    /\ codex' = None /\ pumped' = None
    /\ codexState' = "DEGRADED"
    /\ task' = "none"
    /\ CASE starter = "service" -> failures' = 1 /\ wait' = Delay(1)
         [] starter = "maintain" -> failures' = failures + 1 /\ wait' = Delay(failures + 1)
         [] OTHER -> UNCHANGED <<failures, wait>>

(* start_app_server_session: the next app server is started and asked to   *)
(* initialize; or it cannot be.                                            *)
Launch ==
    /\ task \in Starters /\ call = NoCall
    /\ \/ \E s \in Servers :
            /\ s = Cardinality(Started) + 1
            /\ Opens(s)
            /\ Requests(s, "initialize", TRUE)
            /\ UNCHANGED <<supVars, pumped, left>>
       \/ /\ IF Cardinality(Started) < MaxServers THEN Spend("launch") ELSE UNCHANGED left
          /\ NotBooted(task)
          /\ UNCHANGED <<up, proc, reader, nextId, asked, pending, told, call>>
    /\ UNCHANGED <<lines, notes, asks, looked, held, queue, taken, said, appVars>>

Continues(s, method) ==
    /\ Requests(s, method, proc[s] = "runs")
    /\ UNCHANGED <<supVars, pumped, proc, reader, lines, asks>>

(* derive_codex_state *)
StateFound == IF call.method \in LoginMethods THEN "AUTH_REQUIRED" ELSE "RUNNING"

(* The app server is there, for whoever waits.  The pump learns of it when *)
(* the main thread is done.                                                *)
Booted(s) ==
    /\ Returns(s)
    /\ codex' = s
    /\ codexState' = StateFound
    /\ IF task = "maintain" THEN failures' = 0 /\ wait' = 0 ELSE UNCHANGED <<failures, wait>>
    /\ IF task = "message" THEN task' = "deliver" /\ UNCHANGED pumped
                           ELSE task' = "none" /\ pumped' = s
    /\ UNCHANGED <<up, proc, reader, lines, asks, told, nextId, asked>>

BootFails(s) ==
    /\ NotBooted(task)
    /\ call' = NoCall
    /\ Closes({s})
    /\ UNCHANGED up

(* A request of the bootstrap ends. *)
Boots ==
    /\ task \in Starters
    /\ call # NoCall
    /\ Waited
    /\ \E outcome \in Outcomes :
        LET next == Following(call.method, outcome)
        IN CASE next = "failed" -> BootFails(call.server)
             [] next = "done"   -> Booted(call.server)
             [] OTHER           -> Continues(call.server, next)
    /\ UNCHANGED <<notes, looked, held, queue, taken, said, appVars>>

-----------------------------------------------------------------------------
(* The main thread's other work.                                           *)

(* mark_all_pending_stale *)
StaleRows == [i \in AskIds |-> IF rows[i].status = "pending"
                               THEN [rows[i] EXCEPT !.status = "stale"] ELSE rows[i]]

(* run_service begins: the approvals of earlier runs are stale, and an app *)
(* server is started.                                                      *)
ServiceStarts ==
    /\ ~up
    /\ up' = TRUE
    /\ rows' = StaleRows
    /\ task' = "service"
    /\ UNCHANGED <<rpcVars, codex, codexState, failures, wait, pumpVars, taken, said, answered, left>>

(* The process ends: its children lose their pipes, its memory is lost.    *)
Ends ==
    /\ up' = FALSE
    /\ codex' = None /\ codexState' = "STOPPED" /\ task' = "none"
    /\ failures' = 0 /\ wait' = 0
    /\ pumped' = None /\ looked' = None /\ held' = NoNote /\ queue' = <<>>
    /\ call' = NoCall
    /\ Closes(Open)
    /\ UNCHANGED <<notes, taken, said>>

Crash ==
    /\ up
    /\ Spend("crash")
    /\ Ends
    /\ UNCHANGED appVars

(* process_telegram_update with an ordinary message: without an app server *)
(* it starts one at once, whatever delay there is.                         *)
Message ==
    /\ Idle
    /\ Spend("message")
    /\ task' = IF codex = None THEN "message" ELSE "deliver"
    /\ UNCHANGED <<rpcVars, up, codex, codexState, failures, wait, pumpVars, appVars, taken, said>>

(* mutant: set_codex is forgotten after an update *)
MessageDoneUntold == task' = "none" /\ UNCHANGED pumped

(* notification_pump.set_codex(codex) *)
MessageDone == task' = "none" /\ pumped' = codex

(* handle_authorized_message: while a login is required the message is     *)
(* refused, otherwise it becomes a request (of a turn, see Conversation).  *)
Delivers ==
    /\ task = "deliver" /\ call = NoCall
    /\ IF codexState = "AUTH_REQUIRED"
       THEN MessageDone /\ UNCHANGED rpcVars
       ELSE /\ Requests(codex, "turn", proc[codex] = "runs")
            /\ UNCHANGED <<proc, reader, lines, notes, asks, task, pumped>>
    /\ UNCHANGED <<up, codex, codexState, failures, wait, looked, held, queue, appVars, taken, said, left>>

(* Its response came, or 5 s went by, or the write failed. *)
DeliveryEnds ==
    /\ task = "deliver" /\ call # NoCall
    /\ Returns(codex)
    /\ MessageDone
    /\ Waited
    /\ UNCHANGED <<proc, told, reader, lines, nextId, asked, notes, asks>>
    /\ UNCHANGED <<up, codex, codexState, failures, wait, looked, held, queue, appVars, taken, said>>

(* /model and /reasoning: restart_codex_runtime *)
Restart ==
    /\ Idle
    /\ Spend("restart")
    /\ Closes({codex} \ {None})
    /\ codexState' = "STOPPED"
    /\ task' = "restart"
    /\ UNCHANGED <<notes, call, up, codex, failures, wait, pumpVars, appVars, taken, said>>

(* mutant: an app server is taken to be alive until it is stopped *)
AliveUntilClosed(s) == reader[s] # "closed"

(* codex_is_alive *)
Alive(s) == proc[s] = "runs"

(* maintain_codex_runtime finds the process dead ...                       *)
NoticesDeath ==
    /\ Idle
    /\ codex # None /\ ~Alive(codex)
    /\ Closes({codex})
    /\ codex' = None /\ pumped' = None
    /\ codexState' = "BACKOFF"
    /\ failures' = failures + 1
    /\ wait' = Delay(failures + 1)
    /\ UNCHANGED <<notes, call, up, task, looked, held, queue, appVars, taken, said, left>>

(* ... and after the delay starts the next.                                *)
Maintains ==
    /\ Idle
    /\ codex = None /\ wait = 0
    /\ Cardinality(Started) < MaxServers
    /\ task' = "maintain"
    /\ UNCHANGED <<rpcVars, up, codex, codexState, failures, wait, pumpVars, appVars, taken, said, left>>

Tick ==
    /\ wait > 0
    /\ wait' = wait - 1
    /\ UNCHANGED <<rpcVars, up, codex, codexState, task, failures, pumpVars, appVars, taken, said, left>>

(* update_codex_auth_state: that a login is complete ends AUTH_REQUIRED,   *)
(* whichever app server says so.                                           *)
StateTold(note) == IF note.what = "account" THEN "RUNNING" ELSE codexState

(* drain_codex_notifications: one of them. *)
HandlesNote ==
    /\ Idle
    /\ queue # <<>>
    /\ taken' = Append(taken, Head(queue))
    /\ queue' = Tail(queue)
    /\ codexState' = StateTold(Head(queue))
    /\ UNCHANGED <<rpcVars, up, codex, task, failures, wait, pumped, looked, held, appVars, said, left>>

(* mutant: a row that is there is kept *)
KeptRow(i) == IF rows[i].status = "none" THEN [status |-> "pending", of |-> codex] ELSE rows[i]

(* ApprovalStore.add: the row of an earlier request with the same id is    *)
(* overwritten.                                                            *)
NewRow(i) == [status |-> "pending", of |-> codex]

(* drain_codex_approvals: all requests there are. *)
StoresAsks ==
    /\ Idle
    /\ codex # None /\ asks[codex] # <<>>
    /\ rows' = [i \in AskIds |-> IF i \in ToSet(asks[codex]) THEN NewRow(i) ELSE rows[i]]
    /\ asks' = [asks EXCEPT ![codex] = <<>>]
    /\ UNCHANGED <<proc, told, lines, reader, pending, nextId, asked, notes, call, supVars, pumpVars, answered, taken, said, left>>

(* get_pending *)
PendingRow(i) == rows[i].status = "pending"

(* JsonRpcClient.respond: the verdict on request i. *)
VerdictOn(i, verdict) == [to |-> codex, id |-> i, of |-> rows[i].of, verdict |-> verdict]

(* ApprovalStore.mark *)
Marked(i, verdict) == [rows EXCEPT ![i].status = verdict]

(* /approve i and /deny i: the response goes to the app server of now, and *)
(* the row is marked.  If its process has ended the write raises, which    *)
(* nothing catches: the service ends.                                      *)
Reply(i, verdict) ==
    /\ Idle
    /\ codexState # "AUTH_REQUIRED"
    /\ codex # None /\ PendingRow(i)
    /\ Spend("reply")
    /\ IF proc[codex] = "runs"
       THEN /\ answered' = answered \cup {VerdictOn(i, verdict)}
            /\ rows' = Marked(i, verdict)
            /\ UNCHANGED <<rpcVars, supVars, pumpVars, taken, said>>
       ELSE Ends /\ UNCHANGED appVars

-----------------------------------------------------------------------------
(* The pump's thread.                                                      *)

(* _current_codex(); a poll that finds nothing is left out. *)
PumpLooks ==
    /\ up /\ held = NoNote /\ looked = None
    /\ pumped # None /\ notes[pumped] # <<>>
    /\ looked' = pumped
    /\ UNCHANGED <<rpcVars, supVars, pumped, held, queue, appVars, taken, said, left>>

(* poll_notification(), of an app server that may be replaced meanwhile.   *)
PumpPolls ==
    /\ looked # None
    /\ looked' = None
    /\ held' = [server |-> looked, id |-> Head(notes[looked]).id, what |-> Head(notes[looked]).what]
    /\ notes' = [notes EXCEPT ![looked] = Tail(@)]
    /\ UNCHANGED <<proc, told, lines, reader, pending, nextId, asked, asks, call, supVars, pumped, queue, appVars, taken, said, left>>

(* mutant: a notification is dropped when the queue is full *)
PutsOrDrops ==
    queue' = IF Len(queue) < MaxQueue THEN Append(queue, held) ELSE queue

(* mutant: the queue has no bound *)
PutsAnyway == queue' = Append(queue, held)

(* put with a timeout, again and again until there is room *)
Puts == Len(queue) < MaxQueue /\ queue' = Append(queue, held)

PumpPuts ==
    /\ held # NoNote
    /\ Puts
    /\ held' = NoNote
    /\ UNCHANGED <<rpcVars, supVars, pumped, looked, appVars, taken, said, left>>

-----------------------------------------------------------------------------
(* The app server.  It notifies and asks for approvals from its start on.  *)

Says(s) ==
    /\ said[s].note < MaxNotes /\ Spend("note")
    /\ \E what \in {"text"} \cup (IF codexState = "AUTH_REQUIRED" THEN {"account"} ELSE {}) :
          Writes(s, Note(said[s].note + 1, what))
    /\ said' = [said EXCEPT ![s].note = @ + 1]
    /\ UNCHANGED <<proc, told, reader, pending, nextId, asked, notes, asks, call, supVars, pumpVars, appVars, taken>>

AsksApproval(s) ==
    /\ Spend("ask")
    /\ \E i \in AskIds \ said[s].ask :
        /\ Writes(s, Ask(i))
        /\ said' = [said EXCEPT ![s].ask = @ \cup {i}]
    /\ UNCHANGED <<proc, told, reader, pending, nextId, asked, notes, asks, call, supVars, pumpVars, appVars, taken>>

Garbles(s) ==
    /\ Spend("junk")
    /\ Writes(s, Junk)
    /\ UNCHANGED <<proc, told, reader, pending, nextId, asked, notes, asks, call, supVars, pumpVars, appVars, taken, said>>

-----------------------------------------------------------------------------
Service == Launch \/ Boots \/ Delivers \/ DeliveryEnds \/ NoticesDeath \/ Maintains \/ HandlesNote \/ StoresAsks
User    == Message \/ Restart \/ \E i \in AskIds, v \in {"approved", "denied"} : Reply(i, v)
Pump    == PumpLooks \/ PumpPolls \/ PumpPuts
ReadsLine(s) == Reads(s) /\ UNCHANGED <<supVars, pumpVars, appVars, taken, said, left>>
Serves(s) == Responds(s) /\ UNCHANGED <<supVars, pumpVars, appVars, taken, said, left>>
Child(s) ==
    \/ Serves(s)
    \/ Dies(s) /\ Spend("die") /\ UNCHANGED <<supVars, pumpVars, appVars, taken, said>>
    \/ Says(s) \/ AsksApproval(s) \/ Garbles(s)

Next ==
    \/ ServiceStarts \/ Crash \/ Tick \/ Service \/ User \/ Pump
    \/ \E s \in Servers : ReadsLine(s) \/ Child(s)

Spec == Init /\ [][Next]_vars

(* The main loop does each of its works in every round, threads go on, and *)
(* the service manager starts the service again.                           *)
FairSpec ==
    /\ Spec
    /\ WF_vars(ServiceStarts) /\ WF_vars(Tick)
    /\ WF_vars(Launch \/ Boots \/ Delivers \/ DeliveryEnds) /\ WF_vars(NoticesDeath) /\ WF_vars(Maintains)
    /\ WF_vars(HandlesNote) /\ WF_vars(StoresAsks)
    /\ WF_vars(Pump)
    /\ \A s \in Servers : WF_vars(ReadsLine(s)) /\ WF_vars(Serves(s))

-----------------------------------------------------------------------------
TypeOK ==
    /\ RpcTypeOK
    /\ up \in BOOLEAN
    /\ {codex, pumped, looked} \subseteq Servers \cup {None}
    /\ codexState \in {"STOPPED", "RUNNING", "AUTH_REQUIRED", "BACKOFF", "DEGRADED"}
    /\ task \in Tasks
    /\ failures \in Nat /\ wait \in Nat
    /\ Len(queue) <= MaxQueue
    /\ \A i \in AskIds : rows[i].status \in {"none", "pending", "approved", "denied", "stale"}

(* Notifications are handled in the order they were written, none is left  *)
(* out, and those of a replaced app server come before those of the next.  *)
NotesInOrder ==
    \A i \in 1 .. Len(taken) :
        LET n == taken[i]
            last == IF i = 1 THEN [server |-> None, id |-> 0] ELSE taken[i - 1]
        IN IF n.server = last.server THEN n.id = last.id + 1 ELSE n.server > last.server /\ n.id = 1

(* An answer goes to the app server that asked: "answer the pending        *)
(* JSON-RPC server request".                                               *)
AnswerReachesAsker == \A a \in answered : a.to = a.of

Deaf(s) == reader[s] \in {"died", "closed"}

(* What an app server in service says is handled in the end, however full  *)
(* the queue.                                                              *)
NotesHandled ==
    []<>(\A s \in Servers : \A n \in 1 .. said[s].note :
            Deaf(s) \/ \E i \in 1 .. Len(taken) : taken[i].server = s /\ taken[i].id = n)

(* An approval that an app server waits for can be answered in the end:    *)
(* "without it, turns can stall indefinitely".                             *)
AsksSurface ==
    []<>(\A s \in Servers : \A i \in said[s].ask : Deaf(s) \/ rows[i].of = s)

(* A service without an app server goes on trying to have one.             *)
TriesAgain == []<>((codex # None /\ proc[codex] = "runs") \/ Cardinality(Started) = MaxServers)
=============================================================================
