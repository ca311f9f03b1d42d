---------------------------- MODULE Conversation ----------------------------
(***************************************************************************)
(* The sessions of one chat, the turns they run on the Codex app server,   *)
(* and how the answer of a turn is collected from notifications, streamed, *)
(* delivered and reconciled: the main thread of runtime/service.py and     *)
(* AppServerSession of runtime/app_server_runtime.py.                      *)
(*                                                                         *)
(* A text is the set of the pieces it is made of; a piece is named by its  *)
(* turn and its place in the turn's message.  The outbound queue is        *)
(* reduced to what TelegramQueue promises: a row settles, done or failed.  *)
(***************************************************************************)
EXTENDS Integers, Sequences, FiniteSets

CONSTANTS
    MaxSessions,  \* bound: sessions ever created
    MaxPieces,    \* bound: pieces of a turn's message
    MaxMessages,  \* bound: messages the user ever sends, each of which starts at most one turn
    MaxNotes,     \* bound: notifications waiting at a time
    Topics,       \* is the chat a forum topic?  a subset of BOOLEAN
    RowEnds,      \* how a row of a final answer may settle, a subset of AllRowEnds
    Budgets       \* bound: how often each fault and each command may happen, one of these

Faults   == {"request", "server", "crash"}
Commands == {"/stop", "/new"}

(* "done": sent; the others are the errors a row can fail with: one that   *)
(* only says there was nothing to do, a closed topic, anything else.       *)
AllRowEnds == {"done", "ignorable", "closed", "other"}

ASSUME ConversationAssumption ==
    /\ MaxSessions \in Nat \ {0}
    /\ MaxMessages \in Nat /\ MaxPieces \in Nat
    /\ MaxNotes \in Nat
    /\ Topics \subseteq BOOLEAN
    /\ RowEnds \subseteq AllRowEnds
    /\ Budgets \subseteq [Faults \cup Commands -> Nat]

Sessions == 1..MaxSessions
Turns    == 1..MaxMessages
NoTurn   == 0
NoIds    == -1   \* the session knows no message of its answer

VARIABLES
    sess,    \* the table sessions
    made,    \* the sessions created so far, the last one is the newest
    topic,   \* is the chat a topic?
    \* the app server
    server,  \* "up", "dead" (not yet noticed) or "none" (codex is None)
    ran,     \* per turn: "unused", "running", "spoken" (its message is complete) or "over"
    home,    \* per turn: its session and its thread
    said,    \* per turn: the pieces of its message so far
    threads, \* the threads started so far
    resumed, \* _resumed_threads
    notes,   \* notifications not yet handled, oldest first
    past,    \* the turns up to this one belong to app servers that are gone
    \* the main thread
    call,    \* the request it waits for, or NoCall
    \* the outbound queue
    rows,    \* per turn: the states of the rows of its final answer's group
    handed,  \* per turn: the text last handed to the queue for its messages
    \* history
    asked,   \* the messages the user has sent
    done,    \* the turns whose successful completion was handled, while attached
    stopped, \* the turns interrupted, by the user or as stale
    loose,   \* the turns that ran on when a failed request made the session forget them
    left     \* the faults and the commands that may still happen

codex   == <<server, ran, home, said, threads, resumed, notes, past>>
queue   == <<rows, handed>>
history == <<done, stopped, loose>>
vars    == <<sess, made, topic, codex, call, queue, asked, history, left>>

Pieces(t) == {<<t, i>> : i \in 1..said[t]}
Texts     == SUBSET (Turns \X (1..MaxPieces))

NewSession == [attached |-> TRUE, topic |-> topic, status |-> "ACTIVE", thread |-> 0,
               active |-> NoTurn, completed |-> NoTurn, pending |-> {}, streamed |-> {},
               phase |-> "none", delivered |-> {}, ids |-> NoIds, follow |-> FALSE, quiet |-> FALSE]

(* A request in progress, and what handle_authorized_message read before it. *)
NoCall == [kind |-> "none", s |-> 1, thread |-> 0, delivered |-> {}]

Spend(kind) == left[kind] > 0 /\ left' = [left EXCEPT ![kind] = @ - 1]

Init ==
    /\ topic \in Topics
    /\ sess = [s \in Sessions |-> NewSession]
    /\ made = 1
    /\ server = "up"
    /\ ran = [t \in Turns |-> "unused"]
    /\ home = [t \in Turns |-> [s |-> 1, thread |-> 0]]
    /\ said = [t \in Turns |-> 0]
    /\ threads = 0 /\ resumed = {} /\ notes = <<>> /\ past = 0
    /\ call = NoCall
    /\ rows = [t \in Turns |-> {}]
    /\ handed = [t \in 0..MaxMessages |-> {}]
    /\ asked = 0 /\ done = {} /\ stopped = {} /\ loose = {}
    /\ left \in Budgets

(* The session the next message goes to: get_current_telegram_session and  *)
(* get_or_create_telegram_session, by chat, topic and attached.            *)
Current == {s \in 1..made : sess[s].attached /\ sess[s].topic = topic}

MainFree == call.kind = "none"

-----------------------------------------------------------------------------
(* What the steps of the main thread do to a session r and to the chat:    *)
(* they map a work item [r, handed, rows] to another.                      *)

Work(s) == [r |-> sess[s], handed |-> handed, rows |-> rows]

Saved(s, w) == /\ sess' = [sess EXCEPT ![s] = w.r]
               /\ handed' = w.handed
               /\ rows' = w.rows

TurnOf(r) == IF r.active # NoTurn THEN r.active ELSE r.completed

(* mutant: the text that was streamed is forgotten *)
PendingText(r) == r.pending

Text(r) == r.streamed \cup r.pending

(* _sync_telegram_message_chunks: the messages whose ids the session knows *)
(* are edited, or new ones are sent, whose ids it may know by now.         *)
Sync(w, text, known) ==
    LET t == TurnOf(w.r) IN
    [w EXCEPT !.handed = [u \in 0..MaxMessages |-> IF u = t THEN text
                                                ELSE IF u = w.r.ids THEN {} ELSE @[u]],
              !.r.ids = IF @ # NoIds \/ known THEN t ELSE NoIds]

(* _clear_streaming_messages *)
Cleared(w) == [w EXCEPT !.handed = [u \in 0..MaxMessages |-> IF u = w.r.ids THEN {} ELSE @[u]],
                        !.r.ids = NoIds]

(* While a final answer is delivered every text of the session goes to its *)
(* group.                                                                  *)
Queued(w) == [w EXCEPT !.rows[w.r.completed] = @ \cup {"queued"}]

Blank(r) == [r EXCEPT !.pending = {}, !.streamed = {}, !.phase = "none"]

(* mutant: a detached session is shown like any other *)
Shown(r) == FALSE

(* The output of a detached session is consumed, not delivered. *)
Hidden(r) == ~r.attached

(* flush_buffer(mark_agent=False): the text so far is streamed. *)
Streamed(w, known) ==
    LET r == w.r
        n == Sync(IF r.status = "DELIVERING_FINAL" THEN Queued(w) ELSE w, Text(r), known)
    IN  IF r.pending = {} THEN w
        ELSE IF Hidden(r) \/ Text(r) = r.delivered THEN [w EXCEPT !.r.pending = {}]
        ELSE [n EXCEPT !.r.streamed = Text(r), !.r.phase = "answer", !.r.delivered = Text(r),
                       !.r.pending = {}, !.r.quiet = FALSE]

(* flush_buffer(mark_agent=True): the text is queued as the final answer.  *)
(* A text shown already is queued again if its messages are known.         *)
Finalized(w, known) ==
    LET r == w.r
        n == Queued(Sync(w, Text(r), known))
    IN  IF r.pending = {} THEN w
        ELSE IF Hidden(r) THEN [w EXCEPT !.r.pending = {}]
        ELSE IF Text(r) = r.delivered /\ r.ids = NoIds THEN [w EXCEPT !.r = Blank(@)]
        ELSE [n EXCEPT !.r.streamed = Text(r), !.r.phase = "finalizing",
                       !.r.status = "DELIVERING_FINAL"]

(* reset_session_after_request_failure; forget: the error names the thread. *)
Reset(r, forget) ==
    [Blank(r) EXCEPT !.active = NoTurn, !.ids = NoIds, !.status = "ACTIVE",
                     !.thread = IF forget THEN 0 ELSE @,
                     !.completed = IF forget THEN NoTurn ELSE @]

-----------------------------------------------------------------------------
(* The app server.                                                         *)

Running(t) == ran[t] \in {"running", "spoken"}

Notifies(kind, t, text) ==
    /\ Len(notes) < MaxNotes
    /\ notes' = Append(notes, [kind |-> kind, turn |-> t, text |-> text])

(* item/agentMessage/delta *)
Says(t) ==
    /\ ran[t] = "running"
    /\ said[t] < MaxPieces
    /\ said' = [said EXCEPT ![t] = @ + 1]
    /\ Notifies("delta", t, {<<t, said[t] + 1>>})
    /\ UNCHANGED <<sess, made, topic, server, ran, home, threads, resumed, past, call, queue, asked,
                   history, left>>

(* item/completed of the turn's agentMessage *)
CompletesMessage(t) ==
    /\ ran[t] = "running"
    /\ said[t] > 0
    /\ ran' = [ran EXCEPT ![t] = "spoken"]
    /\ Notifies("message", t, Pieces(t))
    /\ UNCHANGED <<sess, made, topic, server, home, said, threads, resumed, past, call, queue, asked,
                   history, left>>

(* turn/completed or turn/failed *)
Ends(t) ==
    /\ Running(t)
    /\ ran' = [ran EXCEPT ![t] = "over"]
    /\ \E kind \in {"completed", "failed"} : Notifies(kind, t, {})
    /\ UNCHANGED <<sess, made, topic, server, home, said, threads, resumed, past, call, queue, asked,
                   history, left>>

Gone == /\ ran' = [t \in Turns |-> IF Running(t) THEN "over" ELSE ran[t]]
        /\ past' = Cardinality({t \in Turns : ran[t] # "unused"})

(* The app server dies, or /model or /reasoning restarts it.  The pump     *)
(* keeps the notifications it has read.                                    *)
ServerStops ==
    /\ server = "up"
    /\ Spend("server")
    /\ server' = "dead" \/ (MainFree /\ server' = "none")
    /\ Gone
    /\ \E n \in 0..Len(notes) : notes' = SubSeq(notes, 1, n)
    /\ UNCHANGED <<sess, made, topic, home, said, threads, resumed, call, queue, asked, history>>

(* maintain_codex_runtime finds the app server dead. *)
NoticesDeath ==
    /\ MainFree
    /\ server = "dead"
    /\ server' = "none"
    /\ UNCHANGED <<sess, made, topic, ran, home, said, threads, resumed, notes, past, call, queue,
                   asked, history, left>>

(* mutant: a turn whose app server is gone is marked (mark_recovering_turns) *)
Marked(r) ==
    IF r.status = "RUNNING_TURN" /\ r.active # NoTurn THEN [r EXCEPT !.status = "RECOVERING_TURN"] ELSE r

(* recover_inflight_sessions *)
Recovered(r) ==
    IF r.status # "RUNNING_TURN" \/ (r.active # NoTurn /\ ~r.quiet) THEN r
    ELSE IF r.active # NoTurn \/ Text(r) # {}
         THEN [Blank(r) EXCEPT !.active = NoTurn, !.delivered = {}, !.completed = NoTurn,
                               !.status = "ACTIVE"]
    ELSE [r EXCEPT !.status = "ACTIVE"]

(* A new app server is started and bootstrapped. *)
CodexStarts ==
    /\ MainFree
    /\ server = "none"
    /\ server' = "up"
    /\ resumed' = {}
    /\ sess' = [s \in Sessions |-> Recovered(sess[s])]
    /\ UNCHANGED <<made, topic, ran, home, said, threads, notes, past, call, queue, asked, history,
                   left>>

(* The service dies, and its app server with it; it is started again. *)
Crash ==
    /\ Spend("crash")
    /\ server' = "none"
    /\ Gone
    /\ notes' = <<>>
    /\ call' = NoCall
    /\ UNCHANGED <<sess, made, topic, home, said, threads, resumed, queue, asked, history>>

-----------------------------------------------------------------------------
(* The main thread: notifications.                                         *)

Note == Head(notes)

HandlesNote(kinds) ==
    /\ MainFree
    /\ notes # <<>>
    /\ Note.kind \in kinds
    /\ notes' = Tail(notes)
    /\ UNCHANGED <<made, topic, server, ran, home, said, threads, resumed, past, call, asked, stopped,
                   loose, left>>

(* mutant: what a session accepts does not depend on the turn *)
AcceptsAll(r, t) == TRUE

(* _session_accepts_turn_notification and                                  *)
(* _session_accepts_live_output_notification                               *)
Accepts(r, t) == IF r.active = NoTurn THEN r.completed = NoTurn ELSE r.active = t

(* resolve_notification_session: by the thread. *)
Addressed(t) == {s \in 1..made : sess[s].thread # 0 /\ sess[s].thread = home[t].thread}

(* merge_incremental_assistant_text *)
Merged(r, text) ==
    IF text = r.delivered \/ text \subseteq Text(r) THEN r
    ELSE [r EXCEPT !.pending = @ \cup (text \ (r.streamed \cup (IF r.delivered \subseteq text
                                                                THEN r.delivered ELSE {}))),
                   !.quiet = FALSE]

Answering(r) == [r EXCEPT !.phase = "answer"]

(* A delta is appended (pieces are pairwise different texts, so none of    *)
(* them passes for a repetition); the complete message replaces the text   *)
(* so far.                                                                 *)
Collected(r, note) ==
    IF note.kind = "delta" THEN [r EXCEPT !.pending = @ \cup note.text, !.phase = "answer",
                                          !.quiet = FALSE]
    ELSE IF Text(r) = {} THEN IF Merged(r, note.text) = r THEN r ELSE Answering(Merged(r, note.text))
    ELSE [r EXCEPT !.pending = note.text, !.streamed = {}, !.phase = "answer", !.quiet = FALSE]

(* The answer's text arrives; assistant/message.partial streams it at once. *)
HandlesText ==
    /\ HandlesNote({"delta", "message"})
    /\ IF \E s \in Addressed(Note.turn) : Accepts(sess[s], Note.turn)
       THEN \E s \in Addressed(Note.turn), flush, known \in BOOLEAN :
               LET w == [Work(s) EXCEPT !.r = Collected(@, Note)]
               IN  Saved(s, IF flush /\ Note.kind = "delta" THEN Streamed(w, known) ELSE w)
       ELSE UNCHANGED <<sess, queue>>
    /\ UNCHANGED done

(* The session whose active turn it is: find_by_turn_id. *)
Runs(t) == {s \in 1..made : sess[s].active = t}

(* _read_thread_completion_text: the last message of the session's thread, *)
(* or nothing when the request fails.                                      *)
Latest(thread) ==
    LET ts == {t \in Turns : home[t].thread = thread /\ said[t] > 0}
    IN  UNION {Pieces(t) : t \in {u \in ts : \A v \in ts : v <= u}}

CompletionTexts(r) == IF server = "up" THEN {Latest(r.thread), {}} ELSE {{}}

(* should_append_completion_text *)
News(r, text) ==
    /\ text \notin {{}, r.pending, r.streamed}
    /\ ~(r.pending = {} /\ r.delivered = text)

(* mutant: the completed turn stays the active one *)
StillActive(r, t) == [r EXCEPT !.completed = t, !.status = "ACTIVE"]

TurnOver(r, t) == [r EXCEPT !.active = NoTurn, !.completed = t, !.status = "ACTIVE"]

(* The end of drain_codex_notifications for a turn without error: nothing  *)
(* pending means that the streamed text, if any, is the answer.            *)
Concluded(w, known) ==
    LET r == w.r IN
    IF r.pending # {} THEN Finalized(w, known)
    ELSE IF r.streamed # {} /\ r.ids # NoIds
         THEN Finalized([w EXCEPT !.r.pending = r.streamed], known)
    ELSE [Cleared(w) EXCEPT !.r.streamed = {}, !.r.phase = "none",
                            !.r.delivered = IF r.streamed # {} THEN r.streamed ELSE @]

HandlesCompleted ==
    /\ HandlesNote({"completed"})
    /\ IF Runs(Note.turn) = {} THEN UNCHANGED <<sess, queue, done>>
       ELSE \E s \in Runs(Note.turn), known \in BOOLEAN :
            \E text \in CompletionTexts(sess[s]) :
               LET r == IF News(sess[s], text) THEN Merged(sess[s], text) ELSE sess[s]
               IN  /\ Saved(s, Concluded([Work(s) EXCEPT !.r = TurnOver(r, Note.turn)], known))
                   /\ done' = IF sess[s].attached THEN done \cup {Note.turn} ELSE done

(* publish_codex_request_error and reset_session_after_request_failure:    *)
(* the error takes the place of the answer's messages or is sent as a new  *)
(* one, and the session is reset.                                          *)
Published(s, w) ==
    \E edits, forget \in BOOLEAN :
        Saved(s, [(IF edits THEN Cleared(w) ELSE w) EXCEPT !.r = Reset(@, forget)])

(* turn/failed, or a turn/completed with an error *)
HandlesFailed ==
    /\ HandlesNote({"failed"})
    /\ IF Runs(Note.turn) = {} THEN UNCHANGED <<sess, queue>>
       ELSE \E s \in Runs(Note.turn) :
                Published(s, [Work(s) EXCEPT !.r = TurnOver(@, Note.turn)])
    /\ UNCHANGED done

-----------------------------------------------------------------------------
(* The main thread: messages of the user.                                  *)

Begins(kind, s) ==
    call' = [kind |-> kind, s |-> s, thread |-> sess[s].thread, delivered |-> sess[s].delivered]

(* The settings with which turn/start is asked for. *)
Ready(r, thread) ==
    [r EXCEPT !.thread = thread, !.delivered = {}, !.streamed = {}, !.phase = "none",
              !.status = "ACTIVE"]

(* A request fails: there is no app server to answer it, there is no turn  *)
(* to steer, or a fault happens.                                           *)
Refused(kind) ==
    \/ server # "up" /\ UNCHANGED left
    \/ server = "up" /\ kind = "steer" /\ ~Running(sess[call.s].active) /\ UNCHANGED left
    \/ server = "up" /\ Spend("request")

(* A turn the session gives up while it runs. *)
Forgets(r) == loose' = loose \cup (IF r.active # NoTurn /\ Running(r.active) THEN {r.active} ELSE {})

(* _has_preservable_visible_answer *)
Preserved(r) ==
    \/ r.delivered # {} /\ r.delivered = r.streamed /\ r.phase = "answer"
    \/ r.status = "DELIVERING_FINAL" /\ r.ids # NoIds /\ Text(r) # {}

(* A new turn makes room: the last answer stays or is deleted. *)
Emptied(w) ==
    LET n == IF Preserved(w.r) THEN [w EXCEPT !.r.ids = NoIds] ELSE Cleared(w)
    IN  [n EXCEPT !.r = Blank(@)]

(* _start_or_steer_turn without an active turn: the thread is started or   *)
(* resumed first, unless this app server knows it.                         *)
AsksForTurn(s, w) ==
    /\ UNCHANGED loose
    /\ IF w.r.thread \in resumed
       THEN Begins("turn", s) /\ Saved(s, [w EXCEPT !.r = Ready([@ EXCEPT !.quiet = FALSE], @.thread)])
       ELSE Begins("thread", s) /\ Saved(s, [w EXCEPT !.r.quiet = FALSE])

(* A stale active turn is interrupted first, which may fail, all the more  *)
(* so when the turn is over.                                               *)
ReplacesTurn(s, w) ==
    \/ /\ server = "up"
       /\ ran' = [ran EXCEPT ![w.r.active] = "over"]
       /\ stopped' = stopped \cup {w.r.active}
       /\ AsksForTurn(s, [w EXCEPT !.r = [Blank(@) EXCEPT !.active = NoTurn, !.status = "ACTIVE"]])
       /\ UNCHANGED left
    \/ /\ Refused("thread") \/ (~Running(w.r.active) /\ UNCHANGED left)
       /\ Forgets(w.r)
       /\ Published(s, w)
       /\ UNCHANGED <<ran, call, stopped>>

(* mutant: a message starts a turn of its own while a turn runs *)
StartsAnyway(s, w) == AsksForTurn(s, w) /\ UNCHANGED <<ran, stopped, left>>

Steers(s, w) ==
    /\ Begins("steer", s)
    /\ Saved(s, [w EXCEPT !.r.quiet = FALSE])
    /\ UNCHANGED <<ran, stopped, loose, left>>

StartsTurn(s, w) == AsksForTurn(s, Emptied(w)) /\ UNCHANGED <<ran, stopped, left>>

(* _should_queue_follow_up_user_message *)
MustWait(r) == /\ r.active # NoTurn /\ ~r.quiet
               /\ r.status = "DELIVERING_FINAL" \/ r.phase \in {"answer", "finalizing"}

Waits(s, w) == /\ Saved(s, [w EXCEPT !.r.follow = TRUE, !.r.quiet = FALSE])
               /\ UNCHANGED <<ran, call, stopped, loose, left>>

(* handle_authorized_message, up to its request to the app server *)
Handles(s, w) ==
    /\ IF MustWait(w.r) THEN Waits(s, w)
       ELSE IF w.r.active = NoTurn THEN StartsTurn(s, w)
       ELSE IF w.r.quiet THEN ReplacesTurn(s, w)
       ELSE Steers(s, w)
    /\ UNCHANGED <<topic, server, home, said, threads, resumed, notes, past, done>>

(* Without a session one is created. *)
Target(s) == IF Current = {} THEN s = made + 1 ELSE s \in Current /\ \A q \in Current : q <= s

Message ==
    /\ MainFree
    /\ server # "none"
    /\ asked < MaxMessages
    /\ asked' = asked + 1
    /\ \E s \in Sessions :
        /\ Target(s)
        /\ made' = IF s > made THEN s ELSE made
        /\ Handles(s, Work(s))

(* dispatch_queued_user_inputs looks at the sessions without a topic. *)
MayFollow(r) ==
    /\ r.follow /\ ~r.topic
    /\ r.attached /\ r.status = "ACTIVE" /\ r.active = NoTurn

DispatchesFollowUp(s) ==
    /\ MainFree
    /\ server # "none"
    /\ s <= made
    /\ MayFollow(sess[s])
    /\ Handles(s, [Work(s) EXCEPT !.r.follow = FALSE])
    /\ UNCHANGED <<made, asked>>


-----------------------------------------------------------------------------
(* The main thread: answers to its requests.  It blocks on them, so that   *)
(* nothing else changes the sessions meanwhile.                            *)

Asked(kind) == call.kind = kind /\ server = "up"

NextTurn == 1 + Cardinality({t \in Turns : ran[t] # "unused"})

(* thread/resume, whose failure is not reported, or thread/start *)
ThreadReady ==
    /\ Asked("thread")
    /\ LET s == call.s
           Gets(thread) == /\ resumed' = resumed \cup {thread}
                           /\ sess' = [sess EXCEPT ![s] = Ready(@, thread)]
       IN  \/ /\ sess[s].thread # 0
              /\ Gets(sess[s].thread)
              /\ UNCHANGED <<threads, left>>
           \/ /\ IF sess[s].thread = 0 THEN UNCHANGED left ELSE Spend("request")
              /\ threads' = threads + 1
              /\ Gets(threads')
    /\ call' = [call EXCEPT !.kind = "turn"]
    /\ UNCHANGED <<made, topic, server, ran, home, said, notes, past, queue, asked, history>>

TurnRuns(s) == /\ ran' = [ran EXCEPT ![NextTurn] = "running"]
               /\ home' = [home EXCEPT ![NextTurn] = [s |-> s, thread |-> sess[s].thread]]

(* turn/start *)
TurnStarts ==
    /\ Asked("turn")
    /\ TurnRuns(call.s)
    /\ sess' = [sess EXCEPT ![call.s].active = NextTurn, ![call.s].pending = {},
                            ![call.s].status = "RUNNING_TURN"]
    /\ call' = NoCall
    /\ UNCHANGED <<made, topic, server, said, threads, resumed, notes, past, queue, asked, history, left>>

(* turn/steer *)
Steered ==
    /\ Asked("steer")
    /\ Running(sess[call.s].active)
    /\ sess' = [sess EXCEPT ![call.s].status = "RUNNING_TURN"]
    /\ call' = NoCall
    /\ UNCHANGED <<made, topic, codex, queue, asked, history, left>>

(* The session is reset to what it was before the request.  A turn/start   *)
(* that timed out may be carried out nevertheless.                         *)
RequestFails ==
    /\ call.kind # "none"
    /\ Refused(call.kind)
    /\ Published(call.s, [Work(call.s) EXCEPT !.r.thread = call.thread,
                                              !.r.delivered = call.delivered])
    /\ \/ Forgets(sess[call.s]) /\ UNCHANGED <<ran, home>>
       \/ /\ Asked("turn")
          /\ TurnRuns(call.s)
          /\ loose' = loose \cup {NextTurn}
    /\ call' = NoCall
    /\ UNCHANGED <<made, topic, server, said, threads, resumed, notes, past, asked, done, stopped>>

-----------------------------------------------------------------------------
(* The main thread: commands.                                              *)

(* /stop and /abort *)
Stop(s) ==
    /\ Spend("/stop")
    /\ MainFree
    /\ server = "up"
    /\ s \in Current
    /\ sess[s].active # NoTurn
    /\ sess' = [sess EXCEPT ![s].active = NoTurn, ![s].pending = {}, ![s].status = "INTERRUPTED"]
    /\ ran' = [ran EXCEPT ![sess[s].active] = "over"]
    /\ stopped' = stopped \cup {sess[s].active}
    /\ UNCHANGED <<made, topic, server, home, said, threads, resumed, notes, past, call, queue, asked,
                   done, loose>>

(* /new: create_new_telegram_session *)
New ==
    /\ Spend("/new")
    /\ MainFree
    /\ made < MaxSessions
    /\ made' = made + 1
    /\ sess' = [s \in Sessions |-> IF s \in Current THEN [sess[s] EXCEPT !.attached = FALSE]
                                   ELSE sess[s]]
    /\ UNCHANGED <<topic, codex, call, queue, asked, history>>

-----------------------------------------------------------------------------
(* The main thread: its periodic work, and the outbound queue.             *)

Upkeep(s) ==
    /\ MainFree
    /\ s <= made
    /\ UNCHANGED <<made, topic, codex, call, asked, history, left>>

(* flush_idle_partial_outputs looks at the sessions without a topic. *)
FlushesIdle(s) ==
    /\ Upkeep(s)
    /\ sess[s].attached /\ ~sess[s].topic
    /\ sess[s].pending # {}
    /\ \E known \in BOOLEAN : Saved(s, Streamed(Work(s), known))

(* Nothing was heard of the turn for STALE_ACTIVE_TURN_SECONDS. *)
GoesQuiet(s) ==
    /\ Upkeep(s)
    /\ sess[s].active # NoTurn /\ ~sess[s].quiet
    /\ sess' = [sess EXCEPT ![s].quiet = TRUE]
    /\ UNCHANGED queue

(* The row of a final answer settles. *)
Delivers(t) ==
    /\ "queued" \in rows[t]
    /\ \E end \in RowEnds : rows' = [rows EXCEPT ![t] = (@ \ {"queued"}) \cup {end}]
    /\ UNCHANGED <<sess, made, topic, codex, call, handed, asked, history, left>>

(* _message_group_queue_state: rows of the group are still to be executed. *)
Waiting(states) == "queued" \in states

(* _message_group_failed_errors *)
Errors(states) == states \cap {"ignorable", "closed", "other"}

(* _delete_failed_message_group_rows *)
WithoutFailed(w) == [w EXCEPT !.rows[w.r.completed] = @ \ Errors(@)]

(* mutant: an error that only says there was nothing to do is an error *)
SettledAll(states) == states = {"done"}

(* Every row is over, and well enough. *)
Settled(states) ==
    /\ ~Waiting(states)
    /\ Errors(states) = {} => "done" \in states
    /\ Errors(states) \subseteq {"ignorable"}

Shut(states) == ~Waiting(states) /\ "closed" \in Errors(states)

Delivered(w) ==
    [WithoutFailed(w) EXCEPT
        !.r = [Blank(@) EXCEPT !.ids = NoIds, !.status = "ACTIVE",
                               !.delivered = IF w.r.pending # {} THEN w.r.pending ELSE w.r.streamed]]

(* _abandon_failed_final_delivery *)
Abandoned(w) == [w EXCEPT !.r = [Blank(@) EXCEPT !.ids = NoIds, !.status = "ACTIVE", !.attached = FALSE]]

(* A closed topic: the answer is sent again, to the chat itself. *)
Resent(w, known) ==
    LET n == WithoutFailed(w)
    IN  IF w.r.topic THEN Finalized([n EXCEPT !.r.topic = FALSE], known) ELSE Abandoned(n)

(* reconcile_pending_final_deliveries *)
Reconciles(s) ==
    LET states == rows[sess[s].completed] IN
    /\ Upkeep(s)
    /\ sess[s].status = "DELIVERING_FINAL"
    /\ Text(sess[s]) # {}
    /\ \/ Settled(states) /\ Saved(s, Delivered(Work(s)))
       \/ Shut(states) /\ \E known \in BOOLEAN : Saved(s, Resent(Work(s), known))

-----------------------------------------------------------------------------
AppServer     == \/ \E t \in Turns : Says(t) \/ CompletesMessage(t) \/ Ends(t)
                 \/ ServerStops

Notifications == HandlesText \/ HandlesCompleted \/ HandlesFailed

Answers       == ThreadReady \/ TurnStarts \/ Steered \/ RequestFails

User          == Message \/ New \/ \E s \in Sessions : Stop(s)

Periodic      == \/ NoticesDeath \/ CodexStarts
                 \/ \E s \in Sessions : \/ DispatchesFollowUp(s) \/ FlushesIdle(s)
                                        \/ GoesQuiet(s) \/ Reconciles(s)

Next == AppServer \/ Notifications \/ Answers \/ User \/ Periodic
        \/ Crash \/ \E t \in Turns : Delivers(t)

Spec == Init /\ [][Next]_vars

(* The loop of the main thread handles every notification and does its     *)
(* periodic work in every round; requests have a timeout; the delivery     *)
(* worker settles every row.  Users and the app server may do nothing.     *)
Fairness ==
    /\ WF_vars(Notifications)
    /\ WF_vars(Answers)
    /\ WF_vars(NoticesDeath) /\ WF_vars(CodexStarts)
    /\ \A s \in Sessions : WF_vars(DispatchesFollowUp(s)) /\ WF_vars(Reconciles(s))
    /\ \A t \in Turns : WF_vars(Delivers(t))

FairSpec == Spec /\ Fairness

-----------------------------------------------------------------------------
SessionRow ==
    [attached : BOOLEAN, topic : BOOLEAN,
     status : {"ACTIVE", "RUNNING_TURN", "DELIVERING_FINAL", "INTERRUPTED"},
     thread : 0..MaxMessages, active : {NoTurn} \cup Turns, completed : {NoTurn} \cup Turns,
     pending : Texts, streamed : Texts, phase : {"none", "answer", "finalizing"}, delivered : Texts,
     ids : {NoIds, NoTurn} \cup Turns, follow : BOOLEAN, quiet : BOOLEAN]

RowStates == AllRowEnds \cup {"queued"}

Notices == [kind : {"delta", "message", "completed", "failed"}, turn : Turns, text : Texts]

TypeOK ==
    /\ sess \in [Sessions -> SessionRow]
    /\ made \in Sessions /\ topic \in BOOLEAN
    /\ server \in {"up", "dead", "none"}
    /\ ran \in [Turns -> {"unused", "running", "spoken", "over"}]
    /\ home \in [Turns -> [s : Sessions, thread : 0..MaxMessages]]
    /\ said \in [Turns -> 0..MaxPieces]
    /\ threads \in 0..MaxMessages /\ resumed \subseteq 1..MaxMessages
    /\ notes \in Seq(Notices) /\ Len(notes) <= MaxNotes /\ past \in 0..MaxMessages
    /\ call \in [kind : {"none", "thread", "turn", "steer"}, s : Sessions,
                 thread : 0..MaxMessages, delivered : Texts]
    /\ rows \in [Turns -> SUBSET RowStates]
    /\ handed \in [0..MaxMessages -> Texts]
    /\ asked \in 0..MaxMessages
    /\ done \subseteq Turns /\ stopped \subseteq Turns /\ loose \subseteq Turns
    /\ left \in [Faults \cup Commands -> Nat]

(* A final answer is the whole message of its turn, however the deltas,    *)
(* the complete message, the streamed text and the text read from the      *)
(* thread came together, and no later message, turn or error of its        *)
(* session takes it off the screen again.                                  *)
FinalIsWhole == \A t \in Turns : rows[t] # {} /\ said[t] > 0 => handed[t] = Pieces(t)

(* Nothing of one turn's text leaks into the messages of the next, through *)
(* what the session keeps of it (a turn that says nothing at all is given  *)
(* the last message of its thread).                                        *)
OwnText == \A t \in Turns : said[t] > 0 => handed[t] \subseteq Pieces(t)

(* A turn that runs is the active turn of its session: what it says is     *)
(* heard, and it can be steered and stopped; unless a failed request made  *)
(* the session forget it.                                                  *)
RunningTurnKnown == \A t \in Turns : Running(t) => sess[home[t].s].active = t \/ t \in loose

(* An active turn comes to an end: it runs, its end is on the way, or its  *)
(* app server is gone.                                                     *)
TurnComes ==
    \A s \in Sessions : LET t == sess[s].active IN
        t # NoTurn => \/ Running(t)
                      \/ \E i \in DOMAIN notes : notes[i].turn = t /\ notes[i].kind \in {"completed", "failed"}
                      \/ t <= past

(* A detached session shows nothing more of its answer. *)
HiddenOnceDetached ==
    [][\A t \in Turns : ran[t] # "unused" /\ ~sess[home[t].s].attached => handed'[t] \subseteq handed[t]]_vars

(* What keeps a follow-up from being sent. *)
Impeded(r) ==
    \/ ~r.attached \/ r.topic \/ r.status = "INTERRUPTED"
    \/ r.status = "DELIVERING_FINAL" /\ (Text(r) = {} \/ "other" \in rows[r.completed])

(* A follow-up that waits for the answer of the active turn is sent once   *)
(* the turn is over and its answer delivered.                              *)
FollowUpSent ==
    \A s \in Sessions :
        LET r == sess[s] IN
        (r.follow /\ r.active = NoTurn /\ ~Impeded(r)) ~> (~r.follow \/ r.active # NoTurn \/ Impeded(r))

(* A successful turn's answer stays in the chat once the turn is over. *)
AnswerKept == \A t \in done : said[t] > 0 => handed[t] = Pieces(t)

=============================================================================
