---------------------------- MODULE SessionStore ----------------------------
(***************************************************************************)
(* The table sessions, and the two processes that read it, change what     *)
(* they have read and write it back: run_service, with the sessions of the *)
(* operator's chat, and local_chat, with those of its channel.  Each has   *)
(* one thread that does so, and an app server of its own.                  *)
(*                                                                         *)
(* A row is written alone by save_session or with all others by save;      *)
(* every write is a transaction, what is between a read and a write is     *)
(* not.                                                                    *)
(***************************************************************************)
EXTENDS Integers, FiniteSets

CONSTANT MaxSessions  \* bound: sessions ever created

ASSUME StoreAssumption == MaxSessions \in Nat

Ids == 1 .. MaxSessions   \* in the order of created_at

Processes == {"service", "chat"}

VARIABLES
    table,   \* the rows, by id
    made,    \* the sessions created so far
    logged,  \* the sessions that events of the source "session" name
    traced,  \* the sessions that traces, approvals or other events name
    stage,   \* per process: what it is in the middle of
    copy,    \* per process: the session objects it will write back
    runs     \* per process: the sessions whose turn its app server runs

storeVars == <<table, made, logged, traced, stage, copy, runs>>

NoCopy == <<>>

(* A session: whose it is, whether it is the current one, has a thread and *)
(* an active turn, waits for a refresh of its instructions, and the last   *)
(* memory generation it has seen.                                          *)
NewRow(p) == [of |-> p, attached |-> TRUE, thread |-> FALSE, turn |-> FALSE, dirty |-> TRUE, seen |-> 0]

StoreInit ==
    /\ table = <<>> /\ made = 0
    /\ logged = {} /\ traced = {}
    /\ stage = [p \in Processes |-> "down"]
    /\ copy = [p \in Processes |-> NoCopy]
    /\ runs = [p \in Processes |-> {}]

Becomes(p, s) == stage' = [stage EXCEPT ![p] = s]
Holds(p, rows) == copy' = [copy EXCEPT ![p] = rows]

Idle(p) == stage[p] = "idle"

(* The session that is being created, or whose turn is being started. *)
Session(p) == copy[p].id

(* An exception that nothing catches, or a kill: the process ends, and its *)
(* app server with it.                                                     *)
Dies(p) ==
    /\ Becomes(p, "down")
    /\ Holds(p, NoCopy)
    /\ runs' = [runs EXCEPT ![p] = {}]

-----------------------------------------------------------------------------
(* Writes.                                                                 *)

(* mutant: the table has no unique index *)
AnyRows(rows) == FALSE

(* idx_sessions_attached_local refuses a second attached session of a      *)
(* channel.  idx_sessions_attached_telegram does not: the topic of the     *)
(* operator's chat is NULL, and NULLs are distinct.                        *)
Clash(rows) ==
    \E i, j \in DOMAIN rows :
        i # j /\ \A k \in {i, j} : rows[k].of = "chat" /\ rows[k].attached

(* save_session of one session: an upsert.                                 *)
WithRow(i, row) == [k \in DOMAIN table \cup {i} |-> IF k = i THEN row ELSE table[k]]

(* mutant: save deletes whatever is not in its state *)
NotProtected(i) == FALSE

Protected(i) == i \in logged \cup traced

(* save of a whole state: rows that are not in it are deleted unless       *)
(* another table names them, the others are overwritten.                   *)
WithRows(rows) ==
    [k \in DOMAIN rows \cup {i \in DOMAIN table : Protected(i)} |-> IF k \in DOMAIN rows THEN rows[k] ELSE table[k]]

-----------------------------------------------------------------------------
(* Sessions come and go.                                                   *)

Attached(p) == {i \in DOMAIN table : table[i].of = p /\ table[i].attached}

(* get_or_create_telegram_session, get_or_create_local_session: the first  *)
(* that is attached.                                                       *)
Current(p, i) == i \in Attached(p) /\ \A j \in Attached(p) : i <= j

Prunable(rows) == {i \in DOMAIN rows : ~rows[i].attached /\ ~rows[i].turn}

Detached(p) == [i \in DOMAIN table |-> IF table[i].of = p THEN [table[i] EXCEPT !.attached = FALSE] ELSE table[i]]

(* create_new_telegram_session and create_new_local_session: the process's *)
(* sessions are detached ...                                               *)
Replaces(p) ==
    /\ Idle(p)
    /\ table' = Detached(p)
    /\ Becomes(p, "replaces")
    /\ UNCHANGED <<made, logged, traced, copy, runs>>

(* get_or_create_..._session finds none that is attached. *)
FirstSession(p) == Idle(p) /\ Attached(p) = {}

(* ... and the prunable sessions of both processes are deleted when only   *)
(* their own events name them.  A first message, too, makes a session:     *)
NewSession(p) ==
    /\ made < MaxSessions
    /\ LET gone == Prunable(table)
       IN \/ /\ stage[p] = "replaces"
             /\ table' = [i \in DOMAIN table \ (gone \ traced) |-> table[i]]
             /\ logged' = logged \ gone
          \/ FirstSession(p) /\ UNCHANGED <<table, logged>>
    /\ made' = made + 1
    /\ Becomes(p, "creates") /\ Holds(p, [id |-> made'])
    /\ UNCHANGED <<traced, runs>>

(* it is inserted ...                                                      *)
Creates(p) ==
    /\ stage[p] = "creates"
    /\ LET rows == WithRow(Session(p), NewRow(p))
       IN IF Clash(rows)
          THEN Dies(p) /\ UNCHANGED table
          ELSE table' = rows /\ Becomes(p, "logs") /\ UNCHANGED <<copy, runs>>
    /\ UNCHANGED <<made, logged, traced>>

(* ... and the event session.created names it, if it is still there.       *)
Logs(p) ==
    /\ stage[p] = "logs"
    /\ logged' = logged \cup ({Session(p)} \cap DOMAIN table)
    /\ Becomes(p, "idle") /\ Holds(p, NoCopy)
    /\ UNCHANGED <<table, made, traced, runs>>

-----------------------------------------------------------------------------
(* Whole states: recover_inflight_sessions of a bootstrap, and             *)
(* prune_detached_sessions at the end of a flush.                          *)

(* Turns that have been silent for too long are given up.                  *)
Recovered(stale) == [i \in DOMAIN table |-> IF i \in stale THEN [table[i] EXCEPT !.turn = FALSE] ELSE table[i]]

Recovers(p) ==
    /\ stage[p] = "down" \/ (p = "service" /\ Idle(p))
    /\ \E stale \in SUBSET {i \in DOMAIN table : table[i].turn} :
        IF stale = {} THEN Becomes(p, "idle") /\ Holds(p, NoCopy)
                      ELSE Becomes(p, "recovers") /\ Holds(p, Recovered(stale))
    /\ UNCHANGED <<table, made, logged, traced, runs>>

Prunes ==
    /\ Idle("service")
    /\ Prunable(table) # {}
    /\ Becomes("service", "prunes")
    /\ Holds("service", [i \in DOMAIN table \ Prunable(table) |-> table[i]])
    /\ UNCHANGED <<table, made, logged, traced, runs>>

(* An error of the save ends local_chat and, in a flush, the service; the  *)
(* service's bootstrap catches it.                                         *)
SavesState(p) ==
    /\ stage[p] \in {"recovers", "prunes"}
    /\ IF Clash(WithRows(copy[p]))
       THEN /\ UNCHANGED table
            /\ IF stage[p] = "recovers" /\ p = "service"
               THEN Becomes(p, "idle") /\ Holds(p, NoCopy) /\ UNCHANGED runs
               ELSE Dies(p)
       ELSE table' = WithRows(copy[p]) /\ Becomes(p, "idle") /\ Holds(p, NoCopy) /\ UNCHANGED runs
    /\ UNCHANGED <<made, logged, traced>>

-----------------------------------------------------------------------------
(* Turns.  _start_or_steer_turn keeps one session object from its first    *)
(* request to its last, seconds later.  Steering changes no row.           *)

(* The copy of handle_authorized_message, read before, is the second one   *)
(* in the service's hands.                                                 *)
Begins(p, i, row) ==
    /\ Idle(p)
    /\ Current(p, i)
    /\ ~table[i].turn
    /\ traced' = IF p = "service" THEN traced \cup {i} ELSE traced
    /\ Becomes(p, "begun")
    /\ Holds(p, [id |-> i, row |-> row, tracked |-> table[i]])
    /\ UNCHANGED <<table, made, logged, runs>>

Object(p) == copy[p].row

(* What a request that fails leaves: the service resets the session, with  *)
(* the copy it read before, and takes its thread away when the error is    *)
(* about threads; local_chat ends.                                         *)
Refused(p) ==
    IF p = "service"
    THEN /\ \E keeps \in BOOLEAN :
            table' = WithRow(Session(p), [copy[p].tracked EXCEPT !.turn = FALSE, !.thread = @ /\ keeps])
         /\ Becomes(p, "idle") /\ Holds(p, NoCopy)
         /\ UNCHANGED runs
    ELSE Dies(p)

(* thread/resume, or thread/start: it is saved before the turn is asked    *)
(* for.  The index may refuse what local_chat saves, when a stale copy has *)
(* brought another session back: nothing catches that.                     *)
OpensThread(p) ==
    /\ stage[p] = "begun"
    /\ LET rows == WithRow(Session(p), [Object(p) EXCEPT !.thread = TRUE])
       IN IF Clash(rows)
          THEN Dies(p) /\ UNCHANGED table
          ELSE /\ table' = rows
               /\ Holds(p, [copy[p] EXCEPT !.row = [@ EXCEPT !.thread = TRUE]])
               /\ Becomes(p, "asks")
               /\ UNCHANGED runs
    /\ UNCHANGED <<made, logged, traced>>

(* thread/start fails; after a thread/resume that failed the session has   *)
(* been saved without its thread.                                          *)
ThreadFails(p) ==
    /\ stage[p] = "begun"
    /\ IF p = "chat" /\ Object(p).thread
       THEN /\ Dies(p)
            /\ LET rows == WithRow(Session(p), [Object(p) EXCEPT !.thread = FALSE])
               IN table' = IF Clash(rows) THEN table ELSE rows
       ELSE Refused(p) /\ (p = "chat" => UNCHANGED table)
    /\ UNCHANGED <<made, logged, traced>>

TurnStarts(p, seen) ==
    /\ stage[p] = "asks"
    /\ LET rows == WithRow(Session(p), [Object(p) EXCEPT !.turn = TRUE, !.dirty = FALSE, !.seen = seen])
       IN IF Clash(rows)
          THEN Dies(p) /\ UNCHANGED table
          ELSE /\ table' = rows
               /\ runs' = [runs EXCEPT ![p] = @ \cup {Session(p)}]
               /\ Becomes(p, "idle") /\ Holds(p, NoCopy)
    /\ UNCHANGED <<made, logged, traced>>

TurnRefused(p) ==
    /\ stage[p] = "asks"
    /\ Refused(p) /\ (p = "chat" => UNCHANGED table)
    /\ UNCHANGED <<made, logged, traced>>

(* turn/completed: the session is found by its turn, or not at all.        *)
TurnEnds(p) ==
    /\ Idle(p)
    /\ \E i \in runs[p] :
        /\ runs' = [runs EXCEPT ![p] = @ \ {i}]
        /\ table' = IF i \in DOMAIN table /\ table[i].turn
                    THEN [table EXCEPT ![i].turn = FALSE] ELSE table
    /\ UNCHANGED <<made, logged, traced, stage, copy>>

(* turn/steer of a turn that the app server does not run fails.            *)
SteerFails ==
    /\ Idle("service")
    /\ \E i \in Attached("service") \ runs["service"] :
        Current("service", i) /\ table[i].turn /\ table' = [table EXCEPT ![i].turn = FALSE]
    /\ UNCHANGED <<made, logged, traced, stage, copy, runs>>

(* /stop, which local_chat does not read while a turn is active: what the  *)
(* app server says of the turn finds no session any more.  An error of a   *)
(* turn/interrupt is not caught.                                           *)
Interrupts ==
    /\ Idle("service")
    /\ \E i \in Attached("service") :
        /\ Current("service", i) /\ table[i].turn
        /\ \/ table' = [table EXCEPT ![i].turn = FALSE] /\ UNCHANGED <<stage, copy, runs>>
           \/ i \notin runs["service"] /\ Dies("service") /\ UNCHANGED table
    /\ UNCHANGED <<made, logged, traced>>

Quits(p) ==
    /\ stage[p] # "down"
    /\ Dies(p)
    /\ UNCHANGED <<table, made, logged, traced>>

-----------------------------------------------------------------------------
StoreTypeOK ==
    /\ DOMAIN table \subseteq 1 .. made /\ made <= MaxSessions
    /\ \A i \in DOMAIN table :
        table[i].of \in Processes /\ table[i].seen \in Nat /\ (table[i].turn => table[i].thread)
    /\ logged \cup traced \subseteq 1 .. made
    /\ runs \in [Processes -> SUBSET (1 .. made)]
=============================================================================
