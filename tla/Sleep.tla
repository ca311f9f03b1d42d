------------------------------- MODULE Sleep -------------------------------
(***************************************************************************)
(* The memory of the sessions.  The agent of a session notes what it       *)
(* learns in the session's short memory; once a day the service has an AI  *)
(* turn all short memories into the long memory and a lesson, and empties  *)
(* them; every session is then told, with its next message, what it has    *)
(* missed.  run_sleep is a sequence of writes with a process that may end  *)
(* after each, while local_chat and the agents of turns go on.             *)
(***************************************************************************)
EXTENDS SessionStore

CONSTANTS
    MaxEntries,  \* bound: entries ever written
    Budgets      \* bounds, one of which is chosen: how often each event happens

Faults == {"crash", "ai", "fail", "thread"}
Events == Faults \cup {"turn", "note", "new", "chat", "recover", "prune", "stop"}

ASSUME SleepAssumption == MaxEntries \in Nat /\ Budgets \subseteq [Events -> Nat]

VARIABLES
    gen,        \* sleep_state: generation
    tried,      \* sleep_state: the last deadline has been attempted
    short,      \* the short memory of each session that ever was
    long,       \* what the long memory was made of
    lessons,    \* the generations there is a lesson of
    collected,  \* the entries run_sleep has read
    files,      \* the short memories it has listed and not yet emptied
    telling,    \* per process: the generations that the turn being started tells
    told,       \* history, per session: the generations it was told
    written,    \* history: the entries written
    erased,     \* history: the entries emptied unread
    slipped,    \* history: the sessions whose row was in a race (Endangered), or lost a turn (Lost)
    revived,    \* history: the sessions that a stale copy made attached again
    orphans,    \* history: the sessions whose creation was cut off before its event, or that a copy brought back
    left        \* the events that may still happen

idleVars  == <<table, made, logged, traced, copy, runs>>  \* the store but its stages
sleepVars == <<gen, tried, long, lessons, collected, files>>
tellVars  == <<telling, told>>
vars      == <<storeVars, sleepVars, tellVars, short, written, erased, slipped, revived, orphans, left>>

Entries == 1 .. MaxEntries

Spend(kind) == left[kind] > 0 /\ left' = [left EXCEPT ![kind] = @ - 1]

Init ==
    /\ StoreInit
    /\ gen = 0 /\ tried = FALSE
    /\ short = [i \in Ids |-> {}] /\ long = {} /\ lessons = {}
    /\ collected = {} /\ files = {}
    /\ telling = [p \in Processes |-> {}]
    /\ told = [i \in Ids |-> {}]
    /\ written = {} /\ erased = {}
    /\ slipped = {} /\ revived = {} /\ orphans = {}
    /\ left \in Budgets

(* The sessions whose row is in a race: that of a turn which local_chat    *)
(* starts while the service marks the sessions, all while it recovers them *)
(* at the same time, and that of a turn which the service starts then; it  *)
(* may be one that a save of the other process has deleted.                *)
Endangered ==
    {i \in 1 .. made :
        \/ /\ stage["service"] \in {"saves", "stamps"}
           /\ \/ stage["chat"] = "recovers"
              \/ stage["chat"] \in {"begun", "asks"} /\ i = Session("chat")
        \/ stage["chat"] = "recovers" /\ stage["service"] = "asks" /\ i = Session("service")}

(* A process that ends between the save of the session and the turn.       *)
Lost == {Session(p) : p \in {q \in Processes : stage[q] = "asks" /\ stage'[q] = "down"}}

Inserted == {Session(p) : p \in {q \in Processes : stage[q] = "creates"}}

(* A process that ends between the insert of a session and its event. *)
CutOff == {Session(p) : p \in {q \in Processes : stage[q] = "logs" /\ stage'[q] = "down"}}

AttachedRows == {i \in DOMAIN table : table[i].attached}

History ==
    /\ slipped' = slipped \cup Lost \cup Endangered'
    /\ revived' = revived \cup (AttachedRows' \ (AttachedRows \cup Inserted))
    /\ orphans' = orphans \cup CutOff \cup (DOMAIN table' \ (DOMAIN table \cup Inserted))

-----------------------------------------------------------------------------
(* run_sleep: the steps between which the service may end.                 *)

Steps == <<"thinks", "long", "lesson", "clears", "marks", "saves", "stamps", "idle">>

(* mutant: the short memories are emptied before the AI is asked *)
ClearsFirst(s) ==
    CASE s = "begins" -> "clears" [] s = "clears" -> "thinks" [] s = "lesson" -> "marks"
      [] OTHER -> Steps[1 + CHOOSE n \in 1 .. 7 : Steps[n] = s]

(* mutant: the state is written before all else *)
StampsFirst(s) ==
    CASE s = "begins" -> "stamps" [] s = "stamps" -> "thinks" [] s \in {"saves", "none"} -> "idle"
      [] OTHER -> Steps[1 + CHOOSE n \in 1 .. 7 : Steps[n] = s]

(* What comes after a step; "none" when no session is attached. *)
Following(s) ==
    CASE s = "begins" -> "thinks" [] s = "none" -> "stamps"
      [] OTHER -> Steps[1 + CHOOSE n \in 1 .. 7 : Steps[n] = s]

At(s)   == stage["service"] = s
Past(s) == Becomes("service", Following(s))

(* mutant: only the short memories of sessions in use count *)
HasWorkInUse == \E i \in DOMAIN table : table[i].attached /\ short[i] # {}

(* What the short memories hold, all together. *)
Noted == UNION {short[i] : i \in Ids}

(* has_pending_sleep_work *)
HasWork == \E i \in Ids : short[i] # {}

(* The deadline is marked as attempted, and the short memories are read.   *)
SleepBegins ==
    /\ Idle("service") /\ HasWork /\ ~tried
    /\ tried' = TRUE
    /\ collected' = Noted
    /\ files' = 1 .. made
    /\ Past("begins")
    /\ UNCHANGED <<idleVars, gen, long, lessons, tellVars, short, written, erased, left>>
    /\ History

(* The AI, an app server of its own: an answer, or an error within         *)
(* SLEEP_AI_TIMEOUT_SECONDS, which run_service catches.                    *)
SleepThinks ==
    /\ At("thinks")
    /\ \/ Past("thinks") /\ UNCHANGED left
       \/ Becomes("service", "idle") /\ Spend("ai")
    /\ UNCHANGED <<idleVars, sleepVars, tellVars, short, written, erased>>
    /\ History

WritesLong ==
    /\ At("long")
    /\ long' = long \cup collected
    /\ Past("long")
    /\ UNCHANGED <<idleVars, gen, tried, lessons, collected, files, tellVars, short, written, erased, left>>
    /\ History

WritesLesson ==
    /\ At("lesson")
    /\ lessons' = lessons \cup {gen + 1}
    /\ Past("lesson")
    /\ UNCHANGED <<idleVars, gen, tried, long, collected, files, tellVars, short, written, erased, left>>
    /\ History

(* A short memory is emptied; what was noted since it was read goes, too.  *)
Clears ==
    /\ At("clears")
    /\ IF files = {}
       THEN Past("clears") /\ UNCHANGED <<short, erased, files>>
       ELSE \E i \in files :
               /\ \A j \in files : i <= j
               /\ short' = [short EXCEPT ![i] = {}]
               /\ erased' = erased \cup (short[i] \ collected)
               /\ files' = files \ {i}
               /\ UNCHANGED stage
    /\ UNCHANGED <<idleVars, gen, tried, long, lessons, collected, tellVars, written, left>>
    /\ History

Marked == [i \in DOMAIN table |-> IF table[i].attached THEN [table[i] EXCEPT !.dirty = TRUE] ELSE table[i]]

(* Every attached session is to be refreshed: the sessions are loaded ...  *)
Marks ==
    /\ At("marks")
    /\ IF \E i \in DOMAIN table : table[i].attached
       THEN Past("marks") /\ Holds("service", Marked)
       ELSE Past("none") /\ UNCHANGED copy
    /\ UNCHANGED <<table, made, logged, traced, runs, sleepVars, tellVars, short, written, erased, left>>
    /\ History

(* ... and saved.  run_service catches an error, and the state stays as it *)
(* was.                                                                    *)
SavesMarks ==
    /\ At("saves")
    /\ IF Clash(WithRows(copy["service"]))
       THEN Becomes("service", "idle") /\ UNCHANGED table
       ELSE Past("saves") /\ table' = WithRows(copy["service"])
    /\ Holds("service", NoCopy)
    /\ UNCHANGED <<made, logged, traced, runs, sleepVars, tellVars, short, written, erased, left>>
    /\ History

Stamps ==
    /\ At("stamps")
    /\ gen' = gen + 1
    /\ Past("stamps")
    /\ UNCHANGED <<idleVars, tried, long, lessons, collected, files, tellVars, short, written, erased, left>>
    /\ History

(* sleep_hour_local of the next day. *)
NewDay ==
    /\ tried
    /\ tried' = FALSE
    /\ UNCHANGED <<storeVars, gen, long, lessons, collected, files, tellVars, short, written, erased, left>>
    /\ History

-----------------------------------------------------------------------------
(* Turns tell the sessions what they have missed.                          *)

(* _build_turn_input: the generations that the input tells of.  A session  *)
(* without a thread gets its instructions with the long memory, others the *)
(* lessons they have missed, or all files if those are too long.           *)
Tells(row) ==
    CASE ~row.dirty \/ (row.thread /\ gen <= row.seen) -> {{}}
      [] row.dirty /\ ~row.thread -> {1 .. gen}
      [] OTHER -> {1 .. gen, {g \in lessons : row.seen < g /\ g <= gen}}

(* The session object after it: caught up, although nothing is sent yet.   *)
CaughtUp(row) == IF row.dirty /\ row.thread /\ gen > row.seen THEN [row EXCEPT !.seen = gen] ELSE row

MessageArrives(p) ==
    /\ Spend("turn")
    /\ \E i \in Attached(p) :
        /\ Begins(p, i, CaughtUp(table[i]))
        /\ \E gs \in Tells(table[i]) : telling' = [telling EXCEPT ![p] = gs]
    /\ UNCHANGED <<sleepVars, told, short, written, erased>>
    /\ History

Forgets(p) == telling' = [telling EXCEPT ![p] = {}]

ThreadReady(p) ==
    /\ OpensThread(p)
    /\ IF stage'[p] = "down" THEN Forgets(p) ELSE UNCHANGED telling
    /\ UNCHANGED <<sleepVars, told, short, written, erased, left>>
    /\ History

ThreadIsRefused(p) ==
    /\ ThreadFails(p) /\ Forgets(p) /\ Spend("thread")
    /\ UNCHANGED <<sleepVars, told, short, written, erased>> /\ History

TurnIsRefused(p) ==
    /\ TurnRefused(p) /\ Forgets(p) /\ Spend("fail")
    /\ UNCHANGED <<sleepVars, told, short, written, erased>> /\ History

(* The app server has the input; the session is marked with the generation *)
(* of now.                                                                 *)
TurnRegistered(p) ==
    /\ TurnStarts(p, gen)
    /\ told' = [told EXCEPT ![Session(p)] = @ \cup telling[p]]
    /\ Forgets(p)
    /\ UNCHANGED <<sleepVars, short, written, erased, left>>
    /\ History

(* The agent of a running turn appends an entry to its short memory.       *)
Notes(p) ==
    /\ Spend("note")
    /\ \E i \in runs[p], e \in Entries :
        /\ written = 1 .. e - 1
        /\ written' = 1 .. e
        /\ short' = [short EXCEPT ![i] = @ \cup {e}]
    /\ UNCHANGED <<storeVars, sleepVars, tellVars, erased>>
    /\ History

TurnIsOver(p) == TurnEnds(p) /\ UNCHANGED <<sleepVars, tellVars, short, written, erased, left>> /\ History

-----------------------------------------------------------------------------
(* The rest of what the processes do with the sessions.                    *)

Elsewhere == UNCHANGED <<sleepVars, tellVars, short, written, erased>> /\ History

New(p) == Replaces(p) /\ Elsewhere /\ Spend("new")
Created(p) == (NewSession(p) \/ Creates(p) \/ Logs(p)) /\ Elsewhere /\ UNCHANGED left

Bootstrap(p) ==
    /\ Recovers(p) /\ Elsewhere
    /\ CASE p = "chat" -> Spend("chat")
         [] p = "service" /\ stage[p] = "down" -> UNCHANGED left
         [] OTHER -> Spend("recover")

Prune == Prunes /\ Elsewhere /\ Spend("prune")
SaveAll(p) == SavesState(p) /\ Elsewhere /\ UNCHANGED left
Steer == SteerFails /\ Elsewhere /\ Spend("turn")
Stop == Interrupts /\ Elsewhere /\ Spend("stop")

Ends(p) ==
    /\ Quits(p) /\ Forgets(p) /\ Spend("crash")
    /\ UNCHANGED <<sleepVars, told, short, written, erased>> /\ History

-----------------------------------------------------------------------------
Sleeps == SleepBegins \/ SleepThinks \/ WritesLong \/ WritesLesson \/ Clears \/ Marks \/ SavesMarks \/ Stamps

Starting(p) == ThreadReady(p) \/ ThreadIsRefused(p) \/ TurnRegistered(p) \/ TurnIsRefused(p)

Process(p) ==
    \/ MessageArrives(p) \/ Starting(p) \/ Notes(p) \/ TurnIsOver(p)
    \/ New(p) \/ Created(p) \/ Bootstrap(p) \/ SaveAll(p) \/ Ends(p)

Next == Sleeps \/ NewDay \/ Prune \/ Steer \/ Stop \/ \E p \in Processes : Process(p)

Spec == Init /\ [][Next]_vars

(* The service goes on with what it is in the middle of, is started again  *)
(* by its manager, and checks for sleep every half minute.                 *)
FairSpec ==
    /\ Spec
    /\ WF_vars(NewDay)
    /\ WF_vars(Sleeps)
    /\ WF_vars((Starting("service") \/ Created("service") \/ SaveAll("service")))
    /\ WF_vars(stage["service"] = "down" /\ Bootstrap("service"))

-----------------------------------------------------------------------------
TypeOK ==
    /\ StoreTypeOK
    /\ gen \in 0 .. MaxEntries /\ tried \in BOOLEAN
    /\ short \in [Ids -> SUBSET Entries] /\ long \cup collected \subseteq Entries
    /\ lessons \subseteq 1 .. MaxEntries /\ files \subseteq 1 .. made
    /\ written \subseteq Entries /\ slipped \cup revived \cup orphans \subseteq 1 .. made
    /\ \A i \in DOMAIN table : told[i] \cup {table[i].seen} \subseteq 0 .. gen

(* What an agent has noted is in a short memory or in the long one,        *)
(* wherever run_sleep was interrupted; it goes lost only if it was noted   *)
(* while run_sleep was at work.                                            *)
EntriesKept == written = Noted \cup long \cup erased

(* Pruning, /new and the writing of whole states take no session away from *)
(* the service, nor from local_chat one that was created to the end: what  *)
(* is deleted is detached and has no turn, or was never used.              *)
SessionsKept ==
    [][\A i \in DOMAIN table \ DOMAIN table' :
        table[i].of = "service" \/ i \notin orphans =>
            ~table[i].turn /\ (table[i].attached => ~table[i].thread)]_vars

Starts(p, i) == stage[p] \in {"begun", "asks"} /\ Session(p) = i

(* The session's agent knows what its row says it has seen, or is told     *)
(* when it gets a thread, or is just being told.                           *)
Told(i) ==
    \/ 1 .. table[i].seen \subseteq told[i]
    \/ ~table[i].thread
    \/ \E p \in Processes : Starts(p, i)

(* A session that counts as caught up with the memory has been told of it: *)
(* "After a successful refreshed turn starts, that session is marked".     *)
CaughtUpWasTold == \A i \in DOMAIN table : Told(i)

(* That holds of every session that was neither in a race of the two       *)
(* processes nor in a turn start that was cut off after its save.          *)
ToldUnlessSlipped == \A i \in DOMAIN table \ slipped : Told(i)

(* A channel has at most one attached session, and so has the operator's   *)
(* chat as long as no stale copy is written back over its rows.            *)
OneAttached ==
    /\ Cardinality(Attached("chat")) <= 1
    /\ Cardinality(Attached("service") \ revived) <= 1

(* What has been noted, in a session in use or in one long gone, comes to  *)
(* the long memory.                                                        *)
MemoriesConsolidated == \A e \in Entries : (\E i \in Ids : e \in short[i]) ~> (e \in long \cup erased)
=============================================================================
