---------------------------- MODULE ServiceLock ----------------------------
(***************************************************************************)
(* Who owns a state directory: the file app.lock, the processes that       *)
(* inspect, clear and write it (run_service started by the service manager *)
(* or at a terminal, and run_setup), and the ends of those processes.      *)
(*                                                                         *)
(* A process is named by its pid; the lock holds the pid of its writer.    *)
(***************************************************************************)
EXTENDS Integers, FiniteSets

CONSTANTS
    Pids,        \* the pids processes of the program may have
    Nobody,      \* the lock file does not exist
    Roles,       \* the kinds of processes started, a subset of AllRoles
    Choices,     \* the answers an operator may give
    FaultBudget, \* bound: how often a process crashes, and is interrupted
    PidsReused   \* may a new process get the pid a dead one left in the lock?

(* "service": run_service under the service manager, without a terminal;   *)
(* "foreground": run_service at a terminal; "setup": run_setup.            *)
AllRoles   == {"service", "foreground", "setup"}
AllChoices == {"kill", "heal", "ignore", "exit"}
FaultKinds == {"crash", "stop"}

ASSUME LockAssumption ==
    /\ Nobody \notin Pids
    /\ Roles \subseteq AllRoles
    /\ Choices \subseteq AllChoices
    /\ FaultBudget \in [FaultKinds -> Nat]
    /\ PidsReused \in BOOLEAN

VARIABLES
    lock,     \* the pid in app.lock
    stage,    \* per pid: what its process is doing
    role,     \* per pid: what its process is
    seen,     \* per pid: the holder its conflict is about
    verdict,  \* per pid: what classify_service_conflict said
    entangled,\* history: who is party to a race or to an ignored conflict
    left      \* the faults that may still happen

vars == <<lock, stage, role, seen, verdict, entangled, left>>

(* "off": no process; "starting": before inspect; "conflict": about to     *)
(* resolve one; "writing": about to write the lock; "serving": the loops   *)
(* of run_service; "draining": run_service after app_lock.clear();         *)
(* "setup": run_setup at work.                                             *)
Stages == {"off", "starting", "conflict", "writing", "serving", "draining", "setup"}
Verdicts == {"clear", "live_same_app", "live_unknown", "stale"}

AtWork(p)     == stage[p] \in {"serving", "setup"}
Contending(p) == stage[p] \in {"conflict", "writing"}  \* has inspected the lock
AtIt(p)       == AtWork(p) \/ Contending(p)

Spend(kind) == left[kind] > 0 /\ left' = [left EXCEPT ![kind] = @ - 1]

Become(p, s) == stage' = [stage EXCEPT ![p] = s]

Init ==
    /\ lock = Nobody
    /\ stage = [p \in Pids |-> "off"]
    /\ role = [p \in Pids |-> "service"]
    /\ seen = [p \in Pids |-> Nobody]
    /\ verdict = [p \in Pids |-> "clear"]
    /\ entangled = {}
    /\ left = FaultBudget

(* A process is started.  The service manager runs one service at a time.  *)
Launch(p) ==
    /\ stage[p] = "off"
    /\ p # lock \/ PidsReused
    /\ \E r \in Roles :
        /\ r = "service" => \A q \in Pids : stage[q] # "off" => role[q] # "service"
        /\ role' = [role EXCEPT ![p] = r]
    /\ Become(p, "starting")
    /\ UNCHANGED <<lock, seen, verdict, entangled, left>>

(* mutant: only a service counts as live *)
LiveServices(h) == stage[h] # "off" /\ role[h] # "setup"

Live(h) == stage[h] # "off"

(* LockFile.inspect and classify_service_conflict.  The pid of a dead      *)
(* process may meanwhile belong to a process that is not the program's;    *)
(* is_same_app_process takes it for ours when its command line has the     *)
(* interpreter's name in it.                                               *)
Classify(h) ==
    IF h = Nobody THEN {"clear"}
    ELSE IF Live(h) THEN {"live_same_app"}
    ELSE {"stale"} \cup (IF PidsReused THEN {"live_unknown", "live_same_app"} ELSE {})

Inspect(p) ==
    /\ stage[p] = "starting"
    /\ \E v \in Classify(lock) :
        /\ verdict' = [verdict EXCEPT ![p] = v]
        /\ Become(p, IF v = "clear" THEN "writing" ELSE "conflict")
    /\ seen' = [seen EXCEPT ![p] = lock]
    /\ entangled' = entangled \ {p}
    /\ UNCHANGED <<lock, role, left>>

(* mutant: the service manager's process leaves a dead lock to an operator *)
StaleAtTerminal(p) == role[p] # "service" /\ verdict[p] \in {"stale", "live_unknown"}

(* run_setup (recovery.py) takes a live process of another program for a   *)
(* dead one.                                                               *)
Stale(p) == verdict[p] = "stale" \/ (role[p] = "setup" /\ verdict[p] = "live_unknown")

(* mutant: the service manager's process clears the lock it does not get *)
ExitsClearing(p) == lock' = Nobody

(* SystemExit(1): the lock is left as it is. *)
ExitsKeeping(p) == UNCHANGED lock

Exit(p) ==
    /\ stage[p] = "conflict"
    /\ IF role[p] = "service" THEN ~Stale(p) ELSE "exit" \in Choices
    /\ Become(p, "off")
    /\ ExitsKeeping(p)
    /\ UNCHANGED <<role, seen, verdict, entangled, left>>

(* A stale lock is cleared, at once or when the operator agrees. *)
Heal(p) ==
    /\ stage[p] = "conflict"
    /\ Stale(p)
    /\ role[p] = "service" \/ "heal" \in Choices
    /\ lock' = Nobody
    /\ Become(p, "writing")
    /\ UNCHANGED <<role, seen, verdict, entangled, left>>

Ignore(p) ==
    /\ stage[p] = "conflict"
    /\ role[p] # "service"
    /\ "ignore" \in Choices
    /\ entangled' = entangled \cup {p}
    /\ Become(p, "writing")
    /\ UNCHANGED <<lock, role, seen, verdict, left>>

(* The process in the lock gets a SIGTERM, which ends it without its       *)
(* finally block, and the lock is cleared.  When it has ended meanwhile    *)
(* os.kill raises, or hits a process that is not the program's and has its *)
(* pid; a process that finds its own pid in the lock ends itself.          *)
Kill(p) ==
    /\ stage[p] = "conflict"
    /\ role[p] # "service"
    /\ verdict[p] = "live_same_app"
    /\ "kill" \in Choices
    /\ \/ /\ seen[p] # p
          /\ Live(seen[p]) \/ PidsReused
          /\ stage' = [stage EXCEPT ![seen[p]] = "off", ![p] = "writing"]
          /\ lock' = Nobody
       \/ /\ seen[p] = p \/ ~Live(seen[p])
          /\ Become(p, "off")
          /\ UNCHANGED lock
    /\ UNCHANGED <<role, seen, verdict, entangled, left>>

(* A writer that ignored a conflict, or that finds another process past    *)
(* its inspection, or one that is entangled: what the lock says from here  *)
(* on of those who are there is not to be relied on.                       *)
Overlaps(p) ==
    \/ p \in entangled
    \/ \E q \in Pids \ {p} : Contending(q) \/ (AtWork(q) /\ q \in entangled)

(* app_lock.write(metadata): prepare_service_lock is done. *)
Write(p) ==
    /\ stage[p] = "writing"
    /\ lock' = p
    /\ entangled' = IF Overlaps(p) THEN entangled \cup {q \in Pids : AtIt(q)} ELSE entangled
    /\ Become(p, IF role[p] = "setup" THEN "setup" ELSE "serving")
    /\ UNCHANGED <<role, seen, verdict, left>>

(* run_setup is over: it clears the lock and ends. *)
FinishSetup(p) ==
    /\ stage[p] = "setup"
    /\ lock' = Nobody
    /\ Become(p, "off")
    /\ UNCHANGED <<role, seen, verdict, entangled, left>>

(* run_service ends by an exception or Ctrl-C: its finally block clears    *)
(* the lock, drains the Telegram queue and writes the end of the run.      *)
BeginStop(p) ==
    /\ stage[p] = "serving"
    /\ Spend("stop")
    /\ lock' = Nobody
    /\ Become(p, "draining")
    /\ UNCHANGED <<role, seen, verdict, entangled>>

FinishStop(p) ==
    /\ stage[p] = "draining"
    /\ Become(p, "off")
    /\ UNCHANGED <<lock, role, seen, verdict, entangled, left>>

(* A process is killed, by the service manager's SIGTERM too. *)
Crash(p) ==
    /\ stage[p] # "off"
    /\ Spend("crash")
    /\ Become(p, "off")
    /\ UNCHANGED <<lock, role, seen, verdict, entangled>>

-----------------------------------------------------------------------------
Resolve(p) == Exit(p) \/ Heal(p) \/ Ignore(p) \/ Kill(p)
Ends(p)    == FinishSetup(p) \/ BeginStop(p) \/ FinishStop(p) \/ Crash(p)

Next == \E p \in Pids : Launch(p) \/ Inspect(p) \/ Resolve(p) \/ Write(p) \/ Ends(p)

Spec == Init /\ [][Next]_vars

-----------------------------------------------------------------------------
TypeOK ==
    /\ lock \in Pids \cup {Nobody}
    /\ stage \in [Pids -> Stages]
    /\ role \in [Pids -> AllRoles]
    /\ seen \in [Pids -> Pids \cup {Nobody}]
    /\ verdict \in [Pids -> Verdicts]
    /\ entangled \subseteq Pids
    /\ left \in [FaultKinds -> Nat]

-----------------------------------------------------------------------------
(* What app.lock says of the processes that overlapped nobody on their way *)
(* to it.  Those that did (they raced for the lock, or an operator ignored *)
(* a conflict) may both be at work under a lock that names neither.        *)
Orderly == Pids \ entangled

(* The lock names the process at work, so that the next one finds it: no   *)
(* end of another process takes it away, and no other orderly process      *)
(* works beside it.                                                        *)
HolderNamed == \A p \in Orderly : AtWork(p) => lock = p

(* A process that is about to write the lock has no holder to fear.        *)
WriterAlone == \A p \in Orderly : stage[p] = "writing" => lock = Nobody

(* A conflict stays about the process it was found with, and a process     *)
(* found dead is not at work.                                              *)
ConflictCurrent ==
    \A p \in Orderly : stage[p] = "conflict" =>
        /\ lock \in {seen[p], Nobody}
        /\ seen[p] \in Pids
        /\ Stale(p) => ~AtWork(seen[p])

(* The damage of a race ends with the processes that raced: beside an      *)
(* orderly process at work, an entangled one is at most about to write,    *)
(* after its operator chose to ignore the conflict.                        *)
Apart ==
    \A p \in Orderly, q \in entangled : AtWork(p) /\ AtIt(q) => stage[q] = "writing"

(* A process that starts when none is left of those that raced owns the    *)
(* lock alone, as if there had been no race.                               *)
LockInv == TypeOK /\ HolderNamed /\ WriterAlone /\ ConflictCurrent /\ Apart
=============================================================================
