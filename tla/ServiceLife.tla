---------------------------- MODULE ServiceLife ----------------------------
(***************************************************************************)
(* The inbound side of a service that has to own its state directory: the  *)
(* polling thread and the main loop run in the process that holds          *)
(* app.lock, end with it, and start again when the service manager's next  *)
(* process has taken the lock over.                                        *)
(***************************************************************************)
EXTENDS InboundUpdates

CONSTANTS
    Pids,       \* the pids of the service manager's processes
    Nobody,     \* the lock file does not exist
    LockFaults  \* bound: how often a process crashes, and is interrupted

VARIABLES lock, stage, role, seen, verdict, entangled, lockLeft

L == INSTANCE ServiceLock WITH
        Roles <- {"service"}, Choices <- {}, PidsReused <- FALSE,
        FaultBudget <- LockFaults, left <- lockLeft

lockVars == <<lock, stage, role, seen, verdict, entangled, lockLeft>>
lifeVars == <<vars, lockVars>>

(* A service is at work.                                                   *)
LifeInit ==
    /\ Init
    /\ lock = CHOOSE p \in Pids : TRUE
    /\ stage = [p \in Pids |-> IF p = lock THEN "serving" ELSE "off"]
    /\ role = [p \in Pids |-> "service"]
    /\ seen = [p \in Pids |-> Nobody]
    /\ verdict = [p \in Pids |-> "clear"]
    /\ entangled = {}
    /\ lockLeft = LockFaults

(* While it serves: both threads, and the users. *)
Works == (UserSends \/ Poller \/ ThreadDies \/ MainLoop) /\ UNCHANGED lockVars

(* A process on its way to the lock, or past it. *)
OutOfService(p) ==
    /\ L!Launch(p) \/ L!Inspect(p) \/ L!Resolve(p) \/ L!FinishStop(p)
    /\ UNCHANGED vars

(* A kill, or an exception, which run_service's finally block sees: what   *)
(* is in memory is lost either way.                                        *)
EndsServing(p) ==
    /\ stage[p] = "serving"
    /\ Crash
    /\ L!Crash(p) \/ L!BeginStop(p)

EndsEarlier(p) ==
    /\ stage[p] # "serving"
    /\ L!Crash(p)
    /\ UNCHANGED vars

(* The lock is taken, the polling thread is started. *)
BeginsServing(p) == L!Write(p) /\ Restart

LifeNext ==
    \/ Works
    \/ \E p \in Pids : OutOfService(p) \/ EndsServing(p) \/ EndsEarlier(p) \/ BeginsServing(p)

LifeSpec == LifeInit /\ [][LifeNext]_lifeVars

(* The fairness of both modules: the threads of a service go on, and the   *)
(* service manager starts the next one.                                    *)
LifeFairSpec ==
    /\ LifeSpec
    /\ WF_lifeVars((SeesQueue \/ Polls \/ Puts) /\ UNCHANGED lockVars)
    /\ SF_lifeVars(SeesGate /\ UNCHANGED lockVars)
    /\ WF_lifeVars(MainLoop /\ UNCHANGED lockVars)
    /\ \A p \in Pids : WF_lifeVars(OutOfService(p) \/ BeginsServing(p))
=============================================================================
