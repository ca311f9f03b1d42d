--------------------------- MODULE TelegramClient ---------------------------
(***************************************************************************)
(* The outbound side of integrations/telegram.py: every sending method     *)
(* hands its request to one worker thread and waits for the answer; the    *)
(* worker repeats a request that meets a rate limit, up to five times.     *)
(* Time is counted in seconds.                                             *)
(***************************************************************************)
EXTENDS Integers, Sequences

CONSTANTS
    Callers,      \* the threads that call TelegramClient
    MaxAttempts,  \* the repetitions of a request (5)
    Windows,      \* how long a rate limit of Telegram may last
    MaxCalls,     \* bound: calls ever made
    Described     \* does the error carry the description "Too Many Requests: ..."?

ASSUME ClientAssumption ==
    /\ MaxAttempts \in Nat
    /\ Windows \subseteq Nat \ {0}
    /\ MaxCalls \in Nat
    /\ Described \in BOOLEAN

VARIABLES
    requests,  \* _outbound_queue: the callers whose request waits, in order
    current,   \* the caller whose request the worker has, <<>> or <<caller>>
    worker,    \* "idle", "sending" (a request may go out) or "sleeping"
    attempts,  \* the repetitions of the current request so far
    nap,       \* seconds of time.sleep that are left
    result,    \* what a caller gets: "none" (it runs), "waits", "ok" or "error"
    closed,    \* seconds until Telegram's rate limit ends, 0: none
    calls      \* the calls made so far

job  == <<current, worker, attempts, nap>>
vars == <<requests, job, result, closed, calls>>

Init ==
    /\ requests = <<>>
    /\ current = <<>> /\ worker = "idle" /\ attempts = 0 /\ nap = 0
    /\ result = [c \in Callers |-> "none"]
    /\ closed = 0
    /\ calls = 0

(* _dispatch_outbound: the request is queued, the caller waits. *)
Dispatches(c) ==
    /\ result[c] = "none"
    /\ calls < MaxCalls
    /\ calls' = calls + 1
    /\ requests' = Append(requests, c)
    /\ result' = [result EXCEPT ![c] = "waits"]
    /\ UNCHANGED <<job, closed>>

(* The caller takes its result and goes on. *)
Returns(c) ==
    /\ result[c] \in {"ok", "error"}
    /\ result' = [result EXCEPT ![c] = "none"]
    /\ UNCHANGED <<requests, job, closed, calls>>

(* _run_outbound_worker takes the next request. *)
TakesRequest ==
    /\ worker = "idle"
    /\ requests # <<>>
    /\ current' = <<Head(requests)>>
    /\ requests' = Tail(requests)
    /\ worker' = "sending"
    /\ attempts' = 0
    /\ UNCHANGED <<nap, result, closed, calls>>

Answers(outcome) ==
    /\ result' = [result EXCEPT ![current[1]] = outcome]
    /\ current' = <<>>
    /\ worker' = "idle"
    /\ UNCHANGED <<attempts, nap>>

(* mutant: the repetitions are not counted *)
Uncounted == attempts

AnotherAttempt == attempts + 1

GivesUp == attempts >= MaxAttempts

(* _retry_delay_from_error: the description decides before the payload is  *)
(* looked at.                                                              *)
RetryDelay(retryAfter) == IF Described THEN 1 ELSE retryAfter

(* Telegram executes the request, or refuses it for another reason. *)
Accepted ==
    /\ worker = "sending"
    /\ closed = 0
    /\ \E outcome \in {"ok", "error"} : Answers(outcome)
    /\ UNCHANGED <<requests, closed, calls>>

(* 429: the rate limit lasts, or it starts with this request.  The worker  *)
(* sleeps and repeats the request, or gives up.                            *)
Limited ==
    /\ worker = "sending"
    /\ IF closed > 0 THEN UNCHANGED closed ELSE closed' \in Windows
    /\ IF GivesUp
       THEN Answers("error")
       ELSE /\ attempts' = AnotherAttempt
            /\ nap' = RetryDelay(closed')
            /\ worker' = "sleeping"
            /\ UNCHANGED <<current, result>>
    /\ UNCHANGED <<requests, calls>>

WakesUp ==
    /\ worker = "sleeping"
    /\ nap = 0
    /\ worker' = "sending"
    /\ UNCHANGED <<requests, current, attempts, nap, result, closed, calls>>

Tick ==
    /\ nap > 0 \/ closed > 0
    /\ nap' = IF nap > 0 THEN nap - 1 ELSE 0
    /\ closed' = IF closed > 0 THEN closed - 1 ELSE 0
    /\ UNCHANGED <<requests, current, worker, attempts, result, calls>>

Worker == TakesRequest \/ Accepted \/ Limited \/ WakesUp

Next == \/ \E c \in Callers : Dispatches(c) \/ Returns(c)
        \/ Worker
        \/ Tick

Spec == Init /\ [][Next]_vars

(* The worker thread, the callers and the clock go on; requests have a     *)
(* timeout of 30 s, so that each gets an answer.                           *)
FairSpec == Spec /\ WF_vars(Worker) /\ WF_vars(Tick) /\ \A c \in Callers : WF_vars(Returns(c))
-----------------------------------------------------------------------------
TypeOK ==
    /\ requests \in Seq(Callers)
    /\ current \in {<<>>} \cup {<<c>> : c \in Callers}
    /\ worker \in {"idle", "sending", "sleeping"}
    /\ attempts \in 0..MaxAttempts
    /\ nap \in Nat
    /\ result \in [Callers -> {"none", "waits", "ok", "error"}]
    /\ closed \in Nat
    /\ calls \in 0..MaxCalls

(* A thread that calls Telegram is answered: neither the rate limits nor   *)
(* the requests of the other threads hold it for ever.                     *)
CallsReturn == \A c \in Callers : (result[c] = "waits") ~> (result[c] # "waits")

=============================================================================
