------------------------------ MODULE JsonRpc ------------------------------
(***************************************************************************)
(* The JSON-RPC clients of the app servers: one client, one reader thread  *)
(* and one child process per server, numbered in the order in which they   *)
(* are started.  The main thread alone makes requests, one at a time.  The *)
(* child's side is the environment.  This module has the steps; AppServer  *)
(* composes them with their users.                                         *)
(***************************************************************************)
EXTENDS Integers, Sequences, FiniteSets

CONSTANTS
    MaxServers, \* bound: app servers ever started
    MaxNotes,   \* bound: notifications per server
    AskIds      \* the ids an app server may give to its approval requests

ASSUME RpcAssumption == MaxServers \in Nat \ {0} /\ MaxNotes \in Nat /\ AskIds \subseteq Nat

Servers == 1 .. MaxServers

VARIABLES
    proc,    \* per server: its process
    told,    \* per server: the requests written to it and not answered
    lines,   \* per server: lines of its stdout that are not yet dispatched
    reader,  \* per server: its client's reader thread
    pending, \* per server: the ids in _pending
    nextId,  \* per server: _next_id
    asked,   \* history, per server: how many requests were made of it
    notes,   \* per server: _notifications
    asks,    \* per server: _requests, of which only approvals exist
    call     \* the request the main thread waits for

rpcVars == <<proc, told, lines, reader, pending, nextId, asked, notes, asks, call>>

(* What a response may say, as far as its callers tell: a usable result,   *)
(* one that says a login is required, one that is not recognised (an       *)
(* "unknown variant" error, or no field that is looked for), an error.     *)
Answers == {"ok", "auth", "unrecognised", "error"}

Methods == {"initialize", "account/read", "getAccount",
            "account/login/start", "login/account", "turn"}

AnswersTo(method) ==
    CASE method = "account/read" -> Answers
      [] method = "getAccount"   -> Answers \ {"unrecognised"}
      [] method = "account/login/start" -> {"ok", "unrecognised"}
      [] method = "login/account" -> {"ok"}
      [] OTHER -> {"ok", "error"}

(* Which request it is, whatever id the client gave it: the n-th made of   *)
(* server s.                                                               *)
Identity(s, n) == [server |-> s, nth |-> n]
NoRequest      == Identity(0, 0)

(* The lines a server writes.  A response has the id of the request line   *)
(* that it answers; "of" records which request that was.  n numbers the    *)
(* notifications.                                                          *)
Line(kind, id, of, what) == [kind |-> kind, id |-> id, of |-> of, what |-> what]
Response(request, what)  == Line("response", request.id, request.of, what)
Note(n, what)            == Line("note", n, NoRequest, what)
Ask(id)                  == Line("ask", id, NoRequest, "approval")
Junk                     == Line("junk", 0, NoRequest, "junk")
Empty                    == Line("none", 0, NoRequest, "none")
Broken                   == Line("none", 0, NoRequest, "broken")

NoCall == [server |-> 0, id |-> 0, of |-> NoRequest, method |-> "none", slot |-> Empty]

RpcInit ==
    /\ proc = [s \in Servers |-> "off"]
    /\ told = [s \in Servers |-> {}]
    /\ lines = [s \in Servers |-> <<>>]
    /\ reader = [s \in Servers |-> "off"]
    /\ pending = [s \in Servers |-> {}]
    /\ nextId = [s \in Servers |-> 1]
    /\ asked = [s \in Servers |-> 0]
    /\ notes = [s \in Servers |-> <<>>]
    /\ asks = [s \in Servers |-> <<>>]
    /\ call = NoCall

-----------------------------------------------------------------------------
(* The main thread.                                                        *)

(* Popen and JsonRpcClient.start, and the first request with them.         *)
Opens(s) ==
    /\ proc[s] = "off"
    /\ proc' = [proc EXCEPT ![s] = "runs"]
    /\ reader' = [reader EXCEPT ![s] = "reads"]

(* mutant: a request is forgotten only when its response came *)
ReleasedAnswered(s) ==
    IF call.server = s /\ call.slot.kind = "response" THEN pending[s] \ {call.id} ELSE pending[s]

(* finally: self._pending.pop(request_id).  A write that raised came       *)
(* before the try: nothing is popped.                                      *)
Released(s) ==
    IF call.server = s /\ call.slot # Broken THEN pending[s] \ {call.id} ELSE pending[s]

(* mutant: an id that no request waits for is used again *)
FirstFree(s) == CHOOSE n \in 1 .. nextId[s] : n \notin Released(s) /\ 1 .. n - 1 \subseteq Released(s)

(* _allocate_id *)
Allocated(s) == nextId[s]

(* request: allocate an id, remember it, write the line, which raises when *)
(* the process has ended.                                                  *)
Requests(s, method, running) ==
    LET id == Allocated(s)
        of == Identity(s, asked[s] + 1)
    IN /\ nextId' = [nextId EXCEPT ![s] = @ + 1]
       /\ asked' = [asked EXCEPT ![s] = @ + 1]
       /\ pending' = [pending EXCEPT ![s] = Released(s) \cup {id}]
       /\ told' = IF running THEN [told EXCEPT ![s] = @ \cup {[id |-> id, of |-> of]}] ELSE told
       /\ call' = [server |-> s, id |-> id, of |-> of, method |-> method,
                   slot |-> IF running THEN Empty ELSE Broken]

Returns(s) ==
    /\ call' = NoCall
    /\ pending' = [pending EXCEPT ![s] = Released(s)]

(* How the wait may end: with what is in the response queue, or after 5 s  *)
(* without it.                                                             *)
Outcomes == IF call.slot = Empty THEN {"timeout"} ELSE {call.slot.what}

(* No response will come. *)
Unanswerable(s) == proc[s] = "dead" \/ reader[s] # "reads"

(* JsonRpcClient.close: the child is terminated, the reader joined.  The   *)
(* client is dropped: nobody looks at its lines and requests again.        *)
Closes(ss) ==
    /\ proc' = [s \in Servers |-> IF s \in ss THEN "dead" ELSE proc[s]]
    /\ reader' = [s \in Servers |-> IF s \in ss THEN "closed" ELSE reader[s]]
    /\ lines' = [s \in Servers |-> IF s \in ss THEN <<>> ELSE lines[s]]
    /\ asks' = [s \in Servers |-> IF s \in ss THEN <<>> ELSE asks[s]]
    /\ told' = [s \in Servers |-> IF s \in ss THEN {} ELSE told[s]]
    /\ pending' = [s \in Servers |-> IF s \in ss THEN {} ELSE pending[s]]
    /\ nextId' = [s \in Servers |-> IF s \in ss THEN 1 ELSE nextId[s]]
    /\ asked' = [s \in Servers |-> IF s \in ss THEN 0 ELSE asked[s]]

-----------------------------------------------------------------------------
(* The reader thread.                                                      *)

Take(s) == lines' = [lines EXCEPT ![s] = Tail(@)]

IsResponse(line) == line.kind = "response"

(* _reader_loop: by method and id into a queue, or to the request that     *)
(* waits; a response nobody waits for is dropped.  A line that is not      *)
(* JSON, or whose id is not a number, ends the thread.                     *)
Reads(s) ==
    /\ reader[s] = "reads"
    /\ lines[s] # <<>>
    /\ Take(s)
    /\ LET line == Head(lines[s])
       IN CASE IsResponse(line) ->
                  /\ call' = IF line.id \in pending[s] /\ call.server = s /\ call.id = line.id
                             THEN [call EXCEPT !.slot = line] ELSE call
                  /\ UNCHANGED <<reader, notes, asks>>
            [] ~IsResponse(line) /\ line.kind = "ask" ->
                  /\ asks' = [asks EXCEPT ![s] = Append(@, line.id)]
                  /\ UNCHANGED <<reader, notes, call>>
            [] line.kind = "note" ->
                  /\ notes' = [notes EXCEPT ![s] = Append(@, line)]
                  /\ UNCHANGED <<reader, asks, call>>
            [] line.kind = "junk" ->
                  /\ reader' = [reader EXCEPT ![s] = "died"]
                  /\ UNCHANGED <<notes, asks, call>>
    /\ UNCHANGED <<proc, told, pending, nextId, asked>>

-----------------------------------------------------------------------------
(* The child process, which is not part of this code.                      *)

Writes(s, line) ==
    /\ proc[s] = "runs"
    /\ lines' = [lines EXCEPT ![s] = Append(@, line)]

Responds(s) ==
    /\ \E request \in told[s], what \in Answers :
        /\ what \in IF request.of = call.of THEN AnswersTo(call.method) ELSE {"ok"}
        /\ Writes(s, Response(request, what))
        /\ told' = [told EXCEPT ![s] = @ \ {request}]
    /\ UNCHANGED <<proc, reader, pending, nextId, asked, notes, asks, call>>

Dies(s) ==
    /\ proc[s] = "runs"
    /\ proc' = [proc EXCEPT ![s] = "dead"]
    /\ told' = [told EXCEPT ![s] = {}]
    /\ UNCHANGED <<lines, reader, pending, nextId, asked, notes, asks, call>>

-----------------------------------------------------------------------------
RpcTypeOK ==
    /\ proc \in [Servers -> {"off", "runs", "dead"}]
    /\ reader \in [Servers -> {"off", "reads", "died", "closed"}]
    /\ nextId \in [Servers -> Nat]
    /\ \A s \in Servers : pending[s] \cup {r.id : r \in told[s]} \subseteq 1 .. nextId[s] - 1
    /\ asked \in [Servers -> Nat]
    /\ call.server \in Servers \cup {0}
    /\ call.method \in Methods \cup {"none"}

(* A caller is given the answer to the very request it made.  The reader   *)
(* thread matches ids only: a late answer, to a request that timed out     *)
(* before, must not be taken for that of a later request, and a request of *)
(* the server for an answer.                                               *)
OwnResponse ==
    call.slot \notin {Empty, Broken} =>
        call.slot.kind = "response" /\ call.slot.of = call.of

(* _pending holds the request that waits, and of others only those whose   *)
(* write failed because the process was gone.                              *)
PendingWaits ==
    \A s \in Servers : \A id \in pending[s] :
        proc[s] = "dead" \/ (call.server = s /\ call.id = id)
=============================================================================
