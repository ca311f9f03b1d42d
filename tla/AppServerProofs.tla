--------------------------- MODULE AppServerProofs ---------------------------
(***************************************************************************)
(* The supervision of the app server and its JSON-RPC clients, for any     *)
(* number of servers, requests, notifications and faults: a caller gets    *)
(* the response to its own request, nothing is left over in _pending, and  *)
(* the notifications of one server after the other are handled in the      *)
(* order in which they were written, none left out.                        *)
(***************************************************************************)
EXTENDS AppServer, FiniteSetTheorems, SequenceTheorems, TLAPS

(* What a server may write. *)
LineWords == Answers \cup {"text", "account", "approval", "junk", "none", "broken"}

Identities == [server : Servers \cup {None}, nth : Nat]

RequestLines == [id : Nat, of : Identities]

Lines == [kind : {"response", "note", "ask", "junk", "none"}, id : Nat, of : Identities, what : LineWords]

Written == {line \in Lines : line.kind # "none" /\ (line.kind = "ask" => line.id \in AskIds)}

BootMethods == Methods \ {"turn"}

(* The state of the clients, but for their notifications. *)
clientVars == <<proc, told, lines, reader, pending, nextId, asked, asks, call>>

IdsTold(s) == {request.id : request \in told[s]}

ClientTypes ==
    /\ proc \in [Servers -> {"off", "runs", "dead"}]
    /\ told \in [Servers -> SUBSET RequestLines]
    /\ lines \in [Servers -> Seq(Written)]
    /\ reader \in [Servers -> {"off", "reads", "died", "closed"}]
    /\ pending \in [Servers -> SUBSET Nat]
    /\ nextId \in [Servers -> Nat \ {0}]
    /\ asked \in [Servers -> Nat]
    /\ asks \in [Servers -> Seq(AskIds)]
    /\ call \in [server : Servers \cup {None}, id : Nat, of : Identities, method : Methods \cup {"none"}, slot : Lines]
    /\ \A s \in Servers : pending[s] \cup IdsTold(s) \subseteq 1 .. nextId[s] - 1

(* The state of the supervision, but for the length of the delay. *)
SupervisorTypes ==
    /\ up \in BOOLEAN
    /\ codex \in Servers \cup {None} /\ pumped \in Servers \cup {None} /\ looked \in Servers \cup {None}
    /\ codexState \in {"STOPPED", "RUNNING", "AUTH_REQUIRED", "BACKOFF", "DEGRADED"}
    /\ task \in Tasks
    /\ failures \in Nat
    /\ said \in [Servers -> [note : Nat, ask : SUBSET AskIds]]
    /\ rows \in [AskIds -> [status : {"none", "pending", "approved", "denied", "stale"}, of : Servers \cup {None}]]
    /\ left \in [Events -> Nat]

(* A server that was never started has no state; one whose client is       *)
(* closed has no process.                                                  *)
ServerInv ==
    \A s \in Servers :
        /\ proc[s] = "off" <=> reader[s] = "off"
        /\ reader[s] = "closed" => proc[s] = "dead"
        /\ proc[s] = "off" => /\ told[s] = {} /\ pending[s] = {} /\ nextId[s] = 1
                              /\ lines[s] = <<>> /\ said[s].note = 0

(* The main thread waits for the server it is starting, or for the one it  *)
(* delivers a message to; there is no other open client.                   *)
CallInv ==
    /\ ~up => task = "none" /\ codex = None
    /\ task = "none" => call = NoCall
    /\ call # NoCall => call.server \in Servers /\ proc[call.server] # "off"
    /\ call = NoCall <=> call.server = None
    /\ codex # None => proc[codex] # "off"
    /\ task = "deliver" => codex # None /\ (call # NoCall => call.server = codex /\ call.method = "turn")
    /\ task \in Starters => /\ codex # None => reader[codex] = "closed"
                            /\ call # NoCall => call.method \in BootMethods
    /\ \A s \in Servers : reader[s] \in {"reads", "died"} => s \in {codex, call.server}
    /\ call.slot = Broken => proc[call.server] = "dead"

(* The servers are started one after the other. *)
StartedInv == Started = 1 .. Cardinality(Started)

SupervisorInv ==
    /\ ClientTypes /\ SupervisorTypes /\ ServerInv /\ CallInv /\ StartedInv
    /\ PendingWaits

-----------------------------------------------------------------------------
(* Records.                                                                *)

LEMMA LineTypes ==
  /\ NoRequest \in Identities
  /\ \A request \in RequestLines, what \in LineWords : Response(request, what) \in Written
  /\ \A n \in Nat, what \in LineWords : Note(n, what) \in Written
  /\ \A id \in AskIds : Ask(id) \in Written
  /\ Junk \in Written /\ Empty \in Lines /\ Broken \in Lines /\ Empty # Broken
<1>0. NoRequest \in Identities
  BY DEF NoRequest, Identity, Identities, None
<1>1. /\ \A request \in RequestLines, what \in LineWords : Response(request, what) \in Written
      /\ \A n \in Nat, what \in LineWords : Note(n, what) \in Written
  BY <1>0 DEF Lines, Written, Response, Note, Line, RequestLines
<1>2. \A id \in AskIds : Ask(id) \in Written
  BY <1>0, RpcAssumption DEF Lines, Written, Ask, Line, LineWords
<1>3. Junk \in Written /\ Empty \in Lines /\ Broken \in Lines
  BY <1>0 DEF Lines, Written, Junk, Empty, Broken, Line, LineWords
<1>4. Empty.what # Broken.what
  BY DEF Empty, Broken, Line
<1> QED BY <1>0, <1>1, <1>2, <1>3, <1>4

LEMMA NoCallOf ==
  /\ NoCall \in [server : Servers \cup {None}, id : Nat, of : Identities, method : Methods \cup {"none"}, slot : Lines]
  /\ NoCall.server = None /\ NoCall.slot = Empty /\ None \notin Servers
  BY LineTypes, RpcAssumption DEF NoCall, None, Servers

(* A spent event leaves a natural number of them. *)
LEMMA SpendType ==
  ASSUME NEW kind \in Events, left \in [Events -> Nat], Spend(kind)
  PROVE  left' \in [Events -> Nat]
  BY DEF Spend

(* Of the requests of a server, other than one that waits, there are only  *)
(* those to a dead process.                                                *)
LEMMA ReleasedOf ==
  ASSUME ClientTypes, CallInv, PendingWaits, NEW s \in Servers
  PROVE  /\ Released(s) \subseteq pending[s]
         /\ \A id \in Released(s) : proc[s] = "dead"
  BY DEF Released, PendingWaits, CallInv, ClientTypes

-----------------------------------------------------------------------------
(* The main thread.                                                        *)

(* What a request leaves, of a main thread that waits for no other server. *)
LEMMA RequestsOf ==
  ASSUME ClientTypes, ServerInv, CallInv, PendingWaits,
         NEW s \in Servers, NEW method \in Methods, NEW running \in BOOLEAN,
         call.server \in {s, None}, Requests(s, method, running)
  PROVE  /\ nextId' \in [Servers -> Nat \ {0}] /\ asked' \in [Servers -> Nat]
         /\ pending' \in [Servers -> SUBSET Nat]
         /\ told' \in [Servers -> SUBSET RequestLines]
         /\ call' \in [server : Servers \cup {None}, id : Nat, of : Identities, method : Methods \cup {"none"}, slot : Lines]
         /\ call'.server = s /\ call'.method = method /\ call'.slot \in {Empty, Broken}
         /\ call'.slot = Broken <=> ~running
         /\ call' # NoCall
         /\ \A t \in Servers : (pending[t] \cup IdsTold(t) \subseteq 1 .. nextId[t] - 1)'
         /\ \A t \in Servers : t # s => UNCHANGED <<nextId[t], pending[t], told[t]>>
         /\ \A t \in Servers : \A id \in pending'[t] : proc[t] = "dead" \/ (t = s /\ id = call'.id)
<1> DEFINE id == nextId[s]
           of == Identity(s, asked[s] + 1)
           request == [id |-> id, of |-> of]
<1>1. /\ nextId' = [nextId EXCEPT ![s] = @ + 1]
      /\ pending' = [pending EXCEPT ![s] = Released(s) \cup {id}]
      /\ asked' = [asked EXCEPT ![s] = @ + 1]
      /\ told' = IF running THEN [told EXCEPT ![s] = @ \cup {request}] ELSE told
      /\ call' = [server |-> s, id |-> id, of |-> of, method |-> method,
                   slot |-> IF running THEN Empty ELSE Broken]
  BY DEF Requests, Allocated
<1>2. id \in Nat \ {0} /\ Released(s) \subseteq pending[s] /\ s # None
  BY ReleasedOf, NoCallOf DEF ClientTypes
<1>3. /\ pending[s] \subseteq Nat /\ told[s] \subseteq RequestLines
      /\ pending[s] \cup IdsTold(s) \subseteq 1 .. id - 1
  BY DEF ClientTypes
<1>a. of \in Identities /\ request \in RequestLines
  BY <1>2 DEF Identity, Identities, RequestLines, ClientTypes
<1>4. /\ call' \in [server : Servers \cup {None}, id : Nat, of : Identities, method : Methods \cup {"none"}, slot : Lines]
      /\ call'.server = s /\ call'.method = method /\ call'.id = id
      /\ call'.slot = IF running THEN Empty ELSE Broken
      /\ call' # NoCall
  BY <1>1, <1>2, <1>a, LineTypes, NoCallOf
<1>5. /\ nextId'[s] = id + 1 /\ pending'[s] = Released(s) \cup {id}
      /\ told'[s] \subseteq told[s] \cup {request}
      /\ \A t \in Servers : t # s => UNCHANGED <<nextId[t], pending[t], told[t]>>
  BY <1>1 DEF ClientTypes
<1>6. /\ nextId' \in [Servers -> Nat \ {0}] /\ asked' \in [Servers -> Nat]
      /\ pending' \in [Servers -> SUBSET Nat]
      /\ told' \in [Servers -> SUBSET RequestLines]
  <2>1. /\ id + 1 \in Nat \ {0} /\ Released(s) \cup {id} \subseteq Nat
        /\ told[s] \cup {request} \subseteq RequestLines
    BY <1>2, <1>3, <1>a
  <2> QED BY <1>1, <2>1 DEF ClientTypes
<1>b. IdsTold(s)' \subseteq IdsTold(s) \cup {id} /\ \A t \in Servers : t # s => IdsTold(t)' = IdsTold(t)
  BY <1>5 DEF IdsTold
<1> HIDE DEF id, of, request
<1>7. ASSUME NEW t \in Servers PROVE (pending[t] \cup IdsTold(t) \subseteq 1 .. nextId[t] - 1)'
  <2>1. CASE t = s
    <3>1. 1 .. id - 1 \subseteq 1 .. id /\ id \in 1 .. id
      BY <1>2
    <3>2. nextId'[s] - 1 = id
      BY <1>2, <1>5
    <3> QED BY <1>2, <1>3, <1>5, <1>b, <2>1, <3>1, <3>2
  <2>2. CASE t # s
    BY <1>5, <1>b, <2>2 DEF ClientTypes
  <2> QED BY <2>1, <2>2
<1>8. ASSUME NEW t \in Servers, NEW i \in pending'[t]
      PROVE  proc[t] = "dead" \/ (t = s /\ i = call'.id)
  <2>1. CASE t = s
    BY <1>4, <1>5, <2>1, ReleasedOf
  <2>2. CASE t # s
    BY <1>5, <2>2, NoCallOf DEF PendingWaits
  <2> QED BY <2>1, <2>2
<1> QED BY <1>4, <1>5, <1>6, <1>7, <1>8, LineTypes

(* The next server is one that was never started. *)
LEMMA StartedOf ==
  ASSUME ClientTypes, StartedInv
  PROVE  /\ Cardinality(Started) \in Nat
         /\ \A s \in Servers : s \in Started <=> s <= Cardinality(Started)
<1>1. IsFiniteSet(Servers)
  BY FS_Interval, RpcAssumption DEF Servers
<1>2. Started \subseteq Servers
  BY DEF Started
<1>3. Cardinality(Started) \in Nat
  BY <1>1, <1>2, FS_Subset, FS_CardinalityType
<1> QED BY <1>3, RpcAssumption DEF StartedInv, Servers

LEMMA SameStarted ==
  ASSUME StartedInv, \A s \in Servers : proc'[s] = "off" <=> proc[s] = "off"
  PROVE  StartedInv'
  BY DEF StartedInv, Started

(* Steps of which the clients know nothing. *)
LEMMA SameClients ==
  ASSUME SupervisorInv, UNCHANGED <<clientVars, said>>, SupervisorTypes', CallInv'
  PROVE  SupervisorInv'
<1>1. ClientTypes' /\ PendingWaits'
  BY DEF clientVars, SupervisorInv, ClientTypes, IdsTold, PendingWaits
<1>2. ServerInv'
  BY DEF clientVars, SupervisorInv, ServerInv
<1>3. StartedInv'
  BY SameStarted DEF clientVars, SupervisorInv
<1> QED BY <1>1, <1>2, <1>3 DEF SupervisorInv

LEMMA SameCall ==
  ASSUME SupervisorInv, UNCHANGED <<clientVars, said, up, codex, task>>, SupervisorTypes'
  PROVE  SupervisorInv'
<1>1. CallInv'
  BY DEF clientVars, SupervisorInv, CallInv
<1> QED BY <1>1, SameClients

(* An app server could not be started. *)
LEMMA NotBootedTypes ==
  ASSUME SupervisorTypes, NEW starter, NotBooted(starter), UNCHANGED <<up, looked, said, rows>>,
         left' \in [Events -> Nat]
  PROVE  SupervisorTypes'
<1>1. failures' \in Nat
  <2>1. CASE starter = "service"
    BY <2>1 DEF NotBooted
  <2>2. CASE starter = "maintain"
    BY <2>2 DEF NotBooted, SupervisorTypes
  <2>3. CASE starter \notin {"service", "maintain"}
    BY <2>3 DEF NotBooted, SupervisorTypes
  <2> QED BY <2>1, <2>2, <2>3
<1>2. /\ codex' = None /\ pumped' = None /\ codexState' = "DEGRADED" /\ task' = "none"
  BY DEF NotBooted
<1> QED BY <1>1, <1>2 DEF SupervisorTypes, Tasks

LEMMA LaunchInv == SupervisorInv /\ Launch => SupervisorInv'
<1> SUFFICES ASSUME SupervisorInv, Launch PROVE SupervisorInv'
  OBVIOUS
<1>1. /\ task \in Starters /\ call = NoCall /\ call.server = None
      /\ UNCHANGED <<lines, notes, asks, looked, held, queue, taken, said, rows, answered>>
  BY NoCallOf DEF Launch, appVars
<1>2. CASE \E s \in Servers :
              /\ s = Cardinality(Started) + 1
              /\ Opens(s)
              /\ Requests(s, "initialize", TRUE)
              /\ UNCHANGED <<supVars, pumped, left>>
  <2>1. PICK s \in Servers :
              /\ s = Cardinality(Started) + 1
              /\ Opens(s)
              /\ Requests(s, "initialize", TRUE)
              /\ UNCHANGED <<supVars, pumped, left>>
    BY <1>2
  <2>2. /\ proc[s] = "off" /\ proc' = [proc EXCEPT ![s] = "runs"] /\ reader' = [reader EXCEPT ![s] = "reads"]
        /\ UNCHANGED <<up, codex, codexState, task, failures>>
    BY <2>1 DEF Opens, supVars
  <2>3. /\ nextId' \in [Servers -> Nat \ {0}] /\ asked' \in [Servers -> Nat]
        /\ pending' \in [Servers -> SUBSET Nat]
        /\ told' \in [Servers -> SUBSET RequestLines]
        /\ call' \in [server : Servers \cup {None}, id : Nat, of : Identities, method : Methods \cup {"none"}, slot : Lines]
        /\ call'.server = s /\ call'.method = "initialize" /\ call'.slot = Empty
        /\ call' # NoCall
        /\ \A t \in Servers : (pending[t] \cup IdsTold(t) \subseteq 1 .. nextId[t] - 1)'
        /\ \A t \in Servers : t # s => UNCHANGED <<nextId[t], pending[t], told[t]>>
        /\ \A t \in Servers : \A id \in pending'[t] : proc[t] = "dead" \/ (t = s /\ id = call'.id)
    BY <1>1, <2>1, RequestsOf, LineTypes DEF SupervisorInv, Methods
  <2>4. ClientTypes'
    BY <1>1, <2>2, <2>3 DEF SupervisorInv, ClientTypes
  <2>5. SupervisorTypes'
    BY <1>1, <2>1, <2>2 DEF SupervisorInv, SupervisorTypes
  <2>6. /\ proc'[s] = "runs" /\ reader'[s] = "reads"
        /\ \A t \in Servers : t # s => proc'[t] = proc[t] /\ reader'[t] = reader[t]
    BY <2>2 DEF SupervisorInv, ClientTypes
  <2>7. ServerInv'
    BY <1>1, <2>3, <2>6 DEF SupervisorInv, ServerInv
  <2>8. CallInv'
    <3>1. s # None /\ codex # s
      BY <2>2, NoCallOf DEF SupervisorInv, CallInv
    <3>2. codex # None => codex \in Servers /\ reader'[codex] = "closed" /\ proc'[codex] = proc[codex]
      BY <1>1, <2>6, <3>1 DEF SupervisorInv, CallInv, SupervisorTypes
    <3>3. task' \in Starters /\ task' # "none" /\ task' # "deliver" /\ up'
      BY <1>1, <2>2 DEF SupervisorInv, CallInv, Starters
    <3>4. \A t \in Servers : reader'[t] \in {"reads", "died"} => t \in {codex', call'.server}
      BY <1>1, <2>2, <2>3, <2>6, NoCallOf DEF SupervisorInv, CallInv
    <3> QED BY <2>2, <2>3, <2>6, <3>1, <3>2, <3>3, <3>4, LineTypes, NoCallOf
            DEF SupervisorInv, CallInv, BootMethods, Methods
  <2>9. StartedInv'
    <3>1. Cardinality(Started) \in Nat /\ \A t \in Servers : t \in Started <=> t <= Cardinality(Started)
      BY StartedOf DEF SupervisorInv
    <3>2. Started' = 1 .. s
      BY <2>1, <2>6, <3>1, RpcAssumption DEF Started, Servers
    <3>3. Cardinality(1 .. s) = s
      BY <2>1, <3>1, FS_Interval
    <3> QED BY <3>2, <3>3 DEF StartedInv
  <2>10. PendingWaits'
    BY <2>2, <2>3, <2>6 DEF PendingWaits
  <2> QED BY <2>4, <2>5, <2>7, <2>8, <2>9, <2>10 DEF SupervisorInv
<1>3. CASE /\ IF Cardinality(Started) < MaxServers THEN Spend("launch") ELSE UNCHANGED left
           /\ NotBooted(task)
           /\ UNCHANGED <<up, proc, reader, nextId, asked, pending, told, call>>
  <2>1. left' \in [Events -> Nat]
    BY <1>3, SpendType DEF SupervisorInv, SupervisorTypes, Events, Faults
  <2>2. SupervisorTypes'
    BY <1>1, <1>3, <2>1, NotBootedTypes DEF SupervisorInv
  <2>3. CallInv'
    <3>1. codex' = None /\ task' = "none"
      BY <1>3 DEF NotBooted
    <3>2. \A s \in Servers : reader[s] \notin {"reads", "died"}
      BY <1>1, NoCallOf DEF SupervisorInv, CallInv
    <3> QED BY <1>1, <1>3, <3>1, <3>2, NoCallOf, LineTypes DEF CallInv, Starters
  <2> QED BY <1>1, <1>3, <2>2, <2>3, SameClients DEF rpcVars, clientVars
<1> QED BY <1>2, <1>3 DEF Launch

(* What the end of some clients leaves, when the main thread waits for     *)
(* none of the others, or for the same as before.                          *)
LEMMA ClosesOf ==
  ASSUME SupervisorInv, NEW ss \in SUBSET Servers, Closes(ss), UNCHANGED said,
         \A s \in ss : proc[s] # "off",
         \/ call' = call
         \/ call' = NoCall /\ \A s \in Servers : s = call.server => s \in ss \/ proc[s] = "dead"
  PROVE  /\ ClientTypes' /\ ServerInv' /\ StartedInv' /\ PendingWaits'
         /\ \A s \in ss : proc'[s] = "dead" /\ reader'[s] = "closed"
         /\ \A s \in Servers \ ss : proc'[s] = proc[s] /\ reader'[s] = reader[s]
<1>1. \A s \in ss : /\ proc'[s] = "dead" /\ reader'[s] = "closed" /\ lines'[s] = <<>> /\ asks'[s] = <<>>
                    /\ told'[s] = {} /\ pending'[s] = {} /\ nextId'[s] = 1 /\ asked'[s] = 0
  BY DEF Closes
<1>2. \A s \in Servers \ ss : /\ proc'[s] = proc[s] /\ reader'[s] = reader[s] /\ lines'[s] = lines[s]
                              /\ asks'[s] = asks[s] /\ told'[s] = told[s] /\ pending'[s] = pending[s]
                              /\ nextId'[s] = nextId[s] /\ asked'[s] = asked[s]
  BY DEF Closes
<1>3. ClientTypes'
  <2>1. /\ proc' \in [Servers -> {"off", "runs", "dead"}]
        /\ reader' \in [Servers -> {"off", "reads", "died", "closed"}]
    BY <1>1, <1>2 DEF SupervisorInv, ClientTypes, Closes
  <2>2. /\ told' \in [Servers -> SUBSET RequestLines] /\ pending' \in [Servers -> SUBSET Nat]
        /\ nextId' \in [Servers -> Nat \ {0}] /\ asked' \in [Servers -> Nat]
    BY <1>1, <1>2 DEF SupervisorInv, ClientTypes, Closes
  <2>3. lines' \in [Servers -> Seq(Written)] /\ asks' \in [Servers -> Seq(AskIds)]
    <3>1. <<>> \in Seq(Written) /\ <<>> \in Seq(AskIds)
      OBVIOUS
    <3> QED BY <3>1, <1>1, <1>2 DEF SupervisorInv, ClientTypes, Closes
  <2>4. call' \in [server : Servers \cup {None}, id : Nat, of : Identities, method : Methods \cup {"none"}, slot : Lines]
    BY NoCallOf DEF SupervisorInv, ClientTypes
  <2>5. ASSUME NEW s \in Servers PROVE pending'[s] \cup IdsTold(s)' \subseteq 1 .. nextId'[s] - 1
    BY <1>1, <1>2 DEF SupervisorInv, ClientTypes, IdsTold
  <2> QED BY <2>1, <2>2, <2>3, <2>4, <2>5 DEF ClientTypes
<1>4. ServerInv'
  BY <1>1, <1>2 DEF SupervisorInv, ServerInv
<1>5. StartedInv'
  BY <1>1, <1>2, SameStarted DEF SupervisorInv
<1>7. PendingWaits'
  BY <1>1, <1>2 DEF SupervisorInv, PendingWaits
<1> QED BY <1>1, <1>2, <1>3, <1>4, <1>5, <1>7

(* What a return leaves. *)
LEMMA ReturnsOf ==
  ASSUME SupervisorInv, NEW s \in Servers, call.server = s, Returns(s)
  PROVE  /\ pending' \in [Servers -> SUBSET Nat]
         /\ call' = NoCall
         /\ \A t \in Servers : pending'[t] \subseteq pending[t]
         /\ \A t \in Servers : \A id \in pending'[t] : proc[t] = "dead"
<1>1. pending' = [pending EXCEPT ![s] = Released(s)] /\ call' = NoCall
  BY DEF Returns
<1>2. Released(s) \subseteq pending[s] /\ \A id \in Released(s) : proc[s] = "dead"
  BY ReleasedOf DEF SupervisorInv
<1>3. \A t \in Servers : t # s => pending'[t] = pending[t]
  BY <1>1 DEF SupervisorInv, ClientTypes
<1>4. pending'[s] = Released(s) /\ pending' \in [Servers -> SUBSET Nat]
  BY <1>1, <1>2 DEF SupervisorInv, ClientTypes
<1>5. \A t \in Servers : t # s => \A id \in pending[t] : proc[t] = "dead"
  BY DEF SupervisorInv, PendingWaits
<1> QED BY <1>1, <1>2, <1>3, <1>4, <1>5

LEMMA WaitedType ==
  ASSUME left \in [Events -> Nat], Waited
  PROVE  left' \in [Events -> Nat]
  BY SpendType DEF Waited, Events, Faults

(* The bootstrap asks for nothing but the methods of the bootstrap. *)
LEMMA FollowingOf ==
  ASSUME NEW method \in BootMethods, NEW outcome
  PROVE  Following(method, outcome) \in BootMethods \cup {"done", "failed"}
<1>1. method \in {"initialize", "account/read", "getAccount", "account/login/start", "login/account"}
  BY DEF BootMethods, Methods
<1>2. CASE method = "initialize"
  BY <1>2 DEF Following, BootMethods, Methods
<1>3. CASE method = "account/read"
  <2>1. Following(method, outcome) =
             CASE outcome = "ok" -> "done"
               [] outcome = "auth" -> "account/login/start"
               [] outcome = "unrecognised" -> "getAccount"
               [] OTHER -> "failed"
    BY <1>3 DEF Following
  <2> QED BY <2>1 DEF BootMethods, Methods
<1>4. CASE method = "getAccount"
  <2>1. Following(method, outcome) =
             CASE outcome = "ok" -> "done"
               [] outcome = "auth" -> "account/login/start"
               [] OTHER -> "failed"
    BY <1>4 DEF Following
  <2> QED BY <2>1 DEF BootMethods, Methods
<1>5. CASE method = "account/login/start"
  BY <1>5 DEF Following, BootMethods, Methods
<1>6. CASE method = "login/account"
  BY <1>6 DEF Following, BootMethods, Methods
<1> QED BY <1>1, <1>2, <1>3, <1>4, <1>5, <1>6

(* The main thread waits for a server that was started. *)
LEMMA CallOf ==
  ASSUME SupervisorInv, call # NoCall
  PROVE  /\ call.server \in Servers /\ call.server # None /\ proc[call.server] # "off"
         /\ task # "none" /\ up
         /\ call.id \in Nat /\ call.method \in Methods \cup {"none"} /\ call.slot \in Lines
  BY NoCallOf DEF SupervisorInv, CallInv, ClientTypes

LEMMA BootFailsInv ==
  ASSUME SupervisorInv, task \in Starters, call # NoCall, left' \in [Events -> Nat],
         BootFails(call.server), UNCHANGED <<notes, looked, said, rows>>
  PROVE  SupervisorInv'
<1>1. NotBooted(task) /\ call' = NoCall /\ Closes({call.server}) /\ up' = up
  BY DEF BootFails
<1>2. /\ ClientTypes' /\ ServerInv' /\ StartedInv' /\ PendingWaits'
      /\ \A s \in {call.server} : proc'[s] = "dead" /\ reader'[s] = "closed"
      /\ \A s \in Servers \ {call.server} : proc'[s] = proc[s] /\ reader'[s] = reader[s]
  BY <1>1, CallOf, ClosesOf
<1>3. SupervisorTypes'
  BY <1>1, NotBootedTypes DEF SupervisorInv
<1>4. codex' = None /\ task' = "none"
  BY <1>1 DEF NotBooted
<1>5. \A s \in Servers : reader'[s] \notin {"reads", "died"}
  <2>1. \A s \in Servers : reader[s] \in {"reads", "died"} => s = call.server
    BY NoCallOf DEF SupervisorInv, CallInv
  <2> QED BY <1>2, <2>1
<1>6. CallInv'
  BY <1>1, <1>4, <1>5, NoCallOf, LineTypes DEF CallInv, Starters
<1> QED BY <1>2, <1>3, <1>6 DEF SupervisorInv

LEMMA BootedInv ==
  ASSUME SupervisorInv, task \in Starters, call # NoCall, left' \in [Events -> Nat],
         Booted(call.server), UNCHANGED <<notes, looked, said, rows>>
  PROVE  SupervisorInv'
<1> DEFINE s == call.server
<1>1. /\ Returns(s) /\ codex' = s /\ codexState' = StateFound
      /\ UNCHANGED <<up, proc, reader, lines, asks, told, nextId, asked>>
      /\ task' \in {"deliver", "none"}
  BY DEF Booted
<1>2. /\ failures' \in Nat /\ pumped' \in Servers \cup {None}
  BY CallOf DEF Booted, SupervisorInv, SupervisorTypes
<1>3. s \in Servers /\ s # None /\ proc[s] # "off" /\ up
  BY CallOf
<1>4. /\ pending' \in [Servers -> SUBSET Nat] /\ call' = NoCall
      /\ \A t \in Servers : pending'[t] \subseteq pending[t]
      /\ \A t \in Servers : \A id \in pending'[t] : proc[t] = "dead"
  BY <1>1, <1>3, ReturnsOf
<1>5. ClientTypes'
  BY <1>1, <1>4, NoCallOf DEF SupervisorInv, ClientTypes, IdsTold
<1>6. SupervisorTypes'
  BY <1>1, <1>2, <1>3 DEF SupervisorInv, SupervisorTypes, StateFound, Tasks
<1>7. ServerInv'
  BY <1>1, <1>3, <1>4 DEF SupervisorInv, ServerInv
<1>8. CallInv'
  <2>1. \A t \in Servers : reader[t] \in {"reads", "died"} => t = s
    BY NoCallOf DEF SupervisorInv, CallInv
  <2> QED BY <1>1, <1>3, <1>4, <2>1, NoCallOf, LineTypes DEF CallInv, Starters
<1>9. StartedInv'
  BY <1>1, SameStarted DEF SupervisorInv
<1>10. PendingWaits'
  BY <1>1, <1>4, NoCallOf DEF PendingWaits
<1> QED BY <1>5, <1>6, <1>7, <1>8, <1>9, <1>10 DEF SupervisorInv

(* A request to a server that the main thread uses. *)
LEMMA RequestsInv ==
  ASSUME SupervisorInv, SupervisorTypes', NEW s \in Servers, NEW method \in Methods,
         Requests(s, method, proc[s] = "runs"), proc[s] # "off", s \in {codex, call.server},
         call.server \in {s, None},
         \/ task = "deliver" /\ codex = s /\ method = "turn"
         \/ task \in Starters /\ method \in BootMethods,
         UNCHANGED <<up, codex, task, proc, reader, lines, notes, asks, said>>
  PROVE  SupervisorInv'
<1>0. s # None
  BY NoCallOf
<1>1. /\ nextId' \in [Servers -> Nat \ {0}] /\ asked' \in [Servers -> Nat]
      /\ pending' \in [Servers -> SUBSET Nat]
      /\ told' \in [Servers -> SUBSET RequestLines]
      /\ call' \in [server : Servers \cup {None}, id : Nat, of : Identities, method : Methods \cup {"none"}, slot : Lines]
      /\ call'.server = s /\ call'.method = method /\ call'.slot \in {Empty, Broken}
      /\ call'.slot = Broken <=> ~(proc[s] = "runs")
      /\ call' # NoCall
      /\ \A t \in Servers : (pending[t] \cup IdsTold(t) \subseteq 1 .. nextId[t] - 1)'
      /\ \A t \in Servers : t # s => UNCHANGED <<nextId[t], pending[t], told[t]>>
      /\ \A t \in Servers : \A id \in pending'[t] : proc[t] = "dead" \/ (t = s /\ id = call'.id)
  BY RequestsOf DEF SupervisorInv
<1>2. ClientTypes'
  BY <1>1 DEF SupervisorInv, ClientTypes
<1>3. ServerInv'
  <2>1. \A t \in Servers : t # s => UNCHANGED <<proc[t], reader[t], lines[t], told[t], pending[t], nextId[t], said[t]>>
    BY <1>1
  <2>2. proc'[s] # "off" /\ UNCHANGED <<proc[s], reader[s]>>
    OBVIOUS
  <2> QED BY <2>1, <2>2 DEF SupervisorInv, ServerInv
<1>4. CallInv'
  <2>1. proc[s] \in {"runs", "dead"}
    BY DEF SupervisorInv, ClientTypes
  <2>2. \A t \in Servers : reader[t] \in {"reads", "died"} => t \in {codex, s}
    BY NoCallOf DEF SupervisorInv, CallInv
  <2>3. task # "none"
    BY DEF Starters
  <2> QED BY <1>0, <1>1, <2>1, <2>2, <2>3 DEF SupervisorInv, CallInv, Starters
<1>5. StartedInv'
  BY SameStarted DEF SupervisorInv
<1>6. PendingWaits'
  BY <1>1 DEF PendingWaits
<1> QED BY <1>2, <1>3, <1>4, <1>5, <1>6 DEF SupervisorInv

LEMMA BootsInv == SupervisorInv /\ Boots => SupervisorInv'
<1> SUFFICES ASSUME SupervisorInv, Boots PROVE SupervisorInv'
  OBVIOUS
<1>1. /\ task \in Starters /\ call # NoCall /\ Waited
      /\ UNCHANGED <<notes, looked, said, rows>>
  BY DEF Boots, appVars
<1>2. left' \in [Events -> Nat]
  BY <1>1, WaitedType DEF SupervisorInv, SupervisorTypes
<1>3. call.method \in BootMethods /\ call.server \in Servers
  BY <1>1 DEF SupervisorInv, CallInv
<1>4. PICK outcome \in Outcomes :
          LET next == Following(call.method, outcome)
          IN CASE next = "failed" -> BootFails(call.server)
               [] next = "done"   -> Booted(call.server)
               [] OTHER           -> Continues(call.server, next)
  BY DEF Boots
<1> DEFINE next == Following(call.method, outcome)
<1>5. next \in BootMethods \cup {"done", "failed"}
  BY <1>3, FollowingOf
<1>6. CASE next = "failed"
  <2>1. BootFails(call.server)
    BY <1>4, <1>6
  <2> QED BY <1>1, <1>2, <2>1, BootFailsInv
<1>7. CASE next = "done"
  <2>1. Booted(call.server)
    BY <1>4, <1>7
  <2> QED BY <1>1, <1>2, <2>1, BootedInv
<1>8. CASE next \notin {"done", "failed"}
  <2>1. Continues(call.server, next)
    BY <1>4, <1>8
  <2>2. next \in BootMethods /\ next \in Methods
    BY <1>5, <1>8 DEF BootMethods
  <2> HIDE DEF next
  <2>3. /\ Requests(call.server, next, proc[call.server] = "runs")
        /\ UNCHANGED <<up, codex, codexState, task, failures, pumped, proc, reader, lines, asks>>
    BY <2>1 DEF Continues, supVars
  <2>4. SupervisorTypes'
    BY <1>1, <1>2, <2>3 DEF SupervisorInv, SupervisorTypes
  <2> QED BY <1>1, <1>3, <2>2, <2>3, <2>4, CallOf, RequestsInv
<1> QED BY <1>6, <1>7, <1>8

LEMMA DeliversInv == SupervisorInv /\ Delivers => SupervisorInv'
<1> SUFFICES ASSUME SupervisorInv, Delivers PROVE SupervisorInv'
  OBVIOUS
<1>1. /\ task = "deliver" /\ call = NoCall /\ call.server = None
      /\ UNCHANGED <<up, codex, codexState, failures, looked, rows, said, left>>
  BY NoCallOf DEF Delivers, appVars
<1>2. codex \in Servers /\ proc[codex] # "off"
  BY <1>1 DEF SupervisorInv, CallInv, SupervisorTypes
<1>3. CASE MessageDone /\ UNCHANGED rpcVars
  <2>1. SupervisorTypes'
    BY <1>1, <1>3 DEF MessageDone, SupervisorInv, SupervisorTypes, Tasks
  <2>2. CallInv'
    BY <1>1, <1>2, <1>3 DEF MessageDone, SupervisorInv, CallInv, rpcVars, Starters
  <2> QED BY <1>1, <1>3, <2>1, <2>2, SameClients DEF rpcVars, clientVars
<1>4. CASE /\ Requests(codex, "turn", proc[codex] = "runs")
           /\ UNCHANGED <<proc, reader, lines, notes, asks, task, pumped>>
  <2>1. SupervisorTypes'
    BY <1>1, <1>4 DEF SupervisorInv, SupervisorTypes
  <2>2. "turn" \in Methods
    BY DEF Methods
  <2> QED BY <1>1, <1>2, <1>4, <2>1, <2>2, RequestsInv
<1> QED BY <1>3, <1>4 DEF Delivers

LEMMA DeliveryEndsInv == SupervisorInv /\ DeliveryEnds => SupervisorInv'
<1> SUFFICES ASSUME SupervisorInv, DeliveryEnds PROVE SupervisorInv'
  OBVIOUS
<1>1. /\ task = "deliver" /\ call # NoCall /\ Returns(codex) /\ Waited
      /\ task' = "none" /\ pumped' = codex
      /\ UNCHANGED <<proc, told, reader, lines, nextId, asked, notes, asks>>
      /\ UNCHANGED <<up, codex, codexState, failures, looked, rows, said>>
  BY DEF DeliveryEnds, MessageDone, appVars
<1>2. codex \in Servers /\ proc[codex] # "off" /\ call.server = codex /\ up
  BY <1>1, CallOf DEF SupervisorInv, CallInv, SupervisorTypes
<1>3. /\ pending' \in [Servers -> SUBSET Nat] /\ call' = NoCall
      /\ \A t \in Servers : pending'[t] \subseteq pending[t]
      /\ \A t \in Servers : \A id \in pending'[t] : proc[t] = "dead"
  BY <1>1, <1>2, ReturnsOf
<1>4. left' \in [Events -> Nat]
  BY <1>1, WaitedType DEF SupervisorInv, SupervisorTypes
<1>5. ClientTypes'
  BY <1>1, <1>3, NoCallOf DEF SupervisorInv, ClientTypes, IdsTold
<1>6. SupervisorTypes'
  BY <1>1, <1>4 DEF SupervisorInv, SupervisorTypes, Tasks
<1>7. ServerInv'
  BY <1>1, <1>2, <1>3 DEF SupervisorInv, ServerInv
<1>8. CallInv'
  <2>1. \A t \in Servers : reader[t] \in {"reads", "died"} => t = codex
    BY <1>2 DEF SupervisorInv, CallInv
  <2> QED BY <1>1, <1>2, <1>3, <2>1, NoCallOf, LineTypes DEF CallInv, Starters
<1>9. StartedInv'
  BY <1>1, SameStarted DEF SupervisorInv
<1>10. PendingWaits'
  BY <1>1, <1>3, NoCallOf DEF PendingWaits
<1> QED BY <1>5, <1>6, <1>7, <1>8, <1>9, <1>10 DEF SupervisorInv

(* Between its works the main thread waits for nothing, and only the app   *)
(* server in service has an open client.                                   *)
LEMMA IdleOf ==
  ASSUME SupervisorInv, Idle
  PROVE  /\ up /\ task = "none" /\ call = NoCall /\ call.server = None
         /\ \A s \in Servers : reader[s] \in {"reads", "died"} => s = codex
  BY NoCallOf DEF SupervisorInv, CallInv, Idle

LEMMA NoticesDeathInv == SupervisorInv /\ NoticesDeath => SupervisorInv'
<1> SUFFICES ASSUME SupervisorInv, NoticesDeath PROVE SupervisorInv'
  OBVIOUS
<1>1. /\ Idle /\ codex # None /\ Closes({codex}) /\ codex' = None /\ pumped' = None
      /\ codexState' = "BACKOFF" /\ failures' = failures + 1
      /\ UNCHANGED <<notes, call, up, task, looked, rows, said, left>>
  BY DEF NoticesDeath, appVars
<1>2. codex \in Servers /\ proc[codex] # "off"
  BY <1>1 DEF SupervisorInv, CallInv, SupervisorTypes
<1>3. /\ ClientTypes' /\ ServerInv' /\ StartedInv' /\ PendingWaits'
      /\ \A s \in {codex} : proc'[s] = "dead" /\ reader'[s] = "closed"
      /\ \A s \in Servers \ {codex} : proc'[s] = proc[s] /\ reader'[s] = reader[s]
  BY <1>1, <1>2, ClosesOf
<1>4. SupervisorTypes'
  BY <1>1 DEF SupervisorInv, SupervisorTypes
<1>5. CallInv'
  BY <1>1, <1>3, IdleOf, NoCallOf, LineTypes DEF CallInv, Starters
<1> QED BY <1>3, <1>4, <1>5 DEF SupervisorInv

LEMMA RestartInv == SupervisorInv /\ Restart => SupervisorInv'
<1> SUFFICES ASSUME SupervisorInv, Restart PROVE SupervisorInv'
  OBVIOUS
<1> DEFINE ss == {codex} \ {None}
<1>1. /\ Idle /\ Closes(ss) /\ codexState' = "STOPPED" /\ task' = "restart" /\ Spend("restart")
      /\ UNCHANGED <<notes, call, up, codex, failures, pumped, looked, rows, said>>
  BY DEF Restart, appVars, pumpVars
<1>2. ss \in SUBSET Servers /\ \A s \in ss : proc[s] # "off"
  BY DEF SupervisorInv, CallInv, SupervisorTypes
<1>3. /\ ClientTypes' /\ ServerInv' /\ StartedInv' /\ PendingWaits'
      /\ \A s \in ss : proc'[s] = "dead" /\ reader'[s] = "closed"
      /\ \A s \in Servers \ ss : proc'[s] = proc[s] /\ reader'[s] = reader[s]
  BY <1>1, <1>2, ClosesOf
<1>4. SupervisorTypes'
  <2>1. left' \in [Events -> Nat]
    BY <1>1, SpendType DEF SupervisorInv, SupervisorTypes, Events, Commands
  <2> QED BY <1>1, <2>1 DEF SupervisorInv, SupervisorTypes, Tasks, Starters
<1>5. CallInv'
  <2>1. codex # None => codex \in Servers /\ proc'[codex] = "dead" /\ reader'[codex] = "closed"
    BY <1>2, <1>3
  <2>2. \A s \in Servers : reader'[s] \notin {"reads", "died"}
    BY <1>3, IdleOf, <1>1, NoCallOf
  <2> QED BY <1>1, <2>1, <2>2, IdleOf, NoCallOf, LineTypes DEF CallInv, Starters
<1> QED BY <1>3, <1>4, <1>5 DEF SupervisorInv

(* The process ends. *)
LEMMA EndsInv ==
  ASSUME SupervisorInv, Ends, UNCHANGED rows, left' \in [Events -> Nat]
  PROVE  SupervisorInv'
<1>1. /\ up' = FALSE /\ codex' = None /\ codexState' = "STOPPED" /\ task' = "none" /\ failures' = 0
      /\ pumped' = None /\ looked' = None /\ call' = NoCall /\ Closes(Open) /\ UNCHANGED <<notes, said>>
  BY DEF Ends
<1>2. /\ Open \in SUBSET Servers /\ \A s \in Open : proc[s] # "off"
      /\ \A s \in Servers : s = call.server => s \in Open \/ proc[s] = "dead"
  <2>1. Open \in SUBSET Servers /\ \A s \in Open : proc[s] # "off"
    BY DEF Open, SupervisorInv, ServerInv
  <2>2. ASSUME NEW s \in Servers, s = call.server PROVE s \in Open \/ proc[s] = "dead"
    <3>1. call # NoCall
      BY <2>2, NoCallOf
    <3>2. proc[s] # "off" /\ reader[s] # "off"
      BY <2>2, <3>1, CallOf DEF SupervisorInv, ServerInv
    <3> QED BY <3>2 DEF Open, SupervisorInv, ServerInv, ClientTypes
  <2> QED BY <2>1, <2>2
<1>3. /\ ClientTypes' /\ ServerInv' /\ StartedInv' /\ PendingWaits'
      /\ \A s \in Open : proc'[s] = "dead" /\ reader'[s] = "closed"
      /\ \A s \in Servers \ Open : proc'[s] = proc[s] /\ reader'[s] = reader[s]
  BY <1>1, <1>2, ClosesOf
<1>4. SupervisorTypes'
  BY <1>1 DEF SupervisorInv, SupervisorTypes, Tasks
<1>5. CallInv'
  <2>1. \A s \in Servers : reader'[s] \notin {"reads", "died"}
    BY <1>3 DEF Open
  <2> QED BY <1>1, <2>1, NoCallOf, LineTypes DEF CallInv, Starters
<1> QED BY <1>3, <1>4, <1>5 DEF SupervisorInv

LEMMA StoresAsksInv == SupervisorInv /\ StoresAsks => SupervisorInv'
<1> SUFFICES ASSUME SupervisorInv, StoresAsks PROVE SupervisorInv'
  OBVIOUS
<1>1. /\ codex \in Servers
      /\ rows' = [i \in AskIds |-> IF i \in ToSet(asks[codex]) THEN NewRow(i) ELSE rows[i]]
      /\ asks' = [asks EXCEPT ![codex] = <<>>]
      /\ UNCHANGED <<proc, told, lines, reader, pending, nextId, asked, notes, call, said, left>>
      /\ UNCHANGED <<up, codex, codexState, task, failures, pumped, looked>>
  BY DEF StoresAsks, supVars, pumpVars, SupervisorInv, SupervisorTypes
<1>2. ClientTypes'
  <2>1. <<>> \in Seq(AskIds)
    OBVIOUS
  <2> QED BY <1>1, <2>1 DEF SupervisorInv, ClientTypes, IdsTold
<1>3. SupervisorTypes'
  BY <1>1 DEF SupervisorInv, SupervisorTypes, NewRow
<1>4. ServerInv' /\ CallInv'
  BY <1>1 DEF SupervisorInv, ServerInv, CallInv
<1>5. StartedInv' /\ PendingWaits'
  BY <1>1, SameStarted DEF SupervisorInv, PendingWaits
<1> QED BY <1>2, <1>3, <1>4, <1>5 DEF SupervisorInv

LEMMA MessageInv == SupervisorInv /\ Message => SupervisorInv'
<1> SUFFICES ASSUME SupervisorInv, Message PROVE SupervisorInv'
  OBVIOUS
<1>1. /\ Idle /\ Spend("message")
      /\ task' = IF codex = None THEN "message" ELSE "deliver"
      /\ UNCHANGED <<rpcVars, up, codex, codexState, failures, pumped, looked, rows, said>>
  BY DEF Message, appVars, pumpVars
<1>2. SupervisorTypes'
  <2>1. left' \in [Events -> Nat]
    BY <1>1, SpendType DEF SupervisorInv, SupervisorTypes, Events, Commands
  <2> QED BY <1>1, <2>1 DEF SupervisorInv, SupervisorTypes, Tasks, Starters
<1>3. CallInv'
  BY <1>1, IdleOf DEF SupervisorInv, CallInv, rpcVars, Starters
<1> QED BY <1>1, <1>2, <1>3, SameClients DEF rpcVars, clientVars

LEMMA MaintainsInv == SupervisorInv /\ Maintains => SupervisorInv'
<1> SUFFICES ASSUME SupervisorInv, Maintains PROVE SupervisorInv'
  OBVIOUS
<1>1. /\ Idle /\ codex = None /\ task' = "maintain"
      /\ UNCHANGED <<rpcVars, up, codex, codexState, failures, pumped, looked, rows, said, left>>
  BY DEF Maintains, appVars, pumpVars
<1>2. SupervisorTypes'
  BY <1>1 DEF SupervisorInv, SupervisorTypes, Tasks, Starters
<1>3. CallInv'
  BY <1>1, IdleOf DEF SupervisorInv, CallInv, rpcVars, Starters
<1> QED BY <1>1, <1>2, <1>3, SameClients DEF rpcVars, clientVars

LEMMA ServiceStartsInv == SupervisorInv /\ ServiceStarts => SupervisorInv'
<1> SUFFICES ASSUME SupervisorInv, ServiceStarts PROVE SupervisorInv'
  OBVIOUS
<1>1. /\ ~up /\ up' = TRUE /\ rows' = StaleRows /\ task' = "service"
      /\ UNCHANGED <<rpcVars, codex, codexState, failures, pumped, looked, said, left>>
  BY DEF ServiceStarts, pumpVars
<1>2. SupervisorTypes'
  <2>1. rows' \in [AskIds -> [status : {"none", "pending", "approved", "denied", "stale"}, of : Servers \cup {None}]]
    BY <1>1 DEF StaleRows, SupervisorInv, SupervisorTypes
  <2> QED BY <1>1, <2>1 DEF SupervisorInv, SupervisorTypes, Tasks, Starters
<1>3. CallInv'
  BY <1>1, NoCallOf DEF SupervisorInv, CallInv, rpcVars, Starters
<1> QED BY <1>1, <1>2, <1>3, SameClients DEF rpcVars, clientVars

LEMMA CrashInv == SupervisorInv /\ Crash => SupervisorInv'
<1> SUFFICES ASSUME SupervisorInv, Crash PROVE SupervisorInv'
  OBVIOUS
<1>1. Ends /\ UNCHANGED rows /\ Spend("crash")
  BY DEF Crash, appVars
<1>2. left' \in [Events -> Nat]
  BY <1>1, SpendType DEF SupervisorInv, SupervisorTypes, Events, Faults
<1> QED BY <1>1, <1>2, EndsInv

LEMMA ReplyInv ==
  ASSUME SupervisorInv, NEW i \in AskIds, NEW verdict \in {"approved", "denied"}, Reply(i, verdict)
  PROVE  SupervisorInv'
<1>1. left' \in [Events -> Nat]
  BY SpendType DEF Reply, SupervisorInv, SupervisorTypes, Events, Commands
<1>2. CASE rows' = Marked(i, verdict) /\ UNCHANGED <<rpcVars, supVars, pumpVars, taken, said>>
  <2>1. rows' \in [AskIds -> [status : {"none", "pending", "approved", "denied", "stale"}, of : Servers \cup {None}]]
    BY <1>2 DEF Marked, SupervisorInv, SupervisorTypes
  <2>2. SupervisorTypes'
    BY <1>1, <1>2, <2>1 DEF SupervisorInv, SupervisorTypes, supVars, pumpVars
  <2> QED BY <1>2, <2>2, SameCall DEF supVars, rpcVars, clientVars
<1>3. CASE Ends /\ UNCHANGED appVars
  BY <1>1, <1>3, EndsInv DEF appVars
<1> QED BY <1>2, <1>3 DEF Reply

(* The delay, the notifications in the queue: nothing of the clients. *)
LEMMA TickInv == SupervisorInv /\ Tick => SupervisorInv'
<1> SUFFICES ASSUME SupervisorInv, Tick PROVE SupervisorInv'
  OBVIOUS
<1>1. UNCHANGED <<rpcVars, up, codex, codexState, task, failures, pumped, looked, rows, said, left>>
  BY DEF Tick, appVars, pumpVars
<1>2. SupervisorTypes'
  BY <1>1 DEF SupervisorInv, SupervisorTypes
<1> QED BY <1>1, <1>2, SameCall DEF rpcVars, clientVars

LEMMA HandlesNoteInv == SupervisorInv /\ HandlesNote => SupervisorInv'
<1> SUFFICES ASSUME SupervisorInv, HandlesNote PROVE SupervisorInv'
  OBVIOUS
<1>1. /\ codexState' \in {"RUNNING", codexState}
      /\ UNCHANGED <<rpcVars, up, codex, task, failures, pumped, looked, rows, said, left>>
  BY DEF HandlesNote, StateTold, appVars
<1>2. SupervisorTypes'
  BY <1>1 DEF SupervisorInv, SupervisorTypes
<1> QED BY <1>1, <1>2, SameCall DEF rpcVars, clientVars

LEMMA PumpInv == SupervisorInv /\ Pump => SupervisorInv'
<1> SUFFICES ASSUME SupervisorInv, Pump PROVE SupervisorInv'
  OBVIOUS
<1>1. CASE PumpLooks \/ PumpPuts
  <2>1. /\ looked' \in {pumped, looked}
        /\ UNCHANGED <<rpcVars, up, codex, codexState, task, failures, pumped, rows, said, left>>
    BY <1>1 DEF PumpLooks, PumpPuts, supVars, appVars
  <2>2. SupervisorTypes'
    BY <2>1 DEF SupervisorInv, SupervisorTypes
  <2> QED BY <2>1, <2>2, SameCall DEF rpcVars, clientVars
<1>2. CASE PumpPolls
  <2>1. /\ looked' = None
        /\ UNCHANGED <<clientVars, up, codex, codexState, task, failures, pumped, rows, said, left>>
    BY <1>2 DEF PumpPolls, supVars, appVars, clientVars
  <2>2. SupervisorTypes'
    BY <2>1 DEF SupervisorInv, SupervisorTypes
  <2> QED BY <2>1, <2>2, SameCall
<1> QED BY <1>1, <1>2 DEF Pump

-----------------------------------------------------------------------------
(* The reader threads and the servers.                                     *)

LEMMA HeadOf ==
  ASSUME NEW S, NEW seq \in Seq(S), seq # <<>>
  PROVE  Head(seq) \in S /\ Tail(seq) \in Seq(S)
  OBVIOUS

LEMMA ReadsLineInv == ASSUME SupervisorInv, NEW s \in Servers, ReadsLine(s) PROVE SupervisorInv'
<1> DEFINE line == Head(lines[s])
<1>1. /\ reader[s] = "reads" /\ lines[s] # <<>>
      /\ lines' = [lines EXCEPT ![s] = Tail(@)]
      /\ UNCHANGED <<proc, told, pending, nextId, asked>>
      /\ UNCHANGED <<up, codex, codexState, task, failures, pumped, looked, rows, said, left>>
  BY DEF ReadsLine, Reads, Take, supVars, pumpVars, appVars
<1>2. line \in Written /\ lines' \in [Servers -> Seq(Written)]
  <2>1. lines[s] \in Seq(Written)
    BY DEF SupervisorInv, ClientTypes
  <2> QED BY <1>1, <2>1, HeadOf DEF SupervisorInv, ClientTypes
<1>3. \/ /\ IsResponse(line)
         /\ call' = IF line.id \in pending[s] /\ call.server = s /\ call.id = line.id
                    THEN [call EXCEPT !.slot = line] ELSE call
         /\ UNCHANGED <<reader, asks>>
      \/ /\ line.kind = "ask"
         /\ asks' = [asks EXCEPT ![s] = Append(@, line.id)]
         /\ UNCHANGED <<reader, call>>
      \/ UNCHANGED <<reader, asks, call>>
      \/ reader' = [reader EXCEPT ![s] = "died"] /\ UNCHANGED <<asks, call>>
  <2>1. line.kind \in {"response", "note", "ask", "junk"}
    BY <1>2 DEF Written, Lines
  <2> QED BY <2>1 DEF ReadsLine, Reads, IsResponse
<1>4. /\ call.slot # call'.slot => IsResponse(line) /\ call.server = s /\ call.id = line.id /\ call'.slot = line
      /\ UNCHANGED <<call.server, call.id, call.method>>
      /\ call' \in [server : Servers \cup {None}, id : Nat, of : Identities, method : Methods \cup {"none"}, slot : Lines]
      /\ call' = NoCall <=> call = NoCall
  <2>1. line \in Lines /\ call \in [server : Servers \cup {None}, id : Nat, of : Identities, method : Methods \cup {"none"}, slot : Lines]
    BY <1>2 DEF Written, SupervisorInv, ClientTypes
  <2>2. CASE call' = call
    BY <2>1, <2>2
  <2>3. CASE /\ IsResponse(line) /\ call.server = s /\ call.id = line.id
             /\ call' = [call EXCEPT !.slot = line]
    <3>1. call # NoCall /\ call'.server = s
      BY <2>1, <2>3, NoCallOf
    <3> QED BY <2>1, <2>3, <3>1, NoCallOf
  <2> QED BY <1>3, <2>2, <2>3
<1>5. asks' \in [Servers -> Seq(AskIds)]
  <2>1. line.kind = "ask" => line.id \in AskIds
    BY <1>2 DEF Written
  <2>2. asks[s] \in Seq(AskIds)
    BY DEF SupervisorInv, ClientTypes
  <2>3. line.kind = "ask" => Append(asks[s], line.id) \in Seq(AskIds)
    BY <2>1, <2>2
  <2> QED BY <1>3, <2>3 DEF SupervisorInv, ClientTypes
<1>6. /\ reader' \in [Servers -> {"off", "reads", "died", "closed"}]
      /\ reader'[s] \in {"reads", "died"}
      /\ \A t \in Servers : t # s => reader'[t] = reader[t]
  BY <1>1, <1>3 DEF SupervisorInv, ClientTypes
<1> HIDE DEF line
<1>7. ClientTypes'
  BY <1>1, <1>2, <1>4, <1>5, <1>6 DEF SupervisorInv, ClientTypes, IdsTold
<1>8. SupervisorTypes' /\ StartedInv'
  BY <1>1, SameStarted DEF SupervisorInv, SupervisorTypes
<1>9. ServerInv'
  <2>1. proc[s] # "off"
    BY <1>1 DEF SupervisorInv, ServerInv
  <2> QED BY <1>1, <1>6, <2>1 DEF SupervisorInv, ServerInv, ClientTypes
<1>10. CallInv'
  <2>1. call'.slot = Broken => call.slot = Broken
    <3>1. IsResponse(line) => line # Broken
      BY DEF IsResponse, Broken, Line
    <3> QED BY <1>4, <3>1
  <2>2. \A t \in Servers : reader'[t] \in {"reads", "died"} => t \in {codex, call.server}
    BY <1>1, <1>6 DEF SupervisorInv, CallInv
  <2>3. task \in Starters => (codex' # None => reader'[codex] = "closed")
    BY <1>1, <1>6 DEF SupervisorInv, CallInv, SupervisorTypes
  <2> QED BY <1>1, <1>4, <2>1, <2>2, <2>3 DEF SupervisorInv, CallInv
<1>12. PendingWaits'
  BY <1>1, <1>4 DEF SupervisorInv, PendingWaits
<1> QED BY <1>7, <1>8, <1>9, <1>10, <1>12 DEF SupervisorInv

(* A line more of a server that runs. *)
LEMMA WritesInv ==
  ASSUME SupervisorInv, NEW s \in Servers, NEW line \in Written, Writes(s, line),
         told' \in [Servers -> SUBSET RequestLines], \A t \in Servers : told'[t] \subseteq told[t],
         UNCHANGED <<proc, reader, pending, nextId, asked, asks, call, up, codex, codexState, task>>,
         UNCHANGED <<failures, pumped, looked, rows>>,
         said' \in [Servers -> [note : Nat, ask : SUBSET AskIds]],
         \A t \in Servers : t # s => said'[t] = said[t],
         left' \in [Events -> Nat]
  PROVE  SupervisorInv'
<1>1. proc[s] = "runs" /\ lines' = [lines EXCEPT ![s] = Append(@, line)]
  BY DEF Writes
<1>2. lines' \in [Servers -> Seq(Written)]
  <2>1. lines[s] \in Seq(Written)
    BY DEF SupervisorInv, ClientTypes
  <2>2. Append(lines[s], line) \in Seq(Written)
    BY <2>1
  <2> QED BY <1>1, <2>2 DEF SupervisorInv, ClientTypes
<1>3. ClientTypes'
  BY <1>2 DEF SupervisorInv, ClientTypes, IdsTold
<1>4. SupervisorTypes' /\ StartedInv'
  BY SameStarted DEF SupervisorInv, SupervisorTypes
<1>5. ServerInv'
  BY <1>1 DEF SupervisorInv, ServerInv, ClientTypes
<1>6. CallInv' /\ PendingWaits'
  BY DEF SupervisorInv, CallInv, PendingWaits
<1> QED BY <1>3, <1>4, <1>5, <1>6 DEF SupervisorInv

LEMMA ServesInv == ASSUME SupervisorInv, NEW s \in Servers, Serves(s) PROVE SupervisorInv'
<1>1. /\ UNCHANGED <<proc, reader, pending, nextId, asked, asks, call, up, codex, codexState, task>>
      /\ UNCHANGED <<failures, pumped, looked, rows, said, left>>
  BY DEF Serves, Responds, supVars, pumpVars, appVars
<1>2. PICK id \in told[s], what \in Answers :
          /\ Writes(s, Response(id, what))
          /\ told' = [told EXCEPT ![s] = @ \ {id}]
  BY DEF Serves, Responds
<1>3. Response(id, what) \in Written
  BY LineTypes DEF SupervisorInv, ClientTypes, LineWords
<1>4. told' \in [Servers -> SUBSET RequestLines] /\ \A t \in Servers : told'[t] \subseteq told[t]
  BY <1>2 DEF SupervisorInv, ClientTypes
<1>5. said \in [Servers -> [note : Nat, ask : SUBSET AskIds]] /\ left \in [Events -> Nat]
  BY DEF SupervisorInv, SupervisorTypes
<1> QED BY <1>1, <1>2, <1>3, <1>4, <1>5, WritesInv

LEMMA DiesInv ==
  ASSUME SupervisorInv, NEW s \in Servers,
         Dies(s) /\ Spend("die") /\ UNCHANGED <<supVars, pumpVars, appVars, taken, said>>
  PROVE  SupervisorInv'
<1>1. /\ proc[s] = "runs"
      /\ proc' = [proc EXCEPT ![s] = "dead"]
      /\ told' = [told EXCEPT ![s] = {}]
      /\ UNCHANGED <<lines, reader, pending, nextId, asked, asks, call>>
      /\ UNCHANGED <<up, codex, codexState, task, failures, pumped, looked, rows, said>>
  BY DEF Dies, supVars, pumpVars, appVars
<1>2. left' \in [Events -> Nat]
  BY SpendType DEF SupervisorInv, SupervisorTypes, Events, Faults
<1>3. ClientTypes'
  BY <1>1 DEF SupervisorInv, ClientTypes, IdsTold
<1>4. SupervisorTypes'
  BY <1>1, <1>2 DEF SupervisorInv, SupervisorTypes
<1>5. proc'[s] = "dead" /\ \A t \in Servers : t # s => proc'[t] = proc[t]
  BY <1>1 DEF SupervisorInv, ClientTypes
<1>6. ServerInv'
  BY <1>1, <1>5 DEF SupervisorInv, ServerInv
<1>7. CallInv'
  <2>1. \A t \in Servers : proc[t] # "off" => proc'[t] # "off"
    BY <1>5
  <2>2. call.slot = Broken => proc'[call.server] = "dead"
    <3>1. call.slot = Broken => call # NoCall
      BY LineTypes, NoCallOf
    <3> QED BY <1>5, <3>1, CallOf DEF SupervisorInv, CallInv
  <2> QED BY <1>1, <2>1, <2>2 DEF SupervisorInv, CallInv, SupervisorTypes
<1>8. StartedInv'
  BY <1>1, <1>5, SameStarted DEF SupervisorInv
<1>9. PendingWaits'
  BY <1>1, <1>5 DEF SupervisorInv, PendingWaits
<1> QED BY <1>3, <1>4, <1>6, <1>7, <1>8, <1>9 DEF SupervisorInv

LEMMA SaysInv == ASSUME SupervisorInv, NEW s \in Servers, Says(s) PROVE SupervisorInv'
<1>1. /\ UNCHANGED <<proc, told, reader, pending, nextId, asked, asks, call, up, codex, codexState, task>>
      /\ UNCHANGED <<failures, pumped, looked, rows>>
      /\ said' = [said EXCEPT ![s].note = @ + 1]
  BY DEF Says, supVars, pumpVars, appVars
<1>2. PICK what \in {"text", "account"} : Writes(s, Note(said[s].note + 1, what))
  BY DEF Says
<1>3. said[s].note + 1 \in Nat
  BY DEF SupervisorInv, SupervisorTypes
<1>4. Note(said[s].note + 1, what) \in Written
  BY <1>3, LineTypes DEF LineWords
<1>5. said' \in [Servers -> [note : Nat, ask : SUBSET AskIds]] /\ \A t \in Servers : t # s => said'[t] = said[t]
  BY <1>1, <1>3 DEF SupervisorInv, SupervisorTypes
<1>6. left' \in [Events -> Nat]
  BY SpendType DEF Says, SupervisorInv, SupervisorTypes, Events, Words
<1>7. told \in [Servers -> SUBSET RequestLines]
  BY DEF SupervisorInv, ClientTypes
<1> QED BY <1>1, <1>2, <1>4, <1>5, <1>6, <1>7, WritesInv

LEMMA AsksApprovalInv == ASSUME SupervisorInv, NEW s \in Servers, AsksApproval(s) PROVE SupervisorInv'
<1>1. /\ UNCHANGED <<proc, told, reader, pending, nextId, asked, asks, call, up, codex, codexState, task>>
      /\ UNCHANGED <<failures, pumped, looked, rows>>
  BY DEF AsksApproval, supVars, pumpVars, appVars
<1>2. PICK i \in AskIds : Writes(s, Ask(i)) /\ said' = [said EXCEPT ![s].ask = @ \cup {i}]
  BY DEF AsksApproval
<1>3. Ask(i) \in Written
  BY LineTypes
<1>4. said' \in [Servers -> [note : Nat, ask : SUBSET AskIds]] /\ \A t \in Servers : t # s => said'[t] = said[t]
  BY <1>2 DEF SupervisorInv, SupervisorTypes
<1>5. left' \in [Events -> Nat]
  BY SpendType DEF AsksApproval, SupervisorInv, SupervisorTypes, Events, Words
<1>6. told \in [Servers -> SUBSET RequestLines]
  BY DEF SupervisorInv, ClientTypes
<1> QED BY <1>1, <1>2, <1>3, <1>4, <1>5, <1>6, WritesInv

LEMMA GarblesInv == ASSUME SupervisorInv, NEW s \in Servers, Garbles(s) PROVE SupervisorInv'
<1>1. /\ UNCHANGED <<proc, told, reader, pending, nextId, asked, asks, call, up, codex, codexState, task>>
      /\ UNCHANGED <<failures, pumped, looked, rows, said>>
      /\ Writes(s, Junk)
  BY DEF Garbles, supVars, pumpVars, appVars
<1>2. left' \in [Events -> Nat]
  BY SpendType DEF Garbles, SupervisorInv, SupervisorTypes, Events, Faults
<1>3. told \in [Servers -> SUBSET RequestLines] /\ said \in [Servers -> [note : Nat, ask : SUBSET AskIds]]
  BY DEF SupervisorInv, ClientTypes, SupervisorTypes
<1> QED BY <1>1, <1>2, <1>3, LineTypes, WritesInv

-----------------------------------------------------------------------------
LEMMA SupervisorInit == Init => SupervisorInv
<1> SUFFICES ASSUME Init PROVE SupervisorInv
  OBVIOUS
<1>1. ClientTypes
  <2>1. <<>> \in Seq(Written) /\ <<>> \in Seq(AskIds)
    OBVIOUS
  <2> QED BY <2>1, NoCallOf DEF Init, RpcInit, ClientTypes, IdsTold
<1>2. SupervisorTypes
  BY SupervisorAssumption DEF Init, SupervisorTypes, Tasks, NoRow
<1>3. ServerInv
  BY DEF Init, RpcInit, ServerInv
<1>4. CallInv
  BY NoCallOf, LineTypes DEF Init, RpcInit, CallInv, Starters
<1>5. StartedInv
  <2>1. Started = {}
    BY DEF Init, RpcInit, Started
  <2> QED BY <2>1, FS_EmptySet DEF StartedInv
<1>6. PendingWaits
  BY NoCallOf DEF Init, RpcInit, PendingWaits
<1> QED BY <1>1, <1>2, <1>3, <1>4, <1>5, <1>6 DEF SupervisorInv

LEMMA SupervisorStep == SupervisorInv /\ [Next]_vars => SupervisorInv'
<1> SUFFICES ASSUME SupervisorInv, [Next]_vars PROVE SupervisorInv'
  OBVIOUS
<1>1. CASE ServiceStarts \/ Crash \/ Tick
  BY <1>1, ServiceStartsInv, CrashInv, TickInv
<1>2. CASE Service
  BY <1>2, LaunchInv, BootsInv, DeliversInv, DeliveryEndsInv, NoticesDeathInv, MaintainsInv,
     HandlesNoteInv, StoresAsksInv DEF Service
<1>3. CASE User
  BY <1>3, MessageInv, RestartInv, ReplyInv DEF User
<1>4. CASE Pump
  BY <1>4, PumpInv
<1>5. ASSUME NEW s \in Servers, ReadsLine(s) \/ Child(s) PROVE SupervisorInv'
  BY <1>5, ReadsLineInv, ServesInv, DiesInv, SaysInv, AsksApprovalInv, GarblesInv DEF Child
<1>6. CASE UNCHANGED vars
  <2>1. UNCHANGED <<clientVars, said, up, codex, task, codexState, failures, pumped, looked, rows, left>>
    BY <1>6 DEF vars, rpcVars, supVars, pumpVars, appVars, clientVars
  <2>2. SupervisorTypes'
    BY <2>1 DEF SupervisorInv, SupervisorTypes
  <2> QED BY <2>1, <2>2, SameCall
<1> QED BY <1>1, <1>2, <1>3, <1>4, <1>5, <1>6 DEF Next

(* The inductive invariant of the clients and of the supervision. *)
THEOREM SupervisorHolds == Spec => []SupervisorInv
<1>1. Init => SupervisorInv
  BY SupervisorInit
<1>2. SupervisorInv /\ [Next]_vars => SupervisorInv'
  BY SupervisorStep
<1> QED BY <1>1, <1>2, PTL DEF Spec

(* JsonRpcClient._pending: what is in it is waited for, or was written to  *)
(* a process that was gone.                                                *)
THEOREM NothingLeftPending == Spec => []PendingWaits
<1>1. SupervisorInv => PendingWaits
  BY DEF SupervisorInv
<1> QED BY <1>1, SupervisorHolds, PTL

-----------------------------------------------------------------------------
(* Which request a response answers.                                       *)

(* An id names one request only, of those made of the server in its life.  *)
Named(s, line) == line.kind = "response" => line.of = Identity(s, line.id)

LinesNamed == \A s \in Servers : \A i \in 1 .. Len(lines[s]) : Named(s, lines[s][i])

(* The ids count the requests, on their way to the server and back.        *)
IdentityInv ==
    /\ \A s \in Servers : nextId[s] = asked[s] + 1
    /\ \A s \in Servers : \A request \in told[s] : request.of = Identity(s, request.id)
    /\ LinesNamed
    /\ call # NoCall => call.of = Identity(call.server, call.id)
    /\ OwnResponse

(* Nothing new is asked, answered or written. *)
LEMMA KeepsIdentity ==
  ASSUME IdentityInv,
         \A t \in Servers : told'[t] \subseteq told[t],
         \A t \in Servers : lines'[t] = lines[t] \/ lines'[t] = <<>>,
         \A t \in Servers : (nextId'[t] = nextId[t] /\ asked'[t] = asked[t]) \/ (nextId'[t] = 1 /\ asked'[t] = 0),
         call' = call \/ call' = NoCall
  PROVE  IdentityInv'
<1>1. \A t \in Servers : nextId'[t] = asked'[t] + 1
  BY DEF IdentityInv
<1>2. \A t \in Servers : \A request \in told'[t] : request.of = Identity(t, request.id)
  BY DEF IdentityInv
<1>3. LinesNamed'
  <2> SUFFICES ASSUME NEW t \in Servers, NEW i \in 1 .. Len(lines'[t]) PROVE Named(t, lines'[t][i])
    BY DEF LinesNamed, Named
  <2>1. lines'[t] = lines[t]
    OBVIOUS
  <2> QED BY <2>1 DEF IdentityInv, LinesNamed
<1>4. (call # NoCall => call.of = Identity(call.server, call.id))'
  BY DEF IdentityInv, Identity
<1>5. OwnResponse'
  BY NoCallOf DEF IdentityInv, OwnResponse
<1> QED BY <1>1, <1>2, <1>3, <1>4, <1>5 DEF IdentityInv

(* A new request is the next one of its server in number and in id. *)
LEMMA RequestsIdentity ==
  ASSUME SupervisorInv, IdentityInv, NEW s \in Servers, NEW method, NEW running \in BOOLEAN,
         Requests(s, method, running), UNCHANGED lines
  PROVE  IdentityInv'
<1> DEFINE of == Identity(s, asked[s] + 1)
           request == [id |-> nextId[s], of |-> of]
<1>1. /\ nextId' = [nextId EXCEPT ![s] = @ + 1] /\ asked' = [asked EXCEPT ![s] = @ + 1]
      /\ told' = IF running THEN [told EXCEPT ![s] = @ \cup {request}] ELSE told
      /\ call' = [server |-> s, id |-> nextId[s], of |-> of, method |-> method,
                  slot |-> IF running THEN Empty ELSE Broken]
  BY DEF Requests, Allocated
<1>2. of = Identity(s, nextId[s]) /\ request.id = nextId[s] /\ request.of = of
  BY DEF IdentityInv
<1>3. call'.of = Identity(call'.server, call'.id) /\ call'.slot \in {Empty, Broken}
  BY <1>1, <1>2
<1>4. nextId \in [Servers -> Nat \ {0}] /\ asked \in [Servers -> Nat] /\ told \in [Servers -> SUBSET RequestLines]
  BY DEF SupervisorInv, ClientTypes
<1>5. \A t \in Servers : nextId'[t] = asked'[t] + 1
  BY <1>1, <1>4 DEF IdentityInv
<1>6. \A t \in Servers : told'[t] \subseteq told[t] \/ (t = s /\ told'[t] \subseteq told[t] \cup {request})
  BY <1>1, <1>4
<1> HIDE DEF of, request
<1>7. \A t \in Servers : \A r \in told'[t] : r.of = Identity(t, r.id)
  BY <1>2, <1>6 DEF IdentityInv
<1>8. LinesNamed'
  BY DEF IdentityInv, LinesNamed
<1>9. OwnResponse'
  BY <1>3 DEF OwnResponse
<1> QED BY <1>3, <1>5, <1>7, <1>8, <1>9 DEF IdentityInv

(* A server writes a line more. *)
LEMMA WritesIdentity ==
  ASSUME SupervisorInv, IdentityInv, NEW s \in Servers, NEW line, Writes(s, line), Named(s, line),
         \A t \in Servers : told'[t] \subseteq told[t], UNCHANGED <<nextId, asked, call>>
  PROVE  IdentityInv'
<1>1. lines' = [lines EXCEPT ![s] = Append(@, line)] /\ lines \in [Servers -> Seq(Written)]
  BY DEF Writes, SupervisorInv, ClientTypes
<1>2. LinesNamed'
  <2> SUFFICES ASSUME NEW t \in Servers, NEW i \in 1 .. Len(lines'[t]) PROVE Named(t, lines'[t][i])
    BY DEF LinesNamed, Named
  <2>1. CASE t = s
    <3>1. lines'[s] = Append(lines[s], line) /\ lines[s] \in Seq(Written)
      BY <1>1
    <3>2. Len(lines'[s]) = Len(lines[s]) + 1 /\ lines'[s][Len(lines[s]) + 1] = line
      BY <3>1
    <3>3. \A j \in 1 .. Len(lines[s]) : lines'[s][j] = lines[s][j]
      BY <3>1
    <3>4. i \in 1 .. Len(lines[s]) \/ i = Len(lines[s]) + 1
      BY <2>1, <3>1, <3>2
    <3> QED BY <2>1, <3>2, <3>3, <3>4 DEF IdentityInv, LinesNamed
  <2>2. CASE t # s
    BY <1>1, <2>2 DEF IdentityInv, LinesNamed
  <2> QED BY <2>1, <2>2
<1>3. \A t \in Servers : \A request \in told'[t] : request.of = Identity(t, request.id)
  BY DEF IdentityInv
<1> QED BY <1>2, <1>3 DEF IdentityInv, OwnResponse

(* The reader thread matches by id, and so by identity. *)
LEMMA ReadsIdentity ==
  ASSUME SupervisorInv, IdentityInv, NEW s \in Servers, ReadsLine(s)
  PROVE  IdentityInv'
<1> DEFINE line == Head(lines[s])
<1>1. /\ lines[s] # <<>> /\ lines' = [lines EXCEPT ![s] = Tail(@)]
      /\ UNCHANGED <<told, nextId, asked>>
  BY DEF ReadsLine, Reads, Take
<1>2. lines \in [Servers -> Seq(Written)] /\ lines[s] \in Seq(Written)
  BY DEF SupervisorInv, ClientTypes
<1>3. line = lines[s][1] /\ 1 \in 1 .. Len(lines[s]) /\ line \in Written
  BY <1>1, <1>2
<1>4. Named(s, line)
  BY <1>3 DEF IdentityInv, LinesNamed
<1>5. line.kind \in {"response", "note", "ask", "junk"}
  BY <1>3 DEF Written, Lines
<1>6. \/ call' = call
      \/ /\ IsResponse(line) /\ call.server = s /\ call.id = line.id
         /\ call' = [call EXCEPT !.slot = line]
  BY <1>5 DEF ReadsLine, Reads, IsResponse
<1>7. LinesNamed'
  <2> SUFFICES ASSUME NEW t \in Servers, NEW i \in 1 .. Len(lines'[t]) PROVE Named(t, lines'[t][i])
    BY DEF LinesNamed, Named
  <2>1. CASE t = s
    <3>1. lines'[s] = Tail(lines[s])
      BY <1>1, <1>2
    <3>2. i + 1 \in 1 .. Len(lines[s]) /\ lines'[s][i] = lines[s][i + 1]
      BY <1>1, <1>2, <2>1, <3>1
    <3> QED BY <2>1, <3>2 DEF IdentityInv, LinesNamed
  <2>2. CASE t # s
    BY <1>1, <1>2, <2>2 DEF IdentityInv, LinesNamed
  <2> QED BY <2>1, <2>2
<1>8. \A t \in Servers : nextId'[t] = asked'[t] + 1
  BY <1>1 DEF IdentityInv
<1>9. \A t \in Servers : \A request \in told'[t] : request.of = Identity(t, request.id)
  BY <1>1 DEF IdentityInv
<1>10. CASE call' = call
  BY <1>7, <1>8, <1>9, <1>10 DEF IdentityInv, OwnResponse
<1>11. CASE /\ IsResponse(line) /\ call.server = s /\ call.id = line.id
            /\ call' = [call EXCEPT !.slot = line]
  <2> HIDE DEF line
  <2>1. call \in [server : Servers \cup {None}, id : Nat, of : Identities, method : Methods \cup {"none"}, slot : Lines]
    BY DEF SupervisorInv, ClientTypes
  <2>2. call # NoCall
    BY <1>11, NoCallOf
  <2>3. call'.slot = line /\ UNCHANGED <<call.server, call.id, call.of>>
    BY <1>11, <2>1
  <2>4. call.of = Identity(s, line.id) /\ line.of = Identity(s, line.id) /\ line.kind = "response"
    BY <1>4, <1>11, <2>2 DEF IdentityInv, Named, IsResponse
  <2>5. OwnResponse'
    BY <2>3, <2>4 DEF OwnResponse
  <2>6. (call # NoCall => call.of = Identity(call.server, call.id))'
    BY <1>11, <2>3, <2>4
  <2> QED BY <1>7, <1>8, <1>9, <2>5, <2>6 DEF IdentityInv
<1> QED BY <1>6, <1>10, <1>11

(* A server answers the requests that it was told. *)
LEMMA ChildIdentity ==
  ASSUME SupervisorInv, IdentityInv, NEW s \in Servers, Child(s)
  PROVE  IdentityInv'
<1>0. told \in [Servers -> SUBSET RequestLines]
  BY DEF SupervisorInv, ClientTypes
<1>1. CASE Serves(s)
  <2>1. PICK request \in told[s], what \in Answers :
            /\ Writes(s, Response(request, what))
            /\ told' = [told EXCEPT ![s] = @ \ {request}]
    BY <1>1 DEF Serves, Responds
  <2>2. Named(s, Response(request, what))
    BY DEF Named, Response, Line, IdentityInv
  <2>3. \A t \in Servers : told'[t] \subseteq told[t]
    BY <1>0, <2>1
  <2>4. UNCHANGED <<nextId, asked, call>>
    BY <1>1 DEF Serves, Responds
  <2> QED BY <2>1, <2>2, <2>3, <2>4, WritesIdentity
<1>2. CASE Dies(s)
  <2>1. /\ told' = [told EXCEPT ![s] = {}]
        /\ UNCHANGED <<lines, nextId, asked, call>>
    BY <1>2 DEF Dies
  <2> QED BY <1>0, <2>1, KeepsIdentity
<1>3. CASE Says(s)
  <2>1. PICK what : Writes(s, Note(said[s].note + 1, what))
    BY <1>3 DEF Says
  <2>2. Named(s, Note(said[s].note + 1, what))
    BY DEF Named, Note, Line
  <2> QED BY <1>3, <2>1, <2>2, WritesIdentity DEF Says
<1>4. CASE AsksApproval(s)
  <2>1. PICK i \in AskIds : Writes(s, Ask(i))
    BY <1>4 DEF AsksApproval
  <2>2. Named(s, Ask(i))
    BY DEF Named, Ask, Line
  <2> QED BY <1>4, <2>1, <2>2, WritesIdentity DEF AsksApproval
<1>5. CASE Garbles(s)
  <2>1. Named(s, Junk)
    BY DEF Named, Junk, Line
  <2> QED BY <1>5, <2>1, WritesIdentity DEF Garbles
<1> QED BY <1>1, <1>2, <1>3, <1>4, <1>5 DEF Child

(* The end of some clients. *)
LEMMA ClosesIdentity ==
  ASSUME SupervisorInv, IdentityInv, NEW ss \in SUBSET Servers, Closes(ss), call' = call \/ call' = NoCall
  PROVE  IdentityInv'
<1>1. \A t \in Servers : told'[t] = {} \/ told'[t] = told[t]
  BY DEF Closes
<1>2. \A t \in Servers : lines'[t] = lines[t] \/ lines'[t] = <<>>
  BY DEF Closes
<1>3. \A t \in Servers : (nextId'[t] = nextId[t] /\ asked'[t] = asked[t]) \/ (nextId'[t] = 1 /\ asked'[t] = 0)
  BY DEF Closes
<1> QED BY <1>1, <1>2, <1>3, KeepsIdentity

(* A request of the bootstrap ends, another one may follow. *)
LEMMA BootsIdentity ==
  ASSUME SupervisorInv, IdentityInv, Boots
  PROVE  IdentityInv'
<1>1. call.server \in Servers
  BY CallOf DEF Boots
<1>2. PICK outcome \in Outcomes :
        LET next == Following(call.method, outcome)
        IN CASE next = "failed" -> BootFails(call.server)
             [] next = "done"   -> Booted(call.server)
             [] OTHER           -> Continues(call.server, next)
  BY DEF Boots
<1>3. CASE Following(call.method, outcome) = "failed"
  <2>1. BootFails(call.server)
    BY <1>2, <1>3
  <2>2. Closes({call.server}) /\ call' = NoCall
    BY <2>1 DEF BootFails
  <2> QED BY <1>1, <2>2, ClosesIdentity
<1>4. CASE Following(call.method, outcome) = "done"
  <2>1. Booted(call.server)
    BY <1>2, <1>4
  <2>2. call' = NoCall /\ UNCHANGED <<told, lines, nextId, asked>>
    BY <2>1 DEF Booted, Returns
  <2> QED BY <2>2, KeepsIdentity
<1>5. CASE Following(call.method, outcome) \notin {"failed", "done"}
  <2>1. Continues(call.server, Following(call.method, outcome))
    BY <1>2, <1>5
  <2>2. /\ Requests(call.server, Following(call.method, outcome), proc[call.server] = "runs")
        /\ UNCHANGED lines
    BY <2>1 DEF Continues
  <2>3. (proc[call.server] = "runs") \in BOOLEAN
    OBVIOUS
  <2> QED BY <1>1, <2>2, <2>3, RequestsIdentity
<1> QED BY <1>3, <1>4, <1>5

(* The steps of the main thread. *)
LEMMA ServiceIdentity ==
  ASSUME SupervisorInv, IdentityInv, Service
  PROVE  IdentityInv'
<1>1. CASE Launch
  <2>1. UNCHANGED lines
    BY <1>1 DEF Launch
  <2>2. CASE \E s \in Servers : Requests(s, "initialize", TRUE)
    BY <2>1, <2>2, RequestsIdentity
  <2>3. CASE UNCHANGED <<nextId, asked, told, call>>
    BY <2>1, <2>3, KeepsIdentity
  <2> QED BY <1>1, <2>2, <2>3 DEF Launch
<1>2. CASE Delivers
  <2>1. CASE UNCHANGED rpcVars
    BY <2>1, KeepsIdentity DEF rpcVars
  <2>2. CASE Requests(codex, "turn", proc[codex] = "runs") /\ UNCHANGED lines
    <3>1. codex \in Servers
      BY <1>2 DEF Delivers, SupervisorInv, CallInv, SupervisorTypes
    <3>2. (proc[codex] = "runs") \in BOOLEAN
      OBVIOUS
    <3> QED BY <2>2, <3>1, <3>2, RequestsIdentity
  <2> QED BY <1>2, <2>1, <2>2 DEF Delivers
<1>3. CASE DeliveryEnds
  <2>1. call' = NoCall /\ UNCHANGED <<told, lines, nextId, asked>>
    BY <1>3 DEF DeliveryEnds, Returns
  <2> QED BY <2>1, KeepsIdentity
<1>4. CASE NoticesDeath
  <2>1. codex \in Servers /\ Closes({codex}) /\ UNCHANGED call
    BY <1>4 DEF NoticesDeath, SupervisorInv, SupervisorTypes
  <2> QED BY <2>1, ClosesIdentity
<1>5. CASE Maintains \/ HandlesNote \/ StoresAsks
  <2>1. UNCHANGED <<told, lines, nextId, asked, call>>
    BY <1>5 DEF Maintains, HandlesNote, StoresAsks, rpcVars
  <2> QED BY <2>1, KeepsIdentity
<1> QED BY <1>1, <1>2, <1>3, <1>4, <1>5, BootsIdentity DEF Service

(* The process ends. *)
LEMMA EndsIdentity ==
  ASSUME SupervisorInv, IdentityInv, Ends
  PROVE  IdentityInv'
<1>1. Open \in SUBSET Servers /\ Closes(Open) /\ call' = NoCall
  BY DEF Ends, Open
<1> QED BY <1>1, ClosesIdentity

LEMMA IdentityStep == SupervisorInv /\ IdentityInv /\ [Next]_vars => IdentityInv'
<1> SUFFICES ASSUME SupervisorInv, IdentityInv, [Next]_vars PROVE IdentityInv'
  OBVIOUS
<1>1. CASE ServiceStarts \/ Tick \/ Message
  <2>1. UNCHANGED <<told, lines, nextId, asked, call>>
    BY <1>1 DEF ServiceStarts, Tick, Message, rpcVars
  <2> QED BY <2>1, KeepsIdentity
<1>2. CASE Crash
  BY <1>2, EndsIdentity DEF Crash
<1>3. CASE Restart
  <2>1. {codex} \ {None} \in SUBSET Servers /\ Closes({codex} \ {None}) /\ UNCHANGED call
    BY <1>3 DEF Restart, SupervisorInv, SupervisorTypes
  <2> QED BY <2>1, ClosesIdentity
<1>4. CASE \E i \in AskIds, v \in {"approved", "denied"} : Reply(i, v)
  <2>1. Ends \/ UNCHANGED rpcVars
    BY <1>4 DEF Reply
  <2>2. CASE UNCHANGED rpcVars
    BY <2>2, KeepsIdentity DEF rpcVars
  <2> QED BY <2>1, <2>2, EndsIdentity
<1>5. CASE Pump
  <2>1. UNCHANGED <<told, lines, nextId, asked, call>>
    BY <1>5 DEF Pump, PumpLooks, PumpPolls, PumpPuts, rpcVars
  <2> QED BY <2>1, KeepsIdentity
<1>6. CASE \E s \in Servers : ReadsLine(s) \/ Child(s)
  BY <1>6, ReadsIdentity, ChildIdentity
<1>7. CASE UNCHANGED vars
  <2>1. UNCHANGED <<told, lines, nextId, asked, call>>
    BY <1>7 DEF vars, rpcVars
  <2> QED BY <2>1, KeepsIdentity
<1> QED BY <1>1, <1>2, <1>3, <1>4, <1>5, <1>6, <1>7, ServiceIdentity DEF Next, User

LEMMA IdentityInit == Init => IdentityInv
<1> SUFFICES ASSUME Init PROVE IdentityInv
  OBVIOUS
<1>1. \A s \in Servers : nextId[s] = 1 /\ asked[s] = 0 /\ told[s] = {} /\ lines[s] = <<>>
  BY DEF Init, RpcInit
<1>2. LinesNamed
  BY <1>1 DEF LinesNamed
<1>3. call = NoCall
  BY DEF Init, RpcInit
<1> QED BY <1>1, <1>2, <1>3, NoCallOf DEF IdentityInv, OwnResponse

(* JsonRpcClient.request: a caller is given the answer to the very request *)
(* it made, although the reader thread knows ids only and an answer may    *)
(* come after its request has timed out: an id names one request in the    *)
(* life of a client, and the lines of another client never reach it.       *)
THEOREM OwnResponses == Spec => []OwnResponse
<1>1. Init => SupervisorInv /\ IdentityInv
  BY SupervisorInit, IdentityInit
<1>2. SupervisorInv /\ IdentityInv /\ [Next]_vars => (SupervisorInv /\ IdentityInv)'
  BY SupervisorStep, IdentityStep
<1>3. IdentityInv => OwnResponse
  BY DEF IdentityInv
<1> QED BY <1>1, <1>2, <1>3, PTL DEF Spec

-----------------------------------------------------------------------------
(* The notifications on their way: handled, queued, in the pump's hand, in *)
(* the client's queue, in the lines that are not yet read.                 *)

NoteRecords == [server : Servers, id : Nat \ {0}, what : LineWords]

First == [server |-> None, id |-> 0]

(* n may follow last. *)
Follows(last, n) == IF n.server = last.server THEN n.id = last.id + 1 ELSE n.server > last.server /\ n.id = 1

(* seq continues what ended with last. *)
Chain(last, seq) ==
    \A i \in 1 .. Len(seq) : Follows(IF i = 1 THEN last ELSE seq[i - 1], seq[i])

LastOf(seq, before) == IF seq = <<>> THEN before ELSE seq[Len(seq)]

LastTaken  == LastOf(taken, First)
LastQueued == LastOf(queue, LastTaken)
LastPolled == IF held = NoNote THEN LastQueued ELSE held

(* How many notifications of s the pump has taken from its client. *)
Polled(s) == IF LastPolled.server = s THEN LastPolled.id ELSE 0

(* The servers from which the pump may still take one. *)
Live == {s \in Servers : proc[s] = "off" \/ s \in {pumped, looked, codex, call.server}}

(* What waits in the client of s comes next ... *)
NotesWait(s) == \A i \in 1 .. Len(notes[s]) : notes[s][i].id = Polled(s) + i

(* The notifications among the lines of seq are those from read + 1 to n,  *)
(* in order.                                                               *)
Holds(seq, read, n) ==
    /\ read <= n
    /\ \A j \in 1 .. Len(seq) : seq[j].kind = "note" => seq[j].id \in read + 1 .. n
    /\ \A j, k \in 1 .. Len(seq) :
          j < k /\ seq[j].kind = "note" /\ seq[k].kind = "note" => seq[j].id < seq[k].id
    /\ \A m \in read + 1 .. n : \E j \in 1 .. Len(seq) : seq[j].kind = "note" /\ seq[j].id = m

(* ... and what it has not read after that. *)
LinesWait(s) == Holds(lines[s], Polled(s) + Len(notes[s]), said[s].note)

NoteTypes ==
    /\ notes \in [Servers -> Seq(Lines)]
    /\ taken \in Seq(NoteRecords) /\ queue \in Seq(NoteRecords)
    /\ held \in NoteRecords \cup {NoNote}
    /\ Len(queue) <= MaxQueue

PumpInHand ==
    /\ \A s \in {pumped, looked, codex, call.server, LastTaken.server, LastPolled.server} \ {None} : proc[s] # "off"
    /\ looked # None => held = NoNote /\ notes[looked] # <<>>
    /\ \A s \in {looked, pumped, codex, call.server} \ {None} : s >= LastPolled.server
    /\ \A s \in {pumped, codex, call.server} \ {None} : s >= looked
    /\ \A s \in {codex, call.server} \ {None} : s >= pumped
    /\ \A i \in 1 .. Len(queue) : proc[queue[i].server] # "off"
    /\ \A s \in Servers : proc[s] = "off" => notes[s] = <<>>

NotesInv ==
    /\ NoteTypes
    /\ Chain(First, taken) /\ Chain(LastTaken, queue) /\ (held # NoNote => Follows(LastQueued, held))
    /\ PumpInHand
    /\ \A s \in Live : NotesWait(s) /\ (reader[s] \in {"off", "reads"} => LinesWait(s))

-----------------------------------------------------------------------------
(* Sequences of notifications and of lines.                                *)

LEMMA ChainTail ==
  ASSUME NEW last, NEW seq \in Seq(NoteRecords), seq # <<>>, Chain(last, seq)
  PROVE  /\ Follows(last, Head(seq)) /\ Chain(Head(seq), Tail(seq))
         /\ LastOf(Tail(seq), Head(seq)) = LastOf(seq, last)
<1>1. Len(seq) \in Nat \ {0} /\ Head(seq) = seq[1] /\ Tail(seq) \in Seq(NoteRecords)
      /\ Len(Tail(seq)) = Len(seq) - 1 /\ \A i \in 1 .. Len(seq) - 1 : Tail(seq)[i] = seq[i + 1]
  OBVIOUS
<1>2. Follows(last, Head(seq))
  BY <1>1 DEF Chain
<1>3. ASSUME NEW i \in 1 .. Len(Tail(seq))
      PROVE  Follows(IF i = 1 THEN Head(seq) ELSE Tail(seq)[i - 1], Tail(seq)[i])
  <2>1. i + 1 \in 1 .. Len(seq) /\ i + 1 # 1 /\ (i + 1) - 1 = i
    BY <1>1, <1>3
  <2>2. Follows(seq[i], seq[i + 1])
    BY <2>1 DEF Chain
  <2>3. Tail(seq)[i] = seq[i + 1] /\ seq[i] = IF i = 1 THEN Head(seq) ELSE Tail(seq)[i - 1]
    BY <1>1, <1>3
  <2> QED BY <2>2, <2>3
<1>4. LastOf(Tail(seq), Head(seq)) = LastOf(seq, last)
  <2> DEFINE tail == Tail(seq)
             len == Len(seq)
  <2>1. /\ len \in Nat \ {0} /\ tail \in Seq(NoteRecords) /\ Len(tail) = len - 1
        /\ \A i \in 1 .. len - 1 : tail[i] = seq[i + 1]
    BY <1>1
  <2> HIDE DEF tail, len
  <2>2. CASE len = 1
    <3>1. Len(tail) = 0
      BY <2>1, <2>2
    <3>2. tail = <<>>
      BY <2>1, <3>1, EmptySeq
    <3>3. LastOf(tail, Head(seq)) = seq[len]
      BY <1>1, <2>2, <3>2 DEF LastOf
    <3> QED BY <3>3 DEF LastOf, tail, len
  <2>3. CASE len # 1
    <3>1. len - 1 \in 1 .. len - 1 /\ (len - 1) + 1 = len /\ Len(tail) # 0
      BY <2>1, <2>3
    <3>2. tail # <<>>
      BY <3>1, EmptySeq
    <3>3. tail[len - 1] = seq[(len - 1) + 1]
      BY <2>1, <3>1
    <3>4. LastOf(tail, Head(seq)) = seq[len]
      BY <2>1, <3>1, <3>2, <3>3 DEF LastOf
    <3> QED BY <3>4 DEF LastOf, tail, len
  <2> QED BY <2>2, <2>3
<1> QED BY <1>2, <1>3, <1>4 DEF Chain

LEMMA ChainAppend ==
  ASSUME NEW last, NEW seq \in Seq(NoteRecords), NEW n \in NoteRecords,
         Chain(last, seq), Follows(LastOf(seq, last), n)
  PROVE  Chain(last, Append(seq, n)) /\ LastOf(Append(seq, n), last) = n
<1>1. Len(seq) \in Nat /\ Len(Append(seq, n)) = Len(seq) + 1 /\ Append(seq, n) # <<>>
      /\ Append(seq, n)[Len(seq) + 1] = n /\ \A i \in 1 .. Len(seq) : Append(seq, n)[i] = seq[i]
  OBVIOUS
<1>2. ASSUME NEW i \in 1 .. Len(seq) + 1
      PROVE  Follows(IF i = 1 THEN last ELSE Append(seq, n)[i - 1], Append(seq, n)[i])
  <2>1. CASE i \in 1 .. Len(seq)
    BY <1>1, <2>1 DEF Chain
  <2>2. CASE i = Len(seq) + 1
    <3>1. LastOf(seq, last) = IF i = 1 THEN last ELSE Append(seq, n)[i - 1]
      BY <1>1, <2>2 DEF LastOf
    <3> QED BY <1>1, <2>2, <3>1
  <2> QED BY <1>1, <1>2, <2>1, <2>2
<1> QED BY <1>1, <1>2 DEF Chain, LastOf

LEMMA HoldsTail ==
  ASSUME NEW seq \in Seq(Written), seq # <<>>, NEW read \in Nat, NEW n \in Nat, Holds(seq, read, n)
  PROVE  /\ Head(seq).kind # "note" => Holds(Tail(seq), read, n)
         /\ Head(seq).kind = "note" => Head(seq).id = read + 1 /\ Holds(Tail(seq), read + 1, n)
<1>1. Len(seq) \in Nat \ {0} /\ Head(seq) = seq[1] /\ Tail(seq) \in Seq(Written)
      /\ Len(Tail(seq)) = Len(seq) - 1 /\ \A i \in 1 .. Len(seq) - 1 : Tail(seq)[i] = seq[i + 1]
  OBVIOUS
<1>2. \A j \in 1 .. Len(seq) : seq[j].id \in Nat
  BY DEF Written, Lines
<1>3. \A j \in 1 .. Len(seq) - 1 : j + 1 \in 1 .. Len(seq)
  BY <1>1
<1>4. \A j \in 1 .. Len(seq) : j = 1 \/ j - 1 \in 1 .. Len(seq) - 1
  BY <1>1
<1>5. ASSUME NEW m \in read + 1 .. n, ~(seq[1].kind = "note" /\ seq[1].id = m)
      PROVE  \E j \in 1 .. Len(Tail(seq)) : Tail(seq)[j].kind = "note" /\ Tail(seq)[j].id = m
  <2>1. PICK j \in 1 .. Len(seq) : seq[j].kind = "note" /\ seq[j].id = m
    BY DEF Holds
  <2>2. j - 1 \in 1 .. Len(seq) - 1 /\ (j - 1) + 1 = j
    BY <1>4, <1>5, <2>1
  <2>3. Tail(seq)[j - 1] = seq[j]
    BY <1>1, <2>2
  <2> QED BY <1>1, <2>1, <2>2, <2>3
<1>6. \A j, k \in 1 .. Len(Tail(seq)) :
        j < k /\ Tail(seq)[j].kind = "note" /\ Tail(seq)[k].kind = "note" => Tail(seq)[j].id < Tail(seq)[k].id
  <2> SUFFICES ASSUME NEW j \in 1 .. Len(seq) - 1, NEW k \in 1 .. Len(seq) - 1,
                      j < k, seq[j + 1].kind = "note", seq[k + 1].kind = "note"
               PROVE  seq[j + 1].id < seq[k + 1].id
    BY <1>1
  <2>1. j + 1 < k + 1
    OBVIOUS
  <2> QED BY <1>3, <2>1 DEF Holds
<1>7. CASE seq[1].kind # "note"
  <2>1. \A j \in 1 .. Len(Tail(seq)) : Tail(seq)[j].kind = "note" => Tail(seq)[j].id \in read + 1 .. n
    BY <1>1, <1>3 DEF Holds
  <2> QED BY <1>1, <1>5, <1>6, <1>7, <2>1 DEF Holds
<1>8. CASE seq[1].kind = "note"
  <2>1. seq[1].id \in read + 1 .. n
    BY <1>1, <1>8 DEF Holds
  <2>2. \A k \in 1 .. Len(seq) : k # 1 /\ seq[k].kind = "note" => seq[1].id < seq[k].id
    <3> SUFFICES ASSUME NEW k \in 1 .. Len(seq), k # 1, seq[k].kind = "note" PROVE seq[1].id < seq[k].id
      OBVIOUS
    <3>1. 1 \in 1 .. Len(seq) /\ 1 < k
      BY <1>1
    <3> QED BY <1>8, <3>1 DEF Holds
  <2>3. seq[1].id = read + 1
    <3>1. PICK j \in 1 .. Len(seq) : seq[j].kind = "note" /\ seq[j].id = read + 1
      BY <2>1 DEF Holds
    <3> QED BY <1>2, <2>1, <2>2, <3>1
  <2>4. \A j \in 1 .. Len(Tail(seq)) : Tail(seq)[j].kind = "note" => Tail(seq)[j].id \in (read + 1) + 1 .. n
    <3> SUFFICES ASSUME NEW j \in 1 .. Len(seq) - 1, seq[j + 1].kind = "note"
                 PROVE  seq[j + 1].id \in (read + 1) + 1 .. n
      BY <1>1
    <3>1. seq[j + 1].id \in read + 1 .. n /\ seq[1].id < seq[j + 1].id
      BY <1>3, <2>2 DEF Holds
    <3> QED BY <1>2, <2>3, <3>1
  <2>5. read + 1 <= n /\ \A m \in (read + 1) + 1 .. n : m \in read + 1 .. n /\ m # seq[1].id
    BY <2>1, <2>3
  <2> QED BY <1>1, <1>5, <1>6, <1>8, <2>3, <2>4, <2>5 DEF Holds
<1> QED BY <1>1, <1>7, <1>8

LEMMA HoldsAppend ==
  ASSUME NEW seq \in Seq(Written), NEW line \in Written, NEW read \in Nat, NEW n \in Nat, Holds(seq, read, n)
  PROVE  /\ line.kind # "note" => Holds(Append(seq, line), read, n)
         /\ line.kind = "note" /\ line.id = n + 1 => Holds(Append(seq, line), read, n + 1)
<1> DEFINE new == Append(seq, line)
<1>1. Len(seq) \in Nat /\ Len(new) = Len(seq) + 1 /\ new[Len(seq) + 1] = line
      /\ \A i \in 1 .. Len(seq) : new[i] = seq[i]
  OBVIOUS
<1> HIDE DEF new
<1>2. \A j \in 1 .. Len(new) : j \in 1 .. Len(seq) \/ j = Len(seq) + 1
  BY <1>1
<1>3. \A j \in 1 .. Len(seq) : j \in 1 .. Len(new) /\ seq[j].id \in Nat
  BY <1>1 DEF Written, Lines
<1>4. CASE line.kind # "note"
  <2>1. \A j \in 1 .. Len(new) : new[j].kind = "note" => j \in 1 .. Len(seq) /\ new[j] = seq[j]
    BY <1>1, <1>2, <1>4
  <2>2. \A j, k \in 1 .. Len(new) : j < k /\ new[j].kind = "note" /\ new[k].kind = "note" => new[j].id < new[k].id
    BY <2>1 DEF Holds
  <2>3. \A m \in read + 1 .. n : \E j \in 1 .. Len(new) : new[j].kind = "note" /\ new[j].id = m
    BY <1>1, <1>3 DEF Holds
  <2> QED BY <1>4, <2>1, <2>2, <2>3 DEF Holds, new
<1>5. CASE line.kind = "note" /\ line.id = n + 1
  <2>1. \A j \in 1 .. Len(seq) : new[j].kind = "note" => new[j].id \in read + 1 .. n
    BY <1>1 DEF Holds
  <2>2. \A j \in 1 .. Len(new) : new[j].kind = "note" => new[j].id \in read + 1 .. n + 1
    BY <1>1, <1>2, <1>5, <2>1 DEF Holds
  <2>3. ASSUME NEW j \in 1 .. Len(new), NEW k \in 1 .. Len(new),
               j < k, new[j].kind = "note", new[k].kind = "note"
        PROVE  new[j].id < new[k].id
    <3>1. j \in 1 .. Len(seq)
      BY <1>1, <2>3
    <3>2. CASE k \in 1 .. Len(seq)
      BY <1>1, <2>3, <3>1, <3>2 DEF Holds
    <3>3. CASE k = Len(seq) + 1
      BY <1>1, <1>5, <2>1, <2>3, <3>1, <3>3
    <3> QED BY <1>2, <3>2, <3>3
  <2>4. ASSUME NEW m \in read + 1 .. n + 1
        PROVE  \E j \in 1 .. Len(new) : new[j].kind = "note" /\ new[j].id = m
    <3>1. CASE m = n + 1
      BY <1>1, <1>5, <3>1
    <3>2. CASE m \in read + 1 .. n
      BY <1>1, <1>3, <3>2 DEF Holds
    <3> QED BY <3>1, <3>2
  <2>5. read <= n + 1
    BY DEF Holds
  <2> QED BY <1>5, <2>2, <2>3, <2>4, <2>5 DEF Holds, new
<1> QED BY <1>4, <1>5

-----------------------------------------------------------------------------
(* The steps.                                                              *)

LEMMA LastTypes ==
  ASSUME NoteTypes
  PROVE  /\ \A last \in {First, LastTaken, LastQueued, LastPolled} :
               last.server \in Servers \cup {None} /\ last.id \in Nat
         /\ \A s \in Servers : Polled(s) \in Nat
<1>1. ASSUME NEW seq \in Seq(NoteRecords) PROVE seq # <<>> => seq[Len(seq)] \in NoteRecords
  <2>1. seq # <<>> => Len(seq) \in 1 .. Len(seq)
    BY EmptySeq
  <2> QED BY <2>1
<1>2. First.server = None /\ First.id = 0 /\ \A n \in NoteRecords : n.server \in Servers /\ n.id \in Nat
  BY DEF First, NoteRecords
<1>3. LastTaken.server \in Servers \cup {None} /\ LastTaken.id \in Nat
  BY <1>1, <1>2 DEF LastTaken, LastOf, NoteTypes
<1>4. LastQueued.server \in Servers \cup {None} /\ LastQueued.id \in Nat
  BY <1>1, <1>2, <1>3 DEF LastQueued, LastOf, NoteTypes
<1>5. LastPolled.server \in Servers \cup {None} /\ LastPolled.id \in Nat
  BY <1>2, <1>4 DEF LastPolled, NoteTypes
<1>6. \A s \in Servers : Polled(s) \in Nat
  BY <1>5 DEF Polled
<1> QED BY <1>2, <1>3, <1>4, <1>5, <1>6

LEMMA QueuedServers ==
  ASSUME NoteTypes
  PROVE  \A i \in 1 .. Len(queue) : queue[i] \in NoteRecords /\ queue[i].server \in Servers
<1>1. \A i \in 1 .. Len(queue) : queue[i] \in NoteRecords
  BY DEF NoteTypes
<1> QED BY <1>1 DEF NoteRecords

(* A step of neither the pump nor the reader, nor of drain_codex_          *)
(* notifications: it may end the use of a server, and servers may write.   *)
LEMMA SameFlow ==
  ASSUME SupervisorInv, NotesInv, UNCHANGED <<notes, taken, queue, held, looked>>,
         {pumped', codex', call'.server} \subseteq {None, pumped, codex, call.server},
         \A s \in {codex', call'.server} \ {None} : s >= pumped',
         \A s \in Servers : proc'[s] = "off" <=> proc[s] = "off",
         \A s \in Servers :
             \/ reader'[s] \notin {"off", "reads"}
             \/ /\ reader'[s] = reader[s]
                /\ \A read \in Nat : Holds(lines[s], read, said[s].note) => Holds(lines'[s], read, said'[s].note)
  PROVE  NotesInv'
<1>1. NoteTypes'
  BY DEF NotesInv, NoteTypes
<1>2. /\ UNCHANGED <<LastTaken, LastQueued, LastPolled>>
      /\ \A s \in Servers : Polled(s)' = Polled(s)
  BY DEF LastTaken, LastQueued, LastPolled, Polled
<1>3. Chain(First, taken)' /\ Chain(LastTaken, queue)' /\ (held # NoNote => Follows(LastQueued, held))'
  BY <1>2 DEF NotesInv, Chain, Follows
<1>4. PumpInHand'
  <2>1. {pumped', looked', codex', call'.server, LastTaken'.server, LastPolled'.server} \ {None}
          \subseteq {pumped, looked, codex, call.server, LastTaken.server, LastPolled.server} \ {None}
    BY <1>2
  <2>2. {pumped, looked, codex, call.server, LastTaken.server, LastPolled.server} \ {None} \subseteq Servers
    BY LastTypes DEF NotesInv, SupervisorInv, SupervisorTypes, ClientTypes
  <2>3. \A s \in {pumped', looked', codex', call'.server, LastTaken'.server, LastPolled'.server} \ {None} : proc'[s] # "off"
    BY <2>1, <2>2 DEF NotesInv, PumpInHand
  <2>4. \A i \in 1 .. Len(queue) : proc'[queue[i].server] # "off"
    <3>1. \A i \in 1 .. Len(queue) : queue[i].server \in Servers
      BY QueuedServers DEF NotesInv
    <3> QED BY <3>1 DEF NotesInv, PumpInHand
  <2> QED BY <1>2, <2>3, <2>4 DEF NotesInv, PumpInHand
<1>5. ASSUME NEW s \in Live'
      PROVE  NotesWait(s)' /\ (reader'[s] \in {"off", "reads"} => LinesWait(s)')
  <2>1. s \in Live /\ s \in Servers
    BY NoCallOf DEF Live
  <2>2. NotesWait(s) /\ (reader[s] \in {"off", "reads"} => LinesWait(s))
    BY <2>1 DEF NotesInv
  <2>3. NotesWait(s)'
    BY <1>2, <2>1, <2>2 DEF NotesWait
  <2>4. Polled(s) + Len(notes[s]) \in Nat /\ Polled(s)' + Len(notes'[s]) = Polled(s) + Len(notes[s])
    <3>1. Polled(s) \in Nat
      BY <2>1, LastTypes DEF NotesInv
    <3>2. Len(notes[s]) \in Nat
      BY <2>1 DEF NotesInv, NoteTypes
    <3>3. Polled(s)' = Polled(s)
      BY <1>2, <2>1
    <3> QED BY <3>1, <3>2, <3>3
  <2>5. reader'[s] \in {"off", "reads"} => LinesWait(s)'
    BY <2>1, <2>2, <2>4 DEF LinesWait
  <2> QED BY <2>3, <2>5
<1> QED BY <1>1, <1>3, <1>4, <1>5 DEF NotesInv

(* ... of which the servers know nothing ... *)
LEMMA SameLines ==
  ASSUME SupervisorInv, NotesInv, UNCHANGED <<notes, taken, queue, held, looked>>,
         {pumped', codex', call'.server} \subseteq {None, pumped, codex, call.server},
         \A s \in {codex', call'.server} \ {None} : s >= pumped',
         UNCHANGED <<proc, reader, lines, said>>
  PROVE  NotesInv'
  BY SameFlow

(* ... or that ends the use of some of them ... *)
LEMMA ClosesFlow ==
  ASSUME SupervisorInv, NotesInv, UNCHANGED <<notes, taken, queue, held, looked, said>>,
         {pumped', codex', call'.server} \subseteq {None, pumped, codex, call.server},
         \A s \in {codex', call'.server} \ {None} : s >= pumped',
         NEW ss \in SUBSET Servers, Closes(ss), \A s \in ss : proc[s] # "off"
  PROVE  NotesInv'
<1>1. /\ \A s \in ss : proc'[s] = "dead" /\ reader'[s] = "closed"
      /\ \A s \in Servers \ ss : proc'[s] = proc[s] /\ reader'[s] = reader[s] /\ lines'[s] = lines[s]
  BY DEF Closes
<1> QED BY <1>1, SameFlow

(* ... or in which one writes.                                             *)
LEMMA WritesFlow ==
  ASSUME SupervisorInv, NotesInv, UNCHANGED <<notes, taken, queue, held, looked>>,
         UNCHANGED <<pumped, codex, call, proc, reader>>,
         NEW s \in Servers, NEW line \in Written, Writes(s, line),
         \A t \in Servers : t # s => said'[t] = said[t],
         \/ line.kind # "note" /\ said'[s].note = said[s].note
         \/ line.kind = "note" /\ line.id = said[s].note + 1 /\ said'[s].note = said[s].note + 1
  PROVE  NotesInv'
<1>1. lines'[s] = Append(lines[s], line) /\ \A t \in Servers : t # s => lines'[t] = lines[t]
  BY DEF Writes, SupervisorInv, ClientTypes
<1>2. lines[s] \in Seq(Written) /\ said[s].note \in Nat
  BY DEF SupervisorInv, SupervisorTypes, ClientTypes
<1>3. \A read \in Nat : Holds(lines[s], read, said[s].note) => Holds(lines'[s], read, said'[s].note)
  BY <1>1, <1>2, HoldsAppend
<1> QED BY <1>1, <1>3, SameFlow DEF NotesInv, PumpInHand

LEMMA BootsNotes == ASSUME SupervisorInv, NotesInv, Boots PROVE NotesInv'
<1>1. /\ call # NoCall /\ task \in Starters
      /\ UNCHANGED <<notes, looked, held, queue, taken, said>>
  BY DEF Boots
<1>2. call.method \in BootMethods /\ call.server \in Servers /\ proc[call.server] # "off"
  BY <1>1 DEF SupervisorInv, CallInv
<1>3. \/ BootFails(call.server) \/ Booted(call.server)
      \/ \E method : Continues(call.server, method)
  <2>1. PICK outcome \in Outcomes :
          LET next == Following(call.method, outcome)
          IN CASE next = "failed" -> BootFails(call.server)
               [] next = "done"   -> Booted(call.server)
               [] OTHER           -> Continues(call.server, next)
    BY DEF Boots
  <2> QED BY <2>1
<1>4. CASE BootFails(call.server)
  <2>1. codex' = None /\ pumped' = None /\ call' = NoCall /\ Closes({call.server})
    BY <1>4 DEF BootFails, NotBooted
  <2> QED BY <1>1, <1>2, <2>1, ClosesFlow, NoCallOf
<1>5. CASE Booted(call.server)
  <2>1. /\ codex' = call.server /\ pumped' \in {pumped, call.server} /\ call' = NoCall
        /\ UNCHANGED <<proc, reader, lines>>
    BY <1>5 DEF Booted, Returns
  <2>2. call.server >= pumped /\ call.server >= call.server
    BY <1>2, NoCallOf DEF NotesInv, PumpInHand, Servers
  <2> QED BY <1>1, <2>1, <2>2, SameLines, NoCallOf
<1>6. CASE \E method : Continues(call.server, method)
  <2>1. UNCHANGED <<codex, pumped, proc, reader, lines>> /\ call'.server = call.server
    BY <1>6 DEF Continues, supVars, Requests
  <2> QED BY <1>1, <2>1, SameLines DEF NotesInv, PumpInHand
<1> QED BY <1>3, <1>4, <1>5, <1>6

LEMMA DeliveryNotes == ASSUME SupervisorInv, NotesInv, Delivers \/ DeliveryEnds PROVE NotesInv'
<1>1. UNCHANGED <<notes, taken, queue, held, looked, codex, proc, reader, lines, said>>
  BY DEF Delivers, DeliveryEnds, rpcVars
<1>2. pumped' \in {pumped, codex}
  BY DEF Delivers, DeliveryEnds, MessageDone
<1>3. call'.server \in {call.server, codex, None}
  BY NoCallOf DEF Delivers, DeliveryEnds, Requests, Returns, rpcVars
<1>4. \A s \in {codex', call'.server} \ {None} : s >= pumped'
  <2>1. codex \in Servers /\ codex # None /\ codex >= codex /\ codex >= pumped
    BY NoCallOf DEF Delivers, DeliveryEnds, NotesInv, PumpInHand, Servers, SupervisorInv, CallInv, SupervisorTypes
  <2>2. pumped' # pumped => call'.server = None
    BY NoCallOf DEF Delivers, DeliveryEnds, MessageDone, Returns, rpcVars
  <2>3. call'.server \in {codex, None}
    BY NoCallOf DEF Delivers, DeliveryEnds, Requests, Returns, rpcVars
  <2> QED BY <1>1, <1>2, <2>1, <2>2, <2>3
<1> QED BY <1>1, <1>2, <1>3, <1>4, SameLines

LEMMA EndOfUseNotes == ASSUME SupervisorInv, NotesInv, NoticesDeath \/ Restart PROVE NotesInv'
<1>1. /\ UNCHANGED <<notes, taken, queue, held, looked, said, call>>
      /\ {pumped', codex'} \subseteq {None, pumped, codex}
      /\ Closes({codex} \ {None})
  <2>1. CASE NoticesDeath
    <3>1. {codex} = {codex} \ {None}
      BY <2>1 DEF NoticesDeath
    <3> QED BY <2>1, <3>1 DEF NoticesDeath
  <2>2. CASE Restart
    BY <2>2 DEF Restart, pumpVars
  <2> QED BY <2>1, <2>2
<1>2. {codex} \ {None} \in SUBSET Servers /\ \A s \in {codex} \ {None} : proc[s] # "off"
  BY DEF SupervisorInv, CallInv, SupervisorTypes
<1>3. \A s \in {codex', call'.server} \ {None} : s >= pumped'
  <2>1. \A s \in {codex, call.server} \ {None} : s >= pumped /\ s >= None
    BY DEF NotesInv, PumpInHand, SupervisorInv, SupervisorTypes, ClientTypes, Servers, None
  <2> QED BY <1>1, <2>1 DEF NoticesDeath, Restart, pumpVars
<1> QED BY <1>1, <1>2, <1>3, ClosesFlow

LEMMA OtherNotes ==
  ASSUME SupervisorInv, NotesInv, Maintains \/ StoresAsks \/ Message \/ ServiceStarts \/ Tick
  PROVE  NotesInv'
<1>1. UNCHANGED <<notes, taken, queue, held, looked, pumped, codex, call, proc, reader, lines, said>>
  BY DEF Maintains, StoresAsks, Message, ServiceStarts, Tick, rpcVars, pumpVars, supVars
<1> QED BY <1>1, SameLines DEF NotesInv, PumpInHand

LEMMA ChildNotes == ASSUME SupervisorInv, NotesInv, NEW s \in Servers, Child(s) PROVE NotesInv'
<1>1. CASE Serves(s)
  <2>1. PICK id \in told[s], what \in Answers : Writes(s, Response(id, what))
    BY <1>1 DEF Serves, Responds
  <2>2. Response(id, what) \in Written /\ Response(id, what).kind # "note"
    BY LineTypes DEF SupervisorInv, ClientTypes, LineWords, Response, Line
  <2>3. UNCHANGED <<notes, taken, queue, held, looked, pumped, codex, call, proc, reader, said>>
    BY <1>1 DEF Serves, Responds, supVars, pumpVars
  <2> QED BY <2>1, <2>2, <2>3, WritesFlow
<1>2. CASE Dies(s) /\ Spend("die") /\ UNCHANGED <<supVars, pumpVars, appVars, taken, said>>
  <2>1. /\ UNCHANGED <<notes, taken, queue, held, looked, pumped, codex, call, reader, lines, said>>
        /\ proc[s] = "runs" /\ proc' = [proc EXCEPT ![s] = "dead"]
    BY <1>2 DEF Dies, supVars, pumpVars
  <2>2. \A t \in Servers : proc'[t] = "off" <=> proc[t] = "off"
    BY <2>1 DEF SupervisorInv, ClientTypes
  <2> QED BY <2>1, <2>2, SameFlow DEF NotesInv, PumpInHand
<1>3. CASE Says(s)
  <2>1. PICK what \in {"text", "account"} : Writes(s, Note(said[s].note + 1, what))
    BY <1>3 DEF Says
  <2>2. said[s].note + 1 \in Nat
    BY DEF SupervisorInv, SupervisorTypes
  <2>3. /\ Note(said[s].note + 1, what) \in Written
        /\ Note(said[s].note + 1, what).kind = "note" /\ Note(said[s].note + 1, what).id = said[s].note + 1
    BY <2>2, LineTypes DEF LineWords, Note, Line
  <2>4. /\ UNCHANGED <<notes, taken, queue, held, looked, pumped, codex, call, proc, reader>>
        /\ said' = [said EXCEPT ![s].note = @ + 1]
    BY <1>3 DEF Says, supVars, pumpVars
  <2>5. said'[s].note = said[s].note + 1 /\ \A t \in Servers : t # s => said'[t] = said[t]
    BY <2>4 DEF SupervisorInv, SupervisorTypes
  <2> QED BY <2>1, <2>3, <2>4, <2>5, WritesFlow
<1>4. CASE AsksApproval(s)
  <2>1. PICK i \in AskIds : Writes(s, Ask(i)) /\ said' = [said EXCEPT ![s].ask = @ \cup {i}]
    BY <1>4 DEF AsksApproval
  <2>2. Ask(i) \in Written /\ Ask(i).kind # "note"
    BY LineTypes DEF Ask, Line
  <2>3. UNCHANGED <<notes, taken, queue, held, looked, pumped, codex, call, proc, reader>>
    BY <1>4 DEF AsksApproval, supVars, pumpVars
  <2>4. said'[s].note = said[s].note /\ \A t \in Servers : t # s => said'[t] = said[t]
    BY <2>1 DEF SupervisorInv, SupervisorTypes
  <2> QED BY <2>1, <2>2, <2>3, <2>4, WritesFlow
<1>5. CASE Garbles(s)
  <2>1. Writes(s, Junk) /\ Junk \in Written /\ Junk.kind # "note"
    BY <1>5, LineTypes DEF Garbles, Junk, Line
  <2>2. UNCHANGED <<notes, taken, queue, held, looked, pumped, codex, call, proc, reader, said>>
    BY <1>5 DEF Garbles, supVars, pumpVars
  <2> QED BY <2>1, <2>2, WritesFlow
<1> QED BY <1>1, <1>2, <1>3, <1>4, <1>5 DEF Child

LEMMA LaunchNotes == ASSUME SupervisorInv, NotesInv, Launch PROVE NotesInv'
<1>1. /\ UNCHANGED <<lines, notes, looked, held, queue, taken, said>> /\ call = NoCall
  BY DEF Launch
<1>2. CASE NotBooted(task) /\ UNCHANGED <<proc, reader, call>>
  <2>1. pumped' = None /\ codex' = None /\ call'.server = None
    BY <1>1, <1>2, NoCallOf DEF NotBooted
  <2> QED BY <1>1, <1>2, <2>1, SameLines
<1>3. CASE \E s \in Servers : /\ s = Cardinality(Started) + 1 /\ Opens(s)
                             /\ Requests(s, "initialize", TRUE) /\ UNCHANGED <<supVars, pumped>>
  <2>1. PICK s \in Servers : /\ s = Cardinality(Started) + 1 /\ Opens(s)
                            /\ Requests(s, "initialize", TRUE) /\ UNCHANGED <<supVars, pumped>>
    BY <1>3
  <2>2. /\ proc[s] = "off" /\ reader[s] = "off" /\ proc'[s] = "runs" /\ reader'[s] = "reads"
        /\ \A t \in Servers : t # s => proc'[t] = proc[t] /\ reader'[t] = reader[t]
    BY <2>1 DEF Opens, SupervisorInv, ClientTypes, ServerInv
  <2>3. call'.server = s /\ UNCHANGED <<codex, pumped>>
    BY <2>1 DEF Requests, supVars
  <2>4. /\ UNCHANGED <<LastTaken, LastQueued, LastPolled>>
        /\ \A t \in Servers : Polled(t)' = Polled(t)
    BY <1>1 DEF LastTaken, LastQueued, LastPolled, Polled
  <2>5. NoteTypes'
    BY <1>1 DEF NotesInv, NoteTypes
  <2>6. Chain(First, taken)' /\ Chain(LastTaken, queue)' /\ (held # NoNote => Follows(LastQueued, held))'
    BY <1>1, <2>4 DEF NotesInv, Chain, Follows
  <2>7. \A t \in Servers : proc[t] # "off" => s >= t /\ proc'[t] # "off"
    <3>1. Cardinality(Started) \in Nat /\ \A t \in Servers : t \in Started <=> t <= Cardinality(Started)
      BY StartedOf DEF SupervisorInv
    <3> QED BY <2>1, <2>2, <3>1 DEF Started, Servers
  <2>8. PumpInHand'
    <3>1. {pumped, looked, codex, call.server, LastTaken.server, LastPolled.server} \ {None} \subseteq Servers
      BY LastTypes DEF NotesInv, SupervisorInv, SupervisorTypes, ClientTypes
    <3>2. \A t \in {pumped, looked, codex, LastTaken.server, LastPolled.server} \ {None} :
             proc'[t] # "off" /\ s >= t
      BY <2>7, <3>1 DEF NotesInv, PumpInHand
    <3>3. s >= None
      BY DEF Servers, None
    <3>4. \A t \in {pumped, looked, codex, LastTaken.server, LastPolled.server} : s >= t
      BY <3>2, <3>3
    <3>5. \A i \in 1 .. Len(queue) : proc'[queue[i].server] # "off"
      BY <2>7, QueuedServers DEF NotesInv, PumpInHand
    <3>6. \A t \in Servers : proc'[t] = "off" => notes'[t] = <<>>
      BY <1>1, <2>2 DEF NotesInv, PumpInHand
    <3>7. \A t \in {pumped', looked', codex', call'.server, LastTaken'.server, LastPolled'.server} \ {None} : proc'[t] # "off"
      BY <1>1, <2>2, <2>3, <2>4, <3>2
    <3> QED BY <1>1, <2>3, <2>4, <3>4, <3>5, <3>6, <3>7 DEF NotesInv, PumpInHand
  <2>9. ASSUME NEW t \in Live'
        PROVE  NotesWait(t)' /\ (reader'[t] \in {"off", "reads"} => LinesWait(t)')
    <3>1. t \in Live /\ t \in Servers
      BY <1>1, <2>2, <2>3 DEF Live
    <3>2. NotesWait(t) /\ (reader[t] \in {"off", "reads"} => LinesWait(t))
      BY <3>1 DEF NotesInv
    <3>3. NotesWait(t)' /\ (LinesWait(t) => LinesWait(t)')
      BY <1>1, <2>4, <3>1, <3>2 DEF NotesWait, LinesWait
    <3> QED BY <2>2, <3>1, <3>2, <3>3
  <2> QED BY <2>5, <2>6, <2>8, <2>9 DEF NotesInv
<1> QED BY <1>2, <1>3 DEF Launch

LEMMA EndsNotes == ASSUME SupervisorInv, NotesInv, Ends PROVE NotesInv'
<1>1. /\ codex' = None /\ pumped' = None /\ looked' = None /\ held' = NoNote /\ queue' = <<>>
      /\ call'.server = None /\ Closes(Open) /\ UNCHANGED <<notes, taken, said>>
  BY NoCallOf DEF Ends
<1>2. /\ \A s \in Open : proc[s] # "off" /\ proc'[s] = "dead" /\ reader'[s] = "closed"
      /\ \A s \in Servers \ Open : proc'[s] = proc[s] /\ reader'[s] = reader[s] /\ lines'[s] = lines[s]
  BY <1>1 DEF Closes, Open, SupervisorInv, ServerInv
<1>3. LastTaken' = LastTaken /\ LastQueued' = LastTaken /\ LastPolled' = LastTaken
  BY <1>1 DEF LastTaken, LastQueued, LastPolled, LastOf
<1>4. NoteTypes'
  <2>1. <<>> \in Seq(NoteRecords) /\ Len(<<>>) = 0
    OBVIOUS
  <2> QED BY <1>1, <2>1, SupervisorAssumption DEF NotesInv, NoteTypes
<1>5. Chain(First, taken)' /\ Chain(LastTaken, queue)' /\ (held # NoNote => Follows(LastQueued, held))'
  <2>1. Chain(LastTaken', <<>>)
    BY DEF Chain
  <2> QED BY <1>1, <2>1 DEF NotesInv, Chain, Follows
<1>6. LastTaken.server # None => LastTaken.server \in Servers /\ proc[LastTaken.server] # "off"
  BY LastTypes DEF NotesInv, PumpInHand
<1>7. PumpInHand'
  <2>1. \A s \in Servers : proc[s] # "off" <=> proc'[s] # "off"
    BY <1>2
  <2> QED BY <1>1, <1>3, <1>6, <2>1 DEF NotesInv, PumpInHand
<1>8. ASSUME NEW s \in Live'
      PROVE  NotesWait(s)' /\ (reader'[s] \in {"off", "reads"} => LinesWait(s)')
  <2>1. s \in Servers /\ proc[s] = "off" /\ s \notin Open
    BY <1>1, <1>2, NoCallOf DEF Live
  <2>2. s \in Live /\ reader[s] = "off" /\ notes[s] = <<>>
    BY <2>1 DEF Live, SupervisorInv, ServerInv, NotesInv, PumpInHand
  <2>3. LinesWait(s)
    BY <2>2 DEF NotesInv
  <2>4. Polled(s) = 0 /\ Polled(s)' = 0
    <3>1. s # LastTaken.server /\ s # LastPolled.server
      BY <2>1, NoCallOf DEF NotesInv, PumpInHand
    <3> QED BY <1>3, <3>1 DEF Polled
  <2>5. NotesWait(s)'
    BY <1>1, <2>2 DEF NotesWait
  <2>6. LinesWait(s)'
    BY <1>1, <1>2, <2>1, <2>3, <2>4 DEF LinesWait
  <2> QED BY <2>5, <2>6
<1> QED BY <1>4, <1>5, <1>7, <1>8 DEF NotesInv

LEMMA HandlesNoteNotes == ASSUME SupervisorInv, NotesInv, HandlesNote PROVE NotesInv'
<1>1. /\ queue # <<>> /\ taken' = Append(taken, Head(queue)) /\ queue' = Tail(queue)
      /\ UNCHANGED <<proc, lines, reader, notes, call, codex, pumped, looked, held, said>>
  BY DEF HandlesNote, rpcVars
<1>2. /\ queue \in Seq(NoteRecords) /\ taken \in Seq(NoteRecords) /\ Len(queue) \in Nat \ {0}
      /\ Head(queue) = queue[1] /\ Head(queue) \in NoteRecords /\ Tail(queue) \in Seq(NoteRecords)
      /\ Len(Tail(queue)) = Len(queue) - 1
      /\ \A i \in 1 .. Len(queue) - 1 : Tail(queue)[i] = queue[i + 1]
  BY <1>1 DEF NotesInv, NoteTypes
<1>3. /\ Follows(LastTaken, Head(queue)) /\ Chain(Head(queue), Tail(queue))
      /\ LastOf(Tail(queue), Head(queue)) = LastQueued
  BY <1>1, <1>2, ChainTail DEF NotesInv, LastQueued
<1>4. Chain(First, Append(taken, Head(queue))) /\ LastOf(Append(taken, Head(queue)), First) = Head(queue)
  BY <1>2, <1>3, ChainAppend DEF NotesInv, LastTaken
<1>5. LastTaken' = Head(queue) /\ LastQueued' = LastQueued /\ LastPolled' = LastPolled
  BY <1>1, <1>3, <1>4 DEF LastTaken, LastQueued, LastPolled
<1>6. \A s \in Servers : Polled(s)' = Polled(s)
  BY <1>5 DEF Polled
<1>7. NoteTypes'
  <2>1. Append(taken, Head(queue)) \in Seq(NoteRecords)
    BY <1>2
  <2>2. Len(Tail(queue)) <= MaxQueue
    BY <1>2, SupervisorAssumption DEF NotesInv, NoteTypes
  <2> QED BY <1>1, <1>2, <2>1, <2>2 DEF NotesInv, NoteTypes
<1>8. Chain(First, taken)' /\ Chain(LastTaken, queue)' /\ (held # NoNote => Follows(LastQueued, held))'
  BY <1>1, <1>3, <1>4, <1>5 DEF NotesInv, Chain, Follows
<1>9. PumpInHand'
  <2>1. proc[Head(queue).server] # "off"
    BY <1>2 DEF NotesInv, PumpInHand
  <2>2. \A i \in 1 .. Len(Tail(queue)) : proc[Tail(queue)[i].server] # "off"
    <3> SUFFICES ASSUME NEW i \in 1 .. Len(queue) - 1 PROVE proc[Tail(queue)[i].server] # "off"
      BY <1>2
    <3>1. i + 1 \in 1 .. Len(queue)
      BY <1>2
    <3> QED BY <1>2, <3>1 DEF NotesInv, PumpInHand
  <2> QED BY <1>1, <1>5, <2>1, <2>2 DEF NotesInv, PumpInHand
<1>10. ASSUME NEW s \in Live'
       PROVE  NotesWait(s)' /\ (reader'[s] \in {"off", "reads"} => LinesWait(s)')
  <2>1. s \in Live /\ s \in Servers
    BY <1>1 DEF Live
  <2> QED BY <1>1, <1>6, <2>1 DEF NotesInv, NotesWait, LinesWait
<1> QED BY <1>7, <1>8, <1>9, <1>10 DEF NotesInv

LEMMA PumpLooksNotes == ASSUME SupervisorInv, NotesInv, PumpLooks PROVE NotesInv'
<1>1. /\ held = NoNote /\ pumped # None /\ notes[pumped] # <<>> /\ looked' = pumped
      /\ UNCHANGED <<proc, lines, reader, notes, call, codex, pumped, held, queue, taken, said>>
  BY DEF PumpLooks, rpcVars, supVars
<1>2. UNCHANGED <<LastTaken, LastQueued, LastPolled>> /\ \A s \in Servers : Polled(s)' = Polled(s)
  BY <1>1 DEF LastTaken, LastQueued, LastPolled, Polled
<1>3. NoteTypes'
  BY <1>1 DEF NotesInv, NoteTypes
<1>4. Chain(First, taken)' /\ Chain(LastTaken, queue)' /\ (held # NoNote => Follows(LastQueued, held))'
  BY <1>1, <1>2 DEF NotesInv, Chain, Follows
<1>5. PumpInHand'
  <2>1. pumped >= pumped
    BY DEF SupervisorInv, SupervisorTypes, Servers, None
  <2> QED BY <1>1, <1>2, <2>1 DEF NotesInv, PumpInHand
<1>6. ASSUME NEW s \in Live'
      PROVE  NotesWait(s)' /\ (reader'[s] \in {"off", "reads"} => LinesWait(s)')
  <2>1. s \in Live /\ s \in Servers
    BY <1>1 DEF Live
  <2> QED BY <1>1, <1>2, <2>1 DEF NotesInv, NotesWait, LinesWait
<1> QED BY <1>3, <1>4, <1>5, <1>6 DEF NotesInv

LEMMA PumpPutsNotes == ASSUME SupervisorInv, NotesInv, PumpPuts PROVE NotesInv'
<1>1. /\ held # NoNote /\ Len(queue) < MaxQueue /\ queue' = Append(queue, held) /\ held' = NoNote
      /\ UNCHANGED <<proc, lines, reader, notes, call, codex, pumped, looked, taken, said>>
  BY DEF PumpPuts, Puts, rpcVars, supVars
<1>2. /\ queue \in Seq(NoteRecords) /\ held \in NoteRecords /\ Len(queue) \in Nat
      /\ Append(queue, held) \in Seq(NoteRecords)
      /\ Len(Append(queue, held)) = Len(queue) + 1 /\ Append(queue, held)[Len(queue) + 1] = held
      /\ \A i \in 1 .. Len(queue) : Append(queue, held)[i] = queue[i]
  BY <1>1 DEF NotesInv, NoteTypes
<1>3. Chain(LastTaken, Append(queue, held)) /\ LastOf(Append(queue, held), LastTaken) = held
  BY <1>1, <1>2, ChainAppend DEF NotesInv, LastQueued
<1>4. LastTaken' = LastTaken /\ LastPolled' = LastPolled
  BY <1>1, <1>3 DEF LastTaken, LastQueued, LastPolled
<1>5. \A s \in Servers : Polled(s)' = Polled(s)
  BY <1>4 DEF Polled
<1>6. NoteTypes'
  BY <1>1, <1>2, SupervisorAssumption DEF NotesInv, NoteTypes
<1>7. Chain(First, taken)' /\ Chain(LastTaken, queue)' /\ (held # NoNote => Follows(LastQueued, held))'
  BY <1>1, <1>3, <1>4 DEF NotesInv, Chain, Follows
<1>8. PumpInHand'
  <2>1. proc[held.server] # "off"
    <3>1. LastPolled = held /\ held.server \in Servers /\ held.server # None
      BY <1>1, <1>2, NoCallOf DEF LastPolled, NoteRecords
    <3> QED BY <3>1 DEF NotesInv, PumpInHand
  <2>2. \A i \in 1 .. Len(queue) + 1 : proc[Append(queue, held)[i].server] # "off"
    <3>1. \A i \in 1 .. Len(queue) + 1 : i \in 1 .. Len(queue) \/ i = Len(queue) + 1
      BY <1>2
    <3> QED BY <1>2, <2>1, <3>1 DEF NotesInv, PumpInHand
  <2> QED BY <1>1, <1>2, <1>4, <2>2 DEF NotesInv, PumpInHand
<1>9. ASSUME NEW s \in Live'
      PROVE  NotesWait(s)' /\ (reader'[s] \in {"off", "reads"} => LinesWait(s)')
  <2>1. s \in Live /\ s \in Servers
    BY <1>1 DEF Live
  <2> QED BY <1>1, <1>5, <2>1 DEF NotesInv, NotesWait, LinesWait
<1> QED BY <1>6, <1>7, <1>8, <1>9 DEF NotesInv

LEMMA PumpPollsNotes == ASSUME SupervisorInv, NotesInv, PumpPolls PROVE NotesInv'
<1>0. PICK s \in Servers : s = looked
  BY DEF PumpPolls, SupervisorInv, SupervisorTypes
<1> DEFINE note == Head(notes[s])
<1>1. /\ s # None /\ looked' = None
      /\ held' = [server |-> s, id |-> note.id, what |-> note.what]
      /\ notes' = [notes EXCEPT ![s] = Tail(@)]
      /\ UNCHANGED <<proc, lines, reader, call, codex, pumped, queue, taken, said>>
  BY <1>0 DEF PumpPolls, supVars
<1>2. s \in Servers /\ s \in Live /\ held = NoNote /\ notes[s] # <<>> /\ proc[s] # "off"
  BY <1>0, <1>1 DEF NotesInv, PumpInHand, Live
<1>3. /\ notes[s] \in Seq(Lines) /\ Len(notes[s]) \in Nat \ {0} /\ note = notes[s][1] /\ note \in Lines
      /\ Tail(notes[s]) \in Seq(Lines) /\ Len(Tail(notes[s])) = Len(notes[s]) - 1
      /\ \A i \in 1 .. Len(notes[s]) - 1 : Tail(notes[s])[i] = notes[s][i + 1]
  BY <1>2 DEF NotesInv, NoteTypes
<1>4. Polled(s) \in Nat /\ LastPolled = LastQueued /\ LastPolled.server \in Servers \cup {None} /\ LastPolled.id \in Nat
  BY <1>2, LastTypes DEF NotesInv, LastPolled
<1>5. note.id = Polled(s) + 1
  BY <1>2, <1>3 DEF NotesInv, NotesWait
<1>6. notes'[s] = Tail(notes[s]) /\ \A t \in Servers : t # s => notes'[t] = notes[t]
  BY <1>1, <1>2 DEF NotesInv, NoteTypes
<1> DEFINE new == [server |-> s, id |-> note.id, what |-> note.what]
<1>7. new \in NoteRecords /\ new.server = s /\ new.id = Polled(s) + 1
  BY <1>2, <1>3, <1>4, <1>5 DEF NoteRecords, Lines
<1>8. held' # NoNote
  <2>1. new.server # None /\ NoNote = <<>>
    BY <1>2, <1>7, NoCallOf DEF NoNote
  <2> QED BY <1>1, <2>1 DEF NoNote
<1> HIDE DEF note, new
<1>9. held' = new
  BY <1>1 DEF new
<1>10. LastTaken' = LastTaken /\ LastQueued' = LastQueued /\ LastPolled' = new
  BY <1>1, <1>8, <1>9 DEF LastTaken, LastQueued, LastPolled
<1>11. Polled(s)' = Polled(s) + 1
  BY <1>7, <1>10 DEF Polled
<1>12. NoteTypes'
  BY <1>1, <1>3, <1>7, <1>9 DEF NotesInv, NoteTypes
<1>13. Chain(First, taken)' /\ Chain(LastTaken, queue)' /\ (held # NoNote => Follows(LastQueued, held))'
  <2>1. Follows(LastQueued, new)
    <3>1. CASE LastPolled.server = s
      BY <1>4, <1>7, <3>1 DEF Follows, Polled
    <3>2. CASE LastPolled.server # s
      <4>1. s >= LastPolled.server /\ Polled(s) = 0
        BY <1>0, <1>1, <3>2 DEF NotesInv, PumpInHand, Polled
      <4> QED BY <1>2, <1>4, <1>7, <3>2, <4>1 DEF Follows, Servers, None
    <3> QED BY <3>1, <3>2
  <2> QED BY <1>1, <1>9, <1>10, <2>1 DEF NotesInv, Chain, Follows
<1>14. PumpInHand'
  <2>1. \A t \in {pumped, codex, call.server} \ {None} : t >= s
    BY <1>0 DEF NotesInv, PumpInHand
  <2>2. \A t \in Servers : proc[t] = "off" => notes'[t] = <<>>
    BY <1>2, <1>6 DEF NotesInv, PumpInHand
  <2>3. \A t \in {pumped', looked', codex', call'.server, LastTaken'.server, LastPolled'.server} \ {None} : proc'[t] # "off"
    BY <1>1, <1>2, <1>7, <1>10 DEF NotesInv, PumpInHand
  <2>4. \A t \in {looked', pumped', codex', call'.server} \ {None} : t >= LastPolled'.server /\ t >= looked'
    BY <1>1, <1>7, <1>10, <2>1, NoCallOf DEF SupervisorInv, SupervisorTypes, ClientTypes, Servers, None
  <2> QED BY <1>1, <2>2, <2>3, <2>4 DEF NotesInv, PumpInHand
<1>15. ASSUME NEW t \in Live'
       PROVE  NotesWait(t)' /\ (reader'[t] \in {"off", "reads"} => LinesWait(t)')
  <2>1. t \in Live /\ t \in Servers /\ (proc[t] = "off" \/ t \in {pumped, codex, call.server} \ {None})
    BY <1>0, <1>1, NoCallOf DEF Live
  <2>2. NotesWait(t) /\ (reader[t] \in {"off", "reads"} => LinesWait(t))
    BY <2>1 DEF NotesInv
  <2>3. CASE t = s
    <3>1. \A i \in 1 .. Len(notes[s]) - 1 : Tail(notes[s])[i].id = (Polled(s) + 1) + i
      <4> SUFFICES ASSUME NEW i \in 1 .. Len(notes[s]) - 1 PROVE notes[s][i + 1].id = (Polled(s) + 1) + i
        BY <1>3
      <4>1. i + 1 \in 1 .. Len(notes[s])
        BY <1>3
      <4>2. notes[s][i + 1].id = Polled(s) + (i + 1)
        BY <2>2, <2>3, <4>1 DEF NotesWait
      <4> QED BY <1>4, <4>2
    <3>2. NotesWait(s)'
      BY <1>3, <1>6, <1>11, <3>1 DEF NotesWait
    <3>3. Polled(s)' + Len(notes'[s]) = Polled(s) + Len(notes[s])
      BY <1>3, <1>4, <1>6, <1>11
    <3> QED BY <1>1, <2>2, <2>3, <3>2, <3>3 DEF LinesWait
  <2>4. CASE t # s
    <3>1. Polled(t) = 0 /\ Polled(t)' = 0
      <4>1. t # LastPolled.server
        <5>1. CASE proc[t] = "off"
          BY <2>1, <5>1, NoCallOf DEF NotesInv, PumpInHand
        <5>2. CASE t \in {pumped, codex, call.server} \ {None}
          <6>1. t >= s /\ s >= LastPolled.server
            BY <1>0, <1>1, <5>2 DEF NotesInv, PumpInHand
          <6> QED BY <1>2, <1>4, <2>1, <2>4, <6>1 DEF Servers, None
        <5> QED BY <2>1, <5>1, <5>2
      <4> QED BY <1>7, <1>10, <2>4, <4>1 DEF Polled
    <3> QED BY <1>1, <1>6, <2>1, <2>2, <2>4, <3>1 DEF NotesWait, LinesWait
  <2> QED BY <2>3, <2>4
<1> QED BY <1>12, <1>13, <1>14, <1>15 DEF NotesInv

LEMMA ReadsLineNotes == ASSUME SupervisorInv, NotesInv, NEW s \in Servers, ReadsLine(s) PROVE NotesInv'
<1> DEFINE line == Head(lines[s])
<1>1. /\ reader[s] = "reads" /\ lines[s] # <<>>
      /\ lines' = [lines EXCEPT ![s] = Tail(@)]
      /\ UNCHANGED <<proc, codex, pumped, looked, held, queue, taken, said>>
  BY DEF ReadsLine, Reads, Take, supVars, pumpVars
<1>2. lines[s] \in Seq(Written) /\ line \in Written /\ line \in Lines
  <2>1. lines[s] \in Seq(Written)
    BY DEF SupervisorInv, ClientTypes
  <2>2. line \in Written
    BY <1>1, <2>1, HeadOf
  <2> QED BY <2>1, <2>2 DEF Written
<1>3. /\ call'.server = call.server
      /\ \/ reader' = reader /\ line.kind = "note" /\ notes' = [notes EXCEPT ![s] = Append(@, line)]
         \/ reader' = reader /\ line.kind # "note" /\ notes' = notes
         \/ reader' = [reader EXCEPT ![s] = "died"] /\ notes' = notes
  <2>1. line.kind \in {"response", "note", "ask", "junk"}
    BY <1>2 DEF Written, Lines
  <2>2. call'.server = call.server
    BY <2>1 DEF ReadsLine, Reads, IsResponse, SupervisorInv, ClientTypes
  <2> QED BY <2>1, <2>2 DEF ReadsLine, Reads, IsResponse
<1>4. s \in Live /\ proc[s] # "off"
  BY <1>1, NoCallOf DEF SupervisorInv, CallInv, ServerInv, Live
<1>5. NotesWait(s) /\ LinesWait(s)
  BY <1>1, <1>4 DEF NotesInv
<1>6. /\ notes[s] \in Seq(Lines) /\ Len(notes[s]) \in Nat /\ Polled(s) \in Nat /\ said[s].note \in Nat
      /\ Polled(s) + Len(notes[s]) \in Nat
  <2>1. notes[s] \in Seq(Lines) /\ Polled(s) \in Nat /\ said[s].note \in Nat
    BY LastTypes DEF NotesInv, NoteTypes, SupervisorInv, SupervisorTypes
  <2>2. Len(notes[s]) \in Nat
    BY <2>1
  <2> QED BY <2>1, <2>2
<1>7. /\ line.kind # "note" => Holds(Tail(lines[s]), Polled(s) + Len(notes[s]), said[s].note)
      /\ line.kind = "note" => /\ line.id = (Polled(s) + Len(notes[s])) + 1
                              /\ Holds(Tail(lines[s]), (Polled(s) + Len(notes[s])) + 1, said[s].note)
  BY <1>1, <1>2, <1>5, <1>6, HoldsTail DEF LinesWait
<1> HIDE DEF line
<1>8. UNCHANGED <<LastTaken, LastQueued, LastPolled>> /\ \A t \in Servers : Polled(t)' = Polled(t)
  BY <1>1 DEF LastTaken, LastQueued, LastPolled, Polled
<1>9. /\ \A t \in Servers : t # s => notes'[t] = notes[t] /\ lines'[t] = lines[t] /\ reader'[t] = reader[t]
      /\ lines'[s] = Tail(lines[s])
      /\ \/ line.kind = "note" /\ notes'[s] = Append(notes[s], line) /\ reader'[s] = "reads"
         \/ line.kind # "note" /\ notes'[s] = notes[s] /\ reader'[s] = "reads"
         \/ notes'[s] = notes[s] /\ reader'[s] = "died"
  BY <1>1, <1>3 DEF NotesInv, NoteTypes, SupervisorInv, ClientTypes
<1>10. /\ Append(notes[s], line) \in Seq(Lines) /\ Append(notes[s], line) # <<>>
       /\ Len(Append(notes[s], line)) = Len(notes[s]) + 1 /\ Append(notes[s], line)[Len(notes[s]) + 1] = line
       /\ \A i \in 1 .. Len(notes[s]) : Append(notes[s], line)[i] = notes[s][i]
  BY <1>2, <1>6
<1>11. NoteTypes'
  BY <1>1, <1>3, <1>10 DEF NotesInv, NoteTypes
<1>12. Chain(First, taken)' /\ Chain(LastTaken, queue)' /\ (held # NoNote => Follows(LastQueued, held))'
  BY <1>1, <1>8 DEF NotesInv, Chain, Follows
<1>13. PumpInHand'
  <2>1. looked # None => looked \in Servers /\ notes'[looked] # <<>>
    BY <1>9, <1>10 DEF NotesInv, PumpInHand, SupervisorInv, SupervisorTypes
  <2>2. \A t \in Servers : proc[t] = "off" => notes'[t] = <<>>
    BY <1>4, <1>9 DEF NotesInv, PumpInHand
  <2> QED BY <1>1, <1>3, <1>8, <2>1, <2>2 DEF NotesInv, PumpInHand
<1>14. ASSUME NEW t \in Live'
       PROVE  NotesWait(t)' /\ (reader'[t] \in {"off", "reads"} => LinesWait(t)')
  <2>1. t \in Live /\ t \in Servers
    BY <1>1, <1>3 DEF Live
  <2>2. CASE t # s
    BY <1>1, <1>8, <1>9, <2>1, <2>2 DEF NotesInv, NotesWait, LinesWait
  <2>3. CASE t = s /\ notes'[s] = notes[s]
    <3>1. NotesWait(s)'
      BY <1>5, <1>8, <2>3 DEF NotesWait
    <3>2. reader'[s] \in {"off", "reads"} => LinesWait(s)'
      BY <1>1, <1>7, <1>8, <1>9, <1>10, <2>3 DEF LinesWait
    <3> QED BY <2>3, <3>1, <3>2
  <2>4. CASE t = s /\ line.kind = "note" /\ notes'[s] = Append(notes[s], line)
    <3>1. \A i \in 1 .. Len(notes[s]) + 1 : Append(notes[s], line)[i].id = Polled(s) + i
      <4> SUFFICES ASSUME NEW i \in 1 .. Len(notes[s]) + 1 PROVE Append(notes[s], line)[i].id = Polled(s) + i
        OBVIOUS
      <4>1. CASE i \in 1 .. Len(notes[s])
        BY <1>5, <1>10, <4>1 DEF NotesWait
      <4>2. CASE i = Len(notes[s]) + 1
        BY <1>6, <1>7, <1>10, <2>4, <4>2
      <4> QED BY <1>6, <4>1, <4>2
    <3>2. NotesWait(s)'
      BY <1>8, <1>10, <2>4, <3>1 DEF NotesWait
    <3>3. Polled(s)' + Len(notes'[s]) = (Polled(s) + Len(notes[s])) + 1
      BY <1>6, <1>8, <1>10, <2>4
    <3>4. LinesWait(s)'
      BY <1>1, <1>7, <1>9, <2>4, <3>3 DEF LinesWait
    <3> QED BY <2>4, <3>2, <3>4
  <2> QED BY <1>9, <2>2, <2>3, <2>4
<1> QED BY <1>11, <1>12, <1>13, <1>14 DEF NotesInv

LEMMA NotesInit == Init => NotesInv
<1> SUFFICES ASSUME Init PROVE NotesInv
  OBVIOUS
<1>1. /\ proc = [s \in Servers |-> "off"] /\ lines = [s \in Servers |-> <<>>] /\ notes = [s \in Servers |-> <<>>]
      /\ codex = None /\ pumped = None /\ looked = None /\ held = NoNote /\ queue = <<>> /\ taken = <<>>
      /\ call.server = None
      /\ said = [s \in Servers |-> [note |-> 0, ask |-> {}]]
  BY NoCallOf DEF Init, RpcInit
<1>2. LastTaken = First /\ LastQueued = First /\ LastPolled = First
  BY <1>1 DEF LastTaken, LastQueued, LastPolled, LastOf
<1>3. <<>> \in Seq(Lines) /\ <<>> \in Seq(NoteRecords) /\ Len(<<>>) = 0
  OBVIOUS
<1>4. NoteTypes
  BY <1>1, <1>3, SupervisorAssumption DEF NoteTypes
<1>5. Chain(First, taken) /\ Chain(LastTaken, queue)
  BY <1>1 DEF Chain
<1>6. PumpInHand
  BY <1>1, <1>2 DEF PumpInHand, First
<1>7. \A s \in Servers : NotesWait(s) /\ LinesWait(s)
  <2> TAKE s \in Servers
  <2>1. Polled(s) = 0
    BY <1>2 DEF Polled, First
  <2> QED BY <1>1, <1>3, <2>1 DEF NotesWait, LinesWait, Holds
<1> QED BY <1>1, <1>4, <1>5, <1>6, <1>7 DEF NotesInv, Live

LEMMA NotesStep == SupervisorInv /\ NotesInv /\ [Next]_vars => NotesInv'
<1> SUFFICES ASSUME SupervisorInv, NotesInv, [Next]_vars PROVE NotesInv'
  OBVIOUS
<1>1. CASE ServiceStarts \/ Crash \/ Tick
  BY <1>1, OtherNotes, EndsNotes DEF Crash
<1>2. CASE Service
  BY <1>2, LaunchNotes, BootsNotes, DeliveryNotes, EndOfUseNotes, OtherNotes, HandlesNoteNotes DEF Service
<1>3. CASE Message \/ Restart
  BY <1>3, OtherNotes, EndOfUseNotes
<1>4. ASSUME NEW i \in AskIds, NEW verdict \in {"approved", "denied"}, Reply(i, verdict)
      PROVE  NotesInv'
  <2>1. CASE UNCHANGED <<rpcVars, supVars, pumpVars, taken, said>>
    BY <2>1, SameLines DEF rpcVars, supVars, pumpVars, NotesInv, PumpInHand
  <2>2. CASE Ends
    BY <2>2, EndsNotes
  <2> QED BY <1>4, <2>1, <2>2 DEF Reply
<1>5. CASE Pump
  BY <1>5, PumpLooksNotes, PumpPollsNotes, PumpPutsNotes DEF Pump
<1>6. ASSUME NEW s \in Servers, ReadsLine(s) \/ Child(s) PROVE NotesInv'
  BY <1>6, ReadsLineNotes, ChildNotes
<1>7. CASE UNCHANGED vars
  BY <1>7, SameLines DEF vars, rpcVars, supVars, pumpVars, NotesInv, PumpInHand
<1> QED BY <1>1, <1>2, <1>3, <1>4, <1>5, <1>6, <1>7 DEF Next, User

(* The inductive invariant of the notifications on their way. *)
THEOREM NotesHold == Spec => [](SupervisorInv /\ NotesInv)
<1>1. Init => SupervisorInv /\ NotesInv
  BY SupervisorInit, NotesInit
<1>2. SupervisorInv /\ NotesInv /\ [Next]_vars => (SupervisorInv /\ NotesInv)'
  BY SupervisorStep, NotesStep
<1> QED BY <1>1, <1>2, PTL DEF Spec

(* CodexNotificationPump and drain_codex_notifications: notifications are  *)
(* handled in the order in which they were written, none is left out, and  *)
(* those of a replaced app server come before those of the next; however   *)
(* small the pump's queue, and whenever servers die and are replaced.      *)
THEOREM NotesAreInOrder == Spec => []NotesInOrder
<1>1. NotesInv => NotesInOrder
  <2> SUFFICES ASSUME NotesInv, NEW i \in 1 .. Len(taken)
               PROVE  LET n == taken[i]
                          last == IF i = 1 THEN [server |-> None, id |-> 0] ELSE taken[i - 1]
                      IN IF n.server = last.server THEN n.id = last.id + 1 ELSE n.server > last.server /\ n.id = 1
    BY DEF NotesInOrder
  <2>1. Follows(IF i = 1 THEN First ELSE taken[i - 1], taken[i])
    BY DEF NotesInv, Chain
  <2> QED BY <2>1 DEF Follows, First
<1> QED BY <1>1, NotesHold, PTL

-----------------------------------------------------------------------------
(* Types, with the length of the delay.                                    *)

LEMMA PowerOfTwo == ASSUME NEW n \in Nat PROVE 2^n \in Nat
<1>1. IsFiniteSet(1..n) /\ Cardinality(1..n) = n
  BY FS_Interval
<1>2. IsFiniteSet(SUBSET (1..n)) /\ Cardinality(SUBSET (1..n)) = 2^n
  BY <1>1, FS_SUBSET
<1> QED BY <1>2, FS_CardinalityType

(* codex_restart_delay: doubled with every failure, and capped. *)
LEMMA DelayIsNat == ASSUME NEW n \in Nat \ {0} PROVE Delay(n) \in Nat
<1> DEFINE p == 2^(n - 1)
<1>1. n - 1 \in Nat
  OBVIOUS
<1>2. p \in Nat
  BY <1>1, PowerOfTwo
<1> HIDE DEF p
<1>3. Base * p \in Nat
  BY <1>2, SupervisorAssumption
<1> QED BY <1>3, SupervisorAssumption DEF Delay, p

LEMMA WaitStep ==
    ASSUME SupervisorInv, wait \in Nat, [Next]_vars
    PROVE  wait' \in Nat
<1>1. failures \in Nat
  BY DEF SupervisorInv, SupervisorTypes
<1>2. failures + 1 \in Nat \ {0} /\ Delay(failures + 1) \in Nat /\ Delay(1) \in Nat
  BY <1>1, DelayIsNat
<1>3. ASSUME NotBooted(task) PROVE wait' \in Nat
  <2>1. wait' = Delay(1) \/ wait' = Delay(failures + 1) \/ wait' = wait
    BY <1>3 DEF NotBooted
  <2> QED BY <1>2, <2>1
<1>4. CASE Launch
  <2>1. NotBooted(task) \/ wait' = wait
    BY <1>4 DEF Launch, supVars
  <2> QED BY <1>3, <2>1
<1>5. CASE Boots
  <2>1. PICK outcome \in Outcomes :
           CASE Following(call.method, outcome) = "failed" -> BootFails(call.server)
             [] Following(call.method, outcome) = "done"   -> Booted(call.server)
             [] OTHER -> Continues(call.server, Following(call.method, outcome))
    BY <1>5 DEF Boots
  <2>2. CASE BootFails(call.server)
    BY <1>3, <2>2 DEF BootFails
  <2>3. CASE Booted(call.server)
    BY <2>3 DEF Booted
  <2>4. CASE Continues(call.server, Following(call.method, outcome))
    BY <2>4 DEF Continues, supVars
  <2> QED BY <2>1, <2>2, <2>3, <2>4
<1>6. CASE ServiceStarts \/ Tick \/ Delivers \/ DeliveryEnds \/ Maintains \/ HandlesNote \/ StoresAsks
            \/ Message \/ Restart \/ Pump
  BY <1>6 DEF ServiceStarts, Tick, Delivers, DeliveryEnds, Maintains, HandlesNote, StoresAsks, Message,
              Restart, Pump, PumpLooks, PumpPolls, PumpPuts, supVars
<1>7. CASE Crash
  BY <1>7 DEF Crash, Ends
<1>8. CASE NoticesDeath
  BY <1>2, <1>8 DEF NoticesDeath
<1>9. ASSUME NEW i \in AskIds, NEW v, Reply(i, v) PROVE wait' \in Nat
  BY <1>9 DEF Reply, Ends, supVars
<1>10. ASSUME NEW s \in Servers, ReadsLine(s) \/ Child(s) PROVE wait' \in Nat
  BY <1>10 DEF ReadsLine, Child, Serves, Says, AsksApproval, Garbles, supVars
<1>11. CASE UNCHANGED vars
  BY <1>11 DEF vars, supVars
<1> QED BY <1>4, <1>5, <1>6, <1>7, <1>8, <1>9, <1>10, <1>11 DEF Next, Service, User

(* Every variable of the supervision and of the clients is in its range,   *)
(* the delay, which doubles with every failure, and the bounded queue of   *)
(* the pump included.                                                      *)
THEOREM SupervisionTypes == Spec => []TypeOK
<1>1. Init => SupervisorInv /\ NotesInv /\ wait \in Nat
  BY SupervisorInit, NotesInit DEF Init
<1>2. SupervisorInv /\ NotesInv /\ wait \in Nat /\ [Next]_vars => (SupervisorInv /\ NotesInv /\ wait \in Nat)'
  BY SupervisorStep, NotesStep, WaitStep
<1>3. SupervisorInv /\ NotesInv /\ wait \in Nat => TypeOK
  <2> SUFFICES ASSUME SupervisorInv, NotesInv, wait \in Nat PROVE TypeOK
    OBVIOUS
  <2>1. RpcTypeOK
    BY DEF SupervisorInv, ClientTypes, IdsTold, RpcTypeOK, None
  <2>2. Len(queue) <= MaxQueue
    BY DEF NotesInv, NoteTypes
  <2> QED BY <2>1, <2>2 DEF TypeOK, SupervisorInv, SupervisorTypes
<1> QED BY <1>1, <1>2, <1>3, PTL DEF Spec
=============================================================================
