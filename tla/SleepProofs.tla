----------------------------- MODULE SleepProofs -----------------------------
(***************************************************************************)
(* The table of sessions and the memory, for any number of sessions and    *)
(* entries and any faults: the two processes write back, over each other,  *)
(* what they have read before, and may end between any two writes; still   *)
(* no session in use is deleted, none gets a second session beside the     *)
(* attached one, no entry of a memory goes lost, and every session is told *)
(* what its row says that it has seen.                                     *)
(***************************************************************************)
EXTENDS Sleep, FiniteSetTheorems, TLAPS

(* What a process is in the middle of, by what it holds: a whole state, a  *)
(* session that it makes, the session whose turn it starts, or nothing.    *)
Whole   == {"recovers", "prunes", "saves"}
Making  == {"creates", "logs"}
Turning == {"begun", "asks"}
Sleeping == {"thinks", "long", "lesson", "clears", "marks", "stamps"}
Stages  == Whole \cup Making \cup Turning \cup Sleeping \cup {"down", "idle", "replaces"}

Rows == [of : Processes, attached : BOOLEAN, thread : BOOLEAN, turn : BOOLEAN, dirty : BOOLEAN, seen : Nat]

(* The rows of session i that there are: in the table, in the whole states *)
(* and in the hands of who starts its turn.                                *)
TableRows(i) == {table[k] : k \in {i} \cap DOMAIN table}
WholeRows(i) == UNION {{copy[p][k] : k \in {i} \cap DOMAIN copy[p]} : p \in {q \in Processes : stage[q] \in Whole}}
HandRows(i)  == UNION {{copy[p].row, copy[p].tracked} : p \in {q \in Processes : stage[q] \in Turning /\ Session(q) = i}}

RowsOf(i) == TableRows(i) \cup WholeRows(i) \cup HandRows(i)

StoreTypes ==
    /\ made \in 0 .. MaxSessions
    /\ stage \in [Processes -> Stages]
    /\ DOMAIN copy = Processes
    /\ gen \in Nat
    /\ DOMAIN table \subseteq 1 .. made
    /\ \A p \in Processes :
        /\ stage[p] \in Whole => DOMAIN copy[p] \subseteq 1 .. made
        /\ stage[p] \in Making => copy[p] \in [id : 1 .. made]
        /\ stage[p] \in Turning => copy[p] \in [id : 1 .. made, row : Rows, tracked : Rows]

(* The rows of a session say whose it is, one and all; a turn has a        *)
(* thread, and a thread of the service has a trace.                        *)
RowInv ==
    \A i \in Ids :
        /\ \A r \in RowsOf(i) : /\ r \in Rows
                                /\ r.turn => r.thread
                                /\ r.of = "service" /\ r.thread => i \in traced
        /\ \A r, s \in RowsOf(i) : r.of = s.of

(* What a process holds is its own: nobody else knows the session that it  *)
(* makes, before the insert, and nobody uses it before the event.          *)
HandInv ==
    /\ \A p \in Processes :
        /\ stage[p] = "creates" => RowsOf(Session(p)) = {}
        /\ stage[p] = "logs" => \A r \in RowsOf(Session(p)) : r.of = p /\ ~r.thread
        /\ stage[p] \in Turning => /\ copy[p].row.of = p /\ copy[p].tracked.of = p
                                   /\ ~copy[p].row.turn
                                   /\ stage[p] = "asks" => copy[p].row.thread
                                   /\ p = "service" => Session(p) \in traced
    /\ \A p, q \in Processes : p # q /\ stage[p] \in Making /\ stage[q] \in Making => Session(p) # Session(q)

(* A session that another table does not name is just being made, or was   *)
(* made by halves or brought back.                                         *)
NamedInv ==
    \A i \in DOMAIN table :
        \/ Protected(i) \/ i \in orphans
        \/ \E p \in Processes : stage[p] = "logs" /\ Session(p) = i

AttachedInv ==
    /\ ~Clash(table)
    /\ \A i, j \in Attached("service") \ revived : i = j
    /\ stage["service"] \in {"replaces", "creates"} => Attached("service") \subseteq revived

RunsTyped == runs \in [Processes -> SUBSET Ids]

(* What run_sleep has read is in the long memory before it empties what it *)
(* has read.                                                               *)
EntriesInv ==
    /\ RunsTyped
    /\ collected \subseteq written /\ files \subseteq Ids
    /\ short \in [Ids -> SUBSET Entries]
    /\ stage["service"] \in {"lesson", "clears"} => collected \subseteq long
    /\ EntriesKept

StoreInv == StoreTypes /\ RowInv /\ HandInv
SleepInv == StoreInv /\ NamedInv /\ AttachedInv /\ EntriesInv

-----------------------------------------------------------------------------
(* What the steps do to the rows.                                          *)

(* A row of session i that one reads, or changes within what a session may *)
(* become; a thread is opened by who starts a turn.                        *)
Derives(i, row) ==
    \E r \in RowsOf(i) :
        /\ row \in Rows /\ row.of = r.of
        /\ row.turn => row.thread
        /\ row.thread => r.thread \/ \E p \in Processes : stage[p] \in Turning /\ Session(p) = i

(* The first row of a session. *)
Fresh(i, row) ==
    \E p \in Processes : stage[p] = "creates" /\ stage'[p] = "logs" /\ i = Session(p) /\ row = NewRow(p)

Moves(p) ==
    \/ stage'[p] = stage[p] /\ copy'[p] = copy[p]
    \/ stage'[p] \notin Whole \cup Making \cup Turning
    \/ /\ stage'[p] \in Whole
       /\ DOMAIN copy'[p] \subseteq DOMAIN table
       /\ \A i \in DOMAIN copy'[p] : Derives(i, copy'[p][i])
    \/ stage'[p] = "creates" /\ made' = made + 1 /\ copy'[p] = [id |-> made + 1]
    \/ stage[p] = "creates" /\ stage'[p] = "logs" /\ copy'[p] = copy[p]
    \/ /\ stage'[p] \in Turning
       /\ copy'[p] \in [id : 1 .. made, row : Rows, tracked : Rows]
       /\ \A r \in {copy'[p].row, copy'[p].tracked} : r.of = p /\ Derives(copy'[p].id, r)
       /\ ~copy'[p].row.turn
       /\ stage'[p] = "asks" => copy'[p].row.thread
       /\ p = "service" => copy'[p].id \in traced'

(* A step of process p, or of its app server. *)
Step(p) ==
    /\ made' \in 0 .. MaxSessions /\ made <= made' /\ gen' \in Nat
    /\ stage' \in [Processes -> Stages] /\ DOMAIN copy' = Processes
    /\ \A q \in Processes \ {p} : stage'[q] = stage[q] /\ copy'[q] = copy[q]
    /\ Moves(p)
    /\ DOMAIN table' \subseteq 1 .. made
    /\ \A i \in DOMAIN table' : Derives(i, table'[i]) \/ Fresh(i, table'[i])
    /\ traced \subseteq traced'
    /\ \A i \in logged \cap DOMAIN table' : i \in logged' \cup traced'
    /\ stage[p] = "logs" => \/ stage'[p] \in {"logs", "down"} /\ (stage'[p] = "logs" => copy'[p] = copy[p])
                            \/ Session(p) \in DOMAIN table' => Session(p) \in logged'
    /\ ~Clash(table')
    /\ stage'["service"] \in {"replaces", "creates"} =>
          \/ stage["service"] \in {"replaces", "creates"}
          \/ Attached("service") = {} \/ Attached("service")' = {}
    /\ \A i \in DOMAIN table \ DOMAIN table' : Protected(i) => ~table[i].attached /\ ~table[i].turn

LEMMA RowsAre ==
  \A i, r : r \in RowsOf(i) <=>
      \/ i \in DOMAIN table /\ r = table[i]
      \/ \E p \in Processes : stage[p] \in Whole /\ i \in DOMAIN copy[p] /\ r = copy[p][i]
      \/ \E p \in Processes : stage[p] \in Turning /\ Session(p) = i /\ r \in {copy[p].row, copy[p].tracked}
<1> TAKE i, r
<1>1. r \in TableRows(i) <=> i \in DOMAIN table /\ r = table[i]
  BY DEF TableRows
<1>2. r \in WholeRows(i) <=> \E p \in Processes : stage[p] \in Whole /\ i \in DOMAIN copy[p] /\ r = copy[p][i]
  BY DEF WholeRows
<1>3. r \in HandRows(i) <=> \E p \in Processes : stage[p] \in Turning /\ Session(p) = i /\ r \in {copy[p].row, copy[p].tracked}
  BY DEF HandRows
<1> QED BY <1>1, <1>2, <1>3 DEF RowsOf

LEMMA RowsWillBe ==
  \A i, r : r \in RowsOf(i)' <=>
      \/ i \in DOMAIN table' /\ r = table'[i]
      \/ \E p \in Processes : stage'[p] \in Whole /\ i \in DOMAIN copy'[p] /\ r = copy'[p][i]
      \/ \E p \in Processes : stage'[p] \in Turning /\ copy'[p].id = i /\ r \in {copy'[p].row, copy'[p].tracked}
<1> TAKE i, r
<1>1. r \in TableRows(i)' <=> i \in DOMAIN table' /\ r = table'[i]
  BY DEF TableRows
<1>2. r \in WholeRows(i)' <=> \E p \in Processes : stage'[p] \in Whole /\ i \in DOMAIN copy'[p] /\ r = copy'[p][i]
  BY DEF WholeRows, Whole
<1>3. r \in HandRows(i)' <=> \E p \in Processes : stage'[p] \in Turning /\ copy'[p].id = i /\ r \in {copy'[p].row, copy'[p].tracked}
  BY DEF HandRows, Session, Turning
<1> QED BY <1>1, <1>2, <1>3 DEF RowsOf

(* A row as it is. *)
LEMMA SameRow ==
  ASSUME StoreInv, NEW i \in Ids, NEW r \in RowsOf(i)
  PROVE  Derives(i, r)
  BY DEF StoreInv, RowInv, Derives

LEMMA IdsOf ==
  ASSUME StoreTypes
  PROVE  /\ made \in Nat /\ 1 .. made \subseteq Ids /\ DOMAIN table \subseteq Ids
         /\ \A p \in Processes : /\ stage[p] \in Whole => DOMAIN copy[p] \subseteq Ids
                                 /\ stage[p] \in Making \cup Turning => Session(p) \in Ids /\ Session(p) \in 1 .. made
  BY StoreAssumption DEF StoreTypes, Ids, Session

LEMMA RowStep ==
  ASSUME StoreInv, NEW p \in Processes, Step(p), NEW i, NEW row \in RowsOf(i)'
  PROVE  i \in Ids /\ (Derives(i, row) \/ Fresh(i, row))
<1>1. CASE i \in DOMAIN table' /\ row = table'[i]
  BY <1>1, IdsOf DEF Step, StoreInv
<1>2. ASSUME NEW q \in Processes, stage'[q] \in Whole, i \in DOMAIN copy'[q], row = copy'[q][i]
      PROVE  i \in Ids /\ Derives(i, row)
  <2>1. CASE stage'[q] = stage[q] /\ copy'[q] = copy[q]
    BY <1>2, <2>1, RowsAre, SameRow, IdsOf DEF StoreInv
  <2>2. CASE q = p /\ stage'[q] \in Whole /\ DOMAIN copy'[q] \subseteq DOMAIN table
             /\ \A k \in DOMAIN copy'[q] : Derives(k, copy'[q][k])
    BY <1>2, <2>2, IdsOf DEF StoreInv
  <2> QED BY <1>2, <2>1, <2>2 DEF Step, Moves, Whole, Making, Turning
<1>3. ASSUME NEW q \in Processes, stage'[q] \in Turning, copy'[q].id = i, row \in {copy'[q].row, copy'[q].tracked}
      PROVE  i \in Ids /\ Derives(i, row)
  <2>1. CASE stage'[q] = stage[q] /\ copy'[q] = copy[q]
    BY <1>3, <2>1, RowsAre, SameRow, IdsOf DEF StoreInv, Session
  <2>2. CASE /\ q = p /\ copy'[p] \in [id : 1 .. made, row : Rows, tracked : Rows]
             /\ \A r \in {copy'[p].row, copy'[p].tracked} : r.of = p /\ Derives(copy'[p].id, r)
    BY <1>3, <2>2, IdsOf DEF StoreInv
  <2> QED BY <1>3, <2>1, <2>2 DEF Step, Moves, Whole, Making, Turning
<1> QED BY <1>1, <1>2, <1>3, RowsWillBe

(* A session that nobody has inserted yet has its first row now, or none.  *)
LEMMA OwnRows ==
  ASSUME StoreInv, NEW q \in Processes, stage[q] = "creates", NEW i, i = Session(q)
  PROVE  /\ \A row : ~Derives(i, row)
         /\ \A row : Fresh(i, row) => stage'[q] = "logs" /\ row = NewRow(q)
<1>1. RowsOf(i) = {}
  BY DEF StoreInv, HandInv
<1>2. ASSUME NEW row, Fresh(i, row)
      PROVE  stage'[q] = "logs" /\ row = NewRow(q)
  <2>1. PICK r \in Processes : stage[r] = "creates" /\ stage'[r] = "logs" /\ i = Session(r) /\ row = NewRow(r)
    BY <1>2 DEF Fresh
  <2>2. r = q
    <3>1. stage[r] \in Making /\ stage[q] \in Making /\ Session(r) = Session(q)
      BY <2>1 DEF Making
    <3> QED BY <3>1 DEF StoreInv, HandInv
  <2> QED BY <2>1, <2>2
<1> QED BY <1>1, <1>2 DEF Derives

(* Who starts a turn of a session owns all of its rows. *)
LEMMA TurnOwner ==
  ASSUME StoreInv, NEW q \in Processes, stage[q] \in Turning, NEW r \in RowsOf(Session(q))
  PROVE  r.of = q /\ copy[q].row \in RowsOf(Session(q)) /\ copy[q].tracked \in RowsOf(Session(q))
<1>1. copy[q].row \in RowsOf(Session(q)) /\ copy[q].tracked \in RowsOf(Session(q))
  BY RowsAre
<1>2. Session(q) \in Ids
  BY IdsOf DEF StoreInv
<1> QED BY <1>1, <1>2 DEF StoreInv, RowInv, HandInv

LEMMA RowsKept ==
  ASSUME StoreInv, NEW p \in Processes, Step(p)
  PROVE  RowInv'
<1>1. Ids' = Ids
  BY DEF Ids
<1>2. ASSUME NEW i \in Ids, NEW r \in RowsOf(i)'
      PROVE  r \in Rows /\ (r.turn => r.thread) /\ (r.of = "service" /\ r.thread => i \in traced')
  <2>1. CASE Fresh(i, r)
    BY <2>1 DEF Fresh, NewRow, Rows
  <2>2. CASE Derives(i, r)
    <3>1. PICK s \in RowsOf(i) :
            /\ r \in Rows /\ r.of = s.of /\ (r.turn => r.thread)
            /\ r.thread => s.thread \/ \E q \in Processes : stage[q] \in Turning /\ Session(q) = i
      BY <2>2 DEF Derives
    <3>2. traced \subseteq traced'
      BY DEF Step
    <3>3. ASSUME NEW q \in Processes, stage[q] \in Turning, Session(q) = i, r.of = "service"
          PROVE  i \in traced
      <4>1. q = "service"
        BY <3>1, <3>3, TurnOwner
      <4> QED BY <4>1, <3>3 DEF StoreInv, HandInv
    <3> QED BY <3>1, <3>2, <3>3 DEF StoreInv, RowInv
  <2> QED BY <2>1, <2>2, RowStep
<1>3. ASSUME NEW i \in Ids, NEW r \in RowsOf(i)', NEW s \in RowsOf(i)'
      PROVE  r.of = s.of
  <2>1. CASE Derives(i, r) /\ Derives(i, s)
    BY <2>1 DEF Derives, StoreInv, RowInv
  <2>2. CASE Fresh(i, r) \/ Fresh(i, s)
    <3>1. PICK q \in Processes : stage[q] = "creates" /\ i = Session(q)
      BY <2>2 DEF Fresh
    <3> QED BY <3>1, OwnRows, RowStep
  <2> QED BY <2>1, <2>2, RowStep
<1> QED BY <1>1, <1>2, <1>3 DEF RowInv

(* A session that a process begins to make is new to all. *)
LEMMA NewToAll ==
  ASSUME StoreInv
  PROVE  /\ RowsOf(made + 1) = {}
         /\ \A q \in Processes : stage[q] \in Making => Session(q) # made + 1
<1>1. ~(made + 1 \in 1 .. made)
  BY IdsOf DEF StoreInv
<1>2. \A r : r \notin RowsOf(made + 1)
  BY <1>1, RowsAre, IdsOf DEF StoreInv, StoreTypes
<1> QED BY <1>1, <1>2, IdsOf DEF StoreInv

LEMMA HandsKept ==
  ASSUME StoreInv, NEW p \in Processes, Step(p)
  PROVE  HandInv'
<1>0. \A q \in Processes : Session(q)' = copy'[q].id
  BY DEF Session
<1>1. ASSUME NEW q \in Processes, stage'[q] = "creates", NEW i, i = copy'[q].id, NEW row \in RowsOf(i)'
      PROVE  FALSE
  <2>1. CASE stage[q] = "creates" /\ copy'[q] = copy[q]
    <3>1. Derives(i, row) \/ Fresh(i, row)
      BY <1>1, RowStep
    <3> QED BY <1>1, <2>1, <3>1, OwnRows DEF Session
  <2>2. CASE copy'[q] = [id |-> made + 1]
    <3>1. i = made + 1
      BY <1>1, <2>2
    <3> QED BY <1>1, <3>1, NewToAll, RowStep DEF Derives, Fresh, Making
  <2> QED BY <1>1, <2>1, <2>2 DEF Step, Moves, Whole, Making, Turning
<1>2. ASSUME NEW q \in Processes, stage'[q] = "logs", NEW i, i = copy'[q].id, NEW row \in RowsOf(i)'
      PROVE  row.of = q /\ ~row.thread
  <2>1. copy'[q] = copy[q] /\ stage[q] \in {"creates", "logs"}
    BY <1>2 DEF Step, Moves, Whole, Making, Turning
  <2>0. i = Session(q) /\ (Derives(i, row) \/ Fresh(i, row))
    BY <1>2, <2>1, RowStep DEF Session
  <2>2. CASE stage[q] = "creates"
    BY <2>0, <2>2, OwnRows DEF NewRow
  <2>3. CASE stage[q] = "logs"
    <3>1. ~Fresh(i, row)
      BY <2>0, <2>3 DEF Fresh, StoreInv, HandInv, Making
    <3>2. PICK r \in RowsOf(i) :
            /\ row \in Rows /\ row.of = r.of
            /\ row.thread => r.thread \/ \E t \in Processes : stage[t] \in Turning /\ Session(t) = i
      BY <2>0, <3>1 DEF Derives
    <3>3. r.of = q /\ ~r.thread
      BY <2>0, <2>3 DEF StoreInv, HandInv
    <3>4. ASSUME NEW t \in Processes, stage[t] \in Turning, Session(t) = i
          PROVE  FALSE
      BY <2>0, <3>3, <3>4, <2>3, TurnOwner DEF Turning
    <3> QED BY <3>2, <3>3, <3>4
  <2> QED BY <2>1, <2>2, <2>3
<1>3. ASSUME NEW q \in Processes, stage'[q] \in Turning
      PROVE  /\ copy'[q].row.of = q /\ copy'[q].tracked.of = q /\ ~copy'[q].row.turn
             /\ stage'[q] = "asks" => copy'[q].row.thread
             /\ q = "service" => copy'[q].id \in traced'
  <2>1. CASE stage'[q] = stage[q] /\ copy'[q] = copy[q]
    BY <1>3, <2>1 DEF StoreInv, HandInv, Step, Session
  <2> QED BY <1>3, <2>1 DEF Step, Moves, Whole, Making, Turning
<1>4. ASSUME NEW q \in Processes, NEW t \in Processes, q # t, stage'[q] \in Making, stage'[t] \in Making
      PROVE  copy'[q].id # copy'[t].id
  <2> DEFINE Same(r) == stage[r] \in Making /\ copy'[r] = copy[r]
             Makes(r) == r = p /\ copy'[r].id = made + 1
  <2>1. \A r \in Processes : stage'[r] \in Making => Same(r) \/ Makes(r)
    BY DEF Step, Moves, Whole, Making, Turning
  <2>2. CASE Same(q) /\ Same(t)
    BY <1>4, <2>2 DEF StoreInv, HandInv, Session
  <2>3. CASE Makes(q) /\ Same(t)
    BY <2>3, NewToAll DEF Session
  <2>4. CASE Same(q) /\ Makes(t)
    BY <2>4, NewToAll DEF Session
  <2> QED BY <1>4, <2>1, <2>2, <2>3, <2>4
<1>5. ASSUME NEW q \in Processes
      PROVE  /\ stage'[q] = "creates" => RowsOf(Session(q))' = {}
             /\ stage'[q] = "logs" => \A r \in RowsOf(Session(q))' : r.of = q /\ ~r.thread
  <2> PICK i : i = copy'[q].id
    OBVIOUS
  <2>1. RowsOf(Session(q))' = RowsOf(i)'
    BY <1>0
  <2> QED BY <1>1, <1>2, <2>1
<1> QED BY <1>0, <1>3, <1>4, <1>5 DEF HandInv, Turning, Making

LEMMA TypesKept ==
  ASSUME StoreInv, NEW p \in Processes, Step(p)
  PROVE  StoreTypes'
<1> USE DEF StoreInv
<1>1. made \in Nat /\ made' \in Nat /\ 1 .. made \subseteq 1 .. made'
  BY StoreAssumption DEF Step, StoreTypes
<1>2. /\ made' \in 0 .. MaxSessions /\ stage' \in [Processes -> Stages]
      /\ DOMAIN copy' = Processes /\ gen' \in Nat /\ DOMAIN table' \subseteq 1 .. made'
  BY <1>1 DEF Step
<1>3. ASSUME NEW q \in Processes
      PROVE  /\ stage'[q] \in Whole => DOMAIN copy'[q] \subseteq 1 .. made'
             /\ stage'[q] \in Making => copy'[q] \in [id : 1 .. made']
             /\ stage'[q] \in Turning => copy'[q] \in [id : 1 .. made', row : Rows, tracked : Rows]
  <2>1. CASE stage'[q] = stage[q] /\ copy'[q] = copy[q]
    BY <1>1, <2>1 DEF StoreTypes
  <2>2. CASE q = p /\ Moves(p) /\ ~(stage'[q] = stage[q] /\ copy'[q] = copy[q])
    <3>1. stage'[q] \in Whole => DOMAIN copy'[q] \subseteq 1 .. made'
      BY <1>1, <2>2 DEF Moves, Whole, Making, Turning, StoreTypes
    <3>2. stage'[q] \in Turning => copy'[q] \in [id : 1 .. made, row : Rows, tracked : Rows]
      BY <2>2 DEF Moves, Whole, Making, Turning
    <3>3. stage'[q] \in Making => copy'[q] \in [id : 1 .. made']
      <4>1. CASE stage'[q] = "creates" /\ made' = made + 1 /\ copy'[q] = [id |-> made + 1]
        BY <1>1, <4>1
      <4>2. CASE stage[q] = "creates" /\ copy'[q] = copy[q]
        BY <1>1, <4>2 DEF StoreTypes, Making
      <4> QED BY <2>2, <4>1, <4>2 DEF Moves, Whole, Making, Turning
    <3> QED BY <1>1, <3>1, <3>2, <3>3
  <2> QED BY <2>1, <2>2 DEF Step
<1> QED BY <1>2, <1>3 DEF StoreTypes, Making, Turning, Whole, Rows, Stages, Sleeping

LEMMA StoreStep ==
  ASSUME StoreInv, NEW p \in Processes, Step(p)
  PROVE  StoreInv'
  BY RowsKept, HandsKept, TypesKept DEF StoreInv

LEMMA TableRow ==
  \A i \in DOMAIN table : table[i] \in RowsOf(i)
  BY RowsAre

(* A session that is new in the table is just being made, or brought back. *)
LEMMA NamedStep ==
  ASSUME StoreInv, NamedInv, NEW p \in Processes, Step(p), History
  PROVE  NamedInv'
<1> SUFFICES ASSUME NEW i \in DOMAIN table'
             PROVE  \/ i \in logged' \cup traced' \/ i \in orphans'
                    \/ \E q \in Processes : stage'[q] = "logs" /\ copy'[q].id = i
  BY DEF NamedInv, Protected, Session
<1>1. orphans' = orphans \cup CutOff \cup (DOMAIN table' \ (DOMAIN table \cup Inserted))
  BY DEF History
<1>2. CASE i \in Inserted
  <2>1. PICK q \in Processes : stage[q] = "creates" /\ Session(q) = i
    BY <1>2 DEF Inserted
  <2>2. stage'[q] = "logs"
    BY <2>1, OwnRows DEF Step
  <2> QED BY <2>1, <2>2 DEF Step, Moves, Session, Whole, Making, Turning
<1>3. CASE i \in DOMAIN table
  <2>1. CASE Protected(i) \/ i \in orphans
    BY <1>1, <1>3, <2>1 DEF Protected, Step
  <2>2. ASSUME NEW q \in Processes, stage[q] = "logs", Session(q) = i
        PROVE  \/ i \in logged' \/ i \in orphans'
               \/ stage'[q] = "logs" /\ copy'[q].id = i
    <3>1. CASE q # p
      BY <2>2, <3>1 DEF Step, Session
    <3>2. CASE q = p
      <4>1. stage'[q] = "down" => i \in CutOff
        BY <2>2 DEF CutOff
      <4> QED BY <1>1, <2>2, <3>2, <4>1 DEF Step, Session
    <3> QED BY <3>1, <3>2
  <2> QED BY <1>3, <2>1, <2>2 DEF NamedInv
<1> QED BY <1>1, <1>2, <1>3

(* Unless a stale copy brings it back, an attached session of the service  *)
(* was attached before, or the service inserts it.                         *)
LEMMA AttachedBefore ==
  ASSUME StoreInv, NEW p \in Processes, Step(p), History,
         NEW i \in (Attached("service") \ revived)'
  PROVE  \/ i \in Attached("service") \ revived
         \/ stage["service"] = "creates" /\ stage'["service"] = "logs" /\ i = Session("service")
<1>1. i \in DOMAIN table' /\ table'[i].of = "service" /\ table'[i].attached /\ i \notin revived'
  BY DEF Attached
<1>2. revived' = revived \cup (AttachedRows' \ (AttachedRows \cup Inserted))
  BY DEF History
<1>3. i \in AttachedRows \cup Inserted /\ i \notin revived
  BY <1>1, <1>2 DEF AttachedRows
<1>4. CASE i \in Inserted
  <2>1. PICK q \in Processes : stage[q] = "creates" /\ Session(q) = i
    BY <1>4 DEF Inserted
  <2>2. stage'[q] = "logs" /\ table'[i] = NewRow(q)
    BY <1>1, <2>1, OwnRows DEF Step
  <2> QED BY <1>1, <2>1, <2>2 DEF NewRow
<1>5. CASE i \in AttachedRows
  <2>1. i \in DOMAIN table /\ table[i].attached /\ table[i] \in RowsOf(i) /\ i \in Ids
    BY <1>5, TableRow, IdsOf DEF AttachedRows, StoreInv
  <2>2. ~Fresh(i, table'[i])
    BY <2>1 DEF Fresh, StoreInv, HandInv
  <2>3. table[i].of = "service"
    BY <1>1, <2>1, <2>2 DEF Step, Derives, StoreInv, RowInv
  <2> QED BY <1>3, <2>1, <2>3 DEF Attached
<1> QED BY <1>3, <1>4, <1>5

LEMMA AttachedStep ==
  ASSUME StoreInv, AttachedInv, NEW p \in Processes, Step(p), History
  PROVE  AttachedInv'
<1>1. ASSUME NEW i \in (Attached("service") \ revived)', NEW j \in (Attached("service") \ revived)'
      PROVE  i = j
  BY AttachedBefore DEF AttachedInv
<1>2. ASSUME stage'["service"] \in {"replaces", "creates"}, NEW i \in (Attached("service") \ revived)'
      PROVE  FALSE
  <2>1. i \in Attached("service") \ revived /\ i \in Attached("service")'
    BY <1>2, AttachedBefore
  <2> QED BY <1>2, <2>1 DEF Step, AttachedInv
<1>3. ~Clash(table')
  BY DEF Step
<1> QED BY <1>1, <1>2, <1>3 DEF AttachedInv, Clash

Kept(i) == ~table[i].turn /\ (table[i].attached => ~table[i].thread)

LEMMA KeptStep ==
  ASSUME StoreInv, NamedInv, NEW p \in Processes, Step(p),
         NEW i \in DOMAIN table \ DOMAIN table', table[i].of = "service" \/ i \notin orphans
  PROVE  Kept(i)
<1>1. table[i] \in RowsOf(i) /\ i \in Ids
  BY TableRow, IdsOf DEF StoreInv
<1>2. CASE Protected(i)
  BY <1>2 DEF Step, Kept
<1>3. CASE ~Protected(i) /\ table[i].of = "service"
  BY <1>1, <1>3 DEF Protected, StoreInv, RowInv, Kept
<1>4. CASE \E q \in Processes : stage[q] = "logs" /\ Session(q) = i
  BY <1>1, <1>4 DEF StoreInv, HandInv, RowInv, Kept
<1> QED BY <1>2, <1>3, <1>4 DEF NamedInv

-----------------------------------------------------------------------------
(* What the processes write is made of the rows that there are.            *)

(* A table that nobody minds: its rows are what rows may become, and       *)
(* nothing that another table names is missing.                            *)
Good(rows) ==
    /\ DOMAIN rows \subseteq 1 .. made
    /\ \A i \in DOMAIN rows : Derives(i, rows[i])
    /\ ~Clash(rows)
    /\ \A i \in DOMAIN table \ DOMAIN rows : ~Protected(i)

LEMMA GoodTable ==
  ASSUME StoreInv, AttachedInv
  PROVE  Good(table)
  BY SameRow, TableRow, IdsOf DEF Good, StoreInv, StoreTypes, AttachedInv

LEMMA GoodRow ==
  ASSUME StoreInv, NEW i \in 1 .. made, NEW row, Derives(i, row), ~Clash(WithRow(i, row))
  PROVE  Good(WithRow(i, row))
  BY SameRow, TableRow, IdsOf DEF Good, WithRow, StoreInv, StoreTypes

LEMMA GoodRows ==
  ASSUME StoreInv, NEW p \in Processes, stage[p] \in Whole, ~Clash(WithRows(copy[p]))
  PROVE  Good(WithRows(copy[p]))
<1> DEFINE rows == WithRows(copy[p])
<1>1. DOMAIN rows = DOMAIN copy[p] \cup {i \in DOMAIN table : Protected(i)}
  BY DEF WithRows
<1>2. \A i \in DOMAIN rows : rows[i] = IF i \in DOMAIN copy[p] THEN copy[p][i] ELSE table[i]
  BY DEF WithRows
<1>3. \A i \in DOMAIN copy[p] : copy[p][i] \in RowsOf(i) /\ i \in Ids
  BY RowsAre, IdsOf DEF StoreInv
<1>4. DOMAIN rows \subseteq 1 .. made
  BY <1>1 DEF StoreInv, StoreTypes
<1>5. \A i \in DOMAIN rows : rows[i] \in RowsOf(i) /\ i \in Ids
  BY <1>1, <1>2, <1>3, TableRow, IdsOf DEF StoreInv
<1> HIDE DEF rows
<1>6. \A i \in DOMAIN rows : Derives(i, rows[i])
  BY <1>5, SameRow
<1>7. \A i \in DOMAIN table \ DOMAIN rows : ~Protected(i)
  BY <1>1
<1> QED BY <1>4, <1>6, <1>7 DEF Good, rows

(* Rows are changed where they are, and none is attached by that. *)
LEMMA GoodChange ==
  ASSUME StoreInv, AttachedInv, NEW rows, DOMAIN rows = DOMAIN table,
         \A i \in DOMAIN rows : Derives(i, rows[i]) /\ (rows[i].attached => table[i].attached)
  PROVE  Good(rows)
<1>1. \A i \in DOMAIN rows : rows[i].of = table[i].of
  BY TableRow, IdsOf DEF Derives, StoreInv, RowInv
<1> QED BY <1>1 DEF Good, Clash, StoreInv, StoreTypes, AttachedInv

(* Where a process is after a step, and what it holds. *)
Moved(p, s, c) ==
    /\ stage' \in [Processes -> Stages] /\ DOMAIN copy' = Processes
    /\ \A q \in Processes \ {p} : stage'[q] = stage[q] /\ copy'[q] = copy[q]
    /\ stage'[p] = s /\ copy'[p] = c

LEMMA Framed ==
  ASSUME StoreInv, NEW p \in Processes, NEW s \in Stages, NEW c,
         Becomes(p, s) \/ (stage' = stage /\ s = stage[p]),
         Holds(p, c) \/ (copy' = copy /\ c = copy[p])
  PROVE  Moved(p, s, c)
  BY DEF StoreInv, StoreTypes, Becomes, Holds, Moved

(* A process writes, or not, and is in the middle of nothing then that it  *)
(* would hold rows for.                                                    *)
LEMMA Settles ==
  ASSUME StoreInv, NEW p \in Processes, NEW s \in Stages \ (Whole \cup Making \cup Turning), NEW c,
         Moved(p, s, c), gen' \in Nat, UNCHANGED <<made, logged, traced>>, Good(table'),
         stage[p] = "logs" => s = "down",
         p = "service" /\ s = "replaces" => Attached("service")' = {}
  PROVE  Step(p)
<1>1. Moves(p)
  BY DEF Moves, Moved
<1>2. made' \in 0 .. MaxSessions /\ made <= made'
  BY IdsOf DEF StoreInv, StoreTypes
<1>3. stage'["service"] \in {"replaces", "creates"} =>
          \/ stage["service"] \in {"replaces", "creates"} \/ Attached("service")' = {}
  BY DEF Moved, Making, Processes
<1>4. stage[p] = "logs" => stage'[p] \in {"logs", "down"} /\ (stage'[p] = "logs" => copy'[p] = copy[p])
  BY DEF Moved
<1>5. \A i \in DOMAIN table \ DOMAIN table' : ~Protected(i)
  BY DEF Good
<1> QED BY <1>1, <1>2, <1>3, <1>4, <1>5 DEF Step, Moved, Good

(* A process goes on, and writes nothing or one table. *)
LEMMA Dying ==
  ASSUME StoreInv, NEW p \in Processes, Dies(p), gen' \in Nat, UNCHANGED <<made, logged, traced>>, Good(table')
  PROVE  Step(p)
<1>1. Moved(p, "down", NoCopy)
  BY Framed DEF Dies, Stages
<1> QED BY <1>1, Settles DEF Stages, Whole, Making, Turning

LEMMA Idling ==
  ASSUME StoreInv, NEW p \in Processes, Becomes(p, "idle"), Holds(p, NoCopy), stage[p] # "logs",
         gen' \in Nat, UNCHANGED <<made, logged, traced>>, Good(table')
  PROVE  Step(p)
<1>1. Moved(p, "idle", NoCopy)
  BY Framed DEF Stages
<1> QED BY <1>1, Settles DEF Stages, Whole, Making, Turning

LEMMA Staying ==
  ASSUME StoreInv, NEW p \in Processes, Idle(p), UNCHANGED <<stage, copy>>,
         gen' \in Nat, UNCHANGED <<made, logged, traced>>, Good(table')
  PROVE  Step(p)
<1>1. Moved(p, "idle", copy[p])
  BY Framed DEF Stages, Idle
<1> QED BY <1>1, Settles DEF Stages, Whole, Making, Turning, Idle

LEMMA Standing ==
  ASSUME StoreInv, AttachedInv, UNCHANGED storeVars, gen' \in Nat, NEW p \in Processes
  PROVE  Step(p)
<1>1. Good(table')
  BY GoodTable DEF storeVars
<1>2. Moves(p)
  BY DEF storeVars, Moves
<1>3. made' \in 0 .. MaxSessions /\ made <= made'
  BY IdsOf DEF storeVars, StoreInv, StoreTypes
<1> QED BY <1>1, <1>2, <1>3 DEF storeVars, Step, Good, StoreInv, StoreTypes

(* A process reads, and holds what it has read; it may write before. *)
LEMMA Taking ==
  ASSUME StoreInv, NEW p \in Processes, NEW s \in Stages \ {"replaces", "creates"}, NEW c,
         Moved(p, s, c), Moves(p), gen' \in Nat, stage[p] # "logs",
         UNCHANGED <<made, logged>>, traced \subseteq traced', Good(table')
  PROVE  Step(p)
<1>1. made' \in 0 .. MaxSessions /\ made <= made'
  BY IdsOf DEF StoreInv, StoreTypes
<1>2. stage'["service"] \in {"replaces", "creates"} => stage["service"] \in {"replaces", "creates"}
  BY DEF Moved, Processes
<1>3. \A i \in DOMAIN table \ DOMAIN table' : ~Protected(i)
  BY DEF Good
<1> QED BY <1>1, <1>2, <1>3 DEF Step, Moved, Good

-----------------------------------------------------------------------------
(* The steps of the store, one by one.                                     *)

LEMMA TableRowIs ==
  ASSUME StoreInv, NEW i \in DOMAIN table
  PROVE  i \in Ids /\ i \in 1 .. made /\ table[i] \in RowsOf(i) /\ table[i] \in Rows /\ (table[i].turn => table[i].thread)
  BY TableRow, IdsOf DEF StoreInv, StoreTypes, RowInv

LEMMA ReplacesSteps ==
  ASSUME StoreInv, AttachedInv, gen' \in Nat, NEW p \in Processes, Replaces(p)
  PROVE  Step(p)
<1>1. Moved(p, "replaces", copy[p])
  BY Framed DEF Replaces, Stages
<1>2. ASSUME NEW i \in DOMAIN table, NEW row, row = [table[i] EXCEPT !.attached = FALSE]
      PROVE  Derives(i, row) /\ ~row.attached /\ row.of = table[i].of
  BY <1>2, TableRowIs DEF Derives, Rows
<1>3. ASSUME NEW i \in DOMAIN table'
      PROVE  /\ i \in DOMAIN table /\ Derives(i, table'[i])
             /\ table'[i].attached => table[i].attached
             /\ table'[i].of = p => ~table'[i].attached
  BY <1>2, TableRowIs, SameRow DEF Replaces, Detached
<1>4. DOMAIN table' = DOMAIN table
  BY DEF Replaces, Detached
<1>5. Good(table')
  BY <1>3, <1>4, GoodChange
<1>6. p = "service" => Attached("service")' = {}
  BY <1>3 DEF Attached
<1> QED BY <1>1, <1>5, <1>6, Settles DEF Replaces, Idle, Stages, Whole, Making, Turning

LEMMA NewSessionSteps ==
  ASSUME StoreInv, AttachedInv, gen' \in Nat, NEW p \in Processes, NewSession(p)
  PROVE  Step(p)
<1>1. made' = made + 1 /\ made < MaxSessions /\ Moved(p, "creates", [id |-> made + 1])
  BY Framed DEF NewSession, Stages, Making
<1>2. Moves(p)
  BY <1>1 DEF Moves, Moved
<1>3. made' \in 0 .. MaxSessions /\ made <= made'
  BY <1>1, IdsOf, StoreAssumption DEF StoreInv
<1>4. stage[p] = "replaces" \/ (stage[p] = "idle" /\ Attached(p) = {})
  BY DEF NewSession, FirstSession, Idle
<1>5. /\ DOMAIN table' \subseteq DOMAIN table
      /\ \A i \in DOMAIN table' : table'[i] = table[i]
      /\ \A i \in DOMAIN table \ DOMAIN table' : ~table[i].attached /\ ~table[i].turn
      /\ \A i \in logged \cap DOMAIN table' : i \in logged' \cup traced'
      /\ traced' = traced
  <2>1. CASE table' = table /\ logged' = logged
    BY <2>1 DEF NewSession
  <2>2. CASE /\ table' = [i \in DOMAIN table \ (Prunable(table) \ traced) |-> table[i]]
             /\ logged' = logged \ Prunable(table)
    BY <2>2 DEF NewSession, Prunable
  <2> QED BY <2>1, <2>2 DEF NewSession
<1>6. ~Clash(table')
  BY <1>5 DEF AttachedInv, Clash
<1>7. \A i \in DOMAIN table' : Derives(i, table'[i])
  BY <1>5, SameRow, TableRowIs
<1>8. stage'["service"] \in {"replaces", "creates"} =>
          stage["service"] \in {"replaces", "creates"} \/ Attached("service") = {}
  BY <1>1, <1>4 DEF Moved, Processes
<1> QED BY <1>1, <1>2, <1>3, <1>4, <1>5, <1>6, <1>7, <1>8 DEF Step, Moved, StoreInv, StoreTypes

LEMMA CreatesSteps ==
  ASSUME StoreInv, AttachedInv, gen' \in Nat, NEW p \in Processes, Creates(p)
  PROVE  Step(p)
<1>1. CASE Dies(p) /\ UNCHANGED table
  BY <1>1, GoodTable, Dying DEF Creates
<1>2. CASE ~Clash(table') /\ table' = WithRow(Session(p), NewRow(p)) /\ Becomes(p, "logs") /\ UNCHANGED copy
  <2>1. Moved(p, "logs", copy[p])
    BY <1>2, Framed DEF Stages, Making
  <2>2. Moves(p)
    BY <2>1 DEF Moves, Moved, Creates
  <2>3. made' \in 0 .. MaxSessions /\ made <= made' /\ Session(p) \in 1 .. made
    BY IdsOf DEF StoreInv, StoreTypes, Creates, Making
  <2>4. DOMAIN table' = DOMAIN table \cup {Session(p)}
    BY <1>2 DEF WithRow
  <2>5. \A i \in DOMAIN table' : Derives(i, table'[i]) \/ Fresh(i, table'[i])
    <3>1. Fresh(Session(p), NewRow(p))
      BY <2>1 DEF Fresh, Moved, Creates
    <3> QED BY <1>2, <3>1, SameRow, TableRowIs DEF WithRow
  <2>6. stage'["service"] \in {"replaces", "creates"} => stage["service"] \in {"replaces", "creates"}
    BY <2>1 DEF Moved, Processes
  <2> QED BY <1>2, <2>1, <2>2, <2>3, <2>4, <2>5, <2>6 DEF Step, Moved, Creates, StoreInv, StoreTypes
<1> QED BY <1>1, <1>2 DEF Creates

LEMMA LogsSteps ==
  ASSUME StoreInv, AttachedInv, gen' \in Nat, NEW p \in Processes, Logs(p)
  PROVE  Step(p)
<1>1. Moved(p, "idle", NoCopy)
  BY Framed DEF Logs, Stages
<1>2. Moves(p)
  BY <1>1 DEF Moves, Moved, Whole, Making, Turning
<1>3. made' \in 0 .. MaxSessions /\ made <= made'
  BY IdsOf DEF StoreInv, StoreTypes, Logs
<1>4. Good(table')
  BY GoodTable DEF Logs
<1>5. stage'["service"] \in {"replaces", "creates"} => stage["service"] \in {"replaces", "creates"}
  BY <1>1 DEF Moved, Processes
<1>6. traced' = traced /\ logged \subseteq logged' /\ table' = table
      /\ (Session(p) \in DOMAIN table' => Session(p) \in logged')
  BY DEF Logs
<1> QED BY <1>1, <1>2, <1>3, <1>4, <1>5, <1>6 DEF Step, Moved, Good

LEMMA RecoversSteps ==
  ASSUME StoreInv, AttachedInv, gen' \in Nat, NEW p \in Processes, Recovers(p)
  PROVE  Step(p)
<1> USE DEF Recovers
<1>0. Good(table')
  BY GoodTable
<1>1. stage[p] # "logs"
  BY DEF Idle
<1>2. PICK stale \in SUBSET {i \in DOMAIN table : table[i].turn} :
        IF stale = {} THEN Becomes(p, "idle") /\ Holds(p, NoCopy)
                      ELSE Becomes(p, "recovers") /\ Holds(p, Recovered(stale))
  OBVIOUS
<1>3. CASE stale = {}
  BY <1>0, <1>1, <1>2, <1>3, Idling
<1>4. CASE stale # {}
  <2>1. Moved(p, "recovers", Recovered(stale))
    BY <1>2, <1>4, Framed DEF Stages, Whole
  <2>2. \A i \in DOMAIN table : table[i] \in Rows => Derives(i, [table[i] EXCEPT !.turn = FALSE])
    BY TableRowIs DEF Derives, Rows
  <2>3. DOMAIN Recovered(stale) = DOMAIN table /\ \A i \in DOMAIN table : Derives(i, Recovered(stale)[i])
    BY <2>2, TableRowIs, SameRow DEF Recovered
  <2>4. Moves(p)
    BY <2>1, <2>3 DEF Moves, Moved, Whole
  <2> QED BY <1>0, <1>1, <2>1, <2>4, Taking DEF Stages, Whole
<1> QED BY <1>3, <1>4

LEMMA PrunesSteps ==
  ASSUME StoreInv, AttachedInv, gen' \in Nat, Prunes
  PROVE  Step("service")
<1> DEFINE rows == [i \in DOMAIN table \ Prunable(table) |-> table[i]]
<1>1. Moved("service", "prunes", rows)
  BY Framed DEF Prunes, Stages, Whole, Processes
<1>2. DOMAIN rows \subseteq DOMAIN table /\ \A i \in DOMAIN rows : Derives(i, rows[i])
  BY TableRowIs, SameRow
<1> HIDE DEF rows
<1>3. Moves("service")
  BY <1>1, <1>2 DEF Moves, Moved, Whole
<1> QED BY <1>1, <1>3, GoodTable, Taking DEF Prunes, Idle, Stages, Whole, Processes

LEMMA SavesStateSteps ==
  ASSUME StoreInv, AttachedInv, gen' \in Nat, NEW p \in Processes, SavesState(p)
  PROVE  Step(p)
<1>1. stage[p] # "logs" /\ stage[p] \in Whole
  BY DEF SavesState, Whole
<1>2. Good(table')
  BY <1>1, GoodTable, GoodRows DEF SavesState
<1>3. Dies(p) \/ (Becomes(p, "idle") /\ Holds(p, NoCopy))
  BY DEF SavesState
<1> QED BY <1>1, <1>2, <1>3, Dying, Idling DEF SavesState

(* What is in the hands of who starts a turn. *)
LEMMA InHand ==
  ASSUME StoreInv, NEW p \in Processes, stage[p] \in Turning
  PROVE  /\ Session(p) \in 1 .. made
         /\ copy[p] = [id |-> Session(p), row |-> copy[p].row, tracked |-> copy[p].tracked]
         /\ \A r \in {copy[p].row, copy[p].tracked} :
              r \in Rows /\ r.of = p /\ (r.turn => r.thread) /\ r \in RowsOf(Session(p))
         /\ ~copy[p].row.turn
         /\ stage[p] = "asks" => copy[p].row.thread
<1>1. Session(p) \in 1 .. made /\ Session(p) \in Ids
  BY IdsOf DEF StoreInv
<1>2. copy[p] \in [id : 1 .. made, row : Rows, tracked : Rows]
  BY DEF StoreInv, StoreTypes
<1>3. copy[p].row \in RowsOf(Session(p)) /\ copy[p].tracked \in RowsOf(Session(p))
  BY RowsAre
<1> QED BY <1>1, <1>2, <1>3 DEF Session, StoreInv, HandInv, RowInv

(* A row with a thread is what may become of a session in somebody's hands. *)
LEMMA InHandDerives ==
  ASSUME StoreInv, NEW p \in Processes, stage[p] \in Turning,
         NEW row \in Rows, row.of = p, row.turn => row.thread
  PROVE  Derives(Session(p), row)
  BY InHand DEF Derives

LEMMA ChangedRow ==
  ASSUME NEW r \in Rows, NEW turn \in BOOLEAN, NEW thread \in BOOLEAN
  PROVE  LET row == [r EXCEPT !.turn = turn, !.thread = thread]
         IN row \in Rows /\ row.of = r.of /\ row.turn = turn /\ row.thread = thread
  BY DEF Rows

LEMMA ChangedHand ==
  ASSUME NEW hand \in [id : 1 .. made, row : Rows, tracked : Rows], NEW row \in Rows
  PROVE  LET h == [hand EXCEPT !.row = row]
         IN h \in [id : 1 .. made, row : Rows, tracked : Rows] /\ h.id = hand.id /\ h.row = row /\ h.tracked = hand.tracked
  OBVIOUS

LEMMA CaughtUpRow ==
  ASSUME NEW row \in Rows, gen \in Nat
  PROVE  /\ CaughtUp(row) \in Rows /\ CaughtUp(row).of = row.of
         /\ CaughtUp(row).turn = row.turn /\ CaughtUp(row).thread = row.thread
  BY DEF CaughtUp, Rows

LEMMA BeginsSteps ==
  ASSUME StoreInv, AttachedInv, gen' \in Nat, NEW p \in Processes, NEW i, Begins(p, i, CaughtUp(table[i]))
  PROVE  Step(p)
<1> DEFINE row == CaughtUp(table[i])
           hand == [id |-> i, row |-> row, tracked |-> table[i]]
<1>1. i \in DOMAIN table /\ table[i].of = p /\ ~table[i].turn
  BY DEF Begins, Current, Attached
<1>2. i \in 1 .. made /\ table[i] \in Rows /\ table[i] \in RowsOf(i) /\ i \in Ids
  BY <1>1, TableRowIs
<1>3. row \in Rows /\ row.of = p /\ ~row.turn /\ row.thread = table[i].thread
  BY <1>1, <1>2, CaughtUpRow DEF StoreInv, StoreTypes
<1>4. Derives(i, row) /\ Derives(i, table[i])
  BY <1>1, <1>2, <1>3, SameRow DEF Derives
<1>5. Moved(p, "begun", hand)
  BY Framed DEF Begins, Stages, Turning
<1>6. traced \subseteq traced' /\ (p = "service" => i \in traced')
  BY DEF Begins
<1> HIDE DEF row
<1>7. Moves(p)
  <2>1. hand \in [id : 1 .. made, row : Rows, tracked : Rows] /\ hand.id = i /\ hand.row = row /\ hand.tracked = table[i]
    BY <1>2, <1>3
  <2> HIDE DEF hand
  <2> QED BY <1>1, <1>3, <1>4, <1>5, <1>6, <2>1 DEF Moves, Moved, Turning
<1>8. Good(table')
  BY GoodTable DEF Begins
<1> QED BY <1>5, <1>6, <1>7, <1>8, Taking DEF Begins, Idle, Stages, Turning

LEMMA OpensThreadSteps ==
  ASSUME StoreInv, AttachedInv, gen' \in Nat, NEW p \in Processes, OpensThread(p)
  PROVE  Step(p)
<1>0. stage[p] = "begun" /\ stage[p] \in Turning /\ stage[p] # "logs"
  BY DEF OpensThread, Turning
<1> DEFINE row  == [copy[p].row EXCEPT !.thread = TRUE]
           hand == [copy[p] EXCEPT !.row = row]
<1>1. row \in Rows /\ row.of = p /\ (row.turn => row.thread) /\ ~row.turn /\ row.thread /\ Derives(Session(p), row)
  <2>1. PICK r : r = copy[p].row
    OBVIOUS
  <2>2. r \in Rows /\ r.of = p /\ ~r.turn
    BY <1>0, <2>1, InHand
  <2>3. row = [r EXCEPT !.thread = TRUE]
    BY <2>1
  <2>4. row \in Rows /\ row.of = p /\ ~row.turn /\ row.thread
    BY <2>2, <2>3 DEF Rows
  <2> QED BY <1>0, <2>4, InHandDerives
<1>2. CASE Dies(p) /\ UNCHANGED table
  BY <1>2, GoodTable, Dying DEF OpensThread
<1>3. CASE /\ ~Clash(WithRow(Session(p), row)) /\ table' = WithRow(Session(p), row)
           /\ Holds(p, hand) /\ Becomes(p, "asks")
  <2>1. Moved(p, "asks", hand)
    BY <1>3, Framed DEF Stages, Turning
  <2>2. /\ hand \in [id : 1 .. made, row : Rows, tracked : Rows]
        /\ hand.id = Session(p) /\ hand.row = row /\ hand.tracked = copy[p].tracked
    <3> HIDE DEF row
    <3>1. copy[p] \in [id : 1 .. made, row : Rows, tracked : Rows]
      BY <1>0 DEF StoreInv, StoreTypes
    <3> QED BY <1>1, <3>1, ChangedHand DEF Session
  <2>3. copy[p].tracked.of = p /\ Derives(Session(p), copy[p].tracked)
    BY <1>0, InHand, IdsOf, SameRow DEF StoreInv
  <2>4. Good(table')
    BY <1>0, <1>1, <1>3, InHand, GoodRow
  <2>5. p = "service" => Session(p) \in traced'
    BY <1>0 DEF OpensThread, StoreInv, HandInv
  <2> HIDE DEF row, hand
  <2>6. Moves(p)
    BY <1>1, <2>1, <2>2, <2>3, <2>5 DEF Moves, Moved, Turning
  <2> QED BY <1>0, <2>1, <2>4, <2>6, Taking DEF OpensThread, Stages, Turning
<1>4. (Dies(p) /\ UNCHANGED table)
      \/ (/\ ~Clash(WithRow(Session(p), row)) /\ table' = WithRow(Session(p), row)
          /\ Holds(p, hand) /\ Becomes(p, "asks"))
  BY DEF OpensThread, Object
<1> QED BY <1>2, <1>3, <1>4

(* A row of the service, written back: the index is about others. *)
LEMMA ServiceRow ==
  ASSUME StoreInv, AttachedInv, stage["service"] \in Turning,
         NEW row \in Rows, row.of = "service", row.turn => row.thread
  PROVE  Good(WithRow(Session("service"), row))
<1>1. Derives(Session("service"), row) /\ Session("service") \in 1 .. made
  BY InHand, InHandDerives DEF Processes
<1>2. ~Clash(WithRow(Session("service"), row))
  <2> DEFINE rows == WithRow(Session("service"), row)
  <2> SUFFICES ASSUME NEW i \in DOMAIN rows, NEW j \in DOMAIN rows, i # j,
                      \A k \in {i, j} : rows[k].of = "chat" /\ rows[k].attached
               PROVE  FALSE
    BY DEF Clash
  <2>1. DOMAIN rows = DOMAIN table \cup {Session("service")}
        /\ \A k \in DOMAIN rows : rows[k] = IF k = Session("service") THEN row ELSE table[k]
    BY DEF WithRow
  <2> HIDE DEF rows
  <2>2. \A k \in {i, j} : k \in DOMAIN table /\ rows[k] = table[k]
    BY <2>1
  <2> QED BY <2>2 DEF AttachedInv, Clash
<1> QED BY <1>1, <1>2, GoodRow

LEMMA RefusedSteps ==
  ASSUME StoreInv, AttachedInv, gen' \in Nat, NEW p \in Processes, stage[p] \in Turning,
         Refused(p), p = "chat" => UNCHANGED table, UNCHANGED <<made, logged, traced>>
  PROVE  Step(p)
<1>1. CASE p = "chat"
  BY <1>1, GoodTable, Dying DEF Refused
<1>2. CASE p = "service"
  <2>1. PICK keeps \in BOOLEAN :
          table' = WithRow(Session(p), [copy[p].tracked EXCEPT !.turn = FALSE, !.thread = @ /\ keeps])
    BY <1>2 DEF Refused
  <2> DEFINE row == [copy[p].tracked EXCEPT !.turn = FALSE, !.thread = @ /\ keeps]
  <2>2. row \in Rows /\ row.of = p /\ ~row.turn
    <3>1. PICK r : r = copy[p].tracked
      OBVIOUS
    <3>2. r \in Rows /\ r.of = p
      BY <3>1, InHand
    <3>3. row = [r EXCEPT !.turn = FALSE, !.thread = @ /\ keeps]
      BY <3>1
    <3> QED BY <3>2, <3>3 DEF Rows
  <2>3. table' = WithRow(Session(p), row)
    BY <2>1
  <2> HIDE DEF row
  <2>4. Good(table')
    BY <1>2, <2>2, <2>3, ServiceRow
  <2> QED BY <1>2, <2>4, Idling DEF Refused, Turning
<1> QED BY <1>1, <1>2 DEF Processes

LEMMA ThreadFailsSteps ==
  ASSUME StoreInv, AttachedInv, gen' \in Nat, NEW p \in Processes, ThreadFails(p)
  PROVE  Step(p)
<1>0. stage[p] \in Turning
  BY DEF ThreadFails, Turning
<1>1. CASE Refused(p) /\ (p = "chat" => UNCHANGED table)
  BY <1>0, <1>1, RefusedSteps DEF ThreadFails
<1>2. CASE p = "chat" /\ Object(p).thread
  <2> DEFINE row == [copy[p].row EXCEPT !.thread = FALSE]
  <2>1. row \in Rows /\ row.of = p /\ ~row.turn /\ Derives(Session(p), row)
    <3>1. PICK r : r = copy[p].row
      OBVIOUS
    <3>2. r \in Rows /\ r.of = p /\ ~r.turn
      BY <1>0, <3>1, InHand
    <3>3. row = [r EXCEPT !.thread = FALSE]
      BY <3>1
    <3>4. row \in Rows /\ row.of = p /\ ~row.turn
      BY <3>2, <3>3 DEF Rows
    <3> QED BY <1>0, <3>4, InHandDerives
  <2>2. Dies(p) /\ table' = IF Clash(WithRow(Session(p), row)) THEN table ELSE WithRow(Session(p), row)
    BY <1>2 DEF ThreadFails, Object
  <2> HIDE DEF row
  <2>3. Good(table')
    BY <1>0, <2>1, <2>2, InHand, GoodRow, GoodTable
  <2> QED BY <2>2, <2>3, Dying DEF ThreadFails
<1> QED BY <1>1, <1>2 DEF ThreadFails

LEMMA TurnStartsSteps ==
  ASSUME StoreInv, AttachedInv, gen \in Nat, gen' \in Nat, NEW p \in Processes, TurnStarts(p, gen)
  PROVE  Step(p)
<1> DEFINE row == [copy[p].row EXCEPT !.turn = TRUE, !.dirty = FALSE, !.seen = gen]
<1>0. stage[p] \in Turning /\ stage[p] = "asks"
  BY DEF TurnStarts, Turning
<1>1. row \in Rows /\ row.of = p /\ row.thread
  <2>1. PICK r : r = copy[p].row
    OBVIOUS
  <2>2. r \in Rows /\ r.of = p /\ r.thread
    BY <1>0, <2>1, InHand
  <2>3. row = [r EXCEPT !.turn = TRUE, !.dirty = FALSE, !.seen = gen]
    BY <2>1
  <2> QED BY <2>2, <2>3 DEF Rows
<1>2. CASE Dies(p) /\ UNCHANGED table
  BY <1>2, GoodTable, Dying DEF TurnStarts
<1>3. CASE /\ ~Clash(WithRow(Session(p), row)) /\ table' = WithRow(Session(p), row)
           /\ Becomes(p, "idle") /\ Holds(p, NoCopy)
  <2> HIDE DEF row
  <2>1. Good(table')
    BY <1>0, <1>1, <1>3, InHand, InHandDerives, GoodRow
  <2> QED BY <1>0, <1>3, <2>1, Idling DEF TurnStarts
<1>4. (Dies(p) /\ UNCHANGED table)
      \/ (/\ ~Clash(WithRow(Session(p), row)) /\ table' = WithRow(Session(p), row)
          /\ Becomes(p, "idle") /\ Holds(p, NoCopy))
  BY DEF TurnStarts, Object
<1> QED BY <1>2, <1>3, <1>4

LEMMA TurnRefusedSteps ==
  ASSUME StoreInv, AttachedInv, gen' \in Nat, NEW p \in Processes, TurnRefused(p)
  PROVE  Step(p)
  BY RefusedSteps DEF TurnRefused, Turning

(* A turn is taken from a row. *)
LEMMA TurnGone ==
  ASSUME StoreInv, AttachedInv, NEW i \in DOMAIN table
  PROVE  Good([table EXCEPT ![i].turn = FALSE])
<1> DEFINE rows == [table EXCEPT ![i].turn = FALSE]
<1>1. DOMAIN rows = DOMAIN table
  OBVIOUS
<1>2. ASSUME NEW k \in DOMAIN rows
      PROVE  Derives(k, rows[k]) /\ (rows[k].attached => table[k].attached)
  <2>1. PICK r : r = table[k]
    OBVIOUS
  <2>2. r \in Rows /\ r \in RowsOf(k) /\ (r.turn => r.thread) /\ k \in Ids
    BY <1>1, <1>2, <2>1, TableRowIs
  <2>3. rows[k] = IF k = i THEN [r EXCEPT !.turn = FALSE] ELSE r
    BY <1>1, <1>2, <2>1
  <2>4. PICK s : s = [r EXCEPT !.turn = FALSE]
    OBVIOUS
  <2>5. s \in Rows /\ s.of = r.of /\ ~s.turn /\ s.thread = r.thread /\ s.attached = r.attached
    BY <2>2, <2>4 DEF Rows
  <2> QED BY <2>1, <2>2, <2>3, <2>4, <2>5, SameRow DEF Derives
<1> HIDE DEF rows
<1>3. Good(rows)
  BY <1>1, <1>2, GoodChange
<1> QED BY <1>3 DEF rows

LEMMA TurnEndsSteps ==
  ASSUME StoreInv, AttachedInv, gen' \in Nat, NEW p \in Processes, TurnEnds(p)
  PROVE  Step(p)
<1>1. Good(table')
  BY GoodTable, TurnGone DEF TurnEnds
<1> QED BY <1>1, Staying DEF TurnEnds

LEMMA SteerFailsSteps ==
  ASSUME StoreInv, AttachedInv, gen' \in Nat, SteerFails
  PROVE  Step("service")
<1>1. Good(table')
  BY TurnGone DEF SteerFails, Attached
<1> QED BY <1>1, Staying DEF SteerFails, Processes

LEMMA InterruptsSteps ==
  ASSUME StoreInv, AttachedInv, gen' \in Nat, Interrupts
  PROVE  Step("service")
<1>1. Good(table')
  BY GoodTable, TurnGone DEF Interrupts, Attached
<1>2. UNCHANGED <<stage, copy>> \/ Dies("service")
  BY DEF Interrupts
<1> QED BY <1>1, <1>2, Staying, Dying DEF Interrupts, Processes

LEMMA QuitsSteps ==
  ASSUME StoreInv, AttachedInv, gen' \in Nat, NEW p \in Processes, Quits(p)
  PROVE  Step(p)
  BY GoodTable, Dying DEF Quits

(* All of what a process does with the table, and what it leaves alone:    *)
(* none of it is a step of run_sleep.                                      *)
StoreAction(p) ==
    \/ Replaces(p) \/ NewSession(p) \/ Creates(p) \/ Logs(p)
    \/ Recovers(p) \/ (p = "service" /\ Prunes) \/ SavesState(p)
    \/ \E i \in Attached(p) : Begins(p, i, CaughtUp(table[i]))
    \/ OpensThread(p) \/ ThreadFails(p) \/ TurnStarts(p, gen) \/ TurnRefused(p) \/ TurnEnds(p)
    \/ (p = "service" /\ (SteerFails \/ Interrupts))
    \/ Quits(p)

LEMMA StoreSteps ==
  ASSUME StoreInv, AttachedInv, gen' \in Nat, NEW p \in Processes, StoreAction(p)
  PROVE  Step(p)
<1>1. gen \in Nat
  BY DEF StoreInv, StoreTypes
<1> QED BY <1>1, ReplacesSteps, NewSessionSteps, CreatesSteps, LogsSteps, RecoversSteps, PrunesSteps,
        SavesStateSteps, BeginsSteps, OpensThreadSteps, ThreadFailsSteps, TurnStartsSteps, TurnRefusedSteps,
        TurnEndsSteps, SteerFailsSteps, InterruptsSteps, QuitsSteps DEF StoreAction

ChatStages == {"down", "idle", "replaces", "creates", "logs", "recovers", "begun", "asks"}

AwayFromSleep ==
    /\ stage'["service"] \in {"lesson", "clears", "marks", "saves", "stamps"} => stage'["service"] = stage["service"]
    /\ stage["chat"] \in ChatStages => stage'["chat"] \in ChatStages

LEMMA DyingAside ==
  ASSUME StoreInv, RunsTyped, NEW p \in Processes, Dies(p)
  PROVE  AwayFromSleep /\ RunsTyped'
  BY DEF Dies, Becomes, AwayFromSleep, ChatStages, RunsTyped, StoreInv, StoreTypes, Processes, Ids

LEMMA BecomingAside ==
  ASSUME StoreInv, RunsTyped, NEW p \in Processes,
         NEW s \in {"idle", "replaces", "creates", "logs", "recovers", "prunes", "begun", "asks"},
         s = "prunes" => p = "service", Becomes(p, s), UNCHANGED runs
  PROVE  AwayFromSleep /\ RunsTyped'
  BY DEF Becomes, AwayFromSleep, ChatStages, RunsTyped, StoreInv, StoreTypes, Processes, Ids

LEMMA StoreAside ==
  ASSUME StoreInv, RunsTyped, NEW p \in Processes, StoreAction(p)
  PROVE  AwayFromSleep /\ RunsTyped'
<1>1. CASE Replaces(p) \/ NewSession(p) \/ Logs(p)
  BY <1>1, BecomingAside DEF Replaces, NewSession, Logs
<1>2. CASE Creates(p)
  BY <1>2, BecomingAside, DyingAside DEF Creates
<1>3. CASE Recovers(p) \/ (p = "service" /\ Prunes)
  BY <1>3, BecomingAside DEF Recovers, Prunes
<1>4. CASE SavesState(p)
  BY <1>4, BecomingAside, DyingAside DEF SavesState
<1>5. CASE \E i \in Attached(p) : Begins(p, i, CaughtUp(table[i]))
  BY <1>5, BecomingAside DEF Begins
<1>6. CASE OpensThread(p)
  BY <1>6, BecomingAside, DyingAside DEF OpensThread
<1>7. CASE ThreadFails(p) \/ TurnRefused(p)
  BY <1>7, BecomingAside, DyingAside DEF ThreadFails, TurnRefused, Refused
<1>8. CASE TurnStarts(p, gen)
  <2>1. CASE Dies(p)
    BY <2>1, DyingAside
  <2>2. CASE Becomes(p, "idle") /\ runs' = [runs EXCEPT ![p] = @ \cup {Session(p)}]
    <3>1. Session(p) \in Ids
      BY <1>8, IdsOf DEF TurnStarts, StoreInv, Turning
    <3>2. RunsTyped'
      BY <2>2, <3>1 DEF RunsTyped, Ids
    <3>3. AwayFromSleep
      BY <2>2 DEF Becomes, AwayFromSleep, ChatStages, StoreInv, StoreTypes, Processes
    <3> QED BY <3>2, <3>3
  <2> QED BY <1>8, <2>1, <2>2 DEF TurnStarts
<1>9. CASE TurnEnds(p)
  BY <1>9 DEF TurnEnds, AwayFromSleep, RunsTyped, Ids
<1>10. CASE p = "service" /\ (SteerFails \/ Interrupts)
  BY <1>10, DyingAside DEF SteerFails, Interrupts, AwayFromSleep, RunsTyped, Ids
<1>11. CASE Quits(p)
  BY <1>11, DyingAside DEF Quits
<1> QED BY <1>1, <1>2, <1>3, <1>4, <1>5, <1>6, <1>7, <1>8, <1>9, <1>10, <1>11 DEF StoreAction

-----------------------------------------------------------------------------
(* run_sleep.                                                              *)

LEMMA StepsOf ==
  /\ Following("begins") = "thinks" /\ Following("none") = "stamps"
  /\ Following("thinks") = "long" /\ Following("long") = "lesson" /\ Following("lesson") = "clears"
  /\ Following("clears") = "marks" /\ Following("marks") = "saves" /\ Following("saves") = "stamps"
  /\ Following("stamps") = "idle"
<1>1. \A n \in 1 .. 7 : n = 1 \/ n = 2 \/ n = 3 \/ n = 4 \/ n = 5 \/ n = 6 \/ n = 7
  OBVIOUS
<1>2. /\ (CHOOSE n \in 1 .. 7 : Steps[n] = "thinks") = 1 /\ (CHOOSE n \in 1 .. 7 : Steps[n] = "long") = 2
      /\ (CHOOSE n \in 1 .. 7 : Steps[n] = "lesson") = 3 /\ (CHOOSE n \in 1 .. 7 : Steps[n] = "clears") = 4
      /\ (CHOOSE n \in 1 .. 7 : Steps[n] = "marks") = 5 /\ (CHOOSE n \in 1 .. 7 : Steps[n] = "saves") = 6
      /\ (CHOOSE n \in 1 .. 7 : Steps[n] = "stamps") = 7
  BY <1>1 DEF Steps
<1> QED BY <1>2 DEF Following, Steps

(* A step of run_sleep that leaves the sessions alone. *)
LEMMA Sleeping1 ==
  ASSUME StoreInv, AttachedInv, gen' \in Nat, NEW s \in Sleeping \cup {"idle"},
         Becomes("service", s) \/ (UNCHANGED stage /\ s = stage["service"]),
         stage["service"] # "logs", UNCHANGED idleVars
  PROVE  Step("service")
<1>1. s \in Stages \ (Whole \cup Making \cup Turning) /\ s # "replaces"
  BY DEF Stages, Sleeping, Whole, Making, Turning
<1>2. Moved("service", s, copy["service"])
  BY <1>1, Framed DEF Processes, idleVars
<1>3. Good(table')
  BY GoodTable DEF idleVars
<1> QED BY <1>1, <1>2, <1>3, Settles DEF idleVars, Processes

LEMMA MarksSteps ==
  ASSUME StoreInv, AttachedInv, gen' \in Nat, Marks
  PROVE  Step("service")
<1>1. stage["service"] # "logs" /\ UNCHANGED <<made, logged, traced, table>>
  BY DEF Marks, At
<1>2. CASE Becomes("service", "stamps") /\ UNCHANGED copy
  BY <1>2, Sleeping1 DEF Marks, At, idleVars, Sleeping
<1>3. CASE Becomes("service", "saves") /\ Holds("service", Marked)
  <2>1. Moved("service", "saves", Marked)
    BY <1>3, Framed DEF Stages, Whole, Processes
  <2>2. ASSUME NEW i \in DOMAIN table
        PROVE  Derives(i, [table[i] EXCEPT !.dirty = TRUE])
    BY TableRowIs DEF Derives, Rows
  <2>3. DOMAIN Marked = DOMAIN table /\ \A i \in DOMAIN table : Derives(i, Marked[i])
    BY <2>2, TableRowIs, SameRow DEF Marked
  <2>4. Moves("service")
    BY <2>1, <2>3 DEF Moves, Moved, Whole
  <2> QED BY <1>1, <2>1, <2>4, GoodTable, Taking DEF Stages, Whole, Processes
<1> QED BY <1>2, <1>3, StepsOf DEF Marks, Past

LEMMA SavesMarksSteps ==
  ASSUME StoreInv, AttachedInv, gen' \in Nat, SavesMarks
  PROVE  Step("service")
<1>1. stage["service"] \in Whole /\ stage["service"] # "logs"
  BY DEF SavesMarks, At, Whole
<1>2. Good(table')
  BY <1>1, GoodTable, GoodRows DEF SavesMarks, Processes
<1>3. PICK s \in {"idle", "stamps"} : Becomes("service", s)
  BY StepsOf DEF SavesMarks, Past
<1>4. s \in Stages \ (Whole \cup Making \cup Turning) /\ s # "replaces"
  BY DEF Stages, Sleeping, Whole, Making, Turning
<1>5. Moved("service", s, NoCopy)
  BY <1>3, <1>4, Framed DEF SavesMarks, Processes
<1> QED BY <1>1, <1>2, <1>4, <1>5, Settles DEF SavesMarks, Processes

LEMMA SleepsSteps ==
  ASSUME StoreInv, AttachedInv, Sleeps
  PROVE  Step("service") /\ History
<1>0. gen \in Nat
  BY DEF StoreInv, StoreTypes
<1>1. CASE SleepBegins
  BY <1>0, <1>1, StepsOf, Sleeping1 DEF SleepBegins, Idle, Past, Sleeping
<1>2. CASE SleepThinks
  BY <1>0, <1>2, StepsOf, Sleeping1 DEF SleepThinks, At, Past, Sleeping, sleepVars
<1>3. CASE WritesLong
  BY <1>0, <1>3, StepsOf, Sleeping1 DEF WritesLong, At, Past, Sleeping
<1>4. CASE WritesLesson
  BY <1>0, <1>4, StepsOf, Sleeping1 DEF WritesLesson, At, Past, Sleeping
<1>5. CASE Clears
  BY <1>0, <1>5, StepsOf, Sleeping1 DEF Clears, At, Past, Sleeping
<1>6. CASE Marks
  BY <1>0, <1>6, MarksSteps DEF Marks, sleepVars
<1>7. CASE SavesMarks
  BY <1>0, <1>7, SavesMarksSteps DEF SavesMarks, sleepVars
<1>8. CASE Stamps
  BY <1>0, <1>8, StepsOf, Sleeping1 DEF Stamps, At, Past, Sleeping
<1> QED BY <1>1, <1>2, <1>3, <1>4, <1>5, <1>6, <1>7, <1>8 DEF Sleeps

(* What a step of the system is, for the sessions: run_sleep, something    *)
(* that a process does with the table, or nothing.                         *)
LEMMA NextIs ==
  ASSUME Next
  PROVE  \/ Sleeps
         \/ /\ \E p \in Processes : StoreAction(p)
            /\ UNCHANGED <<sleepVars, short, written, erased>> /\ History
         \/ UNCHANGED <<storeVars, gen>> /\ History /\ (NewDay \/ \E p \in Processes : Notes(p))
<1>1. CASE NewDay
  BY <1>1 DEF NewDay
<1>2. CASE Prune \/ Steer \/ Stop
  BY <1>2 DEF Prune, Steer, Stop, Elsewhere, StoreAction, Processes
<1>3. ASSUME NEW p \in Processes, Process(p)
      PROVE  \/ StoreAction(p) /\ UNCHANGED <<sleepVars, short, written, erased>> /\ History
             \/ UNCHANGED <<storeVars, gen>> /\ History /\ Notes(p)
  <2>1. CASE MessageArrives(p)
    BY <2>1 DEF MessageArrives, StoreAction
  <2>2. CASE Starting(p)
    BY <2>2 DEF Starting, ThreadReady, ThreadIsRefused, TurnRegistered, TurnIsRefused, StoreAction
  <2>3. CASE Notes(p)
    BY <2>3 DEF Notes, sleepVars
  <2>4. CASE TurnIsOver(p) \/ New(p) \/ Created(p) \/ Bootstrap(p) \/ SaveAll(p) \/ Ends(p)
    BY <2>4 DEF TurnIsOver, New, Created, Bootstrap, SaveAll, Ends, Elsewhere, StoreAction
  <2> QED BY <1>3, <2>1, <2>2, <2>3, <2>4 DEF Process
<1> QED BY <1>1, <1>2, <1>3 DEF Next

LEMMA NextSteps ==
  ASSUME StoreInv, AttachedInv, Next
  PROVE  History /\ \E p \in Processes : Step(p)
<1>0. gen \in Nat
  BY DEF StoreInv, StoreTypes
<1>1. CASE Sleeps
  BY <1>1, SleepsSteps DEF Processes
<1>2. CASE (\E p \in Processes : StoreAction(p)) /\ UNCHANGED sleepVars /\ History
  BY <1>0, <1>2, StoreSteps DEF sleepVars
<1>3. CASE UNCHANGED <<storeVars, gen>> /\ History
  BY <1>0, <1>3, Standing DEF Processes
<1> QED BY <1>1, <1>2, <1>3, NextIs

-----------------------------------------------------------------------------
(* The entries.                                                            *)

LEMMA NotedIs ==
  /\ \A e : e \in Noted <=> \E i \in Ids : e \in short[i]
  /\ \A e : e \in Noted' <=> \E i \in Ids : e \in short'[i]
  BY DEF Noted, Ids

LEMMA KeptMeans ==
  /\ EntriesKept <=> written = Noted \cup long \cup erased
  /\ EntriesKept' <=> written' = Noted' \cup long' \cup erased'
  BY DEF EntriesKept

LEMMA SleepsEntries ==
  ASSUME StoreInv, EntriesInv, Sleeps
  PROVE  EntriesInv'
<1>1. stage' = [stage EXCEPT !["service"] = stage'["service"]] /\ UNCHANGED <<runs, written>> /\ stage \in [Processes -> Stages]
  <2>1. UNCHANGED <<runs, written>>
    BY DEF Sleeps, SleepBegins, SleepThinks, WritesLong, WritesLesson, Clears, Marks, SavesMarks, Stamps, idleVars
  <2>2. UNCHANGED stage \/ \E s : Becomes("service", s)
    BY DEF Sleeps, SleepBegins, SleepThinks, WritesLong, WritesLesson, Clears, Marks, SavesMarks, Stamps, Past
  <2> QED BY <2>1, <2>2 DEF Becomes, StoreInv, StoreTypes, Processes
<1>2. RunsTyped'
  BY <1>1 DEF EntriesInv, RunsTyped, Ids
<1>3. \A s : Becomes("service", s) => stage'["service"] = s
  BY <1>1 DEF Becomes, Processes
<1>4. CASE SleepBegins
  <2>1. collected' = Noted /\ UNCHANGED <<short, long, erased>>
    BY <1>4 DEF SleepBegins, Noted
  <2>2. collected' \subseteq written'
    BY <1>1, <2>1, KeptMeans DEF EntriesInv
  <2>3. stage'["service"] = "thinks"
    BY <1>3, <1>4, StepsOf DEF SleepBegins, Past
  <2>4. files' \subseteq Ids
    BY <1>4, IdsOf DEF SleepBegins, StoreInv
  <2> QED BY <1>1, <1>2, <2>1, <2>2, <2>3, <2>4 DEF EntriesInv, EntriesKept, Noted, Ids, Entries
<1>5. CASE WritesLong
  <2>1. long' = long \cup collected /\ UNCHANGED <<short, collected, files, erased>>
    BY <1>5 DEF WritesLong
  <2>2. EntriesKept'
    BY <1>1, <2>1, KeptMeans, NotedIs DEF EntriesInv
  <2> QED BY <1>1, <1>2, <2>1, <2>2 DEF EntriesInv, Ids, Entries
<1>6. CASE Clears /\ files # {}
  <2>1. PICK i \in files : /\ short' = [short EXCEPT ![i] = {}] /\ erased' = erased \cup (short[i] \ collected)
                           /\ files' = files \ {i}
    BY <1>6 DEF Clears
  <2>2. UNCHANGED <<long, collected, stage>> /\ stage["service"] = "clears" /\ i \in Ids
    BY <1>6 DEF Clears, At, EntriesInv
  <2>3. collected \subseteq long
    BY <2>2 DEF EntriesInv
  <2>4. \A k \in Ids : short'[k] = IF k = i THEN {} ELSE short[k]
    BY <2>1, <2>2 DEF EntriesInv
  <2>5. \A e : e \in Noted' \cup long' \cup erased' <=> e \in Noted \cup long \cup erased
    BY <2>1, <2>2, <2>3, <2>4, NotedIs
  <2>6. EntriesKept'
    BY <1>1, <2>5, KeptMeans DEF EntriesInv
  <2>7. short' \in [Ids -> SUBSET Entries]
    BY <2>1, <2>2 DEF EntriesInv
  <2> QED BY <1>1, <1>2, <2>1, <2>2, <2>6, <2>7 DEF EntriesInv, Ids, Entries
<1>7. CASE WritesLesson \/ (Clears /\ files = {}) \/ SleepThinks \/ Marks \/ SavesMarks \/ Stamps
  <2>1. UNCHANGED <<short, collected, files, long, erased>>
    BY <1>7 DEF WritesLesson, Clears, SleepThinks, Marks, SavesMarks, Stamps, sleepVars
  <2>2. stage'["service"] \in {"lesson", "clears"} => stage["service"] \in {"lesson", "clears"}
    BY <1>3, <1>7, StepsOf DEF WritesLesson, Clears, SleepThinks, Marks, SavesMarks, Stamps, Past, At
  <2> QED BY <1>1, <1>2, <2>1, <2>2 DEF EntriesInv, EntriesKept, Noted, Ids, Entries
<1> QED BY <1>4, <1>5, <1>6, <1>7 DEF Sleeps

LEMMA NotesEntries ==
  ASSUME EntriesInv, NEW p \in Processes, Notes(p)
  PROVE  EntriesInv'
<1>1. PICK i \in runs[p], e \in Entries :
        written = 1 .. e - 1 /\ written' = 1 .. e /\ short' = [short EXCEPT ![i] = @ \cup {e}]
  BY DEF Notes
<1>2. UNCHANGED <<runs, collected, files, long, erased, stage>> /\ i \in Ids
  BY <1>1 DEF Notes, EntriesInv, RunsTyped, storeVars, sleepVars
<1>3. written' = written \cup {e}
  <2>1. e \in Nat /\ e > 0
    BY <1>1, SleepAssumption DEF Entries
  <2> QED BY <1>1, <2>1
<1>4. \A k \in Ids : short'[k] = IF k = i THEN short[i] \cup {e} ELSE short[k]
  BY <1>1, <1>2 DEF EntriesInv
<1>5. \A x : x \in Noted' <=> x \in Noted \/ x = e
  BY <1>2, <1>4, NotedIs
<1>6. EntriesKept'
  BY <1>2, <1>3, <1>5, KeptMeans DEF EntriesInv
<1>7. short' \in [Ids -> SUBSET Entries]
  BY <1>1, <1>2, <1>4 DEF EntriesInv
<1> QED BY <1>2, <1>3, <1>6, <1>7 DEF EntriesInv, RunsTyped, Ids, Entries

LEMMA EntriesStep ==
  ASSUME StoreInv, EntriesInv, Next
  PROVE  EntriesInv'
<1>1. CASE Sleeps
  BY <1>1, SleepsEntries
<1>2. CASE (\E p \in Processes : StoreAction(p)) /\ UNCHANGED <<sleepVars, short, written, erased>>
  <2>1. AwayFromSleep /\ RunsTyped'
    BY <1>2, StoreAside DEF EntriesInv
  <2> QED BY <1>2, <2>1 DEF EntriesInv, EntriesKept, Noted, AwayFromSleep, sleepVars, Ids, Entries
<1>3. CASE \E p \in Processes : Notes(p)
  BY <1>3, NotesEntries
<1>4. CASE NewDay
  BY <1>4 DEF NewDay, storeVars, EntriesInv, EntriesKept, Noted, RunsTyped, Ids, Entries
<1> QED BY <1>1, <1>2, <1>3, <1>4, NextIs

-----------------------------------------------------------------------------
LEMMA Starts0 ==
  ASSUME Init
  PROVE  SleepInv
<1> USE DEF Init, StoreInit
<1>1. stage = [p \in Processes |-> "down"] /\ table = <<>> /\ DOMAIN table = {} /\ made = 0
  OBVIOUS
<1>2. \A i, r : r \notin RowsOf(i)
  BY <1>1, RowsAre DEF Whole, Turning
<1>3. StoreTypes
  BY <1>1, StoreAssumption DEF StoreTypes, Stages, Whole, Making, Turning
<1>4. RowInv /\ HandInv
  BY <1>1, <1>2 DEF RowInv, HandInv, Turning, Making
<1>5. NamedInv /\ AttachedInv
  BY <1>1 DEF NamedInv, AttachedInv, Attached, Clash, Processes
<1>6. EntriesInv
  <2>1. Noted = {}
    BY NotedIs DEF Ids
  <2> QED BY <1>1, <2>1, KeptMeans DEF EntriesInv, RunsTyped, Processes
<1> QED BY <1>3, <1>4, <1>5, <1>6 DEF SleepInv, StoreInv

LEMMA StepKeeps ==
  ASSUME SleepInv, Next
  PROVE  SleepInv'
<1>1. PICK p \in Processes : Step(p)
  BY NextSteps DEF SleepInv
<1>2. History
  BY NextSteps DEF SleepInv
<1> QED BY <1>1, <1>2, StoreStep, NamedStep, AttachedStep, EntriesStep DEF SleepInv

LEMMA Stutters ==
  ASSUME SleepInv, UNCHANGED vars
  PROVE  SleepInv'
<1>1. UNCHANGED storeVars /\ UNCHANGED <<gen, orphans, revived, written, long, erased, short, collected, files>>
  BY DEF vars, sleepVars
<1>2. StoreInv'
  BY <1>1, Standing, StoreStep DEF SleepInv, StoreInv, StoreTypes, Processes
<1>3. NamedInv'
  BY <1>1 DEF SleepInv, NamedInv, Protected, Session, storeVars
<1>4. AttachedInv'
  BY <1>1 DEF SleepInv, AttachedInv, Attached, Clash, storeVars
<1>5. EntriesInv'
  BY <1>1 DEF SleepInv, EntriesInv, EntriesKept, Noted, RunsTyped, Ids, Entries, storeVars
<1> QED BY <1>2, <1>3, <1>4, <1>5 DEF SleepInv

(* The table of sessions, what the processes hold and the memory are       *)
(* consistent in every reachable state, for any number of sessions,        *)
(* entries and faults.                                                     *)
THEOREM SleepHolds == Spec => []SleepInv
<1>1. SleepInv /\ [Next]_vars => SleepInv'
  BY StepKeeps, Stutters
<1> QED BY Starts0, <1>1, PTL DEF Spec

(* What an agent has noted is not lost, wherever run_sleep ends: it is in  *)
(* a short memory, in the long one, or was noted while run_sleep emptied   *)
(* what it had read.                                                       *)
THEOREM EntriesAreKept == Spec => []EntriesKept
<1>1. SleepInv => EntriesKept
  BY DEF SleepInv, EntriesInv
<1> QED BY SleepHolds, <1>1, PTL

LEMMA AtMostOne ==
  ASSUME NEW S, \A a, b \in S : a = b
  PROVE  Cardinality(S) <= 1
<1>1. CASE S = {}
  BY <1>1, FS_EmptySet
<1>2. CASE S # {}
  <2>1. PICK a : a \in S
    BY <1>2
  <2>2. S = {a}
    BY <2>1
  <2> QED BY <2>2, FS_Singleton
<1> QED BY <1>1, <1>2

(* A channel never has two attached sessions, and the operator's chat      *)
(* none that no stale copy brought back, however the two processes write   *)
(* over each other.                                                        *)
THEOREM OneIsAttached == Spec => []OneAttached
<1>1. ASSUME SleepInv
      PROVE  OneAttached
  <2>1. \A i, j \in Attached("chat") : i = j
    BY <1>1 DEF SleepInv, AttachedInv, Attached, Clash
  <2>2. \A i, j \in Attached("service") \ revived : i = j
    BY <1>1 DEF SleepInv, AttachedInv
  <2> HIDE DEF Attached
  <2> QED BY <2>1, <2>2, AtMostOne DEF OneAttached
<1> QED BY SleepHolds, <1>1, PTL

(* Neither pruning, nor /new, nor a save of a whole state deletes a        *)
(* session of the service with a turn, or that is attached and has a       *)
(* thread; of local_chat's, none that was created to the end.              *)
THEOREM SessionsAreKept == Spec => SessionsKept
<1>1. ASSUME SleepInv, [Next]_vars
      PROVE  [\A i \in DOMAIN table \ DOMAIN table' :
                table[i].of = "service" \/ i \notin orphans =>
                    ~table[i].turn /\ (table[i].attached => ~table[i].thread)]_vars
  <2>1. CASE Next
    <3>1. PICK p \in Processes : Step(p)
      BY <1>1, <2>1, NextSteps DEF SleepInv
    <3> QED BY <1>1, <3>1, KeptStep DEF SleepInv, Kept
  <2> QED BY <1>1, <2>1
<1> QED BY SleepHolds, <1>1, PTL DEF Spec, SessionsKept

-----------------------------------------------------------------------------
(* What the sessions have been told.                                       *)

(* The rows of a session that count when nobody starts its turn. *)
Settled(i) == TableRows(i) \cup WholeRows(i)

(* There is a lesson of every generation, and of the next one before it is *)
(* counted.                                                                *)
LessonsInv ==
    /\ 1 .. gen \subseteq lessons
    /\ stage["service"] \in {"clears", "marks", "saves", "stamps"} => gen + 1 \in lessons

(* A row that needs no refresh was told what it counts as seen, and of a   *)
(* session in use that is everything.                                      *)
Fits(i, r) ==
    /\ r.seen <= gen
    /\ ~r.dirty => 1 .. r.seen \subseteq told[i]
    /\ r.attached /\ ~r.dirty => r.seen = gen

Knows(i, r) == r.thread => 1 .. r.seen \subseteq told[i]

Asked(i) == \E p \in Processes : stage[p] = "asks" /\ Session(p) = i

(* Who starts a turn is about to tell what was not told yet. *)
Completes(i, p) == Knows(i, copy[p].tracked) /\ 1 .. gen \subseteq told[i] \cup telling[p]

(* A thread knows what its row says, unless a turn is just being asked for. *)
SessionInv(i) ==
    /\ \A r \in RowsOf(i) : Fits(i, r)
    /\ Asked(i) \/ \A r \in Settled(i) : Knows(i, r)
    /\ \A p \in Processes : stage[p] \in Turning /\ Session(p) = i => Completes(i, p)

(* While run_sleep marks the sessions, what it holds is marked and what it *)
(* does not hold is new; then everything is marked.                        *)
MarkedRows(i) ==
    /\ stage["service"] = "stamps" => \A r \in TableRows(i) : r.attached => r.dirty
    /\ stage["service"] = "saves" =>
          IF i \in DOMAIN copy["service"] THEN copy["service"][i].attached => copy["service"][i].dirty
                                          ELSE \A r \in TableRows(i) : r.attached => r.dirty

ToldInv ==
    /\ DOMAIN told = Ids /\ DOMAIN telling = Processes
    /\ stage["chat"] \in ChatStages
    /\ LessonsInv
    /\ Endangered \subseteq slipped
    /\ \A i \in Ids \ slipped : SessionInv(i) /\ MarkedRows(i)

(* A row that claims no more than another one. *)
Lesser(row, r) ==
    /\ row.seen = r.seen
    /\ row.attached => r.attached
    /\ row.thread => r.thread
    /\ r.dirty => row.dirty

LEMMA LesserFits ==
  ASSUME NEW i, NEW row, NEW r, Lesser(row, r)
  PROVE  /\ Fits(i, r) => Fits(i, row)
         /\ Knows(i, r) => Knows(i, row)
  BY DEF Lesser, Fits, Knows

LEMMA LesserRows ==
  ASSUME NEW r \in Rows
  PROVE  /\ Lesser(r, r)
         /\ Lesser([r EXCEPT !.turn = FALSE], r)
         /\ Lesser([r EXCEPT !.attached = FALSE], r)
         /\ Lesser([r EXCEPT !.dirty = TRUE], r)
         /\ \A keeps \in BOOLEAN : Lesser([r EXCEPT !.turn = FALSE, !.thread = @ /\ keeps], r)
  BY DEF Lesser, Rows

LEMMA SettledAre ==
  \A i, r : r \in Settled(i) <=>
      \/ i \in DOMAIN table /\ r = table[i]
      \/ \E p \in Processes : stage[p] \in Whole /\ i \in DOMAIN copy[p] /\ r = copy[p][i]
<1> TAKE i, r
<1>1. r \in TableRows(i) <=> i \in DOMAIN table /\ r = table[i]
  BY DEF TableRows
<1>2. r \in WholeRows(i) <=> \E p \in Processes : stage[p] \in Whole /\ i \in DOMAIN copy[p] /\ r = copy[p][i]
  BY DEF WholeRows
<1> QED BY <1>1, <1>2 DEF Settled

LEMMA SettledWillBe ==
  \A i, r : r \in Settled(i)' <=>
      \/ i \in DOMAIN table' /\ r = table'[i]
      \/ \E p \in Processes : stage'[p] \in Whole /\ i \in DOMAIN copy'[p] /\ r = copy'[p][i]
<1> TAKE i, r
<1>1. r \in TableRows(i)' <=> i \in DOMAIN table' /\ r = table'[i]
  BY DEF TableRows
<1>2. r \in WholeRows(i)' <=> \E p \in Processes : stage'[p] \in Whole /\ i \in DOMAIN copy'[p] /\ r = copy'[p][i]
  BY DEF WholeRows, Whole
<1> QED BY <1>1, <1>2 DEF Settled

(* Where the row of a session in the table may come from, if its turn is   *)
(* not started then.                                                       *)
TableFrom(p, i, row) ==
    \/ i \in DOMAIN table /\ Lesser(row, table[i])
    \/ stage[p] \in Whole /\ i \in DOMAIN copy[p] /\ row = copy[p][i]
    \/ /\ stage[p] \in Turning /\ i = Session(p)
       /\ Lesser(row, copy[p].tracked) \/ (~row.thread /\ Lesser(row, copy[p].row))
    \/ Fresh(i, row)

(* A step of process p tells session i nothing. *)
QuietFor(p, i) ==
    /\ i \in DOMAIN table' => TableFrom(p, i, table'[i])
    /\ stage'[p] \in Whole /\ i \in DOMAIN copy'[p] =>
          \/ stage'[p] = stage[p] /\ copy'[p] = copy[p]
          \/ i \in DOMAIN table /\ Lesser(copy'[p][i], table[i])
    /\ stage'[p] \in Turning /\ copy'[p].id = i =>
          stage'[p] = stage[p] /\ copy'[p] = copy[p] /\ telling'[p] = telling[p]
    /\ stage[p] = "asks" /\ Session(p) = i =>
          \/ stage'[p] = "asks" /\ copy'[p] = copy[p]
          \/ i \in slipped'
          \/ p = "service" /\ stage'[p] = "idle" /\ i \in DOMAIN table' /\ Lesser(table'[i], copy[p].tracked)

LEMMA FreshFits ==
  ASSUME StoreInv, NEW i, NEW row, Fresh(i, row)
  PROVE  Fits(i, row) /\ Knows(i, row) /\ row.dirty /\ ~row.thread
<1>1. row.seen = 0 /\ row.dirty /\ ~row.thread
  BY DEF Fresh, NewRow
<1> QED BY <1>1 DEF Fits, Knows, StoreInv, StoreTypes

(* What a process may write back for a session fits it as what there is. *)
LEMMA TableFits ==
  ASSUME StoreInv, NEW p \in Processes, NEW i \in Ids, SessionInv(i), NEW row, TableFrom(p, i, row)
  PROVE  Fits(i, row) /\ (Asked(i) \/ Knows(i, row))
<1>1. CASE i \in DOMAIN table /\ Lesser(row, table[i])
  BY <1>1, LesserFits, RowsAre, SettledAre DEF SessionInv
<1>2. CASE stage[p] \in Whole /\ i \in DOMAIN copy[p] /\ row = copy[p][i]
  BY <1>2, RowsAre, SettledAre DEF SessionInv
<1>3. CASE /\ stage[p] \in Turning /\ i = Session(p)
           /\ Lesser(row, copy[p].tracked) \/ (~row.thread /\ Lesser(row, copy[p].row))
  <2>1. copy[p].tracked \in RowsOf(i) /\ copy[p].row \in RowsOf(i)
    BY <1>3, RowsAre
  <2>2. Knows(i, copy[p].tracked)
    BY <1>3 DEF SessionInv, Completes
  <2> QED BY <1>3, <2>1, <2>2, LesserFits DEF SessionInv, Knows
<1>4. CASE Fresh(i, row)
  BY <1>4, FreshFits
<1> QED BY <1>1, <1>2, <1>3, <1>4 DEF TableFrom

(* Who starts a turn of a session is the only one to. *)
LEMMA OneTurner ==
  ASSUME StoreInv, NEW p \in Processes, NEW q \in Processes,
         stage[p] \in Turning, stage[q] \in Turning, Session(p) = Session(q)
  PROVE  p = q
<1>1. PICK r : r = copy[p].row
  OBVIOUS
<1>2. r \in RowsOf(Session(p)) /\ r \in RowsOf(Session(q))
  BY <1>1, RowsAre
<1>3. r.of = p /\ r.of = q
  BY <1>2, TurnOwner
<1> QED BY <1>3

LEMMA SameFits ==
  ASSUME gen' = gen, NEW i, told'[i] = told[i], NEW r
  PROVE  (Fits(i, r)' <=> Fits(i, r)) /\ (Knows(i, r)' <=> Knows(i, r))
  BY DEF Fits, Knows

LEMMA QuietRows ==
  ASSUME StoreInv, NEW p \in Processes, Step(p), NEW i \in Ids, SessionInv(i), QuietFor(p, i), NEW row \in RowsOf(i)'
  PROVE  Fits(i, row)
<1>1. CASE i \in DOMAIN table' /\ row = table'[i]
  BY <1>1, TableFits DEF QuietFor
<1>2. ASSUME NEW q \in Processes, stage'[q] \in Whole, i \in DOMAIN copy'[q], row = copy'[q][i]
      PROVE  Fits(i, row)
  <2>1. CASE stage'[q] = stage[q] /\ copy'[q] = copy[q]
    BY <1>2, <2>1, RowsAre DEF SessionInv
  <2>2. CASE i \in DOMAIN table /\ Lesser(row, table[i])
    BY <2>2, RowsAre, LesserFits DEF SessionInv
  <2> QED BY <1>2, <2>1, <2>2 DEF QuietFor, Step
<1>3. ASSUME NEW q \in Processes, stage'[q] \in Turning, copy'[q].id = i, row \in {copy'[q].row, copy'[q].tracked}
      PROVE  Fits(i, row)
  <2>1. stage'[q] = stage[q] /\ copy'[q] = copy[q]
    BY <1>3 DEF QuietFor, Step
  <2> QED BY <1>3, <2>1, RowsAre DEF SessionInv, Session
<1> QED BY <1>1, <1>2, <1>3, RowsWillBe

LEMMA QuietSettled ==
  ASSUME StoreInv, ToldInv, NEW p \in Processes, Step(p), History, NEW i \in Ids \ slipped', QuietFor(p, i)
  PROVE  Asked(i)' \/ \A r \in Settled(i)' : Knows(i, r)
<1>1. i \notin slipped /\ SessionInv(i)
  BY DEF History, ToldInv
<1> SUFFICES ASSUME ~Asked(i)', NEW r \in Settled(i)'
             PROVE  Knows(i, r)
  OBVIOUS
<1>2. ~Asked(i)' => \A q \in Processes : ~(stage'[q] = "asks" /\ copy'[q].id = i)
  BY DEF Asked, Session
<1>3. CASE ~Asked(i)
  <2>1. CASE i \in DOMAIN table' /\ r = table'[i]
    BY <1>1, <1>3, <2>1, TableFits DEF QuietFor
  <2>2. ASSUME NEW q \in Processes, stage'[q] \in Whole, i \in DOMAIN copy'[q], r = copy'[q][i]
        PROVE  Knows(i, r)
    <3>1. CASE stage'[q] = stage[q] /\ copy'[q] = copy[q]
      BY <1>1, <1>3, <2>2, <3>1, SettledAre DEF SessionInv
    <3>2. CASE i \in DOMAIN table /\ Lesser(r, table[i])
      BY <1>1, <1>3, <3>2, SettledAre, LesserFits DEF SessionInv
    <3> QED BY <2>2, <3>1, <3>2 DEF QuietFor, Step
  <2> QED BY <2>1, <2>2, SettledWillBe
<1>4. CASE Asked(i)
  <2>1. PICK q \in Processes : stage[q] = "asks" /\ Session(q) = i
    BY <1>4 DEF Asked
  <2>2. q = p
    BY <1>2, <2>1 DEF Step, Session
  <2>3. p = "service" /\ stage'[p] = "idle" /\ i \in DOMAIN table' /\ Lesser(table'[i], copy[p].tracked)
    BY <1>2, <2>1, <2>2 DEF QuietFor, Session
  <2>4. Knows(i, table'[i])
    BY <1>1, <2>1, <2>2, <2>3, LesserFits DEF SessionInv, Completes, Turning
  <2>5. ASSUME NEW t \in Processes, stage'[t] \in Whole
        PROVE  FALSE
    <3>1. t = "chat" /\ stage["chat"] = stage'["chat"]
      BY <2>3, <2>5 DEF Step, Processes, Whole
    <3>2. stage["chat"] = "recovers"
      BY <3>1, <2>5 DEF ToldInv, ChatStages, Whole
    <3>3. i \in 1 .. made
      BY <2>1, IdsOf DEF StoreInv, Turning
    <3>4. i \in Endangered
      BY <2>1, <2>2, <2>3, <3>2, <3>3 DEF Endangered
    <3> QED BY <1>1, <3>4 DEF ToldInv
  <2> QED BY <2>4, <2>5, SettledWillBe
<1> QED BY <1>3, <1>4

(* A session that a step tells nothing knows what it knew. *)
LEMMA QuietSession ==
  ASSUME StoreInv, ToldInv, NEW p \in Processes, Step(p), History, NEW i \in Ids \ slipped', QuietFor(p, i),
         gen' = gen, told'[i] = told[i], \A q \in Processes \ {p} : telling'[q] = telling[q]
  PROVE  SessionInv(i)'
<1>1. i \notin slipped /\ SessionInv(i)
  BY DEF History, ToldInv
<1>2. \A r \in RowsOf(i)' : Fits(i, r)'
  BY <1>1, QuietRows, SameFits
<1>3. Asked(i)' \/ \A r \in Settled(i)' : Knows(i, r)'
  BY QuietSettled, SameFits
<1>4. ASSUME NEW q \in Processes, stage'[q] \in Turning, copy'[q].id = i
      PROVE  Completes(i, q)'
  <2>1. stage'[q] = stage[q] /\ copy'[q] = copy[q] /\ telling'[q] = telling[q]
    BY <1>4 DEF QuietFor, Step
  <2>2. Completes(i, q)
    BY <1>1, <1>4, <2>1 DEF SessionInv, Session
  <2> QED BY <2>1, <2>2 DEF Completes, Knows
<1> QED BY <1>2, <1>3, <1>4 DEF SessionInv, Turning, Session

-----------------------------------------------------------------------------
(* The steps that tell nothing, one by one.                                *)

LEMMA QuietEnd ==
  ASSUME NEW p \in Processes, History, stage'[p] \notin Whole \cup Turning, NEW i,
         i \in DOMAIN table' => TableFrom(p, i, table'[i]),
         stage[p] = "asks" /\ Session(p) = i =>
             \/ stage'[p] = "down"
             \/ p = "service" /\ stage'[p] = "idle" /\ i \in DOMAIN table' /\ Lesser(table'[i], copy[p].tracked)
  PROVE  QuietFor(p, i)
<1>1. stage[p] = "asks" /\ stage'[p] = "down" /\ Session(p) = i => i \in slipped'
  BY DEF History, Lost
<1> QED BY <1>1 DEF QuietFor, Turning

LEMMA SameTable ==
  ASSUME StoreInv, NEW p, NEW i \in DOMAIN table
  PROVE  TableFrom(p, i, table[i])
  BY TableRowIs, LesserRows DEF TableFrom

LEMMA QuietDeath ==
  ASSUME StoreInv, NEW p \in Processes, History, Dies(p), NEW i,
         i \in DOMAIN table' => TableFrom(p, i, table'[i])
  PROVE  QuietFor(p, i)
<1>1. stage'[p] = "down"
  BY DEF Dies, Becomes, StoreInv, StoreTypes
<1> QED BY <1>1, QuietEnd DEF Whole, Turning

LEMMA QuietReplaces ==
  ASSUME StoreInv, NEW p \in Processes, History, Replaces(p), NEW i
  PROVE  QuietFor(p, i)
<1>1. stage'[p] = "replaces" /\ stage[p] = "idle"
  BY DEF Replaces, Idle, Becomes, StoreInv, StoreTypes
<1>2. i \in DOMAIN table' => i \in DOMAIN table /\ table'[i] \in {table[i], [table[i] EXCEPT !.attached = FALSE]}
  BY DEF Replaces, Detached
<1>3. i \in DOMAIN table' => TableFrom(p, i, table'[i])
  BY <1>2, TableRowIs, LesserRows DEF TableFrom
<1> QED BY <1>1, <1>3, QuietEnd DEF Whole, Turning

LEMMA QuietMaking ==
  ASSUME StoreInv, NEW p \in Processes, History, NewSession(p) \/ Logs(p), NEW i
  PROVE  QuietFor(p, i)
<1>1. stage'[p] \in {"creates", "idle"} /\ stage[p] # "asks"
  BY DEF NewSession, FirstSession, Logs, Idle, Becomes, StoreInv, StoreTypes
<1>2. i \in DOMAIN table' => i \in DOMAIN table /\ table'[i] = table[i]
  BY DEF NewSession, Logs
<1> QED BY <1>1, <1>2, SameTable, QuietEnd DEF Whole, Turning

LEMMA QuietCreates ==
  ASSUME StoreInv, NEW p \in Processes, History, Creates(p), NEW i
  PROVE  QuietFor(p, i)
<1>1. CASE Dies(p) /\ UNCHANGED table
  BY <1>1, SameTable, QuietDeath
<1>2. CASE table' = WithRow(Session(p), NewRow(p)) /\ Becomes(p, "logs")
  <2>1. stage'[p] = "logs" /\ stage[p] = "creates"
    BY <1>2 DEF Creates, Becomes, StoreInv, StoreTypes
  <2>2. i \in DOMAIN table' => \/ i \in DOMAIN table /\ table'[i] = table[i]
                               \/ i = Session(p) /\ table'[i] = NewRow(p)
    BY <1>2 DEF WithRow
  <2>3. i \in DOMAIN table' => TableFrom(p, i, table'[i])
    BY <2>1, <2>2, SameTable DEF TableFrom, Fresh
  <2> QED BY <2>1, <2>3, QuietEnd DEF Whole, Turning
<1> QED BY <1>1, <1>2 DEF Creates

LEMMA QuietReads ==
  ASSUME StoreInv, NEW p \in Processes, History, Recovers(p) \/ (p = "service" /\ Prunes), NEW i
  PROVE  QuietFor(p, i)
<1>1. stage[p] # "asks" /\ table' = table
  BY DEF Recovers, Prunes, Idle
<1>2. stage'[p] \in {"idle", "recovers", "prunes"}
  BY DEF Recovers, Prunes, Becomes, StoreInv, StoreTypes
<1>3. ASSUME stage'[p] \in Whole, i \in DOMAIN copy'[p]
      PROVE  i \in DOMAIN table /\ Lesser(copy'[p][i], table[i])
  <2>1. copy'[p] = [k \in DOMAIN table \ Prunable(table) |-> table[k]] \/ \E stale : copy'[p] = Recovered(stale)
    BY <1>3 DEF Recovers, Prunes, Holds, Becomes, StoreInv, StoreTypes, Whole
  <2>2. i \in DOMAIN table /\ copy'[p][i] \in {table[i], [table[i] EXCEPT !.turn = FALSE]}
    BY <1>3, <2>1 DEF Recovered
  <2> QED BY <2>2, TableRowIs, LesserRows
<1> QED BY <1>1, <1>2, <1>3, SameTable DEF QuietFor, Turning

LEMMA QuietSaves ==
  ASSUME StoreInv, NEW p \in Processes, History, SavesState(p), NEW i
  PROVE  QuietFor(p, i)
<1>1. stage[p] \in Whole /\ stage[p] # "asks" /\ stage'[p] \in {"idle", "down"}
  BY DEF SavesState, Dies, Becomes, Whole, StoreInv, StoreTypes
<1>2. i \in DOMAIN table' => \/ i \in DOMAIN table /\ table'[i] = table[i]
                             \/ i \in DOMAIN copy[p] /\ table'[i] = copy[p][i]
  BY DEF SavesState, WithRows
<1>3. i \in DOMAIN table' => TableFrom(p, i, table'[i])
  BY <1>1, <1>2, SameTable DEF TableFrom
<1> QED BY <1>1, <1>3, QuietEnd DEF Whole, Turning

LEMMA QuietTurns ==
  ASSUME StoreInv, NEW p \in Processes, History, TurnEnds(p) \/ (p = "service" /\ (SteerFails \/ Interrupts)), NEW i
  PROVE  QuietFor(p, i)
<1>1. stage[p] = "idle" /\ stage'[p] \in {"idle", "down"}
  BY DEF TurnEnds, SteerFails, Interrupts, Idle, Dies, Becomes, StoreInv, StoreTypes
<1>2. table' = table \/ \E k \in DOMAIN table : table' = [table EXCEPT ![k].turn = FALSE]
  BY DEF TurnEnds, SteerFails, Interrupts, Attached
<1>3. i \in DOMAIN table' => i \in DOMAIN table /\ table'[i] \in {table[i], [table[i] EXCEPT !.turn = FALSE]}
  BY <1>2
<1>4. i \in DOMAIN table' => TableFrom(p, i, table'[i])
  BY <1>3, TableRowIs, LesserRows DEF TableFrom
<1> QED BY <1>1, <1>4, QuietEnd DEF Whole, Turning

LEMMA QuietQuits ==
  ASSUME StoreInv, NEW p \in Processes, History, Quits(p), NEW i
  PROVE  QuietFor(p, i)
  BY SameTable, QuietDeath DEF Quits

LEMMA QuietRefused ==
  ASSUME StoreInv, NEW p \in Processes, History, stage[p] \in Turning, Refused(p), p = "chat" => UNCHANGED table, NEW i
  PROVE  QuietFor(p, i)
<1>1. CASE p = "chat"
  BY <1>1, SameTable, QuietDeath DEF Refused
<1>2. CASE p = "service"
  <2>1. stage'[p] = "idle"
    BY <1>2 DEF Refused, Becomes, StoreInv, StoreTypes
  <2>2. PICK keeps \in BOOLEAN :
          table' = WithRow(Session(p), [copy[p].tracked EXCEPT !.turn = FALSE, !.thread = @ /\ keeps])
    BY <1>2 DEF Refused
  <2>3. Lesser([copy[p].tracked EXCEPT !.turn = FALSE, !.thread = @ /\ keeps], copy[p].tracked)
    BY InHand, LesserRows
  <2>4. /\ Session(p) \in DOMAIN table' /\ Lesser(table'[Session(p)], copy[p].tracked)
        /\ i \in DOMAIN table' => i = Session(p) \/ (i \in DOMAIN table /\ table'[i] = table[i])
    BY <2>2, <2>3 DEF WithRow
  <2>5. i \in DOMAIN table' => TableFrom(p, i, table'[i])
    BY <2>4, SameTable DEF TableFrom
  <2> QED BY <1>2, <2>1, <2>4, <2>5, QuietEnd DEF Whole, Turning
<1> QED BY <1>1, <1>2 DEF Processes

LEMMA QuietThreadFails ==
  ASSUME StoreInv, NEW p \in Processes, History, ThreadFails(p), NEW i
  PROVE  QuietFor(p, i)
<1>0. stage[p] \in Turning
  BY DEF ThreadFails, Turning
<1>1. CASE Refused(p) /\ (p = "chat" => UNCHANGED table)
  BY <1>0, <1>1, QuietRefused
<1>2. CASE Dies(p) /\ p = "chat" /\ Object(p).thread
  <2> DEFINE row == [copy[p].row EXCEPT !.thread = FALSE]
  <2>1. ~row.thread /\ Lesser(row, copy[p].row)
    <3>1. PICK r : r = copy[p].row
      OBVIOUS
    <3>2. r \in Rows
      BY <1>0, <3>1, InHand
    <3>3. row = [r EXCEPT !.thread = FALSE]
      BY <3>1
    <3> QED BY <3>1, <3>2, <3>3 DEF Lesser, Rows
  <2>2. table' = table \/ table' = WithRow(Session(p), row)
    BY <1>2 DEF ThreadFails, Object
  <2> HIDE DEF row
  <2>3. i \in DOMAIN table' => \/ i \in DOMAIN table /\ table'[i] = table[i]
                               \/ i = Session(p) /\ table'[i] = row
    BY <2>2 DEF WithRow
  <2>4. i \in DOMAIN table' => TableFrom(p, i, table'[i])
    BY <1>0, <2>1, <2>3, SameTable DEF TableFrom
  <2> QED BY <1>2, <2>4, QuietDeath
<1> QED BY <1>1, <1>2 DEF ThreadFails

-----------------------------------------------------------------------------
(* The steps of a turn that tells.                                         *)

(* The other sessions, while a turn of session j is started: nothing that  *)
(* they have changes.                                                      *)
LEMMA QuietOthers ==
  ASSUME StoreInv, NEW p \in Processes, NEW i, NEW j, i # j,
         table' = table \/ \E row : table' = WithRow(j, row),
         stage'[p] \notin Whole, stage'[p] \in Turning => copy'[p].id = j,
         stage[p] = "asks" => Session(p) = j
  PROVE  QuietFor(p, i)
<1>1. i \in DOMAIN table' => i \in DOMAIN table /\ table'[i] = table[i]
  BY DEF WithRow
<1> QED BY <1>1, SameTable DEF QuietFor

(* The input of the turn of a session in use: with what it tells, the      *)
(* session was told everything.                                            *)
LEMMA TellsTheRest ==
  ASSUME LessonsInv, gen \in Nat, NEW row \in Rows, NEW i, row.attached, Fits(i, row), Knows(i, row), NEW gs \in Tells(row)
  PROVE  1 .. gen \subseteq told[i] \cup gs
<1> SUFFICES ASSUME NEW g \in 1 .. gen, g \notin gs
             PROVE  g \in told[i]
  OBVIOUS
<1>1. row.seen \in Nat /\ row.seen <= gen
  BY DEF Rows, Fits
<1>2. CASE ~row.dirty
  BY <1>2 DEF Fits
<1>3. CASE row.dirty /\ ~row.thread
  BY <1>3 DEF Tells
<1>4. CASE row.dirty /\ row.thread /\ gen <= row.seen
  BY <1>1, <1>4 DEF Knows
<1>5. CASE row.dirty /\ row.thread /\ ~(gen <= row.seen)
  <2>1. gs = {k \in lessons : row.seen < k /\ k <= gen}
    BY <1>5 DEF Tells
  <2>2. g \in lessons /\ g <= gen
    BY DEF LessonsInv
  <2>3. g \in 1 .. row.seen
    BY <1>1, <2>1, <2>2
  <2> QED BY <1>5, <2>3 DEF Knows
<1> QED BY <1>2, <1>3, <1>4, <1>5

LEMMA CaughtUpFits ==
  ASSUME gen \in Nat, NEW row \in Rows, NEW i, Fits(i, row)
  PROVE  Fits(i, CaughtUp(row))
  BY DEF CaughtUp, Fits, Rows

LEMMA ArrivalTells ==
  ASSUME StoreInv, ToldInv, NEW p \in Processes, Step(p), MessageArrives(p), NEW i \in Ids \ slipped'
  PROVE  SessionInv(i)'
<1>0. i \notin slipped /\ SessionInv(i) /\ gen \in Nat /\ gen' = gen /\ told' = told /\ DOMAIN telling = Processes /\ History
  BY DEF MessageArrives, History, ToldInv, sleepVars, StoreInv, StoreTypes
<1>j. PICK j \in Attached(p) :
        /\ Begins(p, j, CaughtUp(table[j]))
        /\ \E gs \in Tells(table[j]) : telling' = [telling EXCEPT ![p] = gs]
  BY DEF MessageArrives
<1>1. PICK gs \in Tells(table[j]) : telling' = [telling EXCEPT ![p] = gs]
  BY <1>j
<1>2. /\ stage'[p] = "begun" /\ stage[p] = "idle" /\ table' = table
      /\ copy'[p] = [id |-> j, row |-> CaughtUp(table[j]), tracked |-> table[j]]
      /\ \A q \in Processes \ {p} : stage'[q] = stage[q] /\ copy'[q] = copy[q] /\ telling'[q] = telling[q]
      /\ telling'[p] = gs
  BY <1>0, <1>j, <1>1 DEF Begins, Idle, Becomes, Holds, StoreInv, StoreTypes
<1>3. j \in DOMAIN table /\ table[j].of = p /\ table[j].attached /\ table[j] \in Rows /\ table[j] \in RowsOf(j) /\ j \in Ids
  BY <1>1, TableRowIs DEF Attached
<1>4. CASE i # j
  <2>1. QuietFor(p, i)
    BY <1>2, <1>4, QuietOthers DEF Whole, Turning
  <2> QED BY <1>0, <1>2, <2>1, QuietSession
<1>5. CASE i = j
  <2>1. ~Asked(j)
    <3>1. ASSUME NEW q \in Processes, stage[q] = "asks", Session(q) = j
          PROVE  FALSE
      BY <1>2, <1>3, <3>1, TurnOwner DEF Turning
    <3> QED BY <3>1 DEF Asked
  <2>2. Fits(j, table[j]) /\ Knows(j, table[j])
    BY <1>0, <1>3, <1>5, <2>1, SettledAre DEF SessionInv
  <2>3. Fits(j, CaughtUp(table[j])) /\ 1 .. gen \subseteq told[j] \cup gs
    BY <1>0, <1>1, <1>3, <2>2, CaughtUpFits, TellsTheRest DEF ToldInv
  <2>4. ASSUME NEW r \in RowsOf(j)'
        PROVE  Fits(j, r)'
    <3>1. r \in RowsOf(j) \/ r \in {CaughtUp(table[j]), table[j]}
      <4>1. CASE j \in DOMAIN table' /\ r = table'[j]
        BY <1>2, <4>1
      <4>2. ASSUME NEW q \in Processes, stage'[q] \in Whole, j \in DOMAIN copy'[q], r = copy'[q][j]
            PROVE  r \in RowsOf(j)
        BY <1>2, <4>2, RowsAre DEF Whole
      <4>3. ASSUME NEW q \in Processes, stage'[q] \in Turning, copy'[q].id = j, r \in {copy'[q].row, copy'[q].tracked}
            PROVE  r \in RowsOf(j) \/ r \in {CaughtUp(table[j]), table[j]}
        <5>1. CASE q = p
          BY <1>2, <4>3, <5>1
        <5>2. CASE q # p
          BY <1>2, <4>3, <5>2, RowsAre DEF Session
        <5> QED BY <5>1, <5>2
      <4> QED BY <4>1, <4>2, <4>3, RowsWillBe
    <3> QED BY <1>0, <1>5, <2>2, <2>3, <3>1, SameFits DEF SessionInv
  <2>5. \A r \in Settled(j)' : Knows(j, r)'
    <3>1. \A r \in Settled(j)' : r \in Settled(j)
      BY <1>2, SettledAre, SettledWillBe DEF Whole
    <3> QED BY <1>0, <1>5, <2>1, <3>1, SameFits DEF SessionInv
  <2>6. ASSUME NEW q \in Processes, stage'[q] \in Turning, copy'[q].id = j
        PROVE  Completes(j, q)'
    <3>1. CASE q = p
      <4>1. copy'[p].tracked = table[j]
        BY <1>2
      <4> QED BY <1>0, <1>2, <2>2, <2>3, <3>1, <4>1 DEF Completes, Knows
    <3>2. CASE q # p
      <4>1. Completes(j, q)
        BY <1>0, <1>2, <1>5, <2>6, <3>2 DEF SessionInv, Session
      <4> QED BY <1>0, <1>2, <3>2, <4>1 DEF Completes, Knows
    <3> QED BY <3>1, <3>2
  <2> QED BY <1>5, <2>4, <2>5, <2>6 DEF SessionInv, Turning, Session
<1> QED BY <1>4, <1>5

(* The session of a process that opens its thread. *)
Opened(p) == [copy[p].row EXCEPT !.thread = TRUE]

LEMMA OpenedFits ==
  ASSUME StoreInv, NEW p \in Processes, stage[p] \in Turning, NEW i, Fits(i, copy[p].row)
  PROVE  Fits(i, Opened(p))
<1>1. PICK r : r = copy[p].row
  OBVIOUS
<1>2. r \in Rows /\ Opened(p) = [r EXCEPT !.thread = TRUE] /\ Fits(i, r)
  BY <1>1, InHand DEF Opened
<1> QED BY <1>2 DEF Fits, Rows

LEMMA ThreadTells ==
  ASSUME StoreInv, ToldInv, NEW p \in Processes, Step(p), ThreadReady(p), NEW i \in Ids \ slipped'
  PROVE  SessionInv(i)'
<1>0. /\ i \notin slipped /\ SessionInv(i) /\ gen' = gen /\ told' = told /\ DOMAIN telling = Processes /\ History
      /\ \A q \in Processes \ {p} : telling'[q] = telling[q]
  BY DEF ThreadReady, Forgets, History, ToldInv, sleepVars
<1>1. stage[p] = "begun" /\ stage[p] \in Turning
  BY DEF ThreadReady, OpensThread, Turning
<1>2. CASE Dies(p) /\ UNCHANGED table
  BY <1>0, <1>2, SameTable, QuietDeath, QuietSession
<1>3. CASE /\ table' = WithRow(Session(p), Opened(p))
           /\ Holds(p, [copy[p] EXCEPT !.row = Opened(p)]) /\ Becomes(p, "asks")
  <2>1. /\ stage'[p] = "asks" /\ telling' = telling
        /\ \A q \in Processes \ {p} : stage'[q] = stage[q] /\ copy'[q] = copy[q]
    BY <1>3 DEF ThreadReady, Becomes, Holds, StoreInv, StoreTypes
  <2>2. copy'[p].id = Session(p) /\ copy'[p].row = Opened(p) /\ copy'[p].tracked = copy[p].tracked
    <3>1. PICK h : h = copy[p]
      OBVIOUS
    <3>2. h \in [id : 1 .. made, row : Rows, tracked : Rows]
      BY <1>1, <3>1 DEF StoreInv, StoreTypes
    <3>3. copy'[p] = [h EXCEPT !.row = Opened(p)]
      BY <1>3, <3>1 DEF Holds, StoreInv, StoreTypes
    <3>4. copy'[p].id = h.id /\ copy'[p].row = Opened(p) /\ copy'[p].tracked = h.tracked
      BY <3>2, <3>3
    <3> QED BY <3>1, <3>4 DEF Session
  <2>3. CASE i # Session(p)
    <3>1. QuietFor(p, i)
      BY <1>1, <1>3, <2>1, <2>2, <2>3, QuietOthers DEF Whole
    <3> QED BY <1>0, <3>1, QuietSession
  <2>4. CASE i = Session(p)
    <3>1. Fits(i, Opened(p)) /\ Completes(i, p)
      BY <1>0, <1>1, <2>4, OpenedFits, RowsAre DEF SessionInv
    <3>2. ASSUME NEW r \in RowsOf(i)'
          PROVE  r \in RowsOf(i) \/ r = Opened(p)
      <4>1. CASE i \in DOMAIN table' /\ r = table'[i]
        BY <1>3, <2>4, <4>1 DEF WithRow
      <4>2. ASSUME NEW q \in Processes, stage'[q] \in Whole, i \in DOMAIN copy'[q], r = copy'[q][i]
            PROVE  r \in RowsOf(i)
        BY <2>1, <4>2, RowsAre DEF Whole
      <4>3. ASSUME NEW q \in Processes, stage'[q] \in Turning, copy'[q].id = i, r \in {copy'[q].row, copy'[q].tracked}
            PROVE  r \in RowsOf(i) \/ r = Opened(p)
        <5>1. CASE q = p
          BY <1>1, <2>2, <2>4, <4>3, <5>1, RowsAre
        <5>2. CASE q # p
          BY <2>1, <4>3, <5>2, RowsAre DEF Session
        <5> QED BY <5>1, <5>2
      <4> QED BY <4>1, <4>2, <4>3, RowsWillBe
    <3>3. \A r \in RowsOf(i)' : Fits(i, r)'
      BY <1>0, <3>1, <3>2, SameFits DEF SessionInv
    <3>4. Asked(i)'
      BY <2>1, <2>2, <2>4 DEF Asked, Session
    <3>5. ASSUME NEW q \in Processes, stage'[q] \in Turning, copy'[q].id = i
          PROVE  Completes(i, q)'
      <4>1. Completes(i, q) /\ copy'[q].tracked = copy[q].tracked
        BY <1>0, <2>1, <2>2, <3>1, <3>5 DEF SessionInv, Session
      <4> QED BY <1>0, <2>1, <4>1 DEF Completes, Knows
    <3> QED BY <3>3, <3>4, <3>5 DEF SessionInv, Turning, Session
  <2> QED BY <2>3, <2>4
<1> QED BY <1>2, <1>3 DEF ThreadReady, OpensThread, Object, Opened

(* The session of a process whose turn has started. *)
Begun(p) == [copy[p].row EXCEPT !.turn = TRUE, !.dirty = FALSE, !.seen = gen]

LEMMA TurnTells ==
  ASSUME StoreInv, ToldInv, NEW p \in Processes, Step(p), TurnRegistered(p), NEW i \in Ids \ slipped'
  PROVE  SessionInv(i)'
<1>0. /\ i \notin slipped /\ SessionInv(i) /\ gen \in Nat /\ gen' = gen /\ History
      /\ \A q \in Processes \ {p} : telling'[q] = telling[q]
      /\ told' = [told EXCEPT ![Session(p)] = @ \cup telling[p]] /\ DOMAIN told = Ids
      /\ DOMAIN telling = Processes
  BY DEF TurnRegistered, Forgets, History, ToldInv, sleepVars, StoreInv, StoreTypes
<1>1. stage[p] = "asks" /\ stage[p] \in Turning /\ Session(p) \in Ids
  BY IdsOf DEF TurnRegistered, TurnStarts, Turning, StoreInv
<1>2. (Dies(p) /\ UNCHANGED table) \/ (table' = WithRow(Session(p), Begun(p)) /\ Becomes(p, "idle"))
  BY DEF TurnRegistered, TurnStarts, Object, Begun
<1>3. stage'[p] \in {"idle", "down"} /\ \A q \in Processes \ {p} : stage'[q] = stage[q] /\ copy'[q] = copy[q]
  BY <1>2 DEF Dies, Becomes, StoreInv, StoreTypes, Step
<1>4. CASE i # Session(p)
  <2>1. QuietFor(p, i)
    BY <1>1, <1>2, <1>3, <1>4, QuietOthers DEF Whole, Turning
  <2>2. told'[i] = told[i]
    BY <1>0, <1>4
  <2> QED BY <1>0, <2>1, <2>2, QuietSession
<1>5. CASE i = Session(p) /\ Dies(p)
  <2>1. stage'[p] = "down"
    BY <1>5 DEF Dies, Becomes, StoreInv, StoreTypes
  <2>2. i \in Lost
    BY <1>1, <1>5, <2>1 DEF Lost
  <2> QED BY <1>0, <2>2 DEF History
<1>6. CASE i = Session(p) /\ table' = WithRow(i, Begun(p))
  <2>1. told'[i] = told[i] \cup telling[p] /\ 1 .. gen \subseteq told'[i]
    BY <1>0, <1>1, <1>6 DEF SessionInv, Completes
  <2>2. Begun(p).seen = gen
    <3>1. PICK r : r = copy[p].row
      OBVIOUS
    <3>2. r \in Rows /\ Begun(p) = [r EXCEPT !.turn = TRUE, !.dirty = FALSE, !.seen = gen]
      BY <1>1, <3>1, InHand DEF Begun
    <3> QED BY <1>0, <3>2 DEF Rows
  <2>3. ASSUME NEW r \in RowsOf(i)'
        PROVE  r \in RowsOf(i) \/ r = Begun(p)
    <3>1. CASE i \in DOMAIN table' /\ r = table'[i]
      BY <1>6, <3>1 DEF WithRow
    <3>2. ASSUME NEW q \in Processes, stage'[q] \in Whole, i \in DOMAIN copy'[q], r = copy'[q][i]
          PROVE  r \in RowsOf(i)
      BY <1>3, <3>2, RowsAre DEF Whole
    <3>3. ASSUME NEW q \in Processes, stage'[q] \in Turning, copy'[q].id = i, r \in {copy'[q].row, copy'[q].tracked}
          PROVE  r \in RowsOf(i)
      BY <1>3, <3>3, RowsAre DEF Session, Turning
    <3> QED BY <3>1, <3>2, <3>3, RowsWillBe
  <2>4. ASSUME NEW r \in RowsOf(i)'
        PROVE  Fits(i, r)' /\ Knows(i, r)'
    <3>1. CASE r = Begun(p)
      BY <1>0, <2>1, <2>2, <3>1 DEF Fits, Knows
    <3>2. CASE r \in RowsOf(i)
      <4>1. Fits(i, r) /\ r \in Rows
        BY <1>0, <3>2 DEF SessionInv, StoreInv, RowInv
      <4>2. r.seen \in Nat /\ r.seen <= gen
        BY <4>1 DEF Fits, Rows
      <4>3. 1 .. r.seen \subseteq told'[i]
        BY <1>0, <2>1, <4>2
      <4> QED BY <1>0, <4>1, <4>3 DEF Fits, Knows
    <3> QED BY <2>3, <3>1, <3>2
  <2>5. \A r \in Settled(i)' : r \in RowsOf(i)'
    BY SettledWillBe, RowsWillBe
  <2>6. ASSUME NEW q \in Processes, stage'[q] \in Turning, copy'[q].id = i
        PROVE  FALSE
    <3>1. q # p
      BY <1>3, <2>6 DEF Turning
    <3>2. stage[q] \in Turning /\ Session(q) = Session(p)
      BY <1>3, <1>6, <2>6, <3>1 DEF Session
    <3> QED BY <1>1, <3>1, <3>2, OneTurner
  <2> QED BY <2>4, <2>5, <2>6 DEF SessionInv, Turning, Session
<1> QED BY <1>2, <1>4, <1>5, <1>6

-----------------------------------------------------------------------------
(* What run_sleep marks.                                                   *)

(* While the service marks the sessions, local_chat brings no row back,    *)
(* nor starts a turn, of a session that is not in the race.                *)
LEMMA MarkedByChat ==
  ASSUME StoreInv, ToldInv, Step("chat"), History, NEW i \in Ids \ slipped',
         i \in DOMAIN table' /\ ~(stage["chat"] \in Turning /\ Session("chat") = i) => TableFrom("chat", i, table'[i])
  PROVE  MarkedRows(i)'
<1>1. i \notin slipped /\ MarkedRows(i) /\ Endangered \subseteq slipped /\ stage["chat"] \in ChatStages
  BY DEF History, ToldInv
<1>2. stage'["service"] = stage["service"] /\ copy'["service"] = copy["service"] /\ DOMAIN table' \subseteq 1 .. made
  BY DEF Step, Processes
<1>3. ASSUME stage["service"] \in {"saves", "stamps"}, i \in DOMAIN table'
      PROVE  (i \in DOMAIN table /\ Lesser(table'[i], table[i])) \/ table'[i].dirty
  <2>1. i \in 1 .. made /\ i \notin Endangered
    BY <1>1, <1>2, <1>3
  <2>2. stage["chat"] # "recovers" /\ ~(stage["chat"] \in Turning /\ Session("chat") = i)
    BY <1>3, <2>1 DEF Endangered, Turning
  <2>3. stage["chat"] \notin Whole
    BY <1>1, <2>2 DEF ChatStages, Whole
  <2>4. \/ i \in DOMAIN table /\ Lesser(table'[i], table[i])
        \/ Fresh(i, table'[i])
    BY <1>3, <2>2, <2>3 DEF TableFrom
  <2> QED BY <2>4, FreshFits
<1>4. \A r : r \in TableRows(i)' <=> i \in DOMAIN table' /\ r = table'[i]
  BY DEF TableRows
<1>5. \A r : r \in TableRows(i) <=> i \in DOMAIN table /\ r = table[i]
  BY DEF TableRows
<1> QED BY <1>1, <1>2, <1>3, <1>4, <1>5 DEF MarkedRows, Lesser

LEMMA MarkedElsewhere ==
  ASSUME NEW i, stage'["service"] \notin {"saves", "stamps"}
  PROVE  MarkedRows(i)'
  BY DEF MarkedRows

LEMMA MarksMark ==
  ASSUME StoreInv, Marks, NEW i
  PROVE  MarkedRows(i)'
<1>1. \A r : r \in TableRows(i)' <=> i \in DOMAIN table' /\ r = table'[i]
  BY DEF TableRows
<1>2. CASE (\E j \in DOMAIN table : table[j].attached) /\ Past("marks") /\ Holds("service", Marked)
  <2>1. stage'["service"] = "saves" /\ copy'["service"] = Marked /\ table' = table
    BY <1>2, StepsOf DEF Marks, Past, Becomes, Holds, StoreInv, StoreTypes, Processes
  <2>2. DOMAIN Marked = DOMAIN table
    BY DEF Marked
  <2>3. i \in DOMAIN table => (Marked[i].attached => Marked[i].dirty)
    BY TableRowIs DEF Marked, Rows
  <2> QED BY <1>1, <2>1, <2>2, <2>3 DEF MarkedRows
<1>3. CASE ~(\E j \in DOMAIN table : table[j].attached) /\ Past("none")
  <2>1. stage'["service"] = "stamps" /\ table' = table
    BY <1>3, StepsOf DEF Marks, Past, Becomes, StoreInv, StoreTypes, Processes
  <2> QED BY <1>1, <1>3, <2>1 DEF MarkedRows
<1> QED BY <1>2, <1>3 DEF Marks

LEMMA SavedMarks ==
  ASSUME StoreInv, SavesMarks, NEW i, MarkedRows(i)
  PROVE  MarkedRows(i)'
<1>1. \A r : r \in TableRows(i)' <=> i \in DOMAIN table' /\ r = table'[i]
  BY DEF TableRows
<1>2. \A r : r \in TableRows(i) <=> i \in DOMAIN table /\ r = table[i]
  BY DEF TableRows
<1>3. CASE Becomes("service", "idle")
  BY <1>3, MarkedElsewhere DEF Becomes, StoreInv, StoreTypes, Processes
<1>4. CASE Past("saves") /\ table' = WithRows(copy["service"])
  <2>1. stage["service"] = "saves" /\ stage'["service"] = "stamps"
    BY <1>4, StepsOf DEF SavesMarks, At, Past, Becomes, StoreInv, StoreTypes, Processes
  <2>2. i \in DOMAIN table' => \/ i \in DOMAIN copy["service"] /\ table'[i] = copy["service"][i]
                               \/ i \notin DOMAIN copy["service"] /\ i \in DOMAIN table /\ table'[i] = table[i]
    BY <1>4 DEF WithRows
  <2> QED BY <1>1, <1>2, <2>1, <2>2 DEF MarkedRows
<1> QED BY <1>3, <1>4 DEF SavesMarks

-----------------------------------------------------------------------------
(* The steps of run_sleep.                                                 *)

LEMMA SleepStage ==
  ASSUME StoreInv, Sleeps
  PROVE  /\ UNCHANGED <<made, tellVars>> /\ stage'["chat"] = stage["chat"]
         /\ stage["service"] # "asks" /\ stage'["service"] \notin Turning
<1>1. UNCHANGED <<made, tellVars>>
  BY DEF Sleeps, SleepBegins, SleepThinks, WritesLong, WritesLesson, Clears, Marks, SavesMarks, Stamps, idleVars
<1>2. stage["service"] # "asks"
  BY DEF Sleeps, SleepBegins, SleepThinks, WritesLong, WritesLesson, Clears, Marks, SavesMarks, Stamps, At, Idle
<1>3. \/ stage' = stage /\ stage["service"] = "clears"
      \/ \E s \in Sleeping \cup {"saves", "idle"} : Becomes("service", s)
  BY StepsOf DEF Sleeps, SleepBegins, SleepThinks, WritesLong, WritesLesson, Clears, Marks, SavesMarks, Stamps, At, Past, Sleeping
<1> QED BY <1>1, <1>2, <1>3 DEF Becomes, StoreInv, StoreTypes, Processes, Sleeping, Turning

LEMMA SleepLessons ==
  ASSUME StoreInv, LessonsInv, Sleeps
  PROVE  LessonsInv'
<1>0. gen \in Nat /\ \A s : Becomes("service", s) => stage'["service"] = s
  BY DEF Becomes, StoreInv, StoreTypes, Processes
<1>1. CASE SleepBegins \/ SleepThinks \/ WritesLong
  <2>1. stage'["service"] \in {"thinks", "long", "idle", "lesson"} /\ UNCHANGED <<gen, lessons>>
    BY <1>0, <1>1, StepsOf DEF SleepBegins, SleepThinks, WritesLong, Past, sleepVars
  <2> QED BY <2>1 DEF LessonsInv
<1>2. CASE WritesLesson
  BY <1>0, <1>2 DEF WritesLesson, LessonsInv
<1>3. CASE Clears \/ Marks \/ SavesMarks
  <2>1. stage["service"] \in {"clears", "marks", "saves"} /\ UNCHANGED <<gen, lessons>>
    BY <1>3 DEF Clears, Marks, SavesMarks, At, sleepVars
  <2> QED BY <2>1 DEF LessonsInv
<1>4. CASE Stamps
  <2>1. stage["service"] = "stamps" /\ stage'["service"] = "idle" /\ gen' = gen + 1 /\ lessons' = lessons
    BY <1>0, <1>4, StepsOf DEF Stamps, At, Past
  <2> QED BY <1>0, <2>1 DEF LessonsInv
<1> QED BY <1>1, <1>2, <1>3, <1>4 DEF Sleeps

LEMMA SleepQuiet ==
  ASSUME StoreInv, Sleeps, NEW i
  PROVE  QuietFor("service", i)
<1>0. "service" \in Processes
  BY DEF Processes
<1>1. stage["service"] # "asks" /\ stage'["service"] \notin Turning
  BY SleepStage
<1>2. i \in DOMAIN table' => TableFrom("service", i, table'[i])
  <2>1. CASE SavesMarks
    <3>1. stage["service"] \in Whole
      BY <2>1 DEF SavesMarks, At, Whole
    <3>2. i \in DOMAIN table' => \/ i \in DOMAIN table /\ table'[i] = table[i]
                                 \/ i \in DOMAIN copy["service"] /\ table'[i] = copy["service"][i]
      BY <2>1 DEF SavesMarks, WithRows
    <3> QED BY <3>1, <3>2, SameTable DEF TableFrom
  <2>2. CASE ~SavesMarks
    <3>1. table' = table
      BY <2>2 DEF Sleeps, SleepBegins, SleepThinks, WritesLong, WritesLesson, Clears, Marks, Stamps, idleVars
    <3> QED BY <3>1, SameTable
  <2> QED BY <2>1, <2>2
<1>3. ASSUME stage'["service"] \in Whole, i \in DOMAIN copy'["service"]
      PROVE  i \in DOMAIN table /\ Lesser(copy'["service"][i], table[i])
  <2>1. Marks /\ Holds("service", Marked)
    <3>1. stage'["service"] = "saves"
      <4>1. \/ UNCHANGED stage /\ stage["service"] = "clears"
            \/ \E s \in Sleeping \cup {"saves", "idle"} : Becomes("service", s)
        BY StepsOf DEF Sleeps, SleepBegins, SleepThinks, WritesLong, WritesLesson, Clears, Marks, SavesMarks, Stamps, At, Past, Sleeping
      <4> QED BY <1>3, <4>1 DEF Becomes, StoreInv, StoreTypes, Processes, Sleeping, Whole
    <3>2. \A s : Becomes("service", s) => stage'["service"] = s
      BY DEF Becomes, StoreInv, StoreTypes, Processes
    <3> QED BY <3>1, <3>2, StepsOf DEF Sleeps, SleepBegins, SleepThinks, WritesLong, WritesLesson, Clears, Marks, SavesMarks, Stamps, At, Past
  <2>2. i \in DOMAIN table /\ copy'["service"][i] \in {table[i], [table[i] EXCEPT !.dirty = TRUE]}
    BY <1>0, <1>3, <2>1 DEF Holds, Marked, StoreInv, StoreTypes
  <2> QED BY <2>2, TableRowIs, LesserRows
<1> QED BY <1>1, <1>2, <1>3 DEF QuietFor

(* The generation is counted when every session in use is marked. *)
LEMMA StampTells ==
  ASSUME StoreInv, ToldInv, Step("service"), Stamps, NEW i \in Ids \ slipped'
  PROVE  SessionInv(i)' /\ MarkedRows(i)'
<1>0. /\ i \notin slipped /\ SessionInv(i) /\ MarkedRows(i) /\ Endangered \subseteq slipped /\ stage["chat"] \in ChatStages
      /\ gen \in Nat /\ gen' = gen + 1 /\ UNCHANGED <<told, telling, table, copy>>
  BY DEF Stamps, History, ToldInv, idleVars, tellVars, StoreInv, StoreTypes
<1>1. stage["service"] = "stamps" /\ stage'["service"] = "idle" /\ stage'["chat"] = stage["chat"]
  BY StepsOf DEF Stamps, At, Past, Becomes, StoreInv, StoreTypes, Processes
<1>2. ASSUME NEW q \in Processes, stage'[q] \in Whole, i \in DOMAIN copy[q]
      PROVE  FALSE
  <2>1. q = "chat" /\ stage["chat"] = "recovers"
    BY <1>0, <1>1, <1>2 DEF Processes, ChatStages, Whole
  <2>2. i \in 1 .. made
    BY <1>1, <1>2, <2>1 DEF StoreInv, StoreTypes, Whole
  <2> QED BY <1>0, <1>1, <2>1, <2>2 DEF Endangered
<1>3. ASSUME NEW q \in Processes, stage'[q] \in Turning, copy[q].id = i
      PROVE  FALSE
  <2>1. q = "chat" /\ stage["chat"] \in Turning
    BY <1>1, <1>3 DEF Processes, Turning
  <2>2. i \in 1 .. made
    BY <1>3, <2>1, IdsOf DEF StoreInv, Session
  <2> QED BY <1>0, <1>1, <1>3, <2>1, <2>2 DEF Endangered, Session, Turning
<1>4. ASSUME NEW r, i \in DOMAIN table, r = table[i]
      PROVE  Fits(i, r)' /\ (r.thread => 1 .. r.seen \subseteq told[i])
  <2>1. Fits(i, r) /\ r.seen \in Nat
    BY <1>0, <1>4, TableRowIs DEF SessionInv, Rows
  <2>2. r.attached => r.dirty
    BY <1>0, <1>1, <1>4 DEF MarkedRows, TableRows
  <2>3. ~Asked(i)
    <3>1. ASSUME NEW q \in Processes, stage[q] = "asks", Session(q) = i
          PROVE  FALSE
      BY <1>1, <1>3, <3>1 DEF Processes, Session, Turning
    <3> QED BY <3>1 DEF Asked
  <2>4. Knows(i, r)
    BY <1>0, <1>4, <2>3, SettledAre DEF SessionInv
  <2> QED BY <1>0, <2>1, <2>2, <2>4 DEF Fits, Knows
<1>5. \A r \in RowsOf(i)' : Fits(i, r)'
  BY <1>0, <1>2, <1>3, <1>4, RowsWillBe
<1>6. \A r \in Settled(i)' : Knows(i, r)'
  BY <1>0, <1>2, <1>4, SettledWillBe DEF Knows
<1> QED BY <1>0, <1>1, <1>3, <1>5, <1>6, MarkedElsewhere DEF SessionInv, Turning, Session

LEMMA SleepTells ==
  ASSUME StoreInv, ToldInv, Step("service"), History, Sleeps, NEW i \in Ids \ slipped'
  PROVE  SessionInv(i)' /\ MarkedRows(i)'
<1>0. "service" \in Processes /\ i \notin slipped /\ MarkedRows(i)
  BY DEF Processes, History, ToldInv
<1>1. CASE Stamps
  BY <1>1, StampTells
<1>2. CASE ~Stamps
  <2>1. gen' = gen /\ UNCHANGED <<told, telling>>
    BY <1>2 DEF Sleeps, SleepBegins, SleepThinks, WritesLong, WritesLesson, Clears, Marks, SavesMarks, sleepVars, tellVars
  <2>2. SessionInv(i)'
    BY <1>0, <2>1, SleepQuiet, QuietSession
  <2>3. CASE Marks
    BY <2>2, <2>3, MarksMark
  <2>4. CASE SavesMarks
    BY <1>0, <2>2, <2>4, SavedMarks
  <2>5. CASE SleepBegins \/ SleepThinks \/ WritesLong \/ WritesLesson \/ Clears
    <3>1. stage'["service"] \in {"thinks", "idle", "long", "lesson", "clears", "marks"}
      BY <2>5, StepsOf DEF SleepBegins, SleepThinks, WritesLong, WritesLesson, Clears, At, Past, Becomes, StoreInv, StoreTypes, Processes
    <3> QED BY <2>2, <3>1, MarkedElsewhere
  <2> QED BY <1>2, <2>3, <2>4, <2>5 DEF Sleeps
<1> QED BY <1>1, <1>2

-----------------------------------------------------------------------------
LEMMA StandingTells ==
  ASSUME StoreInv, AttachedInv, ToldInv, UNCHANGED <<storeVars, gen, tellVars>>, History, NEW i \in Ids \ slipped'
  PROVE  SessionInv(i)' /\ MarkedRows(i)'
<1>0. i \notin slipped /\ MarkedRows(i) /\ "service" \in Processes /\ gen \in Nat
  BY DEF History, ToldInv, Processes, StoreInv, StoreTypes
<1>1. QuietFor("service", i)
  BY SameTable DEF storeVars, tellVars, QuietFor
<1>2. Step("service")
  BY <1>0, Standing
<1>3. gen' = gen /\ told' = told /\ telling' = telling
  BY DEF tellVars
<1>4. SessionInv(i)'
  BY <1>0, <1>1, <1>2, <1>3, QuietSession
<1>5. UNCHANGED <<stage, copy, table>>
  BY DEF storeVars
<1>6. MarkedRows(i)'
  BY <1>0, <1>5 DEF MarkedRows, TableRows
<1> QED BY <1>4, <1>6

(* The service is not marking the sessions when it does anything else. *)
LEMMA ServiceAway ==
  ASSUME StoreInv, RunsTyped, StoreAction("service")
  PROVE  stage'["service"] \notin {"saves", "stamps"}
<1>0. "service" \in Processes
  BY DEF Processes
<1>1. AwayFromSleep
  BY <1>0, StoreAside
<1>2. stage["service"] \in {"saves", "stamps"} => Quits("service")
  BY DEF StoreAction, Replaces, NewSession, FirstSession, Creates, Logs, Recovers, Prunes, SavesState, Begins,
         OpensThread, ThreadFails, TurnStarts, TurnRefused, TurnEnds, SteerFails, Interrupts, Idle
<1>3. Quits("service") => stage'["service"] = "down"
  BY <1>0 DEF Quits, Dies, Becomes, StoreInv, StoreTypes
<1> QED BY <1>1, <1>2, <1>3 DEF AwayFromSleep

LEMMA StoreMarked ==
  ASSUME StoreInv, RunsTyped, ToldInv, NEW p \in Processes, StoreAction(p), Step(p), History, NEW i \in Ids \ slipped',
         i \in DOMAIN table' /\ ~(stage[p] \in Turning /\ Session(p) = i) => TableFrom(p, i, table'[i])
  PROVE  MarkedRows(i)'
<1>1. CASE p = "chat"
  BY <1>1, MarkedByChat
<1>2. CASE p = "service"
  BY <1>2, ServiceAway, MarkedElsewhere
<1> QED BY <1>1, <1>2 DEF Processes

(* A step of a process that neither begins a turn nor tells. *)
LEMMA QuietTells ==
  ASSUME StoreInv, AttachedInv, RunsTyped, ToldInv, NEW p \in Processes, History, gen' = gen, told' = told,
         \A q \in Processes \ {p} : telling'[q] = telling[q],
         \/ Replaces(p) \/ NewSession(p) \/ Creates(p) \/ Logs(p) \/ Recovers(p) \/ (p = "service" /\ Prunes)
         \/ SavesState(p) \/ ThreadFails(p) \/ TurnRefused(p) \/ TurnEnds(p)
         \/ (p = "service" /\ (SteerFails \/ Interrupts)) \/ Quits(p),
         NEW i \in Ids \ slipped'
  PROVE  SessionInv(i)' /\ MarkedRows(i)'
<1>1. StoreAction(p)
  BY DEF StoreAction
<1>2. Step(p)
  BY <1>1, StoreSteps DEF StoreInv, StoreTypes
<1>3. CASE TurnRefused(p)
  <2>1. QuietFor(p, i)
    BY <1>3, QuietRefused DEF TurnRefused, Turning
  <2>2. SessionInv(i)'
    BY <1>2, <2>1, QuietSession
  <2> QED BY <1>1, <1>2, <2>1, <2>2, StoreMarked DEF QuietFor
<1>4. CASE ~TurnRefused(p)
  <2>1. QuietFor(p, i)
    BY <1>4, QuietReplaces, QuietMaking, QuietCreates, QuietReads, QuietSaves, QuietTurns, QuietQuits, QuietThreadFails
  <2>2. SessionInv(i)'
    BY <1>2, <2>1, QuietSession
  <2> QED BY <1>1, <1>2, <2>1, <2>2, StoreMarked DEF QuietFor
<1> QED BY <1>3, <1>4

(* A step of a process that begins a turn, opens its thread or starts it. *)
LEMMA TurnStepTells ==
  ASSUME StoreInv, AttachedInv, RunsTyped, ToldInv, NEW p \in Processes,
         MessageArrives(p) \/ ThreadReady(p) \/ TurnRegistered(p),
         NEW i \in Ids \ slipped'
  PROVE  SessionInv(i)' /\ MarkedRows(i)'
<1>1. StoreAction(p) /\ History /\ gen' = gen
  BY DEF StoreAction, MessageArrives, ThreadReady, TurnRegistered, sleepVars
<1>2. Step(p)
  BY <1>1, StoreSteps DEF StoreInv, StoreTypes
<1>3. SessionInv(i)'
  BY <1>2, ArrivalTells, ThreadTells, TurnTells
<1>4. \/ table' = table
      \/ stage[p] \in Turning /\ \E row : table' = WithRow(Session(p), row)
  BY DEF MessageArrives, Begins, ThreadReady, OpensThread, TurnRegistered, TurnStarts, Turning
<1>5. i \in DOMAIN table' /\ ~(stage[p] \in Turning /\ Session(p) = i) => i \in DOMAIN table /\ table'[i] = table[i]
  BY <1>4 DEF WithRow
<1>6. MarkedRows(i)'
  BY <1>1, <1>2, <1>5, SameTable, StoreMarked
<1> QED BY <1>3, <1>6

LEMMA ProcessTells ==
  ASSUME StoreInv, AttachedInv, RunsTyped, ToldInv, NEW p \in Processes, Process(p), NEW i \in Ids \ slipped'
  PROVE  SessionInv(i)' /\ MarkedRows(i)'
<1>0. DOMAIN telling = Processes
  BY DEF ToldInv
<1>1. CASE MessageArrives(p) \/ ThreadReady(p) \/ TurnRegistered(p)
  BY <1>1, TurnStepTells
<1>2. CASE Notes(p)
  BY <1>2, StandingTells DEF Notes, sleepVars
<1>3. CASE ThreadIsRefused(p) \/ TurnIsRefused(p)
  <2>1. /\ ThreadFails(p) \/ TurnRefused(p)
        /\ History /\ gen' = gen /\ told' = told /\ \A q \in Processes \ {p} : telling'[q] = telling[q]
    BY <1>0, <1>3 DEF ThreadIsRefused, TurnIsRefused, Forgets, sleepVars
  <2> QED BY <2>1, QuietTells
<1>4. CASE TurnIsOver(p) \/ New(p) \/ Created(p) \/ Bootstrap(p) \/ SaveAll(p) \/ Ends(p)
  <2>1. /\ TurnEnds(p) \/ Replaces(p) \/ NewSession(p) \/ Creates(p) \/ Logs(p) \/ Recovers(p) \/ SavesState(p) \/ Quits(p)
        /\ History /\ gen' = gen /\ told' = told /\ \A q \in Processes \ {p} : telling'[q] = telling[q]
    BY <1>0, <1>4 DEF TurnIsOver, New, Created, Bootstrap, SaveAll, Ends, Elsewhere, Forgets, sleepVars, tellVars
  <2> QED BY <2>1, QuietTells
<1> QED BY <1>1, <1>2, <1>3, <1>4 DEF Process, Starting

LEMMA AllTold ==
  ASSUME SleepInv, ToldInv, Next, NEW i \in Ids \ slipped'
  PROVE  SessionInv(i)' /\ MarkedRows(i)'
<1>0. StoreInv /\ AttachedInv /\ RunsTyped
  BY DEF SleepInv, EntriesInv
<1>1. CASE Sleeps
  BY <1>0, <1>1, SleepsSteps, SleepTells
<1>2. CASE NewDay
  BY <1>0, <1>2, StandingTells DEF NewDay
<1>3. CASE Prune \/ Steer \/ Stop
  <2>1. "service" \in Processes /\ gen' = gen /\ told' = told /\ telling' = telling /\ History
    BY <1>3 DEF Prune, Steer, Stop, Elsewhere, Processes, sleepVars, tellVars
  <2>2. Prunes \/ SteerFails \/ Interrupts
    BY <1>3 DEF Prune, Steer, Stop
  <2> QED BY <1>0, <2>1, <2>2, QuietTells
<1>4. CASE \E p \in Processes : Process(p)
  BY <1>0, <1>4, ProcessTells
<1> QED BY <1>1, <1>2, <1>3, <1>4 DEF Next

LEMMA Domains ==
  ASSUME StoreInv, Next
  PROVE  DOMAIN told' = DOMAIN told /\ DOMAIN telling' = DOMAIN telling
<1>1. CASE Sleeps
  BY <1>1, SleepStage DEF tellVars
<1>2. CASE NewDay \/ Prune \/ Steer \/ Stop
  BY <1>2 DEF NewDay, Prune, Steer, Stop, Elsewhere, tellVars
<1>3. ASSUME NEW p \in Processes, Process(p)
      PROVE  DOMAIN told' = DOMAIN told /\ DOMAIN telling' = DOMAIN telling
  <2>1. UNCHANGED told \/ \E j, T : told' = [told EXCEPT ![j] = T]
    BY <1>3 DEF Process, Starting, MessageArrives, ThreadReady, ThreadIsRefused, TurnRegistered, TurnIsRefused,
                Notes, TurnIsOver, New, Created, Bootstrap, SaveAll, Ends, Elsewhere, tellVars
  <2>2. UNCHANGED telling \/ \E T : telling' = [telling EXCEPT ![p] = T]
    BY <1>3 DEF Process, Starting, MessageArrives, ThreadReady, ThreadIsRefused, TurnRegistered, TurnIsRefused,
                Notes, TurnIsOver, New, Created, Bootstrap, SaveAll, Ends, Elsewhere, Forgets, tellVars
  <2> QED BY <2>1, <2>2
<1> QED BY <1>1, <1>2, <1>3 DEF Next

LEMMA ToldStep ==
  ASSUME SleepInv, ToldInv, Next
  PROVE  ToldInv'
<1>0. StoreInv /\ RunsTyped
  BY DEF SleepInv, EntriesInv
<1>1. (DOMAIN told = Ids /\ DOMAIN telling = Processes)'
  BY <1>0, Domains DEF ToldInv, Ids
<1>2. stage'["chat"] \in ChatStages /\ LessonsInv'
  <2>1. CASE Sleeps
    BY <1>0, <2>1, SleepStage, SleepLessons DEF ToldInv
  <2>2. CASE (\E p \in Processes : StoreAction(p)) /\ UNCHANGED sleepVars
    <3>1. AwayFromSleep
      BY <1>0, <2>2, StoreAside
    <3> QED BY <2>2, <3>1 DEF ToldInv, AwayFromSleep, LessonsInv, sleepVars
  <2>3. CASE UNCHANGED <<storeVars, gen>> /\ (NewDay \/ \E p \in Processes : Notes(p))
    <3>1. UNCHANGED <<stage, gen, lessons>>
      BY <2>3 DEF NewDay, Notes, storeVars, sleepVars
    <3> QED BY <3>1 DEF ToldInv, LessonsInv
  <2> QED BY <2>1, <2>2, <2>3, NextIs
<1>3. Endangered' \subseteq slipped'
  BY NextSteps DEF History, SleepInv
<1>4. \A i \in Ids \ slipped' : SessionInv(i)' /\ MarkedRows(i)'
  BY AllTold
<1> QED BY <1>1, <1>2, <1>3, <1>4 DEF ToldInv, ChatStages, Ids

LEMMA ToldStutters ==
  ASSUME ToldInv, UNCHANGED vars
  PROVE  ToldInv'
<1>1. UNCHANGED <<table, made, stage, copy, gen, lessons, told, telling, slipped>>
  BY DEF vars, storeVars, sleepVars, tellVars
<1>2. Endangered' = Endangered
  BY <1>1 DEF Endangered, Session
<1>3. \A i : /\ RowsOf(i)' = RowsOf(i) /\ TableRows(i)' = TableRows(i) /\ Settled(i)' = Settled(i)
             /\ Asked(i)' <=> Asked(i)
  BY <1>1 DEF RowsOf, Settled, TableRows, WholeRows, HandRows, Asked, Session, Whole, Turning
<1>4. ASSUME NEW i, SessionInv(i)
      PROVE  SessionInv(i)'
  BY <1>1, <1>3, <1>4 DEF SessionInv, Fits, Knows, Completes, Turning, Session
<1>5. \A i : MarkedRows(i) => MarkedRows(i)'
  BY <1>1, <1>3 DEF MarkedRows
<1> QED BY <1>1, <1>2, <1>4, <1>5 DEF ToldInv, LessonsInv, ChatStages, Ids

LEMMA ToldStarts ==
  ASSUME Init
  PROVE  ToldInv
<1> USE DEF Init, StoreInit
<1>1. stage = [p \in Processes |-> "down"] /\ table = <<>> /\ DOMAIN table = {} /\ gen = 0 /\ made = 0
  OBVIOUS
<1>2. \A i, r : r \notin RowsOf(i) /\ r \notin Settled(i)
  BY <1>1, RowsAre, SettledAre DEF Whole, Turning
<1>3. Endangered = {}
  BY <1>1 DEF Endangered
<1>4. \A i : SessionInv(i) /\ MarkedRows(i)
  BY <1>1, <1>2 DEF SessionInv, MarkedRows, Turning, Processes
<1>5. LessonsInv
  BY <1>1 DEF LessonsInv, Processes
<1> QED BY <1>1, <1>3, <1>4, <1>5 DEF ToldInv, ChatStages, Processes

(* What the rows, the copies and the threads of the sessions say of the    *)
(* memory agrees with what they were told, wherever one of the processes   *)
(* ended or wrote over the other, but for the sessions in a recorded race. *)
THEOREM ToldHolds == Spec => [](SleepInv /\ ToldInv)
<1>1. SleepInv /\ ToldInv /\ [Next]_vars => ToldInv'
  BY ToldStep, ToldStutters
<1> QED BY SleepHolds, ToldStarts, <1>1, PTL DEF Spec

(* A session that counts as caught up with the memory has been told of it, *)
(* unless it was in a race of the two processes or its turn was cut off    *)
(* after the save that says so.                                            *)
THEOREM SessionsAreTold == Spec => []ToldUnlessSlipped
<1>1. ASSUME SleepInv, ToldInv
      PROVE  ToldUnlessSlipped
  <2> SUFFICES ASSUME NEW i \in DOMAIN table \ slipped
               PROVE  Told(i)
    BY DEF ToldUnlessSlipped
  <2>1. SessionInv(i)
    BY <1>1, TableRowIs DEF ToldInv, SleepInv
  <2>2. CASE Asked(i)
    BY <2>2 DEF Asked, Told, Starts
  <2>3. CASE ~Asked(i)
    BY <2>1, <2>3, SettledAre DEF SessionInv, Knows, Told
  <2> QED BY <2>2, <2>3
<1> QED BY ToldHolds, <1>1, PTL
=============================================================================
