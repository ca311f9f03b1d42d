------------------------- MODULE MessageGroupProofs -------------------------
(***************************************************************************)
(* Proofs about MessageGroup: for any number of chunks, texts and calls,   *)
(* any rate limits and refusals, a chunk stays in its own message until an *)
(* id that was not known yet makes a list of ids close up, and the chat    *)
(* shows the last text and nothing else once everything is sent.           *)
(***************************************************************************)
EXTENDS MessageGroup, FiniteSetTheorems, SequenceTheorems, WellFoundedInduction, TLAPS

-----------------------------------------------------------------------------
(* The inductive invariant.                                                *)

Syncing == [at : {"idle", "find", "submit"}, i : Nat \ {0}, existing : Seq(Nat), kept : Seq(Nat),
            found : Nat]

OutboundRow == [op : {"send", "edit", "delete"}, key : Nat, chunk : Nat, text : Nat, msg : Nat,
                status : {"queued", "claimed", "completed", "failed", "deleted"}]

(* Every variable of the group is in its range. *)
GroupTypes ==
    /\ TypeOK
    /\ sync \in Syncing
    /\ ids \in Seq(Nat)
    /\ stored \in [Chunks -> [id : Nat, active : BOOLEAN]]
    /\ rows \in Seq(OutboundRow)
    /\ row \in Nat
    /\ stage \in {"idle", "called", "storing"}
    /\ chat \in Seq([chunk : Chunks, text : Nat])
    /\ texts \in Nat
    /\ size \in 0..MaxChunks

(* A row of a text is a row of one chunk, under the key of that chunk; an  *)
(* edit and a deletion have a message.                                     *)
FitsChunk(q) ==
    /\ q.op = "delete" => q.key = None
    /\ q.op # "delete" => q.chunk \in Chunks /\ q.key = q.chunk
    /\ q.op # "send" => q.msg # None

RowsFit == \A r \in DOMAIN rows : FitsChunk(rows[r])

(* A sync that has a message for a chunk is at a chunk of the text. *)
SyncFits ==
    /\ sync.at = "submit" => sync.i <= size
    /\ sync.at # "submit" => sync.found = None

(* The worker has one call at a time, for the row it has claimed; a send   *)
(* that was answered has posted the last message.                          *)
InCall ==
    /\ stage = "called" <=> result[Delivery] # "none"
    /\ stage # "idle" => row \in DOMAIN rows
    /\ stage = "called" => rows[row].status = "claimed"
    /\ stage = "storing" => rows[row].op = "send" /\ rows[row].status = "completed"
    /\ worker # "idle" => current = <<Delivery>> /\ result[Delivery] = "waits" /\ requests = <<>>
    /\ requests # <<>> => requests = <<Delivery>> /\ result[Delivery] = "waits"
    /\ stage = "called" /\ result[Delivery] = "ok" /\ rows[row].op = "send" =>
         chat # <<>> /\ chat[Len(chat)].chunk = rows[row].chunk

(* Every id the service keeps is that of a message. *)
Exist(ms) == \A k \in DOMAIN ms : ms[k] \in DOMAIN chat
RowsExist == \A r \in DOMAIN rows : rows[r].msg # None => rows[r].msg \in DOMAIN chat
IdsExist ==
    /\ Exist(ids) /\ Exist(sync.existing) /\ Exist(sync.kept)
    /\ sync.found # None => sync.found \in DOMAIN chat
    /\ \A i \in Chunks : stored[i].id # None => stored[i].id \in DOMAIN chat
    /\ RowsExist

(* The message m shows chunk i. *)
Shows(m, i) == chat[m].chunk = i

InPlace(ms) == \A k \in DOMAIN ms : Shows(ms[k], k)
OwnRows ==
    \A r \in DOMAIN rows :
        rows[r].op # "delete" /\ rows[r].msg # None => Shows(rows[r].msg, rows[r].chunk)
InOwnMessage ==
    /\ InPlace(ids) /\ InPlace(sync.existing)
    /\ sync.found # None => Shows(sync.found, sync.i)
    /\ OwnRows

GroupInv ==
    /\ GroupTypes
    /\ RowsFit
    /\ SyncFits
    /\ InCall
    /\ IdsExist
    /\ "displaced" \notin odd => InOwnMessage

-----------------------------------------------------------------------------
(* The least and the greatest of a set, and the place of the k-th one.     *)

LEMMA Least ==
    ASSUME NEW S \in SUBSET Nat, S # {}
    PROVE  \E n \in S : \A m \in S : n <= m
<1> DEFINE Before == {p \in Nat \X Nat : p[1] < p[2]}
<1>1. IsWellFoundedOn(Before, Nat)
  BY NatLessThanWellFounded, Zenon DEF OpToRel
<1>2. PICK n \in S : \A m \in S : ~(<<m, n>> \in Before)
  <2> HIDE DEF Before
  <2> QED BY <1>1, WFMin, Zenon
<1>3. \A m \in S : m \in Nat /\ <<m, n>> \in Nat \X Nat
  OBVIOUS
<1>4. \A m \in S : <<m, n>>[1] = m /\ <<m, n>>[2] = n
  OBVIOUS
<1>5. \A m \in S : ~(m < n)
  BY <1>2, <1>3, <1>4, Zenon
<1>6. \A m \in S : n <= m
  BY <1>3, <1>5
<1> QED BY <1>6

LEMMA MinExists ==
    ASSUME NEW S \in SUBSET Nat, S # {}
    PROVE  Min(S) \in S /\ \A m \in S : Min(S) <= m
BY Least DEF Min

LEMMA MaxExists ==
    ASSUME NEW S \in SUBSET Nat, S # {}, NEW b \in Nat, \A m \in S : m <= b
    PROVE  Max(S) \in S
<1> DEFINE Bounds == {n \in Nat : \A m \in S : m <= n}
<1>1. PICK n \in Bounds : \A m \in Bounds : n <= m
  BY Least
<1>2. n \in S
  <2> SUFFICES ASSUME n \notin S PROVE FALSE
    OBVIOUS
  <2>1. \A m \in S : m <= n - 1
    <3>1. \A m \in S : m \in Nat /\ m <= n /\ m # n
      BY <1>1
    <3> QED BY <3>1, <1>1
  <2>2. n > 0
    <3>1. PICK m \in S : m \in Nat
      OBVIOUS
    <3>2. m <= n /\ m # n
      BY <1>1
    <3> QED BY <3>1, <3>2, <1>1
  <2>3. n - 1 \in Bounds
    BY <2>1, <2>2, <1>1
  <2> QED BY <2>3, <1>1
<1>3. \A m \in S : n >= m
  BY <1>1
<1> QED BY <1>2, <1>3 DEF Max

(* The members of S up to n. *)
UpTo(S, n) == {j \in S : j <= n}

LEMMA KthExists ==
    ASSUME NEW N \in Nat, NEW S \in SUBSET (1..N), NEW k \in 1..Cardinality(S)
    PROVE  \E i \in S : Cardinality(UpTo(S, i)) = k
<1>1. IsFiniteSet(1..N)
  BY FS_Interval
<1>2. \A n : IsFiniteSet(UpTo(S, n)) /\ Cardinality(UpTo(S, n)) \in Nat
  <2> TAKE n
  <2>1. UpTo(S, n) \subseteq 1..N
    BY DEF UpTo
  <2> QED BY <2>1, <1>1, FS_Subset, FS_CardinalityType
<1>3. IsFiniteSet(S) /\ Cardinality(S) \in Nat
  BY <1>1, FS_Subset, FS_CardinalityType
<1> DEFINE Reach == {n \in Nat : Cardinality(UpTo(S, n)) >= k}
<1> HIDE DEF Reach
<1>4. N \in Reach
  <2>1. UpTo(S, N) = S
    <3>1. \A j \in S : j <= N
      OBVIOUS
    <3> QED BY <3>1, Zenon DEF UpTo
  <2> QED BY <2>1, <1>3 DEF Reach
<1>5. PICK n \in Reach : \A m \in Reach : n <= m
  <2>1. Reach \in SUBSET Nat
    BY DEF Reach
  <2> QED BY <2>1, <1>4, Least
<1> n \in Nat
  BY <1>5 DEF Reach
<1>6. n # 0
  <2>1. UpTo(S, 0) = {}
    <3>1. \A j \in S : ~(j <= 0)
      OBVIOUS
    <3> QED BY <3>1, Zenon DEF UpTo
  <2>2. Cardinality(UpTo(S, 0)) = 0
    BY <2>1, FS_EmptySet
  <2> QED BY <2>2, <1>5, <1>3 DEF Reach
<1>7. n - 1 \in Nat /\ n - 1 \notin Reach
  BY <1>5, <1>6
<1>8. Cardinality(UpTo(S, n - 1)) < k /\ Cardinality(UpTo(S, n)) >= k
  BY <1>7, <1>5, <1>2, <1>3 DEF Reach
<1>9. n \in S
  <2> SUFFICES ASSUME n \notin S PROVE FALSE
    OBVIOUS
  <2>1. UpTo(S, n) = UpTo(S, n - 1)
    <3>1. \A j \in S : j <= n <=> j <= n - 1
      OBVIOUS
    <3> QED BY <3>1, Zenon DEF UpTo
  <2> QED BY <2>1, <1>8, <1>2, <1>3
<1>10. UpTo(S, n) = UpTo(S, n - 1) \cup {n} /\ n \notin UpTo(S, n - 1)
  <2>1. \A j \in S : j <= n <=> j <= n - 1 \/ j = n
    OBVIOUS
  <2>2. ~(n <= n - 1)
    OBVIOUS
  <2> QED BY <2>1, <2>2, <1>9, Zenon DEF UpTo
<1>11. Cardinality(UpTo(S, n)) = Cardinality(UpTo(S, n - 1)) + 1
  BY <1>10, <1>2, FS_AddElement
<1>12. Cardinality(UpTo(S, n)) = k
  <2> QED BY <1>8, <1>11, <1>2, <1>3
<1> QED BY <1>9, <1>12

-----------------------------------------------------------------------------
(* Sequences.                                                              *)

LEMMA IsSequence ==
    ASSUME NEW S, NEW n \in Nat, NEW f \in [1..n -> S]
    PROVE  f \in Seq(S) /\ Len(f) = n /\ DOMAIN f = 1..n
<1>1. f \in Seq(S)
  BY SeqDef, Zenon
<1>2. DOMAIN f = 1..Len(f) /\ Len(f) \in Nat
  BY <1>1, LenProperties
<1> QED BY <1>1, <1>2

LEMMA Appended ==
    ASSUME NEW S, NEW s \in Seq(S), NEW e \in S
    PROVE  /\ Append(s, e) \in Seq(S) /\ Len(Append(s, e)) = Len(s) + 1
           /\ DOMAIN Append(s, e) = 1..(Len(s) + 1)
           /\ \A k \in 1..Len(s) : Append(s, e)[k] = s[k]
           /\ Append(s, e)[Len(s) + 1] = e
BY LenProperties

(* A row of the queue as it is enqueued. *)
NewRow(o, i, m) ==
    [op |-> o, key |-> IF i = None THEN None ELSE DedupeKey(i), chunk |-> i,
     text |-> texts, msg |-> m, status |-> "queued"]

Replaced(q) == [q EXCEPT !.status = "deleted"]

(* One row is added, others of its key may be replaced. *)
RowsGrow(q) ==
    /\ rows' \in Seq(OutboundRow)
    /\ Len(rows') = Len(rows) + 1
    /\ DOMAIN rows \subseteq DOMAIN rows'
    /\ DOMAIN rows' = DOMAIN rows \cup {Len(rows) + 1}
    /\ \A r \in DOMAIN rows :
          \/ rows'[r] = rows[r]
          \/ rows[r].status = "queued" /\ rows'[r] = Replaced(rows[r])
    /\ rows'[Len(rows) + 1] = q

LEMMA Enqueued ==
    ASSUME GroupTypes, NEW o \in {"send", "edit", "delete"}, NEW i \in Nat, NEW m \in Nat,
           Enqueue(o, i, m)
    PROVE  RowsGrow(NewRow(o, i, m)) /\ NewRow(o, i, m) \in OutboundRow
<1> DEFINE Old == [r \in DOMAIN rows |->
                     IF i # None /\ rows[r].key = DedupeKey(i) /\ rows[r].status = "queued"
                     THEN [rows[r] EXCEPT !.status = "deleted"]
                     ELSE rows[r]]
<1> rows \in Seq(OutboundRow) /\ texts \in Nat
  BY DEF GroupTypes
<1>1. Len(rows) \in Nat /\ DOMAIN rows = 1..Len(rows) /\ \A r \in DOMAIN rows : rows[r] \in OutboundRow
  BY LenProperties
<1>2. NewRow(o, i, m) \in OutboundRow
  BY DEF NewRow, OutboundRow, None, DedupeKey
<1>3. \A q \in OutboundRow : [q EXCEPT !.status = "deleted"] \in OutboundRow
  BY DEF OutboundRow
<1>4. Old \in [1..Len(rows) -> OutboundRow]
  BY <1>1, <1>3
<1>5. Old \in Seq(OutboundRow) /\ Len(Old) = Len(rows) /\ DOMAIN Old = 1..Len(rows)
  BY <1>1, <1>4, IsSequence
<1>6. rows' = Append(Old, NewRow(o, i, m))
  BY DEF Enqueue, NewRow
<1>7. \A r \in DOMAIN rows : \/ Old[r] = rows[r]
                             \/ rows[r].status = "queued" /\ Old[r] = Replaced(rows[r])
  BY DEF Replaced
<1> HIDE DEF Old
<1>8. /\ rows' \in Seq(OutboundRow) /\ Len(rows') = Len(rows) + 1
      /\ DOMAIN rows' = 1..(Len(rows) + 1)
      /\ \A r \in 1..Len(rows) : rows'[r] = Old[r]
      /\ rows'[Len(rows) + 1] = NewRow(o, i, m)
  BY <1>2, <1>5, <1>6, Appended
<1>9. DOMAIN rows' = DOMAIN rows \cup {Len(rows) + 1}
  BY <1>1, <1>8
<1> QED BY <1>1, <1>2, <1>7, <1>8, <1>9 DEF RowsGrow

-----------------------------------------------------------------------------
(* The look-ups return ids of messages.                                    *)

(* What the table has of the chunks with an id, in their order. *)
LEMMA StoredIdsStored ==
    ASSUME GroupTypes
    PROVE  \A k \in DOMAIN StoredIds : \E i \in Chunks : HasId(i) /\ StoredIds[k] = stored[i].id
<1> DEFINE Has == {i \in Chunks : HasId(i)}
           Nth(k) == CHOOSE i \in Has : Cardinality({j \in Has : j <= i}) = k
<1>1. StoredIds = [k \in 1..Cardinality(Has) |-> stored[Nth(k)].id]
  BY DEF StoredIds
<1>2. Has \in SUBSET (1..MaxChunks) /\ MaxChunks \in Nat
  BY GroupAssumption DEF Chunks
<1>3. ASSUME NEW k \in 1..Cardinality(Has)
      PROVE  Nth(k) \in Has
  <2>1. \E i \in Has : Cardinality(UpTo(Has, i)) = k
    <3> HIDE DEF Has
    <3> QED BY <1>2, KthExists
  <2> QED BY <2>1 DEF UpTo
<1> SUFFICES ASSUME NEW k \in DOMAIN StoredIds
             PROVE  \E i \in Chunks : HasId(i) /\ StoredIds[k] = stored[i].id
  OBVIOUS
<1> HIDE DEF Nth
<1>4. k \in 1..Cardinality(Has) /\ StoredIds[k] = stored[Nth(k)].id
  BY <1>1
<1>5. Nth(k) \in Chunks /\ HasId(Nth(k))
  BY <1>3, <1>4
<1> QED BY <1>4, <1>5

LEMMA StoredIdsExist ==
    ASSUME GroupInv
    PROVE  StoredIds \in Seq(Nat) /\ Exist(StoredIds)
<1> DEFINE Has == {i \in Chunks : HasId(i)}
<1>1. DOMAIN StoredIds = 1..Cardinality(Has) /\ StoredIds = [k \in 1..Cardinality(Has) |-> StoredIds[k]]
  BY DEF StoredIds
<1>2. Cardinality(Has) \in Nat
  <2>1. Has \in SUBSET (1..MaxChunks) /\ MaxChunks \in Nat
    BY GroupAssumption DEF Chunks
  <2> HIDE DEF Has
  <2>2. IsFiniteSet(1..MaxChunks)
    BY <2>1, FS_Interval
  <2>3. IsFiniteSet(Has)
    BY <2>1, <2>2, FS_Subset
  <2> QED BY <2>3, FS_CardinalityType
<1> HIDE DEF Has
<1>3. \A k \in DOMAIN StoredIds : StoredIds[k] \in Nat /\ StoredIds[k] \in DOMAIN chat
  BY StoredIdsStored DEF HasId, GroupInv, GroupTypes, IdsExist
<1>4. StoredIds \in [1..Cardinality(Has) -> Nat]
  <2>1. \A k \in 1..Cardinality(Has) : StoredIds[k] \in Nat
    BY <1>1, <1>3
  <2>2. [k \in 1..Cardinality(Has) |-> StoredIds[k]] \in [1..Cardinality(Has) -> Nat]
    BY <2>1
  <2> QED BY <1>1, <2>2, Zenon
<1> QED BY <1>2, <1>3, <1>4, IsSequence DEF Exist

LEMMA ExistingExist ==
    ASSUME GroupInv
    PROVE  Existing \in Seq(Nat) /\ Exist(Existing)
BY StoredIdsExist DEF Existing, GroupInv, GroupTypes, IdsExist

LEMMA LatestExists ==
    ASSUME GroupInv, NEW i \in Chunks
    PROVE  /\ LatestId(i) \in Nat
           /\ LatestId(i) # None => LatestId(i) \in DOMAIN chat
           /\ LatestId(i) # None /\ "displaced" \notin odd => Shows(LatestId(i), i)
<1> DEFINE Hits == {r \in DOMAIN rows : /\ rows[r].key = DedupeKey(i) /\ rows[r].status = "completed"
                                        /\ rows[r].msg # None}
<1>1. LatestId(i) = IF Hits = {} THEN None ELSE rows[Max(Hits)].msg
  BY DEF LatestId
<1>2. CASE Hits = {}
  BY <1>1, <1>2 DEF None
<1>3. CASE Hits # {}
  <2>1. rows \in Seq(OutboundRow)
    BY DEF GroupInv, GroupTypes
  <2>2. Len(rows) \in Nat /\ DOMAIN rows = 1..Len(rows) /\ \A r \in DOMAIN rows : rows[r] \in OutboundRow
    BY <2>1, LenProperties
  <2>3. Hits \in SUBSET Nat /\ \A r \in Hits : r <= Len(rows)
    BY <2>2
  <2>4. Max(Hits) \in Hits
    <3> HIDE DEF Hits
    <3> QED BY <1>3, <2>2, <2>3, MaxExists
  <2>5. PICK r \in Hits : LatestId(i) = rows[r].msg
    BY <1>1, <1>3, <2>4, Zenon
  <2>6. rows[r].op # "delete" /\ rows[r].chunk = i
    BY <2>5, GroupAssumption DEF GroupInv, RowsFit, FitsChunk, DedupeKey, None, Chunks
  <2>7. rows[r].msg \in Nat
    BY <2>5, <2>2 DEF OutboundRow
  <2> QED BY <2>5, <2>6, <2>7 DEF GroupInv, IdsExist, RowsExist, InOwnMessage, OwnRows
<1> QED BY <1>2, <1>3

-----------------------------------------------------------------------------
(* The main thread.                                                        *)

LEMMA InitialGroup == GroupInit => GroupInv
<1> SUFFICES ASSUME GroupInit PROVE GroupInv
  OBVIOUS
<1> USE DEF GroupInit, Init, Idle, None
<1>1. GroupTypes
  <2>1. TypeOK
    BY ClientAssumption DEF TypeOK
  <2>2. sync \in Syncing /\ ids \in Seq(Nat)
    BY DEF Syncing
  <2>3. stored \in [Chunks -> [id : Nat, active : BOOLEAN]]
    OBVIOUS
  <2>4. rows \in Seq(OutboundRow) /\ chat \in Seq([chunk : Chunks, text : Nat])
    OBVIOUS
  <2>5. size \in 0..MaxChunks
    BY GroupAssumption
  <2> QED BY <2>1, <2>2, <2>3, <2>4, <2>5 DEF GroupTypes
<1>2. RowsFit /\ SyncFits
  BY DEF RowsFit, SyncFits
<1>3. InCall
  BY GroupAssumption DEF InCall
<1>4. IdsExist /\ InOwnMessage
  BY DEF IdsExist, RowsExist, Exist, InOwnMessage, InPlace, OwnRows
<1> QED BY <1>1, <1>2, <1>3, <1>4 DEF GroupInv

SyncAt(a, i, e, k, f) == [at |-> a, i |-> i, existing |-> e, kept |-> k, found |-> f]

LEMMA SyncFields ==
    ASSUME GroupTypes
    PROVE  /\ sync.at \in {"idle", "find", "submit"} /\ sync.i \in Nat \ {0}
           /\ sync.existing \in Seq(Nat) /\ sync.kept \in Seq(Nat) /\ sync.found \in Nat
           /\ sync = SyncAt(sync.at, sync.i, sync.existing, sync.kept, sync.found)
BY DEF GroupTypes, Syncing, SyncAt

LEMMA SizeFits ==
    ASSUME GroupTypes
    PROVE  size \in Nat /\ size <= MaxChunks /\ MaxChunks \in Nat
BY GroupAssumption DEF GroupTypes

LEMMA Empty == <<>> \in Seq(Nat) /\ Idle = SyncAt("idle", 1, <<>>, <<>>, None) /\ None \in Nat
BY DEF Idle, SyncAt, None

(* What the worker knows stands while the main thread enqueues. *)
LEMMA EnqueuedFits ==
    ASSUME GroupInv, NEW o \in {"send", "edit", "delete"}, NEW i \in Nat, NEW m \in Nat,
           Enqueue(o, i, m), UNCHANGED <<client, delivery, shown>>,
           FitsChunk(NewRow(o, i, m)), m # None => m \in DOMAIN chat
    PROVE  /\ rows' \in Seq(OutboundRow)
           /\ RowsFit' /\ InCall' /\ RowsExist'
           /\ OwnRows /\ (o # "delete" /\ m # None => Shows(m, i)) => OwnRows'
<1>1. RowsGrow(NewRow(o, i, m))
  BY Enqueued DEF GroupInv
<1>2. \A r \in DOMAIN rows :
         /\ rows'[r].op = rows[r].op /\ rows'[r].key = rows[r].key /\ rows'[r].chunk = rows[r].chunk
         /\ rows'[r].msg = rows[r].msg
         /\ rows[r].status # "queued" => rows'[r].status = rows[r].status
  <2> SUFFICES ASSUME NEW r \in DOMAIN rows
               PROVE  /\ rows'[r].op = rows[r].op /\ rows'[r].key = rows[r].key
                      /\ rows'[r].chunk = rows[r].chunk /\ rows'[r].msg = rows[r].msg
                      /\ rows[r].status # "queued" => rows'[r].status = rows[r].status
    OBVIOUS
  <2>1. rows[r] \in OutboundRow
    BY DEF GroupInv, GroupTypes
  <2>2. \/ rows'[r] = rows[r]
        \/ rows[r].status = "queued" /\ rows'[r] = Replaced(rows[r])
    BY <1>1 DEF RowsGrow
  <2> QED BY <2>1, <2>2 DEF Replaced, OutboundRow
<1>3. /\ DOMAIN rows' = DOMAIN rows \cup {Len(rows) + 1} /\ DOMAIN rows \subseteq DOMAIN rows'
      /\ rows'[Len(rows) + 1] = NewRow(o, i, m) /\ rows' \in Seq(OutboundRow)
  BY <1>1 DEF RowsGrow
<1>4. NewRow(o, i, m).op = o /\ NewRow(o, i, m).msg = m /\ NewRow(o, i, m).chunk = i
  BY DEF NewRow
<1> HIDE DEF NewRow
<1>5. RowsFit'
  BY <1>2, <1>3 DEF RowsFit, FitsChunk, GroupInv
<1>6. InCall'
  BY <1>2, <1>3 DEF InCall, GroupInv, client, job, delivery, shown
<1>7. RowsExist'
  BY <1>2, <1>3, <1>4 DEF RowsExist, IdsExist, GroupInv, shown
<1>8. OwnRows /\ (o # "delete" /\ m # None => Shows(m, i)) => OwnRows'
  BY <1>2, <1>3, <1>4 DEF OwnRows, Shows, shown
<1> QED BY <1>3, <1>5, <1>6, <1>7, <1>8

LEMMA BeginsHolds ==
    ASSUME GroupInv, NEW n \in Chunks, Begins(n)
    PROVE  GroupInv'
<1> USE DEF Begins, client, job, delivery, shown
<1>1. Existing \in Seq(Nat) /\ Exist(Existing)
  BY ExistingExist
<1>2. /\ sync'.at = "find" /\ sync'.i = 1 /\ sync'.existing = Existing /\ sync'.kept = <<>>
      /\ sync'.found = None /\ sync' \in Syncing
  <2>1. sync' = SyncAt("find", 1, Existing, <<>>, None)
    BY DEF Idle, SyncAt
  <2> HIDE DEF Begins
  <2>2. sync' \in Syncing
    BY <1>1, <2>1, Empty DEF SyncAt, Syncing
  <2>3. sync'.at = "find" /\ sync'.i = 1 /\ sync'.existing = Existing
    BY <2>1 DEF SyncAt
  <2>4. sync'.kept = <<>>
    BY <2>1 DEF SyncAt
  <2>5. sync'.found = None
    BY <2>1 DEF SyncAt
  <2> QED BY <2>2, <2>3, <2>4, <2>5
<1>3. GroupTypes'
  BY <1>2, GroupAssumption DEF GroupInv, GroupTypes, TypeOK, Chunks
<1>4. RowsFit' /\ SyncFits' /\ InCall'
  BY <1>2 DEF GroupInv, RowsFit, SyncFits, InCall
<1>5. IdsExist'
  BY <1>1, <1>2 DEF GroupInv, IdsExist, RowsExist, Exist
<1>6. "displaced" \notin odd' => InOwnMessage'
  BY <1>1, <1>2 DEF GroupInv, InOwnMessage, OwnRows, Displaced, InPlace, Shows
<1> QED BY <1>3, <1>4, <1>5, <1>6 DEF GroupInv

LEMMA FindsHolds ==
    ASSUME GroupInv, Finds
    PROVE  GroupInv'
<1> USE DEF Finds, client, job, delivery, shown
<1> DEFINE m == IF sync.i <= Len(sync.existing) THEN sync.existing[sync.i] ELSE LatestId(sync.i)
<1>1. sync.i \in Chunks /\ sync.existing \in Seq(Nat)
  <2>1. GroupTypes
    BY DEF GroupInv
  <2> QED BY <2>1, SizeFits, SyncFields DEF Chunks
<1>3. /\ m \in Nat
      /\ m # None => m \in DOMAIN chat
      /\ m # None /\ "displaced" \notin odd => Shows(m, sync.i)
  <2>1. CASE sync.i <= Len(sync.existing)
    <3>1. sync.i \in DOMAIN sync.existing
      BY <1>1, <2>1 DEF Chunks
    <3> QED BY <1>1, <2>1, <3>1 DEF GroupInv, IdsExist, Exist, InOwnMessage, InPlace
  <2>2. CASE ~(sync.i <= Len(sync.existing))
    BY <1>1, <2>2, LatestExists
  <2> QED BY <2>1, <2>2
<1>2. /\ sync'.at = "submit" /\ sync'.i = sync.i /\ sync'.existing = sync.existing
      /\ sync'.kept = sync.kept /\ sync'.found = m /\ sync' \in Syncing
  <2>1. sync' = [sync EXCEPT !.at = "submit", !.found = m]
    OBVIOUS
  <2> HIDE DEF m
  <2>2. sync' = SyncAt("submit", sync.i, sync.existing, sync.kept, m)
    BY <2>1, SyncFields DEF SyncAt, GroupInv
  <2>3. GroupTypes
    BY DEF GroupInv
  <2> HIDE DEF Finds
  <2>4. sync' \in Syncing
    BY <1>3, <2>2, <2>3, SyncFields DEF SyncAt, Syncing
  <2>5. sync'.at = "submit" /\ sync'.i = sync.i
    BY <2>2 DEF SyncAt
  <2>6. sync'.existing = sync.existing /\ sync'.kept = sync.kept
    BY <2>2 DEF SyncAt
  <2>7. sync'.found = m
    BY <2>2 DEF SyncAt
  <2> QED BY <2>4, <2>5, <2>6, <2>7
<1> HIDE DEF m
<1>4. GroupTypes'
  BY <1>2 DEF GroupInv, GroupTypes, TypeOK
<1>5. RowsFit' /\ SyncFits' /\ InCall'
  BY <1>2 DEF GroupInv, RowsFit, SyncFits, InCall
<1>6. IdsExist'
  BY <1>2, <1>3 DEF GroupInv, IdsExist, RowsExist, Exist
<1>7. "displaced" \notin odd' => InOwnMessage'
  BY <1>2, <1>3 DEF GroupInv, InOwnMessage, OwnRows, InPlace, Shows
<1> QED BY <1>4, <1>5, <1>6, <1>7 DEF GroupInv

LEMMA SubmitsHolds ==
    ASSUME GroupInv, Submits
    PROVE  GroupInv'
<1> USE DEF Submits, client, job, delivery, shown
<1> DEFINE i == sync.i
           m == sync.found
           o == IF m # None THEN "edit" ELSE "send"
<1>1. i \in Chunks /\ i \in Nat \ {0} /\ m \in Nat /\ sync.kept \in Seq(Nat)
  BY GroupAssumption, SyncFields DEF GroupInv, GroupTypes, SyncFits, Chunks
<1>2. Enqueue(o, i, m)
  BY DEF QueueEdit, QueueMessage
<1>3. m # None => m \in DOMAIN chat
  BY DEF GroupInv, IdsExist
<1>4. FitsChunk(NewRow(o, i, m))
  BY <1>1 DEF FitsChunk, NewRow, DedupeKey, None
<1>5. /\ rows' \in Seq(OutboundRow)
      /\ RowsFit' /\ InCall' /\ RowsExist'
      /\ OwnRows /\ (o # "delete" /\ m # None => Shows(m, i)) => OwnRows'
  <2>1. i \in Nat /\ o \in {"send", "edit", "delete"}
    BY <1>1
  <2> HIDE DEF o, i, m
  <2> QED BY <2>1, <1>1, <1>2, <1>3, <1>4, EnqueuedFits
<1>6. /\ sync'.at = "find" /\ sync'.i = i + 1 /\ sync'.existing = sync.existing /\ sync'.found = None
      /\ sync'.kept = (IF m # None THEN Append(sync.kept, m) ELSE sync.kept) /\ sync' \in Syncing
  <2> DEFINE k == IF m # None THEN Append(sync.kept, m) ELSE sync.kept
  <2>1. sync' = [sync EXCEPT !.at = "find", !.i = i + 1, !.found = None, !.kept = k]
    BY SyncFields DEF SyncAt, GroupInv
  <2>2. k \in Seq(Nat) /\ i + 1 \in Nat \ {0}
    BY <1>1
  <2> HIDE DEF k
  <2>3. sync' = SyncAt("find", i + 1, sync.existing, k, None)
    BY <2>1, SyncFields DEF SyncAt, GroupInv
  <2>4. GroupTypes
    BY DEF GroupInv
  <2> HIDE DEF Submits
  <2>5. sync' \in Syncing
    BY <2>2, <2>3, <2>4, Empty, SyncFields DEF SyncAt, Syncing
  <2>6. sync'.at = "find" /\ sync'.i = i + 1
    BY <2>3 DEF SyncAt
  <2>7. sync'.existing = sync.existing
    BY <2>3 DEF SyncAt
  <2>8. sync'.kept = k
    BY <2>3 DEF SyncAt
  <2>9. sync'.found = None
    BY <2>3 DEF SyncAt
  <2> QED BY <2>5, <2>6, <2>7, <2>8, <2>9 DEF k
<1>7. GroupTypes'
  BY <1>5, <1>6 DEF GroupInv, GroupTypes, TypeOK
<1>8. SyncFits'
  BY <1>6 DEF SyncFits
<1>9. IdsExist'
  <2>1. Exist(sync'.kept)
    <3>1. CASE m # None
      <4>1. /\ DOMAIN Append(sync.kept, m) = 1..(Len(sync.kept) + 1)
            /\ \A k \in 1..Len(sync.kept) : Append(sync.kept, m)[k] = sync.kept[k]
            /\ Append(sync.kept, m)[Len(sync.kept) + 1] = m
            /\ DOMAIN sync.kept = 1..Len(sync.kept) /\ Len(sync.kept) \in Nat
        BY <1>1, Appended, LenProperties
      <4> QED BY <1>3, <1>6, <3>1, <4>1 DEF GroupInv, IdsExist, Exist
    <3>2. CASE m = None
      BY <1>6, <3>2 DEF GroupInv, IdsExist, Exist
    <3> QED BY <3>1, <3>2
  <2> QED BY <1>5, <1>6, <2>1 DEF GroupInv, IdsExist, Exist
<1>10. "displaced" \notin odd' => InOwnMessage'
  BY <1>5, <1>6 DEF GroupInv, InOwnMessage, InPlace, Shows
<1> QED BY <1>5, <1>7, <1>8, <1>9, <1>10 DEF GroupInv

LEMMA DropsHolds ==
    ASSUME GroupInv, Drops
    PROVE  GroupInv'
<1> USE DEF Drops, client, job, delivery, shown
<1> DEFINE k == Min(Beyond)
           m == sync.existing[k]
<1>1. sync.existing \in Seq(Nat)
  BY SyncFields DEF GroupInv
<1>2. k \in Beyond
  <2>1. Beyond \in SUBSET Nat
    BY <1>1 DEF Beyond
  <2> QED BY <2>1, MinExists
<1> HIDE DEF k
<1>3. k \in Nat /\ m \in Nat /\ m \in DOMAIN chat
  <2>1. k \in 1..Len(sync.existing) /\ k \in DOMAIN sync.existing
    BY <1>1, <1>2, LenProperties DEF Beyond
  <2> QED BY <1>1, <2>1, ElementOfSeq DEF GroupInv, IdsExist, Exist
<1>4. Enqueue("delete", None, m)
  BY DEF QueueDelete, k
<1>5. FitsChunk(NewRow("delete", None, m))
  <2>1. m # None
    BY <1>3 DEF GroupInv, GroupTypes, None
  <2> QED BY <2>1 DEF FitsChunk, NewRow
<1>6. /\ rows' \in Seq(OutboundRow)
      /\ RowsFit' /\ InCall' /\ RowsExist'
      /\ OwnRows => OwnRows'
  <2>1. None \in Nat
    BY DEF None
  <2> HIDE DEF m
  <2> QED BY <2>1, <1>3, <1>4, <1>5, EnqueuedFits
<1>7. /\ sync'.at = "find" /\ sync'.i = k + 1 /\ sync'.existing = sync.existing
      /\ sync'.found = sync.found /\ sync'.kept = sync.kept /\ sync' \in Syncing
  <2>1. sync' = SyncAt(sync.at, k + 1, sync.existing, sync.kept, sync.found)
    BY SyncFields DEF SyncAt, GroupInv, k
  <2>2. k + 1 \in Nat \ {0}
    BY <1>3
  <2>3. GroupTypes
    BY DEF GroupInv
  <2> HIDE DEF Drops
  <2>4. sync' \in Syncing
    BY <2>1, <2>2, <2>3, SyncFields DEF SyncAt, Syncing
  <2>5. sync'.at = sync.at /\ sync'.i = k + 1
    BY <2>1 DEF SyncAt
  <2>6. sync'.existing = sync.existing /\ sync'.kept = sync.kept
    BY <2>1 DEF SyncAt
  <2>7. sync'.found = sync.found
    BY <2>1 DEF SyncAt
  <2> QED BY <2>4, <2>5, <2>6, <2>7 DEF Drops
<1>8. sync.found = None
  BY DEF GroupInv, SyncFits
<1>9. GroupTypes'
  BY <1>6, <1>7 DEF GroupInv, GroupTypes, TypeOK
<1>10. SyncFits' /\ IdsExist'
  BY <1>6, <1>7, <1>8 DEF SyncFits, GroupInv, IdsExist, Exist
<1>11. "displaced" \notin odd' => InOwnMessage'
  BY <1>6, <1>7, <1>8 DEF GroupInv, InOwnMessage, InPlace, Shows
<1> QED BY <1>6, <1>9, <1>10, <1>11 DEF GroupInv

LEMMA EndsHolds ==
    ASSUME GroupInv, Ends
    PROVE  GroupInv'
<1> USE DEF client, job, delivery, shown
<1>1. sync.kept \in Seq(Nat) /\ Exist(sync.kept)
  BY SyncFields DEF GroupInv, IdsExist
<1>2. /\ sync'.at = "idle" /\ sync'.i = 1 /\ sync'.existing = <<>> /\ sync'.kept = <<>>
      /\ sync'.found = None /\ sync' \in Syncing
  <2>1. sync' = SyncAt("idle", 1, <<>>, <<>>, None)
    BY Empty DEF Ends
  <2>2. sync' \in Syncing
    BY <2>1, Empty DEF SyncAt, Syncing
  <2>3. sync'.at = "idle" /\ sync'.i = 1
    BY <2>1 DEF SyncAt
  <2>4. sync'.existing = <<>> /\ sync'.kept = <<>>
    BY <2>1 DEF SyncAt
  <2>5. sync'.found = None
    BY <2>1 DEF SyncAt
  <2> QED BY <2>2, <2>3, <2>4, <2>5
<1> USE DEF Ends
<1>3. \A i \in Chunks :
         /\ stored'[i] \in [id : Nat, active : BOOLEAN]
         /\ stored'[i].id # None => stored'[i].id \in DOMAIN chat
  <2> SUFFICES ASSUME NEW i \in Chunks
               PROVE  /\ stored'[i] \in [id : Nat, active : BOOLEAN]
                      /\ stored'[i].id # None => stored'[i].id \in DOMAIN chat
    OBVIOUS
  <2>1. i \in Nat \ {0} /\ size \in Nat
    <3> HIDE DEF Ends
    <3>1. GroupTypes
      BY DEF GroupInv
    <3> QED BY <3>1, SizeFits DEF Chunks
  <2>2. CASE i > size
    <3>1. stored'[i] = [stored[i] EXCEPT !.active = FALSE]
      BY <2>2
    <3>2. stored[i] \in [id : Nat, active : BOOLEAN]
      BY DEF GroupInv, GroupTypes
    <3> QED BY <3>1, <3>2 DEF GroupInv, IdsExist
  <2>3. CASE ~(i > size)
    <3>1. stored'[i] = [id |-> IF i <= Len(sync.kept) THEN sync.kept[i] ELSE None, active |-> TRUE]
      BY <2>3
    <3>2. i <= Len(sync.kept) => sync.kept[i] \in Nat /\ sync.kept[i] \in DOMAIN chat
      <4> SUFFICES ASSUME i <= Len(sync.kept) PROVE sync.kept[i] \in Nat /\ sync.kept[i] \in DOMAIN chat
        OBVIOUS
      <4>1. i \in 1..Len(sync.kept) /\ i \in DOMAIN sync.kept
        <5>1. DOMAIN sync.kept = 1..Len(sync.kept) /\ Len(sync.kept) \in Nat
          BY <1>1, LenProperties
        <5> HIDE DEF Ends
        <5> QED BY <2>1, <5>1
      <4> QED BY <1>1, <4>1, ElementOfSeq DEF Exist
    <3> QED BY <3>1, <3>2 DEF None
  <2> QED BY <2>2, <2>3
<1>4. GroupTypes'
  <2>1. stored' \in [Chunks -> [id : Nat, active : BOOLEAN]]
    BY <1>3
  <2> QED BY <1>1, <1>2, <2>1 DEF GroupInv, GroupTypes, TypeOK
<1>5. RowsFit' /\ SyncFits' /\ InCall'
  BY <1>2 DEF GroupInv, RowsFit, SyncFits, InCall
<1>a. chat' = chat /\ rows' = rows /\ ids' = sync.kept
      /\ ("displaced" \notin odd' => "displaced" \notin odd /\ ~Displaced(sync.kept))
  OBVIOUS
<1> HIDE DEF Ends
<1>b. DOMAIN sync'.existing = {} /\ DOMAIN sync'.kept = {}
  BY <1>2
<1>6. IdsExist'
  BY <1>1, <1>2, <1>3, <1>a, <1>b DEF GroupInv, IdsExist, RowsExist, Exist
<1>7. "displaced" \notin odd' => InOwnMessage'
  BY <1>2, <1>a, <1>b DEF GroupInv, InOwnMessage, OwnRows, Displaced, InPlace, Shows
<1> QED BY <1>4, <1>5, <1>6, <1>7 DEF GroupInv

-----------------------------------------------------------------------------
(* The delivery worker and the client.                                     *)

(* The chat may grow, and a message keeps its chunk. *)
ChatGrows == chat' \in Seq([chunk : Chunks, text : Nat]) /\ DOMAIN chat \subseteq DOMAIN chat'
ChunksKept == \A m \in DOMAIN chat : chat'[m].chunk = chat[m].chunk

(* What the main thread knows stands while the worker is at work. *)
LEMMA MainStands ==
    ASSUME GroupInv, UNCHANGED main, ChatGrows, "displaced" \notin odd => ChunksKept
    PROVE  /\ SyncFits'
           /\ Exist(ids)' /\ Exist(sync.existing)' /\ Exist(sync.kept)'
           /\ (sync.found # None => sync.found \in DOMAIN chat)'
           /\ "displaced" \notin odd' =>
                 /\ InPlace(ids)' /\ InPlace(sync.existing)'
                 /\ (sync.found # None => Shows(sync.found, sync.i))'
<1> USE DEF main, ChatGrows
<1>1. SyncFits'
  BY DEF GroupInv, SyncFits
<1>2. /\ Exist(ids)' /\ Exist(sync.existing)' /\ Exist(sync.kept)'
      /\ (sync.found # None => sync.found \in DOMAIN chat)'
  BY DEF GroupInv, IdsExist, Exist
<1>3. ASSUME "displaced" \notin odd'
      PROVE  /\ InPlace(ids)' /\ InPlace(sync.existing)'
             /\ (sync.found # None => Shows(sync.found, sync.i))'
  <2>1. ChunksKept /\ InOwnMessage /\ Exist(ids) /\ Exist(sync.existing)
        /\ (sync.found # None => sync.found \in DOMAIN chat)
    BY <1>3 DEF GroupInv, IdsExist
  <2> QED BY <2>1 DEF ChunksKept, InOwnMessage, InPlace, Exist, Shows
<1> QED BY <1>1, <1>2, <1>3

(* The fields of a row. *)
LEMMA RowFields ==
    ASSUME GroupTypes
    PROVE  /\ Len(rows) \in Nat /\ DOMAIN rows = 1..Len(rows)
           /\ \A r \in DOMAIN rows : rows[r] \in OutboundRow
<1>1. rows \in Seq(OutboundRow)
  BY DEF GroupTypes
<1> QED BY <1>1, LenProperties

(* Of one row nothing but the status changes. *)
StatusOnly(s) ==
    /\ rows' \in Seq(OutboundRow)
    /\ DOMAIN rows' = DOMAIN rows
    /\ \A r \in DOMAIN rows :
          /\ rows'[r].op = rows[r].op /\ rows'[r].key = rows[r].key
          /\ rows'[r].chunk = rows[r].chunk /\ rows'[r].msg = rows[r].msg

LEMMA StatusChanged ==
    ASSUME GroupInv, NEW n \in DOMAIN rows, NEW s \in {"queued", "claimed", "failed"},
           rows' = [rows EXCEPT ![n].status = s]
    PROVE  StatusOnly(s) /\ rows'[n].status = s
<1>1. /\ Len(rows) \in Nat /\ DOMAIN rows = 1..Len(rows)
      /\ \A r \in DOMAIN rows : rows[r] \in OutboundRow
  BY RowFields DEF GroupInv
<1>2. \A q \in OutboundRow : /\ [q EXCEPT !.status = s] \in OutboundRow
                             /\ [q EXCEPT !.status = s].op = q.op /\ [q EXCEPT !.status = s].key = q.key
                             /\ [q EXCEPT !.status = s].chunk = q.chunk /\ [q EXCEPT !.status = s].msg = q.msg
                             /\ [q EXCEPT !.status = s].status = s
  BY DEF OutboundRow
<1>3. \A r \in DOMAIN rows : rows'[r] = IF r = n THEN [rows[r] EXCEPT !.status = s] ELSE rows[r]
  BY <1>1
<1>4. DOMAIN rows' = DOMAIN rows
  OBVIOUS
<1>5. rows' \in [1..Len(rows) -> OutboundRow]
  BY <1>1, <1>2, <1>3
<1>6. rows' \in Seq(OutboundRow)
  BY <1>1, <1>5, IsSequence
<1> QED BY <1>1, <1>2, <1>3, <1>4, <1>6 DEF StatusOnly

LEMMA ClaimsHolds ==
    ASSUME GroupInv, Claims
    PROVE  GroupInv'
<1>1. row' \in Queued
  <2>1. DOMAIN rows = 1..Len(rows) /\ Len(rows) \in Nat
    BY RowFields DEF GroupInv
  <2>2. Queued \in SUBSET Nat
    BY <2>1 DEF Queued
  <2> QED BY <2>2, MinExists DEF Claims
<1>2. row' \in DOMAIN rows /\ row' \in Nat
  BY <1>1, RowFields DEF Queued, GroupInv
<1>3. rows' = [rows EXCEPT ![row'].status = "claimed"]
  BY DEF Claims
<1>4. StatusOnly("claimed") /\ rows'[row'].status = "claimed"
  BY <1>2, <1>3, StatusChanged
<1>5. /\ stage = "idle" /\ stage' = "called" /\ Dispatches(Delivery)
      /\ UNCHANGED <<reason, shown, main, stored, refused>>
  BY DEF Claims
<1>6. requests = <<>> /\ worker = "idle" /\ Delivery \in Callers /\ result \in [Callers -> {"none", "waits", "ok", "error"}]
  BY <1>5, GroupAssumption DEF GroupInv, GroupTypes, TypeOK, InCall
<1>7. /\ requests' = <<Delivery>> /\ result'[Delivery] = "waits" /\ worker' = "idle"
      /\ current' = current /\ attempts' = attempts /\ nap' = nap /\ closed' = closed
      /\ calls' = calls + 1 /\ calls < MaxCalls /\ result' \in [Callers -> {"none", "waits", "ok", "error"}]
  BY <1>5, <1>6 DEF Dispatches, job
<1>8. GroupTypes'
  <2>1. TypeOK'
    BY <1>6, <1>7, ClientAssumption DEF GroupInv, GroupTypes, TypeOK
  <2> QED BY <2>1, <1>2, <1>4, <1>5 DEF GroupInv, GroupTypes, StatusOnly, main, shown
<1>9. RowsFit'
  BY <1>4 DEF GroupInv, RowsFit, FitsChunk, StatusOnly
<1>10. InCall'
  BY <1>2, <1>4, <1>5, <1>7 DEF InCall, StatusOnly
<1>11. ChatGrows /\ ChunksKept
  BY <1>5 DEF ChatGrows, ChunksKept, shown, GroupInv, GroupTypes
<1>12. RowsExist' /\ (OwnRows => OwnRows')
  BY <1>4, <1>5 DEF GroupInv, IdsExist, RowsExist, OwnRows, Shows, StatusOnly, shown
<1>13. \A i \in Chunks : (stored[i].id # None => stored[i].id \in DOMAIN chat)'
  BY <1>5 DEF GroupInv, IdsExist, shown
<1>14. UNCHANGED main
  BY <1>5
<1> QED BY <1>8, <1>9, <1>10, <1>11, <1>12, <1>13, <1>14, MainStands DEF GroupInv, IdsExist, InOwnMessage, main

LEMMA GivesBackHolds ==
    ASSUME GroupInv, GivesBack
    PROVE  GroupInv'
<1> DEFINE s == IF reason = "limited" THEN "queued" ELSE "failed"
<1>1. /\ stage = "called" /\ stage' = "idle" /\ row' = None /\ Returns(Delivery)
      /\ result[Delivery] = "error" /\ rows' = [rows EXCEPT ![row].status = s]
      /\ UNCHANGED <<shown, main, stored, refused>>
  BY DEF GivesBack
<1>2. row \in DOMAIN rows /\ s \in {"queued", "claimed", "failed"}
  BY <1>1 DEF GroupInv, InCall
<1>3. StatusOnly(s)
  BY <1>1, <1>2, StatusChanged
<1> HIDE DEF s
<1>4. requests = <<>> /\ worker = "idle" /\ Delivery \in Callers /\ result \in [Callers -> {"none", "waits", "ok", "error"}]
  BY <1>1, GroupAssumption DEF GroupInv, GroupTypes, TypeOK, InCall
<1>5. /\ requests' = <<>> /\ result'[Delivery] = "none" /\ worker' = "idle"
      /\ current' = current /\ attempts' = attempts /\ nap' = nap /\ closed' = closed
      /\ calls' = calls /\ result' \in [Callers -> {"none", "waits", "ok", "error"}]
  BY <1>1, <1>4 DEF Returns, job
<1>6. GroupTypes'
  <2>1. TypeOK'
    BY <1>4, <1>5 DEF GroupInv, GroupTypes, TypeOK
  <2> QED BY <2>1, <1>1, <1>3, Empty DEF GroupInv, GroupTypes, StatusOnly, main, shown
<1>7. RowsFit'
  BY <1>3 DEF GroupInv, RowsFit, FitsChunk, StatusOnly
<1>8. InCall'
  BY <1>1, <1>5 DEF InCall
<1>9. ChatGrows /\ ChunksKept
  BY <1>1 DEF ChatGrows, ChunksKept, shown, GroupInv, GroupTypes
<1>10. RowsExist' /\ (OwnRows => OwnRows')
  BY <1>1, <1>3 DEF GroupInv, IdsExist, RowsExist, OwnRows, Shows, StatusOnly, shown
<1>11. \A i \in Chunks : (stored[i].id # None => stored[i].id \in DOMAIN chat)'
  BY <1>1 DEF GroupInv, IdsExist, shown
<1>12. UNCHANGED main
  BY <1>1
<1> QED BY <1>6, <1>7, <1>8, <1>9, <1>10, <1>11, <1>12, MainStands DEF GroupInv, IdsExist, InOwnMessage, main

LEMMA StoresIdHolds ==
    ASSUME GroupInv, StoresId
    PROVE  GroupInv'
<1>1. /\ stage = "storing" /\ stage' = "idle" /\ row' = None
      /\ stored' = IF stored[rows[row].chunk].active
                   THEN [stored EXCEPT ![rows[row].chunk].id = rows[row].msg] ELSE stored
      /\ UNCHANGED <<client, reason, shown, main, rows, refused>>
  BY DEF StoresId
<1>2. row \in DOMAIN rows /\ rows[row] \in OutboundRow /\ rows[row].op = "send"
  BY <1>1, RowFields DEF GroupInv, InCall
<1>3. rows[row].chunk \in Chunks /\ rows[row].msg \in Nat /\ (rows[row].msg # None => rows[row].msg \in DOMAIN chat)
  BY <1>2 DEF GroupInv, RowsFit, FitsChunk, IdsExist, RowsExist, OutboundRow
<1>4. stored' \in [Chunks -> [id : Nat, active : BOOLEAN]]
      /\ \A i \in Chunks : stored'[i].id # None => stored'[i].id \in DOMAIN chat
  <2>1. stored \in [Chunks -> [id : Nat, active : BOOLEAN]]
    BY DEF GroupInv, GroupTypes
  <2>2. \A i \in Chunks : stored'[i] = stored[i] \/ stored'[i] = [stored[i] EXCEPT !.id = rows[row].msg]
    BY <1>1, <2>1
  <2>3. \A i \in Chunks : stored[i].id # None => stored[i].id \in DOMAIN chat
    BY DEF GroupInv, IdsExist
  <2>4. \A i \in Chunks : stored[i] \in [id : Nat, active : BOOLEAN]
    BY <2>1
  <2>5. \A i \in Chunks : /\ stored'[i] \in [id : Nat, active : BOOLEAN]
                          /\ stored'[i].id # None => stored'[i].id \in DOMAIN chat
    BY <1>3, <2>2, <2>3, <2>4
  <2>6. stored' = [i \in Chunks |-> stored'[i]]
    BY <1>1, <2>1
  <2> QED BY <2>5, <2>6
<1>5. GroupTypes'
  BY <1>1, <1>4, Empty DEF GroupInv, GroupTypes, TypeOK, client, job, main, shown
<1>6. RowsFit' /\ InCall'
  BY <1>1 DEF GroupInv, RowsFit, InCall, client, job, shown
<1>7. ChatGrows /\ ChunksKept
  BY <1>1 DEF ChatGrows, ChunksKept, shown, GroupInv, GroupTypes
<1>8. RowsExist' /\ (OwnRows => OwnRows')
  BY <1>1 DEF GroupInv, IdsExist, RowsExist, OwnRows, Shows, shown
<1>9. \A i \in Chunks : (stored[i].id # None => stored[i].id \in DOMAIN chat)'
  BY <1>1, <1>4 DEF shown
<1>10. UNCHANGED main
  BY <1>1
<1> QED BY <1>5, <1>6, <1>7, <1>8, <1>9, <1>10, MainStands DEF GroupInv, IdsExist, InOwnMessage, main

(* While a request waits or goes out, it is the delivery's. *)
LEMMA TheirCall ==
    ASSUME GroupInv
    PROVE  /\ Callers = {Delivery} /\ Delivery \in Callers
           /\ result \in [Callers -> {"none", "waits", "ok", "error"}]
           /\ requests # <<>> => requests = <<Delivery>> /\ result[Delivery] = "waits"
           /\ worker # "idle" => current = <<Delivery>> /\ current[1] = Delivery
                                 /\ result[Delivery] = "waits" /\ requests = <<>>
BY GroupAssumption DEF GroupInv, GroupTypes, TypeOK, InCall

LEMMA ClientGoesOnHolds ==
    ASSUME GroupInv, ClientGoesOn
    PROVE  GroupInv'
<1>1. UNCHANGED <<delivery, shown, main, rows, stored, refused>>
  BY DEF ClientGoesOn
<1>2. TypeOK' /\ InCall'
  <2>1. TypeOK /\ InCall
    BY DEF GroupInv, GroupTypes
  <2>2. CASE TakesRequest
    <3>1. requests = <<Delivery>> /\ result[Delivery] = "waits" /\ worker = "idle"
      BY <2>2, TheirCall DEF TakesRequest
    <3>2. /\ current' = <<Delivery>> /\ requests' = <<>> /\ worker' = "sending" /\ attempts' = 0
          /\ UNCHANGED <<nap, result, closed, calls>>
      BY <2>2, <3>1 DEF TakesRequest
    <3>3. TypeOK'
      BY <2>1, <3>2, TheirCall, ClientAssumption DEF TypeOK
    <3>4. InCall'
      BY <1>1, <2>1, <3>1, <3>2 DEF InCall, delivery, shown
    <3> QED BY <3>3, <3>4
  <2>3. CASE WakesUp
    <3>1. TypeOK'
      BY <2>1, <2>3 DEF TypeOK, WakesUp
    <3>2. InCall'
      BY <1>1, <2>1, <2>3 DEF InCall, delivery, shown, WakesUp
    <3> QED BY <3>1, <3>2
  <2>4. CASE Tick
    <3>1. TypeOK'
      BY <2>1, <2>4 DEF TypeOK, Tick
    <3>2. InCall'
      BY <1>1, <2>1, <2>4 DEF InCall, delivery, shown, Tick
    <3> QED BY <3>1, <3>2
  <2> QED BY <2>2, <2>3, <2>4 DEF ClientGoesOn
<1>3. GroupTypes'
  BY <1>1, <1>2 DEF GroupInv, GroupTypes, delivery, shown, main
<1>4. RowsFit' /\ RowsExist' /\ (OwnRows => OwnRows')
  BY <1>1 DEF GroupInv, RowsFit, IdsExist, RowsExist, OwnRows, Shows, shown
<1>5. ChatGrows /\ ChunksKept
  BY <1>1 DEF ChatGrows, ChunksKept, shown, GroupInv, GroupTypes
<1>6. \A i \in Chunks : (stored[i].id # None => stored[i].id \in DOMAIN chat)'
  BY <1>1 DEF GroupInv, IdsExist, shown
<1>7. UNCHANGED main
  BY <1>1
<1> QED BY <1>2, <1>3, <1>4, <1>5, <1>6, <1>7, MainStands DEF GroupInv, IdsExist, InOwnMessage, main

(* A call changes the message of its own chunk, or posts a new one. *)
LEMMA ExecutesFits ==
    ASSUME GroupInv, row \in DOMAIN rows, NEW outcome, NEW why, Executes(outcome, why)
    PROVE  /\ ChatGrows
           /\ "displaced" \notin odd => ChunksKept
           /\ outcome \in {"ok", "error"}
           /\ outcome = "ok" /\ rows[row].op = "send" =>
                 chat' # <<>> /\ chat'[Len(chat')].chunk = rows[row].chunk
<1> DEFINE r == rows[row]
           shows == [chunk |-> r.chunk, text |-> r.text]
<1>1. chat \in Seq([chunk : Chunks, text : Nat]) /\ r \in OutboundRow /\ FitsChunk(r)
  BY RowFields DEF GroupInv, GroupTypes, RowsFit
<1>2. Len(chat) \in Nat /\ DOMAIN chat = 1..Len(chat)
  BY <1>1, LenProperties
<1>3. r.op # "delete" => shows \in [chunk : Chunks, text : Nat]
  BY <1>1 DEF FitsChunk, OutboundRow
<1>4. shows.chunk = r.chunk
  OBVIOUS
<1>5. r.msg # None => r.msg \in DOMAIN chat
  BY DEF GroupInv, IdsExist, RowsExist
<1>6. "displaced" \notin odd /\ r.op # "delete" /\ r.msg # None => chat[r.msg].chunk = r.chunk
  BY DEF GroupInv, InOwnMessage, OwnRows, Shows
<1>7. \/ r.op = "send" /\ chat' = Append(chat, shows) /\ outcome = "ok"
      \/ r.op = "edit" /\ chat' = [chat EXCEPT ![r.msg] = shows] /\ outcome = "ok"
      \/ r.op = "delete" /\ chat' = chat /\ outcome = "ok"
      \/ chat' = chat /\ outcome = "error"
  BY DEF Executes, shown
<1> HIDE DEF shows
<1>8. CASE r.op = "send" /\ chat' = Append(chat, shows) /\ outcome = "ok"
  <2>1. /\ chat' \in Seq([chunk : Chunks, text : Nat]) /\ Len(chat') = Len(chat) + 1
        /\ DOMAIN chat' = 1..(Len(chat) + 1)
        /\ \A k \in 1..Len(chat) : chat'[k] = chat[k]
        /\ chat'[Len(chat) + 1] = shows
    BY <1>1, <1>3, <1>8, Appended
  <2>2. DOMAIN chat \subseteq DOMAIN chat' /\ ChunksKept
    BY <1>2, <2>1 DEF ChunksKept
  <2>3. chat' # <<>> /\ chat'[Len(chat')].chunk = r.chunk
    BY <1>2, <1>4, <2>1
  <2> QED BY <1>8, <2>1, <2>2, <2>3 DEF ChatGrows
<1>9. CASE r.op = "edit" /\ chat' = [chat EXCEPT ![r.msg] = shows] /\ outcome = "ok"
  <2>1. r.msg # None /\ r.msg \in 1..Len(chat)
    BY <1>1, <1>2, <1>5, <1>9 DEF FitsChunk
  <2>2. chat' \in Seq([chunk : Chunks, text : Nat]) /\ DOMAIN chat' = DOMAIN chat
    BY <1>1, <1>3, <1>9, <2>1, ExceptSeq
  <2>3. \A m \in DOMAIN chat : chat'[m] = IF m = r.msg THEN shows ELSE chat[m]
    BY <1>9
  <2>4. "displaced" \notin odd => ChunksKept
    BY <1>4, <1>6, <1>9, <2>1, <2>3 DEF ChunksKept
  <2> QED BY <1>9, <2>2, <2>4 DEF ChatGrows
<1>10. CASE chat' = chat /\ outcome \in {"ok", "error"} /\ (r.op = "delete" \/ outcome = "error")
  BY <1>1, <1>10 DEF ChatGrows, ChunksKept
<1> QED BY <1>7, <1>8, <1>9, <1>10

LEMMA AnswersRowHolds ==
    ASSUME GroupInv, AnswersRow
    PROVE  GroupInv'
<1>1. /\ worker = "sending" /\ UNCHANGED <<row, stage, main, rows, stored>>
      /\ requests' = requests /\ calls' = calls
  BY DEF AnswersRow, Accepted, Limited
<1>2. /\ Callers = {Delivery} /\ Delivery \in Callers
      /\ result \in [Callers -> {"none", "waits", "ok", "error"}]
      /\ current = <<Delivery>> /\ current[1] = Delivery
      /\ result[Delivery] = "waits" /\ requests = <<>>
  BY <1>1, TheirCall
<1>3. stage = "called" /\ row \in DOMAIN rows /\ rows[row].status = "claimed"
  BY <1>2 DEF GroupInv, InCall
<1>4. /\ ChatGrows
      /\ "displaced" \notin odd => ChunksKept
      /\ result'[Delivery] = "ok" /\ rows[row].op = "send" =>
            chat' # <<>> /\ chat'[Len(chat')].chunk = rows[row].chunk
  <2>1. CASE Accepted /\ Executes(result'[Delivery], reason')
    BY <1>3, <2>1, ExecutesFits, Zenon
  <2>2. CASE Limited /\ UNCHANGED <<shown, refused>>
    <3>1. result'[Delivery] # "ok"
      BY <1>2, <2>2 DEF Limited, Answers
    <3>2. chat' = chat
      BY <2>2 DEF shown
    <3> QED BY <3>1, <3>2 DEF ChatGrows, ChunksKept, GroupInv, GroupTypes
  <2> QED BY <2>1, <2>2 DEF AnswersRow
<1>5. ASSUME \E outcome \in {"ok", "error"} : Answers(outcome) /\ closed' \in Nat
      PROVE  TypeOK' /\ InCall'
  <2>1. PICK outcome \in {"ok", "error"} : Answers(outcome) /\ closed' \in Nat
    BY <1>5
  <2>2. /\ result' \in [Callers -> {"none", "waits", "ok", "error"}] /\ result'[Delivery] = outcome
        /\ current' = <<>> /\ worker' = "idle" /\ attempts' = attempts /\ nap' = nap
    BY <1>2, <2>1 DEF Answers
  <2>3. TypeOK'
    BY <1>1, <2>1, <2>2 DEF GroupInv, GroupTypes, TypeOK
  <2>4. InCall'
    BY <1>1, <1>2, <1>3, <1>4, <2>1, <2>2 DEF InCall
  <2> QED BY <2>3, <2>4
<1>6. ASSUME Limited /\ ~GivesUp
      PROVE  TypeOK' /\ InCall'
  <2>1. /\ attempts' = attempts + 1 /\ worker' = "sleeping" /\ UNCHANGED <<current, result>>
        /\ attempts \in Nat /\ attempts < MaxAttempts
    BY <1>6, ClientAssumption DEF Limited, GivesUp, AnotherAttempt, GroupInv, GroupTypes, TypeOK
  <2>2. closed' \in Nat /\ nap' \in Nat
    <3>1. closed' \in Nat
      BY <1>6, ClientAssumption DEF Limited, GroupInv, GroupTypes, TypeOK
    <3> QED BY <1>6, <3>1 DEF Limited, RetryDelay
  <2>3. TypeOK'
    BY <1>1, <2>1, <2>2, ClientAssumption DEF GroupInv, GroupTypes, TypeOK
  <2>4. InCall'
    BY <1>1, <1>2, <1>3, <1>4, <2>1 DEF InCall
  <2> QED BY <2>3, <2>4
<1>7. TypeOK' /\ InCall'
  <2>1. CASE Accepted
    <3>1. closed' \in Nat
      BY <2>1 DEF Accepted, GroupInv, GroupTypes, TypeOK
    <3> QED BY <1>5, <2>1, <3>1 DEF Accepted
  <2>2. CASE Limited /\ GivesUp
    <3>1. closed' \in Nat
      BY <2>2, ClientAssumption DEF Limited, GroupInv, GroupTypes, TypeOK
    <3> QED BY <1>5, <2>2, <3>1 DEF Limited
  <2> QED BY <1>6, <2>1, <2>2 DEF AnswersRow
<1>8. GroupTypes'
  BY <1>1, <1>4, <1>7 DEF GroupInv, GroupTypes, main, ChatGrows
<1>9. RowsFit' /\ RowsExist'
  BY <1>1, <1>4 DEF GroupInv, RowsFit, IdsExist, RowsExist, ChatGrows
<1>10. "displaced" \notin odd' => OwnRows'
  BY <1>1, <1>4 DEF GroupInv, InOwnMessage, OwnRows, IdsExist, RowsExist, Shows, ChunksKept, main
<1>11. \A i \in Chunks : (stored[i].id # None => stored[i].id \in DOMAIN chat)'
  BY <1>1, <1>4 DEF GroupInv, IdsExist, ChatGrows
<1>12. UNCHANGED main
  BY <1>1
<1> QED BY <1>4, <1>7, <1>8, <1>9, <1>10, <1>11, <1>12, MainStands DEF GroupInv, IdsExist, InOwnMessage, main

AsEdit(q, m) == [q EXCEPT !.op = "edit", !.msg = m]

(* The row that completes has its message; a queued send of its key becomes *)
(* an edit of that message.                                                 *)
CompletedAs(m) ==
    [r \in DOMAIN rows |-> IF r = row THEN [rows[r] EXCEPT !.status = "completed", !.msg = m]
                           ELSE Promoted(r, m)]

SameRow(p, q) == q.op = p.op /\ q.key = p.key /\ q.chunk = p.chunk /\ q.msg = p.msg

LEMMA CompletedRows ==
    ASSUME GroupInv, row \in DOMAIN rows, NEW m \in Nat, rows' = CompletedAs(m)
    PROVE  /\ rows' \in Seq(OutboundRow) /\ DOMAIN rows' = DOMAIN rows
           /\ rows'[row].op = rows[row].op /\ rows'[row].status = "completed"
           /\ rows'[row].key = rows[row].key /\ rows'[row].chunk = rows[row].chunk
           /\ rows'[row].msg = m
           /\ \A r \in DOMAIN rows : r # row =>
                 \/ SameRow(rows[r], rows'[r])
                 \/ /\ rows[row].op = "send" /\ rows[r].op = "send" /\ rows[r].key = rows[row].key
                    /\ rows'[r].op = "edit" /\ rows'[r].key = rows[r].key
                    /\ rows'[r].chunk = rows[r].chunk /\ rows'[r].msg = m
<1>1. /\ Len(rows) \in Nat /\ DOMAIN rows = 1..Len(rows)
      /\ \A r \in DOMAIN rows : rows[r] \in OutboundRow
  BY RowFields DEF GroupInv
<1>2. \A q \in OutboundRow :
         /\ [q EXCEPT !.status = "completed", !.msg = m] \in OutboundRow
         /\ [q EXCEPT !.status = "completed", !.msg = m].op = q.op
         /\ [q EXCEPT !.status = "completed", !.msg = m].key = q.key
         /\ [q EXCEPT !.status = "completed", !.msg = m].chunk = q.chunk
         /\ [q EXCEPT !.status = "completed", !.msg = m].msg = m
         /\ [q EXCEPT !.status = "completed", !.msg = m].status = "completed"
  BY DEF OutboundRow
<1>3. \A q \in OutboundRow :
         /\ AsEdit(q, m) \in OutboundRow
         /\ AsEdit(q, m).op = "edit"
         /\ AsEdit(q, m).key = q.key
         /\ AsEdit(q, m).chunk = q.chunk
         /\ AsEdit(q, m).msg = m
  BY DEF OutboundRow, AsEdit
<1>4. /\ DOMAIN rows' = DOMAIN rows
      /\ rows'[row] = [rows[row] EXCEPT !.status = "completed", !.msg = m]
      /\ \A r \in DOMAIN rows : r # row => rows'[r] = Promoted(r, m)
  BY DEF CompletedAs
<1>5. \A r \in DOMAIN rows :
         \/ Promoted(r, m) = rows[r]
         \/ /\ rows[row].op = "send" /\ rows[r].op = "send" /\ rows[r].key = rows[row].key
            /\ Promoted(r, m) = AsEdit(rows[r], m)
  BY DEF Promoted, AsEdit
<1>6. \A r \in DOMAIN rows : rows'[r] \in OutboundRow
  <2> SUFFICES ASSUME NEW r \in DOMAIN rows PROVE rows'[r] \in OutboundRow
    OBVIOUS
  <2>1. rows[r] \in OutboundRow
    BY <1>1
  <2>2. CASE r = row
    BY <1>2, <1>4, <2>1, <2>2, Zenon
  <2>3. CASE r # row
    <3>1. AsEdit(rows[r], m) \in OutboundRow
      BY <1>3, <2>1
    <3>2. rows'[r] = rows[r] \/ rows'[r] = AsEdit(rows[r], m)
      BY <1>4, <1>5, <2>3
    <3> QED BY <2>1, <3>1, <3>2
  <2> QED BY <2>2, <2>3
<1>7. rows' \in Seq(OutboundRow)
  <2>1. rows' = [r \in 1..Len(rows) |-> rows'[r]]
    BY <1>1 DEF CompletedAs
  <2>2. rows' \in [1..Len(rows) -> OutboundRow]
    BY <1>1, <1>6, <2>1
  <2> QED BY <1>1, <2>2, IsSequence
<1>8. rows[row] \in OutboundRow
  BY <1>1
<1>9. /\ rows'[row].op = rows[row].op /\ rows'[row].status = "completed"
      /\ rows'[row].key = rows[row].key /\ rows'[row].chunk = rows[row].chunk
      /\ rows'[row].msg = m
  BY <1>2, <1>4, <1>8
<1>10. ASSUME NEW r \in DOMAIN rows, r # row
       PROVE  \/ SameRow(rows[r], rows'[r])
              \/ /\ rows[row].op = "send" /\ rows[r].op = "send" /\ rows[r].key = rows[row].key
                 /\ rows'[r].op = "edit" /\ rows'[r].key = rows[r].key
                 /\ rows'[r].chunk = rows[r].chunk /\ rows'[r].msg = m
  <2>1. rows'[r] = Promoted(r, m) /\ rows[r] \in OutboundRow
    BY <1>1, <1>4, <1>10
  <2>2. CASE Promoted(r, m) = rows[r]
    BY <2>1, <2>2 DEF SameRow
  <2>3. CASE /\ rows[row].op = "send" /\ rows[r].op = "send" /\ rows[r].key = rows[row].key
             /\ Promoted(r, m) = AsEdit(rows[r], m)
    <3>1. rows'[r] = AsEdit(rows[r], m)
      BY <2>1, <2>3
    <3> QED BY <1>3, <2>1, <2>3, <3>1
  <2> QED BY <1>5, <2>2, <2>3
<1> QED BY <1>4, <1>7, <1>9, <1>10

LEMMA CompletesHolds ==
    ASSUME GroupInv, Completes
    PROVE  GroupInv'
<1> DEFINE m == IF rows[row].op = "send" THEN Len(chat) ELSE rows[row].msg
<1>1. /\ stage = "called" /\ Returns(Delivery) /\ rows' = CompletedAs(m)
      /\ (rows[row].op = "send" => stage' = "storing" /\ row' = row)
      /\ (rows[row].op # "send" => stage' = "idle" /\ row' = None)
      /\ UNCHANGED <<shown, main, stored, refused>>
      /\ (result[Delivery] = "ok" \/ rows[row].op = "delete")
  BY DEF Completes, CompletedAs
<1>2. row \in DOMAIN rows /\ rows[row] \in OutboundRow /\ FitsChunk(rows[row])
  BY <1>1, RowFields DEF GroupInv, InCall, RowsFit
<1>3. /\ m \in Nat /\ m # None /\ m \in DOMAIN chat
      /\ rows[row].op = "send" => chat[m].chunk = rows[row].chunk
      /\ rows[row].op # "send" => m = rows[row].msg
  <2>1. chat \in Seq([chunk : Chunks, text : Nat])
    BY DEF GroupInv, GroupTypes
  <2>2. Len(chat) \in Nat /\ DOMAIN chat = 1..Len(chat) /\ (chat # <<>> => Len(chat) # 0)
    BY <2>1, LenProperties, EmptySeq
  <2>3. CASE rows[row].op = "send"
    <3>1. chat # <<>> /\ chat[Len(chat)].chunk = rows[row].chunk
      BY <1>1, <2>3 DEF GroupInv, InCall
    <3> QED BY <2>2, <2>3, <3>1 DEF None
  <2>4. CASE rows[row].op # "send"
    BY <1>2, <2>4 DEF FitsChunk, OutboundRow, GroupInv, IdsExist, RowsExist
  <2> QED BY <2>3, <2>4
<1> HIDE DEF m
<1>4. /\ rows' \in Seq(OutboundRow) /\ DOMAIN rows' = DOMAIN rows
      /\ rows'[row].op = rows[row].op /\ rows'[row].status = "completed"
      /\ rows'[row].key = rows[row].key /\ rows'[row].chunk = rows[row].chunk
      /\ rows'[row].msg = m
      /\ \A r \in DOMAIN rows : r # row =>
            \/ SameRow(rows[r], rows'[r])
            \/ /\ rows[row].op = "send" /\ rows[r].op = "send" /\ rows[r].key = rows[row].key
               /\ rows'[r].op = "edit" /\ rows'[r].key = rows[r].key
               /\ rows'[r].chunk = rows[r].chunk /\ rows'[r].msg = m
  BY <1>1, <1>2, <1>3, CompletedRows
<1>5. /\ Callers = {Delivery} /\ Delivery \in Callers
      /\ result \in [Callers -> {"none", "waits", "ok", "error"}]
      /\ requests = <<>> /\ worker = "idle"
  BY <1>1, TheirCall DEF Returns
<1>6. /\ requests' = <<>> /\ result'[Delivery] = "none" /\ worker' = "idle"
      /\ current' = current /\ attempts' = attempts /\ nap' = nap /\ closed' = closed
      /\ calls' = calls /\ result' \in [Callers -> {"none", "waits", "ok", "error"}]
  BY <1>1, <1>5 DEF Returns, job
<1>7. GroupTypes'
  <2>1. TypeOK'
    BY <1>5, <1>6 DEF GroupInv, GroupTypes, TypeOK
  <2>2. row' \in Nat /\ stage' \in {"idle", "called", "storing"}
    BY <1>1, Empty DEF GroupInv, GroupTypes
  <2> QED BY <2>1, <2>2, <1>1, <1>4 DEF GroupInv, GroupTypes, main, shown
<1>8. RowsFit'
  <2> SUFFICES ASSUME NEW r \in DOMAIN rows PROVE FitsChunk(rows'[r])
    BY <1>4 DEF RowsFit
  <2>1. FitsChunk(rows[r])
    BY DEF GroupInv, RowsFit
  <2>2. CASE r = row
    BY <1>3, <1>4, <2>1, <2>2 DEF FitsChunk
  <2>3. CASE r # row
    <3>1. CASE SameRow(rows[r], rows'[r])
      BY <2>1, <3>1 DEF FitsChunk, SameRow
    <3>2. CASE /\ rows[r].op = "send" /\ rows'[r].op = "edit" /\ rows'[r].key = rows[r].key
               /\ rows'[r].chunk = rows[r].chunk /\ rows'[r].msg = m
      BY <1>3, <2>1, <3>2 DEF FitsChunk
    <3> QED BY <1>4, <2>3, <3>1, <3>2
  <2> QED BY <2>2, <2>3
<1>9. InCall'
  BY <1>1, <1>2, <1>4, <1>6 DEF InCall
<1>10. ChatGrows /\ ChunksKept
  BY <1>1 DEF ChatGrows, ChunksKept, shown, GroupInv, GroupTypes
<1>11. RowsExist'
  <2> SUFFICES ASSUME NEW r \in DOMAIN rows, rows'[r].msg # None PROVE rows'[r].msg \in DOMAIN chat
    BY <1>1, <1>4 DEF RowsExist, shown
  <2>1. rows[r].msg # None => rows[r].msg \in DOMAIN chat
    BY DEF GroupInv, IdsExist, RowsExist
  <2> QED BY <1>3, <1>4, <2>1 DEF SameRow
<1>12. "displaced" \notin odd' => OwnRows'
  <2> SUFFICES ASSUME "displaced" \notin odd', NEW r \in DOMAIN rows,
                      rows'[r].op # "delete", rows'[r].msg # None
               PROVE  chat[rows'[r].msg].chunk = rows'[r].chunk
    BY <1>1, <1>4 DEF OwnRows, Shows, shown
  <2>1. \A n \in DOMAIN rows : rows[n].op # "delete" /\ rows[n].msg # None => chat[rows[n].msg].chunk = rows[n].chunk
    BY <1>1 DEF GroupInv, InOwnMessage, OwnRows, Shows, main
  <2>2. CASE r = row
    BY <1>2, <1>3, <1>4, <2>1, <2>2
  <2>3. CASE r # row
    <3>1. CASE SameRow(rows[r], rows'[r])
      BY <2>1, <3>1 DEF SameRow
    <3>2. CASE /\ rows[row].op = "send" /\ rows[r].op = "send" /\ rows[r].key = rows[row].key
               /\ rows'[r].op = "edit" /\ rows'[r].key = rows[r].key
               /\ rows'[r].chunk = rows[r].chunk /\ rows'[r].msg = m
      <4>1. rows[r].chunk = rows[row].chunk
        BY <1>2, <3>2 DEF FitsChunk, GroupInv, RowsFit
      <4> QED BY <1>3, <3>2, <4>1
    <3> QED BY <1>4, <2>3, <3>1, <3>2
  <2> QED BY <2>2, <2>3
<1>13. \A i \in Chunks : (stored[i].id # None => stored[i].id \in DOMAIN chat)'
  BY <1>1 DEF GroupInv, IdsExist, shown
<1>14. UNCHANGED main
  BY <1>1
<1> QED BY <1>7, <1>8, <1>9, <1>10, <1>11, <1>12, <1>13, <1>14, MainStands DEF GroupInv, IdsExist, InOwnMessage, main

-----------------------------------------------------------------------------
(* The theorems.                                                           *)

LEMMA GroupSteps == GroupInv /\ [GroupNext]_groupVars => GroupInv'
<1> SUFFICES ASSUME GroupInv, [GroupNext]_groupVars PROVE GroupInv'
  OBVIOUS
<1>1. CASE \E n \in Chunks : Begins(n)
  BY <1>1, BeginsHolds
<1>2. CASE Finds
  BY <1>2, FindsHolds
<1>3. CASE Submits
  BY <1>3, SubmitsHolds
<1>4. CASE Drops
  BY <1>4, DropsHolds
<1>5. CASE Ends
  BY <1>5, EndsHolds
<1>6. CASE Claims
  BY <1>6, ClaimsHolds
<1>7. CASE Completes
  BY <1>7, CompletesHolds
<1>8. CASE StoresId
  BY <1>8, StoresIdHolds
<1>9. CASE GivesBack
  BY <1>9, GivesBackHolds
<1>10. CASE AnswersRow
  BY <1>10, AnswersRowHolds
<1>11. CASE ClientGoesOn
  BY <1>11, ClientGoesOnHolds
<1>12. CASE UNCHANGED groupVars
  <2> USE <1>12 DEF groupVars, client, job, delivery, shown, main
  <2>1. GroupTypes'
    BY DEF GroupInv, GroupTypes, TypeOK
  <2>2. RowsFit' /\ SyncFits' /\ InCall'
    BY DEF GroupInv, RowsFit, SyncFits, InCall
  <2>3. IdsExist'
    BY DEF GroupInv, IdsExist, RowsExist, Exist
  <2>4. "displaced" \notin odd' => InOwnMessage'
    BY DEF GroupInv, InOwnMessage, InPlace, OwnRows, Shows
  <2> QED BY <2>1, <2>2, <2>3, <2>4 DEF GroupInv
<1> QED
  BY <1>1, <1>2, <1>3, <1>4, <1>5, <1>6, <1>7, <1>8, <1>9, <1>10, <1>11, <1>12 DEF GroupNext, Syncs, Delivers

(* The invariant holds, for any number of chunks, texts and calls and      *)
(* whatever Telegram limits or refuses.                                    *)
THEOREM GroupHolds == GroupSpec => []GroupInv
BY InitialGroup, GroupSteps, PTL DEF GroupSpec

(* The request worker, its callers and their results keep their types when *)
(* the delivery worker is the caller.                                      *)
THEOREM ClientTypes == GroupSpec => []TypeOK
<1>1. GroupInv => TypeOK
  BY DEF GroupInv, GroupTypes
<1> QED BY <1>1, GroupHolds, PTL

(* A session's ids stay the messages of its chunks in their order: while   *)
(* the ids of sends in flight are unknown no chunk is edited into the      *)
(* message of another one, except after a list of ids has closed up.       *)
THEOREM ChunksKeepMessages == GroupSpec => []OwnMessages
<1>1. GroupInv => OwnMessages
  BY DEF GroupInv, InOwnMessage, InPlace, Shows, OwnMessages, Displaced
<1> QED BY <1>1, GroupHolds, PTL
-----------------------------------------------------------------------------
(* The inductive invariant of TextStands.  It is about a group of which    *)
(* nothing has gone wrong: odd is empty and no row has failed.             *)

Live(r)  == rows[r].status \in {"queued", "claimed"}
Done(r)  == rows[r].status = "completed"
Keyed(r) == rows[r].key # None

(* The rows are executed in the order of their creation, and at most one   *)
(* is claimed: the worker's.                                               *)
InOrder ==
    /\ \A r, q \in DOMAIN rows : Done(r) /\ Live(q) => r < q
    /\ \A r, q \in DOMAIN rows : rows[r].status = "claimed" /\ rows[q].status = "queued" => r < q
    /\ \A r \in DOMAIN rows : rows[r].status = "claimed" => stage = "called" /\ r = row

(* A completed row has a message, and only rows with a key are replaced. *)
RowsDone ==
    \A r \in DOMAIN rows :
        /\ Done(r) => rows[r].msg # None
        /\ Done(r) /\ rows[r].op = "delete" => rows[r].msg \in gone
        /\ rows[r].status = "deleted" => Keyed(r)

(* A row of the chunk was completed with the message m. *)
Known(m) == \E r \in DOMAIN rows : Done(r) /\ Keyed(r) /\ rows[r].msg = m

AllKnown(ms) == \A k \in DOMAIN ms : Known(ms[k])
RowsKnown == \A r \in DOMAIN rows : rows[r].op # "send" => Known(rows[r].msg)

(* Every id kept is that of a completed row. *)
KnownIds ==
    /\ AllKnown(ids) /\ AllKnown(sync.existing) /\ AllKnown(sync.kept)
    /\ sync.found # None => Known(sync.found)
    /\ \A i \in Chunks : stored[i].id # None => Known(stored[i].id)
    /\ RowsKnown

(* A chunk has one message: once a row of it is completed no send of it is *)
(* left, and a message that no completed row has was posted by the call    *)
(* that is being answered.                                                 *)
SendsFirst ==
    \A r, q \in DOMAIN rows : Done(r) /\ Live(q) /\ rows[q].op = "send" => rows[r].key # rows[q].key
Posted(m) ==
    stage = "called" /\ result[Delivery] = "ok" /\ rows[row].op = "send" /\ m = Len(chat)
MessagesKnown == \A m \in DOMAIN chat : Known(m) \/ Posted(m)
OneMessage == \A m, n \in DOMAIN chat : chat[m].chunk = chat[n].chunk => m = n

(* What an answered call has done. *)
Answered ==
    stage = "called" =>
        LET r == rows[row] IN
        /\ r.op = "send" /\ result[Delivery] = "ok" => chat[Len(chat)].text = r.text
        /\ r.op = "edit" /\ result[Delivery] = "ok" => chat[r.msg].text = r.text
        /\ r.op = "delete" /\ result[Delivery] = "ok" => r.msg \in gone
        /\ r.op = "delete" /\ result[Delivery] = "error" /\ reason = "gone" => r.msg \in gone

(* The last row of a chunk, once it is completed, is what the chat shows. *)
Newest(r) == \A q \in DOMAIN rows : rows[q].key = rows[r].key => q <= r
NewestShown ==
    \A r \in DOMAIN rows : Done(r) /\ Keyed(r) /\ Newest(r) => chat[rows[r].msg].text = rows[r].text

(* The chunk i of the last text is queued. *)
Synced(i) == i <= size /\ (sync.at = "idle" \/ i < sync.i)
LastTexts ==
    \A i \in Chunks : Synced(i) =>
        \E r \in DOMAIN rows : /\ rows[r].key = i /\ Newest(r)
                               /\ rows[r].text = texts /\ rows[r].status # "deleted"

(* The messages deleted are those of chunks beyond the text, and of chunks *)
(* the sync has not reached.                                               *)
HasDelete(m) == \E r \in DOMAIN rows : rows[r].op = "delete" /\ rows[r].msg = m
GoneByRow == \A m \in gone : HasDelete(m)
DeadChunks ==
    \A r \in DOMAIN rows : rows[r].op = "delete" =>
        LET i == chat[rows[r].msg].chunk IN i > size \/ (sync.at # "idle" /\ i >= sync.i)
Dropped ==
    \A k \in DOMAIN sync.existing : size < k /\ k < sync.i => HasDelete(sync.existing[k])

(* Between two syncs every message beyond the text is deleted or will be,  *)
(* and none is still to come.                                              *)
Clean ==
    sync.at = "idle" =>
        /\ \A m \in DOMAIN chat : chat[m].chunk > size => HasDelete(m)
        /\ \A r \in DOMAIN rows : Live(r) /\ rows[r].op = "send" => rows[r].chunk <= size

Standing ==
    /\ InOrder /\ RowsDone /\ KnownIds
    /\ SendsFirst /\ MessagesKnown /\ OneMessage
    /\ Answered /\ NewestShown /\ LastTexts
    /\ GoneByRow /\ DeadChunks /\ Dropped /\ Clean

StandingInv == GroupInv /\ (odd = {} /\ ~Failed => Standing)

-----------------------------------------------------------------------------
(* What the steps do to the rows.                                          *)

(* All but the status of a row stays. *)
Keeps(r) ==
    /\ rows'[r].op = rows[r].op /\ rows'[r].key = rows[r].key /\ rows'[r].chunk = rows[r].chunk
    /\ rows'[r].text = rows[r].text /\ rows'[r].msg = rows[r].msg

NextRow == Len(rows) + 1

(* A row is appended, and the queued rows of its key are deleted. *)
Grows(o, i, m) ==
    /\ NextRow \in Nat /\ NextRow \notin DOMAIN rows
    /\ DOMAIN rows' = DOMAIN rows \cup {NextRow}
    /\ \A r \in DOMAIN rows :
          /\ r \in Nat /\ r < NextRow
          /\ Keeps(r)
          /\ rows[r].status = "queued" /\ i # None /\ rows[r].key = i => rows'[r].status = "deleted"
          /\ ~(rows[r].status = "queued" /\ i # None /\ rows[r].key = i) => rows'[r].status = rows[r].status
    /\ rows'[NextRow].op = o /\ rows'[NextRow].key = i /\ rows'[NextRow].chunk = i
    /\ rows'[NextRow].text = texts /\ rows'[NextRow].msg = m /\ rows'[NextRow].status = "queued"

LEMMA EnqueueGrows ==
    ASSUME GroupTypes, NEW o \in {"send", "edit", "delete"}, NEW i \in Nat, NEW m \in Nat,
           Enqueue(o, i, m)
    PROVE  Grows(o, i, m)
<1> DEFINE Old == [r \in DOMAIN rows |->
                     IF i # None /\ rows[r].key = DedupeKey(i) /\ rows[r].status = "queued"
                     THEN [rows[r] EXCEPT !.status = "deleted"]
                     ELSE rows[r]]
<1>1. /\ Len(rows) \in Nat /\ DOMAIN rows = 1..Len(rows)
      /\ \A r \in DOMAIN rows : rows[r] \in OutboundRow
  BY RowFields
<1>2. NewRow(o, i, m) \in OutboundRow
  BY DEF NewRow, OutboundRow, None, DedupeKey, GroupTypes
<1>3. \A q \in OutboundRow :
         /\ Replaced(q) \in OutboundRow
         /\ Replaced(q).op = q.op /\ Replaced(q).key = q.key /\ Replaced(q).chunk = q.chunk
         /\ Replaced(q).text = q.text /\ Replaced(q).msg = q.msg /\ Replaced(q).status = "deleted"
  BY DEF OutboundRow, Replaced
<1>4. \A r \in DOMAIN rows :
         Old[r] = IF rows[r].status = "queued" /\ i # None /\ rows[r].key = i THEN Replaced(rows[r])
                  ELSE rows[r]
  BY DEF Replaced, DedupeKey
<1>5. Old \in Seq(OutboundRow) /\ Len(Old) = Len(rows) /\ DOMAIN Old = 1..Len(rows)
  <2>1. Old \in [1..Len(rows) -> OutboundRow]
    BY <1>1, <1>3, <1>4
  <2> QED BY <1>1, <2>1, IsSequence
<1>6. rows' = Append(Old, NewRow(o, i, m))
  BY DEF Enqueue, NewRow
<1> HIDE DEF Old
<1>7. /\ DOMAIN rows' = 1..(Len(rows) + 1)
      /\ \A r \in 1..Len(rows) : rows'[r] = Old[r]
      /\ rows'[Len(rows) + 1] = NewRow(o, i, m)
  BY <1>2, <1>5, <1>6, Appended
<1>8. /\ NewRow(o, i, m).op = o /\ NewRow(o, i, m).key = i /\ NewRow(o, i, m).chunk = i
      /\ NewRow(o, i, m).text = texts /\ NewRow(o, i, m).msg = m /\ NewRow(o, i, m).status = "queued"
  BY DEF NewRow, DedupeKey
<1> HIDE DEF NewRow
<1>9. ASSUME NEW r \in DOMAIN rows
      PROVE  /\ r \in Nat /\ r < NextRow
             /\ Keeps(r)
             /\ rows[r].status = "queued" /\ i # None /\ rows[r].key = i => rows'[r].status = "deleted"
             /\ ~(rows[r].status = "queued" /\ i # None /\ rows[r].key = i) =>
                   rows'[r].status = rows[r].status
  <2>1. rows'[r] = Old[r] /\ rows[r] \in OutboundRow
    BY <1>1, <1>7
  <2>2. r \in Nat /\ r < NextRow
    BY <1>1 DEF NextRow
  <2>3. CASE rows[r].status = "queued" /\ i # None /\ rows[r].key = i
    <3>1. rows'[r] = Replaced(rows[r])
      BY <1>4, <2>1, <2>3
    <3> QED BY <1>3, <2>1, <2>2, <2>3, <3>1 DEF Keeps
  <2>4. CASE ~(rows[r].status = "queued" /\ i # None /\ rows[r].key = i)
    <3>1. rows'[r] = rows[r]
      BY <1>4, <2>1, <2>4
    <3> QED BY <2>2, <2>4, <3>1 DEF Keeps
  <2> QED BY <2>3, <2>4
<1>10. DOMAIN rows' = DOMAIN rows \cup {NextRow} /\ NextRow \notin DOMAIN rows /\ NextRow \in Nat
  BY <1>1, <1>7 DEF NextRow
<1> QED BY <1>7, <1>8, <1>9, <1>10 DEF Grows, NextRow

(* Of row n nothing but the status changes, to s. *)
Becomes(n, s) ==
    /\ DOMAIN rows' = DOMAIN rows
    /\ \A r \in DOMAIN rows : r \in Nat /\ Keeps(r) /\ (r # n => rows'[r].status = rows[r].status)
    /\ rows'[n].status = s

LEMMA StatusBecomes ==
    ASSUME GroupTypes, NEW n \in DOMAIN rows, NEW s, rows' = [rows EXCEPT ![n].status = s]
    PROVE  Becomes(n, s)
<1>1. /\ Len(rows) \in Nat /\ DOMAIN rows = 1..Len(rows)
      /\ \A r \in DOMAIN rows : rows[r] \in OutboundRow
  BY RowFields
<1>2. \A q \in OutboundRow :
         /\ [q EXCEPT !.status = s].op = q.op /\ [q EXCEPT !.status = s].key = q.key
         /\ [q EXCEPT !.status = s].chunk = q.chunk /\ [q EXCEPT !.status = s].msg = q.msg
         /\ [q EXCEPT !.status = s].text = q.text /\ [q EXCEPT !.status = s].status = s
  BY DEF OutboundRow
<1>3. /\ DOMAIN rows' = DOMAIN rows
      /\ \A r \in DOMAIN rows : rows'[r] = IF r = n THEN [rows[r] EXCEPT !.status = s] ELSE rows[r]
  BY <1>1
<1> QED BY <1>1, <1>2, <1>3 DEF Becomes, Keeps

(* A queued send of the chunk that has just got its message. *)
Promotes(r) ==
    /\ r # row /\ rows[row].op = "send" /\ rows[r].key = rows[row].key
    /\ rows[r].status = "queued" /\ rows[r].op = "send"

(* The worker's row is completed with the message m. *)
CompletesWith(m) ==
    /\ DOMAIN rows' = DOMAIN rows
    /\ \A r \in DOMAIN rows :
          /\ r \in Nat
          /\ rows'[r].key = rows[r].key /\ rows'[r].chunk = rows[r].chunk /\ rows'[r].text = rows[r].text
          /\ r # row => rows'[r].status = rows[r].status
          /\ r # row /\ ~Promotes(r) => rows'[r].op = rows[r].op /\ rows'[r].msg = rows[r].msg
          /\ Promotes(r) => rows'[r].op = "edit" /\ rows'[r].msg = m
    /\ rows'[row].op = rows[row].op /\ rows'[row].msg = m /\ rows'[row].status = "completed"

LEMMA RowCompletes ==
    ASSUME GroupTypes, row \in DOMAIN rows, NEW m, rows' = CompletedAs(m)
    PROVE  CompletesWith(m)
<1>1. /\ Len(rows) \in Nat /\ DOMAIN rows = 1..Len(rows)
      /\ \A r \in DOMAIN rows : rows[r] \in OutboundRow
  BY RowFields
<1>2. \A q \in OutboundRow :
         LET c == [q EXCEPT !.status = "completed", !.msg = m] IN
         /\ c.op = q.op /\ c.key = q.key /\ c.chunk = q.chunk /\ c.text = q.text
         /\ c.msg = m /\ c.status = "completed"
  BY DEF OutboundRow
<1>3. \A q \in OutboundRow :
         /\ AsEdit(q, m).op = "edit" /\ AsEdit(q, m).key = q.key /\ AsEdit(q, m).chunk = q.chunk
         /\ AsEdit(q, m).text = q.text /\ AsEdit(q, m).msg = m /\ AsEdit(q, m).status = q.status
  BY DEF OutboundRow, AsEdit
<1>4. /\ DOMAIN rows' = DOMAIN rows
      /\ rows'[row] = [rows[row] EXCEPT !.status = "completed", !.msg = m]
      /\ \A r \in DOMAIN rows : r # row => rows'[r] = Promoted(r, m)
  BY DEF CompletedAs
<1>5. \A r \in DOMAIN rows : r # row =>
         /\ Promotes(r) => Promoted(r, m) = AsEdit(rows[r], m)
         /\ ~Promotes(r) => Promoted(r, m) = rows[r]
  BY DEF Promoted, AsEdit, Promotes
<1>6. /\ rows'[row].op = rows[row].op /\ rows'[row].key = rows[row].key
      /\ rows'[row].chunk = rows[row].chunk /\ rows'[row].text = rows[row].text
      /\ rows'[row].msg = m /\ rows'[row].status = "completed"
  BY <1>1, <1>2, <1>4
<1>7. ASSUME NEW r \in DOMAIN rows, r # row
      PROVE  /\ rows'[r].key = rows[r].key /\ rows'[r].chunk = rows[r].chunk
             /\ rows'[r].text = rows[r].text /\ rows'[r].status = rows[r].status
             /\ ~Promotes(r) => rows'[r].op = rows[r].op /\ rows'[r].msg = rows[r].msg
             /\ Promotes(r) => rows'[r].op = "edit" /\ rows'[r].msg = m
  <2>1. rows[r] \in OutboundRow
    BY <1>1
  <2>2. CASE Promotes(r)
    <3>1. rows'[r] = AsEdit(rows[r], m)
      BY <1>4, <1>5, <1>7, <2>2
    <3> QED BY <1>3, <2>1, <2>2, <3>1
  <2>3. CASE ~Promotes(r)
    <3>1. rows'[r] = rows[r]
      BY <1>4, <1>5, <1>7, <2>3
    <3> QED BY <2>3, <3>1
  <2> QED BY <2>2, <2>3
<1>8. ~Promotes(row) /\ \A r \in DOMAIN rows : r \in Nat
  BY <1>1 DEF Promotes
<1> QED BY <1>4, <1>6, <1>7, <1>8 DEF CompletesWith

-----------------------------------------------------------------------------
(* The look-ups return ids of completed rows.                              *)

LEMMA KnownShows ==
    ASSUME GroupInv, "displaced" \notin odd, RowsDone, NEW x, Known(x)
    PROVE  /\ x \in DOMAIN chat
           /\ \E r \in DOMAIN rows : Done(r) /\ rows[r].key = chat[x].chunk
<1>1. PICK r \in DOMAIN rows : Done(r) /\ Keyed(r) /\ rows[r].msg = x
  BY DEF Known
<1>2. rows[r].op # "delete" /\ rows[r].key = rows[r].chunk /\ rows[r].msg # None
  BY <1>1 DEF GroupInv, RowsFit, FitsChunk, Keyed, RowsDone
<1>3. x \in DOMAIN chat /\ chat[x].chunk = rows[r].chunk
  BY <1>1, <1>2 DEF GroupInv, IdsExist, RowsExist, InOwnMessage, OwnRows, Shows
<1> QED BY <1>1, <1>2, <1>3

LEMMA LatestKnown ==
    ASSUME GroupInv, RowsDone, NEW i \in Chunks
    PROVE  /\ LatestId(i) # None => Known(LatestId(i))
           /\ LatestId(i) = None => \A r \in DOMAIN rows : Done(r) => rows[r].key # i
<1> DEFINE Hits == {r \in DOMAIN rows : /\ rows[r].key = DedupeKey(i) /\ rows[r].status = "completed"
                                        /\ rows[r].msg # None}
<1>1. LatestId(i) = IF Hits = {} THEN None ELSE rows[Max(Hits)].msg
  BY DEF LatestId
<1>2. CASE Hits = {}
  BY <1>1, <1>2 DEF RowsDone, Done, DedupeKey
<1>3. CASE Hits # {}
  <2>1. Len(rows) \in Nat /\ DOMAIN rows = 1..Len(rows)
    BY RowFields DEF GroupInv
  <2>2. Hits \in SUBSET Nat /\ \A r \in Hits : r <= Len(rows)
    BY <2>1
  <2>3. Max(Hits) \in Hits
    <3> HIDE DEF Hits
    <3> QED BY <1>3, <2>1, <2>2, MaxExists
  <2>4. PICK r \in Hits : LatestId(i) = rows[r].msg
    BY <1>1, <1>3, <2>3, Zenon
  <2>5. Known(LatestId(i)) /\ LatestId(i) # None
    BY <2>4, GroupAssumption DEF Known, Done, Keyed, DedupeKey, None, Chunks
  <2> QED BY <2>5
<1> QED BY <1>2, <1>3

-----------------------------------------------------------------------------
(* The steps that leave the rows and the chat alone.                       *)

AtRows == <<rows, row, stage, reason, result, chat, gone>>

RowParts ==
    /\ InOrder /\ RowsDone /\ RowsKnown /\ SendsFirst /\ MessagesKnown /\ OneMessage
    /\ Answered /\ NewestShown /\ GoneByRow

LEMMA RowsStand ==
    ASSUME Standing, UNCHANGED AtRows
    PROVE  RowParts' /\ (\A x : Known(x) => Known(x)') /\ (\A x : HasDelete(x) => HasDelete(x)')
<1> USE DEF AtRows
<1>1. \A x : Known(x) => Known(x)'
  BY DEF Known, Done, Keyed
<1>2. \A x : HasDelete(x) => HasDelete(x)'
  BY DEF HasDelete
<1>3. InOrder' /\ RowsDone' /\ SendsFirst'
  BY DEF Standing, InOrder, RowsDone, SendsFirst, Done, Live, Keyed
<1>4. RowsKnown' /\ GoneByRow'
  BY <1>1, <1>2 DEF Standing, KnownIds, RowsKnown, GoneByRow
<1>5. MessagesKnown' /\ OneMessage'
  BY <1>1 DEF Standing, MessagesKnown, OneMessage, Posted
<1>6. Answered'
  BY DEF Standing, Answered
<1>7. NewestShown'
  BY DEF Standing, NewestShown, Done, Keyed, Newest
<1> QED BY <1>1, <1>2, <1>3, <1>4, <1>5, <1>6, <1>7 DEF RowParts

LEMMA ChunkOfMessage ==
    ASSUME GroupTypes
    PROVE  /\ Len(chat) \in Nat /\ DOMAIN chat = 1..Len(chat)
           /\ \A m \in DOMAIN chat : chat[m] \in [chunk : Chunks, text : Nat] /\ chat[m].chunk \in Chunks
<1>1. chat \in Seq([chunk : Chunks, text : Nat])
  BY DEF GroupTypes
<1>2. Len(chat) \in Nat /\ DOMAIN chat = 1..Len(chat)
  BY <1>1, LenProperties
<1>3. \A m \in DOMAIN chat : chat[m] \in [chunk : Chunks, text : Nat]
  BY <1>1, <1>2, ElementOfSeq
<1> QED BY <1>2, <1>3

LEMMA AtRowsStay ==
    ASSUME UNCHANGED <<client, delivery, shown, rows>>
    PROVE  UNCHANGED AtRows
BY DEF AtRows, client, delivery, shown

LEMMA BeginsStands ==
    ASSUME GroupInv, Standing, NEW n \in Chunks, Begins(n)
    PROVE  Standing'
<1>1. /\ sync'.at = "find" /\ sync'.i = 1 /\ sync'.existing = Existing /\ sync'.kept = <<>>
      /\ sync'.found = None
  BY DEF Begins, Idle
<1>2. /\ UNCHANGED <<client, delivery, shown, rows>> /\ ids' = ids /\ stored' = stored
      /\ chat' = chat /\ rows' = rows
  BY DEF Begins, shown
<1>3. RowParts' /\ (\A x : Known(x) => Known(x)') /\ (\A x : HasDelete(x) => HasDelete(x)')
  BY <1>2, RowsStand, AtRowsStay
<1>4. AllKnown(Existing)
  <2>1. \A k \in DOMAIN StoredIds : Known(StoredIds[k])
    BY StoredIdsStored DEF GroupInv, HasId, Standing, KnownIds
  <2> QED BY <2>1 DEF Existing, AllKnown, Standing, KnownIds
<1>5. KnownIds'
  <2>1. PICK e : e = Existing
    OBVIOUS
  <2>2. AllKnown(sync.existing)'
    <3>1. \A k \in DOMAIN e : Known(e[k])'
      BY <1>3, <1>4, <2>1 DEF AllKnown
    <3>2. sync'.existing = e
      BY <1>1, <2>1
    <3> QED BY <3>1, <3>2 DEF AllKnown
  <2>3. AllKnown(sync.kept)'
    BY <1>1 DEF AllKnown
  <2>4. AllKnown(ids)' /\ \A i \in Chunks : (stored[i].id # None => Known(stored[i].id))'
    BY <1>2, <1>3 DEF Standing, KnownIds, AllKnown
  <2>5. (sync.found # None => Known(sync.found))'
    BY <1>1
  <2>6. RowsKnown'
    BY <1>3 DEF RowParts
  <2> QED BY <2>2, <2>3, <2>4, <2>5, <2>6 DEF KnownIds
<1>6. LastTexts'
  <2>1. \A i \in Chunks : ~(i < 1)
    BY GroupAssumption DEF Chunks
  <2> QED BY <1>1, <2>1 DEF LastTexts, Synced
<1>7. DeadChunks'
  <2> SUFFICES ASSUME NEW r \in DOMAIN rows, rows[r].op = "delete"
               PROVE  chat[rows[r].msg].chunk >= 1
    BY <1>1, <1>2 DEF DeadChunks
  <2>1. rows[r].msg \in DOMAIN chat
    BY DEF GroupInv, RowsFit, FitsChunk, IdsExist, RowsExist
  <2>2. chat[rows[r].msg].chunk \in Chunks
    BY <2>1, ChunkOfMessage DEF GroupInv
  <2> QED BY <2>2, GroupAssumption DEF Chunks
<1>8. Dropped'
  <2>1. Existing \in Seq(Nat)
    BY ExistingExist
  <2>2. \A k \in DOMAIN Existing : ~(k < 1)
    BY <2>1
  <2> QED BY <1>1, <2>2 DEF Dropped
<1>9. Clean'
  BY <1>1 DEF Clean
<1> QED BY <1>3, <1>5, <1>6, <1>7, <1>8, <1>9 DEF RowParts, Standing

LEMMA FindsStands ==
    ASSUME GroupInv, Standing, Finds
    PROVE  Standing'
<1> DEFINE m == IF sync.i <= Len(sync.existing) THEN sync.existing[sync.i] ELSE LatestId(sync.i)
<1>1. /\ sync'.at = "submit" /\ sync'.i = sync.i /\ sync'.existing = sync.existing
      /\ sync'.kept = sync.kept /\ sync'.found = m /\ sync.at = "find" /\ sync.i <= size
  <2>1. sync' = [sync EXCEPT !.at = "submit", !.found = m] /\ sync.at = "find" /\ sync.i <= size
    BY DEF Finds
  <2> HIDE DEF m
  <2>2. sync' = SyncAt("submit", sync.i, sync.existing, sync.kept, m)
    BY <2>1, SyncFields DEF SyncAt, GroupInv
  <2> QED BY <2>1, <2>2 DEF SyncAt
<1>2. /\ UNCHANGED <<client, delivery, shown, rows>> /\ ids' = ids /\ stored' = stored
      /\ chat' = chat /\ rows' = rows /\ size' = size /\ texts' = texts
  BY DEF Finds, shown
<1>3. RowParts' /\ (\A x : Known(x) => Known(x)') /\ (\A x : HasDelete(x) => HasDelete(x)')
  BY <1>2, RowsStand, AtRowsStay
<1>4. m # None => Known(m)
  <2>1. sync.i \in Chunks /\ sync.existing \in Seq(Nat) /\ sync.i \in Nat \ {0}
    <3>1. GroupTypes
      BY DEF GroupInv
    <3> QED BY <1>1, <3>1, SizeFits, SyncFields DEF Chunks
  <2>2. CASE sync.i <= Len(sync.existing)
    <3>1. sync.i \in DOMAIN sync.existing
      BY <2>1, <2>2, LenProperties
    <3> QED BY <2>2, <3>1 DEF Standing, KnownIds, AllKnown
  <2>3. CASE ~(sync.i <= Len(sync.existing))
    BY <2>1, <2>3, LatestKnown DEF Standing
  <2> QED BY <2>2, <2>3
<1> HIDE DEF m
<1>5. KnownIds'
  <2>1. PICK e : e = m
    OBVIOUS
  <2>2. e # None => Known(e)'
    BY <1>3, <1>4, <2>1
  <2>3. sync'.found = e
    BY <1>1, <2>1
  <2>4. (sync.found # None => Known(sync.found))'
    BY <2>2, <2>3
  <2>5. AllKnown(ids)' /\ AllKnown(sync.existing)' /\ AllKnown(sync.kept)'
        /\ \A i \in Chunks : (stored[i].id # None => Known(stored[i].id))'
    BY <1>1, <1>2, <1>3 DEF Standing, KnownIds, AllKnown
  <2> QED BY <1>3, <2>4, <2>5 DEF KnownIds, RowParts
<1>6. LastTexts'
  BY <1>1, <1>2 DEF Standing, LastTexts, Synced, Newest
<1>7. DeadChunks'
  BY <1>1, <1>2 DEF Standing, DeadChunks
<1>8. Dropped'
  BY <1>1, <1>2, <1>3 DEF Standing, Dropped
<1>9. Clean'
  BY <1>1 DEF Clean
<1> QED BY <1>3, <1>5, <1>6, <1>7, <1>8, <1>9 DEF RowParts, Standing

(* The rows while one of them is added: what was known is known. *)
LEMMA GrownRows ==
    ASSUME GroupInv, Standing, UNCHANGED <<client, delivery, shown>>,
           NEW o \in {"send", "edit", "delete"}, NEW i \in Nat, NEW m \in Nat, Grows(o, i, m),
           o # "send" => Known(m),
           o = "send" => \A r \in DOMAIN rows : Done(r) => rows[r].key # i
    PROVE  RowParts' /\ (\A x : Known(x) => Known(x)') /\ (\A x : HasDelete(x) => HasDelete(x)')
<1>1. /\ UNCHANGED <<row, stage, reason, result, chat, gone>>
      /\ stage # "idle" => row \in DOMAIN rows
  BY DEF client, delivery, shown, GroupInv, InCall
<1>n. PICK n : n = NextRow
  OBVIOUS
<1>2. /\ DOMAIN rows' = DOMAIN rows \cup {n} /\ n \notin DOMAIN rows
      /\ \A r \in DOMAIN rows : r < n /\ r \in Nat
      /\ \A r \in DOMAIN rows : Keeps(r)
      /\ \A r \in DOMAIN rows :
            \/ rows'[r].status = rows[r].status
            \/ rows[r].status = "queued" /\ rows'[r].status = "deleted" /\ i # None /\ rows[r].key = i
      /\ rows'[n].op = o /\ rows'[n].key = i /\ rows'[n].msg = m
      /\ rows'[n].status = "queued" /\ rows'[n].chunk = i
      /\ n \in Nat
  BY <1>n DEF Grows
<1>3. /\ \A r \in DOMAIN rows : Done(r)' <=> Done(r)
      /\ \A r \in DOMAIN rows : Live(r)' => Live(r)
      /\ \A r \in DOMAIN rows : Keyed(r)' <=> Keyed(r)
      /\ ~Done(n)'
  BY <1>2 DEF Done, Live, Keyed, Keeps
<1>4. \A x : Known(x) => Known(x)'
  BY <1>2, <1>3 DEF Known, Keeps
<1>5. \A x : HasDelete(x) => HasDelete(x)'
  BY <1>2 DEF HasDelete, Keeps
<1>6. InOrder'
  <2>1. \A r, q \in DOMAIN rows' : (Done(r) /\ Live(q))' => r < q
    BY <1>2, <1>3 DEF Standing, InOrder
  <2>2. \A r, q \in DOMAIN rows' : rows'[r].status = "claimed" /\ rows'[q].status = "queued" => r < q
    BY <1>2 DEF Standing, InOrder
  <2>3. \A r \in DOMAIN rows' : rows'[r].status = "claimed" => stage' = "called" /\ r = row'
    BY <1>1, <1>2 DEF Standing, InOrder
  <2> QED BY <2>1, <2>2, <2>3 DEF InOrder
<1>7. RowsDone'
  BY <1>1, <1>2, <1>3 DEF Standing, RowsDone, Keeps, Done, Keyed
<1>8. RowsKnown'
  <2>1. m \in Nat
    OBVIOUS
  <2>2. \A r \in DOMAIN rows : rows[r].op # "send" => Known(rows[r].msg)'
    <3> SUFFICES ASSUME NEW r \in DOMAIN rows, rows[r].op # "send" PROVE Known(rows[r].msg)'
      OBVIOUS
    <3>1. PICK e : e = rows[r].msg
      OBVIOUS
    <3>2. Known(e)' /\ rows'[r].msg = e
      BY <1>2, <1>4, <3>1 DEF Standing, KnownIds, RowsKnown, Keeps
    <3> QED BY <3>2
  <2>3. o # "send" => Known(m)'
    BY <1>4
  <2> QED BY <1>2, <2>2, <2>3 DEF RowsKnown, Keeps
<1>9. SendsFirst'
  <2> SUFFICES ASSUME NEW r \in DOMAIN rows', NEW q \in DOMAIN rows', Done(r)', Live(q)',
                      rows'[q].op = "send"
               PROVE  rows'[r].key # rows'[q].key
    BY DEF SendsFirst
  <2>1. r \in DOMAIN rows /\ Done(r) /\ rows'[r].key = rows[r].key
    BY <1>2, <1>3 DEF Keeps
  <2>2. CASE q = n
    BY <1>2, <2>1, <2>2
  <2>3. CASE q \in DOMAIN rows
    BY <1>2, <1>3, <2>1, <2>3 DEF Standing, SendsFirst, Keeps
  <2> QED BY <1>2, <2>2, <2>3
<1>10. MessagesKnown'
  <2>1. \A x : Posted(x) => Posted(x)'
    BY <1>1, <1>2 DEF Posted, Keeps
  <2> QED BY <1>1, <1>4, <2>1 DEF Standing, MessagesKnown
<1>11. OneMessage'
  BY <1>1 DEF Standing, OneMessage
<1>12. Answered'
  <2> SUFFICES ASSUME stage = "called" PROVE Answered'
    BY <1>1 DEF Answered
  <2>1. row \in DOMAIN rows /\ Keeps(row)
    BY <1>1, <1>2
  <2> QED BY <1>1, <2>1 DEF Standing, Answered, Keeps
<1>13. NewestShown'
  <2>1. \A r \in DOMAIN rows : Newest(r)' => Newest(r)
    BY <1>2 DEF Newest, Keeps
  <2> QED BY <1>1, <1>2, <1>3, <2>1 DEF Standing, NewestShown, Keeps
<1>14. GoneByRow'
  BY <1>1, <1>5 DEF Standing, GoneByRow
<1> QED BY <1>4, <1>5, <1>6, <1>7, <1>8, <1>9, <1>10, <1>11, <1>12, <1>13, <1>14 DEF RowParts

LEMMA SubmitsStands ==
    ASSUME GroupInv, Standing, Submits, odd = {}, odd' = {}
    PROVE  Standing'
<1> DEFINE i == sync.i
           m == sync.found
           o == IF m # None THEN "edit" ELSE "send"
           k == IF m # None THEN Append(sync.kept, m) ELSE sync.kept
<1>1. /\ i \in Chunks /\ i \in Nat /\ i # None /\ m \in Nat /\ sync.kept \in Seq(Nat) /\ i <= size
      /\ size \in Nat
  <2>1. GroupTypes /\ sync.at = "submit"
    BY DEF GroupInv, Submits
  <2>2. sync.i <= size
    BY <2>1 DEF GroupInv, SyncFits
  <2> QED BY <2>1, <2>2, SyncFields, SizeFits DEF Chunks, None
<1>2. Enqueue(o, i, m)
  BY DEF QueueEdit, QueueMessage, Submits
<1>3. /\ UNCHANGED <<client, delivery, shown>> /\ ids' = ids /\ stored' = stored
      /\ chat' = chat /\ size' = size /\ texts' = texts
  BY DEF Submits, shown
<1>4. /\ sync'.at = "find" /\ sync'.i = i + 1 /\ sync'.existing = sync.existing /\ sync'.found = None
      /\ sync'.kept = k
  <2>1. sync' = [sync EXCEPT !.at = "find", !.i = i + 1, !.found = None, !.kept = k]
    BY SyncFields DEF SyncAt, GroupInv, Submits
  <2> HIDE DEF k
  <2>2. sync' = SyncAt("find", i + 1, sync.existing, k, None)
    BY <2>1, SyncFields DEF SyncAt, GroupInv
  <2> QED BY <2>2 DEF SyncAt
<1>5. /\ m = None => LatestId(i) = None
      /\ m # None => ~Doomed(m)
  BY DEF Submits
<1>6. m # None => Known(m) /\ chat[m].chunk = i
  BY <1>5 DEF Standing, KnownIds, GroupInv, InOwnMessage, Shows
<1>7. m = None => \A r \in DOMAIN rows : Done(r) => rows[r].key # i
  BY <1>1, <1>5, LatestKnown DEF Standing
<1> HIDE DEF i, m
<1>8. Grows(o, i, m)
  <2>1. GroupTypes
    BY DEF GroupInv
  <2>2. o \in {"send", "edit", "delete"}
    OBVIOUS
  <2> HIDE DEF o
  <2> QED BY <1>1, <1>2, <2>1, <2>2, EnqueueGrows
<1>9. RowParts' /\ (\A x : Known(x) => Known(x)') /\ (\A x : HasDelete(x) => HasDelete(x)')
  <2>1. o \in {"send", "edit", "delete"} /\ (o # "send" => Known(m))
        /\ (o = "send" => \A r \in DOMAIN rows : Done(r) => rows[r].key # i)
    BY <1>6, <1>7
  <2> HIDE DEF o
  <2> QED BY <1>1, <1>3, <1>8, <2>1, GrownRows
<1>10. KnownIds'
  <2>1. AllKnown(sync.kept)'
    <3>1. CASE m = None
      BY <1>4, <1>9, <3>1 DEF Standing, KnownIds, AllKnown
    <3>2. CASE m # None
      <4>1. PICK e : e = Append(sync.kept, m)
        OBVIOUS
      <4>2. /\ DOMAIN e = 1..(Len(sync.kept) + 1)
            /\ \A n \in 1..Len(sync.kept) : e[n] = sync.kept[n]
            /\ e[Len(sync.kept) + 1] = m
            /\ DOMAIN sync.kept = 1..Len(sync.kept) /\ Len(sync.kept) \in Nat
        BY <1>1, <4>1, Appended, LenProperties
      <4>3. \A n \in DOMAIN sync.kept : Known(sync.kept[n])
        BY DEF Standing, KnownIds, AllKnown
      <4>4. \A n \in DOMAIN e : Known(e[n])
        BY <1>6, <3>2, <4>2, <4>3
      <4>5. \A n \in DOMAIN e : Known(e[n])'
        BY <1>9, <4>4
      <4>6. sync'.kept = e
        BY <1>4, <3>2, <4>1
      <4> QED BY <4>5, <4>6 DEF AllKnown
    <3> QED BY <3>1, <3>2
  <2>2. AllKnown(ids)' /\ AllKnown(sync.existing)'
        /\ \A n \in Chunks : (stored[n].id # None => Known(stored[n].id))'
    BY <1>3, <1>4, <1>9 DEF Standing, KnownIds, AllKnown
  <2>3. (sync.found # None => Known(sync.found))'
    BY <1>4
  <2> QED BY <1>9, <2>1, <2>2, <2>3 DEF KnownIds, RowParts
<1>n. PICK n : n = NextRow
  OBVIOUS
<1>11. /\ DOMAIN rows' = DOMAIN rows \cup {n} /\ n \notin DOMAIN rows /\ n \in Nat
       /\ \A r \in DOMAIN rows : r \in Nat /\ r < n /\ Keeps(r)
       /\ \A r \in DOMAIN rows : rows[r].key # i => rows'[r].status = rows[r].status
       /\ rows'[n].op = o /\ rows'[n].key = i /\ rows'[n].text = texts /\ rows'[n].msg = m
       /\ rows'[n].status = "queued"
  BY <1>8, <1>n DEF Grows
<1>12. LastTexts'
  <2> SUFFICES ASSUME NEW j \in Chunks, Synced(j)'
               PROVE  \E r \in DOMAIN rows' : /\ rows'[r].key = j /\ Newest(r)'
                                              /\ rows'[r].text = texts' /\ rows'[r].status # "deleted"
    BY DEF LastTexts
  <2>1. j <= size /\ j < i + 1 /\ j \in Nat
    BY <1>3, <1>4 DEF Synced, Chunks
  <2>2. CASE j = i
    <3>1. Newest(n)'
      BY <1>11 DEF Newest
    <3> QED BY <1>3, <1>11, <2>2, <3>1
  <2>3. CASE j # i
    <3>1. Synced(j)
      BY <1>1, <2>1, <2>3 DEF Synced, i
    <3>2. PICK r \in DOMAIN rows : /\ rows[r].key = j /\ Newest(r)
                                   /\ rows[r].text = texts /\ rows[r].status # "deleted"
      BY <3>1 DEF Standing, LastTexts
    <3>3. Newest(r)'
      BY <1>11, <2>3, <3>2 DEF Newest, Keeps
    <3> QED BY <1>3, <1>11, <2>3, <3>2, <3>3 DEF Keeps
  <2> QED BY <2>2, <2>3
<1>13. DeadChunks'
  <2> SUFFICES ASSUME NEW r \in DOMAIN rows, rows[r].op = "delete"
               PROVE  chat[rows[r].msg].chunk > size \/ chat[rows[r].msg].chunk >= i + 1
    BY <1>3, <1>4, <1>11 DEF DeadChunks, Keeps
  <2>1. PICK x : x = rows[r].msg
    OBVIOUS
  <2>2. Known(x)
    BY <2>1 DEF Standing, KnownIds, RowsKnown
  <2>3. x \in DOMAIN chat /\ \E q \in DOMAIN rows : Done(q) /\ rows[q].key = chat[x].chunk
    BY <2>2, KnownShows DEF Standing
  <2>4. chat[x].chunk > size \/ chat[x].chunk >= i
    BY <2>1 DEF Standing, DeadChunks, i
  <2>5. chat[x].chunk # i
    <3>1. CASE m = None
      BY <1>7, <2>3, <3>1
    <3>2. CASE m # None
      <4>1. x # m
        BY <1>5, <2>1, <3>2 DEF Doomed
      <4>2. m \in DOMAIN chat
        BY <3>2 DEF GroupInv, IdsExist, m
      <4> QED BY <1>6, <2>3, <3>2, <4>1, <4>2 DEF Standing, OneMessage
    <3> QED BY <3>1, <3>2
  <2>6. chat[x].chunk \in Nat
    BY <2>3, ChunkOfMessage DEF GroupInv, Chunks
  <2> QED BY <1>1, <2>1, <2>4, <2>5, <2>6
<1>14. Dropped'
  <2>1. \A j \in DOMAIN sync.existing : j \in Nat
    BY SyncFields DEF GroupInv
  <2> QED BY <1>1, <1>3, <1>4, <2>1 DEF Dropped
<1>15. Clean'
  BY <1>4 DEF Clean
<1> QED BY <1>9, <1>10, <1>12, <1>13, <1>14, <1>15 DEF RowParts, Standing

LEMMA DropsStands ==
    ASSUME GroupInv, Standing, Drops, odd = {}
    PROVE  Standing'
<1> DEFINE k == Min(Beyond)
           m == sync.existing[k]
<1>1. sync.existing \in Seq(Nat) /\ sync.at = "find" /\ sync.i > size /\ size \in Nat /\ sync.i \in Nat
  BY SyncFields, SizeFits DEF GroupInv, Drops
<1>2. k \in Beyond /\ \A j \in Beyond : k <= j
  <2>1. Beyond \in SUBSET Nat /\ Beyond # {}
    BY <1>1 DEF Beyond, Drops
  <2> QED BY <2>1, MinExists
<1>3. Enqueue("delete", None, m)
  BY DEF QueueDelete, Drops
<1>4. /\ UNCHANGED <<client, delivery, shown>> /\ ids' = ids /\ stored' = stored
      /\ chat' = chat /\ size' = size /\ texts' = texts
  BY DEF Drops, shown
<1>5. /\ sync'.at = "find" /\ sync'.i = k + 1 /\ sync'.existing = sync.existing
      /\ sync'.found = sync.found /\ sync'.kept = sync.kept
  <2>1. sync' = SyncAt(sync.at, k + 1, sync.existing, sync.kept, sync.found)
    BY SyncFields DEF SyncAt, GroupInv, Drops
  <2> QED BY <1>1, <2>1 DEF SyncAt
<1> HIDE DEF k
<1>6. k \in DOMAIN sync.existing /\ k \in Nat /\ k > size /\ m \in Nat /\ m # None
  <2>1. k \in DOMAIN sync.existing /\ k > size /\ k \in Nat
    BY <1>1, <1>2, LenProperties DEF Beyond
  <2>2. m \in DOMAIN chat
    BY <2>1 DEF GroupInv, IdsExist, Exist
  <2>3. m \in Nat /\ m # None
    BY <2>2, ChunkOfMessage DEF GroupInv, None
  <2> QED BY <2>1, <2>3
<1>7. Known(m) /\ chat[m].chunk = k
  BY <1>6 DEF Standing, KnownIds, AllKnown, GroupInv, InOwnMessage, InPlace, Shows
<1>8. Grows("delete", None, m)
  <2>1. GroupTypes /\ None \in Nat
    BY DEF GroupInv, None
  <2> HIDE DEF m
  <2> QED BY <1>3, <1>6, <2>1, EnqueueGrows
<1>9. RowParts' /\ (\A x : Known(x) => Known(x)') /\ (\A x : HasDelete(x) => HasDelete(x)')
  <2>1. None \in Nat
    BY DEF None
  <2> HIDE DEF m
  <2> QED BY <1>4, <1>6, <1>7, <1>8, <2>1, GrownRows
<1>n. PICK n, x : n = NextRow /\ x = m
  OBVIOUS
<1> HIDE DEF m
<1>11. /\ DOMAIN rows' = DOMAIN rows \cup {n} /\ n \notin DOMAIN rows
       /\ \A r \in DOMAIN rows : Keeps(r) /\ rows'[r].status = rows[r].status
       /\ rows'[n].op = "delete" /\ rows'[n].key = None /\ rows'[n].msg = x
  BY <1>8, <1>n DEF Grows
<1>10. KnownIds'
  BY <1>4, <1>5, <1>9 DEF Standing, KnownIds, AllKnown, RowParts
<1>12. LastTexts'
  <2> SUFFICES ASSUME NEW j \in Chunks, Synced(j)'
               PROVE  \E r \in DOMAIN rows' : /\ rows'[r].key = j /\ Newest(r)'
                                              /\ rows'[r].text = texts' /\ rows'[r].status # "deleted"
    BY DEF LastTexts
  <2>1. Synced(j) /\ j # None
    BY <1>1, <1>4, <1>5, GroupAssumption DEF Synced, Chunks, None
  <2>2. PICK r \in DOMAIN rows : /\ rows[r].key = j /\ Newest(r)
                                 /\ rows[r].text = texts /\ rows[r].status # "deleted"
    BY <2>1 DEF Standing, LastTexts
  <2>3. Newest(r)'
    BY <1>11, <2>1, <2>2 DEF Newest, Keeps
  <2> QED BY <1>4, <1>11, <2>2, <2>3 DEF Keeps
<1>13. DeadChunks'
  <2> SUFFICES ASSUME NEW r \in DOMAIN rows', rows'[r].op = "delete"
               PROVE  chat[rows'[r].msg].chunk > size
    BY <1>4 DEF DeadChunks
  <2>1. CASE r = n
    BY <1>6, <1>7, <1>n, <1>11, <2>1
  <2>2. CASE r \in DOMAIN rows
    <3>1. rows[r].op = "delete" /\ rows'[r].msg = rows[r].msg
      BY <1>11, <2>2 DEF Keeps
    <3>2. chat[rows[r].msg].chunk > size \/ chat[rows[r].msg].chunk >= sync.i
      BY <2>2, <3>1 DEF Standing, DeadChunks
    <3>3. rows[r].msg \in DOMAIN chat
      BY <2>2, <3>1 DEF GroupInv, RowsFit, FitsChunk, IdsExist, RowsExist
    <3>4. chat[rows[r].msg].chunk \in Nat
      BY <3>3, ChunkOfMessage DEF GroupInv, Chunks
    <3> QED BY <1>1, <3>1, <3>2, <3>4
  <2> QED BY <1>11, <2>1, <2>2
<1>14. Dropped'
  <2> SUFFICES ASSUME NEW j \in DOMAIN sync.existing, size < j, j < k + 1
               PROVE  HasDelete(sync.existing[j])'
    BY <1>4, <1>5 DEF Dropped
  <2>1. PICK y : y = sync.existing[j]
    OBVIOUS
  <2>2. sync'.existing[j] = y
    BY <1>5, <2>1
  <2>3. j \in Nat
    BY <1>1
  <2>4. CASE j < sync.i
    <3>1. HasDelete(y)'
      BY <1>9, <2>1, <2>4 DEF Standing, Dropped
    <3> QED BY <2>2, <3>1
  <2>5. CASE ~(j < sync.i)
    <3>1. j \in Beyond
      BY <1>1, <2>3, <2>5 DEF Beyond
    <3>2. j = k
      BY <1>2, <1>6, <2>3, <3>1
    <3>3. x = y
      BY <1>n, <2>1, <3>2 DEF m
    <3>4. HasDelete(y)'
      BY <1>11, <3>3 DEF HasDelete
    <3> QED BY <2>2, <3>4
  <2> QED BY <2>4, <2>5
<1>15. Clean'
  BY <1>5 DEF Clean
<1> QED BY <1>9, <1>10, <1>12, <1>13, <1>14, <1>15 DEF RowParts, Standing

LEMMA EndsStands ==
    ASSUME GroupInv, Standing, Ends, odd = {}, odd' = {}
    PROVE  Standing'
<1>1. /\ sync.at = "find" /\ sync.i > size /\ Beyond = {} /\ size \in Nat /\ sync.i \in Nat
      /\ sync.existing \in Seq(Nat) /\ sync.kept \in Seq(Nat)
  BY SyncFields, SizeFits DEF GroupInv, Ends
<1>2. /\ sync'.at = "idle" /\ sync'.i = 1 /\ sync'.existing = <<>> /\ sync'.kept = <<>>
      /\ sync'.found = None
  BY DEF Ends, Idle
<1>3. /\ UNCHANGED <<client, delivery, shown, rows>> /\ ids' = sync.kept
      /\ chat' = chat /\ rows' = rows /\ size' = size /\ texts' = texts
      /\ ~StillComing /\ ~Overlooked
  BY DEF Ends, shown
<1>4. RowParts' /\ (\A x : Known(x) => Known(x)') /\ (\A x : HasDelete(x) => HasDelete(x)')
  BY <1>3, RowsStand, AtRowsStay
<1>5. KnownIds'
  <2>1. ASSUME NEW i \in Chunks
        PROVE  \/ stored'[i].id = stored[i].id \/ stored'[i].id = None
               \/ \E k \in DOMAIN sync.kept : stored'[i].id = sync.kept[k]
    <3>1. stored[i] \in [id : Nat, active : BOOLEAN] /\ i \in Nat /\ i # 0 /\ i > 0
      BY GroupAssumption DEF GroupInv, GroupTypes, Chunks
    <3>2. CASE i > size
      <4>1. stored'[i] = [stored[i] EXCEPT !.active = FALSE]
        BY <3>2 DEF Ends
      <4> QED BY <3>1, <4>1
    <3>3. CASE ~(i > size)
      <4>1. stored'[i] = [id |-> IF i <= Len(sync.kept) THEN sync.kept[i] ELSE None, active |-> TRUE]
        BY <3>3 DEF Ends
      <4>2. i <= Len(sync.kept) => i \in DOMAIN sync.kept
        BY <1>1, <3>1, LenProperties
      <4> QED BY <4>1, <4>2
    <3> QED BY <3>2, <3>3
  <2>2. \A i \in Chunks : (stored[i].id # None => Known(stored[i].id))'
    <3> SUFFICES ASSUME NEW i \in Chunks PROVE (stored[i].id # None => Known(stored[i].id))'
      OBVIOUS
    <3>1. PICK e : e = stored'[i].id
      OBVIOUS
    <3>2. e # None => Known(e)
      BY <2>1, <3>1 DEF Standing, KnownIds, AllKnown
    <3>3. e # None => Known(e)'
      BY <1>4, <3>2
    <3> QED BY <3>1, <3>3
  <2>3. AllKnown(ids)'
    BY <1>3, <1>4 DEF Standing, KnownIds, AllKnown
  <2>4. AllKnown(sync.existing)' /\ AllKnown(sync.kept)' /\ (sync.found # None => Known(sync.found))'
    BY <1>2 DEF AllKnown
  <2> QED BY <1>4, <2>2, <2>3, <2>4 DEF KnownIds, RowParts
<1>6. LastTexts'
  <2>1. \A i \in Chunks : Synced(i)' => Synced(i)
    BY <1>1, <1>3 DEF Synced, Chunks
  <2> QED BY <1>3, <2>1 DEF Standing, LastTexts, Newest
<1>7. DeadChunks'
  <2> SUFFICES ASSUME NEW r \in DOMAIN rows, rows[r].op = "delete"
               PROVE  chat[rows[r].msg].chunk > size
    BY <1>3 DEF DeadChunks
  <2>1. chat[rows[r].msg].chunk > size \/ chat[rows[r].msg].chunk >= sync.i
    BY DEF Standing, DeadChunks
  <2>2. rows[r].msg \in DOMAIN chat
    BY DEF GroupInv, RowsFit, FitsChunk, IdsExist, RowsExist
  <2>3. chat[rows[r].msg].chunk \in Nat
    BY <2>2, ChunkOfMessage DEF GroupInv, Chunks
  <2> QED BY <1>1, <2>1, <2>3
<1>8. Dropped'
  BY <1>2 DEF Dropped
<1>9. Clean'
  <2>1. ASSUME NEW m \in DOMAIN chat, chat[m].chunk > size
        PROVE  HasDelete(m)
    <3>1. Doomed(m) \/ \E k \in DOMAIN sync.existing : sync.existing[k] = m
      BY <1>3, <2>1 DEF Overlooked
    <3>2. CASE Doomed(m)
      BY <3>2 DEF Doomed, HasDelete, Standing, GoneByRow
    <3>3. CASE \E k \in DOMAIN sync.existing : sync.existing[k] = m
      <4>1. PICK k \in DOMAIN sync.existing : sync.existing[k] = m
        BY <3>3
      <4>2. k = chat[m].chunk /\ k \in Nat
        BY <1>1, <4>1 DEF GroupInv, InOwnMessage, InPlace, Shows
      <4>3. k < sync.i
        BY <1>1, <2>1, <4>2, <4>1 DEF Beyond
      <4> QED BY <2>1, <4>1, <4>2, <4>3 DEF Standing, Dropped
    <3> QED BY <3>1, <3>2, <3>3
  <2>2. ASSUME NEW r \in DOMAIN rows, Live(r), rows[r].op = "send"
        PROVE  rows[r].chunk <= size
    <3>1. rows[r].chunk \in Nat
      BY <2>2 DEF GroupInv, RowsFit, FitsChunk, Chunks
    <3>2. ~(rows[r].chunk > size)
      BY <1>3, <2>2 DEF StillComing, Live
    <3> QED BY <1>1, <3>1, <3>2
  <2> QED BY <1>3, <1>4, <2>1, <2>2 DEF Clean, Live
<1> QED BY <1>4, <1>5, <1>6, <1>7, <1>8, <1>9 DEF RowParts, Standing

-----------------------------------------------------------------------------
(* The steps of the delivery worker and the client.                        *)

(* What the main thread knows stands while rows are executed. *)
LEMMA MainKnows ==
    ASSUME Standing, UNCHANGED main, UNCHANGED stored, RowsKnown',
           \A x : Known(x) => Known(x)'
    PROVE  KnownIds'
BY DEF main, Standing, KnownIds, AllKnown

(* The last rows of the chunks keep their texts while the worker executes, *)
(* promotes and completes rows.                                            *)
LEMMA TextsKept ==
    ASSUME Standing, UNCHANGED main, DOMAIN rows' = DOMAIN rows,
           \A r \in DOMAIN rows : /\ rows'[r].key = rows[r].key /\ rows'[r].text = rows[r].text
                                  /\ rows[r].status # "deleted" => rows'[r].status # "deleted"
    PROVE  LastTexts'
<1> SUFFICES ASSUME NEW i \in Chunks, Synced(i)'
             PROVE  \E r \in DOMAIN rows' : /\ rows'[r].key = i /\ Newest(r)'
                                            /\ rows'[r].text = texts' /\ rows'[r].status # "deleted"
  BY DEF LastTexts
<1>1. Synced(i) /\ texts' = texts
  BY DEF Synced, main
<1>2. PICK r \in DOMAIN rows : /\ rows[r].key = i /\ Newest(r)
                               /\ rows[r].text = texts /\ rows[r].status # "deleted"
  BY <1>1 DEF Standing, LastTexts
<1>3. Newest(r)'
  BY <1>2 DEF Newest
<1> QED BY <1>1, <1>2, <1>3

(* The deletions stay what they are. *)
DeletesKept ==
    /\ DOMAIN rows' = DOMAIN rows
    /\ \A r \in DOMAIN rows :
          /\ rows'[r].op = "delete" <=> rows[r].op = "delete"
          /\ rows[r].op = "delete" => rows'[r].msg = rows[r].msg

(* The sends that are left are among those there were. *)
SendsKept ==
    \A r \in DOMAIN rows : (Live(r) /\ rows[r].op = "send")' =>
        Live(r) /\ rows[r].op = "send" /\ rows'[r].chunk = rows[r].chunk

(* No deletion gets lost, and a message the worker adds between two syncs  *)
(* is of a chunk of the text.                                              *)
LEMMA DeadStay ==
    ASSUME GroupInv, Standing, UNCHANGED main, DeletesKept, SendsKept, ChunksKept,
           \A m \in DOMAIN chat' \ DOMAIN chat : sync.at = "idle" => ~(chat'[m].chunk > size)
    PROVE  DeadChunks' /\ Dropped' /\ Clean' /\ (\A x : HasDelete(x) => HasDelete(x)')
<1>1. \A x : HasDelete(x) => HasDelete(x)'
  BY DEF HasDelete, DeletesKept
<1>2. sync' = sync /\ size' = size
  BY DEF main
<1>3. DeadChunks'
  <2> SUFFICES ASSUME NEW r \in DOMAIN rows, rows[r].op = "delete"
               PROVE  \/ chat'[rows[r].msg].chunk > size
                      \/ sync.at # "idle" /\ chat'[rows[r].msg].chunk >= sync.i
    BY <1>2 DEF DeadChunks, DeletesKept
  <2>1. rows[r].msg \in DOMAIN chat
    BY DEF GroupInv, RowsFit, FitsChunk, IdsExist, RowsExist
  <2> QED BY <2>1 DEF Standing, DeadChunks, ChunksKept
<1>4. Dropped'
  BY <1>1, <1>2 DEF Standing, Dropped
<1>5. Clean'
  <2>1. ASSUME sync.at = "idle", NEW m \in DOMAIN chat', chat'[m].chunk > size
        PROVE  HasDelete(m)'
    <3>1. m \in DOMAIN chat /\ chat[m].chunk > size
      BY <2>1 DEF ChunksKept
    <3> QED BY <1>1, <2>1, <3>1 DEF Standing, Clean
  <2>2. ASSUME sync.at = "idle", NEW r \in DOMAIN rows', (Live(r) /\ rows[r].op = "send")'
        PROVE  rows'[r].chunk <= size
    <3>1. r \in DOMAIN rows
      BY <2>2 DEF DeletesKept
    <3> QED BY <2>2, <3>1 DEF Standing, Clean, SendsKept
  <2> QED BY <1>2, <2>1, <2>2 DEF Clean
<1> QED BY <1>1, <1>3, <1>4, <1>5

LEMMA ClientGoesOnStands ==
    ASSUME GroupInv, Standing, ClientGoesOn
    PROVE  Standing'
<1>1. UNCHANGED <<delivery, shown, main, rows, stored>> /\ result' = result
  BY DEF ClientGoesOn, TakesRequest, WakesUp, Tick
<1>2. UNCHANGED AtRows
  BY <1>1 DEF AtRows, delivery, shown
<1>3. RowParts' /\ (\A x : Known(x) => Known(x)')
  BY <1>2, RowsStand
<1>4. KnownIds'
  BY <1>1, <1>3, MainKnows DEF RowParts
<1>5. LastTexts'
  BY <1>1, TextsKept
<1>6. DeadChunks' /\ Dropped' /\ Clean'
  <2>1. DeletesKept /\ SendsKept /\ ChunksKept /\ chat' = chat
    BY <1>1 DEF DeletesKept, SendsKept, ChunksKept, Live, shown
  <2> QED BY <1>1, <2>1, DeadStay
<1> QED BY <1>3, <1>4, <1>5, <1>6 DEF RowParts, Standing

LEMMA StoresIdStands ==
    ASSUME GroupInv, Standing, StoresId
    PROVE  Standing'
<1>1. /\ stage = "storing" /\ stage' = "idle" /\ rows' = rows /\ chat' = chat /\ gone' = gone
      /\ stored' = IF stored[rows[row].chunk].active
                   THEN [stored EXCEPT ![rows[row].chunk].id = rows[row].msg] ELSE stored
      /\ UNCHANGED main
  BY DEF StoresId, shown
<1>2. /\ row \in DOMAIN rows /\ Done(row) /\ Keyed(row)
  BY <1>1, GroupAssumption DEF GroupInv, InCall, RowsFit, FitsChunk, Done, Keyed, Chunks, None
<1>3. \A x : Known(x) => Known(x)'
  BY <1>1 DEF Known, Done, Keyed
<1>4. InOrder' /\ RowsDone' /\ SendsFirst'
  BY <1>1 DEF Standing, InOrder, RowsDone, SendsFirst, Done, Live, Keyed
<1>5. RowsKnown'
  BY <1>1, <1>3 DEF Standing, KnownIds, RowsKnown
<1>6. KnownIds'
  <2>1. \A i \in Chunks : stored'[i].id = stored[i].id \/ stored'[i].id = rows[row].msg
    <3>1. stored \in [Chunks -> [id : Nat, active : BOOLEAN]]
      BY DEF GroupInv, GroupTypes
    <3>2. \A i \in Chunks : stored'[i] = stored[i] \/ stored'[i] = [stored[i] EXCEPT !.id = rows[row].msg]
      BY <1>1, <3>1
    <3>3. \A i \in Chunks : stored[i] \in [id : Nat, active : BOOLEAN]
      BY <3>1
    <3> QED BY <3>2, <3>3
  <2>2. Known(rows[row].msg)
    BY <1>2 DEF Known
  <2>3. \A i \in Chunks : (stored[i].id # None => Known(stored[i].id))'
    <3> SUFFICES ASSUME NEW i \in Chunks PROVE (stored[i].id # None => Known(stored[i].id))'
      OBVIOUS
    <3>1. PICK e : e = stored'[i].id
      OBVIOUS
    <3>2. e # None => Known(e)
      BY <2>1, <2>2, <3>1 DEF Standing, KnownIds
    <3>3. e # None => Known(e)'
      BY <1>3, <3>2
    <3> QED BY <3>1, <3>3
  <2>4. AllKnown(ids)' /\ AllKnown(sync.existing)' /\ AllKnown(sync.kept)'
        /\ (sync.found # None => Known(sync.found))'
    BY <1>1, <1>3 DEF Standing, KnownIds, AllKnown, main
  <2> QED BY <1>5, <2>3, <2>4 DEF KnownIds
<1>7. MessagesKnown' /\ OneMessage' /\ Answered'
  BY <1>1, <1>3 DEF Standing, MessagesKnown, OneMessage, Posted, Answered
<1>8. NewestShown' /\ GoneByRow'
  BY <1>1 DEF Standing, NewestShown, GoneByRow, HasDelete, Done, Keyed, Newest
<1>9. LastTexts'
  BY <1>1, TextsKept
<1>10. DeadChunks' /\ Dropped' /\ Clean'
  <2>1. DeletesKept /\ SendsKept /\ ChunksKept
    BY <1>1 DEF DeletesKept, SendsKept, ChunksKept, Live
  <2> QED BY <1>1, <2>1, DeadStay
<1> QED BY <1>4, <1>6, <1>7, <1>8, <1>9, <1>10 DEF Standing

(* One row is claimed, or queued again, before it is answered or after an  *)
(* answer that is none.                                                    *)
LEMMA StatusStands ==
    ASSUME GroupInv, Standing, UNCHANGED <<shown, main, stored>>,
           NEW n \in DOMAIN rows, NEW s \in {"queued", "claimed"}, Becomes(n, s),
           Live(n), \A m \in DOMAIN chat : ~Posted(m),
           InOrder', Answered'
    PROVE  Standing'
<1>1. /\ DOMAIN rows' = DOMAIN rows /\ rows'[n].status = s
      /\ \A r \in DOMAIN rows : Keeps(r) /\ (r # n => rows'[r].status = rows[r].status)
  BY DEF Becomes
<1>2. chat' = chat /\ gone' = gone
  BY DEF shown
<1>3. /\ \A r \in DOMAIN rows : Done(r)' <=> Done(r)
      /\ \A r \in DOMAIN rows : Live(r)' <=> Live(r)
      /\ \A r \in DOMAIN rows : Keyed(r)' <=> Keyed(r)
      /\ \A r \in DOMAIN rows : Newest(r)' <=> Newest(r)
      /\ \A r \in DOMAIN rows : rows'[r].status = "deleted" <=> rows[r].status = "deleted"
  <2>1. ~Done(n) /\ ~Done(n)' /\ Live(n)' /\ rows[n].status # "deleted" /\ rows'[n].status # "deleted"
    BY <1>1 DEF Done, Live
  <2>2. \A r \in DOMAIN rows : (Done(r)' <=> Done(r)) /\ (Live(r)' <=> Live(r))
    BY <1>1, <2>1 DEF Done, Live
  <2>3. \A r \in DOMAIN rows : Keyed(r)' <=> Keyed(r)
    BY <1>1 DEF Keyed, Keeps
  <2>4. \A r \in DOMAIN rows : Newest(r)' <=> Newest(r)
    BY <1>1 DEF Newest, Keeps
  <2>5. \A r \in DOMAIN rows : rows'[r].status = "deleted" <=> rows[r].status = "deleted"
    BY <1>1, <2>1
  <2> QED BY <2>2, <2>3, <2>4, <2>5
<1>4. \A x : Known(x) => Known(x)'
  BY <1>1, <1>3 DEF Known, Keeps
<1>5. RowsDone' /\ SendsFirst'
  <2>1. RowsDone'
    BY <1>1, <1>2, <1>3 DEF Standing, RowsDone, Keeps
  <2>2. SendsFirst'
    BY <1>1, <1>3 DEF Standing, SendsFirst, Keeps
  <2> QED BY <2>1, <2>2
<1>6. RowsKnown'
  <2> SUFFICES ASSUME NEW r \in DOMAIN rows PROVE (rows[r].op # "send" => Known(rows[r].msg))'
    BY <1>1 DEF RowsKnown
  <2>1. PICK e : e = rows[r].msg
    OBVIOUS
  <2>2. rows[r].op # "send" => Known(e)'
    BY <1>4, <2>1 DEF Standing, KnownIds, RowsKnown
  <2> QED BY <1>1, <2>1, <2>2 DEF Keeps
<1>7. KnownIds'
  BY <1>4, <1>6, MainKnows
<1>8. MessagesKnown' /\ OneMessage'
  BY <1>2, <1>4 DEF Standing, MessagesKnown, OneMessage
<1>9. NewestShown'
  BY <1>1, <1>2, <1>3 DEF Standing, NewestShown, Keeps
<1>10. LastTexts'
  BY <1>1, <1>3, TextsKept DEF Keeps
<1>11. DeadChunks' /\ Dropped' /\ Clean' /\ (\A x : HasDelete(x) => HasDelete(x)')
  <2>1. DeletesKept /\ ChunksKept
    BY <1>1, <1>2 DEF DeletesKept, ChunksKept, Keeps
  <2>2. SendsKept
    BY <1>1, <1>3 DEF SendsKept, Keeps
  <2> QED BY <1>2, <2>1, <2>2, DeadStay
<1>12. GoneByRow'
  BY <1>2, <1>11 DEF Standing, GoneByRow
<1> QED BY <1>5, <1>7, <1>8, <1>9, <1>10, <1>11, <1>12 DEF Standing

LEMMA ClaimsStands ==
    ASSUME GroupInv, Standing, Claims
    PROVE  Standing'
<1>1. \A r \in DOMAIN rows : r \in Nat
  BY RowFields DEF GroupInv
<1>2. row' \in Queued /\ \A q \in Queued : row' <= q
  <2>1. Queued \in SUBSET Nat
    BY <1>1 DEF Queued
  <2> QED BY <2>1, MinExists DEF Claims
<1>n. PICK n : n = row'
  OBVIOUS
<1>3. /\ n \in DOMAIN rows /\ rows[n].status = "queued" /\ row' = n
      /\ \A q \in DOMAIN rows : rows[q].status = "queued" => n <= q
  BY <1>2, <1>n DEF Queued
<1>4. Becomes(n, "claimed")
  <2>1. rows' = [rows EXCEPT ![n].status = "claimed"] /\ GroupTypes
    BY <1>n DEF Claims, GroupInv
  <2> QED BY <1>3, <2>1, StatusBecomes
<1>5. /\ stage = "idle" /\ stage' = "called" /\ result'[Delivery] = "waits"
      /\ UNCHANGED <<shown, main, stored>>
  <2>1. Delivery \in Callers /\ result \in [Callers -> {"none", "waits", "ok", "error"}]
    BY GroupAssumption DEF GroupInv, GroupTypes, TypeOK
  <2> QED BY <2>1 DEF Claims, Dispatches
<1>6. /\ DOMAIN rows' = DOMAIN rows /\ rows'[n].status = "claimed"
      /\ \A r \in DOMAIN rows : r # n => rows'[r].status = rows[r].status
  BY <1>4 DEF Becomes
<1>7. \A r \in DOMAIN rows : rows[r].status # "claimed"
  BY <1>5 DEF Standing, InOrder
<1>8. InOrder'
  <2>1. \A r, q \in DOMAIN rows : Done(r) /\ rows[q].status = "queued" => r < q
    BY DEF Standing, InOrder, Live
  <2>2. \A r, q \in DOMAIN rows : Done(r)' /\ Live(q)' => r < q
    BY <1>3, <1>6, <1>7, <2>1 DEF Done, Live
  <2>3. \A r, q \in DOMAIN rows : rows'[r].status = "claimed" /\ rows'[q].status = "queued" => r < q
    <3> SUFFICES ASSUME NEW r \in DOMAIN rows, NEW q \in DOMAIN rows,
                        rows'[r].status = "claimed", rows'[q].status = "queued"
                 PROVE  r < q
      OBVIOUS
    <3>1. r = n /\ q # n /\ n <= q
      BY <1>3, <1>6, <1>7
    <3> QED BY <1>1, <3>1
  <2>4. \A r \in DOMAIN rows : rows'[r].status = "claimed" => stage' = "called" /\ r = row'
    BY <1>3, <1>5, <1>6, <1>7
  <2> QED BY <1>6, <2>2, <2>3, <2>4 DEF InOrder
<1>9. Answered'
  BY <1>5 DEF Answered
<1>10. Live(n) /\ \A m \in DOMAIN chat : ~Posted(m)
  BY <1>3, <1>5 DEF Live, Posted
<1> QED BY <1>3, <1>4, <1>5, <1>8, <1>9, <1>10, StatusStands

LEMMA GivesBackStands ==
    ASSUME GroupInv, Standing, GivesBack, ~Failed'
    PROVE  Standing'
<1>1. /\ stage = "called" /\ stage' = "idle" /\ result[Delivery] = "error"
      /\ rows' = [rows EXCEPT ![row].status = IF reason = "limited" THEN "queued" ELSE "failed"]
      /\ UNCHANGED <<shown, main, stored>>
  BY DEF GivesBack
<1>2. row \in DOMAIN rows /\ rows[row].status = "claimed"
  BY <1>1 DEF GroupInv, InCall
<1>3. Becomes(row, IF reason = "limited" THEN "queued" ELSE "failed")
  BY <1>1, <1>2, StatusBecomes DEF GroupInv
<1>4. reason = "limited"
  BY <1>2, <1>3 DEF Failed, Becomes
<1>5. Becomes(row, "queued")
  BY <1>3, <1>4
<1>6. /\ DOMAIN rows' = DOMAIN rows /\ rows'[row].status = "queued"
      /\ \A r \in DOMAIN rows : r # row => rows'[r].status = rows[r].status
  BY <1>5 DEF Becomes
<1>7. \A r \in DOMAIN rows : rows'[r].status # "claimed"
  BY <1>6 DEF Standing, InOrder
<1>8. InOrder'
  <2>1. \A r, q \in DOMAIN rows : Done(r)' /\ Live(q)' => r < q
    <3>1. \A r \in DOMAIN rows : (Done(r)' => Done(r)) /\ (Live(r)' => Live(r))
      BY <1>2, <1>6 DEF Done, Live
    <3> QED BY <3>1 DEF Standing, InOrder
  <2> QED BY <1>6, <1>7, <2>1 DEF InOrder
<1>9. Answered'
  BY <1>1 DEF Answered
<1>10. Live(row) /\ \A m \in DOMAIN chat : ~Posted(m)
  BY <1>1, <1>2 DEF Live, Posted
<1> QED BY <1>1, <1>2, <1>5, <1>8, <1>9, <1>10, StatusStands

LEMMA CompletesStands ==
    ASSUME GroupInv, Standing, Completes, odd = {}
    PROVE  Standing'
<1>m. PICK m : m = IF rows[row].op = "send" THEN Len(chat) ELSE rows[row].msg
  OBVIOUS
<1>1. /\ stage = "called" /\ stage' # "called" /\ rows' = CompletedAs(m)
      /\ UNCHANGED <<shown, main, stored>> /\ chat' = chat /\ gone' = gone
      /\ \/ result[Delivery] = "ok"
         \/ result[Delivery] = "error" /\ reason = "gone" /\ rows[row].op = "delete"
  BY <1>m DEF Completes, CompletedAs, shown
<1>2. /\ row \in DOMAIN rows /\ rows[row].status = "claimed" /\ FitsChunk(rows[row])
      /\ rows[row].op \in {"send", "edit", "delete"}
  BY <1>1, RowFields DEF GroupInv, InCall, RowsFit, OutboundRow
<1>3. /\ m # None
      /\ rows[row].op # "send" => m = rows[row].msg
      /\ rows[row].op = "send" => m = Len(chat)
  <2>1. Len(chat) \in Nat /\ (chat # <<>> => Len(chat) # 0)
    <3>1. chat \in Seq([chunk : Chunks, text : Nat])
      BY DEF GroupInv, GroupTypes
    <3> QED BY <3>1, LenProperties, EmptySeq
  <2>2. rows[row].op = "send" => chat # <<>>
    BY <1>1 DEF GroupInv, InCall
  <2> QED BY <1>2, <1>m, <2>1, <2>2 DEF FitsChunk, None
<1>4. CompletesWith(m)
  BY <1>1, <1>2, RowCompletes DEF GroupInv
<1>5. /\ DOMAIN rows' = DOMAIN rows
      /\ rows'[row].status = "completed" /\ rows'[row].op = rows[row].op /\ rows'[row].msg = m
      /\ \A r \in DOMAIN rows :
            /\ r \in Nat
            /\ rows'[r].key = rows[r].key /\ rows'[r].chunk = rows[r].chunk
            /\ rows'[r].text = rows[r].text
            /\ r # row => rows'[r].status = rows[r].status
            /\ r # row /\ ~Promotes(r) => rows'[r].op = rows[r].op /\ rows'[r].msg = rows[r].msg
            /\ Promotes(r) => rows'[r].op = "edit" /\ rows'[r].msg = m
  BY <1>4 DEF CompletesWith
<1>6. /\ \A r \in DOMAIN rows : Done(r)' <=> Done(r) \/ r = row
      /\ \A r \in DOMAIN rows : Live(r)' <=> Live(r) /\ r # row
      /\ \A r \in DOMAIN rows : Keyed(r)' <=> Keyed(r)
      /\ \A r \in DOMAIN rows : Newest(r)' <=> Newest(r)
      /\ \A r \in DOMAIN rows : Live(r) /\ r # row => rows[r].status = "queued"
      /\ Live(row) /\ ~Done(row) /\ ~Promotes(row)
      /\ \A r \in DOMAIN rows : Promotes(r) => ~Done(r) /\ rows[r].op = "send"
  <2>1. \A r \in DOMAIN rows : Done(r)' <=> Done(r) \/ r = row
    BY <1>2, <1>5 DEF Done
  <2>2. \A r \in DOMAIN rows : Live(r)' <=> Live(r) /\ r # row
    BY <1>2, <1>5 DEF Live
  <2>3. \A r \in DOMAIN rows : Keyed(r)' <=> Keyed(r)
    BY <1>5 DEF Keyed
  <2>4. \A r \in DOMAIN rows : Newest(r)' <=> Newest(r)
    BY <1>5 DEF Newest
  <2>5. \A r \in DOMAIN rows : Live(r) /\ r # row => rows[r].status = "queued"
    BY DEF Standing, InOrder, Live
  <2>6. Live(row) /\ ~Done(row) /\ ~Promotes(row)
    BY <1>2 DEF Live, Done, Promotes
  <2>7. \A r \in DOMAIN rows : Promotes(r) => ~Done(r) /\ rows[r].op = "send"
    BY DEF Promotes, Done
  <2> QED BY <2>1, <2>2, <2>3, <2>4, <2>5, <2>6, <2>7
<1>7. \A x : Known(x) => Known(x)'
  BY <1>5, <1>6 DEF Known
<1>8. rows[row].op # "delete" => Known(m)'
  <2>1. rows[row].op # "delete" => Keyed(row)
    BY <1>2, GroupAssumption DEF FitsChunk, Keyed, Chunks, None
  <2> QED BY <1>2, <1>5, <1>6, <2>1 DEF Known
<1>9. InOrder'
  <2>1. \A r, q \in DOMAIN rows : Done(r)' /\ Live(q)' => r < q
    BY <1>2, <1>6 DEF Standing, InOrder
  <2>2. \A r \in DOMAIN rows : rows'[r].status # "claimed"
    BY <1>5 DEF Standing, InOrder
  <2> QED BY <1>5, <2>1, <2>2 DEF InOrder
<1>10. RowsDone'
  <2> SUFFICES ASSUME NEW r \in DOMAIN rows
               PROVE  /\ Done(r)' => rows'[r].msg # None
                      /\ Done(r)' /\ rows'[r].op = "delete" => rows'[r].msg \in gone
                      /\ rows'[r].status = "deleted" => Keyed(r)'
    BY <1>1, <1>5 DEF RowsDone
  <2>1. CASE r = row
    <3>1. rows[row].op = "delete" => rows[row].msg \in gone
      BY <1>1 DEF Standing, Answered
    <3> QED BY <1>3, <1>5, <2>1, <3>1
  <2>2. CASE r # row
    BY <1>5, <1>6, <2>2 DEF Standing, RowsDone
  <2> QED BY <2>1, <2>2
<1>11. RowsKnown'
  <2> SUFFICES ASSUME NEW r \in DOMAIN rows PROVE (rows[r].op # "send" => Known(rows[r].msg))'
    BY <1>5 DEF RowsKnown
  <2>1. PICK e : e = rows'[r].msg
    OBVIOUS
  <2>2. rows'[r].op # "send" => Known(e)'
    <3>1. CASE r = row
      <4>1. rows[row].op # "send" => Known(m)
        BY <1>2, <1>3 DEF Standing, KnownIds, RowsKnown
      <4> QED BY <1>5, <1>7, <2>1, <3>1, <4>1
    <3>2. CASE Promotes(r)
      <4>1. rows[row].op = "send"
        BY <3>2 DEF Promotes
      <4> QED BY <1>5, <1>8, <2>1, <3>2, <4>1
    <3>3. CASE r # row /\ ~Promotes(r)
      BY <1>5, <1>7, <2>1, <3>3 DEF Standing, KnownIds, RowsKnown
    <3> QED BY <3>1, <3>2, <3>3
  <2> QED BY <2>1, <2>2
<1>12. KnownIds'
  BY <1>1, <1>7, <1>11, MainKnows
<1>13. SendsFirst'
  <2> SUFFICES ASSUME NEW r \in DOMAIN rows, NEW q \in DOMAIN rows, Done(r)', Live(q)',
                      rows'[q].op = "send"
               PROVE  rows[r].key # rows[q].key
    BY <1>5 DEF SendsFirst
  <2>1. Live(q) /\ q # row /\ rows[q].op = "send" /\ ~Promotes(q) /\ rows[q].status = "queued"
    BY <1>5, <1>6
  <2>2. CASE Done(r)
    BY <2>1, <2>2 DEF Standing, SendsFirst
  <2>3. CASE r = row /\ rows[row].op = "send"
    BY <2>1, <2>3 DEF Promotes
  <2>4. CASE r = row /\ rows[row].op = "edit"
    <3>1. Known(m) /\ m = rows[row].msg
      BY <1>2, <1>3, <2>4 DEF Standing, KnownIds, RowsKnown
    <3>2. \E p \in DOMAIN rows : Done(p) /\ rows[p].key = chat[m].chunk
      BY <3>1, KnownShows DEF Standing
    <3>3. chat[m].chunk = rows[row].key
      BY <1>2, <1>3, <2>4, <3>1 DEF FitsChunk, GroupInv, InOwnMessage, OwnRows, Shows
    <3> QED BY <2>1, <2>4, <3>2, <3>3 DEF Standing, SendsFirst
  <2>5. CASE r = row /\ rows[row].op = "delete"
    <3>1. rows[row].key = None
      BY <1>2, <2>5 DEF FitsChunk
    <3>2. rows[q].key # None
      BY <2>1, GroupAssumption DEF GroupInv, RowsFit, FitsChunk, Chunks, None
    <3> QED BY <2>5, <3>1, <3>2
  <2> QED BY <1>2, <1>6, <2>2, <2>3, <2>4, <2>5
<1>14. MessagesKnown' /\ OneMessage' /\ Answered'
  <2>1. \A x \in DOMAIN chat : Known(x)'
    <3> SUFFICES ASSUME NEW x \in DOMAIN chat PROVE Known(x)'
      OBVIOUS
    <3>1. CASE Known(x)
      BY <1>7, <3>1
    <3>2. CASE Posted(x)
      <4>1. x = m /\ rows[row].op = "send"
        BY <1>3, <3>2 DEF Posted
      <4> QED BY <1>8, <4>1
    <3> QED BY <3>1, <3>2 DEF Standing, MessagesKnown
  <2> QED BY <1>1, <2>1 DEF Standing, MessagesKnown, OneMessage, Answered
<1>15. NewestShown'
  <2> SUFFICES ASSUME NEW r \in DOMAIN rows, Done(r)', Keyed(r)', Newest(r)'
               PROVE  chat[rows'[r].msg].text = rows[r].text
    BY <1>1, <1>5 DEF NewestShown
  <2>1. CASE r = row
    <3>1. rows[row].op # "delete"
      BY <1>2, <1>6, <2>1 DEF FitsChunk, Keyed
    <3>2. result[Delivery] = "ok"
      BY <1>1, <3>1
    <3>3. chat[m].text = rows[row].text
      BY <1>1, <1>2, <1>3, <3>1, <3>2 DEF Standing, Answered
    <3> QED BY <1>5, <2>1, <3>3
  <2>2. CASE r # row
    <3>1. Done(r) /\ Keyed(r) /\ Newest(r) /\ ~Promotes(r)
      BY <1>6, <2>2
    <3> QED BY <1>5, <2>2, <3>1 DEF Standing, NewestShown
  <2> QED BY <2>1, <2>2
<1>16. LastTexts'
  BY <1>1, <1>2, <1>5, TextsKept
<1>17. DeadChunks' /\ Dropped' /\ Clean' /\ (\A x : HasDelete(x) => HasDelete(x)')
  <2>1. DeletesKept
    <3>1. \A r \in DOMAIN rows : /\ rows'[r].op = "delete" <=> rows[r].op = "delete"
                                 /\ rows[r].op = "delete" => rows'[r].msg = rows[r].msg
      BY <1>2, <1>3, <1>5, <1>6
    <3> QED BY <1>5, <3>1 DEF DeletesKept
  <2>2. SendsKept
    BY <1>5, <1>6 DEF SendsKept
  <2>3. ChunksKept
    BY <1>1 DEF ChunksKept
  <2> QED BY <1>1, <2>1, <2>2, <2>3, DeadStay
<1>18. GoneByRow'
  BY <1>1, <1>17 DEF Standing, GoneByRow
<1> QED BY <1>9, <1>10, <1>12, <1>13, <1>14, <1>15, <1>16, <1>17, <1>18 DEF Standing

(* The chat after a call: the messages keep their chunks, and the last row *)
(* of a chunk that was completed is still what its message shows.          *)
ChatStands ==
    /\ ChunksKept /\ DOMAIN chat \subseteq DOMAIN chat' /\ gone \subseteq gone'
    /\ MessagesKnown' /\ OneMessage' /\ Answered' /\ NewestShown' /\ GoneByRow'
    /\ \A m \in DOMAIN chat' \ DOMAIN chat : sync.at = "idle" => ~(chat'[m].chunk > size)

(* The row of the worker, which a call executes. *)
LEMMA RowInHand ==
    ASSUME GroupInv, Standing, stage = "called", odd = {}
    PROVE  /\ row \in DOMAIN rows /\ row \in Nat /\ FitsChunk(rows[row]) /\ Live(row)
           /\ rows[row].op \in {"send", "edit", "delete"}
           /\ rows[row].op # "delete" => rows[row].chunk \in Chunks /\ rows[row].key = rows[row].chunk
           /\ \A r \in DOMAIN rows : Done(r) => r < row
           /\ rows[row].op = "edit" => /\ rows[row].msg \in DOMAIN chat
                                       /\ chat[rows[row].msg].chunk = rows[row].chunk
<1>1. row \in DOMAIN rows /\ rows[row].status = "claimed"
  BY DEF GroupInv, InCall
<1>2. row \in Nat /\ FitsChunk(rows[row]) /\ rows[row].op \in {"send", "edit", "delete"}
  BY <1>1, RowFields DEF GroupInv, RowsFit, OutboundRow
<1>3. rows[row].op # "delete" => rows[row].chunk \in Chunks /\ rows[row].key = rows[row].chunk
  BY <1>2 DEF FitsChunk
<1>4. Live(row) /\ \A r \in DOMAIN rows : Done(r) => r < row
  BY <1>1 DEF Live, Standing, InOrder
<1>5. rows[row].op = "edit" => /\ rows[row].msg \in DOMAIN chat
                               /\ chat[rows[row].msg].chunk = rows[row].chunk
  BY <1>1, <1>2 DEF FitsChunk, GroupInv, IdsExist, RowsExist, InOwnMessage, OwnRows, Shows
<1> QED BY <1>1, <1>2, <1>3, <1>4, <1>5

(* The facts about rows that a call leaves as they are. *)
LEMMA CallKeepsRows ==
    ASSUME UNCHANGED <<rows, row, stage, main, stored>>
    PROVE  /\ \A x : Known(x)' <=> Known(x)
           /\ \A x : HasDelete(x)' <=> HasDelete(x)
           /\ \A r : (Done(r)' <=> Done(r)) /\ (Keyed(r)' <=> Keyed(r)) /\ (Newest(r)' <=> Newest(r))
<1>1. \A r : (Done(r)' <=> Done(r)) /\ (Keyed(r)' <=> Keyed(r)) /\ (Newest(r)' <=> Newest(r))
  BY DEF Done, Keyed, Newest
<1>2. \A x : Known(x)' <=> Known(x)
  BY DEF Known, Done, Keyed
<1>3. \A x : HasDelete(x)' <=> HasDelete(x)
  BY DEF HasDelete
<1> QED BY <1>1, <1>2, <1>3

(* The message of a row that was completed. *)
LEMMA DoneMessage ==
    ASSUME GroupInv, Standing, odd = {}, NEW r \in DOMAIN rows, Done(r), Keyed(r)
    PROVE  rows[r].msg \in DOMAIN chat /\ chat[rows[r].msg].chunk = rows[r].key
<1>1. rows[r].op # "delete" /\ rows[r].key = rows[r].chunk /\ rows[r].msg # None
  BY DEF GroupInv, RowsFit, FitsChunk, Keyed, RowsDone, Standing
<1> QED BY <1>1 DEF GroupInv, IdsExist, RowsExist, InOwnMessage, OwnRows, Shows

LEMMA SendStands ==
    ASSUME GroupInv, Standing, odd = {}, UNCHANGED <<rows, row, stage, main, stored>>,
           stage = "called", result[Delivery] = "waits", result'[Delivery] = "ok",
           rows[row].op = "send", gone' = gone,
           chat' = Append(chat, [chunk |-> rows[row].chunk, text |-> rows[row].text])
    PROVE  ChatStands
<1> DEFINE e == [chunk |-> rows[row].chunk, text |-> rows[row].text]
<1>1. rows[row].chunk \in Chunks /\ rows[row].key = rows[row].chunk /\ row \in DOMAIN rows /\ Live(row)
      /\ \A r \in DOMAIN rows : Done(r) => r < row
  BY RowInHand
<1>2. e \in [chunk : Chunks, text : Nat]
  BY <1>1, RowFields DEF GroupInv, OutboundRow
<1>n. PICK n : n = Len(chat) + 1
  OBVIOUS
<1>3. /\ DOMAIN chat' = DOMAIN chat \cup {n} /\ n \notin DOMAIN chat /\ Len(chat') = n
      /\ \A k \in DOMAIN chat : chat'[k] = chat[k]
      /\ chat'[n].chunk = rows[row].chunk /\ chat'[n].text = rows[row].text
  <2>1. chat \in Seq([chunk : Chunks, text : Nat])
    BY DEF GroupInv, GroupTypes
  <2>2. Len(chat) \in Nat /\ DOMAIN chat = 1..Len(chat)
    BY <2>1, LenProperties
  <2>3. e.chunk = rows[row].chunk /\ e.text = rows[row].text
    OBVIOUS
  <2> HIDE DEF e
  <2>4. /\ Len(chat') = Len(chat) + 1
        /\ DOMAIN chat' = 1..(Len(chat) + 1)
        /\ \A k \in 1..Len(chat) : chat'[k] = chat[k]
        /\ chat'[Len(chat) + 1] = e
    BY <1>2, <2>1, Appended DEF e
  <2> QED BY <1>n, <2>2, <2>3, <2>4
<1> HIDE DEF e
<1>4. /\ \A x : Known(x)' <=> Known(x)
      /\ \A x : HasDelete(x)' <=> HasDelete(x)
      /\ \A r : (Done(r)' <=> Done(r)) /\ (Keyed(r)' <=> Keyed(r)) /\ (Newest(r)' <=> Newest(r))
  BY CallKeepsRows
<1>5. \A x \in DOMAIN chat : Known(x) /\ chat[x].chunk # rows[row].chunk
  <2> SUFFICES ASSUME NEW x \in DOMAIN chat PROVE Known(x) /\ chat[x].chunk # rows[row].chunk
    OBVIOUS
  <2>1. Known(x)
    BY DEF Standing, MessagesKnown, Posted
  <2>2. PICK r \in DOMAIN rows : Done(r) /\ rows[r].key = chat[x].chunk
    BY <2>1, KnownShows DEF Standing
  <2> QED BY <1>1, <2>1, <2>2 DEF Standing, SendsFirst
<1>6. ChunksKept /\ DOMAIN chat \subseteq DOMAIN chat' /\ gone \subseteq gone'
  BY <1>3 DEF ChunksKept
<1>7. MessagesKnown'
  <2>1. Posted(n)'
    BY <1>3 DEF Posted
  <2> QED BY <1>3, <1>4, <1>5, <2>1 DEF MessagesKnown
<1>8. OneMessage'
  BY <1>3, <1>5 DEF Standing, OneMessage
<1>9. Answered'
  BY <1>3 DEF Answered
<1>10. NewestShown'
  BY <1>3, <1>4, DoneMessage DEF Standing, NewestShown
<1>11. GoneByRow'
  BY <1>4 DEF Standing, GoneByRow
<1>12. \A m \in DOMAIN chat' \ DOMAIN chat : sync.at = "idle" => ~(chat'[m].chunk > size)
  <2> SUFFICES ASSUME sync.at = "idle" PROVE ~(rows[row].chunk > size)
    BY <1>3
  <2>1. rows[row].chunk <= size
    BY <1>1 DEF Standing, Clean
  <2> QED BY <1>1, <2>1, SizeFits DEF GroupInv, Chunks
<1> QED BY <1>6, <1>7, <1>8, <1>9, <1>10, <1>11, <1>12 DEF ChatStands

LEMMA EditStands ==
    ASSUME GroupInv, Standing, odd = {}, UNCHANGED <<rows, row, stage, main, stored>>,
           stage = "called", result[Delivery] = "waits", result'[Delivery] = "ok",
           rows[row].op = "edit", gone' = gone,
           chat' = [chat EXCEPT ![rows[row].msg] = [chunk |-> rows[row].chunk, text |-> rows[row].text]]
    PROVE  ChatStands
<1>1. /\ row \in DOMAIN rows /\ row \in Nat /\ rows[row].key = rows[row].chunk
      /\ \A r \in DOMAIN rows : Done(r) => r < row
      /\ rows[row].msg \in DOMAIN chat
      /\ chat[rows[row].msg].chunk = rows[row].chunk
  BY RowInHand
<1>2. /\ DOMAIN chat' = DOMAIN chat
      /\ \A k \in DOMAIN chat : k # rows[row].msg => chat'[k] = chat[k]
      /\ chat'[rows[row].msg].chunk = rows[row].chunk /\ chat'[rows[row].msg].text = rows[row].text
  BY <1>1
<1>3. ChunksKept
  BY <1>1, <1>2 DEF ChunksKept
<1>4. /\ \A x : Known(x)' <=> Known(x)
      /\ \A x : HasDelete(x)' <=> HasDelete(x)
      /\ \A r : (Done(r)' <=> Done(r)) /\ (Keyed(r)' <=> Keyed(r)) /\ (Newest(r)' <=> Newest(r))
  BY CallKeepsRows
<1>5. MessagesKnown'
  BY <1>2, <1>4 DEF Standing, MessagesKnown, Posted
<1>6. OneMessage'
  BY <1>2, <1>3 DEF Standing, OneMessage, ChunksKept
<1>7. Answered'
  BY <1>2 DEF Answered
<1>8. NewestShown'
  <2> SUFFICES ASSUME NEW r \in DOMAIN rows, Done(r), Keyed(r), Newest(r)
               PROVE  chat'[rows[r].msg].text = rows[r].text
    BY <1>4 DEF NewestShown
  <2>1. rows[r].msg \in DOMAIN chat /\ chat[rows[r].msg].chunk = rows[r].key
    BY DoneMessage
  <2>2. r < row /\ r \in Nat
    BY <1>1, RowFields DEF GroupInv
  <2>3. rows[r].msg # rows[row].msg
    <3> SUFFICES ASSUME rows[r].msg = rows[row].msg PROVE FALSE
      OBVIOUS
    <3>1. row <= r
      BY <1>1, <2>1 DEF Newest
    <3> QED BY <1>1, <2>2, <3>1
  <2> QED BY <1>2, <2>1, <2>3 DEF Standing, NewestShown
<1>9. GoneByRow'
  BY <1>4 DEF Standing, GoneByRow
<1> QED BY <1>2, <1>3, <1>5, <1>6, <1>7, <1>8, <1>9 DEF ChatStands

(* A call that leaves the texts alone: a deletion, or a call that fails. *)
LEMMA OtherStands ==
    ASSUME GroupInv, Standing, odd = {}, UNCHANGED <<rows, row, stage, main, stored>>,
           stage = "called", result[Delivery] = "waits", chat' = chat,
           \/ gone' = gone
           \/ rows[row].op = "delete" /\ gone' = gone \cup {rows[row].msg},
           result'[Delivery] = "ok" => rows[row].op = "delete" /\ rows[row].msg \in gone',
           result'[Delivery] = "error" /\ reason' = "gone" => rows[row].msg \in gone'
    PROVE  ChatStands
<1>1. row \in DOMAIN rows
  BY RowInHand
<1>2. /\ \A x : Known(x)' <=> Known(x)
      /\ \A x : HasDelete(x)' <=> HasDelete(x)
      /\ \A r : (Done(r)' <=> Done(r)) /\ (Keyed(r)' <=> Keyed(r)) /\ (Newest(r)' <=> Newest(r))
  BY CallKeepsRows
<1>3. ChunksKept /\ DOMAIN chat \subseteq DOMAIN chat' /\ gone \subseteq gone'
  BY DEF ChunksKept
<1>4. MessagesKnown' /\ OneMessage'
  BY <1>2 DEF Standing, MessagesKnown, OneMessage, Posted
<1>5. Answered'
  BY DEF Answered
<1>6. NewestShown'
  BY <1>2 DEF Standing, NewestShown
<1>7. GoneByRow'
  <2>1. rows[row].op = "delete" => HasDelete(rows[row].msg)
    BY <1>1 DEF HasDelete
  <2> QED BY <1>2, <2>1 DEF Standing, GoneByRow
<1> QED BY <1>3, <1>4, <1>5, <1>6, <1>7 DEF ChatStands

LEMMA AnswersRowStands ==
    ASSUME GroupInv, Standing, AnswersRow, odd = {}
    PROVE  Standing'
<1>1. worker = "sending" /\ UNCHANGED <<rows, row, stage, main, stored>>
  BY DEF AnswersRow, Accepted, Limited
<1>2. /\ Delivery \in Callers /\ result \in [Callers -> {"none", "waits", "ok", "error"}]
      /\ result[Delivery] = "waits" /\ current[1] = Delivery /\ stage = "called"
  BY <1>1, TheirCall DEF GroupInv, InCall
<1>3. ChatStands
  <2>1. CASE Accepted /\ Executes(result'[Delivery], reason')
    <3>1. CASE rows[row].op = "send" /\ result'[Delivery] = "ok" /\ gone' = gone
               /\ chat' = Append(chat, [chunk |-> rows[row].chunk, text |-> rows[row].text])
      BY <1>1, <1>2, <3>1, SendStands
    <3>2. CASE /\ rows[row].op = "edit" /\ result'[Delivery] = "ok" /\ gone' = gone
               /\ chat' = [chat EXCEPT ![rows[row].msg] =
                              [chunk |-> rows[row].chunk, text |-> rows[row].text]]
      BY <1>1, <1>2, <3>2, EditStands
    <3>3. CASE /\ rows[row].op = "delete" /\ result'[Delivery] = "ok" /\ chat' = chat
               /\ gone' = gone \cup {rows[row].msg}
      BY <1>1, <1>2, <3>3, OtherStands
    <3>4. CASE /\ result'[Delivery] = "error" /\ chat' = chat /\ gone' = gone
               /\ rows[row].msg \in gone
      BY <1>1, <1>2, <3>4, OtherStands
    <3>5. CASE result'[Delivery] = "error" /\ reason' = "refused" /\ chat' = chat /\ gone' = gone
      BY <1>1, <1>2, <3>5, OtherStands
    <3> QED BY <2>1, <3>1, <3>2, <3>3, <3>4, <3>5 DEF Executes, shown
  <2>2. CASE Limited /\ reason' = "limited" /\ UNCHANGED <<shown, refused>>
    <3>1. chat' = chat /\ gone' = gone /\ reason' = "limited" /\ result'[Delivery] # "ok"
      BY <1>2, <2>2 DEF Limited, Answers, shown
    <3> QED BY <1>1, <1>2, <3>1, OtherStands
  <2> QED BY <2>1, <2>2 DEF AnswersRow
<1>4. /\ \A x : Known(x)' <=> Known(x)
      /\ \A x : HasDelete(x)' <=> HasDelete(x)
  BY <1>1, CallKeepsRows
<1>5. InOrder' /\ RowsDone' /\ SendsFirst'
  BY <1>1, <1>3 DEF Standing, InOrder, RowsDone, SendsFirst, Done, Live, Keyed, ChatStands
<1>6. KnownIds'
  <2>1. RowsKnown'
    BY <1>1, <1>4 DEF Standing, KnownIds, RowsKnown
  <2> QED BY <1>1, <1>4, <2>1, MainKnows
<1>7. LastTexts'
  BY <1>1, TextsKept
<1>8. DeadChunks' /\ Dropped' /\ Clean'
  <2>1. DeletesKept /\ SendsKept
    BY <1>1 DEF DeletesKept, SendsKept, Live
  <2> QED BY <1>1, <1>3, <2>1, DeadStay DEF ChatStands
<1> QED BY <1>3, <1>5, <1>6, <1>7, <1>8 DEF Standing, ChatStands

-----------------------------------------------------------------------------
(* The texts stand.                                                        *)

LEMMA InitialStands == GroupInit => Standing
<1> SUFFICES ASSUME GroupInit PROVE Standing
  OBVIOUS
<1> USE DEF GroupInit, Idle, None
<1>1. InOrder /\ RowsDone /\ SendsFirst /\ NewestShown /\ DeadChunks
  BY DEF InOrder, RowsDone, SendsFirst, NewestShown, DeadChunks
<1>2. KnownIds
  BY DEF KnownIds, AllKnown, RowsKnown
<1>3. MessagesKnown /\ OneMessage /\ Answered /\ GoneByRow
  BY DEF MessagesKnown, OneMessage, Answered, GoneByRow
<1>4. LastTexts
  BY DEF LastTexts, Synced, Chunks
<1>5. Dropped /\ Clean
  BY DEF Dropped, Clean
<1> QED BY <1>1, <1>2, <1>3, <1>4, <1>5 DEF Standing

(* What has gone wrong stays so: odd only grows, and a row that has failed *)
(* is left alone.                                                          *)
LEMMA OddGrows ==
    ASSUME GroupNext
    PROVE  odd \subseteq odd'
<1>1. CASE \E n \in Chunks : Begins(n)
  BY <1>1 DEF Begins
<1>2. CASE Submits
  BY <1>2 DEF Submits
<1>3. CASE Ends
  BY <1>3 DEF Ends
<1>4. CASE UNCHANGED main
  BY <1>4 DEF main
<1>5. CASE Finds \/ Drops
  BY <1>5 DEF Finds, Drops
<1>6. CASE Delivers \/ AnswersRow \/ ClientGoesOn
  <2>1. UNCHANGED main
    BY <1>6 DEF Delivers, Claims, Completes, StoresId, GivesBack, AnswersRow, ClientGoesOn
  <2> QED BY <2>1 DEF main
<1> QED BY <1>1, <1>2, <1>3, <1>5, <1>6 DEF GroupNext, Syncs

LEMMA FailedStays ==
    ASSUME GroupInv, GroupNext, Failed
    PROVE  Failed'
<1>1. PICK f \in DOMAIN rows : rows[f].status = "failed"
  BY DEF Failed
<1> SUFFICES f \in DOMAIN rows' /\ rows'[f].status = "failed"
  BY DEF Failed
<1> GroupTypes
  BY DEF GroupInv
<1>2. CASE rows' = rows
  BY <1>1, <1>2
<1>3. ASSUME NEW o \in {"send", "edit", "delete"}, NEW i \in Nat, NEW m \in Nat, Enqueue(o, i, m)
      PROVE  f \in DOMAIN rows' /\ rows'[f].status = "failed"
  BY <1>1, <1>3, EnqueueGrows DEF Grows
<1>4. CASE Submits
  <2>1. sync.i \in Nat /\ sync.found \in Nat /\ None \in Nat
    BY SyncFields DEF None
  <2>2. Enqueue("edit", sync.i, sync.found) \/ Enqueue("send", sync.i, None)
    BY <1>4 DEF Submits, QueueEdit, QueueMessage
  <2> QED BY <1>3, <2>1, <2>2
<1>5. CASE Drops
  <2>1. Min(Beyond) \in Beyond
    <3>1. Beyond \in SUBSET Nat /\ Beyond # {}
      BY <1>5, SyncFields DEF Beyond, Drops
    <3> QED BY <3>1, MinExists
  <2>2. sync.existing[Min(Beyond)] \in Nat /\ None \in Nat
    BY <2>1, SyncFields, ElementOfSeq, LenProperties DEF Beyond, None
  <2>3. Enqueue("delete", None, sync.existing[Min(Beyond)])
    BY <1>5 DEF Drops, QueueDelete
  <2> QED BY <1>3, <2>2, <2>3
<1>6. CASE Claims
  <2>1. row' \in Queued
    <3>1. Queued \in SUBSET Nat /\ Queued # {}
      BY <1>6, RowFields DEF Queued, Claims
    <3> QED BY <1>6, <3>1, MinExists DEF Claims
  <2>2. PICK n : n = row'
    OBVIOUS
  <2>3. n \in DOMAIN rows /\ n # f /\ rows' = [rows EXCEPT ![n].status = "claimed"]
    BY <1>1, <1>6, <2>1, <2>2 DEF Queued, Claims
  <2>4. Becomes(n, "claimed")
    BY <2>3, StatusBecomes
  <2> QED BY <1>1, <2>3, <2>4 DEF Becomes
<1>7. CASE Completes
  <2>1. row \in DOMAIN rows /\ rows[row].status = "claimed"
    BY <1>7 DEF Completes, GroupInv, InCall
  <2>2. \E m : rows' = CompletedAs(m)
    BY <1>7 DEF Completes, CompletedAs
  <2>3. PICK m : CompletesWith(m)
    BY <2>1, <2>2, RowCompletes
  <2> QED BY <1>1, <2>1, <2>3 DEF CompletesWith
<1>8. CASE GivesBack
  <2>1. row \in DOMAIN rows /\ rows[row].status = "claimed"
    BY <1>8 DEF GivesBack, GroupInv, InCall
  <2>2. PICK s : rows' = [rows EXCEPT ![row].status = s]
    BY <1>8 DEF GivesBack
  <2>3. Becomes(row, s)
    BY <2>1, <2>2, StatusBecomes
  <2> QED BY <1>1, <2>1, <2>3 DEF Becomes
<1>9. CASE (\E n \in Chunks : Begins(n)) \/ Finds \/ Ends \/ StoresId \/ AnswersRow \/ ClientGoesOn
  BY <1>2, <1>9 DEF Begins, Finds, Ends, StoresId, AnswersRow, ClientGoesOn
<1> QED BY <1>4, <1>5, <1>6, <1>7, <1>8, <1>9 DEF GroupNext, Syncs, Delivers

LEMMA StandingSteps == StandingInv /\ [GroupNext]_groupVars => StandingInv'
<1> SUFFICES ASSUME StandingInv, [GroupNext]_groupVars PROVE StandingInv'
  OBVIOUS
<1>1. GroupInv /\ GroupInv'
  BY GroupSteps DEF StandingInv
<1>2. CASE UNCHANGED groupVars
  <2>1. UNCHANGED <<client, delivery, shown, main, rows, stored>> /\ odd' = odd
    BY <1>2 DEF groupVars, main
  <2>2. Failed' <=> Failed
    BY <2>1 DEF Failed
  <2>3. Standing => Standing'
    <3> SUFFICES ASSUME Standing PROVE Standing'
      OBVIOUS
    <3>1. RowParts' /\ (\A x : Known(x) => Known(x)')
      BY <2>1, RowsStand, AtRowsStay
    <3>2. KnownIds'
      BY <2>1, <3>1, MainKnows DEF RowParts
    <3>3. LastTexts'
      BY <2>1, TextsKept
    <3>4. DeadChunks' /\ Dropped' /\ Clean'
      <4>1. DeletesKept /\ SendsKept /\ ChunksKept /\ chat' = chat
        BY <2>1 DEF DeletesKept, SendsKept, ChunksKept, Live, shown
      <4> QED BY <1>1, <2>1, <4>1, DeadStay
    <3> QED BY <3>1, <3>2, <3>3, <3>4 DEF RowParts, Standing
  <2> QED BY <1>1, <2>1, <2>2, <2>3 DEF StandingInv
<1>3. CASE GroupNext
  <2> SUFFICES ASSUME odd' = {}, ~Failed' PROVE Standing'
    BY <1>1 DEF StandingInv
  <2>1. odd = {} /\ ~Failed
    BY <1>1, <1>3, OddGrows, FailedStays
  <2>2. Standing
    BY <2>1 DEF StandingInv
  <2>3. CASE \E n \in Chunks : Begins(n)
    BY <1>1, <2>2, <2>3, BeginsStands
  <2>4. CASE Finds
    BY <1>1, <2>2, <2>4, FindsStands
  <2>5. CASE Submits
    BY <1>1, <2>1, <2>2, <2>5, SubmitsStands
  <2>6. CASE Drops
    BY <1>1, <2>1, <2>2, <2>6, DropsStands
  <2>7. CASE Ends
    BY <1>1, <2>1, <2>2, <2>7, EndsStands
  <2>8. CASE Claims
    BY <1>1, <2>2, <2>8, ClaimsStands
  <2>9. CASE Completes
    BY <1>1, <2>1, <2>2, <2>9, CompletesStands
  <2>10. CASE StoresId
    BY <1>1, <2>2, <2>10, StoresIdStands
  <2>11. CASE GivesBack
    BY <1>1, <2>2, <2>11, GivesBackStands
  <2>12. CASE AnswersRow
    BY <1>1, <2>1, <2>2, <2>12, AnswersRowStands
  <2>13. CASE ClientGoesOn
    BY <1>1, <2>2, <2>13, ClientGoesOnStands
  <2> QED BY <1>3, <2>3, <2>4, <2>5, <2>6, <2>7, <2>8, <2>9, <2>10, <2>11, <2>12, <2>13
          DEF GroupNext, Syncs, Delivers
<1> QED BY <1>2, <1>3

(* Every row is over when nothing waits to be executed. *)
LEMMA SettledRows ==
    ASSUME GroupInv, Standing, Settled, ~Failed
    PROVE  \A r \in DOMAIN rows : Done(r) \/ rows[r].status = "deleted"
<1> SUFFICES ASSUME NEW r \in DOMAIN rows PROVE Done(r) \/ rows[r].status = "deleted"
  OBVIOUS
<1>1. rows[r].status \in {"queued", "claimed", "completed", "failed", "deleted"}
  BY RowFields DEF GroupInv, OutboundRow
<1>2. rows[r].status # "queued" /\ rows[r].status # "failed"
  BY DEF Settled, Queued, Failed
<1>3. rows[r].status # "claimed"
  BY DEF Standing, InOrder, Settled
<1> QED BY <1>1, <1>2, <1>3 DEF Done

LEMMA SettledDeletes ==
    ASSUME GroupInv, Standing, Settled, ~Failed, NEW m, HasDelete(m)
    PROVE  m \in gone
<1>1. PICK r \in DOMAIN rows : rows[r].op = "delete" /\ rows[r].msg = m
  BY DEF HasDelete
<1>2. ~Keyed(r)
  BY <1>1 DEF GroupInv, RowsFit, FitsChunk, Keyed
<1>3. Done(r)
  BY <1>2, SettledRows DEF Standing, RowsDone
<1> QED BY <1>1, <1>3 DEF Standing, RowsDone

(* A chunk of the last text is shown, in a message that is not deleted. *)
LEMMA ChunkShown ==
    ASSUME GroupInv, Standing, Settled, ~Failed, odd = {}, NEW i \in 1..size
    PROVE  \E m \in Visible : chat[m] = [chunk |-> i, text |-> texts]
<1>1. i \in Chunks /\ i \in Nat /\ i # 0 /\ size \in Nat
  BY SizeFits DEF GroupInv, Chunks
<1>2. PICK r \in DOMAIN rows : /\ rows[r].key = i /\ Newest(r)
                               /\ rows[r].text = texts /\ rows[r].status # "deleted"
  BY <1>1 DEF Standing, LastTexts, Synced, Settled
<1>3. Done(r) /\ Keyed(r)
  BY <1>1, <1>2, SettledRows DEF Keyed, None
<1>4. PICK m : m = rows[r].msg
  OBVIOUS
<1>5. m \in DOMAIN chat /\ chat[m].chunk = i
  BY <1>2, <1>3, <1>4, DoneMessage
<1>6. chat[m].text = texts
  BY <1>2, <1>3, <1>4 DEF Standing, NewestShown
<1>7. chat[m] = [chunk |-> i, text |-> texts]
  <2>1. chat[m] \in [chunk : Chunks, text : Nat]
    BY <1>5, ChunkOfMessage DEF GroupInv
  <2> QED BY <1>5, <1>6, <2>1
<1>8. m \notin gone
  <2> SUFFICES ASSUME m \in gone PROVE FALSE
    OBVIOUS
  <2>1. PICK q \in DOMAIN rows : rows[q].op = "delete" /\ rows[q].msg = m
    BY DEF Standing, GoneByRow, HasDelete
  <2>2. chat[m].chunk > size
    BY <2>1 DEF Standing, DeadChunks, Settled
  <2> QED BY <1>1, <1>5, <2>2
<1> QED BY <1>5, <1>7, <1>8 DEF Visible

(* No other message is visible. *)
LEMMA VisibleChunks ==
    ASSUME GroupInv, Standing, Settled, ~Failed, odd = {}
    PROVE  \A m \in Visible : m \in DOMAIN chat /\ chat[m].chunk \in 1..size
<1> SUFFICES ASSUME NEW m \in Visible PROVE m \in DOMAIN chat /\ chat[m].chunk \in 1..size
  OBVIOUS
<1>1. m \in DOMAIN chat /\ m \notin gone
  BY DEF Visible
<1>2. chat[m].chunk \in Nat /\ chat[m].chunk > 0 /\ size \in Nat
  BY <1>1, ChunkOfMessage, SizeFits DEF GroupInv, Chunks
<1>3. ~(chat[m].chunk > size)
  BY <1>1, SettledDeletes DEF Standing, Clean, Settled
<1> QED BY <1>1, <1>2, <1>3

LEMMA StandsFollows == StandingInv => TextStands
<1> SUFFICES ASSUME StandingInv, Settled, ~Failed, odd = {}, texts > 0
             PROVE  /\ \A i \in 1..size : \E m \in Visible : chat[m] = [chunk |-> i, text |-> texts]
                    /\ Cardinality(Visible) = size
  BY DEF TextStands
<1>1. GroupInv /\ Standing
  BY DEF StandingInv
<1>2. \A i \in 1..size : \E m \in Visible : chat[m] = [chunk |-> i, text |-> texts]
  BY <1>1, ChunkShown
<1>3. \A m \in Visible : m \in DOMAIN chat /\ chat[m].chunk \in 1..size
  BY <1>1, VisibleChunks
<1> DEFINE f == [m \in Visible |-> chat[m].chunk]
<1>4. f \in Bijection(Visible, 1..size)
  <2>1. f \in [Visible -> 1..size]
    BY <1>3
  <2>2. \A m, n \in Visible : f[m] = f[n] => m = n
    BY <1>1, <1>3 DEF Standing, OneMessage
  <2>3. \A i \in 1..size : \E m \in Visible : f[m] = i
    <3> SUFFICES ASSUME NEW i \in 1..size PROVE \E m \in Visible : f[m] = i
      OBVIOUS
    <3>1. PICK m \in Visible : chat[m] = [chunk |-> i, text |-> texts]
      BY <1>2
    <3>2. chat[m].chunk = i
      BY <3>1
    <3> QED BY <3>2
  <2> HIDE DEF f
  <2>4. f \in Injection(Visible, 1..size)
    BY <2>1, <2>2 DEF Injection, IsInjective
  <2>5. f \in Surjection(Visible, 1..size)
    BY <2>1, <2>3 DEF Surjection
  <2> QED BY <2>4, <2>5 DEF Bijection
<1>5. IsFiniteSet(Visible)
  <2>1. DOMAIN chat = 1..Len(chat) /\ Len(chat) \in Nat
    BY <1>1, ChunkOfMessage DEF GroupInv
  <2>2. IsFiniteSet(DOMAIN chat)
    BY <2>1, FS_Interval
  <2> QED BY <2>2, FS_Subset DEF Visible
<1>6. Cardinality(1..size) = Cardinality(Visible)
  <2>1. ExistsBijection(Visible, 1..size)
    BY <1>4 DEF ExistsBijection
  <2> QED BY <1>5, <2>1, FS_Bijection
<1>7. size \in Nat
  BY <1>1, SizeFits DEF GroupInv
<1>8. Cardinality(1..size) = size
  BY <1>7, FS_Interval
<1> QED BY <1>2, <1>6, <1>8

(* Until something goes wrong the rows are executed in their order, a      *)
(* chunk has one message, the last row of a chunk that was completed is    *)
(* what the message shows, and a message is deleted only if the text no    *)
(* longer reaches its chunk.                                               *)
THEOREM GroupStands == GroupSpec => []StandingInv
<1>1. GroupInit => StandingInv
  BY InitialGroup, InitialStands DEF StandingInv
<1> QED BY <1>1, StandingSteps, PTL DEF GroupSpec

(* Once everything is sent the chat shows the last text and nothing else,  *)
(* for any number of chunks and texts: rate limits, replaced rows,         *)
(* promoted sends and repeated calls neither lose a chunk nor post it      *)
(* twice nor leave one behind.                                             *)
THEOREM LastTextStands == GroupSpec => []TextStands
BY GroupStands, StandsFollows, PTL
=============================================================================
