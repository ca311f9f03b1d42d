------------------------------ MODULE MCSleep ------------------------------
(* Instances of Sleep for TLC: which events happen. *)
EXTENDS Sleep, TLC

Counted(kinds) == [k \in Events |-> IF k \in DOMAIN kinds THEN kinds[k] ELSE 0]

(* The service alone: three messages, two entries, a /new and a fault. *)
Alone == {Counted(("turn" :> 3) @@ ("note" :> 2) @@ ("new" :> 1) @@ (f :> 1)) : f \in Faults \cup {"stop", "recover"}}

(* Both processes: two messages, an entry, and a fault, a /new or a flush. *)
Both == {Counted(("turn" :> 2) @@ ("note" :> 1) @@ ("chat" :> 1) @@ (f :> 1)) : f \in {"crash", "fail", "thread", "new", "prune"}}

(* Both processes replace sessions and write back what they have read.     *)
Replaced == {Counted(("turn" :> 1) @@ ("chat" :> 1) @@ ("new" :> 2) @@ ("prune" :> 1))}

(* A turn that a new app server does not know is stopped.                  *)
Stopped == {Counted(("turn" :> 1) @@ ("stop" :> 1) @@ ("crash" :> 1))}

(* local_chat is killed while it creates a session, and uses it after all, *)
(* while the service recovers the sessions.                                *)
Killed == {Counted(("turn" :> 2) @@ ("chat" :> 2) @@ ("new" :> 1) @@ ("recover" :> 1) @@ ("crash" :> 1))}

Bounded == Alone \cup Both \cup Replaced \cup Stopped \cup Killed
=============================================================================
