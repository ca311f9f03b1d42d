------------------------------- MODULE Inbox -------------------------------
(***************************************************************************)
(* What the inbound side of the service promises a user: his messages are  *)
(* handled one by one, in the order in which he sent them, none twice; the *)
(* death of the service costs at most the message whose turn it was.       *)
(***************************************************************************)
EXTENDS Naturals, Sequences

VARIABLES
    sent,     \* the number of messages sent so far; they are 1, 2, ...
    handled,  \* the messages handled, in that order
    lost,     \* the messages that will never be handled
    deaths    \* how often the service has died

inbox == <<sent, handled, lost, deaths>>

Init == sent = 0 /\ handled = <<>> /\ lost = {} /\ deaths = 0

Served == {handled[i] : i \in 1 .. Len(handled)} \cup lost

(* The message whose turn it is. *)
NextOne(m) == m \in 1 .. sent \ Served /\ 1 .. m - 1 \subseteq Served

Send == sent' = sent + 1 /\ UNCHANGED <<handled, lost, deaths>>

Handle ==
    /\ \E m \in 1 .. sent : NextOne(m) /\ handled' = Append(handled, m)
    /\ UNCHANGED <<sent, lost, deaths>>

Die ==
    /\ deaths' = deaths + 1
    /\ \/ UNCHANGED lost
       \/ \E m \in 1 .. sent : NextOne(m) /\ lost' = lost \cup {m}
    /\ UNCHANGED <<sent, handled>>

Next == Send \/ Handle \/ Die

Spec == Init /\ [][Next]_inbox

(* A message that has been sent is handled in the end. *)
FairSpec == Spec /\ WF_inbox(Handle)
=============================================================================
