---------------------------- MODULE MCAppServer ----------------------------
(* Instances of AppServer for TLC: which events happen. *)
EXTENDS AppServer

Once(kinds) == [k \in Events |-> IF k \in kinds THEN 1 ELSE 0]

(* Three notifications with any fault, or two with a message, a restart or *)
(* the death of a process besides.                                         *)
Talk == {[Once({a}) EXCEPT !["note"] = 3] : a \in Faults}
   \cup {[Once({a, b}) EXCEPT !["note"] = 2] : a \in Faults, b \in {"die", "message", "restart"}}

(* Two approval requests, two replies, any fault, a restart or a message. *)
Approvals == {[Once({a, b}) EXCEPT !["ask"] = 2, !["reply"] = 2] : a \in Faults, b \in {"restart", "message"}}

(* A second message after one whose answer is late. *)
LateAnswers == {[Once({a, "slow"}) EXCEPT !["message"] = 2] : a \in Faults}

AllBudgets == Talk \cup Approvals \cup LateAnswers
=============================================================================
