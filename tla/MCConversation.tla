--------------------------- MODULE MCConversation ---------------------------
(* Bounds on faults and commands for the checks of Conversation. *)
EXTENDS Conversation

Once(kinds) == [kind \in Faults \cup Commands |-> IF kind \in kinds THEN 1 ELSE 0]

Calm == {Once({})}

(* Each command once, no fault. *)
CommandsOnly == {Once(Commands)}

(* One fault and one command, any of each. *)
OneOfEach == {Once({fault, command}) : fault \in Faults, command \in Commands}
=============================================================================
