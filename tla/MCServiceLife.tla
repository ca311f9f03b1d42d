--------------------------- MODULE MCServiceLife ---------------------------
(* Instances of ServiceLife for TLC: how often each fault may happen. *)
EXTENDS ServiceLife

EachOnce == [kind \in FaultKinds |-> 1]

(* The service ends once, by a kill or by an exception; its successors are *)
(* killed before they serve.                                               *)
TwoKillsOneStop == [kind \in {"crash", "stop"} |-> IF kind = "crash" THEN 2 ELSE 1]
=============================================================================
