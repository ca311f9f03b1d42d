-------------------------- MODULE MCTelegramQueue --------------------------
(* Instances of TelegramQueue for TLC: how often each fault may happen. *)
EXTENDS TelegramQueue

(* Every text has one chunk. *)
OneChunk == [k \in TextKeys |-> 0]

Budget(limits, fails, dbs, crashes, stops) ==
    [kind \in FaultKinds |-> CASE kind = "limit" -> limits
                               [] kind = "fail"  -> fails
                               [] kind = "db"    -> dbs
                               [] kind = "crash" -> crashes
                               [] kind = "stop"  -> stops]

LimitFailCrash   == Budget(1, 1, 0, 1, 0)
AnyFault         == Budget(1, 1, 1, 1, 1)
=============================================================================
