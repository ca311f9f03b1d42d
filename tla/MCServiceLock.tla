--------------------------- MODULE MCServiceLock ---------------------------
(* Instances of ServiceLock for TLC: how often each fault may happen. *)
EXTENDS ServiceLock, TLC

Faults(crashes, stops) == [kind \in FaultKinds |-> IF kind = "crash" THEN crashes ELSE stops]

OneEach == Faults(1, 1)

Symmetry == Permutations(Pids)
=============================================================================
