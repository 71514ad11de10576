------------------------------ MODULE MCEventBus ------------------------------
(* Instance of EventBus for TLC. *)
EXTENDS EventBus

CONSTANTS t1, t2, k1, k2, c1

MCHash == (k1 :> 7) @@ (k2 :> 4)

Symmetry == Permutations(Threads)
===============================================================================
