--------------------------- MODULE MCCoordination ---------------------------
(* Instance of Coordination for TLC: a saga of two steps; a transfer       *)
(* between two seeded accounts and one, of a negative amount, to an        *)
(* account that does not exist; three requests behind the breaker.         *)
EXTENDS Coordination, TLC

CONSTANTS s1, t1, t2, t3, x1, x2, alice, bob, nobody

MCSteps == (s1 :> 2)
MCFrom == (x1 :> alice) @@ (x2 :> bob)
MCTo == (x1 :> bob) @@ (x2 :> nobody)
MCAmount == (x1 :> 2) @@ (x2 :> -1)
MCSeeds == (alice :> 2) @@ (bob :> 0)
=============================================================================
