---------------------------- MODULE MCChoreography ----------------------------
(* Instance of Choreography for TLC: one transfer, to an account that does *)
(* not exist.                                                              *)
EXTENDS Choreography, TLC

CONSTANTS t1, x1, alice, nobody

MCFrom == (x1 :> alice)
MCTo == (x1 :> nobody)
MCAmount == (x1 :> 1)
MCSeeds == (alice :> 1)
===============================================================================
