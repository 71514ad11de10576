---------------------------- MODULE MCPersistence ----------------------------
(* Instance of Persistence for TLC: one handler and one account. *)
EXTENDS Persistence

CONSTANTS t1, a1
=============================================================================
