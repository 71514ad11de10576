------------------------------- MODULE Storage -------------------------------
(***************************************************************************)
(* The two things the ledger keeps on disk, the stored accounts and chain  *)
(* and the event log.  They share no state; as in Standalone, a behaviour  *)
(* exercises the one that `focus` names.                                   *)
(***************************************************************************)
EXTENDS Persistence, EventLog

VARIABLE focus

storageVars == <<vars, logVars, focus>>

StorageInit == focus \in {"store", "log"} /\ Init /\ LogInit

StorageNext ==
    /\ UNCHANGED focus
    /\ \/ focus = "store" /\ Next /\ UNCHANGED logVars
       \/ focus = "log" /\ LogNext /\ UNCHANGED vars

StorageSpec == StorageInit /\ [][StorageNext]_storageVars
=============================================================================
