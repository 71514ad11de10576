----------------------------- MODULE AccountBook -----------------------------
(***************************************************************************)
(* The registered accounts as the services above them use them             *)
(* (src/src/service/account_service.rs over src/src/domain/account.rs):    *)
(* each operation is one step on one account, which is what Account.tla    *)
(* shows of debit and credit.  A call admitted just before a status change *)
(* and finished after it is ordered before the change: nothing it reads or *)
(* writes later depends on the status.  Holds are left to Account.tla, so  *)
(* the available funds of an account are its balance here.                 *)
(***************************************************************************)
EXTENDS Integers

CONSTANTS
    Ids,                \* account identifiers a request may name
    I64Max              \* i64::MAX, scaled down by a configuration

Statuses == {"Open", "Frozen", "Closed"}

VARIABLES
    registered,         \* the keys of the account map
    balance,            \* balance of each account, 0 until registered
    status              \* status of each account

book == <<registered, balance, status>>

(* perform_debit and perform_credit succeed exactly when ... *)
CanDebit(id, a) ==
    /\ id \in registered
    /\ a > 0
    /\ status[id] = "Open"
    /\ a <= balance[id]

CanCredit(id, a) ==
    /\ id \in registered
    /\ a > 0
    /\ status[id] = "Open"
    /\ balance[id] + a <= I64Max

Debit(id, a) ==
    /\ CanDebit(id, a)
    /\ balance' = [balance EXCEPT ![id] = @ - a]
    /\ UNCHANGED <<registered, status>>

Credit(id, a) ==
    /\ CanCredit(id, a)
    /\ balance' = [balance EXCEPT ![id] = @ + a]
    /\ UNCHANGED <<registered, status>>

SetStatus(id, new) ==
    /\ id \in registered
    /\ \/ status[id] \in {"Open", "Frozen"} /\ new = "Closed"
       \/ status[id] = "Open" /\ new = "Frozen"
       \/ status[id] = "Frozen" /\ new = "Open"
    /\ status' = [status EXCEPT ![id] = new]
    /\ UNCHANGED <<registered, balance>>

Register(id, initial) ==
    /\ id \notin registered
    /\ registered' = registered \cup {id}
    /\ balance' = [balance EXCEPT ![id] = initial]
    /\ status' = [status EXCEPT ![id] = "Open"]
=============================================================================
