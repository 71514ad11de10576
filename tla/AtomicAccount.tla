---------------------------- MODULE AtomicAccount ----------------------------
(***************************************************************************)
(* What a ledger account promises its callers about funds: every debit,    *)
(* credit, place_hold and release_hold takes effect in one indivisible     *)
(* step on the pair <<balance, available>>, never overdraws the available  *)
(* funds, never releases more than is held and never exceeds the largest   *)
(* representable amount.  Account.tla, the lock-free code of               *)
(* src/src/domain/account.rs, is checked and proved to implement this.     *)
(***************************************************************************)
EXTENDS Integers

CONSTANTS
    Amounts,            \* the amounts callers pass, in cents
    InitialBalance,     \* the balance the account is created with
    Largest             \* the largest representable amount

VARIABLES
    balance,            \* funds booked on the account
    available           \* funds neither spent nor on hold

vars == <<balance, available>>

Init ==
    /\ balance = InitialBalance
    /\ available = InitialBalance

Debit(a) ==
    /\ a > 0
    /\ a <= available
    /\ balance' = balance - a
    /\ available' = available - a

Credit(a) ==
    /\ a > 0
    /\ balance + a <= Largest
    /\ balance' = balance + a
    /\ available' = available + a

PlaceHold(a) ==
    /\ a > 0
    /\ a <= available
    /\ available' = available - a
    /\ UNCHANGED balance

ReleaseHold(a) ==
    /\ a > 0
    /\ available + a <= balance
    /\ available' = available + a
    /\ UNCHANGED balance

Next ==
    \E a \in Amounts : Debit(a) \/ Credit(a) \/ PlaceHold(a) \/ ReleaseHold(a)

Spec == Init /\ [][Next]_vars
=============================================================================
