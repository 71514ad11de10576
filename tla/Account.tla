------------------------------- MODULE Account -------------------------------
(***************************************************************************)
(* One ledger account, src/src/domain/account.rs, used by several threads  *)
(* at once.  `balance' and `available_balance' are two separate atomics,   *)
(* all accesses SeqCst, so the model interleaves single atomic accesses:   *)
(* each load, each compare_exchange and the fetch_sub is a step.  `status' *)
(* is behind a mutex and is read once, before the CAS loop.  The local     *)
(* variables of a call live in amt and seen and are cleared when the call  *)
(* returns; results and timestamps are left out.                           *)
(***************************************************************************)
EXTENDS Totals

CONSTANTS
    Threads,            \* threads that call the account
    Amounts,            \* the amount_cents they pass, non-positive ones too
    Ops,                \* which of the four operations they call
    InitialBalance,     \* initial_balance_cents
    I64Max              \* i64::MAX, scaled down by a configuration

I64Min == -I64Max - 1
I64 == I64Min .. I64Max

Operations == {"debit", "credit", "place_hold", "release_hold"}
Statuses == {"Open", "Frozen", "Closed"}

ASSUME ThreadsAssumption == IsFiniteSet(Threads)
ASSUME WidthAssumption == I64Max \in Nat \ {0}
ASSUME AmountsAssumption == Amounts \subseteq I64
ASSUME OpsAssumption == Ops \subseteq Operations
ASSUME InitialAssumption == InitialBalance \in I64

VARIABLES
    balance,            \* AtomicI64
    available,          \* AtomicI64 available_balance
    status,             \* Mutex<AccountStatus>
    pc,                 \* where each thread is
    amt,                \* the amount of the call in progress, 0 when idle
    seen,               \* the value the CAS of the loop expects
    raced               \* history: a release_hold has met a half-done call

vars == <<balance, available, status, pc, amt, seen, raced>>

(* Where each operation's loop begins. *)
Entry(op) ==
    CASE op = "debit"        -> "debit_load"
      [] op = "credit"       -> "credit_load"
      [] op = "place_hold"   -> "hold_load"
      [] op = "release_hold" -> "release_load"

(* A debit that has taken the available funds and not yet the balance, and *)
(* a credit that has raised the balance and not yet the available funds.   *)
InWindow == {"debit_sub", "credit_avail_load", "credit_avail_cas"}

Labels ==
    {"idle", "debit_load", "debit_cas", "credit_load", "credit_cas",
     "hold_load", "hold_cas", "release_load", "release_balance",
     "release_cas"} \cup InWindow

(* fetch_sub wraps around; its operands are in range, so one correction is *)
(* enough.                                                                 *)
WrappingSub(x, y) ==
    LET d == x - y IN IF d < I64Min THEN d + 2 * (I64Max + 1) ELSE d

-----------------------------------------------------------------------------
Init ==
    /\ balance = InitialBalance
    /\ available = InitialBalance
    /\ status = "Open"
    /\ pc = [t \in Threads |-> "idle"]
    /\ amt = [t \in Threads |-> 0]
    /\ seen = [t \in Threads |-> 0]
    /\ raced = FALSE

GoTo(t, label) == pc' = [pc EXCEPT ![t] = label]

Return(t) ==
    /\ GoTo(t, "idle")
    /\ amt' = [amt EXCEPT ![t] = 0]
    /\ seen' = [seen EXCEPT ![t] = 0]

(* The mutex makes a status change one step; a refused one changes nothing. *)
SetStatus(new) ==
    /\ \/ status \in {"Open", "Frozen"} /\ new = "Closed"
       \/ status = "Open" /\ new = "Frozen"
       \/ status = "Frozen" /\ new = "Open"
    /\ status' = new
    /\ UNCHANGED <<balance, available, pc, amt, seen, raced>>

(* The checks every operation begins with: the amount, then the status.  A *)
(* call that fails them returns an error and changes nothing.              *)
Start(t, op, a) ==
    /\ pc[t] = "idle"
    /\ a > 0
    /\ status = "Open"
    /\ GoTo(t, Entry(op))
    /\ amt' = [amt EXCEPT ![t] = a]
    /\ UNCHANGED <<balance, available, status, seen, raced>>

-----------------------------------------------------------------------------
DebitLoad(t) ==
    /\ pc[t] = "debit_load"
    /\ \/ /\ available < amt[t]                       \* InsufficientFunds
          /\ Return(t)
       \/ /\ available >= amt[t]
          /\ seen' = [seen EXCEPT ![t] = available]
          /\ GoTo(t, "debit_cas")
          /\ UNCHANGED amt
    /\ UNCHANGED <<balance, available, status, raced>>

(* Mutants of DebitCas: a plain store in place of the compare_exchange, and *)
(* a retry that skips the reload.                                           *)
DebitCasBlind(t) ==
    /\ pc[t] = "debit_cas"
    /\ available' = seen[t] - amt[t]
    /\ GoTo(t, "debit_sub")
    /\ UNCHANGED <<balance, status, amt, seen, raced>>

DebitCasStale(t) ==
    /\ pc[t] = "debit_cas"
    /\ available = seen[t]
    /\ available' = seen[t] - amt[t]
    /\ GoTo(t, "debit_sub")
    /\ UNCHANGED <<balance, status, amt, seen, raced>>

DebitCas(t) ==
    /\ pc[t] = "debit_cas"
    /\ \/ /\ available = seen[t]
          /\ available' = seen[t] - amt[t]
          /\ raced' = (raced \/ \E u \in Threads : pc[u] = "release_cas")
          /\ GoTo(t, "debit_sub")
       \/ /\ available # seen[t]
          /\ GoTo(t, "debit_load")
          /\ UNCHANGED <<available, raced>>
    /\ UNCHANGED <<balance, status, amt, seen>>

DebitSub(t) ==
    /\ pc[t] = "debit_sub"
    /\ balance' = WrappingSub(balance, amt[t])
    /\ Return(t)
    /\ UNCHANGED <<available, status, raced>>

CreditLoad(t) ==
    /\ pc[t] = "credit_load"
    /\ \/ /\ balance + amt[t] > I64Max                \* Overflow
          /\ Return(t)
       \/ /\ balance + amt[t] <= I64Max
          /\ seen' = [seen EXCEPT ![t] = balance]
          /\ GoTo(t, "credit_cas")
          /\ UNCHANGED amt
    /\ UNCHANGED <<balance, available, status, raced>>

(* A mutant of CreditCas: a plain store. *)
CreditCasBlind(t) ==
    /\ pc[t] = "credit_cas"
    /\ balance' = seen[t] + amt[t]
    /\ GoTo(t, "credit_avail_load")
    /\ UNCHANGED <<available, status, amt, seen, raced>>

CreditCas(t) ==
    /\ pc[t] = "credit_cas"
    /\ \/ /\ balance = seen[t]
          /\ balance' = seen[t] + amt[t]
          /\ GoTo(t, "credit_avail_load")
       \/ /\ balance # seen[t]
          /\ GoTo(t, "credit_load")
          /\ UNCHANGED balance
    /\ UNCHANGED <<available, status, amt, seen, raced>>

(* An overflow here returns with the balance already raised. *)
CreditAvailLoad(t) ==
    /\ pc[t] = "credit_avail_load"
    /\ \/ /\ available + amt[t] > I64Max              \* Overflow
          /\ Return(t)
       \/ /\ available + amt[t] <= I64Max
          /\ seen' = [seen EXCEPT ![t] = available]
          /\ GoTo(t, "credit_avail_cas")
          /\ UNCHANGED amt
    /\ UNCHANGED <<balance, available, status, raced>>

CreditAvailCas(t) ==
    /\ pc[t] = "credit_avail_cas"
    /\ \/ /\ available = seen[t]
          /\ available' = seen[t] + amt[t]
          /\ Return(t)
       \/ /\ available # seen[t]
          /\ GoTo(t, "credit_avail_load")
          /\ UNCHANGED <<available, amt, seen>>
    /\ UNCHANGED <<balance, status, raced>>

-----------------------------------------------------------------------------
(* A mutant of HoldLoad: the funds are not checked. *)
HoldLoadUnchecked(t) ==
    /\ pc[t] = "hold_load"
    /\ seen' = [seen EXCEPT ![t] = available]
    /\ GoTo(t, "hold_cas")
    /\ UNCHANGED <<balance, available, status, amt, raced>>

HoldLoad(t) ==
    /\ pc[t] = "hold_load"
    /\ \/ /\ available < amt[t]                       \* InsufficientFunds
          /\ Return(t)
       \/ /\ available >= amt[t]
          /\ seen' = [seen EXCEPT ![t] = available]
          /\ GoTo(t, "hold_cas")
          /\ UNCHANGED amt
    /\ UNCHANGED <<balance, available, status, raced>>

HoldCas(t) ==
    /\ pc[t] = "hold_cas"
    /\ \/ /\ available = seen[t]
          /\ available' = seen[t] - amt[t]
          /\ Return(t)
       \/ /\ available # seen[t]
          /\ GoTo(t, "hold_load")
          /\ UNCHANGED <<available, amt, seen>>
    /\ UNCHANGED <<balance, status, raced>>

ReleaseLoad(t) ==
    /\ pc[t] = "release_load"
    /\ seen' = [seen EXCEPT ![t] = available]
    /\ GoTo(t, "release_balance")
    /\ UNCHANGED <<balance, available, status, amt, raced>>

(* A mutant of ReleaseBalance: the guard against releasing more than is    *)
(* held is missing.                                                        *)
ReleaseBalanceUnguarded(t) ==
    /\ pc[t] = "release_balance"
    /\ seen[t] + amt[t] <= I64Max
    /\ GoTo(t, "release_cas")
    /\ UNCHANGED <<balance, available, status, amt, seen, raced>>

(* Loads the balance, then checks: checked_add, and the guard against      *)
(* releasing more than is held.  A balance loaded while a debit or credit  *)
(* is between its two writes is not one the available funds belong to.     *)
ReleaseBalance(t) ==
    /\ pc[t] = "release_balance"
    /\ \/ /\ \/ seen[t] + amt[t] > I64Max             \* InvalidAmount
             \/ seen[t] + amt[t] > balance            \* ReleaseExceedsHeld
          /\ Return(t)
          /\ UNCHANGED raced
       \/ /\ seen[t] + amt[t] <= I64Max
          /\ seen[t] + amt[t] <= balance
          /\ raced' = (raced \/ \E u \in Threads : pc[u] \in InWindow)
          /\ GoTo(t, "release_cas")
          /\ UNCHANGED <<amt, seen>>
    /\ UNCHANGED <<balance, available, status>>

ReleaseCas(t) ==
    /\ pc[t] = "release_cas"
    /\ \/ /\ available = seen[t]
          /\ available' = seen[t] + amt[t]
          /\ Return(t)
       \/ /\ available # seen[t]
          /\ GoTo(t, "release_load")
          /\ UNCHANGED <<available, amt, seen>>
    /\ UNCHANGED <<balance, status, raced>>

-----------------------------------------------------------------------------
Step(t) ==
    \/ DebitLoad(t)       \/ DebitCas(t)    \/ DebitSub(t)
    \/ CreditLoad(t)      \/ CreditCas(t)
    \/ CreditAvailLoad(t) \/ CreditAvailCas(t)
    \/ HoldLoad(t)        \/ HoldCas(t)
    \/ ReleaseLoad(t)     \/ ReleaseBalance(t)   \/ ReleaseCas(t)

Next ==
    \/ \E new \in Statuses : SetStatus(new)
    \/ \E t \in Threads : \E op \in Ops : \E a \in Amounts : Start(t, op, a)
    \/ \E t \in Threads : Step(t)

Spec == Init /\ [][Next]_vars

(* The operating system keeps running a thread that is inside a call; no   *)
(* caller is obliged to start one or to change the status.                 *)
FairSpec == Spec /\ \A t \in Threads : WF_vars(Step(t))

-----------------------------------------------------------------------------
(* The type invariant. *)
TypeOK ==
    /\ balance \in I64
    /\ available \in I64
    /\ status \in Statuses
    /\ pc \in [Threads -> Labels]
    /\ amt \in [Threads -> 0 .. I64Max]
    /\ seen \in [Threads -> I64]
    /\ raced \in BOOLEAN

(* What a call between its two writes still owes the pair of atomics. *)
Pending == [t \in Threads |-> IF pc[t] \in InWindow THEN amt[t] ELSE 0]

(* The funds on hold, once every call in progress has written both. *)
Held == balance - available - Total(Threads, Pending)

(* An account may be opened with a negative balance; nothing lowers its    *)
(* available funds below that, or below zero.                              *)
Floor == IF InitialBalance < 0 THEN InitialBalance ELSE 0

(* Debits and holds racing each other, and racing credits and releases,    *)
(* never overdraw the available funds: the value the loop loads is the one *)
(* it checks and the one compare_exchange expects.                         *)
NeverOverdrawn == available >= Floor

(* release_hold never frees more than is on hold, so that, apart from what *)
(* the calls in progress still owe, the balance covers the available       *)
(* funds; debit and credit rely on it when they write the two atomics one  *)
(* after the other.  Its guard compares two values loaded one after the    *)
(* other, and is only good for balances at rest: the exceptions are a      *)
(* guard passed while a debit or credit is between its two writes, and a   *)
(* debit that begins between the guard and the compare_exchange (which a   *)
(* second release can then make succeed).  `raced` records both; what they *)
(* do is the violation of AvailableWithinBalance.                          *)
HeldNonNegative == raced \/ Held >= 0

(* A credit that has raised the balance always completes: the overflow     *)
(* exit of its inner loop, which would leave the balance raised and the    *)
(* available funds not, is never taken, and the wrapping fetch_sub of a    *)
(* debit never wraps.                                                      *)
NoHalfDoneOperation ==
    \A t \in Threads :
        /\ pc[t] = "credit_avail_load" => available + amt[t] <= I64Max
        /\ pc[t] = "debit_sub" => balance - amt[t] >= I64Min

(* The available funds never exceed the balance: what the guard of         *)
(* release_hold is there for, by its comment ("Guard: available_balance    *)
(* must not exceed balance (prevents releasing more than was held)").      *)
AvailableWithinBalance == available <= balance

(* Closing takes effect in the end, though not at once: a call reads the   *)
(* status before its CAS loop, so one admitted before the account was      *)
(* closed may still move money; but every such call leaves its loop, and   *)
(* from then on nobody is inside an operation.                             *)
ClosedDrains == status = "Closed" ~> [](\A t \in Threads : pc[t] = "idle")

(* The lock-free account implements the atomic one.  A debit takes effect  *)
(* at its compare_exchange, a credit at the second of its two, so the      *)
(* balance a caller may rely on is the stored one less what the calls in   *)
(* progress still owe.                                                     *)
Abstract == INSTANCE AtomicAccount
    WITH balance <- balance - Total(Threads, Pending), Largest <- I64Max

ImplementsAtomicAccount == Abstract!Spec

(* Interleavings in which release_hold is safe: it is never called, or     *)
(* nothing that moves the balance is.                                      *)
NoReleaseRace ==
    \/ "release_hold" \notin Ops
    \/ Ops \subseteq {"place_hold", "release_hold"}
=============================================================================
