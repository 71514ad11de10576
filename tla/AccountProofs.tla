---------------------------- MODULE AccountProofs ----------------------------
(***************************************************************************)
(* Proofs about Account.tla for any number of threads, any word size, any  *)
(* amounts and any initial balance.                                        *)
(***************************************************************************)
EXTENDS Account, TotalsProofs

USE ThreadsAssumption, WidthAssumption, AmountsAssumption, OpsAssumption,
    InitialAssumption

(* What a thread between two of its atomic accesses knows: its amount was  *)
(* validated, and the value its CAS expects was checked against it.        *)
LocalOK ==
    \A t \in Threads :
        /\ pc[t] # "idle" => amt[t] \in Amounts /\ amt[t] > 0
        /\ pc[t] \in {"debit_cas", "hold_cas"} => amt[t] <= seen[t]
        /\ pc[t] \in {"credit_cas", "credit_avail_cas", "release_cas"}
             => seen[t] + amt[t] <= I64Max

CoreInv == TypeOK /\ LocalOK /\ NeverOverdrawn

(* A new account is well-typed and no call is in progress. *)
LEMMA CoreInit == Init => CoreInv
<1> SUFFICES ASSUME Init PROVE CoreInv
  OBVIOUS
<1>1. raced \in BOOLEAN
  BY Zenon DEF Init
<1>2. /\ balance = InitialBalance /\ available = InitialBalance /\ status = "Open"
      /\ pc = [t \in Threads |-> "idle"]
      /\ amt = [t \in Threads |-> 0] /\ seen = [t \in Threads |-> 0]
  BY Zenon DEF Init
<1> QED
  BY <1>1, <1>2 DEF CoreInv, TypeOK, LocalOK, NeverOverdrawn, Floor, I64, I64Min,
         Labels, Statuses

(* Every atomic access of the four operations keeps it so. *)
LEMMA CoreStep == CoreInv /\ [Next]_vars => CoreInv'
<1> SUFFICES ASSUME CoreInv, [Next]_vars PROVE CoreInv'
  OBVIOUS
<1> USE DEF CoreInv, TypeOK, LocalOK, NeverOverdrawn, Floor, I64, I64Min,
        Labels, InWindow
<1>1. CASE UNCHANGED vars
  BY <1>1 DEF vars
<1>2. ASSUME NEW new \in Statuses, SetStatus(new) PROVE CoreInv'
  BY <1>2 DEF SetStatus, Statuses
<1>3. ASSUME NEW t \in Threads, NEW op \in Ops, NEW a \in Amounts, Start(t, op, a)
      PROVE  CoreInv'
  <2>1. Entry(op) \in {"debit_load", "credit_load", "hold_load", "release_load"}
    BY DEF Entry, Operations
  <2> QED BY <1>3, <2>1 DEF Start, GoTo
<1>4. ASSUME NEW t \in Threads, Step(t) PROVE CoreInv'
  <2> USE DEF GoTo, Return
  <2>1. CASE DebitLoad(t)        BY <2>1 DEF DebitLoad
  <2>2. CASE DebitCas(t)
    <3>1. raced' \in BOOLEAN
      BY <2>2, Zenon DEF DebitCas
    <3>2. /\ pc[t] = "debit_cas"
          /\ \/ available' = seen[t] - amt[t] /\ pc' = [pc EXCEPT ![t] = "debit_sub"]
             \/ available' = available /\ pc' = [pc EXCEPT ![t] = "debit_load"]
          /\ UNCHANGED <<balance, status, amt, seen>>
      BY <2>2, Zenon DEF DebitCas
    <3> QED BY <3>1, <3>2
  <2>3. CASE DebitSub(t)         BY <2>3 DEF DebitSub, WrappingSub
  <2>4. CASE CreditLoad(t)       BY <2>4 DEF CreditLoad
  <2>5. CASE CreditCas(t)        BY <2>5 DEF CreditCas
  <2>6. CASE CreditAvailLoad(t)  BY <2>6 DEF CreditAvailLoad
  <2>7. CASE CreditAvailCas(t)   BY <2>7 DEF CreditAvailCas
  <2>8. CASE HoldLoad(t)         BY <2>8 DEF HoldLoad
  <2>9. CASE HoldCas(t)          BY <2>9 DEF HoldCas
  <2>10. CASE ReleaseLoad(t)     BY <2>10 DEF ReleaseLoad
  <2>11. CASE ReleaseBalance(t)
    <3>1. raced' \in BOOLEAN
      BY <2>11, Zenon DEF ReleaseBalance
    <3>2. /\ pc[t] = "release_balance"
          /\ \/ /\ pc' = [pc EXCEPT ![t] = "idle"]
                /\ amt' = [amt EXCEPT ![t] = 0] /\ seen' = [seen EXCEPT ![t] = 0]
             \/ /\ seen[t] + amt[t] <= I64Max
                /\ pc' = [pc EXCEPT ![t] = "release_cas"]
                /\ amt' = amt /\ seen' = seen
          /\ UNCHANGED <<balance, available, status>>
      BY <2>11, Zenon DEF ReleaseBalance
    <3> QED BY <3>1, <3>2
  <2>12. CASE ReleaseCas(t)      BY <2>12 DEF ReleaseCas
  <2> QED
    BY <1>4, <2>1, <2>2, <2>3, <2>4, <2>5, <2>6, <2>7, <2>8, <2>9, <2>10,
       <2>11, <2>12 DEF Step
<1> QED
  BY <1>1, <1>2, <1>3, <1>4 DEF Next

(* The core invariant holds throughout. *)
LEMMA CoreAlways == Spec => []CoreInv
  BY CoreInit, CoreStep, PTL DEF Spec

(* Type correctness: the two atomics stay within the word, whatever the    *)
(* threads do.                                                             *)
THEOREM TypeCorrect == Spec => []TypeOK
<1>1. CoreInv => TypeOK
  BY DEF CoreInv
<1> QED
  BY <1>1, CoreAlways, PTL

(* No interleaving of debits, credits, holds and releases overdraws the    *)
(* available funds.                                                        *)
THEOREM AvailableNeverOverdrawn == Spec => []NeverOverdrawn
<1>1. CoreInv => NeverOverdrawn
  BY DEF CoreInv
<1> QED
  BY <1>1, CoreAlways, PTL

-----------------------------------------------------------------------------
(* The labels a thread can be at, by what the callers are allowed to call. *)
HoldLabels == {"idle", "hold_load", "hold_cas"}
ReleaseLabels == {"release_load", "release_balance", "release_cas"}

Quiet ==
    \A t \in Threads :
        /\ "release_hold" \notin Ops => pc[t] \notin ReleaseLabels
        /\ Ops \subseteq {"place_hold", "release_hold"}
             => pc[t] \in HoldLabels \cup ReleaseLabels

(* The sum of what the calls in progress owe. *)
Owed == Total(Threads, Pending)

(* A step of thread t changes only the share of t. *)
LEMMA OwedChange ==
  ASSUME TypeOK, TypeOK', NEW t \in Threads,
         \A s \in Threads \ {t} : pc'[s] = pc[s] /\ amt'[s] = amt[s]
  PROVE  /\ Owed \in Nat
         /\ Owed' \in Nat
         /\ Owed' = Owed - Pending[t] + Pending'[t]
         /\ Pending'[t] <= Owed'
<1>1. Pending \in [Threads -> Nat] /\ Pending' \in [Threads -> Nat]
  BY DEF TypeOK, Pending
<1>2. \A s \in Threads \ {t} : Pending'[s] = Pending[s]
  BY DEF Pending
<1>3. Owed' = Total(Threads, Pending')
  BY DEF Owed
<1>4. Owed \in Nat
  BY <1>1, TotalType DEF Owed
<1>5. Owed' \in Nat /\ Pending'[t] <= Owed'
  BY <1>1, <1>3, TotalType
<1>6. Total(Threads, Pending') = Total(Threads, Pending) - Pending[t] + Pending'[t]
  BY <1>1, <1>2, TotalChange
<1> QED
  BY <1>3, <1>4, <1>5, <1>6 DEF Owed

(* A step that leaves every thread's share alone. *)
LEMMA OwedSame ==
  ASSUME TypeOK, UNCHANGED <<pc, amt>>
  PROVE  Owed' = Owed /\ Owed \in Nat
<1>1. Pending \in [Threads -> Nat] /\ Pending' = Pending
  BY DEF TypeOK, Pending
<1> QED
  BY <1>1, TotalType DEF Owed

(* The two values the atomic account sees, and what a step may do to them. *)
Settled == balance - Owed

(* The check of release_hold still holds when its CAS runs, unless a debit *)
(* or credit was half done at the check or a debit has begun since.        *)
ReleaseChecked ==
    \A t \in Threads :
        pc[t] = "release_cas" => seen[t] + amt[t] <= Settled

FundsInv == CoreInv /\ (raced \/ ReleaseChecked) /\ HeldNonNegative

DebitEffect(a) ==
    a <= available /\ Settled' = Settled - a /\ available' = available - a
CreditEffect(a) ==
    Settled + a <= I64Max /\ Settled' = Settled + a /\ available' = available + a
HoldEffect(a) ==
    a <= available /\ Settled' = Settled /\ available' = available - a
ReleaseEffect(a) ==
    available + a <= Settled /\ Settled' = Settled /\ available' = available + a
NoEffect == Settled' = Settled /\ available' = available

Effect(t) ==
    \/ NoEffect
    \/ DebitEffect(amt[t])
    \/ CreditEffect(amt[t])
    \/ HoldEffect(amt[t])
    \/ ReleaseEffect(amt[t])

(* A race is not forgotten. *)
LEMMA RacedStays ==
  ASSUME NEW t \in Threads, Step(t), ~ raced'
  PROVE  ~ raced
  BY DEF Step, DebitLoad, DebitCas, DebitSub, CreditLoad, CreditCas,
         CreditAvailLoad, CreditAvailCas, HoldLoad, HoldCas, ReleaseLoad,
         ReleaseBalance, ReleaseCas

(* Each atomic access of a thread either does nothing the atomic account   *)
(* would notice or is the one step at which the operation takes effect.    *)
LEMMA StepEffect ==
  ASSUME ~ raced', FundsInv, CoreInv', NEW t \in Threads, Step(t)
  PROVE  /\ Effect(t) /\ Settled \in Int /\ Settled' \in Int
         /\ Settled' < Settled => \A u \in Threads : pc[u] # "release_cas"
<1>0. ~ raced
  BY RacedStays
<1> DEFINE own == Pending[t]
           ownN == Pending'[t]
<1>1. \A s \in Threads \ {t} : pc'[s] = pc[s] /\ amt'[s] = amt[s]
  BY DEF Step, DebitLoad, DebitCas, DebitSub, CreditLoad, CreditCas,
         CreditAvailLoad, CreditAvailCas, HoldLoad, HoldCas, ReleaseLoad,
         ReleaseBalance, ReleaseCas, GoTo, Return, FundsInv, CoreInv, TypeOK
<1>2. /\ Owed \in Nat
      /\ Owed' \in Nat
      /\ Owed' = Owed - own + ownN
      /\ ownN <= Owed'
  BY <1>1, OwedChange DEF FundsInv, CoreInv
<1>3. /\ own = IF pc[t] \in InWindow THEN amt[t] ELSE 0
      /\ ownN = IF pc'[t] \in InWindow THEN amt'[t] ELSE 0
  BY DEF Pending
<1>4. /\ balance \in Int /\ available \in Int
      /\ balance' \in Int /\ available' \in Int
      /\ balance <= I64Max /\ balance' <= I64Max
      /\ available >= I64Min
      /\ amt[t] \in Nat /\ seen[t] \in Int /\ I64Max \in Nat /\ I64Min \in Int
      /\ balance - available - Owed >= 0
      /\ pc \in [Threads -> Labels] /\ amt \in [Threads -> 0 .. I64Max]
  <2>1. balance - available - Owed >= 0
    BY <1>0 DEF FundsInv, HeldNonNegative, Held, Owed
  <2> QED BY <2>1 DEF FundsInv, CoreInv, TypeOK, I64, I64Min
<1> HIDE DEF own, ownN
<1>5. Settled = balance - Owed /\ Settled' = balance' - Owed'
  BY DEF Settled
<1>6. Settled \in Int /\ Settled' \in Int
  BY <1>2, <1>4, <1>5
<1> USE <1>2, <1>3, <1>4, <1>5 DEF GoTo, Return, InWindow
<1>11. ASSUME DebitLoad(t) PROVE Effect(t)
  BY <1>11 DEF DebitLoad, Effect, NoEffect
<1>12. ASSUME DebitCas(t) PROVE Effect(t)
  <2>1. /\ pc[t] = "debit_cas" /\ amt' = amt /\ balance' = balance
        /\ \/ /\ available = seen[t] /\ available' = seen[t] - amt[t]
              /\ pc' = [pc EXCEPT ![t] = "debit_sub"]
           \/ available' = available /\ pc' = [pc EXCEPT ![t] = "debit_load"]
    BY <1>12, Zenon DEF DebitCas
  <2> QED
    BY <2>1 DEF Effect, NoEffect, DebitEffect, FundsInv, CoreInv, LocalOK
<1>13. ASSUME DebitSub(t) PROVE Effect(t)
  <2>1. own = amt[t] /\ ownN = 0 /\ available' = available
    BY <1>13 DEF DebitSub
  <2>2. balance' = balance - amt[t]
    BY <1>13, <2>1 DEF DebitSub, WrappingSub
  <2> QED BY <2>1, <2>2 DEF Effect, NoEffect
<1>14. ASSUME CreditLoad(t) PROVE Effect(t)
  BY <1>14 DEF CreditLoad, Effect, NoEffect
<1>15. ASSUME CreditCas(t) PROVE Effect(t)
  <2>1. own = 0 /\ available' = available
    BY <1>15 DEF CreditCas
  <2>2. \/ balance' = balance + amt[t] /\ ownN = amt[t]
        \/ balance' = balance /\ ownN = 0
    BY <1>15 DEF CreditCas
  <2> QED BY <2>1, <2>2 DEF Effect, NoEffect
<1>16. ASSUME CreditAvailLoad(t) PROVE Effect(t)
  BY <1>16 DEF CreditAvailLoad, Effect, NoEffect
<1>17. ASSUME CreditAvailCas(t) PROVE Effect(t)
  BY <1>17 DEF CreditAvailCas, Effect, NoEffect, CreditEffect
<1>18. ASSUME HoldLoad(t) PROVE Effect(t)
  BY <1>18 DEF HoldLoad, Effect, NoEffect
<1>19. ASSUME HoldCas(t) PROVE Effect(t)
  BY <1>19 DEF HoldCas, Effect, NoEffect, HoldEffect, FundsInv, CoreInv, LocalOK
<1>20. ASSUME ReleaseLoad(t) PROVE Effect(t)
  BY <1>20 DEF ReleaseLoad, Effect, NoEffect
<1>21. ASSUME ReleaseBalance(t) PROVE Effect(t)
  BY <1>21 DEF ReleaseBalance, Effect, NoEffect
<1>22. ASSUME ReleaseCas(t) PROVE Effect(t)
  BY <1>0, <1>22 DEF ReleaseCas, Effect, NoEffect, ReleaseEffect, FundsInv,
                     ReleaseChecked
<1>23. Effect(t)
  BY <1>11, <1>12, <1>13, <1>14, <1>15, <1>16, <1>17, <1>18, <1>19, <1>20,
     <1>21, <1>22 DEF Step
<1>24. ASSUME Settled' < Settled PROVE \A u \in Threads : pc[u] # "release_cas"
  <2>1. CASE DebitCas(t)
    <3>1. CASE raced' = (raced \/ \E u \in Threads : pc[u] = "release_cas")
      BY <3>1, Zenon
    <3>2. CASE /\ pc[t] = "debit_cas" /\ amt' = amt /\ balance' = balance
               /\ pc' = [pc EXCEPT ![t] = "debit_load"]
      BY <1>24, <3>2
    <3> QED BY <2>1, <3>1, <3>2, Zenon DEF DebitCas
  <2>2. ASSUME ~ DebitCas(t) PROVE FALSE
    <3>1. CASE DebitSub(t)
      <4>1. own = amt[t] /\ ownN = 0
        BY <3>1 DEF DebitSub
      <4>2. balance' = balance - amt[t]
        BY <3>1, <4>1 DEF DebitSub, WrappingSub
      <4> QED BY <1>24, <4>1, <4>2
    <3>2. CASE CreditCas(t)
      <4>1. \/ own = 0 /\ balance' = balance + amt[t] /\ ownN = amt[t]
            \/ own = 0 /\ balance' = balance /\ ownN = 0
        BY <3>2 DEF CreditCas
      <4> QED BY <1>24, <4>1
    <3>3. CASE CreditAvailCas(t) \/ CreditAvailLoad(t)
      BY <1>24, <3>3 DEF CreditAvailCas, CreditAvailLoad
    <3>4. CASE DebitLoad(t) \/ CreditLoad(t) \/ HoldLoad(t) \/ HoldCas(t)
      BY <1>24, <3>4 DEF DebitLoad, CreditLoad, HoldLoad, HoldCas
    <3>5. CASE ReleaseLoad(t) \/ ReleaseBalance(t) \/ ReleaseCas(t)
      BY <1>24, <3>5 DEF ReleaseLoad, ReleaseBalance, ReleaseCas
    <3> QED BY <2>2, <3>1, <3>2, <3>3, <3>4, <3>5 DEF Step
  <2> QED BY <2>1, <2>2
<1> QED
  BY <1>6, <1>23, <1>24

-----------------------------------------------------------------------------
(* A new account has nothing on hold. *)
LEMMA FundsInit == Init => FundsInv
<1> SUFFICES ASSUME Init PROVE FundsInv
  OBVIOUS
<1>1. CoreInv
  BY CoreInit
<1>2. Pending = [t \in Threads |-> 0]
  BY DEF Init, Pending, InWindow
<1>3. Held >= 0
  BY <1>2, TotalZero DEF Init, Held, I64, I64Min
<1> QED
  BY <1>1, <1>3 DEF Init, FundsInv, ReleaseChecked, HeldNonNegative

(* A step that only admits a call or changes the status. *)
LEMMA AdmissionEffect ==
  ASSUME CoreInv, CoreInv',
         \/ UNCHANGED vars
         \/ \E new \in Statuses : SetStatus(new)
         \/ \E t \in Threads, op \in Ops, a \in Amounts : Start(t, op, a)
  PROVE  NoEffect /\ Settled \in Int
<1>1. CASE UNCHANGED vars \/ \E new \in Statuses : SetStatus(new)
  <2>1. UNCHANGED <<pc, amt, balance, available>>
    BY <1>1 DEF vars, SetStatus
  <2>2. Owed' = Owed /\ Owed \in Nat
    BY <2>1, OwedSame DEF CoreInv
  <2> QED BY <2>1, <2>2 DEF NoEffect, Settled, CoreInv, TypeOK, I64, I64Min
<1>2. ASSUME NEW t \in Threads, NEW op \in Ops, NEW a \in Amounts, Start(t, op, a)
      PROVE  NoEffect /\ Settled \in Int
  <2>1. /\ \A s \in Threads \ {t} : pc'[s] = pc[s] /\ amt'[s] = amt[s]
        /\ balance' = balance /\ available' = available
    BY <1>2 DEF Start, GoTo, CoreInv, TypeOK
  <2>2. pc[t] \notin InWindow /\ pc'[t] \notin InWindow
    BY <1>2 DEF Start, GoTo, Entry, Operations, InWindow, CoreInv, TypeOK
  <2>3. Pending[t] = 0 /\ Pending'[t] = 0
    BY <2>2 DEF Pending
  <2>4. Owed \in Nat /\ Owed' = Owed - Pending[t] + Pending'[t]
    BY <2>1, OwedChange DEF CoreInv
  <2> QED
    BY <2>1, <2>3, <2>4 DEF NoEffect, Settled, CoreInv, TypeOK, I64, I64Min
<1> QED
  BY <1>1, <1>2

(* Held is the part of the settled balance that is not available, before   *)
(* and after a step.                                                       *)
LEMMA HeldSettled ==
  /\ TypeOK => Held = Settled - available
  /\ TypeOK' => Held' = Settled' - available'
<1>1. ASSUME TypeOK PROVE Held = Settled - available
  <2>1. Pending \in [Threads -> Nat]
    BY <1>1 DEF TypeOK, Pending
  <2>2. Owed \in Nat
    BY <2>1, TotalType DEF Owed
  <2> QED BY <1>1, <2>2 DEF Held, Settled, Owed, TypeOK, I64, I64Min
<1>2. ASSUME TypeOK' PROVE Held' = Settled' - available'
  <2>1. Pending' \in [Threads -> Nat]
    BY <1>2 DEF TypeOK, Pending
  <2>2. Owed' \in Nat
    BY <2>1, TotalType DEF Owed
  <2> QED BY <1>2, <2>2 DEF Held, Settled, Owed, TypeOK, I64, I64Min
<1> QED
  BY <1>1, <1>2

(* The check of a release stays good until a race. *)
LEMMA ReleaseCheckedStep ==
  ASSUME FundsInv, CoreInv', ~ raced', NEW t \in Threads, Step(t)
  PROVE  ReleaseChecked'
<1>1. /\ Settled \in Int /\ Settled' \in Int
      /\ Settled' < Settled => \A u \in Threads : pc[u] # "release_cas"
  BY StepEffect
<1>2. ~ raced
  BY RacedStays
<1>3. SUFFICES ASSUME NEW u \in Threads, pc'[u] = "release_cas"
               PROVE  seen'[u] + amt'[u] <= Settled'
  BY DEF ReleaseChecked
<1> USE DEF FundsInv, CoreInv, TypeOK, I64, I64Min
<1>4. CASE pc[u] = "release_cas" /\ seen'[u] = seen[u] /\ amt'[u] = amt[u]
  <2>1. seen[u] + amt[u] <= Settled
    BY <1>2, <1>4 DEF ReleaseChecked
  <2>2. seen[u] \in Int /\ amt[u] \in Int
    OBVIOUS
  <2> QED BY <1>1, <1>4, <2>1, <2>2
<1>5. ASSUME ~ (pc[u] = "release_cas" /\ seen'[u] = seen[u] /\ amt'[u] = amt[u])
      PROVE  ReleaseBalance(t) /\ u = t
  BY <1>3, <1>5 DEF Step, DebitLoad, DebitCas, DebitSub, CreditLoad, CreditCas,
         CreditAvailLoad, CreditAvailCas, HoldLoad, HoldCas, ReleaseLoad,
         ReleaseBalance, ReleaseCas, GoTo, Return
<1>6. CASE ReleaseBalance(t) /\ u = t
  <2>1. /\ seen'[u] + amt'[u] <= balance /\ balance' = balance
        /\ \A v \in Threads : pc[v] \notin InWindow
        /\ pc' = [pc EXCEPT ![u] = "release_cas"]
    BY <1>3, <1>6 DEF ReleaseBalance, GoTo, Return
  <2>2. \A v \in Threads : pc'[v] \notin InWindow
    BY <2>1 DEF InWindow
  <2>3. Pending' = [v \in Threads |-> 0]
    BY <2>2 DEF Pending
  <2>4. Owed' = 0
    BY <2>3, TotalZero DEF Owed
  <2> QED BY <2>1, <2>4 DEF Settled
<1> QED
  BY <1>4, <1>5, <1>6

(* Until a race no step of any operation makes the funds on hold negative. *)
LEMMA FundsStep == FundsInv /\ [Next]_vars => FundsInv'
<1> SUFFICES ASSUME FundsInv, [Next]_vars PROVE FundsInv'
  OBVIOUS
<1>1. CoreInv'
  BY CoreStep DEF FundsInv
<1>2. CASE raced'
  BY <1>1, <1>2 DEF FundsInv, HeldNonNegative
<1>3. ASSUME ~ raced', NEW t \in Threads, Step(t) PROVE FundsInv'
  <2>1. ~ raced
    BY <1>3, RacedStays
  <2>2. Settled - available >= 0
    BY <2>1, HeldSettled DEF FundsInv, HeldNonNegative, CoreInv
  <2>3. available \in Int /\ amt[t] \in Nat
    BY DEF FundsInv, CoreInv, TypeOK, I64, I64Min
  <2>4. Effect(t) /\ Settled \in Int /\ Settled' \in Int
    BY <1>1, <1>3, StepEffect
  <2>5. Settled' - available' >= 0
    BY <2>2, <2>3, <2>4 DEF Effect, NoEffect, DebitEffect, CreditEffect,
                            HoldEffect, ReleaseEffect
  <2>6. ReleaseChecked'
    BY <1>1, <1>3, ReleaseCheckedStep
  <2> QED
    BY <1>1, <2>5, <2>6, HeldSettled DEF FundsInv, HeldNonNegative, CoreInv
<1>4. ASSUME ~ raced',
             \/ UNCHANGED vars
             \/ \E new \in Statuses : SetStatus(new)
             \/ \E t \in Threads, op \in Ops, a \in Amounts : Start(t, op, a)
      PROVE  FundsInv'
  <2>1. ~ raced
    BY <1>4 DEF vars, SetStatus, Start
  <2>2. Settled - available >= 0 /\ ReleaseChecked
    BY <2>1, HeldSettled DEF FundsInv, HeldNonNegative, CoreInv
  <2>3. NoEffect /\ Settled \in Int
    BY <1>1, <1>4, AdmissionEffect DEF FundsInv
  <2>4. \A u \in Threads : pc'[u] = "release_cas" =>
            pc[u] = "release_cas" /\ seen'[u] = seen[u] /\ amt'[u] = amt[u]
    <3>1. CASE UNCHANGED vars \/ \E new \in Statuses : SetStatus(new)
      BY <3>1 DEF vars, SetStatus
    <3>2. ASSUME NEW t \in Threads, NEW op \in Ops, NEW a \in Amounts,
                 Start(t, op, a), NEW u \in Threads, pc'[u] = "release_cas"
          PROVE  pc[u] = "release_cas" /\ seen'[u] = seen[u] /\ amt'[u] = amt[u]
      <4>1. Entry(op) # "release_cas"
        BY DEF Entry, Operations
      <4> QED BY <3>2, <4>1 DEF Start, GoTo, FundsInv, CoreInv, TypeOK
    <3> QED BY <1>4, <3>1, <3>2
  <2>5. ReleaseChecked'
    BY <2>2, <2>3, <2>4 DEF ReleaseChecked, NoEffect
  <2>6. Settled' - available' >= 0
    BY <2>2, <2>3 DEF NoEffect
  <2> QED
    BY <1>1, <2>5, <2>6, HeldSettled DEF FundsInv, HeldNonNegative, CoreInv
<1> QED
  BY <1>2, <1>3, <1>4 DEF Next

(* So the funds stay covered throughout. *)
LEMMA FundsAlways == Spec => []FundsInv
  BY FundsInit, FundsStep, PTL DEF Spec

(* All four operations together: until a release_hold meets a half-done    *)
(* debit or credit, no interleaving frees more funds than are on hold.     *)
THEOREM FundsCovered == Spec => []HeldNonNegative
<1>1. FundsInv => HeldNonNegative
  BY DEF FundsInv
<1> QED
  BY <1>1, FundsAlways, PTL

-----------------------------------------------------------------------------
(* Where release_hold is not called, or nothing that moves the balance is, *)
(* the race cannot happen.                                                 *)

(* Callers stay within what they are allowed to call. *)
LEMMA QuietStep == CoreInv /\ Quiet /\ [Next]_vars => Quiet'
<1> SUFFICES ASSUME CoreInv, Quiet, [Next]_vars PROVE Quiet'
  OBVIOUS
<1> USE DEF Quiet, HoldLabels, ReleaseLabels, CoreInv, TypeOK
<1>1. CASE UNCHANGED vars
  BY <1>1 DEF vars
<1>2. ASSUME NEW new \in Statuses, SetStatus(new) PROVE Quiet'
  BY <1>2 DEF SetStatus
<1>3. ASSUME NEW t \in Threads, NEW op \in Ops, NEW a \in Amounts, Start(t, op, a)
      PROVE  Quiet'
  <2>1. CASE op \in {"debit", "credit"}
    BY <1>3, <2>1 DEF Start, GoTo, Entry
  <2>2. CASE op = "place_hold"
    BY <1>3, <2>2 DEF Start, GoTo, Entry
  <2>3. CASE op = "release_hold"
    BY <1>3, <2>3 DEF Start, GoTo, Entry
  <2> QED BY <2>1, <2>2, <2>3 DEF Operations
<1>4. ASSUME NEW t \in Threads, Step(t) PROVE Quiet'
  BY <1>4 DEF Step, DebitLoad, DebitCas, DebitSub, CreditLoad, CreditCas,
         CreditAvailLoad, CreditAvailCas, HoldLoad, HoldCas, ReleaseLoad,
         ReleaseBalance, ReleaseCas, GoTo, Return
<1> QED
  BY <1>1, <1>2, <1>3, <1>4 DEF Next

(* So callers that keep to it never race. *)
LEMMA RaceFree ==
  ASSUME NoReleaseRace
  PROVE  Spec => []~raced
<1>1. Init => Quiet /\ ~ raced
  BY DEF Init, Quiet, HoldLabels, ReleaseLabels
<1>2. CoreInv /\ Quiet /\ ~ raced /\ [Next]_vars => ~ raced'
  <2> SUFFICES ASSUME CoreInv, Quiet, ~ raced, [Next]_vars PROVE ~ raced'
    OBVIOUS
  <2> USE DEF Quiet, NoReleaseRace, HoldLabels, ReleaseLabels, InWindow
  <2>1. CASE UNCHANGED vars
    BY <2>1 DEF vars
  <2>2. CASE \E new \in Statuses : SetStatus(new)
    BY <2>2 DEF SetStatus
  <2>3. CASE \E t \in Threads : \E op \in Ops : \E a \in Amounts : Start(t, op, a)
    BY <2>3 DEF Start
  <2>4. ASSUME NEW t \in Threads, Step(t) PROVE ~ raced'
    <3>1. CASE DebitCas(t)
      BY <3>1 DEF DebitCas
    <3>2. CASE ReleaseBalance(t)
      BY <3>2 DEF ReleaseBalance
    <3> QED
      BY <2>4, <3>1, <3>2 DEF Step, DebitLoad, DebitSub, CreditLoad, CreditCas,
         CreditAvailLoad, CreditAvailCas, HoldLoad, HoldCas, ReleaseLoad, ReleaseCas
  <2> QED BY <2>1, <2>2, <2>3, <2>4 DEF Next
<1> QED
  BY <1>1, <1>2, QuietStep, CoreAlways, PTL DEF Spec

(* Without the race a credit that has raised the balance always completes  *)
(* and the fetch_sub of a debit never wraps.                               *)
THEOREM OperationsComplete ==
  ASSUME NoReleaseRace
  PROVE  Spec => []NoHalfDoneOperation
<1>1. FundsInv /\ ~ raced => NoHalfDoneOperation
  <2> SUFFICES ASSUME FundsInv, ~ raced, NEW t \in Threads, pc[t] \in InWindow
               PROVE  /\ available + amt[t] <= I64Max
                      /\ balance - amt[t] >= I64Min
    BY DEF NoHalfDoneOperation, InWindow
  <2>1. Pending \in [Threads -> Nat] /\ Pending[t] = amt[t]
    BY DEF FundsInv, CoreInv, TypeOK, Pending
  <2>2. Total(Threads, Pending) \in Nat /\ amt[t] <= Total(Threads, Pending)
    BY <2>1, TotalType
  <2>3. available >= I64Min
    BY DEF FundsInv, CoreInv, TypeOK, I64, I64Min
  <2> QED
    BY <2>2, <2>3 DEF FundsInv, CoreInv, TypeOK, HeldNonNegative, Held, I64, I64Min
<1> QED
  BY <1>1, FundsAlways, RaceFree, PTL

(* Without the race the lock-free account implements the atomic one: every *)
(* debit, credit, hold and release appears to take effect at one instant.  *)
THEOREM Linearizable ==
  ASSUME NoReleaseRace
  PROVE  Spec => ImplementsAtomicAccount
<1>1. Init => Abstract!Init
  <2> SUFFICES ASSUME Init PROVE Abstract!Init
    OBVIOUS
  <2>1. Pending = [t \in Threads |-> 0]
    BY DEF Init, Pending, InWindow
  <2> QED
    BY <2>1, TotalZero DEF Init, Abstract!Init, I64, I64Min
<1>2. FundsInv /\ FundsInv' /\ ~ raced' /\ [Next]_vars => [Abstract!Next]_Abstract!vars
  <2> SUFFICES ASSUME FundsInv, FundsInv', ~ raced', [Next]_vars
               PROVE  Abstract!Next \/ UNCHANGED Abstract!vars
    OBVIOUS
  <2>1. ASSUME NEW t \in Threads, Step(t), ~ NoEffect PROVE Abstract!Next
    <3>1. Effect(t)
      BY <2>1, StepEffect DEF FundsInv
    <3>2. pc[t] # "idle"
      BY <2>1 DEF Step, DebitLoad, DebitCas, DebitSub, CreditLoad, CreditCas,
         CreditAvailLoad, CreditAvailCas, HoldLoad, HoldCas, ReleaseLoad,
         ReleaseBalance, ReleaseCas
    <3>3. amt[t] \in Amounts /\ amt[t] > 0
      BY <3>2 DEF FundsInv, CoreInv, LocalOK
    <3>4. \/ Abstract!Debit(amt[t])
          \/ Abstract!Credit(amt[t])
          \/ Abstract!PlaceHold(amt[t])
          \/ Abstract!ReleaseHold(amt[t])
      BY <2>1, <3>1, <3>3 DEF Effect, DebitEffect, CreditEffect, HoldEffect,
         ReleaseEffect, Settled, Owed, Abstract!Debit, Abstract!Credit,
         Abstract!PlaceHold, Abstract!ReleaseHold
    <3> QED
      BY <3>3, <3>4 DEF Abstract!Next
  <2>2. ASSUME NoEffect PROVE UNCHANGED Abstract!vars
    BY <2>2 DEF NoEffect, Settled, Owed, Abstract!vars
  <2>3. ASSUME ~ \E t \in Threads : Step(t) PROVE NoEffect
    BY <2>3, AdmissionEffect DEF Next, FundsInv
  <2> QED
    BY <2>1, <2>2, <2>3
<1> QED
  BY <1>1, <1>2, FundsAlways, RaceFree, PTL DEF Spec, ImplementsAtomicAccount, Abstract!Spec
=============================================================================
