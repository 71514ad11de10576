------------------------------ MODULE Waiting ------------------------------
(***************************************************************************)
(* The two condition-variable monitors of src/src/service/concurrency.rs:  *)
(* TransferCondition, where a debit waits for the funds it needs, and      *)
(* FairTransferQueue.  A section under the mutex is one step.  The condvar *)
(* is external: wait gives up the mutex and sleeps, notify_one wakes any   *)
(* one sleeper, and a sleeper may also wake without being notified.        *)
(* Amounts are positive, which the monitor leaves to its callers: debiting *)
(* a negative amount would add funds and notify nobody.                    *)
(***************************************************************************)
EXTENDS Integers, Sequences, FiniteSets

CONSTANTS Waiters,      \* threads that may block in a monitor
          Wants,        \* amounts debited and credited
          CreditLimit,  \* i64::MAX
          MaxCredits, MaxRequests

ASSUME WaitingAssumption ==
    IsFiniteSet(Waiters) /\ Wants \subseteq Nat \ {0} /\ CreditLimit \in Nat

VARIABLES balance, poisoned, credits,
          want,         \* thread -> the amount its call waits for, 0 outside a call
          asleep, awake,\* threads in a call: blocked in wait / about to look again
          passedOver,   \* sleepers a notify_one did not choose, since they fell asleep
          queue, enqueued, taken,
          queueAsleep, queueAwake

condVars == <<balance, poisoned, credits, want, asleep, awake, passedOver>>
queueVars == <<queue, enqueued, taken, queueAsleep, queueAwake>>

CondInit ==
    /\ balance = 0 /\ poisoned = FALSE /\ credits = 0
    /\ want = [t \in Waiters |-> 0]
    /\ asleep = {} /\ awake = {} /\ passedOver = {}

---------------------------------------------------------------------------
\* wait_and_debit calls lock().unwrap(): it panics once the mutex is poisoned.
WaitAndDebit(t, amount) ==
    /\ ~poisoned /\ want[t] = 0
    /\ want' = [want EXCEPT ![t] = amount]
    /\ awake' = awake \cup {t}
    /\ UNCHANGED <<balance, poisoned, credits, asleep, passedOver>>

\* The while loop: debit when the funds are there, sleep when they are not.
CheckFunds(t) ==
    /\ t \in awake
    /\ awake' = awake \ {t}
    /\ IF poisoned \/ balance >= want[t]
       THEN /\ balance' = IF poisoned THEN balance ELSE balance - want[t]
            /\ want' = [want EXCEPT ![t] = 0]
            /\ UNCHANGED asleep
       ELSE /\ asleep' = asleep \cup {t}
            /\ UNCHANGED <<balance, want>>
    /\ UNCHANGED <<poisoned, credits, passedOver>>

SpuriousWakeup(t) ==
    /\ t \in asleep
    /\ asleep' = asleep \ {t} /\ awake' = awake \cup {t}
    /\ passedOver' = passedOver \ {t}
    /\ UNCHANGED <<balance, poisoned, credits, want>>

\* A credit beyond i64::MAX panics with the mutex locked, which poisons it.
CreditOverflows(amount) ==
    /\ ~poisoned /\ credits < MaxCredits /\ balance + amount > CreditLimit
    /\ credits' = credits + 1
    /\ poisoned' = TRUE
    /\ UNCHANGED <<balance, want, asleep, awake, passedOver>>

Credited(amount) ==
    /\ ~poisoned /\ credits < MaxCredits /\ balance + amount <= CreditLimit
    /\ credits' = credits + 1
    /\ balance' = balance + amount

\* Mutant: notify_all left out.
CreditSilently(amount) ==
    /\ Credited(amount)
    /\ UNCHANGED <<poisoned, want, asleep, awake, passedOver>>

CreditAndNotify(amount) ==
    /\ Credited(amount)
    /\ awake' = awake \cup asleep /\ asleep' = {} /\ passedOver' = {}
    /\ UNCHANGED <<poisoned, want>>

CreditAndNotifyOne(amount) ==
    /\ Credited(amount)
    /\ \/ /\ asleep = {}
          /\ UNCHANGED <<asleep, awake, passedOver>>
       \/ \E t \in asleep :
             /\ asleep' = asleep \ {t} /\ awake' = awake \cup {t}
             /\ passedOver' = (passedOver \cup asleep) \ {t}
    /\ UNCHANGED <<poisoned, want>>

CondNext ==
    \/ \E t \in Waiters, a \in Wants : WaitAndDebit(t, a)
    \/ \E t \in Waiters : CheckFunds(t) \/ SpuriousWakeup(t)
    \/ \E a \in Wants : CreditOverflows(a) \/ CreditAndNotify(a) \/ CreditAndNotifyOne(a)

---------------------------------------------------------------------------
QueueInit ==
    /\ queue = <<>> /\ enqueued = 0 /\ taken = <<>>
    /\ queueAsleep = {} /\ queueAwake = {}

\* enqueue: push_back, then notify_one.
Enqueue ==
    /\ enqueued < MaxRequests
    /\ enqueued' = enqueued + 1
    /\ queue' = Append(queue, enqueued + 1)
    /\ \/ /\ queueAsleep = {}
          /\ UNCHANGED <<queueAsleep, queueAwake>>
       \/ \E t \in queueAsleep : /\ queueAsleep' = queueAsleep \ {t}
                                 /\ queueAwake' = queueAwake \cup {t}
    /\ UNCHANGED taken

\* dequeue_wait: a new call takes the lock like an awakened one.
DequeueWait(t) ==
    /\ t \notin queueAsleep \cup queueAwake
    /\ queueAwake' = queueAwake \cup {t}
    /\ UNCHANGED <<queue, enqueued, taken, queueAsleep>>

TakeOrSleep(t) ==
    /\ t \in queueAwake
    /\ queueAwake' = queueAwake \ {t}
    /\ IF queue = <<>>
       THEN queueAsleep' = queueAsleep \cup {t} /\ UNCHANGED <<queue, taken>>
       ELSE /\ taken' = Append(taken, Head(queue)) /\ queue' = Tail(queue)
            /\ UNCHANGED queueAsleep
    /\ UNCHANGED enqueued

QueueWakeup(t) ==
    /\ t \in queueAsleep
    /\ queueAsleep' = queueAsleep \ {t} /\ queueAwake' = queueAwake \cup {t}
    /\ UNCHANGED <<queue, enqueued, taken>>

QueueNext ==
    \/ Enqueue
    \/ \E t \in Waiters : DequeueWait(t) \/ TakeOrSleep(t) \/ QueueWakeup(t)

WaitingSpec ==
    /\ CondInit /\ QueueInit
    /\ [][\/ CondNext /\ UNCHANGED queueVars
          \/ QueueNext /\ UNCHANGED condVars]_<<condVars, queueVars>>

---------------------------------------------------------------------------
(***************************************************************************)
(* Nobody sleeps through the event it waits for.  A debit sleeps on funds  *)
(* that are there only if a credit_and_notify_one woke another thread      *)
(* instead, the price of that call; and while consumers sleep, every       *)
(* request in the queue has a consumer that is awake and will look.        *)
(***************************************************************************)
NobodySleepsThrough ==
    /\ \A t \in asleep : want[t] <= balance => t \in passedOver
    /\ queueAsleep # {} => Len(queue) <= Cardinality(queueAwake)
    /\ taken \o queue = [i \in 1 .. enqueued |-> i]
=============================================================================
