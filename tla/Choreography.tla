----------------------------- MODULE Choreography -----------------------------
(***************************************************************************)
(* The choreographed transfer of src/src/service/choreography.rs and the   *)
(* view of src/src/service/distributed_state.rs that follows it.  The      *)
(* services only have handlers; what carries their events is not in the    *)
(* repository and may deliver an event late, again and in any order.  The  *)
(* account service handles events on several threads and reads and writes  *)
(* its maps in separate steps.  Timestamps are the ticks of one clock; an  *)
(* amount is any number, since no code looks at its sign; RefundInitiated  *)
(* has no consumer.                                                        *)
(*                                                                         *)
(* History: refunds, the refunds of each transfer; applied, the events the *)
(* projector has seen; overlapped, whether two handlers had one account or *)
(* one transfer at once.                                                   *)
(***************************************************************************)
EXTENDS Integers, FiniteSets, Totals

CONSTANTS
    Transfers, From, To, Amount,
    Seeds,              \* seeded accounts with their balances
    Handlers,           \* threads of the account service
    MaxDeliveries       \* bound on deliveries to the account service

ASSUME ChoreographyAssumption ==
    /\ IsFiniteSet(Transfers) /\ MaxDeliveries \in Nat
    /\ Amount \in [Transfers -> Int]
    /\ IsFiniteSet(DOMAIN Seeds) /\ Seeds \in [DOMAIN Seeds -> Int]

VARIABLES
    balances, processedDebits, processedCredits,
    states,             \* of the transaction service
    view,               \* of the projector: status, stamp and count
    bus,                \* events published so far
    clock,
    work,               \* the handler each thread is in
    deliveries,
    refunds, applied, overlapped

accountVars == <<balances, processedDebits, processedCredits>>
choreoVars == <<balances, processedDebits, processedCredits, states, view, bus, clock, work,
                deliveries, refunds, applied, overlapped>>

Idle == [at |-> "idle"]

ChoreoInit ==
    /\ balances = Seeds
    /\ processedDebits = {} /\ processedCredits = {}
    /\ states = [x \in {} |-> "Initiated"]
    /\ view = [x \in {} |-> Idle]
    /\ bus = {}
    /\ clock = 0
    /\ work = [t \in Handlers |-> Idle]
    /\ deliveries = 0
    /\ refunds = [x \in Transfers |-> 0]
    /\ applied = {}
    /\ overlapped = FALSE

Put(f, x, v) == [y \in DOMAIN f \cup {x} |-> IF y = x THEN v ELSE f[y]]

Emit(type, x) ==
    /\ clock' = clock + 1
    /\ bus' = bus \cup {[type |-> type, transfer |-> x, at |-> clock + 1]}

-----------------------------------------------------------------------------
(* ChoreographyTransactionService: every handler writes its state. *)
InitiateTransfer(x) ==
    /\ x \notin DOMAIN states
    /\ states' = Put(states, x, "Initiated")
    /\ Emit("Initiated", x)
    /\ UNCHANGED <<accountVars, view, work, deliveries, refunds, applied, overlapped>>

StateAfter == [Debited |-> "Debited", Credited |-> "Completed",
               DebitFailed |-> "Failed", CreditFailed |-> "Failed"]

HandleOutcome(e) ==
    /\ e \in bus /\ e.type \in DOMAIN StateAfter
    /\ states' = Put(states, e.transfer, StateAfter[e.type])
    /\ UNCHANGED <<accountVars, view, bus, clock, work, deliveries, refunds, applied, overlapped>>

-----------------------------------------------------------------------------
(* TransactionStateProjector::apply of the event of the same change. *)
Status == [Initiated |-> "Initiated", Debited |-> "FundsReserved", Credited |-> "Completed",
           DebitFailed |-> "Failed", CreditFailed |-> "Failed"]

(* Mutant: the time of the event is not looked at. *)
ApplyEventAlways(e) ==
    /\ e \in bus
    /\ view' = Put(view, e.transfer, [status |-> Status[e.type], at |-> e.at])
    /\ applied' = applied \cup {e}
    /\ UNCHANGED <<accountVars, states, bus, clock, work, deliveries, refunds, overlapped>>

ApplyEvent(e) ==
    /\ e \in bus
    /\ view' = IF e.transfer \in DOMAIN view /\ e.at <= view[e.transfer].at THEN view
               ELSE Put(view, e.transfer, [status |-> Status[e.type], at |-> e.at])
    /\ applied' = applied \cup {e}
    /\ UNCHANGED <<accountVars, states, bus, clock, work, deliveries, refunds, overlapped>>

-----------------------------------------------------------------------------
(* ChoreographyAccountService. *)
Touched(t) ==
    IF work[t] = Idle THEN {}
    ELSE {work[t].account, work[t].transfer, From[work[t].transfer]}

Deliver(t, e) ==
    /\ work[t] = Idle /\ deliveries < MaxDeliveries
    /\ deliveries' = deliveries + 1
    /\ e \in bus
    /\ UNCHANGED <<accountVars, states, view, refunds, applied>>

Begin(t, e, account) ==
    /\ work' = [work EXCEPT ![t] = [at |-> "read", type |-> e.type, transfer |-> e.transfer,
                                    account |-> account, balance |-> 0]]
    /\ overlapped' =
          (overlapped \/ \E u \in Handlers \ {t} :
                            Touched(u) \cap {account, e.transfer, From[e.transfer]} # {})
    /\ UNCHANGED <<bus, clock>>

Again(type, x) == Emit(type, x) /\ UNCHANGED <<work, overlapped>>

(* Mutant: no transfer counts as debited. *)
HandleTransferInitiatedAgain(t, e) ==
    /\ e.type = "Initiated"
    /\ Deliver(t, e)
    /\ Begin(t, e, From[e.transfer])

HandleTransferInitiated(t, e) ==
    /\ e.type = "Initiated"
    /\ Deliver(t, e)
    /\ IF e.transfer \in processedDebits THEN Again("Debited", e.transfer)
       ELSE Begin(t, e, From[e.transfer])

HandleAccountDebited(t, e) ==
    /\ e.type = "Debited"
    /\ Deliver(t, e)
    /\ IF e.transfer \in processedCredits THEN Again("Credited", e.transfer)
       ELSE Begin(t, e, To[e.transfer])

HandlerDone(t) == work' = [work EXCEPT ![t] = Idle]
Keep == UNCHANGED <<states, view, deliveries, applied, overlapped>>

Refund(x) ==
    /\ balances' = IF From[x] \in DOMAIN balances
                   THEN [balances EXCEPT ![From[x]] = @ + Amount[x]] ELSE balances
    /\ refunds' = [refunds EXCEPT ![x] = @ + 1]

(* Mutant: the refund is answered as a credit. *)
ReadCreditAnyway(t) ==
    LET w == work[t] known == w.account \in DOMAIN balances
    IN  /\ w.at = "read" /\ w.type = "Debited"
        /\ \/ /\ known
              /\ work' = [work EXCEPT ![t].at = "write",
                                      ![t].balance = balances[w.account] + Amount[w.transfer]]
              /\ UNCHANGED <<balances, bus, clock, refunds>>
           \/ ~known /\ Refund(w.transfer) /\ Emit("Credited", w.transfer) /\ HandlerDone(t)
        /\ UNCHANGED <<processedDebits, processedCredits>> /\ Keep

(* The destination is read; when it is unknown the debit is refunded. *)
ReadCredit(t) ==
    LET w == work[t] known == w.account \in DOMAIN balances
    IN  /\ w.at = "read" /\ w.type = "Debited"
        /\ \/ /\ known
              /\ work' = [work EXCEPT ![t].at = "write",
                                      ![t].balance = balances[w.account] + Amount[w.transfer]]
              /\ UNCHANGED <<balances, bus, clock, refunds>>
           \/ ~known /\ Refund(w.transfer) /\ Emit("CreditFailed", w.transfer) /\ HandlerDone(t)
        /\ UNCHANGED <<processedDebits, processedCredits>> /\ Keep

ReadDebit(t) ==
    LET w == work[t]
        funds == w.account \in DOMAIN balances /\ balances[w.account] >= Amount[w.transfer]
    IN  /\ w.at = "read" /\ w.type = "Initiated"
        /\ \/ /\ funds
              /\ work' = [work EXCEPT ![t].at = "write",
                                      ![t].balance = balances[w.account] - Amount[w.transfer]]
              /\ UNCHANGED <<bus, clock>>
           \/ ~funds /\ Emit("DebitFailed", w.transfer) /\ HandlerDone(t)
        /\ UNCHANGED <<accountVars, refunds>> /\ Keep

Write(t) ==
    /\ work[t].at = "write"
    /\ balances' = [balances EXCEPT ![work[t].account] = work[t].balance]
    /\ work' = [work EXCEPT ![t].at = "mark"]
    /\ UNCHANGED <<processedDebits, processedCredits, bus, clock, refunds>> /\ Keep

Mark(t) ==
    LET x == work[t].transfer debit == work[t].type = "Initiated"
    IN  /\ work[t].at = "mark"
        /\ processedDebits' = IF debit THEN processedDebits \cup {x} ELSE processedDebits
        /\ processedCredits' = IF debit THEN processedCredits ELSE processedCredits \cup {x}
        /\ Emit(IF debit THEN "Debited" ELSE "Credited", x)
        /\ HandlerDone(t)
        /\ UNCHANGED <<balances, refunds>> /\ Keep

ChoreoNext ==
    \/ \E x \in Transfers : InitiateTransfer(x)
    \/ \E e \in bus :
          \/ HandleOutcome(e) \/ ApplyEvent(e)
          \/ \E t \in Handlers : HandleTransferInitiated(t, e) \/ HandleAccountDebited(t, e)
    \/ \E t \in Handlers : ReadDebit(t) \/ ReadCredit(t) \/ Write(t) \/ Mark(t)

ChoreoSpec == ChoreoInit /\ [][ChoreoNext]_choreoVars

-----------------------------------------------------------------------------
Sum(f) == NetTotal(DOMAIN f, f)

(* What was debited and neither credited nor refunded. *)
Unsettled ==
    [x \in Transfers |->
        IF x \in processedDebits \ processedCredits /\ refunds[x] = 0 THEN Amount[x] ELSE 0]

(* What was refunded more than once. *)
Extra == [x \in Transfers |-> IF refunds[x] > 1 THEN (refunds[x] - 1) * Amount[x] ELSE 0]

(* Between handlers the money of the system is what was seeded, less the   *)
(* transfers that were debited and neither credited nor refunded, plus the *)
(* refunds that a repeated AccountDebited event gave again (RefundedOnce   *)
(* is what the module's header claims of them); it holds for any amounts   *)
(* however events are delayed, reordered and repeated, until two handlers  *)
(* have one account at once.                                               *)
MoneyConserved ==
    ~overlapped /\ (\A t \in Handlers : work[t] = Idle) =>
        Sum(balances) = Sum(Seeds) - Sum(Unsettled) + Sum(Extra)

(* "Every consumer is idempotent via `correlation_id` deduplication": a    *)
(* debit is given back at most once.  The failing branch of the credit     *)
(* marks nothing, so an AccountDebited event that is delivered again is    *)
(* refunded again.                                                         *)
RefundedOnce == \A x \in Transfers : refunds[x] <= 1

(* Accounts that only transfers of amounts of at least zero touch. *)
Sound(a) ==
    Seeds[a] >= 0 /\ \A x \in Transfers : a \in {From[x], To[x]} => Amount[x] >= 0

(* A transfer is reported as completed, by the transaction service or by   *)
(* the view, only when its destination was credited; no account is         *)
(* overdrawn, even when handlers race, as long as no transfer of a         *)
(* negative amount touches it.                                             *)
CompletedMeansCredited ==
    /\ \A x \in DOMAIN states : states[x] = "Completed" => x \in processedCredits
    /\ \A x \in DOMAIN view : view[x].status = "Completed" => x \in processedCredits
    /\ \A a \in DOMAIN balances : Sound(a) => balances[a] >= 0

(* "ignores events older than the current state": in whatever order and    *)
(* how often events reach the projector, it shows the newest it has seen.  *)
ViewIsNewest ==
    \A e \in applied :
        /\ view[e.transfer].at >= e.at
        /\ e.at = view[e.transfer].at => view[e.transfer].status = Status[e.type]
=============================================================================
