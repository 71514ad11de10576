----------------------------- MODULE TransferApi -----------------------------
(***************************************************************************)
(* The money-moving HTTP handlers of src/src/api/mod.rs, run concurrently  *)
(* by the server's worker threads over one AppState.  No handler awaits    *)
(* between its steps, but each step takes and drops a lock of its own, so  *)
(* the steps of two requests interleave.  A request the circuit breaker    *)
(* or the rate limiter refuses changes nothing here and is not modelled;   *)
(* responses, metrics and persistence are left out.                        *)
(*                                                                         *)
(* History variables: booked is the money brought in from outside less     *)
(* the money taken out; lost and minted are the amounts the handlers       *)
(* reported in a CRITICAL log line when they gave up half-way.  The fields *)
(* out and in of a journal entry name the account its handler takes money  *)
(* from and the one it gives money to.                                     *)
(***************************************************************************)
EXTENDS Journal, AccountBook

CONSTANTS
    Threads,            \* worker threads
    Amounts,            \* amount_cents of requests, non-positive ones too
    InitialBalances,    \* initial_balance_cents of create_account
    MaxRequests,        \* bound on transfer and reversal requests
    NoEntry             \* the value of entry for a thread without request

ASSUME ApiAssumption ==
    /\ IsFiniteSet(Threads)
    /\ IsFiniteSet(Ids)
    /\ I64Max \in Nat
    /\ Amounts \subseteq Int
    /\ InitialBalances \subseteq -I64Max - 1 .. I64Max
    /\ MaxRequests \in Nat

VARIABLES
    journalSeq,         \* Mutex<u64>
    chain,              \* hash chain: the numbers of the entries it records
    journal,            \* RwLock<Vec<JournalEntry>>
    pc,                 \* the step each thread takes next
    entry,              \* the journal entry its request builds
    requests,           \* transfer and reversal requests so far
    booked, lost, minted

audit == <<journalSeq, chain, journal>>
history == <<booked, lost, minted>>
vars == <<registered, balance, status, journalSeq, chain, journal, pc, entry,
          requests, booked, lost, minted>>

Legs == [account : Ids, side : {"Debit", "Credit"}, amount : Nat]
Entries ==
    [seq : Nat, reverses : Nat, legs : [1 .. 2 -> Legs], out : Ids, in : Ids]

Labels ==
    {"idle", "seq", "chain", "journal", "debit", "credit", "rollback",
     "reverse_seq", "reverse_leg1", "reverse_leg2", "reverse_chain",
     "reverse_journal"}

Init ==
    /\ registered = {}
    /\ balance = [id \in Ids |-> 0]
    /\ status = [id \in Ids |-> "Open"]
    /\ journalSeq = 0
    /\ chain = <<>>
    /\ journal = <<>>
    /\ pc = [t \in Threads |-> "idle"]
    /\ entry = [t \in Threads |-> NoEntry]
    /\ requests = 0
    /\ booked = 0
    /\ lost = 0
    /\ minted = 0

GoTo(t, label) == pc' = [pc EXCEPT ![t] = label] /\ UNCHANGED entry

Return(t) ==
    /\ pc' = [pc EXCEPT ![t] = "idle"]
    /\ entry' = [entry EXCEPT ![t] = NoEntry]

Begin(t, label, e) ==
    /\ pc[t] = "idle"
    /\ requests < MaxRequests
    /\ requests' = requests + 1
    /\ pc' = [pc EXCEPT ![t] = label]
    /\ entry' = [entry EXCEPT ![t] = e]

-----------------------------------------------------------------------------
(* Handlers whose only effect on this state is one account operation. *)
CreateAccount(id, initial) ==
    /\ Register(id, initial)
    /\ booked' = booked + initial
    /\ UNCHANGED <<audit, pc, entry, requests, lost, minted>>

DebitAccount(id, a) ==
    /\ Debit(id, a)
    /\ booked' = booked - a
    /\ UNCHANGED <<audit, pc, entry, requests, lost, minted>>

CreditAccount(id, a) ==
    /\ Credit(id, a)
    /\ booked' = booked + a
    /\ UNCHANGED <<audit, pc, entry, requests, lost, minted>>

SetAccountStatus(id, new) ==
    /\ SetStatus(id, new)
    /\ UNCHANGED <<audit, pc, entry, requests, history>>

-----------------------------------------------------------------------------
(* transfer: the source account must exist, the destination is not looked  *)
(* up.  The journal debits the destination and credits the source.         *)
TransferEntry(from, to, a) ==
    [seq |-> 0, reverses |-> 0,
     legs |-> <<DebitLeg(to, a), CreditLeg(from, a)>>,
     out |-> from, in |-> to]

TransferStart(t, from, to, a) ==
    /\ from \in registered
    /\ Begin(t, "seq", TransferEntry(from, to, a))
    /\ UNCHANGED <<book, audit, history>>

(* The number is taken under a lock that is dropped at once; a refused     *)
(* entry (JournalEntry::new) has used one up.                              *)
TakeNumber(t, from, next) ==
    /\ pc[t] = from
    /\ journalSeq' = journalSeq + 1
    /\ \/ /\ IsValidEntry(entry[t].legs)
          /\ pc' = [pc EXCEPT ![t] = next]
          /\ entry' = [entry EXCEPT ![t].seq = journalSeq + 1]
       \/ /\ ~ IsValidEntry(entry[t].legs)
          /\ Return(t)
    /\ UNCHANGED <<book, chain, journal, requests, history>>

(* A mutant of TransferSeq: the entry is not chained. *)
TransferSeqUnchained(t) == TakeNumber(t, "seq", "journal")

TransferSeq(t) == TakeNumber(t, "seq", "chain")

TransferChain(t) ==
    /\ pc[t] = "chain"
    /\ chain' = Append(chain, entry[t].seq)
    /\ GoTo(t, "journal")
    /\ UNCHANGED <<book, journalSeq, journal, requests, history>>

TransferJournal(t) ==
    /\ pc[t] = "journal"
    /\ journal' = Append(journal, entry[t])
    /\ GoTo(t, "debit")
    /\ UNCHANGED <<book, journalSeq, chain, requests, history>>

AmountOf(t) == entry[t].legs[1].amount

TransferDebit(t) ==
    /\ pc[t] = "debit"
    /\ \/ /\ Debit(entry[t].out, AmountOf(t))
          /\ GoTo(t, "credit")
       \/ /\ ~ CanDebit(entry[t].out, AmountOf(t))
          /\ Return(t)
          /\ UNCHANGED book
    /\ UNCHANGED <<audit, requests, history>>

(* A mutant of TransferCredit: no rollback. *)
TransferCreditNoRollback(t) ==
    /\ pc[t] = "credit"
    /\ \/ Credit(entry[t].in, AmountOf(t))
       \/ ~ CanCredit(entry[t].in, AmountOf(t)) /\ UNCHANGED book
    /\ Return(t)
    /\ UNCHANGED <<audit, requests, history>>

TransferCredit(t) ==
    /\ pc[t] = "credit"
    /\ \/ /\ Credit(entry[t].in, AmountOf(t))
          /\ Return(t)
       \/ /\ ~ CanCredit(entry[t].in, AmountOf(t))
          /\ GoTo(t, "rollback")
          /\ UNCHANGED book
    /\ UNCHANGED <<audit, requests, history>>

TransferRollback(t) ==
    /\ pc[t] = "rollback"
    /\ \/ /\ Credit(entry[t].out, AmountOf(t))
          /\ UNCHANGED lost
       \/ /\ ~ CanCredit(entry[t].out, AmountOf(t))   \* CRITICAL
          /\ lost' = lost + AmountOf(t)
          /\ UNCHANGED book
    /\ Return(t)
    /\ UNCHANGED <<audit, requests, booked, minted>>

-----------------------------------------------------------------------------
(* reverse_journal_entry: any journaled entry, as often as requested.      *)
ReversalEntry(original) ==
    LET legs == ReverseLegs(original.legs)
        On(side) == legs[IF legs[1].side = side THEN 1 ELSE 2].account
    IN  [seq |-> 0, reverses |-> original.seq, legs |-> legs,
         out |-> On("Debit"), in |-> On("Credit")]

ReverseStart(t, k) ==
    /\ k \in DOMAIN journal
    /\ Begin(t, "reverse_seq", ReversalEntry(journal[k]))
    /\ UNCHANGED <<book, audit, history>>

ReverseSeq(t) == TakeNumber(t, "reverse_seq", "reverse_leg1")

(* Debit legs are debited and credit legs credited. *)
LegSucceeds(leg) ==
    \/ leg.side = "Debit" /\ Debit(leg.account, leg.amount)
    \/ leg.side = "Credit" /\ Credit(leg.account, leg.amount)

LegFails(leg) ==
    \/ leg.side = "Debit" /\ ~ CanDebit(leg.account, leg.amount)
    \/ leg.side = "Credit" /\ ~ CanCredit(leg.account, leg.amount)

ReverseLeg1(t) ==
    /\ pc[t] = "reverse_leg1"
    /\ \/ /\ LegSucceeds(entry[t].legs[1])
          /\ GoTo(t, "reverse_leg2")
       \/ /\ LegFails(entry[t].legs[1])
          /\ Return(t)
          /\ UNCHANGED book
    /\ UNCHANGED <<audit, requests, history>>

(* A second leg that fails leaves the first one applied. *)
ReverseLeg2(t) ==
    /\ pc[t] = "reverse_leg2"
    /\ \/ /\ LegSucceeds(entry[t].legs[2])
          /\ GoTo(t, "reverse_chain")
          /\ UNCHANGED <<lost, minted>>
       \/ /\ LegFails(entry[t].legs[2])               \* CRITICAL
          /\ IF entry[t].legs[1].side = "Debit"
             THEN lost' = lost + AmountOf(t) /\ UNCHANGED minted
             ELSE minted' = minted + AmountOf(t) /\ UNCHANGED lost
          /\ Return(t)
          /\ UNCHANGED book
    /\ UNCHANGED <<audit, requests, booked>>

ReverseChain(t) ==
    /\ pc[t] = "reverse_chain"
    /\ chain' = Append(chain, entry[t].seq)
    /\ GoTo(t, "reverse_journal")
    /\ UNCHANGED <<book, journalSeq, journal, requests, history>>

ReverseJournal(t) ==
    /\ pc[t] = "reverse_journal"
    /\ journal' = Append(journal, entry[t])
    /\ Return(t)
    /\ UNCHANGED <<book, journalSeq, chain, requests, history>>

-----------------------------------------------------------------------------
Step(t) ==
    \/ TransferSeq(t)   \/ TransferChain(t)  \/ TransferJournal(t)
    \/ TransferDebit(t) \/ TransferCredit(t) \/ TransferRollback(t)
    \/ ReverseSeq(t)    \/ ReverseLeg1(t)    \/ ReverseLeg2(t)
    \/ ReverseChain(t)  \/ ReverseJournal(t)

Next ==
    \/ \E id \in Ids, initial \in InitialBalances : CreateAccount(id, initial)
    \/ \E id \in Ids, a \in Amounts : DebitAccount(id, a)
    \/ \E id \in Ids, a \in Amounts : CreditAccount(id, a)
    \/ \E id \in Ids, new \in Statuses : SetAccountStatus(id, new)
    \/ \E t \in Threads, from, to \in Ids, a \in Amounts : TransferStart(t, from, to, a)
    \/ \E t \in Threads, k \in DOMAIN journal : ReverseStart(t, k)
    \/ \E t \in Threads : Step(t)

Spec == Init /\ [][Next]_vars

-----------------------------------------------------------------------------
(* The type invariant. *)
TypeOK ==
    /\ registered \subseteq Ids
    /\ balance \in [Ids -> -I64Max - 1 .. I64Max]
    /\ status \in [Ids -> Statuses]
    /\ journalSeq \in Nat
    /\ chain \in Seq(Nat)
    /\ journal \in Seq(Entries)
    /\ pc \in [Threads -> Labels]
    /\ entry \in [Threads -> Entries \cup {NoEntry}]
    /\ requests \in Nat
    /\ booked \in Int /\ lost \in Nat /\ minted \in Nat

(* Money a request has taken and not yet given, and given and not yet taken. *)
Taken ==
    [t \in Threads |->
        IF \/ pc[t] \in {"credit", "rollback"}
           \/ pc[t] = "reverse_leg2" /\ entry[t].legs[1].side = "Debit"
        THEN AmountOf(t) ELSE 0]
Given ==
    [t \in Threads |->
        IF pc[t] = "reverse_leg2" /\ entry[t].legs[1].side = "Credit"
        THEN AmountOf(t) ELSE 0]

(* No money appears or disappears unreported: whatever transfers,          *)
(* rollbacks, reversals, withdrawals, deposits and status changes          *)
(* interleave, the balances and the money in transit add up to what was    *)
(* booked, except for the amounts a CRITICAL line has reported after a     *)
(* failed rollback or a half-applied reversal.                             *)
MoneyConserved ==
    NetTotal(Ids, balance) + Total(Threads, Taken) + lost
        = booked + Total(Threads, Given) + minted

Journaled(s) == \E k \in DOMAIN journal : journal[k].seq = s

(* The audit trail is complete: a transfer is in the journal before it     *)
(* touches a balance ("journal-first principle"), every journaled entry is *)
(* in the hash chain, and an entry is in the hash chain only if it is in   *)
(* the journal too or its request is just about to put it there; no entry  *)
(* is chained twice.                                                       *)
AuditTrailComplete ==
    /\ \A t \in Threads :
         pc[t] \in {"debit", "credit", "rollback"} => Journaled(entry[t].seq)
    /\ \A k \in DOMAIN journal : \E i \in DOMAIN chain : chain[i] = journal[k].seq
    /\ \A i \in DOMAIN chain :
         \/ Journaled(chain[i])
         \/ \E t \in Threads : /\ pc[t] \in {"journal", "reverse_journal"}
                               /\ entry[t].seq = chain[i]
    /\ \A i, j \in DOMAIN chain : chain[i] = chain[j] => i = j

=============================================================================
