---------------------------- MODULE LedgerService ----------------------------
(***************************************************************************)
(* The double-entry orchestration of src/src/service/ledger_service.rs     *)
(* under concurrent callers.  An entry is validated and appended under the *)
(* journal's write lock, in one step; its legs are then applied to the     *)
(* accounts one after the other, without that lock; last, the transaction  *)
(* is marked committed.  A leg that fails ends the call where it stands.   *)
(* `applied' counts, for each journal entry, the legs applied so far: it   *)
(* is the loop variable of the caller while the call runs and a history    *)
(* of what was done afterwards; `failed' has the entries whose call ended  *)
(* in an error after they were appended.                                   *)
(***************************************************************************)
EXTENDS Journal, AccountBook

CONSTANTS
    Threads,            \* callers
    Txns,               \* transaction identifiers
    NoTxn,              \* none of them
    LegLists,           \* the lists of legs record_entry is called with
    Opening,            \* opening balance of each registered account
    MaxSequence         \* bound on sequence_counter

(* EntryLeg: an account that need not exist, a side and an amount that       *)
(* EntryLeg::debit and EntryLeg::credit keep from being negative.          *)
Legs == [account : Ids, side : {"Debit", "Credit"}, amount : Nat]

ASSUME LedgerAssumption ==
    /\ IsFiniteSet(Ids)
    /\ NoTxn \notin Txns
    /\ LegLists \subseteq Seq(Legs)
    /\ I64Max \in Nat
    /\ MaxSequence \in Nat
    /\ DOMAIN Opening \subseteq Ids
    /\ \A id \in DOMAIN Opening : Opening[id] \in -I64Max - 1 .. I64Max

VARIABLES
    journal,            \* the append-only entries
    sequenceCounter,    \* the last number next_sequence handed out
    applied,            \* per entry: how many of its legs were applied
    failed,             \* the entries one of whose legs failed
    txns,               \* status of each transaction, "Absent" if not begun
    pc,                 \* "idle", "record", "found" or "reverse"
    entry,              \* the journal index the caller works on, 0 when idle
    reversal            \* the transaction of a reversal being prepared

vars == <<registered, balance, status, journal, sequenceCounter, applied, failed,
          txns, pc, entry, reversal>>

Init ==
    /\ registered = DOMAIN Opening
    /\ balance = [id \in Ids |-> IF id \in DOMAIN Opening THEN Opening[id] ELSE 0]
    /\ status = [id \in Ids |-> "Open"]
    /\ journal = <<>>
    /\ sequenceCounter = 0
    /\ applied = <<>>
    /\ failed = {}
    /\ txns = [x \in Txns |-> "Absent"]
    /\ pc = [t \in Threads |-> "idle"]
    /\ entry = [t \in Threads |-> 0]
    /\ reversal = [t \in Threads |-> NoTxn]

Return(t) ==
    /\ pc' = [pc EXCEPT ![t] = "idle"]
    /\ entry' = [entry EXCEPT ![t] = 0]
    /\ reversal' = [reversal EXCEPT ![t] = NoTxn]

(* Journal::next_sequence and Journal::append, both under the write lock. *)
AppendEntry(t, txn, legs, reverses, next) ==
    /\ sequenceCounter' = sequenceCounter + 1
    /\ journal' = Append(journal, [seq |-> sequenceCounter + 1, txn |-> txn,
                                   legs |-> legs, reverses |-> reverses])
    /\ applied' = Append(applied, 0)
    /\ pc' = [pc EXCEPT ![t] = next]
    /\ entry' = [entry EXCEPT ![t] = Len(journal) + 1]
    /\ reversal' = [reversal EXCEPT ![t] = NoTxn]

-----------------------------------------------------------------------------
BeginTransaction(x) ==
    /\ txns[x] = "Absent"
    /\ txns' = [txns EXCEPT ![x] = "Pending"]
    /\ UNCHANGED <<book, journal, sequenceCounter, applied, failed, pc, entry, reversal>>

(* record_entry up to the end of its first block; record_transfer calls it *)
(* with TransferLegs.  A refused list of legs has used up a number.        *)
RecordEntry(t, x, legs) ==
    /\ pc[t] = "idle"
    /\ sequenceCounter < MaxSequence
    /\ \/ /\ IsValidEntry(legs)
          /\ AppendEntry(t, x, legs, 0, "record")
       \/ /\ ~ IsValidEntry(legs)
          /\ sequenceCounter' = sequenceCounter + 1
          /\ UNCHANGED <<journal, applied, pc, entry, reversal>>
    /\ UNCHANGED <<book, failed, txns>>

TransferLegs(from, to, amount) == <<DebitLeg(from, amount), CreditLeg(to, amount)>>

(* A mutant of ApplyLeg: a leg that fails is logged and passed over. *)
ApplyLegSkipping(t) ==
    LET k   == entry[t]
        leg == journal[k].legs[applied[k] + 1]
        Try(Can(_, _), Do(_, _)) ==
            \/ Do(leg.account, leg.amount)
            \/ ~ Can(leg.account, leg.amount) /\ UNCHANGED book
    IN  /\ pc[t] \in {"record", "reverse"}
        /\ applied[k] < Len(journal[k].legs)
        /\ \/ leg.side = "Debit" /\ Try(CanDebit, Debit)
           \/ leg.side = "Credit" /\ Try(CanCredit, Credit)
        /\ applied' = [applied EXCEPT ![k] = @ + 1]
        /\ UNCHANGED <<journal, sequenceCounter, failed, txns, pc, entry, reversal>>

(* One turn of the loop over the legs: the account is looked up and debited *)
(* or credited, or the call returns its error.                              *)
ApplyLeg(t) ==
    LET k   == entry[t]
        leg == journal[k].legs[applied[k] + 1]
        Try(Can(_, _), Do(_, _)) ==
            \/ /\ Do(leg.account, leg.amount)
               /\ applied' = [applied EXCEPT ![k] = @ + 1]
               /\ UNCHANGED <<failed, pc, entry, reversal>>
            \/ /\ ~ Can(leg.account, leg.amount)
               /\ failed' = failed \cup {k}
               /\ Return(t)
               /\ UNCHANGED <<book, applied>>
    IN  /\ pc[t] \in {"record", "reverse"}
        /\ applied[k] < Len(journal[k].legs)
        /\ \/ leg.side = "Debit" /\ Try(CanDebit, Debit)
           \/ leg.side = "Credit" /\ Try(CanCredit, Credit)
        /\ UNCHANGED <<journal, sequenceCounter, txns>>

AllApplied(k) == applied[k] = Len(journal[k].legs)

(* A mutant of CommitTransaction: committed before the legs are applied. *)
CommitEarly(t) ==
    LET x == journal[entry[t]].txn
    IN  /\ pc[t] = "record"
        /\ txns' = [txns EXCEPT ![x] = Commit(@)]
        /\ Return(t)
        /\ UNCHANGED <<book, journal, sequenceCounter, applied, failed>>

(* Transaction::commit changes a pending transaction only; one that was     *)
(* never begun is not in the map.                                           *)
CommitTransaction(t) ==
    LET x == journal[entry[t]].txn
    IN  /\ pc[t] = "record"
        /\ AllApplied(entry[t])
        /\ txns' = [txns EXCEPT ![x] = Commit(@)]
        /\ Return(t)
        /\ UNCHANGED <<book, journal, sequenceCounter, applied, failed>>

(* reverse_entry: look the entry up and begin a transaction of its own.  The *)
(* entry is immutable and the transaction new, so nobody can tell these two  *)
(* steps apart.                                                              *)
ReverseFind(t, k, x) ==
    /\ pc[t] = "idle"
    /\ sequenceCounter < MaxSequence
    /\ k \in DOMAIN journal
    /\ txns[x] = "Absent"
    /\ txns' = [txns EXCEPT ![x] = "Pending"]
    /\ pc' = [pc EXCEPT ![t] = "found"]
    /\ entry' = [entry EXCEPT ![t] = k]
    /\ reversal' = [reversal EXCEPT ![t] = x]
    /\ UNCHANGED <<book, journal, sequenceCounter, applied, failed>>

ReverseAppend(t) ==
    LET k    == entry[t]
        legs == ReverseLegs(journal[k].legs)
    IN  /\ pc[t] = "found"
        /\ IF IsValidEntry(legs)
           THEN AppendEntry(t, reversal[t], legs, k, "reverse")
           ELSE /\ sequenceCounter' = sequenceCounter + 1
                /\ Return(t)
                /\ UNCHANGED <<journal, applied>>
        /\ UNCHANGED <<book, failed, txns>>

ReverseDone(t) ==
    /\ pc[t] = "reverse"
    /\ AllApplied(entry[t])
    /\ Return(t)
    /\ UNCHANGED <<book, journal, sequenceCounter, applied, failed, txns>>

(* Somebody else freezes, reopens or closes an account. *)
ChangeStatus(id, new) ==
    /\ SetStatus(id, new)
    /\ UNCHANGED <<journal, sequenceCounter, applied, failed, txns, pc, entry, reversal>>

Next ==
    \/ \E x \in Txns : BeginTransaction(x)
    \/ \E t \in Threads, x \in Txns, legs \in LegLists : RecordEntry(t, x, legs)
    \/ \E t \in Threads : ApplyLeg(t)
    \/ \E t \in Threads : CommitTransaction(t)
    \/ \E t \in Threads, k \in 1 .. MaxSequence, x \in Txns : ReverseFind(t, k, x)
    \/ \E t \in Threads : ReverseAppend(t)
    \/ \E t \in Threads : ReverseDone(t)
    \/ \E id \in Ids, new \in Statuses : ChangeStatus(id, new)

Spec == Init /\ [][Next]_vars

-----------------------------------------------------------------------------
Report(id) == TrialBalance(journal, id, I64Max)

(* The journal is sound whatever the callers do at the same time: the      *)
(* audit of validate_all has nothing to report, numbers only grow, with    *)
(* gaps where an entry was refused (next_sequence), a reversal mirrors an  *)
(* entry recorded before it (JournalEntry::reverse), and the trial balance *)
(* over all accounts is even unless one of its columns has saturated.      *)
JournalSound ==
    /\ ValidateAll(journal) = {}
    /\ \A k \in DOMAIN journal :
          /\ journal[k].seq <= sequenceCounter
          /\ k > 1 => journal[k - 1].seq < journal[k].seq
          /\ LET r == journal[k].reverses
             IN  r # 0 => r < k /\ journal[r].legs = ReverseLegs(journal[k].legs)
    /\ \/ \E id \in Ids : I64Max \in {Report(id).debits, Report(id).credits}
       \/ Total(Ids, [id \in Ids |-> Report(id).debits])
             = Total(Ids, [id \in Ids |-> Report(id).credits])

(* A call is still applying the legs of entry k. *)
Working(k) == \E t \in Threads : pc[t] \in {"record", "reverse"} /\ entry[t] = k

Names(k, id) == \E i \in DOMAIN journal[k].legs : journal[k].legs[i].account = id

(* What the journal says was moved on an account. *)
Recorded(id, side) == MovedOn(journal, LegPositions(journal), id, side)

(* Balances follow from the journal.  However calls interleave, an account *)
(* holds its opening balance plus the credits and minus the debits of all  *)
(* the entries that name it, unless one of them is still being applied or  *)
(* ended in an error, the divergence record_entry warns of: no leg is      *)
(* applied twice, passed over, or lost to another caller's.                *)
BalancesFollowJournal ==
    \A id \in registered :
        (\A k \in DOMAIN journal : Names(k, id) => ~ Working(k) /\ k \notin failed)
        => balance[id] = Opening[id] + Recorded(id, "Credit") - Recorded(id, "Debit")

(* An entry is applied as a whole or not at all ("Atomic: either both      *)
(* succeed, or both fail with rollback", the head of the file, and         *)
(* "Debits `from_account`, credits `to_account`. Atomic." of               *)
(* record_transfer).  The code has no rollback: a leg that fails leaves    *)
(* the ones before it applied.                                             *)
EntriesAtomic ==
    \A k \in DOMAIN journal :
        Working(k) \/ applied[k] \in {0, Len(journal[k].legs)}

(* A committed transaction has an entry all of whose legs were applied: a  *)
(* failed leg never leads to a commit, not even of another caller's entry  *)
(* under the same transaction.                                             *)
CommittedMeansApplied ==
    \A x \in Txns :
        txns[x] = "Committed" =>
            \E k \in DOMAIN journal :
                journal[k].txn = x /\ journal[k].reverses = 0 /\ AllApplied(k)

=============================================================================
