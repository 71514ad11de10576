------------------------- MODULE LedgerServiceProofs -------------------------
(***************************************************************************)
(* The journal, the balances and the transactions of LedgerService.tla,    *)
(* for any number of callers, accounts and transactions and any lists of   *)
(* legs.                                                                   *)
(***************************************************************************)
EXTENDS LedgerService, TotalsProofs

USE LedgerAssumption

JournalEntries == [seq : Nat, txn : Txns, legs : Seq(Legs), reverses : Nat]

(* Every variable has its type, and the accounts are those of the opening. *)
TypeOK ==
    /\ registered = DOMAIN Opening
    /\ balance \in [Ids -> -I64Max - 1 .. I64Max]
    /\ status \in [Ids -> Statuses]
    /\ journal \in Seq(JournalEntries)
    /\ sequenceCounter \in Nat
    /\ applied \in Seq(Nat)
    /\ failed \subseteq Nat
    /\ txns \in [Txns -> {"Absent", "Pending", "Committed"}]
    /\ pc \in [Threads -> {"idle", "record", "found", "reverse"}]
    /\ entry \in [Threads -> Nat]
    /\ reversal \in [Threads -> Txns \cup {NoTxn}]

(* A caller at work holds an entry of the journal, one that reverses       *)
(* nothing when it records, and a transaction when it reverses.  No more   *)
(* legs of an entry are applied than it has.                               *)
InHand ==
    /\ Len(applied) = Len(journal)
    /\ \A k \in DOMAIN journal : applied[k] <= Len(journal[k].legs)
    /\ \A t \in Threads :
         /\ pc[t] # "idle" => entry[t] \in DOMAIN journal
         /\ pc[t] = "record" => journal[entry[t]].reverses = 0
         /\ pc[t] = "found" => reversal[t] \in Txns

CoreInv == TypeOK /\ InHand

(* Nobody is at work at the start. *)
LEMMA CoreInit == Init => CoreInv
<1> SUFFICES ASSUME Init PROVE CoreInv
  OBVIOUS
<1>1. balance \in [Ids -> -I64Max - 1 .. I64Max]
  BY DEF Init
<1>2. journal \in Seq(JournalEntries) /\ applied \in Seq(Nat)
  BY DEF Init
<1> QED
  BY <1>1, <1>2 DEF Init, CoreInv, TypeOK, InHand, Statuses

(* What an entry of the journal is made of. *)
LEMMA EntryParts ==
  ASSUME CoreInv, NEW k \in DOMAIN journal
  PROVE  /\ k \in Nat /\ k >= 1 /\ k \in DOMAIN applied
         /\ journal[k].seq \in Nat /\ journal[k].txn \in Txns
         /\ journal[k].legs \in Seq(Legs) /\ Len(journal[k].legs) \in Nat
         /\ journal[k].reverses \in Nat
         /\ applied[k] \in Nat /\ applied[k] <= Len(journal[k].legs)
<1>1. /\ journal \in Seq(JournalEntries) /\ applied \in Seq(Nat)
      /\ Len(applied) = Len(journal) /\ applied[k] <= Len(journal[k].legs)
  BY DEF CoreInv, TypeOK, InHand
<1>2. journal[k] \in JournalEntries /\ k \in DOMAIN applied /\ k \in Nat /\ k >= 1
  BY <1>1
<1>3. journal[k].legs \in Seq(Legs)
  BY <1>2 DEF JournalEntries
<1> QED
  BY <1>1, <1>2, <1>3 DEF JournalEntries

(* What AppendEntry makes of the journal. *)
LEMMA AppendStep ==
  ASSUME CoreInv, NEW t \in Threads, NEW x \in Txns, NEW legs \in Seq(Legs),
         NEW r \in Nat, NEW next \in {"record", "reverse"},
         next = "record" => r = 0, AppendEntry(t, x, legs, r, next)
  PROVE  LET n == Len(journal) + 1
         IN  /\ Len(journal) \in Nat
             /\ journal' \in Seq(JournalEntries) /\ applied' \in Seq(Nat)
             /\ DOMAIN journal = 1 .. Len(journal) /\ DOMAIN applied = DOMAIN journal
             /\ DOMAIN journal' = 1 .. n /\ DOMAIN applied' = 1 .. n
             /\ \A k \in DOMAIN journal :
                   k \in DOMAIN journal' /\ journal'[k] = journal[k] /\ applied'[k] = applied[k]
             /\ journal'[n].seq = sequenceCounter + 1 /\ journal'[n].txn = x
             /\ journal'[n].legs = legs /\ journal'[n].reverses = r
             /\ applied'[n] = 0
             /\ \A k \in DOMAIN journal' : k \in DOMAIN journal \/ k = n
<1> DEFINE n == Len(journal) + 1
           e == [seq |-> sequenceCounter + 1, txn |-> x, legs |-> legs, reverses |-> r]
<1>1. /\ journal \in Seq(JournalEntries) /\ applied \in Seq(Nat)
      /\ Len(applied) = Len(journal) /\ sequenceCounter \in Nat
  BY DEF CoreInv, TypeOK, InHand
<1>2. /\ e \in JournalEntries
      /\ e.seq = sequenceCounter + 1 /\ e.txn = x /\ e.legs = legs /\ e.reverses = r
  BY <1>1 DEF JournalEntries
<1>3. journal' = Append(journal, e) /\ applied' = Append(applied, 0)
  BY DEF AppendEntry
<1> HIDE DEF e
<1>4. /\ journal' \in Seq(JournalEntries) /\ applied' \in Seq(Nat)
      /\ DOMAIN journal = 1 .. Len(journal) /\ DOMAIN applied = DOMAIN journal
      /\ DOMAIN journal' = 1 .. n /\ DOMAIN applied' = 1 .. n
      /\ \A k \in DOMAIN journal : journal'[k] = journal[k] /\ applied'[k] = applied[k]
      /\ journal'[n] = e /\ applied'[n] = 0
  BY <1>1, <1>2, <1>3
<1>5. Len(journal) \in Nat /\ \A k \in DOMAIN journal' : k \in DOMAIN journal \/ k = n
  BY <1>1, <1>4
<1> QED
  BY <1>2, <1>4, <1>5

(* The legs of a reversal. *)
LEMMA ReverseLegsOK ==
  ASSUME NEW legs \in Seq(Legs)
  PROVE  /\ ReverseLegs(legs) \in Seq(Legs)
         /\ ReverseLegs(ReverseLegs(legs)) = legs
<1> DEFINE Flip(l) == [l EXCEPT !.side = Counterpart(@)]
           R == ReverseLegs(legs)
<1>1. /\ legs \in [1 .. Len(legs) -> Legs] /\ Len(legs) \in Nat
  OBVIOUS
<1>2. ASSUME NEW l \in Legs PROVE Flip(l) \in Legs /\ Flip(Flip(l)) = l
  <2>1. PICK a \in Ids, s \in {"Debit", "Credit"}, m \in Nat :
          l = [account |-> a, side |-> s, amount |-> m]
    BY DEF Legs
  <2>2. \A z : Flip([account |-> a, side |-> z, amount |-> m])
                = [account |-> a, side |-> Counterpart(z), amount |-> m]
    OBVIOUS
  <2>3. Counterpart(s) \in {"Debit", "Credit"} /\ Counterpart(Counterpart(s)) = s
    BY DEF Counterpart
  <2> HIDE DEF Flip
  <2>4. Flip(l) = [account |-> a, side |-> Counterpart(s), amount |-> m]
    BY <2>1, <2>2
  <2>5. Flip(Flip(l)) = l
    BY <2>1, <2>2, <2>3, <2>4
  <2> QED BY <2>3, <2>4, <2>5 DEF Legs
<1>3. R = [i \in 1 .. Len(legs) |-> Flip(legs[i])]
  BY <1>1 DEF ReverseLegs
<1>4. ReverseLegs(R) = [i \in DOMAIN R |-> Flip(R[i])]
  BY DEF ReverseLegs
<1> HIDE DEF R, Flip
<1>5. R \in [1 .. Len(legs) -> Legs]
  BY <1>1, <1>2, <1>3
<1>6. R \in Seq(Legs)
  BY <1>1, <1>5
<1>7. ReverseLegs(R) = [i \in 1 .. Len(legs) |-> Flip(R[i])]
  BY <1>4, <1>5
<1>8. \A i \in 1 .. Len(legs) : Flip(R[i]) = legs[i]
  BY <1>1, <1>2, <1>3
<1>9. ReverseLegs(R) = legs
  BY <1>1, <1>7, <1>8
<1> QED
  BY <1>6, <1>9 DEF R

(* What one turn of the loop over the legs does. *)
LEMMA ApplyLegCases ==
  ASSUME CoreInv, NEW t \in Threads, ApplyLeg(t)
  PROVE  LET k   == entry[t]
             leg == journal[k].legs[applied[k] + 1]
         IN  /\ k \in DOMAIN journal /\ k \in DOMAIN applied
             /\ applied[k] \in Nat /\ applied[k] < Len(journal[k].legs)
             /\ leg \in Legs
             /\ UNCHANGED <<journal, sequenceCounter, txns>>
             /\ \/ /\ \/ leg.side = "Debit" /\ Debit(leg.account, leg.amount)
                      \/ leg.side = "Credit" /\ Credit(leg.account, leg.amount)
                   /\ applied' = [applied EXCEPT ![k] = @ + 1]
                   /\ UNCHANGED <<failed, pc, entry, reversal>>
                \/ Return(t) /\ failed' = failed \cup {k} /\ UNCHANGED <<book, applied>>
<1> DEFINE k == entry[t]
           leg == journal[k].legs[applied[k] + 1]
<1>1. pc[t] \in {"record", "reverse"} /\ applied[k] < Len(journal[k].legs)
  BY DEF ApplyLeg
<1>2. k \in DOMAIN journal /\ k \in DOMAIN applied
  BY <1>1 DEF CoreInv, TypeOK, InHand
<1>3. journal[k].legs \in Seq(Legs) /\ applied[k] \in Nat
  BY <1>2, EntryParts
<1>4. leg \in Legs
  BY <1>1, <1>3
<1>5. /\ UNCHANGED <<journal, sequenceCounter, txns>>
      /\ \/ /\ \/ leg.side = "Debit" /\ Debit(leg.account, leg.amount)
               \/ leg.side = "Credit" /\ Credit(leg.account, leg.amount)
            /\ applied' = [applied EXCEPT ![k] = @ + 1]
            /\ UNCHANGED <<failed, pc, entry, reversal>>
         \/ Return(t) /\ failed' = failed \cup {k} /\ UNCHANGED <<book, applied>>
  BY DEF ApplyLeg
<1> HIDE DEF k, leg
<1> QED
  BY <1>1, <1>2, <1>3, <1>4, <1>5 DEF k, leg

(* The accounts keep their types. *)
BookOK ==
    /\ registered = DOMAIN Opening
    /\ balance \in [Ids -> -I64Max - 1 .. I64Max]
    /\ status \in [Ids -> Statuses]

LEMMA BookStep ==
  ASSUME BookOK, NEW id \in Ids, NEW a \in Int, NEW new \in Statuses,
         \/ UNCHANGED book \/ Debit(id, a) \/ Credit(id, a) \/ SetStatus(id, new)
  PROVE  BookOK'
<1>1. CASE UNCHANGED book
  BY <1>1 DEF BookOK, book
<1>2. CASE Debit(id, a)
  <2>1. balance[id] - a \in -I64Max - 1 .. I64Max
    BY <1>2 DEF BookOK, Debit, CanDebit
  <2> QED BY <1>2, <2>1 DEF BookOK, Debit
<1>3. CASE Credit(id, a)
  <2>1. balance[id] + a \in -I64Max - 1 .. I64Max
    BY <1>3 DEF BookOK, Credit, CanCredit
  <2> QED BY <1>3, <2>1 DEF BookOK, Credit
<1>4. CASE SetStatus(id, new)
  BY <1>4 DEF BookOK, SetStatus
<1> QED
  BY <1>1, <1>2, <1>3, <1>4

(* Every step keeps the types and what the callers hold. *)
LEMMA CoreStep == CoreInv /\ [Next]_vars => CoreInv'
<1> SUFFICES ASSUME CoreInv, [Next]_vars PROVE CoreInv'
  OBVIOUS
<1> DEFINE Rest ==
        /\ journal \in Seq(JournalEntries)
        /\ sequenceCounter \in Nat
        /\ applied \in Seq(Nat)
        /\ failed \subseteq Nat
        /\ txns \in [Txns -> {"Absent", "Pending", "Committed"}]
        /\ pc \in [Threads -> {"idle", "record", "found", "reverse"}]
        /\ entry \in [Threads -> Nat]
        /\ reversal \in [Threads -> Txns \cup {NoTxn}]
        /\ InHand
<1>0. BookOK /\ Rest
  BY DEF CoreInv, TypeOK, BookOK
<1>1. ASSUME BookOK', Rest' PROVE CoreInv'
  BY <1>1 DEF CoreInv, TypeOK, BookOK
<1>2. ASSUME UNCHANGED book PROVE BookOK'
  BY <1>0, <1>2 DEF BookOK, book
<1>3. CASE UNCHANGED vars
  BY <1>0, <1>1, <1>2, <1>3 DEF vars, book, InHand
<1>4. ASSUME NEW x \in Txns, BeginTransaction(x) PROVE CoreInv'
  BY <1>0, <1>1, <1>2, <1>4 DEF BeginTransaction, InHand
<1>5. ASSUME NEW t \in Threads, NEW x \in Txns, NEW legs \in Seq(Legs), NEW r \in Nat,
             NEW next \in {"record", "reverse"}, next = "record" => r = 0,
             AppendEntry(t, x, legs, r, next), UNCHANGED <<book, failed, txns>>
      PROVE  CoreInv'
  <2> DEFINE n == Len(journal) + 1
  <2>1. /\ Len(journal) \in Nat
        /\ journal' \in Seq(JournalEntries) /\ applied' \in Seq(Nat)
        /\ DOMAIN journal = 1 .. Len(journal)
        /\ DOMAIN journal' = 1 .. n /\ DOMAIN applied' = 1 .. n
        /\ \A k \in DOMAIN journal :
             k \in DOMAIN journal' /\ journal'[k] = journal[k] /\ applied'[k] = applied[k]
        /\ journal'[n].reverses = r /\ journal'[n].legs = legs /\ applied'[n] = 0
        /\ \A k \in DOMAIN journal' : k \in DOMAIN journal \/ k = n
    BY <1>5, AppendStep
  <2>2. /\ sequenceCounter' \in Nat
        /\ pc' = [pc EXCEPT ![t] = next]
        /\ entry' = [entry EXCEPT ![t] = n]
        /\ reversal' = [reversal EXCEPT ![t] = NoTxn]
    BY <1>0, <1>5 DEF AppendEntry
  <2>3. n \in Nat /\ n \in DOMAIN journal'
    BY <2>1
  <2> HIDE DEF n
  <2>4. InHand'
    <3>1. Len(applied') = Len(journal')
      BY <2>1
    <3>2. \A k \in DOMAIN journal' : applied'[k] <= Len(journal'[k].legs)
      <4>1. 0 <= Len(legs)
        OBVIOUS
      <4>2. \A k \in DOMAIN journal : applied[k] <= Len(journal[k].legs)
        BY <1>0 DEF InHand
      <4> QED BY <2>1, <4>1, <4>2
    <3>3. ASSUME NEW u \in Threads
          PROVE  /\ pc'[u] # "idle" => entry'[u] \in DOMAIN journal'
                 /\ pc'[u] = "record" => journal'[entry'[u]].reverses = 0
                 /\ pc'[u] = "found" => reversal'[u] \in Txns
      <4>1. CASE u = t
        BY <1>0, <1>5, <2>1, <2>2, <2>3, <4>1
      <4>2. CASE u # t
        BY <1>0, <2>1, <2>2, <4>2 DEF InHand
      <4> QED BY <4>1, <4>2
    <3> QED BY <3>1, <3>2, <3>3 DEF InHand
  <2>5. Rest'
    BY <1>0, <1>5, <2>1, <2>2, <2>3, <2>4
  <2> QED BY <1>1, <1>2, <1>5, <2>5
<1>6. ASSUME NEW t \in Threads, Return(t), UNCHANGED <<book, journal, applied>>,
             sequenceCounter' \in Nat, failed' \subseteq Nat,
             txns' \in [Txns -> {"Absent", "Pending", "Committed"}]
      PROVE  CoreInv'
  BY <1>0, <1>1, <1>2, <1>6 DEF Return, InHand
<1>7. ASSUME NEW t \in Threads, NEW x \in Txns, NEW legs \in LegLists, RecordEntry(t, x, legs)
      PROVE  CoreInv'
  <2>1. CASE AppendEntry(t, x, legs, 0, "record")
    BY <1>5, <1>7, <2>1 DEF RecordEntry
  <2>2. CASE /\ sequenceCounter' = sequenceCounter + 1
             /\ UNCHANGED <<journal, applied, pc, entry, reversal>>
    BY <1>0, <1>1, <1>2, <1>7, <2>2 DEF RecordEntry, InHand
  <2> QED BY <1>7, <2>1, <2>2 DEF RecordEntry
<1>8. ASSUME NEW t \in Threads, ApplyLeg(t) PROVE CoreInv'
  <2> DEFINE k == entry[t]
             leg == journal[k].legs[applied[k] + 1]
  <2>1. /\ k \in DOMAIN journal /\ k \in DOMAIN applied
        /\ applied[k] \in Nat /\ applied[k] < Len(journal[k].legs)
        /\ leg \in Legs
        /\ UNCHANGED <<journal, sequenceCounter, txns>>
    BY <1>8, ApplyLegCases
  <2>2. CASE /\ Debit(leg.account, leg.amount) \/ Credit(leg.account, leg.amount)
             /\ applied' = [applied EXCEPT ![k] = @ + 1]
             /\ UNCHANGED <<failed, pc, entry, reversal>>
    <3>1. leg.account \in Ids /\ leg.amount \in Int
      BY <2>1 DEF Legs
    <3>2. BookOK'
      BY <1>0, <2>2, <3>1, BookStep DEF Statuses
    <3>3. applied' \in Seq(Nat) /\ Len(applied') = Len(applied)
      BY <1>0, <2>1, <2>2
    <3>4. journal[k].legs \in Seq(Legs)
      BY <2>1, EntryParts
    <3>5. \A j \in DOMAIN journal : applied'[j] <= Len(journal[j].legs)
      BY <1>0, <2>1, <2>2, <3>4 DEF InHand
    <3>6. Rest'
      BY <1>0, <2>1, <2>2, <3>3, <3>5 DEF InHand
    <3> QED BY <1>1, <3>2, <3>6
  <2>3. CASE Return(t) /\ failed' = failed \cup {k} /\ UNCHANGED <<book, applied>>
    <3>1. k \in Nat
      BY <2>1, EntryParts
    <3> QED BY <1>0, <1>6, <2>1, <2>3, <3>1
  <2> QED BY <1>8, <2>2, <2>3, ApplyLegCases
<1>9. ASSUME NEW t \in Threads, CommitTransaction(t) PROVE CoreInv'
  BY <1>0, <1>6, <1>9 DEF CommitTransaction, Commit
<1>10. ASSUME NEW t \in Threads, NEW k, NEW x \in Txns, ReverseFind(t, k, x)
       PROVE  CoreInv'
  <2>1. k \in Nat
    BY <1>0, <1>10 DEF ReverseFind
  <2> QED BY <1>0, <1>1, <1>2, <1>10, <2>1 DEF ReverseFind, InHand
<1>11. ASSUME NEW t \in Threads, ReverseAppend(t) PROVE CoreInv'
  <2>1. entry[t] \in DOMAIN journal /\ reversal[t] \in Txns /\ entry[t] \in Nat
    BY <1>0, <1>11 DEF ReverseAppend, InHand
  <2>2. ReverseLegs(journal[entry[t]].legs) \in Seq(Legs)
    BY <2>1, EntryParts, ReverseLegsOK
  <2>3. CASE AppendEntry(t, reversal[t], ReverseLegs(journal[entry[t]].legs), entry[t], "reverse")
    BY <1>5, <1>11, <2>1, <2>2, <2>3 DEF ReverseAppend
  <2>4. CASE /\ sequenceCounter' = sequenceCounter + 1
             /\ Return(t) /\ UNCHANGED <<journal, applied>>
    BY <1>0, <1>6, <1>11, <2>4 DEF ReverseAppend
  <2> QED BY <1>11, <2>3, <2>4 DEF ReverseAppend
<1>12. ASSUME NEW t \in Threads, ReverseDone(t) PROVE CoreInv'
  BY <1>0, <1>6, <1>12 DEF ReverseDone
<1>13. ASSUME NEW id \in Ids, NEW new \in Statuses, ChangeStatus(id, new) PROVE CoreInv'
  <2>1. BookOK'
    BY <1>0, <1>13, BookStep DEF ChangeStatus
  <2> QED BY <1>0, <1>1, <1>13, <2>1 DEF ChangeStatus, InHand
<1> HIDE DEF Rest
<1> QED
  BY <1>3, <1>4, <1>7, <1>8, <1>9, <1>10, <1>11, <1>12, <1>13 DEF Next

(* Type correctness of the ledger service. *)
THEOREM TypeCorrect == Spec => []TypeOK
<1>1. CoreInv => TypeOK
  BY DEF CoreInv
<1> QED
  BY <1>1, CoreInit, CoreStep, PTL DEF Spec

-----------------------------------------------------------------------------
(* The steps that change the journal or what is applied, in three kinds:   *)
(* an entry is appended, a leg is applied, or neither.                     *)
Appends ==
    \E t \in Threads, x \in Txns, legs \in Seq(Legs), r \in Nat,
       next \in {"record", "reverse"} :
        /\ next = "record" => r = 0
        /\ next = "reverse" => r \in DOMAIN journal /\ legs = ReverseLegs(journal[r].legs)
        /\ IsValidEntry(legs)
        /\ AppendEntry(t, x, legs, r, next)
        /\ UNCHANGED <<book, txns>>

Applies ==
    \E k \in DOMAIN journal :
        LET leg == journal[k].legs[applied[k] + 1]
        IN  /\ k \in DOMAIN applied /\ applied[k] \in Nat
            /\ applied[k] < Len(journal[k].legs)
            /\ leg \in Legs
            /\ \/ leg.side = "Debit" /\ Debit(leg.account, leg.amount)
               \/ leg.side = "Credit" /\ Credit(leg.account, leg.amount)
            /\ applied' = [applied EXCEPT ![k] = @ + 1]
            /\ UNCHANGED <<journal, sequenceCounter, txns>>

Commits ==
    /\ \E k \in DOMAIN journal :
         /\ journal[k].reverses = 0 /\ AllApplied(k)
         /\ txns' = [txns EXCEPT ![journal[k].txn] = Commit(@)]
    /\ UNCHANGED <<book, journal, sequenceCounter, applied>>

Neither ==
    /\ UNCHANGED <<registered, balance, journal, applied>>
    /\ sequenceCounter' \in {sequenceCounter, sequenceCounter + 1}
    /\ UNCHANGED txns \/ \E x \in Txns : txns' = [txns EXCEPT ![x] = "Pending"]

LEMMA StepKinds ==
  ASSUME CoreInv, [Next]_vars
  PROVE  Appends \/ Applies \/ Commits \/ Neither
<1>1. CASE UNCHANGED vars
  BY <1>1 DEF vars, Neither
<1>2. ASSUME NEW x \in Txns, BeginTransaction(x) PROVE Neither
  BY <1>2 DEF BeginTransaction, Neither, book
<1>3. ASSUME NEW t \in Threads, NEW x \in Txns, NEW legs \in LegLists, RecordEntry(t, x, legs)
      PROVE  Appends \/ Neither
  <2>1. CASE IsValidEntry(legs) /\ AppendEntry(t, x, legs, 0, "record")
    <3>1. legs \in Seq(Legs) /\ 0 \in Nat /\ UNCHANGED <<book, txns>>
      BY <1>3 DEF RecordEntry
    <3> QED BY <2>1, <3>1 DEF Appends
  <2>2. CASE sequenceCounter' = sequenceCounter + 1 /\ UNCHANGED <<journal, applied>>
    BY <1>3, <2>2 DEF RecordEntry, Neither, book
  <2> QED BY <1>3, <2>1, <2>2 DEF RecordEntry
<1>4. ASSUME NEW t \in Threads, ApplyLeg(t) PROVE Applies \/ Neither
  BY <1>4, ApplyLegCases DEF Applies, Neither, book
<1>5. ASSUME NEW t \in Threads, CommitTransaction(t) PROVE Commits
  BY <1>5 DEF CommitTransaction, Commits, CoreInv, InHand
<1>6. ASSUME NEW t \in Threads, NEW k, NEW x \in Txns, ReverseFind(t, k, x) PROVE Neither
  BY <1>6 DEF ReverseFind, Neither, book
<1>7. ASSUME NEW t \in Threads, ReverseAppend(t) PROVE Appends \/ Neither
  <2> DEFINE k == entry[t]
             legs == ReverseLegs(journal[k].legs)
  <2>1. /\ k \in DOMAIN journal /\ k \in Nat /\ reversal[t] \in Txns
    BY <1>7 DEF ReverseAppend, CoreInv, TypeOK, InHand
  <2>2. legs \in Seq(Legs)
    BY <2>1, EntryParts, ReverseLegsOK
  <2>3. CASE IsValidEntry(legs) /\ AppendEntry(t, reversal[t], legs, k, "reverse")
    <3>1. UNCHANGED <<book, txns>>
      BY <1>7 DEF ReverseAppend
    <3>2. "reverse" # "record"
      OBVIOUS
    <3> QED BY <2>1, <2>2, <2>3, <3>1, <3>2 DEF Appends
  <2>4. CASE sequenceCounter' = sequenceCounter + 1 /\ UNCHANGED <<journal, applied>>
    BY <1>7, <2>4 DEF ReverseAppend, Neither, book
  <2> QED BY <1>7, <2>3, <2>4 DEF ReverseAppend
<1>8. ASSUME NEW t \in Threads, ReverseDone(t) PROVE Neither
  BY <1>8 DEF ReverseDone, Neither, book
<1>9. ASSUME NEW id \in Ids, NEW new \in Statuses, ChangeStatus(id, new) PROVE Neither
  BY <1>9 DEF ChangeStatus, SetStatus, Neither
<1> QED
  BY <1>1, <1>2, <1>3, <1>4, <1>5, <1>6, <1>7, <1>8, <1>9 DEF Next

(* A committed transaction stays committed and its entry applied. *)
LEMMA CommittedStep ==
  CoreInv /\ CommittedMeansApplied /\ [Next]_vars => CommittedMeansApplied'
<1> SUFFICES ASSUME CoreInv, CommittedMeansApplied, [Next]_vars,
                    NEW x \in Txns, txns'[x] = "Committed"
             PROVE  \E k \in DOMAIN journal' :
                       /\ journal'[k].txn = x /\ journal'[k].reverses = 0
                       /\ applied'[k] = Len(journal'[k].legs)
  BY DEF CommittedMeansApplied, AllApplied
<1>0. txns \in [Txns -> {"Absent", "Pending", "Committed"}]
  BY DEF CoreInv, TypeOK
<1>1. ASSUME NEW k \in DOMAIN journal, journal[k].txn = x, journal[k].reverses = 0,
             applied[k] = Len(journal[k].legs)
      PROVE  /\ k \in DOMAIN journal' /\ journal'[k] = journal[k]
             /\ applied'[k] = applied[k]
  <2>1. CASE Appends
    <3>1. PICK t \in Threads, y \in Txns, legs \in Seq(Legs), r \in Nat,
               next \in {"record", "reverse"} :
             (next = "record" => r = 0) /\ AppendEntry(t, y, legs, r, next)
      BY <2>1 DEF Appends
    <3> QED BY <3>1, AppendStep
  <2>2. CASE Applies
    <3>1. PICK j \in DOMAIN journal : /\ j \in DOMAIN applied /\ applied[j] \in Nat
                                      /\ applied[j] < Len(journal[j].legs)
                                      /\ applied' = [applied EXCEPT ![j] = @ + 1]
                                      /\ UNCHANGED journal
      BY <2>2 DEF Applies
    <3>2. j # k /\ k \in DOMAIN applied
      BY <1>1, <3>1, EntryParts
    <3> QED BY <3>1, <3>2
  <2>3. CASE Commits \/ Neither
    BY <2>3 DEF Commits, Neither
  <2> QED BY <2>1, <2>2, <2>3, StepKinds
<1>2. CASE txns[x] = "Committed"
  BY <1>1, <1>2 DEF CommittedMeansApplied, AllApplied
<1>3. CASE txns[x] # "Committed"
  <2>1. Commits
    BY <1>0, <1>3, StepKinds DEF Appends, Applies, Neither
  <2>2. PICK k \in DOMAIN journal :
          /\ journal[k].reverses = 0 /\ AllApplied(k)
          /\ txns' = [txns EXCEPT ![journal[k].txn] = Commit(@)]
    BY <2>1 DEF Commits
  <2>3. journal[k].txn = x
    BY <1>0, <1>3, <2>2
  <2> QED BY <1>1, <2>2, <2>3 DEF AllApplied
<1> QED
  BY <1>2, <1>3

(* No failed leg leads to a commit. *)
THEOREM CommittedAlwaysApplied == Spec => []CommittedMeansApplied
<1>1. Init => CommittedMeansApplied
  BY DEF Init, CommittedMeansApplied
<1> QED
  BY <1>1, CoreInit, CoreStep, CommittedStep, PTL DEF Spec

-----------------------------------------------------------------------------
(* The journal.  Entries are validated when they are appended, numbered    *)
(* upwards, and a reversal mirrors the entry it names.                     *)
EntrySound(k) ==
    /\ IsValidEntry(journal[k].legs)
    /\ journal[k].seq <= sequenceCounter
    /\ k > 1 => journal[k - 1].seq < journal[k].seq
    /\ LET r == journal[k].reverses
       IN  r # 0 => r < k /\ journal[r].legs = ReverseLegs(journal[k].legs)

EntriesSound == \A k \in DOMAIN journal : EntrySound(k)

(* Appending a checked entry, and only that, changes the journal. *)
LEMMA EntriesStep == CoreInv /\ EntriesSound /\ [Next]_vars => EntriesSound'
<1> SUFFICES ASSUME CoreInv, EntriesSound, [Next]_vars PROVE EntriesSound'
  OBVIOUS
<1>0. sequenceCounter \in Nat
  BY DEF CoreInv, TypeOK
<1>1. ASSUME UNCHANGED journal, sequenceCounter' \in {sequenceCounter, sequenceCounter + 1}
      PROVE  EntriesSound'
  <2> SUFFICES ASSUME NEW k \in DOMAIN journal PROVE EntrySound(k)'
    BY <1>1 DEF EntriesSound
  <2>1. EntrySound(k) /\ journal[k].seq \in Nat
    BY EntryParts DEF EntriesSound
  <2> QED BY <1>0, <1>1, <2>1 DEF EntrySound
<1>2. CASE Appends
  <2>1. PICK t \in Threads, x \in Txns, legs \in Seq(Legs), r \in Nat,
             next \in {"record", "reverse"} :
           /\ next = "record" => r = 0
           /\ next = "reverse" => r \in DOMAIN journal /\ legs = ReverseLegs(journal[r].legs)
           /\ IsValidEntry(legs)
           /\ AppendEntry(t, x, legs, r, next)
    BY <1>2 DEF Appends
  <2>2. PICK n :
        /\ n = Len(journal) + 1 /\ Len(journal) \in Nat
        /\ DOMAIN journal = 1 .. Len(journal)
        /\ \A k \in DOMAIN journal : journal'[k] = journal[k]
        /\ journal'[n].seq = sequenceCounter + 1
        /\ journal'[n].legs = legs /\ journal'[n].reverses = r
        /\ \A k \in DOMAIN journal' : k \in DOMAIN journal \/ k = n
    BY <2>1, AppendStep
  <2>3. sequenceCounter' = sequenceCounter + 1
    BY <2>1 DEF AppendEntry
  <2>4. ASSUME NEW k \in DOMAIN journal PROVE EntrySound(k)'
    <3>1. EntrySound(k) /\ journal[k].seq \in Nat /\ journal[k].reverses \in Nat
      BY EntryParts DEF EntriesSound
    <3>2. journal'[k] = journal[k]
      BY <2>2
    <3>3. k > 1 => journal'[k - 1] = journal[k - 1]
      BY <2>2
    <3>4. k \in Nat /\ (journal[k].reverses # 0 =>
            journal'[journal[k].reverses] = journal[journal[k].reverses])
      BY <2>2, <3>1 DEF EntrySound
    <3> QED BY <1>0, <2>3, <3>1, <3>2, <3>3, <3>4 DEF EntrySound
  <2>5. EntrySound(n)'
    <3>1. IsValidEntry(legs)
      BY <2>1
    <3>2. n > 1 => journal'[n - 1].seq <= sequenceCounter /\ journal'[n - 1].seq \in Nat
      <4> SUFFICES ASSUME n > 1
                   PROVE journal'[n - 1].seq <= sequenceCounter /\ journal'[n - 1].seq \in Nat
        OBVIOUS
      <4>1. n - 1 \in DOMAIN journal /\ journal'[n - 1] = journal[n - 1]
        BY <2>2
      <4> QED BY <4>1, EntryParts DEF EntriesSound, EntrySound
    <3>3. ASSUME r # 0 PROVE r < n /\ journal'[r].legs = ReverseLegs(legs)
      <4>1. r \in DOMAIN journal /\ legs = ReverseLegs(journal[r].legs)
        BY <2>1, <3>3
      <4>2. ReverseLegs(legs) = journal[r].legs
        BY <4>1, EntryParts, ReverseLegsOK
      <4> QED BY <2>2, <4>1, <4>2
    <3> QED BY <1>0, <2>2, <2>3, <3>1, <3>2, <3>3 DEF EntrySound
  <2> QED BY <2>2, <2>4, <2>5 DEF EntriesSound
<1> QED
  BY <1>0, <1>1, <1>2, StepKinds DEF Applies, Commits, Neither

(* The sum of one side of an entry is a natural number. *)
LEMMA SideTotalType ==
  ASSUME NEW legs \in Seq(Legs), NEW side
  PROVE  /\ SideTotal(legs, side) \in Nat
         /\ [i \in DOMAIN legs |-> IF legs[i].side = side THEN legs[i].amount ELSE 0]
               \in [DOMAIN legs -> Nat]
         /\ IsFiniteSet(DOMAIN legs)
<1>1. DOMAIN legs = 1 .. Len(legs) /\ Len(legs) \in Nat
  OBVIOUS
<1>2. IsFiniteSet(DOMAIN legs)
  BY <1>1, FS_Interval
<1>3. \A i \in DOMAIN legs : legs[i] \in Legs
  OBVIOUS
<1>4. \A i \in DOMAIN legs : legs[i].amount \in Nat
  BY <1>3 DEF Legs
<1> QED
  BY <1>2, <1>4, TotalType DEF SideTotal

(* The weight of a leg in a column of the trial balance, and in the sum    *)
(* over all accounts.                                                      *)
Leg(p) == journal[p[1]].legs[p[2]]
OnAccount(P, id, side) ==
    [p \in P |-> IF Leg(p).account = id /\ Leg(p).side = side THEN Leg(p).amount ELSE 0]
OnSide(P, side) == [p \in P |-> IF Leg(p).side = side THEN Leg(p).amount ELSE 0]

(* The places of the legs are finitely many and hold legs. *)
LEMMA PositionsOK ==
  ASSUME CoreInv
  PROVE  /\ IsFiniteSet(LegPositions(journal)) /\ IsFiniteSet(DOMAIN journal)
         /\ \A p \in LegPositions(journal) :
               p[1] \in DOMAIN journal /\ p[2] \in DOMAIN journal[p[1]].legs /\ Leg(p) \in Legs
         /\ \A k \in DOMAIN journal : \A i \in DOMAIN journal[k].legs :
               <<k, i>> \in LegPositions(journal)
<1> DEFINE f == [k \in DOMAIN journal |-> Len(journal[k].legs)]
<1>1. journal \in Seq(JournalEntries)
  BY DEF CoreInv, TypeOK
<1>2. IsFiniteSet(DOMAIN journal)
  <2>1. DOMAIN journal = 1 .. Len(journal) /\ Len(journal) \in Nat
    BY <1>1
  <2> QED BY <2>1, FS_Interval
<1>3. \A k \in DOMAIN journal : journal[k].legs \in Seq(Legs) /\ f[k] \in Nat
                                /\ DOMAIN journal[k].legs = 1 .. f[k]
  BY EntryParts
<1>4. LegPositions(journal) = UNION {Tokens(k, f[k]) : k \in DOMAIN journal}
  BY <1>3 DEF LegPositions, Tokens
<1>5. f \in [DOMAIN journal -> Nat]
  BY <1>3
<1>6. IsFiniteSet(LegPositions(journal))
  <2> HIDE DEF f
  <2> QED BY <1>2, <1>4, <1>5, TokensFinite
<1>7. ASSUME NEW p \in LegPositions(journal)
      PROVE  p[1] \in DOMAIN journal /\ p[2] \in DOMAIN journal[p[1]].legs /\ Leg(p) \in Legs
  <2>1. p[1] \in DOMAIN journal /\ p[2] \in DOMAIN journal[p[1]].legs
    BY DEF LegPositions
  <2>2. journal[p[1]].legs \in Seq(Legs)
    BY <1>3, <2>1
  <2>3. journal[p[1]].legs[p[2]] \in Legs
    BY <2>1, <2>2
  <2> QED BY <2>1, <2>3 DEF Leg
<1>8. \A k \in DOMAIN journal : \A i \in DOMAIN journal[k].legs :
        <<k, i>> \in LegPositions(journal)
  BY DEF LegPositions
<1> QED
  BY <1>2, <1>6, <1>7, <1>8

(* The columns of all accounts add up to the legs of that side: each leg   *)
(* is on the account it names and on no other.                             *)
LEMMA ColumnsAddUp ==
  ASSUME CoreInv, NEW side
  PROVE  LET P == LegPositions(journal)
         IN  /\ Total(Ids, [id \in Ids |-> MovedOn(journal, P, id, side)])
                   = Total(P, OnSide(P, side))
             /\ \A id \in Ids : MovedOn(journal, P, id, side) \in Nat
<1> DEFINE P == LegPositions(journal)
           w(id) == OnAccount(P, id, side)
           X == [id \in Ids |-> UNION {Tokens(p, w(id)[p]) : p \in P}]
<1>1. IsFiniteSet(P) /\ \A p \in P : Leg(p) \in Legs
  BY PositionsOK
<1>2. \A p \in P : Leg(p).account \in Ids /\ Leg(p).amount \in Nat
  BY <1>1 DEF Legs
<1>3. \A id \in Ids : w(id) \in [P -> Nat]
  BY <1>2 DEF OnAccount
<1>4. \A id \in Ids : /\ X[id] = UNION {Tokens(p, w(id)[p]) : p \in P}
                       /\ Total(P, w(id)) = Cardinality(X[id])
  BY DEF Total
<1>5. \A id \in Ids : IsFiniteSet(X[id]) /\ Cardinality(X[id]) \in Nat
  <2> SUFFICES ASSUME NEW id \in Ids PROVE IsFiniteSet(X[id])
    BY FS_CardinalityType
  <2>1. w(id) \in [P -> Nat]
    BY <1>3
  <2> HIDE DEF w, P
  <2>2. IsFiniteSet(UNION {Tokens(p, w(id)[p]) : p \in P})
    BY <1>1, <2>1, TokensFinite
  <2> QED BY <2>2
<1>6. ASSUME NEW id \in Ids, NEW z
      PROVE  z \in X[id] <=> \E p \in P : /\ Leg(p).account = id /\ Leg(p).side = side
                                           /\ \E n \in 1 .. Leg(p).amount : z = <<p, n>>
  BY <1>2 DEF OnAccount, Tokens
<1>7. \A a, b \in Ids : a # b => X[a] \cap X[b] = {}
  <2> SUFFICES ASSUME NEW a \in Ids, NEW b \in Ids, NEW z \in X[a], z \in X[b] PROVE a = b
    OBVIOUS
  <2>1. PICK p \in P : Leg(p).account = a /\ \E n \in 1 .. Leg(p).amount : z = <<p, n>>
    BY <1>6
  <2>2. PICK q \in P : Leg(q).account = b /\ \E n \in 1 .. Leg(q).amount : z = <<q, n>>
    BY <1>6
  <2>3. p = q
    BY <2>1, <2>2
  <2> QED BY <2>1, <2>2, <2>3
<1>8. UNION {X[id] : id \in Ids} = UNION {Tokens(p, OnSide(P, side)[p]) : p \in P}
  <2> DEFINE R == UNION {Tokens(p, OnSide(P, side)[p]) : p \in P}
  <2>1. ASSUME NEW z
        PROVE  z \in R <=> \E p \in P : /\ Leg(p).side = side
                                         /\ \E n \in 1 .. Leg(p).amount : z = <<p, n>>
    BY <1>2 DEF OnSide, Tokens
  <2> HIDE DEF X, R, P
  <2>2. \A z : z \in UNION {X[id] : id \in Ids} <=> z \in R
    BY <1>2, <1>6, <2>1
  <2>3. UNION {X[id] : id \in Ids} = R
    BY <2>2
  <2> QED BY <2>3 DEF R
<1>9. \A id \in Ids : MovedOn(journal, P, id, side) = Cardinality(X[id])
  BY <1>4 DEF MovedOn, OnAccount, Leg
<1>10. Total(Ids, [id \in Ids |-> MovedOn(journal, P, id, side)]) = Total(P, OnSide(P, side))
  <2> DEFINE columns == [id \in Ids |-> MovedOn(journal, P, id, side)]
             R == UNION {Tokens(p, OnSide(P, side)[p]) : p \in P}
  <2>1. \A id \in Ids : IsFiniteSet(X[id]) /\ columns[id] = Cardinality(X[id])
    BY <1>5, <1>9
  <2>2. \A z : z \in R <=> \E id \in Ids : z \in X[id]
    <3>1. R = UNION {X[id] : id \in Ids}
      BY <1>8
    <3> HIDE DEF R, X
    <3> QED BY <3>1
  <2>3. Total(P, OnSide(P, side)) = Cardinality(R)
    BY DEF Total
  <2> HIDE DEF X, P, R, columns
  <2>4. Total(Ids, columns) = Cardinality(R)
    <3>1. CountsParts(Ids, X, columns, R)
      BY <1>7, <2>1, <2>2 DEF CountsParts
    <3> QED BY <3>1, TotalOfSizes
  <2> QED BY <2>3, <2>4 DEF columns
<1> QED
  BY <1>5, <1>9, <1>10

(* So do the sums of that side of the entries. *)
LEMMA EntriesAddUp ==
  ASSUME CoreInv, NEW side
  PROVE  LET P == LegPositions(journal)
         IN  Total(DOMAIN journal, [k \in DOMAIN journal |-> SideTotal(journal[k].legs, side)])
               = Total(P, OnSide(P, side))
<1> DEFINE P == LegPositions(journal)
           g == OnSide(P, side)
           Y == [k \in DOMAIN journal |->
                   UNION {Tokens(p, g[p]) : p \in {k} \X DOMAIN journal[k].legs}]
<1>1. /\ IsFiniteSet(DOMAIN journal)
      /\ \A p \in P : p[1] \in DOMAIN journal /\ p[2] \in DOMAIN journal[p[1]].legs
                                             /\ Leg(p) \in Legs
      /\ \A k \in DOMAIN journal : \A i \in DOMAIN journal[k].legs : <<k, i>> \in P
  BY PositionsOK
<1>2. ASSUME NEW k \in DOMAIN journal
      PROVE  IsFiniteSet(Y[k]) /\ Cardinality(Y[k]) = SideTotal(journal[k].legs, side)
  <2> DEFINE S == DOMAIN journal[k].legs
             T == {k} \X S
             f == [i \in S |-> IF journal[k].legs[i].side = side
                               THEN journal[k].legs[i].amount ELSE 0]
             h == [p \in T |-> f[p[2]]]
             r == [i \in S |-> <<k, i>>]
  <2>1. IsFiniteSet(S) /\ f \in [S -> Nat]
    <3>1. journal[k].legs \in Seq(Legs)
      BY EntryParts
    <3> QED BY <3>1, SideTotalType
  <2>2. r \in Bijection(S, T)
    <3>1. /\ r \in [S -> T] /\ \A i, j \in S : r[i] = r[j] => i = j
          /\ \A q \in T : \E i \in S : r[i] = q
      <4> HIDE DEF S
      <4> QED OBVIOUS
    <3> HIDE DEF r, S, T
    <3> QED BY <3>1 DEF Bijection, Injection, Surjection, IsInjective
  <2>3. \A p \in T : h[p] = g[p]
    BY <1>1 DEF OnSide, Leg
  <2>4. Y[k] = UNION {Tokens(p, h[p]) : p \in T}
    <3> HIDE DEF g, h
    <3> QED BY <2>3
  <2>5. SideTotal(journal[k].legs, side) = Total(S, f)
    BY DEF SideTotal
  <2>6. IsFiniteSet(T)
    <3> HIDE DEF S
    <3> QED BY <2>1, FS_Singleton, FS_Product
  <2>7. h \in [T -> Nat] /\ \A i \in S : h[r[i]] = f[i]
    <3> HIDE DEF S, f
    <3> QED BY <2>1
  <2> HIDE DEF S, T, f, r, g, h, Y
  <2>8. Total(T, h) = Total(S, f)
    BY <2>1, <2>2, <2>7, TotalRenamed
  <2>9. IsFiniteSet(Y[k])
    BY <2>4, <2>6, <2>7, TokensFinite
  <2> QED BY <2>4, <2>5, <2>8, <2>9 DEF Total
<1>3. \A j, k \in DOMAIN journal : j # k => Y[j] \cap Y[k] = {}
  BY DEF Tokens
<1>4. UNION {Y[k] : k \in DOMAIN journal} = UNION {Tokens(p, g[p]) : p \in P}
  <2>1. P = UNION {{k} \X DOMAIN journal[k].legs : k \in DOMAIN journal}
    BY DEF LegPositions
  <2> HIDE DEF P, g
  <2> QED BY <2>1
<1> DEFINE sums == [k \in DOMAIN journal |-> SideTotal(journal[k].legs, side)]
           R == UNION {Tokens(p, g[p]) : p \in P}
<1>5. \A k \in DOMAIN journal : IsFiniteSet(Y[k]) /\ sums[k] = Cardinality(Y[k])
  BY <1>2
<1>6. \A z : z \in R <=> \E k \in DOMAIN journal : z \in Y[k]
  <2>1. R = UNION {Y[k] : k \in DOMAIN journal}
    BY <1>4
  <2> HIDE DEF R, Y
  <2> QED BY <2>1
<1>7. Total(P, g) = Cardinality(R)
  BY DEF Total
<1> HIDE DEF P, g, Y, R, sums
<1>8. Total(DOMAIN journal, sums) = Cardinality(R)
  <2>1. CountsParts(DOMAIN journal, Y, sums, R)
    BY <1>3, <1>5, <1>6 DEF CountsParts
  <2> QED BY <1>1, <2>1, TotalOfSizes
<1> QED
  BY <1>7, <1>8 DEF P, g, sums

(* Sound entries make a sound journal: each of them adds the same to the   *)
(* debits and to the credits, so the columns of the trial balance agree.   *)
LEMMA EntriesMakeJournal == CoreInv /\ EntriesSound => JournalSound
<1> SUFFICES ASSUME CoreInv, EntriesSound PROVE JournalSound
  OBVIOUS
<1> DEFINE P == LegPositions(journal)
           column(side) == [id \in Ids |-> MovedOn(journal, P, id, side)]
           sums(side) == [k \in DOMAIN journal |-> SideTotal(journal[k].legs, side)]
<1>1. ASSUME NEW k \in DOMAIN journal
      PROVE  /\ VerifyBalance(journal[k].legs)
             /\ SideTotal(journal[k].legs, "Debit") = SideTotal(journal[k].legs, "Credit")
  <2>1. journal[k].legs \in Seq(Legs)
    BY EntryParts
  <2>2. SideTotal(journal[k].legs, "Debit") \in Nat
    BY <2>1, SideTotalType
  <2> QED BY <2>2 DEF EntriesSound, EntrySound, IsValidEntry, VerifyBalance
<1>2. ValidateAll(journal) = {}
  BY <1>1 DEF ValidateAll
<1>3. \A k \in DOMAIN journal :
        /\ journal[k].seq <= sequenceCounter
        /\ k > 1 => journal[k - 1].seq < journal[k].seq
        /\ LET r == journal[k].reverses
           IN  r # 0 => r < k /\ journal[r].legs = ReverseLegs(journal[k].legs)
  BY DEF EntriesSound, EntrySound
<1>4. Total(Ids, column("Debit")) = Total(Ids, column("Credit"))
  <2>1. sums("Debit") = sums("Credit")
    BY <1>1
  <2>2. \A side : Total(Ids, column(side)) = Total(DOMAIN journal, sums(side))
    BY ColumnsAddUp, EntriesAddUp
  <2> HIDE DEF column, sums
  <2> QED BY <2>1, <2>2
<1>5. ASSUME ~ \E id \in Ids : I64Max \in {Report(id).debits, Report(id).credits}
      PROVE  Total(Ids, [id \in Ids |-> Report(id).debits])
               = Total(Ids, [id \in Ids |-> Report(id).credits])
  <2>1. \A id \in Ids : column("Debit")[id] \in Nat /\ column("Credit")[id] \in Nat
    BY ColumnsAddUp
  <2>2. ASSUME NEW id \in Ids
        PROVE  Report(id).debits = column("Debit")[id] /\ Report(id).credits = column("Credit")[id]
    <3>1. /\ Report(id).debits = IF column("Debit")[id] > I64Max THEN I64Max ELSE column("Debit")[id]
          /\ Report(id).credits = IF column("Credit")[id] > I64Max THEN I64Max ELSE column("Credit")[id]
      BY DEF Report, TrialBalance
    <3> HIDE DEF column
    <3> QED BY <1>5, <3>1
  <2>3. /\ [id \in Ids |-> Report(id).debits] = column("Debit")
        /\ [id \in Ids |-> Report(id).credits] = column("Credit")
    BY <2>2
  <2> HIDE DEF column
  <2> QED BY <1>4, <2>3
<1> QED
  BY <1>2, <1>3, <1>5 DEF JournalSound

(* The audit has nothing to report, numbers grow, reversals mirror what    *)
(* they reverse and the trial balance is even, whoever calls at once.      *)
THEOREM JournalAlwaysSound == Spec => []JournalSound
<1>1. Init => EntriesSound
  BY DEF Init, EntriesSound
<1> QED
  BY <1>1, CoreInit, CoreStep, EntriesStep, EntriesMakeJournal, PTL DEF Spec

-----------------------------------------------------------------------------
(* The balances.  The places of the legs applied so far and what they      *)
(* moved; their weights are natural numbers.                               *)
AppliedLegs == UNION {{k} \X (1 .. applied[k]) : k \in DOMAIN journal}

Moved(id, side) == MovedOn(journal, AppliedLegs, id, side)

LEMMA AppliedOK ==
  ASSUME CoreInv, NEW id, NEW side
  PROVE  /\ IsFiniteSet(AppliedLegs)
         /\ OnAccount(AppliedLegs, id, side) \in [AppliedLegs -> Nat]
         /\ Moved(id, side) = Total(AppliedLegs, OnAccount(AppliedLegs, id, side))
         /\ Moved(id, side) \in Nat
<1>1. ASSUME NEW p \in AppliedLegs PROVE Leg(p).amount \in Nat
  <2>1. PICK k \in DOMAIN journal : p \in {k} \X (1 .. applied[k])
    BY DEF AppliedLegs
  <2>2. /\ journal[k].legs \in Seq(Legs) /\ applied[k] \in Nat
        /\ applied[k] <= Len(journal[k].legs) /\ Len(journal[k].legs) \in Nat
    BY EntryParts
  <2>3. p[1] = k /\ p[2] \in 1 .. Len(journal[k].legs)
    BY <2>1, <2>2
  <2>4. Leg(p) \in Legs
    BY <2>2, <2>3 DEF Leg
  <2> QED BY <2>4 DEF Legs
<1>2. OnAccount(AppliedLegs, id, side) \in [AppliedLegs -> Nat]
  BY <1>1 DEF OnAccount
<1>3. IsFiniteSet(AppliedLegs)
  <2> DEFINE f == [k \in DOMAIN journal |-> applied[k]]
  <2>1. f \in [DOMAIN journal -> Nat]
    BY EntryParts
  <2>2. AppliedLegs = UNION {Tokens(k, f[k]) : k \in DOMAIN journal}
    BY DEF AppliedLegs, Tokens
  <2>3. IsFiniteSet(DOMAIN journal)
    BY PositionsOK
  <2> HIDE DEF f
  <2> QED BY <2>1, <2>2, <2>3, TokensFinite
<1>4. Moved(id, side) = Total(AppliedLegs, OnAccount(AppliedLegs, id, side))
  BY DEF Moved, MovedOn, OnAccount, Leg
<1> QED
  BY <1>2, <1>3, <1>4, TotalType

(* Applying a leg moves its amount on its account, once. *)
LEMMA MovedStep ==
  ASSUME CoreInv, CoreInv', NEW k \in DOMAIN journal, k \in DOMAIN applied,
         applied[k] \in Nat,
         applied' = [applied EXCEPT ![k] = @ + 1], UNCHANGED journal,
         NEW id, NEW side
  PROVE  LET leg == journal[k].legs[applied[k] + 1]
         IN  Moved(id, side)' = Moved(id, side) +
               IF leg.account = id /\ leg.side = side THEN leg.amount ELSE 0
<1> DEFINE A == AppliedLegs
           p == <<k, applied[k] + 1>>
           f == OnAccount(A, id, side)
           B == A \cup {p}
           g == OnAccount(B, id, side)
<1>1. applied'[k] = applied[k] + 1 /\ \A j \in DOMAIN journal \ {k} : applied'[j] = applied[j]
  BY EntryParts
<1>2. AppliedLegs' = B
  <2>1. ASSUME NEW z
        PROVE  z \in AppliedLegs' <=>
                 \E j \in DOMAIN journal : z \in {j} \X (1 .. applied'[j])
    BY DEF AppliedLegs
  <2>2. 1 .. applied'[k] = (1 .. applied[k]) \cup {applied[k] + 1}
    BY <1>1
  <2>3. ASSUME NEW z PROVE z \in AppliedLegs' <=> z \in A \/ z = p
    BY <1>1, <2>1, <2>2 DEF AppliedLegs
  <2> QED BY <2>3
<1>3. p \notin A
  BY DEF AppliedLegs
<1>4. IsFiniteSet(A) /\ f \in [A -> Nat] /\ Moved(id, side) = Total(A, f)
  BY AppliedOK
<1>5. Leg(p) = journal[k].legs[applied[k] + 1]
  BY DEF Leg
<1>6. /\ OnAccount(AppliedLegs, id, side)' \in [AppliedLegs' -> Nat]
      /\ Moved(id, side)' = Total(AppliedLegs', OnAccount(AppliedLegs, id, side)')
  <2>1. IsFiniteSet(AppliedLegs')
    BY <1>2, <1>4, FS_AddElement
  <2>2. ASSUME NEW q \in AppliedLegs' PROVE Leg(q).amount \in Nat
    <3>1. CASE q \in A
      <4>1. PICK j \in DOMAIN journal : q \in {j} \X (1 .. applied[j])
        BY <3>1 DEF AppliedLegs
      <4>2. /\ journal[j].legs \in Seq(Legs) /\ applied[j] \in Nat
            /\ applied[j] <= Len(journal[j].legs) /\ Len(journal[j].legs) \in Nat
        BY EntryParts
      <4>3. Leg(q) \in Legs
        BY <4>1, <4>2 DEF Leg
      <4> QED BY <4>3 DEF Legs
    <3>2. CASE q = p
      <4>1. /\ journal[k].legs \in Seq(Legs) /\ Len(journal[k].legs) \in Nat
        BY EntryParts
      <4>2. applied[k] + 1 <= Len(journal[k].legs)
        BY <1>1 DEF CoreInv, InHand
      <4>3. Leg(q) \in Legs
        BY <1>5, <3>2, <4>1, <4>2
      <4> QED BY <4>3 DEF Legs
    <3> QED BY <1>2, <3>1, <3>2
  <2>3. /\ OnAccount(AppliedLegs, id, side)' = OnAccount(B, id, side)
        /\ Moved(id, side)' = Total(AppliedLegs', OnAccount(AppliedLegs, id, side)')
    BY <1>2 DEF OnAccount, Leg, Moved, MovedOn
  <2> QED BY <1>2, <2>2, <2>3 DEF OnAccount
<1>7. OnAccount(AppliedLegs, id, side)' = g
  BY <1>2 DEF OnAccount, Leg
<1>8. g \in [B -> Nat] /\ \A z \in A : g[z] = f[z]
  BY <1>2, <1>6, <1>7 DEF OnAccount
<1>9. g[p] = IF Leg(p).account = id /\ Leg(p).side = side THEN Leg(p).amount ELSE 0
  BY DEF OnAccount
<1>10. Moved(id, side)' = Total(B, g)
  BY <1>2, <1>6, <1>7
<1> HIDE DEF f, g, A, p
<1>11. Total(B, g) = Total(A, f) + g[p]
  BY <1>3, <1>4, <1>8, TotalExtend
<1> QED
  BY <1>4, <1>5, <1>9, <1>10, <1>11

(* A step that applies no leg moves nothing. *)
LEMMA MovedSame ==
  ASSUME CoreInv, NEW id, NEW side,
         \A k \in DOMAIN journal :
            k \in DOMAIN journal' /\ journal'[k] = journal[k] /\ applied'[k] = applied[k],
         \A k \in DOMAIN journal' : k \in DOMAIN journal \/ applied'[k] = 0
  PROVE  Moved(id, side)' = Moved(id, side)
<1>1. AppliedLegs' = AppliedLegs
  <2>1. ASSUME NEW z
        PROVE  z \in AppliedLegs' <=>
                 \E k \in DOMAIN journal' : z \in {k} \X (1 .. applied'[k])
    BY DEF AppliedLegs
  <2>2. 1 .. 0 = {}
    OBVIOUS
  <2>3. ASSUME NEW z PROVE z \in AppliedLegs' <=> z \in AppliedLegs
    BY <2>1, <2>2 DEF AppliedLegs
  <2> QED BY <2>3
<1>2. \A p \in AppliedLegs : journal'[p[1]] = journal[p[1]]
  BY DEF AppliedLegs
<1> QED
  BY <1>1, <1>2 DEF Moved, MovedOn

(* An account holds its opening balance and what the legs applied so far   *)
(* moved.                                                                  *)
LegsExplain ==
    \A id \in registered :
        balance[id] = Opening[id] + Moved(id, "Credit") - Moved(id, "Debit")

(* Every step keeps the balances explained. *)
LEMMA BalancesStep ==
  CoreInv /\ CoreInv' /\ LegsExplain /\ [Next]_vars => LegsExplain'
<1> SUFFICES ASSUME CoreInv, CoreInv', LegsExplain, [Next]_vars, NEW id \in registered
             PROVE  balance'[id] = Opening[id] + Moved(id, "Credit")' - Moved(id, "Debit")'
  BY DEF LegsExplain, CoreInv, TypeOK
<1>0. /\ id \in Ids /\ balance \in [Ids -> -I64Max - 1 .. I64Max] /\ Opening[id] \in Int
      /\ Moved(id, "Credit") \in Nat /\ Moved(id, "Debit") \in Nat
      /\ balance[id] = Opening[id] + Moved(id, "Credit") - Moved(id, "Debit")
  BY AppliedOK DEF CoreInv, TypeOK, LegsExplain
<1>1. ASSUME UNCHANGED <<journal, applied, balance>>
      PROVE  balance'[id] = Opening[id] + Moved(id, "Credit")' - Moved(id, "Debit")'
  <2>1. \A side : Moved(id, side)' = Moved(id, side)
    BY <1>1 DEF Moved, AppliedLegs
  <2> QED BY <1>0, <1>1, <2>1
<1>2. CASE Appends
  <2>1. PICK t \in Threads, x \in Txns, legs \in Seq(Legs), r \in Nat,
             next \in {"record", "reverse"} :
           /\ next = "record" => r = 0
           /\ AppendEntry(t, x, legs, r, next) /\ UNCHANGED book
    BY <1>2 DEF Appends
  <2>2. /\ \A k \in DOMAIN journal :
             k \in DOMAIN journal' /\ journal'[k] = journal[k] /\ applied'[k] = applied[k]
        /\ \A k \in DOMAIN journal' : k \in DOMAIN journal \/ applied'[k] = 0
    BY <2>1, AppendStep
  <2>3. Moved(id, "Credit")' = Moved(id, "Credit") /\ Moved(id, "Debit")' = Moved(id, "Debit")
    BY <2>2, MovedSame
  <2> QED BY <1>0, <2>1, <2>3 DEF book
<1>3. CASE Applies
  <2>1. PICK k \in DOMAIN journal :
          LET leg == journal[k].legs[applied[k] + 1]
          IN  /\ k \in DOMAIN applied /\ applied[k] \in Nat
              /\ leg \in Legs
              /\ \/ leg.side = "Debit" /\ Debit(leg.account, leg.amount)
                 \/ leg.side = "Credit" /\ Credit(leg.account, leg.amount)
              /\ applied' = [applied EXCEPT ![k] = @ + 1]
              /\ UNCHANGED journal
    BY <1>3 DEF Applies
  <2> DEFINE leg == journal[k].legs[applied[k] + 1]
             On(side) == IF leg.account = id /\ leg.side = side THEN leg.amount ELSE 0
  <2>2. /\ Moved(id, "Credit")' = Moved(id, "Credit") + On("Credit")
        /\ Moved(id, "Debit")' = Moved(id, "Debit") + On("Debit")
    BY <2>1, MovedStep
  <2>3. leg.amount \in Nat /\ leg.account \in Ids
    BY <2>1 DEF Legs
  <2>4. balance'[id] = balance[id] + On("Credit") - On("Debit")
    <3>1. CASE leg.side = "Debit" /\ Debit(leg.account, leg.amount)
      <4>1. /\ On("Credit") = 0
            /\ On("Debit") = IF leg.account = id THEN leg.amount ELSE 0
        BY <3>1
      <4>2. balance' = [balance EXCEPT ![leg.account] = @ - leg.amount]
        BY <3>1 DEF Debit
      <4> HIDE DEF leg, On
      <4> QED BY <1>0, <2>3, <4>1, <4>2
    <3>2. CASE leg.side = "Credit" /\ Credit(leg.account, leg.amount)
      <4>1. /\ On("Debit") = 0
            /\ On("Credit") = IF leg.account = id THEN leg.amount ELSE 0
        BY <3>2
      <4>2. balance' = [balance EXCEPT ![leg.account] = @ + leg.amount]
        BY <3>2 DEF Credit
      <4> HIDE DEF leg, On
      <4> QED BY <1>0, <2>3, <4>1, <4>2
    <3> QED BY <2>1, <3>1, <3>2
  <2>5. On("Credit") \in Nat /\ On("Debit") \in Nat
    BY <2>3
  <2> HIDE DEF leg, On
  <2> QED BY <1>0, <2>2, <2>4, <2>5
<1>4. CASE Commits \/ Neither
  BY <1>1, <1>4 DEF Commits, Neither, book
<1> QED
  BY <1>2, <1>3, <1>4, StepKinds

(* No leg is applied at the start. *)
LEMMA LegsInit == Init => LegsExplain
<1> SUFFICES ASSUME Init, NEW id \in registered
             PROVE  balance[id] = Opening[id] + Moved(id, "Credit") - Moved(id, "Debit")
  BY DEF LegsExplain
<1>1. AppliedLegs = {}
  BY DEF Init, AppliedLegs
<1>2. \A side : Moved(id, side) = 0
  <2>1. \A f : UNION {Tokens(p, f[p]) : p \in {}} = {}
    OBVIOUS
  <2>2. \A f : Total({}, f) = 0
    BY <2>1, FS_EmptySet DEF Total
  <2> QED BY <1>1, <2>2 DEF Moved, MovedOn
<1>3. id \in Ids /\ balance[id] = Opening[id] /\ Opening[id] \in Int
  BY DEF Init
<1> QED BY <1>2, <1>3

(* Every entry is applied in full, is being applied, or has failed. *)
Accounted ==
    \A k \in DOMAIN journal : AllApplied(k) \/ k \in failed \/ Working(k)

(* A call leaves an entry only when it is applied in full or has failed. *)
LEMMA AccountedStep == CoreInv /\ Accounted /\ [Next]_vars => Accounted'
<1> SUFFICES ASSUME CoreInv, Accounted, [Next]_vars PROVE Accounted'
  OBVIOUS
<1>0. /\ pc \in [Threads -> {"idle", "record", "found", "reverse"}]
      /\ entry \in [Threads -> Nat]
  BY DEF CoreInv, TypeOK
<1>1. ASSUME UNCHANGED <<journal, applied, failed, pc, entry>> PROVE Accounted'
  BY <1>1 DEF Accounted, AllApplied, Working
<1>2. ASSUME NEW t \in Threads, pc[t] \notin {"record", "reverse"},
             UNCHANGED <<journal, applied, failed>>,
             \A u \in Threads \ {t} : pc'[u] = pc[u] /\ entry'[u] = entry[u]
      PROVE  Accounted'
  BY <1>2 DEF Accounted, AllApplied, Working
<1>3. ASSUME NEW t \in Threads, AllApplied(entry[t]) \/ failed' = failed \cup {entry[t]},
             UNCHANGED <<journal, applied>>, failed \subseteq failed', Return(t)
      PROVE  Accounted'
  <2> SUFFICES ASSUME NEW k \in DOMAIN journal
               PROVE  AllApplied(k) \/ k \in failed' \/ Working(k)'
    BY <1>3 DEF Accounted, AllApplied
  <2>1. CASE k = entry[t]
    BY <1>3, <2>1
  <2>2. CASE k # entry[t]
    <3>1. ASSUME Working(k) PROVE Working(k)'
      <4>1. PICK u \in Threads : pc[u] \in {"record", "reverse"} /\ entry[u] = k
        BY <3>1 DEF Working
      <4>2. pc'[u] = pc[u] /\ entry'[u] = entry[u]
        BY <1>0, <1>3, <2>2, <4>1 DEF Return
      <4> QED BY <4>1, <4>2 DEF Working
    <3> QED BY <1>3, <3>1 DEF Accounted
  <2> QED BY <2>1, <2>2
<1>4. ASSUME NEW t \in Threads, pc[t] \notin {"record", "reverse"}, NEW x \in Txns,
             NEW legs \in Seq(Legs), NEW r \in Nat, NEW next \in {"record", "reverse"},
             next = "record" => r = 0, AppendEntry(t, x, legs, r, next), UNCHANGED failed
      PROVE  Accounted'
  <2>0. PICK n : n = Len(journal) + 1
    OBVIOUS
  <2>1. /\ \A k \in DOMAIN journal : journal'[k] = journal[k] /\ applied'[k] = applied[k]
        /\ \A k \in DOMAIN journal' : k \in DOMAIN journal \/ k = n
    BY <1>4, <2>0, AppendStep
  <2>2. pc' = [pc EXCEPT ![t] = next] /\ entry' = [entry EXCEPT ![t] = n]
    BY <1>4, <2>0 DEF AppendEntry
  <2>3. Working(n)'
    BY <1>0, <1>4, <2>2 DEF Working
  <2>4. ASSUME NEW k \in DOMAIN journal, Working(k) PROVE Working(k)'
    <3>1. PICK u \in Threads : pc[u] \in {"record", "reverse"} /\ entry[u] = k
      BY <2>4 DEF Working
    <3>2. pc'[u] = pc[u] /\ entry'[u] = entry[u]
      BY <1>0, <1>4, <2>2, <3>1
    <3> QED BY <3>1, <3>2 DEF Working
  <2> QED BY <1>4, <2>1, <2>3, <2>4 DEF Accounted, AllApplied
<1>5. CASE UNCHANGED vars
  BY <1>1, <1>5 DEF vars
<1>6. ASSUME NEW x \in Txns, BeginTransaction(x) PROVE Accounted'
  BY <1>1, <1>6 DEF BeginTransaction
<1>7. ASSUME NEW t \in Threads, NEW x \in Txns, NEW legs \in LegLists, RecordEntry(t, x, legs)
      PROVE  Accounted'
  <2>1. CASE AppendEntry(t, x, legs, 0, "record")
    <3>1. legs \in Seq(Legs) /\ pc[t] \notin {"record", "reverse"} /\ UNCHANGED failed
      BY <1>7 DEF RecordEntry
    <3> QED BY <1>4, <2>1, <3>1
  <2>2. CASE UNCHANGED <<journal, applied, pc, entry, reversal>>
    BY <1>1, <1>7, <2>2 DEF RecordEntry
  <2> QED BY <1>7, <2>1, <2>2 DEF RecordEntry
<1>8. ASSUME NEW t \in Threads, ApplyLeg(t) PROVE Accounted'
  <2>1. /\ UNCHANGED journal /\ entry[t] \in DOMAIN journal
        /\ \/ /\ applied' = [applied EXCEPT ![entry[t]] = @ + 1]
              /\ UNCHANGED <<failed, pc, entry>>
           \/ Return(t) /\ failed' = failed \cup {entry[t]} /\ UNCHANGED <<book, applied>>
    BY <1>8, ApplyLegCases
  <2>2. CASE /\ applied' = [applied EXCEPT ![entry[t]] = @ + 1]
             /\ UNCHANGED <<failed, pc, entry>>
    <3>1. pc[t] \in {"record", "reverse"}
      BY <1>8 DEF ApplyLeg
    <3>2. Working(entry[t])' /\ \A k : Working(k)' <=> Working(k)
      BY <2>2, <3>1 DEF Working
    <3>3. \A k \in DOMAIN journal \ {entry[t]} : applied'[k] = applied[k]
      BY <2>2, EntryParts
    <3> QED BY <2>1, <2>2, <3>2, <3>3 DEF Accounted, AllApplied
  <2>3. CASE Return(t) /\ failed' = failed \cup {entry[t]} /\ UNCHANGED <<book, applied>>
    BY <1>3, <2>1, <2>3
  <2> QED BY <2>1, <2>2, <2>3
<1>9. ASSUME NEW t \in Threads, CommitTransaction(t) PROVE Accounted'
  BY <1>3, <1>9 DEF CommitTransaction
<1>10. ASSUME NEW t \in Threads, NEW k, NEW x \in Txns, ReverseFind(t, k, x)
       PROVE  Accounted'
  BY <1>0, <1>2, <1>10 DEF ReverseFind
<1>11. ASSUME NEW t \in Threads, ReverseAppend(t) PROVE Accounted'
  <2>1. entry[t] \in DOMAIN journal /\ reversal[t] \in Txns /\ entry[t] \in Nat
    BY <1>11 DEF ReverseAppend, CoreInv, TypeOK, InHand
  <2>2. ReverseLegs(journal[entry[t]].legs) \in Seq(Legs)
    BY <2>1, EntryParts, ReverseLegsOK
  <2>3. pc[t] \notin {"record", "reverse"} /\ UNCHANGED failed
    BY <1>11 DEF ReverseAppend
  <2>4. CASE AppendEntry(t, reversal[t], ReverseLegs(journal[entry[t]].legs), entry[t], "reverse")
    BY <1>4, <2>1, <2>2, <2>3, <2>4
  <2>5. CASE Return(t) /\ UNCHANGED <<journal, applied>>
    BY <1>0, <1>2, <2>3, <2>5 DEF Return
  <2> QED BY <1>11, <2>4, <2>5 DEF ReverseAppend
<1>12. ASSUME NEW t \in Threads, ReverseDone(t) PROVE Accounted'
  BY <1>3, <1>12 DEF ReverseDone
<1>13. ASSUME NEW id \in Ids, NEW new \in Statuses, ChangeStatus(id, new) PROVE Accounted'
  BY <1>1, <1>13 DEF ChangeStatus
<1> QED
  BY <1>5, <1>6, <1>7, <1>8, <1>9, <1>10, <1>11, <1>12, <1>13 DEF Next

(* Where every entry that names an account is applied in full, the applied *)
(* legs on the account are all the legs on it.                             *)
LEMMA AllOnAccount ==
  ASSUME CoreInv, NEW id, NEW side,
         \A k \in DOMAIN journal : Names(k, id) => AllApplied(k)
  PROVE  Moved(id, side) = Recorded(id, side)
<1> DEFINE A == AppliedLegs
           P == LegPositions(journal)
           w(Q) == OnAccount(Q, id, side)
           tok(Q) == UNION {Tokens(p, w(Q)[p]) : p \in Q}
<1>1. Moved(id, side) = Cardinality(tok(A)) /\ Recorded(id, side) = Cardinality(tok(P))
  BY DEF Moved, Recorded, MovedOn, OnAccount, Leg, Total
<1>2. ASSUME NEW Q, NEW z
      PROVE  z \in tok(Q) <=> \E p \in Q : z \in Tokens(p, w(Q)[p])
  OBVIOUS
<1>3. ASSUME NEW Q, NEW p \in Q
      PROVE  w(Q)[p] = IF Leg(p).account = id /\ Leg(p).side = side THEN Leg(p).amount ELSE 0
  BY DEF OnAccount
<1>4. A \subseteq P
  <2> SUFFICES ASSUME NEW p \in A PROVE p \in P
    OBVIOUS
  <2>1. PICK k \in DOMAIN journal : p \in {k} \X (1 .. applied[k])
    BY DEF AppliedLegs
  <2>2. 1 .. applied[k] \subseteq DOMAIN journal[k].legs
    BY EntryParts
  <2> QED BY <2>1, <2>2 DEF LegPositions
<1>5. ASSUME NEW p \in P, p \notin A PROVE Leg(p).account # id
  <2>1. PICK k \in DOMAIN journal : p \in {k} \X DOMAIN journal[k].legs
    BY DEF LegPositions
  <2>2. ~ AllApplied(k)
    <3> SUFFICES ASSUME AllApplied(k) PROVE FALSE
      OBVIOUS
    <3>1. DOMAIN journal[k].legs = 1 .. applied[k]
      BY EntryParts DEF AllApplied
    <3> QED BY <1>5, <2>1, <3>1 DEF AppliedLegs
  <2>3. p[1] = k /\ p[2] \in DOMAIN journal[k].legs
    BY <2>1
  <2> QED BY <2>2, <2>3 DEF Names, Leg
<1>6. \A p : Tokens(p, 0) = {}
  BY DEF Tokens
<1> HIDE DEF A, P, w, tok
<1>7. ASSUME NEW z PROVE z \in tok(A) <=> z \in tok(P)
  <2>1. ASSUME z \in tok(A) PROVE z \in tok(P)
    <3>1. PICK p \in A : z \in Tokens(p, w(A)[p])
      BY <1>2, <2>1
    <3>2. p \in P /\ w(A)[p] = w(P)[p]
      BY <1>3, <1>4, <3>1
    <3> QED BY <1>2, <3>1, <3>2
  <2>2. ASSUME z \in tok(P) PROVE z \in tok(A)
    <3>1. PICK p \in P : z \in Tokens(p, w(P)[p])
      BY <1>2, <2>2
    <3>2. w(P)[p] # 0
      BY <1>6, <3>1
    <3>3. p \in A
      BY <1>3, <1>5, <3>1, <3>2
    <3>4. w(A)[p] = w(P)[p]
      BY <1>3, <3>1, <3>3
    <3> QED BY <1>2, <3>1, <3>3, <3>4
  <2> QED BY <2>1, <2>2
<1>8. tok(A) = tok(P)
  BY <1>7
<1> QED BY <1>1, <1>8

(* Balances follow from the journal, whoever calls at once and whichever   *)
(* calls fail: only an entry that is being applied, or whose call returned *)
(* an error, sets an account apart from what the journal says of it.       *)
THEOREM BalancesAlwaysFollow == Spec => []BalancesFollowJournal
<1>1. Init => Accounted
  BY DEF Init, Accounted
<1>2. CoreInv /\ LegsExplain /\ Accounted => BalancesFollowJournal
  <2> SUFFICES ASSUME CoreInv, LegsExplain, Accounted, NEW id \in registered,
                      \A k \in DOMAIN journal : Names(k, id) => ~ Working(k) /\ k \notin failed
               PROVE  balance[id] = Opening[id] + Recorded(id, "Credit") - Recorded(id, "Debit")
    BY DEF BalancesFollowJournal
  <2>1. \A k \in DOMAIN journal : Names(k, id) => AllApplied(k)
    BY DEF Accounted
  <2>2. /\ Moved(id, "Credit") = Recorded(id, "Credit")
        /\ Moved(id, "Debit") = Recorded(id, "Debit")
    BY <2>1, AllOnAccount
  <2> QED BY <2>2 DEF LegsExplain
<1> QED
  BY <1>1, <1>2, CoreInit, CoreStep, LegsInit, BalancesStep, AccountedStep, PTL DEF Spec
=============================================================================
