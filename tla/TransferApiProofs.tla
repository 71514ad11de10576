-------------------------- MODULE TransferApiProofs --------------------------
(***************************************************************************)
(* Conservation of money by the handlers of TransferApi.tla and the        *)
(* completeness of their audit trail, for any number of accounts and       *)
(* worker threads and any amounts.                                         *)
(***************************************************************************)
EXTENDS TransferApi, TotalsProofs

USE ApiAssumption

(* The two legs of an entry are opposite and equal. *)
Mirrored(e) ==
    /\ e.legs[1].amount = e.legs[2].amount
    /\ e.legs[1].side # e.legs[2].side

EntriesOK ==
    /\ \A t \in Threads : pc[t] # "idle" => entry[t] \in Entries /\ Mirrored(entry[t])
    /\ \A k \in DOMAIN journal : Mirrored(journal[k])

CoreInv == TypeOK /\ EntriesOK

(* The handlers start well-typed. *)
LEMMA CoreInit == Init => CoreInv
<1> SUFFICES ASSUME Init PROVE CoreInv
  OBVIOUS
<1>1. journal \in Seq(Entries) /\ chain \in Seq(Nat)
  BY DEF Init
<1> QED
  BY <1>1 DEF Init, CoreInv, TypeOK, EntriesOK, Statuses, Labels

BookOK ==
    /\ registered \subseteq Ids
    /\ balance \in [Ids -> -I64Max - 1 .. I64Max]
    /\ status \in [Ids -> Statuses]

(* The money on all accounts. *)
OnAccounts == NetTotal(Ids, balance)

(* Changing one balance to a value in range changes the sum accordingly. *)
LEMMA BalanceChange ==
  ASSUME BookOK, NEW id \in Ids, NEW v \in -I64Max - 1 .. I64Max,
         balance' = [balance EXCEPT ![id] = v]
  PROVE  /\ balance' \in [Ids -> -I64Max - 1 .. I64Max]
         /\ OnAccounts \in Int
         /\ OnAccounts' = OnAccounts - balance[id] + v
<1>1. balance \in [Ids -> Int] /\ balance' \in [Ids -> Int]
  BY DEF BookOK
<1>2. balance'[id] = v /\ \A x \in Ids \ {id} : balance'[x] = balance[x]
  BY <1>1
<1>3. NetTotal(Ids, balance') = NetTotal(Ids, balance) - balance[id] + balance'[id]
  <2> DEFINE g == balance'
  <2>1. g \in [Ids -> Int] /\ \A x \in Ids \ {id} : g[x] = balance[x]
    BY <1>1, <1>2
  <2> HIDE DEF g
  <2>2. NetTotal(Ids, g) = NetTotal(Ids, balance) - balance[id] + g[id]
    BY <1>1, <2>1, NetTotalChange
  <2> QED BY <2>2 DEF g
<1>4. NetTotal(Ids, balance) \in Int
  BY <1>1, NetTotalType
<1> QED
  BY <1>2, <1>3, <1>4 DEF OnAccounts, BookOK

(* A debit lowers the sum by its amount. *)
LEMMA DebitChange ==
  ASSUME BookOK, NEW id \in Ids, NEW a \in Int, Debit(id, a)
  PROVE  BookOK' /\ OnAccounts \in Int /\ OnAccounts' = OnAccounts - a
<1>1. balance[id] \in -I64Max - 1 .. I64Max /\ balance[id] - a \in -I64Max - 1 .. I64Max
  BY DEF BookOK, Debit, CanDebit
<1>2. balance' = [balance EXCEPT ![id] = balance[id] - a]
  BY DEF Debit
<1>3. /\ balance' \in [Ids -> -I64Max - 1 .. I64Max]
      /\ OnAccounts \in Int
      /\ OnAccounts' = OnAccounts - balance[id] + (balance[id] - a)
  BY <1>1, <1>2, BalanceChange
<1> QED
  BY <1>1, <1>3 DEF BookOK, Debit

(* A credit raises the sum by its amount. *)
LEMMA CreditChange ==
  ASSUME BookOK, NEW id \in Ids, NEW a \in Int, Credit(id, a)
  PROVE  BookOK' /\ OnAccounts \in Int /\ OnAccounts' = OnAccounts + a
<1>1. balance[id] \in -I64Max - 1 .. I64Max /\ balance[id] + a \in -I64Max - 1 .. I64Max
  BY DEF BookOK, Credit, CanCredit
<1>2. balance' = [balance EXCEPT ![id] = balance[id] + a]
  BY DEF Credit
<1>3. /\ balance' \in [Ids -> -I64Max - 1 .. I64Max]
      /\ OnAccounts \in Int
      /\ OnAccounts' = OnAccounts - balance[id] + (balance[id] + a)
  BY <1>1, <1>2, BalanceChange
<1> QED
  BY <1>1, <1>3 DEF BookOK, Credit

(* A step that leaves the accounts alone leaves the sum alone. *)
LEMMA BookSame ==
  ASSUME BookOK, UNCHANGED book
  PROVE  BookOK' /\ OnAccounts \in Int /\ OnAccounts' = OnAccounts
<1>1. balance \in [Ids -> Int]
  BY DEF BookOK
<1> QED
  BY <1>1, NetTotalType DEF OnAccounts, BookOK, book

(* The legs of a transfer are opposite and equal. *)
LEMMA TransferEntryOK ==
  ASSUME NEW from \in Ids, NEW to \in Ids, NEW a \in Amounts
  PROVE  /\ TransferEntry(from, to, a) \in Entries
         /\ Mirrored(TransferEntry(from, to, a))
<1> DEFINE legs == <<DebitLeg(to, a), CreditLeg(from, a)>>
<1>1. DebitLeg(to, a) \in Legs /\ CreditLeg(from, a) \in Legs
  BY DEF DebitLeg, CreditLeg, LegOf, Legs
<1>2. legs \in [1 .. 2 -> Legs]
  BY <1>1
<1>3. legs[1].amount = legs[2].amount /\ legs[1].side # legs[2].side
  BY DEF DebitLeg, CreditLeg, LegOf
<1>4. TransferEntry(from, to, a)
        = [seq |-> 0, reverses |-> 0, legs |-> legs, out |-> from, in |-> to]
  BY DEF TransferEntry
<1> HIDE DEF legs
<1> QED
  BY <1>2, <1>3, <1>4 DEF Entries, Mirrored

(* So are the legs of a reversal of such an entry. *)
LEMMA ReversalEntryOK ==
  ASSUME NEW o \in Entries, Mirrored(o)
  PROVE  /\ ReversalEntry(o) \in Entries
         /\ Mirrored(ReversalEntry(o))
<1> DEFINE legs == ReverseLegs(o.legs)
<1>1. o.legs \in [1 .. 2 -> Legs] /\ o.seq \in Nat
  BY DEF Entries
<1>2. legs \in [1 .. 2 -> Legs]
  BY <1>1 DEF ReverseLegs, Counterpart, Legs
<1>3. legs[1].amount = legs[2].amount /\ legs[1].side # legs[2].side
  BY <1>1 DEF ReverseLegs, Counterpart, Legs, Mirrored
<1>4. PICK x \in Ids, y \in Ids :
        ReversalEntry(o) = [seq |-> 0, reverses |-> o.seq, legs |-> legs,
                            out |-> x, in |-> y]
  <2>1. legs[1].account \in Ids /\ legs[2].account \in Ids
    BY <1>2 DEF Legs
  <2> HIDE DEF legs
  <2> QED BY <2>1 DEF ReversalEntry, legs
<1> HIDE DEF legs
<1> QED
  BY <1>1, <1>2, <1>3, <1>4 DEF Entries, Mirrored

-----------------------------------------------------------------------------
(* What the step of one thread does to the three sums: on the accounts,    *)
(* taken and not yet given, given and not yet taken.                       *)
Transit == <<Total(Threads, Taken), Total(Threads, Given)>>

LEMMA TransitChange ==
  ASSUME CoreInv, CoreInv', NEW t \in Threads,
         \A s \in Threads \ {t} : pc'[s] = pc[s] /\ entry'[s] = entry[s]
  PROVE  /\ Transit[1] \in Nat /\ Transit[2] \in Nat
         /\ Transit'[1] = Transit[1] - Taken[t] + Taken'[t]
         /\ Transit'[2] = Transit[2] - Given[t] + Given'[t]
<1>1. ASSUME NEW s \in Threads, pc[s] # "idle" PROVE AmountOf(s) \in Nat
  BY <1>1 DEF CoreInv, EntriesOK, AmountOf, Entries, Legs
<1>2. ASSUME NEW s \in Threads, pc'[s] # "idle" PROVE AmountOf(s)' \in Nat
  BY <1>2 DEF CoreInv, EntriesOK, AmountOf, Entries, Legs
<1>3. Taken \in [Threads -> Nat] /\ Given \in [Threads -> Nat]
  BY <1>1 DEF Taken, Given
<1>4. Taken' \in [Threads -> Nat] /\ Given' \in [Threads -> Nat]
  BY <1>2 DEF Taken, Given
<1>5. \A s \in Threads \ {t} : Taken'[s] = Taken[s] /\ Given'[s] = Given[s]
  BY DEF Taken, Given, AmountOf
<1>6. Total(Threads, Taken') = Total(Threads, Taken) - Taken[t] + Taken'[t]
  BY <1>3, <1>4, <1>5, TotalChange
<1>7. Total(Threads, Given') = Total(Threads, Given) - Given[t] + Given'[t]
  BY <1>3, <1>4, <1>5, TotalChange
<1>8. Total(Threads, Taken) \in Nat /\ Total(Threads, Given) \in Nat
  BY <1>3, TotalType
<1> QED
  BY <1>6, <1>7, <1>8 DEF Transit

(* Giving an entry its number changes nothing else. *)
LEMMA NumberedEntryOK ==
  ASSUME NEW e \in Entries, Mirrored(e), NEW n \in Nat
  PROVE  /\ [e EXCEPT !.seq = n] \in Entries
         /\ Mirrored([e EXCEPT !.seq = n])
  BY DEF Entries, Mirrored

-----------------------------------------------------------------------------
(* A thread at work holds a well-formed entry. *)
LEMMA EntryInHand ==
  ASSUME CoreInv, NEW t \in Threads, pc[t] # "idle"
  PROVE  /\ entry[t] \in Entries /\ Mirrored(entry[t])
         /\ entry[t].out \in Ids /\ entry[t].in \in Ids
         /\ AmountOf(t) \in Nat
         /\ \A i \in {1, 2} : /\ entry[t].legs[i] \in Legs
                              /\ entry[t].legs[i].account \in Ids
                              /\ entry[t].legs[i].amount = AmountOf(t)
<1>1. entry[t] \in Entries /\ Mirrored(entry[t])
  BY DEF CoreInv, EntriesOK
<1>2. entry[t].legs \in [1 .. 2 -> Legs]
  BY <1>1 DEF Entries
<1>3. entry[t].legs[1] \in Legs /\ entry[t].legs[2] \in Legs
  BY <1>2
<1> QED
  BY <1>1, <1>3 DEF Entries, Legs, AmountOf, Mirrored

(* A leg of a reversal that is applied moves its amount one way or the     *)
(* other.                                                                  *)
LEMMA LegChange ==
  ASSUME BookOK, NEW leg \in Legs, LegSucceeds(leg)
  PROVE  /\ BookOK' /\ OnAccounts \in Int
         /\ leg.side = "Debit" => OnAccounts' = OnAccounts - leg.amount
         /\ leg.side = "Credit" => OnAccounts' = OnAccounts + leg.amount
<1>1. leg.account \in Ids /\ leg.amount \in Int
  BY DEF Legs
<1>2. CASE leg.side = "Debit" /\ Debit(leg.account, leg.amount)
  BY <1>1, <1>2, DebitChange
<1>3. CASE leg.side = "Credit" /\ Credit(leg.account, leg.amount)
  BY <1>1, <1>3, CreditChange
<1> QED
  BY <1>2, <1>3 DEF LegSucceeds

(* Every step keeps the accounts well-typed. *)
LEMMA BookStep == CoreInv /\ [Next]_vars => BookOK'
<1> SUFFICES ASSUME CoreInv, [Next]_vars PROVE BookOK'
  OBVIOUS
<1>0. BookOK
  BY DEF CoreInv, TypeOK, BookOK
<1>1. CASE UNCHANGED book
  BY <1>0, <1>1, BookSame
<1>2. ASSUME NEW id \in Ids, NEW a \in Int, Debit(id, a) \/ Credit(id, a)
      PROVE  BookOK'
  BY <1>0, <1>2, DebitChange, CreditChange
<1>3. ASSUME NEW id \in Ids, NEW new \in Statuses, SetStatus(id, new) PROVE BookOK'
  BY <1>0, <1>3 DEF BookOK, SetStatus
<1>4. ASSUME NEW id \in Ids, NEW i \in InitialBalances, Register(id, i) PROVE BookOK'
  BY <1>0, <1>4 DEF BookOK, Register, Statuses
<1>5. ASSUME NEW t \in Threads, Step(t) PROVE BookOK'
  <2>1. CASE UNCHANGED book
    BY <1>1, <2>1
  <2>2. CASE TransferDebit(t) \/ TransferCredit(t) \/ TransferRollback(t)
    <3>1. entry[t].out \in Ids /\ entry[t].in \in Ids /\ AmountOf(t) \in Int
      BY <2>2, EntryInHand DEF TransferDebit, TransferCredit, TransferRollback
    <3> QED
      BY <1>1, <1>2, <2>2, <3>1
      DEF TransferDebit, TransferCredit, TransferRollback
  <2>3. CASE ReverseLeg1(t) \/ ReverseLeg2(t)
    <3>1. entry[t].legs[1] \in Legs /\ entry[t].legs[2] \in Legs
      BY <2>3, EntryInHand DEF ReverseLeg1, ReverseLeg2
    <3> QED
      BY <1>0, <1>1, <2>3, <3>1, LegChange DEF ReverseLeg1, ReverseLeg2
  <2> QED
    BY <1>5, <2>1, <2>2, <2>3
    DEF Step, TransferSeq, ReverseSeq, TakeNumber, TransferChain,
        TransferJournal, ReverseChain, ReverseJournal, book
<1>6. CASE UNCHANGED vars
  BY <1>1, <1>6 DEF vars, book
<1>7. CASE Next
  BY <1>1, <1>2, <1>3, <1>4, <1>5, <1>7
  DEF Next, CreateAccount, DebitAccount, CreditAccount, SetAccountStatus,
      TransferStart, ReverseStart
<1> QED
  BY <1>6, <1>7

(* Every step keeps the rest of the state well-typed, and every entry in   *)
(* hand or in the journal mirrored.                                        *)
LEMMA CoreStep == CoreInv /\ [Next]_vars => CoreInv'
<1> SUFFICES ASSUME CoreInv, [Next]_vars PROVE CoreInv'
  OBVIOUS
<1>0. BookOK'
  BY BookStep
<1> DEFINE Local ==
        /\ pc \in [Threads -> Labels]
        /\ entry \in [Threads -> Entries \cup {NoEntry}]
        /\ \A s \in Threads : pc[s] # "idle" => entry[s] \in Entries /\ Mirrored(entry[s])
    Audit ==
        /\ journalSeq \in Nat
        /\ chain \in Seq(Nat)
        /\ journal \in Seq(Entries)
        /\ \A k \in DOMAIN journal : Mirrored(journal[k])
    Counts ==
        /\ requests \in Nat
        /\ booked \in Int /\ lost \in Nat /\ minted \in Nat
<1>1. Local /\ Audit /\ Counts
  BY DEF CoreInv, TypeOK, EntriesOK
<1>2. ASSUME Local', Audit', Counts' PROVE CoreInv'
  BY <1>0, <1>2 DEF CoreInv, TypeOK, EntriesOK, BookOK
<1>3. CASE UNCHANGED vars
  BY <1>1, <1>2, <1>3 DEF vars
<1>4. ASSUME NEW id \in Ids, NEW i \in InitialBalances, CreateAccount(id, i)
      PROVE  CoreInv'
  BY <1>1, <1>2, <1>4 DEF CreateAccount, audit
<1>5. ASSUME NEW id \in Ids, NEW a \in Amounts, DebitAccount(id, a) \/ CreditAccount(id, a)
      PROVE  CoreInv'
  BY <1>1, <1>2, <1>5 DEF DebitAccount, CreditAccount, audit
<1>6. ASSUME NEW id \in Ids, NEW new \in Statuses, SetAccountStatus(id, new)
      PROVE  CoreInv'
  BY <1>1, <1>2, <1>6 DEF SetAccountStatus, audit, history
<1>7. ASSUME NEW t \in Threads, NEW e, e \in Entries /\ Mirrored(e),
             NEW label \in Labels, Begin(t, label, e), UNCHANGED <<book, audit, history>>
      PROVE  CoreInv'
  BY <1>1, <1>2, <1>7 DEF Begin, audit, history
<1>8. ASSUME NEW t \in Threads, NEW from \in Ids, NEW to \in Ids, NEW a \in Amounts,
             TransferStart(t, from, to, a)
      PROVE  CoreInv'
  BY <1>7, <1>8, TransferEntryOK DEF TransferStart, Labels
<1>9. ASSUME NEW t \in Threads, NEW k \in DOMAIN journal, ReverseStart(t, k)
      PROVE  CoreInv'
  <2>1. journal[k] \in Entries /\ Mirrored(journal[k])
    BY <1>1
  <2> QED
    BY <1>7, <1>9, <2>1, ReversalEntryOK DEF ReverseStart, Labels
<1>10. ASSUME NEW t \in Threads, Step(t) PROVE CoreInv'
  <2>1. pc[t] # "idle"
    BY <1>10 DEF Step, TransferSeq, ReverseSeq, TakeNumber, TransferChain,
      TransferJournal, TransferDebit, TransferCredit, TransferRollback,
      ReverseLeg1, ReverseLeg2, ReverseChain, ReverseJournal
  <2>2. entry[t] \in Entries /\ Mirrored(entry[t]) /\ AmountOf(t) \in Nat
    BY <2>1, EntryInHand
  <2>3. ASSUME Return(t) \/ \E label \in Labels : GoTo(t, label)
        PROVE  Local'
    BY <1>1, <2>2, <2>3 DEF Return, GoTo, Labels
  <2>4. CASE TransferSeq(t) \/ ReverseSeq(t)
    <3>1. CASE Return(t)
      BY <1>1, <1>2, <2>3, <2>4, <3>1 DEF TransferSeq, ReverseSeq, TakeNumber, history
    <3>2. ASSUME NEW label \in Labels, pc' = [pc EXCEPT ![t] = label],
                 entry' = [entry EXCEPT ![t].seq = journalSeq + 1]
          PROVE  CoreInv'
      <4>1. journalSeq + 1 \in Nat
        BY <1>1
      <4>2. /\ [entry[t] EXCEPT !.seq = journalSeq + 1] \in Entries
            /\ Mirrored([entry[t] EXCEPT !.seq = journalSeq + 1])
        BY <2>2, <4>1, NumberedEntryOK
      <4>3. Local'
        BY <1>1, <2>2, <3>2, <4>2
      <4> QED
        BY <1>1, <1>2, <2>4, <4>3 DEF TransferSeq, ReverseSeq, TakeNumber, history
    <3> QED
      BY <2>4, <3>1, <3>2 DEF TransferSeq, ReverseSeq, TakeNumber, Labels
  <2>5. CASE TransferChain(t) \/ ReverseChain(t)
    <3>1. entry[t].seq \in Nat
      BY <2>2 DEF Entries
    <3>2. chain' = Append(chain, entry[t].seq) /\ UNCHANGED <<journalSeq, journal>>
      BY <2>5 DEF TransferChain, ReverseChain
    <3>3. chain' \in Seq(Nat)
      BY <1>1, <3>1, <3>2
    <3>4. Audit'
      BY <1>1, <3>2, <3>3
    <3> QED
      BY <1>1, <1>2, <2>3, <2>5, <3>4 DEF TransferChain, ReverseChain, Labels, history
  <2>6. CASE TransferJournal(t) \/ ReverseJournal(t)
    <3>1. journal' = Append(journal, entry[t]) /\ UNCHANGED <<journalSeq, chain>>
      BY <2>6 DEF TransferJournal, ReverseJournal
    <3>2. journal' \in Seq(Entries)
      BY <1>1, <2>2, <3>1
    <3>3. \A k \in DOMAIN journal' : Mirrored(journal'[k])
      BY <1>1, <2>2, <3>1
    <3> QED
      BY <1>1, <1>2, <2>3, <2>6, <3>1, <3>2, <3>3
      DEF TransferJournal, ReverseJournal, Labels, history
  <2>7. CASE TransferDebit(t) \/ TransferCredit(t) \/ ReverseLeg1(t)
    BY <1>1, <1>2, <2>3, <2>7
    DEF TransferDebit, TransferCredit, ReverseLeg1, Labels, audit, history
  <2>8. CASE TransferRollback(t) \/ ReverseLeg2(t)
    BY <1>1, <1>2, <2>2, <2>3, <2>8 DEF TransferRollback, ReverseLeg2, Labels, audit
  <2> QED
    BY <1>10, <2>4, <2>5, <2>6, <2>7, <2>8 DEF Step
<1> HIDE DEF Local, Audit, Counts
<1> QED
  BY <1>3, <1>4, <1>5, <1>6, <1>8, <1>9, <1>10 DEF Next

(* Type correctness of the handlers. *)
THEOREM TypeCorrect == Spec => []TypeOK
<1>1. CoreInv => TypeOK
  BY DEF CoreInv
<1> QED
  BY <1>1, CoreInit, CoreStep, PTL DEF Spec

-----------------------------------------------------------------------------
(* An account holds nothing before create_account registers it. *)
UnregisteredEmpty == \A id \in Ids \ registered : balance[id] = 0

MoneyInv == MoneyConserved /\ UnregisteredEmpty

(* MoneyConserved in terms of the three sums. *)
LEMMA MoneyAsSums ==
  MoneyConserved <=>
    OnAccounts + Transit[1] + lost = booked + Transit[2] + minted
  BY DEF MoneyConserved, OnAccounts, Transit

(* There is no money at the start. *)
LEMMA MoneyInit == Init => MoneyInv
<1> SUFFICES ASSUME Init PROVE MoneyInv
  OBVIOUS
<1>1. \A id \in Ids : balance[id] = 0
  BY DEF Init
<1>2. \A t \in Threads : Taken[t] = 0 /\ Given[t] = 0
  BY DEF Init, Taken, Given
<1>3. balance \in [Ids -> Int] /\ Taken \in [Threads -> Nat] /\ Given \in [Threads -> Nat]
  <2>1. DOMAIN Taken = Threads /\ DOMAIN Given = Threads
    BY DEF Taken, Given
  <2> QED BY <1>2, <2>1 DEF Init, Taken, Given
<1>4. NetTotal(Ids, balance) = 0
  BY <1>1, <1>3, NetTotalZero
<1>5. Total(Threads, Taken) = 0 /\ Total(Threads, Given) = 0
  BY <1>2, <1>3, TotalZero
<1> QED
  BY <1>1, <1>4, <1>5 DEF Init, MoneyInv, MoneyConserved, UnregisteredEmpty

(* Debits and credits reach registered accounts only. *)
LEMMA UnregisteredStep ==
  CoreInv /\ UnregisteredEmpty /\ [Next]_vars => UnregisteredEmpty'
<1> SUFFICES ASSUME CoreInv, UnregisteredEmpty, [Next]_vars PROVE UnregisteredEmpty'
  OBVIOUS
<1>0. balance \in [Ids -> -I64Max - 1 .. I64Max]
  BY DEF CoreInv, TypeOK
<1>1. CASE UNCHANGED book
  BY <1>1 DEF UnregisteredEmpty, book
<1>2. ASSUME NEW id, NEW a, Debit(id, a) \/ Credit(id, a) PROVE UnregisteredEmpty'
  BY <1>0, <1>2 DEF UnregisteredEmpty, Debit, Credit, CanDebit, CanCredit
<1>3. ASSUME NEW id, NEW new, SetStatus(id, new) PROVE UnregisteredEmpty'
  BY <1>3 DEF UnregisteredEmpty, SetStatus
<1>4. ASSUME NEW id, NEW i, Register(id, i) PROVE UnregisteredEmpty'
  BY <1>0, <1>4 DEF UnregisteredEmpty, Register
<1>5. ASSUME NEW t \in Threads, Step(t) PROVE UnregisteredEmpty'
  BY <1>1, <1>2, <1>5
  DEF Step, TransferSeq, ReverseSeq, TakeNumber, TransferChain, TransferJournal,
      TransferDebit, TransferCredit, TransferRollback, ReverseLeg1, ReverseLeg2,
      LegSucceeds, ReverseChain, ReverseJournal, book
<1>6. CASE UNCHANGED vars
  BY <1>1, <1>6 DEF vars, book
<1>7. CASE Next
  BY <1>1, <1>2, <1>3, <1>4, <1>5, <1>7
  DEF Next, CreateAccount, DebitAccount, CreditAccount, SetAccountStatus,
      TransferStart, ReverseStart
<1> QED
  BY <1>6, <1>7

(* A step of no request leaves the money in transit alone. *)
LEMMA TransitSame ==
  ASSUME UNCHANGED <<pc, entry>>
  PROVE  Transit' = Transit
<1>1. Taken' = Taken /\ Given' = Given
  BY DEF Taken, Given, AmountOf
<1> QED
  BY <1>1 DEF Transit

(* The sums are numbers, those in transit not negative. *)
LEMMA SumsType ==
  ASSUME CoreInv
  PROVE  OnAccounts \in Int /\ Transit[1] \in Nat /\ Transit[2] \in Nat
<1>1. ASSUME NEW s \in Threads, pc[s] # "idle" PROVE AmountOf(s) \in Nat
  BY <1>1 DEF CoreInv, EntriesOK, AmountOf, Entries, Legs
<1>2. Taken \in [Threads -> Nat] /\ Given \in [Threads -> Nat]
  BY <1>1 DEF Taken, Given
<1>3. balance \in [Ids -> Int]
  BY DEF CoreInv, TypeOK
<1> QED
  BY <1>2, <1>3, TotalType, NetTotalType DEF OnAccounts, Transit

(* Every step of a request moves money between the three sums or reports   *)
(* it as lost or minted.                                                   *)
LEMMA StepConserves ==
  ASSUME CoreInv, CoreInv', MoneyConserved, NEW t \in Threads, Step(t)
  PROVE  MoneyConserved'
<1> DEFINE On == OnAccounts  Tk == Transit[1]  Gv == Transit[2]  am == AmountOf(t)
<1>0. BookOK /\ On \in Int /\ Tk \in Nat /\ Gv \in Nat
  BY SumsType DEF CoreInv, TypeOK, BookOK
<1>1. On + Tk + lost = booked + Gv + minted
  BY MoneyAsSums
<1>2. booked \in Int /\ lost \in Nat /\ minted \in Nat
  BY DEF CoreInv, TypeOK
<1>3. SUFFICES On' + Tk' + lost' = booked' + Gv' + minted'
  BY MoneyAsSums DEF MoneyConserved, OnAccounts, Transit
<1>4. pc[t] # "idle"
  BY DEF Step, TransferSeq, ReverseSeq, TakeNumber, TransferChain,
    TransferJournal, TransferDebit, TransferCredit, TransferRollback,
    ReverseLeg1, ReverseLeg2, ReverseChain, ReverseJournal
<1>5. /\ am \in Nat /\ entry[t].out \in Ids /\ entry[t].in \in Ids
      /\ entry[t].legs[1] \in Legs /\ entry[t].legs[2] \in Legs
      /\ entry[t].legs[1].amount = am /\ entry[t].legs[2].amount = am
      /\ \/ entry[t].legs[1].side = "Debit" /\ entry[t].legs[2].side = "Credit"
         \/ entry[t].legs[1].side = "Credit" /\ entry[t].legs[2].side = "Debit"
  <2>1. /\ entry[t].legs[1] \in Legs /\ entry[t].legs[2] \in Legs
        /\ entry[t].legs[1].side # entry[t].legs[2].side
    BY <1>4, EntryInHand DEF Mirrored
  <2>2. entry[t].legs[1].side \in {"Debit", "Credit"} /\ entry[t].legs[2].side \in {"Debit", "Credit"}
    BY <2>1 DEF Legs
  <2> QED BY <1>4, <2>1, <2>2, EntryInHand
<1>6. pc \in [Threads -> Labels] /\ DOMAIN entry = Threads
  BY DEF CoreInv, TypeOK
<1>7. /\ Taken[t] \in Int /\ Given[t] \in Int
      /\ Tk' = Tk - Taken[t] + Taken'[t] /\ Gv' = Gv - Given[t] + Given'[t]
  <2>1. \A s \in Threads \ {t} : pc'[s] = pc[s] /\ entry'[s] = entry[s]
    BY <1>6 DEF Step, TransferSeq, ReverseSeq, TakeNumber, TransferChain,
      TransferJournal, TransferDebit, TransferCredit, TransferRollback,
      ReverseLeg1, ReverseLeg2, ReverseChain, ReverseJournal, GoTo, Return
  <2>2. Taken[t] \in Int /\ Given[t] \in Int
    BY <1>5 DEF Taken, Given
  <2> QED BY <2>1, <2>2, TransitChange
<1>8. CASE TransferSeq(t) \/ ReverseSeq(t) \/ TransferChain(t) \/ ReverseChain(t)
           \/ TransferJournal(t) \/ ReverseJournal(t)
  <2>1. Taken[t] = 0 /\ Given[t] = 0 /\ Taken'[t] = 0 /\ Given'[t] = 0
    BY <1>6, <1>8 DEF Taken, Given, TransferSeq, ReverseSeq, TakeNumber,
      TransferChain, ReverseChain, TransferJournal, ReverseJournal, GoTo, Return
  <2>2. UNCHANGED <<book, history>>
    BY <1>8 DEF TransferSeq, ReverseSeq, TakeNumber,
      TransferChain, ReverseChain, TransferJournal, ReverseJournal
  <2>3. On' = On
    BY <1>0, <2>2, BookSame
  <2> QED BY <1>0, <1>1, <1>2, <1>7, <2>1, <2>2, <2>3 DEF history
<1>9. CASE TransferDebit(t)
  <2>1. UNCHANGED history /\ Taken[t] = 0 /\ Given[t] = 0 /\ Given'[t] = 0
    BY <1>6, <1>9 DEF TransferDebit, Taken, Given, GoTo, Return
  <2>2. CASE Debit(entry[t].out, am) /\ GoTo(t, "credit")
    <3>1. Taken'[t] = am
      BY <1>6, <2>2 DEF Taken, GoTo, AmountOf
    <3>2. On' = On - am
      BY <1>0, <1>5, <2>2, DebitChange
    <3> QED BY <1>0, <1>1, <1>2, <1>5, <1>7, <2>1, <3>1, <3>2 DEF history
  <2>3. CASE Return(t) /\ UNCHANGED book
    <3>1. Taken'[t] = 0
      BY <1>6, <2>3 DEF Taken, Return
    <3>2. On' = On
      BY <1>0, <2>3, BookSame
    <3> QED BY <1>0, <1>1, <1>2, <1>7, <2>1, <3>1, <3>2 DEF history
  <2> QED BY <1>9, <2>2, <2>3 DEF TransferDebit
<1>10. CASE TransferCredit(t)
  <2>1. UNCHANGED history /\ Taken[t] = am /\ Given[t] = 0 /\ Given'[t] = 0
    BY <1>6, <1>10 DEF TransferCredit, Taken, Given, GoTo, Return
  <2>2. CASE Credit(entry[t].in, am) /\ Return(t)
    <3>1. Taken'[t] = 0
      BY <1>6, <2>2 DEF Taken, Return
    <3>2. On' = On + am
      BY <1>0, <1>5, <2>2, CreditChange
    <3> QED BY <1>0, <1>1, <1>2, <1>5, <1>7, <2>1, <3>1, <3>2 DEF history
  <2>3. CASE GoTo(t, "rollback") /\ UNCHANGED book
    <3>1. Taken'[t] = am
      BY <1>6, <2>3 DEF Taken, GoTo, AmountOf
    <3>2. On' = On
      BY <1>0, <2>3, BookSame
    <3> QED BY <1>0, <1>1, <1>2, <1>5, <1>7, <2>1, <3>1, <3>2 DEF history
  <2> QED BY <1>10, <2>2, <2>3 DEF TransferCredit
<1>11. CASE TransferRollback(t)
  <2>1. /\ UNCHANGED <<booked, minted>> /\ Taken[t] = am /\ Given[t] = 0
        /\ Taken'[t] = 0 /\ Given'[t] = 0
    BY <1>6, <1>11 DEF TransferRollback, Taken, Given, Return
  <2>2. CASE Credit(entry[t].out, am) /\ UNCHANGED lost
    <3>1. On' = On + am
      BY <1>0, <1>5, <2>2, CreditChange
    <3> QED BY <1>0, <1>1, <1>2, <1>5, <1>7, <2>1, <2>2, <3>1
  <2>3. CASE lost' = lost + am /\ UNCHANGED book
    <3>1. On' = On
      BY <1>0, <2>3, BookSame
    <3> QED BY <1>0, <1>1, <1>2, <1>5, <1>7, <2>1, <2>3, <3>1
  <2> QED BY <1>11, <2>2, <2>3 DEF TransferRollback
<1>12. CASE ReverseLeg1(t)
  <2>1. UNCHANGED history /\ Taken[t] = 0 /\ Given[t] = 0
    BY <1>6, <1>12 DEF ReverseLeg1, Taken, Given
  <2>2. CASE LegSucceeds(entry[t].legs[1]) /\ GoTo(t, "reverse_leg2")
    <3>1. /\ entry[t].legs[1].side = "Debit" =>
               On' = On - am /\ Taken'[t] = am /\ Given'[t] = 0
          /\ entry[t].legs[1].side = "Credit" =>
               On' = On + am /\ Taken'[t] = 0 /\ Given'[t] = am
      <4>1. /\ entry[t].legs[1].side = "Debit" => On' = On - am
            /\ entry[t].legs[1].side = "Credit" => On' = On + am
        BY <1>0, <1>5, <2>2, LegChange
      <4>2. pc'[t] = "reverse_leg2" /\ entry'[t] = entry[t]
        BY <1>6, <2>2 DEF GoTo
      <4>3. Taken'[t] = IF entry[t].legs[1].side = "Debit" THEN am ELSE 0
        BY <4>2 DEF Taken, AmountOf
      <4>4. Given'[t] = IF entry[t].legs[1].side = "Credit" THEN am ELSE 0
        BY <4>2 DEF Given, AmountOf
      <4> QED BY <4>1, <4>3, <4>4
    <3>2. CASE entry[t].legs[1].side = "Debit"
      BY <1>0, <1>1, <1>2, <1>5, <1>7, <2>1, <3>1, <3>2 DEF history
    <3>3. CASE entry[t].legs[1].side = "Credit"
      BY <1>0, <1>1, <1>2, <1>5, <1>7, <2>1, <3>1, <3>3 DEF history
    <3> QED BY <1>5, <3>2, <3>3
  <2>3. CASE Return(t) /\ UNCHANGED book
    <3>1. Taken'[t] = 0 /\ Given'[t] = 0
      BY <1>6, <2>3 DEF Taken, Given, Return
    <3>2. On' = On
      BY <1>0, <2>3, BookSame
    <3> QED BY <1>0, <1>1, <1>2, <1>7, <2>1, <3>1, <3>2 DEF history
  <2> QED BY <1>12, <2>2, <2>3 DEF ReverseLeg1
<1>13. CASE ReverseLeg2(t)
  <2>1. UNCHANGED booked /\ Taken'[t] = 0 /\ Given'[t] = 0
    BY <1>6, <1>13 DEF ReverseLeg2, Taken, Given, GoTo, Return
  <2>2. /\ entry[t].legs[1].side = "Debit" => Taken[t] = am /\ Given[t] = 0
        /\ entry[t].legs[1].side = "Credit" => Taken[t] = 0 /\ Given[t] = am
    BY <1>13 DEF ReverseLeg2, Taken, Given
  <2>3. CASE LegSucceeds(entry[t].legs[2]) /\ UNCHANGED <<lost, minted>>
    <3>1. /\ entry[t].legs[2].side = "Debit" => On' = On - am
          /\ entry[t].legs[2].side = "Credit" => On' = On + am
      BY <1>0, <1>5, <2>3, LegChange
    <3> QED BY <1>0, <1>1, <1>2, <1>5, <1>7, <2>1, <2>2, <2>3, <3>1
  <2>4. CASE /\ UNCHANGED book
             /\ IF entry[t].legs[1].side = "Debit"
                THEN lost' = lost + am /\ UNCHANGED minted
                ELSE minted' = minted + am /\ UNCHANGED lost
    <3>1. On' = On
      BY <1>0, <2>4, BookSame
    <3> QED BY <1>0, <1>1, <1>2, <1>5, <1>7, <2>1, <2>2, <2>4, <3>1
  <2> QED BY <1>13, <2>3, <2>4 DEF ReverseLeg2
<1> QED
  BY <1>8, <1>9, <1>10, <1>11, <1>12, <1>13 DEF Step

(* Every step of the handlers conserves money. *)
LEMMA MoneyStep ==
  CoreInv /\ CoreInv' /\ MoneyInv /\ [Next]_vars => MoneyInv'
<1> SUFFICES ASSUME CoreInv, CoreInv', MoneyInv, [Next]_vars PROVE MoneyConserved'
  BY UnregisteredStep DEF MoneyInv
<1> DEFINE On == OnAccounts  Tk == Transit[1]  Gv == Transit[2]
<1>0. BookOK /\ On \in Int /\ Tk \in Nat /\ Gv \in Nat
  BY SumsType DEF CoreInv, TypeOK, BookOK
<1>1. On + Tk + lost = booked + Gv + minted
  BY MoneyAsSums DEF MoneyInv
<1>2. booked \in Int /\ lost \in Nat /\ minted \in Nat
  BY DEF CoreInv, TypeOK
<1>3. ASSUME NEW d \in Int, On' = On + d, booked' = booked + d,
             Transit' = Transit, UNCHANGED <<lost, minted>>
      PROVE  MoneyConserved'
  <2>1. On' + Transit'[1] + lost' = booked' + Transit'[2] + minted'
    BY <1>0, <1>1, <1>2, <1>3
  <2> QED BY <2>1 DEF MoneyConserved, OnAccounts, Transit
<1>4. CASE UNCHANGED vars
  <2>1. On' = On + 0 /\ Transit' = Transit /\ booked' = booked + 0
    BY <1>0, <1>2, <1>4, BookSame, TransitSame DEF vars, book
  <2> QED BY <1>3, <1>4, <2>1 DEF vars
<1>5. ASSUME NEW id \in Ids, NEW i \in InitialBalances, CreateAccount(id, i)
      PROVE  MoneyConserved'
  <2>1. balance[id] = 0 /\ i \in -I64Max - 1 .. I64Max /\ balance' = [balance EXCEPT ![id] = i]
    BY <1>5 DEF CreateAccount, Register, MoneyInv, UnregisteredEmpty
  <2>2. On' = On - 0 + i
    BY <1>0, <2>1, BalanceChange
  <2>3. Transit' = Transit
    BY <1>5, TransitSame DEF CreateAccount
  <2>4. i \in Int /\ On' = On + i
    BY <1>0, <2>1, <2>2
  <2> QED BY <1>3, <1>5, <2>3, <2>4 DEF CreateAccount
<1>6. ASSUME NEW id \in Ids, NEW a \in Amounts, DebitAccount(id, a)
      PROVE  MoneyConserved'
  <2>1. a \in Int /\ On' = On - a
    BY <1>0, <1>6, DebitChange DEF DebitAccount
  <2>2. Transit' = Transit
    BY <1>6, TransitSame DEF DebitAccount
  <2>3. -a \in Int /\ On' = On + (-a) /\ booked' = booked + (-a)
    BY <1>0, <1>2, <1>6, <2>1 DEF DebitAccount
  <2> QED BY <1>3, <1>6, <2>2, <2>3 DEF DebitAccount
<1>7. ASSUME NEW id \in Ids, NEW a \in Amounts, CreditAccount(id, a)
      PROVE  MoneyConserved'
  <2>1. a \in Int /\ On' = On + a
    BY <1>0, <1>7, CreditChange DEF CreditAccount
  <2>2. Transit' = Transit
    BY <1>7, TransitSame DEF CreditAccount
  <2> QED BY <1>3, <1>7, <2>1, <2>2 DEF CreditAccount
<1>8. ASSUME NEW id \in Ids, NEW new \in Statuses, SetAccountStatus(id, new)
      PROVE  MoneyConserved'
  <2>1. On' = On
    BY <1>8 DEF SetAccountStatus, SetStatus, OnAccounts
  <2>2. Transit' = Transit
    BY <1>8, TransitSame DEF SetAccountStatus
  <2>3. On' = On + 0 /\ booked' = booked + 0
    BY <1>0, <1>2, <1>8, <2>1 DEF SetAccountStatus, history
  <2> QED BY <1>3, <1>8, <2>2, <2>3 DEF SetAccountStatus, history
<1>9. ASSUME NEW t \in Threads, NEW label \in {"seq", "reverse_seq"}, NEW e,
             Begin(t, label, e), UNCHANGED <<book, audit, history>>
      PROVE  MoneyConserved'
  <2>1. /\ \A s \in Threads \ {t} : pc'[s] = pc[s] /\ entry'[s] = entry[s]
        /\ pc[t] = "idle" /\ pc'[t] = label
    BY <1>9 DEF Begin, CoreInv, TypeOK
  <2>2. Taken[t] = 0 /\ Given[t] = 0 /\ Taken'[t] = 0 /\ Given'[t] = 0
    BY <2>1 DEF Taken, Given
  <2>3. Transit'[1] = Tk - 0 + 0 /\ Transit'[2] = Gv - 0 + 0
    BY <2>1, <2>2, TransitChange
  <2>4. On' = On
    BY <1>0, <1>9, BookSame
  <2>5. On' + Transit'[1] + lost' = booked' + Transit'[2] + minted'
    BY <1>0, <1>1, <1>2, <1>9, <2>3, <2>4 DEF history
  <2> QED BY <2>5 DEF MoneyConserved, OnAccounts, Transit
<1>10. ASSUME NEW t \in Threads, NEW from \in Ids, NEW to \in Ids, NEW a \in Amounts,
              TransferStart(t, from, to, a)
       PROVE  MoneyConserved'
  BY <1>9, <1>10 DEF TransferStart
<1>11. ASSUME NEW t \in Threads, NEW k \in DOMAIN journal, ReverseStart(t, k)
       PROVE  MoneyConserved'
  BY <1>9, <1>11 DEF ReverseStart
<1>12. ASSUME NEW t \in Threads, Step(t) PROVE MoneyConserved'
  BY <1>12, StepConserves DEF MoneyInv
<1> QED
  BY <1>4, <1>5, <1>6, <1>7, <1>8, <1>10, <1>11, <1>12 DEF Next

(* No interleaving of the handlers loses or creates money unreported.      *)
THEOREM MoneyAlwaysConserved == Spec => []MoneyConserved
<1>1. MoneyInv => MoneyConserved
  BY DEF MoneyInv
<1> QED
  BY <1>1, CoreInit, CoreStep, MoneyInit, MoneyStep, PTL DEF Spec

-----------------------------------------------------------------------------
(* The audit trail.  A number identifies one request from the moment it is *)
(* handed out: no other request holds it, and it is in the hash chain only *)
(* once the request that holds it has put it there.                        *)
Unchained == {"chain", "reverse_leg1", "reverse_leg2", "reverse_chain"}
Chained == {"journal", "reverse_journal"}
Numbered == Unchained \cup Chained \cup {"debit", "credit", "rollback"}

InChain(n) == \E i \in DOMAIN chain : chain[i] = n

NumbersUnique ==
    /\ \A t \in Threads : pc[t] \in Numbered => entry[t].seq \in 1 .. journalSeq
    /\ \A t, u \in Threads :
         /\ pc[t] \in Numbered /\ pc[u] \in Numbered
         /\ entry[t].seq = entry[u].seq
         => t = u
    /\ \A i \in DOMAIN chain : chain[i] \in 1 .. journalSeq

ChainFollowsNumbers ==
    /\ \A t \in Threads : pc[t] \in Unchained => ~ InChain(entry[t].seq)
    /\ \A t \in Threads : pc[t] \in Chained => InChain(entry[t].seq)

AuditInv == NumbersUnique /\ ChainFollowsNumbers /\ AuditTrailComplete

(* The trail starts empty. *)
LEMMA AuditInit == Init => AuditInv
  BY DEF Init, AuditInv, NumbersUnique, ChainFollowsNumbers, AuditTrailComplete,
    Numbered, Unchained, Chained, InChain

(* A thread that starts or ends a request, and one that goes on to a label *)
(* of the same kind with the same entry, leaves the trail as it is; a      *)
(* number may be used up meanwhile.                                        *)
LEMMA AuditMove ==
  ASSUME CoreInv, AuditInv, NEW t \in Threads, NEW label,
         pc' = [pc EXCEPT ![t] = label],
         \A s \in Threads \ {t} : entry'[s] = entry[s],
         \/ label \notin Numbered
         \/ entry'[t] = entry[t] /\ label \in Unchained /\ pc[t] \in Unchained
         \/ /\ entry'[t] = entry[t]
            /\ label \in {"debit", "credit", "rollback"}
            /\ pc[t] \in {"debit", "credit", "rollback"},
         pc[t] \notin Chained,
         journalSeq' \in {journalSeq, journalSeq + 1},
         UNCHANGED <<chain, journal>>
  PROVE  AuditInv'
<1>0. pc \in [Threads -> Labels] /\ journalSeq \in Nat
  BY DEF CoreInv, TypeOK
<1>1. \A s \in Threads : s # t => pc'[s] = pc[s]
  BY <1>0
<1>2. pc'[t] = label
  BY <1>0
<1>3. \A s \in Threads : pc'[s] \in Numbered => entry'[s] = entry[s] /\ pc[s] \in Numbered
  BY <1>1, <1>2 DEF Numbered
<1>4. NumbersUnique'
  BY <1>0, <1>3 DEF AuditInv, NumbersUnique
<1>5. ChainFollowsNumbers'
  BY <1>1, <1>2 DEF AuditInv, ChainFollowsNumbers, InChain, Numbered, Unchained, Chained
<1>6. AuditTrailComplete'
  <2>1. \A n : Journaled(n)' = Journaled(n)
    BY DEF Journaled
  <2>2. \A s \in Threads :
          pc'[s] \in {"debit", "credit", "rollback"} => Journaled(entry'[s].seq)
    BY <1>1, <1>2 DEF AuditInv, AuditTrailComplete, Numbered, Unchained
  <2>3. \A i \in DOMAIN chain :
          \/ Journaled(chain[i])
          \/ \E s \in Threads : /\ pc'[s] \in {"journal", "reverse_journal"}
                                /\ entry'[s].seq = chain[i]
    BY <1>1 DEF AuditInv, AuditTrailComplete, Chained
  <2> QED
    BY <2>1, <2>2, <2>3 DEF AuditInv, AuditTrailComplete
<1> QED
  BY <1>4, <1>5, <1>6 DEF AuditInv

(* The number handed out is new. *)
LEMMA AuditNumber ==
  ASSUME CoreInv, AuditInv, NEW t \in Threads, NEW label \in Unchained,
         pc' = [pc EXCEPT ![t] = label], pc[t] \notin Numbered, pc[t] # "idle",
         entry' = [entry EXCEPT ![t].seq = journalSeq + 1],
         journalSeq' = journalSeq + 1,
         UNCHANGED <<chain, journal>>
  PROVE  AuditInv'
<1>0. /\ pc \in [Threads -> Labels] /\ journalSeq \in Nat /\ entry[t] \in Entries
      /\ entry \in [Threads -> Entries \cup {NoEntry}]
  BY DEF CoreInv, TypeOK, EntriesOK
<1>1. \A s \in Threads : s # t => pc'[s] = pc[s] /\ entry'[s] = entry[s]
  BY <1>0
<1>2. pc'[t] = label /\ entry'[t].seq = journalSeq + 1
  BY <1>0 DEF Entries
<1>3. \A s \in Threads : s # t /\ pc[s] \in Numbered => entry[s].seq \in 1 .. journalSeq
  BY DEF AuditInv, NumbersUnique
<1>4. \A i \in DOMAIN chain : chain[i] \in 1 .. journalSeq
  BY DEF AuditInv, NumbersUnique
<1>5. NumbersUnique'
  <2>1. \A s \in Threads : pc'[s] \in Numbered => entry'[s].seq \in 1 .. journalSeq'
    BY <1>0, <1>1, <1>2, <1>3
  <2>2. ASSUME NEW s \in Threads, NEW u \in Threads,
               pc'[s] \in Numbered, pc'[u] \in Numbered, entry'[s].seq = entry'[u].seq
        PROVE  s = u
    <3>1. CASE s # t /\ u # t
      BY <1>1, <2>2, <3>1 DEF AuditInv, NumbersUnique
    <3>2. CASE s = t /\ u # t
      BY <1>0, <1>1, <1>2, <1>3, <2>2, <3>2
    <3>3. CASE s # t /\ u = t
      BY <1>0, <1>1, <1>2, <1>3, <2>2, <3>3
    <3> QED BY <3>1, <3>2, <3>3
  <2>3. \A i \in DOMAIN chain' : chain'[i] \in 1 .. journalSeq'
    BY <1>0, <1>4
  <2> QED BY <2>1, <2>2, <2>3 DEF NumbersUnique
<1>6. ChainFollowsNumbers'
  <2>1. \A n : InChain(n)' = InChain(n)
    BY DEF InChain
  <2>2. ~ InChain(journalSeq + 1)
    BY <1>0, <1>4 DEF InChain
  <2>3. \A s \in Threads : pc'[s] \in Unchained => ~ InChain(entry'[s].seq)
    BY <1>1, <1>2, <2>2 DEF AuditInv, ChainFollowsNumbers
  <2>4. \A s \in Threads : pc'[s] \in Chained => InChain(entry'[s].seq)
    BY <1>1, <1>2 DEF AuditInv, ChainFollowsNumbers, Unchained, Chained
  <2> QED BY <2>1, <2>3, <2>4 DEF ChainFollowsNumbers
<1>7. AuditTrailComplete'
  <2>1. \A n : Journaled(n)' = Journaled(n)
    BY DEF Journaled
  <2>2. \A s \in Threads :
          pc'[s] \in {"debit", "credit", "rollback"} => Journaled(entry'[s].seq)
    BY <1>1, <1>2 DEF AuditInv, AuditTrailComplete, Unchained
  <2>3. \A i \in DOMAIN chain :
          \/ Journaled(chain[i])
          \/ \E s \in Threads : /\ pc'[s] \in {"journal", "reverse_journal"}
                                /\ entry'[s].seq = chain[i]
    BY <1>1 DEF AuditInv, AuditTrailComplete, Numbered, Chained
  <2> QED
    BY <2>1, <2>2, <2>3 DEF AuditInv, AuditTrailComplete
<1> QED
  BY <1>5, <1>6, <1>7 DEF AuditInv

(* A request puts its own number into the chain, once. *)
LEMMA AuditChain ==
  ASSUME CoreInv, AuditInv, NEW t \in Threads, NEW label \in Chained,
         pc' = [pc EXCEPT ![t] = label], pc[t] \in Unchained,
         chain' = Append(chain, entry[t].seq),
         UNCHANGED <<journalSeq, journal, entry>>
  PROVE  AuditInv'
<1>0. /\ pc \in [Threads -> Labels] /\ journalSeq \in Nat
      /\ chain \in Seq(Nat) /\ entry[t].seq \in Nat
  BY EntryInHand DEF CoreInv, TypeOK, Entries, Unchained
<1>1. \A s \in Threads : s # t => pc'[s] = pc[s]
  BY <1>0
<1>2. pc'[t] = label /\ pc[t] \in Numbered /\ label \in Numbered
  BY <1>0 DEF Numbered
<1>3. /\ DOMAIN chain = 1 .. Len(chain) /\ Len(chain) \in Nat
      /\ DOMAIN chain' = 1 .. Len(chain) + 1
      /\ \A i \in DOMAIN chain : chain'[i] = chain[i]
      /\ chain'[Len(chain) + 1] = entry[t].seq
  BY <1>0
<1>4. \A i \in DOMAIN chain' : i \in DOMAIN chain \/ i = Len(chain) + 1
  BY <1>3
<1>5. NumbersUnique'
  <2>1. \A s \in Threads : pc'[s] \in Numbered => pc[s] \in Numbered
    BY <1>1, <1>2
  <2>2. \A i \in DOMAIN chain' : chain'[i] \in 1 .. journalSeq
    BY <1>2, <1>3, <1>4 DEF AuditInv, NumbersUnique
  <2> QED BY <2>1, <2>2 DEF AuditInv, NumbersUnique
<1>6. \A n : InChain(n)' <=> InChain(n) \/ n = entry[t].seq
  BY <1>3, <1>4 DEF InChain
<1>7. ChainFollowsNumbers'
  <2>1. \A s \in Threads : pc'[s] \in Unchained =>
           s # t /\ pc[s] \in Unchained /\ entry[s].seq # entry[t].seq
    BY <1>1, <1>2 DEF AuditInv, NumbersUnique, Numbered, Unchained, Chained
  <2>2. \A s \in Threads : pc'[s] \in Chained => s = t \/ pc[s] \in Chained
    BY <1>1
  <2> QED BY <1>6, <2>1, <2>2 DEF AuditInv, ChainFollowsNumbers
<1>8. AuditTrailComplete'
  <2>1. \A n : Journaled(n)' = Journaled(n)
    BY DEF Journaled
  <2>2. \A s \in Threads :
          pc'[s] \in {"debit", "credit", "rollback"} => Journaled(entry'[s].seq)
    BY <1>1, <1>2 DEF AuditInv, AuditTrailComplete, Chained
  <2>3. \A i \in DOMAIN chain' :
          \/ Journaled(chain'[i])
          \/ \E s \in Threads : /\ pc'[s] \in {"journal", "reverse_journal"}
                                /\ entry'[s].seq = chain'[i]
    <3>1. ASSUME NEW i \in DOMAIN chain, ~ Journaled(chain[i])
          PROVE  \E s \in Threads : /\ pc'[s] \in {"journal", "reverse_journal"}
                                    /\ entry'[s].seq = chain[i]
      <4>1. PICK s \in Threads : /\ pc[s] \in {"journal", "reverse_journal"}
                                 /\ entry[s].seq = chain[i]
        BY <3>1 DEF AuditInv, AuditTrailComplete
      <4>2. s # t
        BY <4>1 DEF Unchained
      <4> QED BY <1>1, <4>1, <4>2
    <3>2. entry'[t].seq = entry[t].seq /\ pc'[t] \in {"journal", "reverse_journal"}
      BY <1>2 DEF Chained
    <3> QED BY <1>3, <1>4, <3>1, <3>2
  <2>4. \A k \in DOMAIN journal : \E i \in DOMAIN chain' : chain'[i] = journal[k].seq
    <3>1. \A k \in DOMAIN journal : InChain(journal[k].seq)
      BY DEF AuditInv, AuditTrailComplete, InChain
    <3>2. \A k \in DOMAIN journal : InChain(journal[k].seq)'
      BY <1>6, <3>1
    <3> QED BY <3>2 DEF InChain
  <2>5. \A i, j \in DOMAIN chain' : chain'[i] = chain'[j] => i = j
    <3>1. ~ InChain(entry[t].seq)
      BY DEF AuditInv, ChainFollowsNumbers
    <3>2. \A i, j \in DOMAIN chain : chain[i] = chain[j] => i = j
      BY DEF AuditInv, AuditTrailComplete
    <3> QED BY <1>3, <1>4, <3>1, <3>2 DEF InChain
  <2> QED
    BY <2>1, <2>2, <2>3, <2>4, <2>5 DEF AuditTrailComplete
<1> QED
  BY <1>5, <1>7, <1>8 DEF AuditInv

(* An entry joins the journal when its number is in the chain. *)
LEMMA AuditJournal ==
  ASSUME CoreInv, AuditInv, NEW t \in Threads, NEW label \in {"debit", "idle"},
         pc' = [pc EXCEPT ![t] = label], pc[t] \in Chained,
         label = "debit" => entry'[t] = entry[t],
         \A s \in Threads \ {t} : entry'[s] = entry[s],
         journal' = Append(journal, entry[t]),
         UNCHANGED <<journalSeq, chain>>
  PROVE  AuditInv'
<1>0. /\ pc \in [Threads -> Labels] /\ journalSeq \in Nat
      /\ journal \in Seq(Entries) /\ entry[t] \in Entries
  BY EntryInHand DEF CoreInv, TypeOK, Chained
<1>1. \A s \in Threads : s # t => pc'[s] = pc[s] /\ entry'[s] = entry[s]
  BY <1>0
<1>2. pc'[t] = label /\ pc[t] \in Numbered
  BY <1>0 DEF Numbered
<1>3. /\ DOMAIN journal = 1 .. Len(journal) /\ Len(journal) \in Nat
      /\ DOMAIN journal' = 1 .. Len(journal) + 1
      /\ \A k \in DOMAIN journal : journal'[k] = journal[k]
      /\ journal'[Len(journal) + 1] = entry[t]
  BY <1>0
<1>4. \A k \in DOMAIN journal' : k \in DOMAIN journal \/ k = Len(journal) + 1
  BY <1>3
<1>5. \A s \in Threads : pc'[s] \in Numbered => pc[s] \in Numbered /\ entry'[s] = entry[s]
  BY <1>1, <1>2 DEF Numbered, Unchained, Chained
<1>6. NumbersUnique'
  BY <1>5 DEF AuditInv, NumbersUnique
<1>7. ChainFollowsNumbers'
  BY <1>1, <1>2 DEF AuditInv, ChainFollowsNumbers, InChain, Unchained, Chained
<1>8. \A n : Journaled(n)' <=> Journaled(n) \/ n = entry[t].seq
  BY <1>3, <1>4 DEF Journaled
<1>9. AuditTrailComplete'
  <2>1. \A s \in Threads :
          pc'[s] \in {"debit", "credit", "rollback"} => Journaled(entry[s].seq)'
    BY <1>1, <1>2, <1>8 DEF AuditInv, AuditTrailComplete
  <2>2. \A i \in DOMAIN chain :
          \/ Journaled(chain[i])'
          \/ \E s \in Threads : /\ pc'[s] \in {"journal", "reverse_journal"}
                                /\ entry'[s].seq = chain[i]
    BY <1>1, <1>8 DEF AuditInv, AuditTrailComplete
  <2>3. \A k \in DOMAIN journal' : \E i \in DOMAIN chain : chain[i] = journal'[k].seq
    <3>1. InChain(entry[t].seq)
      BY DEF AuditInv, ChainFollowsNumbers
    <3> QED BY <1>3, <1>4, <3>1 DEF AuditInv, AuditTrailComplete, InChain
  <2>4. \A i, j \in DOMAIN chain : chain[i] = chain[j] => i = j
    BY DEF AuditInv, AuditTrailComplete
  <2> QED
    BY <2>1, <2>2, <2>3, <2>4 DEF AuditTrailComplete
<1> QED
  BY <1>6, <1>7, <1>9 DEF AuditInv

(* Every step of the handlers keeps the trail complete. *)
LEMMA AuditStep == CoreInv /\ AuditInv /\ [Next]_vars => AuditInv'
<1> SUFFICES ASSUME CoreInv, AuditInv, [Next]_vars PROVE AuditInv'
  OBVIOUS
<1>0. pc \in [Threads -> Labels] /\ DOMAIN entry = Threads
  BY DEF CoreInv, TypeOK
<1>1. CASE UNCHANGED <<journalSeq, chain, journal, pc, entry>>
  BY <1>1 DEF AuditInv, NumbersUnique, ChainFollowsNumbers, AuditTrailComplete,
    InChain, Journaled
<1>2. ASSUME NEW t \in Threads, NEW label \in {"seq", "reverse_seq"}, NEW e,
             Begin(t, label, e), UNCHANGED audit
      PROVE  AuditInv'
  <2>1. label \notin Numbered /\ pc[t] \notin Chained
    BY <1>2 DEF Begin, Numbered, Unchained, Chained
  <2> QED
    BY <1>0, <1>2, <2>1, AuditMove DEF Begin, audit
<1>3. ASSUME NEW t \in Threads, Step(t) PROVE AuditInv'
  <2>1. ASSUME pc[t] \notin Chained, Return(t), UNCHANGED <<chain, journal>>,
               journalSeq' \in {journalSeq, journalSeq + 1}
        PROVE  AuditInv'
    <3>1. "idle" \notin Numbered
      BY DEF Numbered, Unchained, Chained
    <3> QED BY <1>0, <2>1, <3>1, AuditMove DEF Return
  <2>2. CASE TransferSeq(t) \/ ReverseSeq(t)
    <3>1. PICK label \in {"chain", "reverse_leg1"} :
            /\ pc[t] \in {"seq", "reverse_seq"}
            /\ journalSeq' = journalSeq + 1
            /\ \/ /\ pc' = [pc EXCEPT ![t] = label]
                  /\ entry' = [entry EXCEPT ![t].seq = journalSeq + 1]
               \/ Return(t)
            /\ UNCHANGED <<chain, journal>>
      BY <2>2 DEF TransferSeq, ReverseSeq, TakeNumber
    <3>2. /\ label \in Unchained /\ pc[t] # "idle"
          /\ pc[t] \notin Numbered /\ pc[t] \notin Chained
      BY <3>1 DEF Numbered, Unchained, Chained
    <3> QED BY <2>1, <3>1, <3>2, AuditNumber
  <2>3. CASE TransferChain(t) \/ ReverseChain(t)
    BY <2>3, AuditChain
    DEF TransferChain, ReverseChain, GoTo, Unchained, Chained
  <2>4. CASE TransferJournal(t) \/ ReverseJournal(t)
    <3>1. pc[t] \in Chained
      BY <2>4 DEF TransferJournal, ReverseJournal, Chained
    <3>2. CASE TransferJournal(t)
      BY <3>1, <3>2, AuditJournal DEF TransferJournal, GoTo
    <3>3. CASE ReverseJournal(t)
      BY <1>0, <3>1, <3>3, AuditJournal DEF ReverseJournal, Return
    <3> QED BY <2>4, <3>2, <3>3
  <2>5. CASE TransferDebit(t) \/ TransferCredit(t) \/ TransferRollback(t)
    <3>1. /\ pc[t] \in {"debit", "credit", "rollback"} /\ UNCHANGED audit
          /\ Return(t) \/ GoTo(t, "credit") \/ GoTo(t, "rollback")
      BY <2>5 DEF TransferDebit, TransferCredit, TransferRollback
    <3>2. pc[t] \notin Chained
      BY <3>1 DEF Chained
    <3> QED BY <2>1, <3>1, <3>2, AuditMove DEF GoTo, audit
  <2>6. CASE ReverseLeg1(t) \/ ReverseLeg2(t)
    <3>1. /\ pc[t] \in {"reverse_leg1", "reverse_leg2"} /\ UNCHANGED audit
          /\ Return(t) \/ GoTo(t, "reverse_leg2") \/ GoTo(t, "reverse_chain")
      BY <2>6 DEF ReverseLeg1, ReverseLeg2
    <3>2. /\ pc[t] \notin Chained /\ pc[t] \in Unchained
          /\ "reverse_leg2" \in Unchained /\ "reverse_chain" \in Unchained
      BY <3>1 DEF Chained, Unchained
    <3> QED BY <2>1, <3>1, <3>2, AuditMove DEF GoTo, audit
  <2> QED
    BY <1>3, <2>2, <2>3, <2>4, <2>5, <2>6 DEF Step
<1>4. CASE UNCHANGED vars
  BY <1>1, <1>4 DEF vars
<1>5. CASE Next
  BY <1>1, <1>2, <1>3, <1>5
  DEF Next, CreateAccount, DebitAccount, CreditAccount, SetAccountStatus,
      TransferStart, ReverseStart, audit
<1> QED
  BY <1>4, <1>5

(* Journal-first: however requests interleave and wherever they give up,   *)
(* no transfer touches a balance before it is in the journal, the journal  *)
(* and the hash chain record the same entries, and none is chained twice.  *)
THEOREM AuditTrailAlwaysComplete == Spec => []AuditTrailComplete
<1>1. AuditInv => AuditTrailComplete
  BY DEF AuditInv
<1> QED
  BY <1>1, CoreInit, CoreStep, AuditInit, AuditStep, PTL DEF Spec
=============================================================================
