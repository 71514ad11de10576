------------------------------- MODULE Journal -------------------------------
(***************************************************************************)
(* The legs of a journal entry, src/src/domain/journal.rs: how they are    *)
(* built, which lists of legs JournalEntry::new accepts and what           *)
(* JournalEntry::reverse turns them into.  Sums are exact, as the i128     *)
(* sums of the code are.  The debug assertions of EntryLeg::debit and      *)
(* EntryLeg::credit are compiled out, as in a release build.               *)
(***************************************************************************)
EXTENDS Totals, Sequences

(* EntryLeg::debit and EntryLeg::credit: a non-positive amount becomes 0. *)
LegOf(side, account, amount) ==
    [account |-> account, side |-> side,
     amount |-> IF amount > 0 THEN amount ELSE 0]

DebitLeg(account, amount) == LegOf("Debit", account, amount)
CreditLeg(account, amount) == LegOf("Credit", account, amount)

Counterpart(side) == IF side = "Debit" THEN "Credit" ELSE "Debit"

(* The amounts on one side of the entry. *)
SideTotal(legs, side) ==
    Total(DOMAIN legs,
          [i \in DOMAIN legs |-> IF legs[i].side = side THEN legs[i].amount ELSE 0])

(* A mutant of IsValidEntry: both sides present, but not equal. *)
IsValidEntryUnbalanced(legs) ==
    /\ Len(legs) >= 2
    /\ SideTotal(legs, "Debit") # 0
    /\ SideTotal(legs, "Credit") # 0

(* JournalEntry::new refuses anything else: NotEnoughLegs, MissingSide,    *)
(* Unbalanced.                                                             *)
IsValidEntry(legs) ==
    /\ Len(legs) >= 2
    /\ SideTotal(legs, "Debit") # 0
    /\ SideTotal(legs, "Credit") # 0
    /\ SideTotal(legs, "Debit") = SideTotal(legs, "Credit")

VerifyBalance(legs) ==
    /\ SideTotal(legs, "Debit") = SideTotal(legs, "Credit")
    /\ SideTotal(legs, "Debit") > 0

(* validate_all: the positions of the entries it reports. *)
ValidateAll(entries) == {k \in DOMAIN entries : ~VerifyBalance(entries[k].legs)}

(* The places <<k, i>> of the legs of a list of entries. *)
LegPositions(entries) == UNION {{k} \X DOMAIN entries[k].legs : k \in DOMAIN entries}

(* What the legs at the places P that are on one side move on an account. *)
MovedOn(entries, P, account, side) ==
    LET leg(p) == entries[p[1]].legs[p[2]]
    IN  Total(P, [p \in P |-> IF leg(p).account = account /\ leg(p).side = side
                              THEN leg(p).amount ELSE 0])

(* trial_balance: the sums of an account on either side, each of which     *)
(* saturates at most.  No amount is negative, so the order does not matter.*)
TrialBalance(entries, account, most) ==
    LET Column(side) == MovedOn(entries, LegPositions(entries), account, side)
        Saturated(n) == IF n > most THEN most ELSE n
    IN  [debits |-> Saturated(Column("Debit")), credits |-> Saturated(Column("Credit"))]

(* Transaction::commit. *)
Commit(transactionStatus) ==
    IF transactionStatus = "Pending" THEN "Committed" ELSE transactionStatus

(* JournalEntry::reverse keeps accounts and amounts and flips the sides. *)
ReverseLegs(legs) ==
    [i \in DOMAIN legs |-> [legs[i] EXCEPT !.side = Counterpart(@)]]
=============================================================================
