--------------------------- MODULE MCLedgerService ---------------------------
(* TLC instances of LedgerService. *)
EXTENDS LedgerService, TLC

CONSTANTS a, b, ghost   \* two registered accounts and an unknown one

OpeningBalances == (a :> 2) @@ (b :> 1)

(* A transfer that empties an account, a compound entry that also names an *)
(* unknown account, and two lists of legs JournalEntry::new refuses.       *)
SomeLegLists ==
    {TransferLegs(a, b, 2),
     <<DebitLeg(b, 1), CreditLeg(a, 1), DebitLeg(a, 1), CreditLeg(ghost, 1)>>,
     TransferLegs(a, b, -1),
     <<DebitLeg(a, 2), CreditLeg(b, 1)>>}

Symmetry == Permutations(Threads) \cup Permutations(Txns)
=============================================================================
