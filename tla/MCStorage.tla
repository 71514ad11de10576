------------------------------ MODULE MCStorage ------------------------------
(* Instance of Storage for TLC.  The commands of the event log open an     *)
(* account, move it up and down, and meet the bounds and a malformed       *)
(* amount.                                                                 *)
EXTENDS Storage, TLC

CONSTANTS t1, t2, a1, a2, open, trade, big, b1, b2

Make(type, account, amount) == [type |-> type, account |-> account, amount |-> amount]

MCProduces ==
    (open :> <<Make("AccountCreated", b1, 0)>>)
    @@ (trade :> <<Make("FundsDeposited", b1, 2), Make("FundsWithdrawn", b1, 1)>>)
    @@ (big :> <<Make("AccountCreated", b2, 0), Make("FundsDeposited", b2, 3),
                 Make("FundsWithdrawn", b1, 0), Make("FundsDeposited", b2, 3)>>)

Symmetry == Permutations(Threads) \cup Permutations(Ids)
=============================================================================
