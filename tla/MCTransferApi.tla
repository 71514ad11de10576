---------------------------- MODULE MCTransferApi ----------------------------
(* TLC instances of TransferApi. *)
EXTENDS TransferApi, TLC

TwoAmounts == {0, 1}
(* create_account takes any balance, a negative one too. *)
Openings == {-1, 1}
Symmetry == Permutations(Threads) \cup Permutations(Ids)
=============================================================================
