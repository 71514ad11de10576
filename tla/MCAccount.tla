------------------------------ MODULE MCAccount ------------------------------
(* TLC instances of Account: small words, two or three interchangeable     *)
(* threads, amounts on both sides of the validity check.                   *)
EXTENDS Account, TLC

SomeAmounts == {-1, 0, 1, 2}
WithoutRelease == {"debit", "credit", "place_hold"}
ThreadSymmetry == Permutations(Threads)

(* The definition of Total by counting agrees with addition. *)
ASSUME TotalAgreesWithAddition ==
    \A f \in [1 .. 3 -> 0 .. 3] : Total(1 .. 3, f) = f[1] + f[2] + f[3]
=============================================================================
