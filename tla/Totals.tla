------------------------------- MODULE Totals -------------------------------
(***************************************************************************)
(* Sums of functions over finite sets, for the money                       *)
(* accounting of the other modules.  A total is defined by counting: each  *)
(* s contributes f[s] distinct tokens <<s, 1>>, ..., <<s, f[s]>> and the   *)
(* total is the number of tokens.  A recursive definition would compute    *)
(* the same number; this form can be reasoned about with the library's     *)
(* theorems on cardinalities.                                              *)
(***************************************************************************)
EXTENDS Integers, FiniteSets

(* The tokens that s contributes when its weight is n. *)
Tokens(s, n) == {s} \X (1 .. n)

(* The sum of f[s] over s \in S. *)
Total(S, f) == Cardinality(UNION {Tokens(s, f[s]) : s \in S})

(* The same for weights of either sign: what is gained less what is lost. *)
Gains(S, f) == [s \in S |-> IF f[s] > 0 THEN f[s] ELSE 0]
Losses(S, f) == [s \in S |-> IF f[s] < 0 THEN -f[s] ELSE 0]
NetTotal(S, f) == Total(S, Gains(S, f)) - Total(S, Losses(S, f))
=============================================================================
