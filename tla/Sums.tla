--------------------------------- MODULE Sums ---------------------------------
(***************************************************************************)
(* The sum of the first n values of a function on 0, 1, 2, ...             *)
(***************************************************************************)
EXTENDS Integers

SumTo(n, f) ==
  LET sum[k \in Nat] == IF k = 0 THEN 0 ELSE sum[k - 1] + f[k - 1]
  IN  sum[n]
==============================================================================
