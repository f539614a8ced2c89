------------------------------- MODULE Totals -------------------------------
(***************************************************************************)
(* Sums over the attempts of a run.  The journal numbers its attempts from *)
(* one, so a per-attempt quantity is a function on 1..n and its total is a *)
(* running sum.  A recursive function, not a RECURSIVE operator, so that   *)
(* TotalsProofs can prove what it computes.                                *)
(***************************************************************************)
EXTENDS Integers

Larger(x, y) == IF x > y THEN x ELSE y
Smaller(x, y) == IF x < y THEN x ELSE y

\* Sum of f[1] .. f[n].
Total(n, f) ==
  LET sum[i \in 0..n] == IF i = 0 THEN 0 ELSE sum[i-1] + f[i]
  IN  sum[n]
=============================================================================
