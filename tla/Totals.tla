------------------------------- MODULE Totals -------------------------------
(***************************************************************************)
(* The sum of a function with natural-number values, defined without       *)
(* recursion: a function's units are the pairs <<s, n>> with n \in 1..f[s], *)
(* and its total is how many units it has.  Stated this way the total can  *)
(* be reasoned about with the theorems on finite sets alone (see           *)
(* TotalsProofs).                                                          *)
(***************************************************************************)
EXTENDS Integers, FiniteSets

Units(f) == UNION {{s} \X (1..f[s]) : s \in DOMAIN f}

Total(f) == Cardinality(Units(f))
=============================================================================
