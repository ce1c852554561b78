------------------------------ MODULE EscrowSums ------------------------------
(***************************************************************************)
(* The sum of a function with natural values over a finite set, as the     *)
(* cardinality of the set of its units: {x} paired with 1..f[x] for every  *)
(* x.  In this form the cardinality theorems of the library say how the    *)
(* sum changes when one entry does, which a recursive definition of the    *)
(* sum would need an induction for.                                        *)
(***************************************************************************)
EXTENDS Integers, FiniteSets

Units(f, S) == UNION {{x} \X (1..f[x]) : x \in S}
Total(f, S) == Cardinality(Units(f, S))
===============================================================================
