------------------------------- MODULE Totals -------------------------------
(***************************************************************************)
(* Sums of amounts over a set, as a count of units: f[x] units of each     *)
(* element x.  No recursion is needed, so the laws of sums follow from     *)
(* those of finite sets (TotalsProofs).                                    *)
(***************************************************************************)
EXTENDS Naturals, FiniteSets

Units(f, S) == UNION {{x} \X (1 .. f[x]) : x \in S}

Total(f, S) == Cardinality(Units(f, S))
=============================================================================
