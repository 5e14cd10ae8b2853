-------------------------------- MODULE Sums --------------------------------
(* The sum of a function's values over a finite set, as the number of units *)
(* they make up together.                                                   *)
EXTENDS Naturals, FiniteSets

Units(f, S) == UNION {{x} \X (1..f[x]) : x \in S}
SumOver(f, S) == Cardinality(Units(f, S))
=============================================================================
