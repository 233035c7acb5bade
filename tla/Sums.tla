--------------------------------- MODULE Sums ---------------------------------
(***************************************************************************)
(* SUM of a column over the rows of a table, as a recursive function, so   *)
(* that accounts kept in tables can be reasoned about.                     *)
(***************************************************************************)
EXTENDS Integers, Sequences

\* The sum of the first n values.
SumTo(values, n) ==
    LET upTo[k \in 0 .. n] == IF k = 0 THEN 0 ELSE upTo[k - 1] + values[k]
    IN  upTo[n]

SumOf(values) == SumTo(values, Len(values))
=============================================================================
