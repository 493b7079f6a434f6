-------------------------- MODULE MCHoldingsHistory --------------------------
(* A history for TLC: two ETFs, two dates, rows of one and of two records, so *)
(* that different partitions may have the same number of records.            *)
EXTENDS HoldingsHistory, TLC

CONSTANTS short, long
ShortAndLong == {short, long}
Lengths == (short :> 1) @@ (long :> 2)

Symmetry == Permutations(Etfs)
==============================================================================
