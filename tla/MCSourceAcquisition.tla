------------------------- MODULE MCSourceAcquisition -------------------------
(* Source acquisition for TLC: ETFs of two providers. *)
EXTENDS SourceAcquisition, TLC

CONSTANTS e1, e2, p1, p2
TwoEtfs == {e1, e2}
OfTwoProviders == (e1 :> p1) @@ (e2 :> p2)
Symmetry == Permutations(Contents)
OfOneProvider == (e1 :> p1) @@ (e2 :> p1)
==============================================================================
