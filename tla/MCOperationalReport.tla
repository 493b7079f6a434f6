------------------------ MODULE MCOperationalReport -------------------------
(* Two ETFs whose latest dates differ, so that their windows do; one of the  *)
(* snapshots is revised.                                                     *)
EXTENDS OperationalReport

CONSTANTS e1, e2

TwoEtfs == {e1, e2}
ApartAtFirst == {<<e1, 1>>, <<e1, 2>>, <<e2, 1>>, <<e2, 3>>}
OneRevised == {<<e1, 2>>}
=============================================================================
