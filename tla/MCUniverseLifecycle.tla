------------------------- MODULE MCUniverseLifecycle -------------------------
(* A universe for TLC: two ETFs that may move between two brands, vanish and *)
(* come back, with one or two providers.                                     *)
EXTENDS UniverseLifecycle, TLC

Symmetry == Permutations(Etfs) \union Permutations(Brands)
==============================================================================
