--------------------------- MODULE MCMarketSystem ---------------------------
(***************************************************************************)
(* Instances of MarketSystem for TLC.                                      *)
(***************************************************************************)
EXTENDS MarketSystem, TLC

\* No estate is part of a building.
Detached == [e \in Estates |-> None]

\* One estate stands alone, the others are the units of the only building.
Apart == CHOOSE e \in Estates : TRUE
OneHouse == [e \in Estates |-> IF e = Apart THEN None ELSE CHOOSE b \in Buildings : TRUE]

\* Neither calls nor the units of the building can be told apart.
Symmetry == Permutations(Calls) \cup Permutations(Estates \ {Apart})
=============================================================================
