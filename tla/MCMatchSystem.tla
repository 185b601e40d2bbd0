--------------------------- MODULE MCMatchSystem ---------------------------
(***************************************************************************)
(* Instances of MatchSystem for TLC.                                       *)
(***************************************************************************)
EXTENDS MatchSystem, TLC

Symmetry == Permutations(Requests)

\* Every estate is a building and a category of its own.
Alone == [e \in Estates |-> {e}]

\* All the estates are units of one building and one category.
Together == [e \in Estates |-> Estates]
=============================================================================
