---------------------------- MODULE MCHouseholds ----------------------------
(***************************************************************************)
(* Instances of Households for TLC.                                        *)
(***************************************************************************)
EXTENDS Households

Symmetry == Permutations(Users)
=============================================================================
