------------------------- MODULE MCContactRequests -------------------------
(***************************************************************************)
(* ContactRequests for TLC.                                                *)
(***************************************************************************)
EXTENDS ContactRequests, TLC

\* Nothing is told apart by its name.
Symmetry == Permutations(Emails) \cup Permutations(Ids) \cup Permutations(Calls)
=============================================================================
