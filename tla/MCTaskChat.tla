----------------------------- MODULE MCTaskChat -----------------------------
(***************************************************************************)
(* TaskChat for TLC.                                                       *)
(***************************************************************************)
EXTENDS TaskChat, TLC

\* The slots of handlers are interchangeable.
Symmetry == Permutations(Calls)
=============================================================================
