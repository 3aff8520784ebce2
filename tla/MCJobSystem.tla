----------------------------- MODULE MCJobSystem -----------------------------
(***************************************************************************)
(* The instances of JobSystem for TLC.                                     *)
(***************************************************************************)
EXTENDS JobSystem, TLC

Symmetry == Permutations(Workers) \cup Permutations(Users) \cup Permutations(Slots)
=============================================================================
