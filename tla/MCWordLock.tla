----------------------------- MODULE MCWordLock -----------------------------
(***************************************************************************)
(* Instances of WordLock for TLC.  The threads are alike, so the safety    *)
(* run identifies states that differ by a permutation of them.             *)
(***************************************************************************)
EXTENDS WordLock, TLC

Symmetry == Permutations(Threads)
=============================================================================
