--------------------------- MODULE MCSharedMutex ----------------------------
(***************************************************************************)
(* The instance of SharedMutex for TLC: two writers and two readers, one   *)
(* writer coming back for a second call, so that bits left behind by an    *)
(* earlier unlock meet a new owner.                                        *)
(***************************************************************************)
EXTENDS SharedMutex

CONSTANTS w1, w2, r1, r2

CallBound == [t \in Threads |-> IF t = w1 THEN 2 ELSE 1]
=============================================================================
