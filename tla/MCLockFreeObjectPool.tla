------------------------ MODULE MCLockFreeObjectPool ------------------------
(***************************************************************************)
(* The instances of LockFreeObjectPool for TLC.                            *)
(***************************************************************************)
EXTENDS LockFreeObjectPool, TLC

CONSTANTS t1, t2, t3

\* On a pool that may not grow, two threads come back and so meet the nodes they
\* released themselves; on one that may, one thread empties it for the others.
FewCalls ==
  [c \in ChunkCounts |-> [t \in Threads |-> IF (c = 1) = (t = t1) THEN 1 ELSE 2]]

TwoCalls == [c \in ChunkCounts |-> [t \in Threads |-> 2]]

\* t2 and t3 are alike in both.
Symmetry == Permutations({t2, t3})
=============================================================================
