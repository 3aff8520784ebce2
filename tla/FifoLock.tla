------------------------------ MODULE FifoLock ------------------------------
(***************************************************************************)
(* What mk::cc::WordLock promises its users: at most one owner, a thread   *)
(* falls asleep only while the lock is owned, sleepers queue in the order  *)
(* in which they fell asleep, and every release wakes the oldest sleeper   *)
(* if there is one.  A woken thread competes for the lock again, and any   *)
(* thread that is awake may overtake the sleepers.                         *)
(***************************************************************************)
EXTENDS Naturals, Sequences, SequencesExt

CONSTANTS Threads,  \* the threads that use the lock
          Nil       \* no thread

VARIABLES owner,    \* the thread that holds the lock, or Nil
          sleepers  \* the threads asleep on the lock, oldest first

vars == <<owner, sleepers>>

Init == owner = Nil /\ sleepers = <<>>

Acquire(t) ==
  /\ owner = Nil
  /\ ~Contains(sleepers, t)
  /\ owner' = t
  /\ UNCHANGED sleepers

FallAsleep(t) ==
  /\ owner \notin {Nil, t}
  /\ ~Contains(sleepers, t)
  /\ sleepers' = Append(sleepers, t)
  /\ UNCHANGED owner

Release(t) ==
  /\ owner = t
  /\ owner' = Nil
  /\ sleepers' = IF sleepers = <<>> THEN <<>> ELSE Tail(sleepers)

Next == \E t \in Threads : Acquire(t) \/ FallAsleep(t) \/ Release(t)

Spec == Init /\ [][Next]_vars
=============================================================================
