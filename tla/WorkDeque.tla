----------------------------- MODULE WorkDeque ------------------------------
(***************************************************************************)
(* What mk::cc::JobQueue promises: a bounded deque of job instances.  The  *)
(* owner pushes and pops at the back, every thread may steal at the front, *)
(* and an instance that was pushed is handed out exactly once.             *)
(***************************************************************************)
EXTENDS Naturals, Sequences, SequencesExt

CONSTANTS Jobs,      \* job instances
          NoJob,     \* a caller that got nothing
          Owner,     \* the worker the queue belongs to
          Thieves,   \* its neighbours
          MaxCount   \* capacity

VARIABLES deque,     \* the queued instances, oldest first
          hand       \* what the last call of each thread returned

vars == <<deque, hand>>

Init == deque = <<>> /\ hand = [t \in Thieves \cup {Owner} |-> NoJob]

Push(j) ==
  /\ Len(deque) < MaxCount
  /\ ~Contains(deque, j)
  /\ deque' = Append(deque, j)
  /\ UNCHANGED hand

Pop ==
  /\ deque # <<>>
  /\ hand' = [hand EXCEPT ![Owner] = Last(deque)]
  /\ deque' = Front(deque)

Steal(t) ==
  /\ deque # <<>>
  /\ hand' = [hand EXCEPT ![t] = Head(deque)]
  /\ deque' = Tail(deque)

\* A new call begins: its caller holds nothing yet.
Call(t) == hand' = [hand EXCEPT ![t] = NoJob] /\ UNCHANGED deque

Next ==
  \/ \E j \in Jobs : Push(j)
  \/ Pop
  \/ \E t \in Thieves : Steal(t)
  \/ \E t \in Thieves \cup {Owner} : Call(t)

Spec == Init /\ [][Next]_vars
=============================================================================
