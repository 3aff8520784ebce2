------------------------------ MODULE MCWaiting ------------------------------
(***************************************************************************)
(* The instances for TLC of two components in which a thread goes to sleep *)
(* and relies on others to wake it: the queue of WordLock, and Condition   *)
(* with an item for each consumer.  They share no state; a behaviour runs  *)
(* the one that part names and leaves the other where it starts.           *)
(***************************************************************************)
EXTENDS Naturals, FiniteSets

CONSTANTS Lockers,                  \* Threads of WordLock
          Consumers, Producers, Nil \* of Condition

ASSUME ProducersAssumption == IsFiniteSet(Producers)
ASSUME RolesAssumption == Consumers \cap Producers = {} /\ Nil \notin Consumers \cup Producers

VARIABLES part,
          addr, lockNode, lockPc, current, spinCount, popped, \* WordLock
          hasWaiters, queue, owner, items, waitPc, gaveUp     \* Condition

lockVars == <<addr, lockNode, lockPc, current, spinCount, popped>>
waitVars == <<hasWaiters, queue, owner, items, waitPc, gaveUp>>

Word == INSTANCE WordLock WITH
  Threads <- Lockers, MaxSpin <- 0, Spurious <- FALSE, node <- lockNode, pc <- lockPc

Waiting == INSTANCE Condition WITH pc <- waitPc

WaitingInit == part \in {"WordLock", "Condition"} /\ Waiting!Init /\ Word!Init

Runs(p) ==
  /\ part = p /\ UNCHANGED part
  /\ p # "WordLock" => UNCHANGED lockVars
  /\ p # "Condition" => UNCHANGED waitVars

WaitingNext ==
  \/ Runs("WordLock") /\ Word!Next
  \/ Runs("Condition") /\ Waiting!Next

\* The fairness of each module, for the part that runs.
Fairness ==
  /\ \A t \in Lockers : WF_lockVars(Runs("WordLock") /\ Word!Step(t))
  /\ \A t \in Consumers : WF_waitVars(Runs("Condition") /\ Waiting!ConsumerStep(t))
  /\ \A t \in Producers : WF_waitVars(Runs("Condition") /\ Waiting!ProducerStep(t))

WaitingSpec == WaitingInit /\ [][WaitingNext]_<<part, waitVars, lockVars>> /\ Fairness
-----------------------------------------------------------------------------
\* A notifier that finds the flag down leaves nobody behind: see module Condition.
WaitersFlagged == Waiting!WaitersFlagged

\* A thread asleep on a WordLock is woken: see module WordLock.
SleeperIsWoken == Word!SleeperIsWoken

\* Every consumer gets its item: see module Condition.
EveryoneServed == part = "Condition" => Waiting!ConsumersServed
=============================================================================
