----------------------------- MODULE Condition ------------------------------
(***************************************************************************)
(* mk::cc::Condition over any lock, used the way a condition variable is   *)
(* used: consumers wait until there is an item, producers add an item and  *)
(* notify.  A flag spares notifiers the bucket when nobody waits.          *)
(*                                                                         *)
(* A critical section of the ParkingLot bucket is one action; eNoneLeft    *)
(* is reported only if the woken thread is the last in the bucket, and     *)
(* eMayHaveMore at any time (see module ParkingLot).                       *)
(***************************************************************************)
EXTENDS Naturals, Sequences, FiniteSets, SequencesExt

CONSTANTS Consumers, \* threads that wait for one item each
          Producers, \* threads that add one item each
          Nil        \* no thread

VARIABLES hasWaiters, \* hasWaiters_
          queue,      \* the threads parked at the condition, oldest first
          owner,      \* the thread that holds the user's lock
          items,      \* what the consumers wait for
          pc,         \* where each thread is
          gaveUp      \* the consumers whose last wait returned eTimeout

vars == <<hasWaiters, queue, owner, items, pc, gaveUp>>

Threads == Consumers \cup Producers

Init ==
  /\ hasWaiters = FALSE
  /\ queue = <<>>
  /\ owner = Nil
  /\ items = 0
  /\ pc = [t \in Threads |-> "start"]
  /\ gaveUp = {}

At(t, label) == pc[t] = label

Goto(t, label) == pc' = [pc EXCEPT ![t] = label]

LockUser(t, from, to) ==
  /\ At(t, from) /\ owner = Nil
  /\ owner' = t
  /\ Goto(t, to)
  /\ UNCHANGED <<hasWaiters, queue, items, gaveUp>>

-----------------------------------------------------------------------------
(* A consumer: while there is no item, wait *)

ConsumerLock(t) == LockUser(t, "start", "test")

\* With an item the consumer is done; without one it gives up after a timeout,
\* and else waits (again).
Test(t) ==
  /\ At(t, "test")
  /\ \/ /\ items > 0
        /\ items' = items - 1 /\ owner' = Nil /\ Goto(t, "done") /\ UNCHANGED gaveUp
     \/ /\ items = 0 /\ t \in gaveUp
        /\ owner' = Nil /\ Goto(t, "done") /\ UNCHANGED <<items, gaveUp>>
     \/ /\ items = 0 /\ t \notin gaveUp
        /\ Goto(t, "validate") /\ UNCHANGED <<items, owner, gaveUp>>
  /\ UNCHANGED <<hasWaiters, queue>>

\* Mutant: the flag is not set.
EnqueueUnflagged(t) ==
  /\ At(t, "validate")
  /\ queue' = Append(queue, t)
  /\ Goto(t, "beforeSleep")
  /\ UNCHANGED <<hasWaiters, owner, items, gaveUp>>

\* The flag is set and the thread enqueued under the lock of the bucket.
Enqueue(t) ==
  /\ At(t, "validate")
  /\ hasWaiters' = TRUE
  /\ queue' = Append(queue, t)
  /\ Goto(t, "beforeSleep")
  /\ UNCHANGED <<owner, items, gaveUp>>

\* The user's lock is given up only now.
BeforeSleep(t) ==
  /\ At(t, "beforeSleep")
  /\ owner' = Nil
  /\ Goto(t, "asleep")
  /\ UNCHANGED <<hasWaiters, queue, items, gaveUp>>

Woken(t) ==
  /\ At(t, "asleep") /\ ~Contains(queue, t)
  /\ Goto(t, "relock")
  /\ UNCHANGED <<hasWaiters, queue, owner, items, gaveUp>>

TimeOut(t) ==
  /\ At(t, "asleep")
  /\ \E i \in 1 .. Len(queue) : queue[i] = t /\ queue' = RemoveAt(queue, i)
  /\ gaveUp' = gaveUp \cup {t}
  /\ Goto(t, "relock")
  /\ UNCHANGED <<hasWaiters, owner, items>>

Relock(t) == LockUser(t, "relock", "test")

-----------------------------------------------------------------------------
(* A producer: notifyOne or notifyAll, with or without the user's lock *)

ProducerLock(t) == LockUser(t, "start", "produce")

Produce(t) ==
  /\ At(t, "produce")
  /\ items' = items + 1
  /\ owner' \in {Nil, t}
  /\ \E label \in {"oneLoad", "allLoad"} : Goto(t, label)
  /\ UNCHANGED <<hasWaiters, queue, gaveUp>>

\* The call is over; the producer unlocks if it notified under the lock.
Finish(t) ==
  /\ Goto(t, "done")
  /\ owner' = IF owner = t THEN Nil ELSE owner

NotifyLoad(t, from, to) ==
  /\ At(t, from)
  /\ IF hasWaiters THEN Goto(t, to) /\ UNCHANGED owner ELSE Finish(t)
  /\ UNCHANGED <<hasWaiters, queue, items, gaveUp>>

NotifyOneLoad(t) == NotifyLoad(t, "oneLoad", "unparkOne")

NotifyAllLoad(t) == NotifyLoad(t, "allLoad", "clearFlag")

\* Mutant: the flag is cleared whoever is left.
UnparkOneClears(t) ==
  /\ At(t, "unparkOne")
  /\ queue' = IF queue = <<>> THEN <<>> ELSE Tail(queue)
  /\ hasWaiters' = FALSE
  /\ Finish(t)
  /\ UNCHANGED <<items, gaveUp>>

UnparkOne(t) ==
  /\ At(t, "unparkOne")
  /\ IF queue = <<>>
     THEN UNCHANGED <<hasWaiters, queue>>
     ELSE /\ queue' = Tail(queue)
          /\ hasWaiters' \in {hasWaiters} \cup IF Len(queue) = 1 THEN {FALSE} ELSE {}
  /\ Finish(t)
  /\ UNCHANGED <<items, gaveUp>>

\* Unlike the store of notifyOne, this one is not made under the bucket's lock.
ClearFlag(t) ==
  /\ At(t, "clearFlag")
  /\ hasWaiters' = FALSE
  /\ Goto(t, "unparkAll")
  /\ UNCHANGED <<queue, owner, items, gaveUp>>

UnparkAll(t) ==
  /\ At(t, "unparkAll")
  /\ queue' = <<>>
  /\ Finish(t)
  /\ UNCHANGED <<hasWaiters, items, gaveUp>>

-----------------------------------------------------------------------------
ConsumerStep(t) ==
  ConsumerLock(t) \/ Test(t) \/ Enqueue(t) \/ BeforeSleep(t) \/ Woken(t) \/ Relock(t)

ProducerStep(t) ==
  \/ ProducerLock(t) \/ Produce(t) \/ NotifyOneLoad(t) \/ NotifyAllLoad(t)
  \/ UnparkOne(t) \/ ClearFlag(t) \/ UnparkAll(t)

Done == (\A t \in Threads : At(t, "done")) /\ UNCHANGED vars

Next ==
  \/ \E t \in Consumers : ConsumerStep(t) \/ TimeOut(t)
  \/ \E t \in Producers : ProducerStep(t)
  \/ Done

Spec == Init /\ [][Next]_vars

\* Every thread keeps running; no deadline is relied upon.
FairSpec ==
  /\ Spec
  /\ \A t \in Consumers : WF_vars(ConsumerStep(t))
  /\ \A t \in Producers : WF_vars(ProducerStep(t))

-----------------------------------------------------------------------------
TypeOK ==
  /\ hasWaiters \in BOOLEAN
  /\ queue \in Seq(Consumers)
  /\ owner \in Threads \cup {Nil}
  /\ items \in 0 .. Cardinality(Producers)
  /\ pc \in [Threads -> {"start", "test", "validate", "beforeSleep", "asleep", "relock",
                         "produce", "oneLoad", "unparkOne", "allLoad", "clearFlag",
                         "unparkAll", "done"}]
  /\ gaveUp \subseteq Consumers

\* The flag may be up with nobody waiting, but it is down with somebody in the
\* queue only while a notifyAll that is about to empty the queue has the floor.
WaitersFlagged ==
  TypeOK /\ (queue # <<>> => hasWaiters \/ \E t \in Producers : At(t, "unparkAll"))

\* No notification falls between the test of the consumer and its sleep, or
\* between the flag and the queue: with an item for each consumer, each ends.
ConsumersServed == \A t \in Consumers : <>At(t, "done")
=============================================================================
