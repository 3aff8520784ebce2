------------------------------ MODULE WordLock ------------------------------
(***************************************************************************)
(* mk::cc::WordLock: a lock in one atomic word.  The word holds a "locked" *)
(* bit, a "queue locked" bit and a pointer to the first WaitNode of a FIFO *)
(* queue; each node lives on the stack of the thread that sleeps on it.    *)
(*                                                                         *)
(* One action per access to the atomic word, or per run of plain accesses  *)
(* made under one lock.  A node is named by the thread that owns it.       *)
(***************************************************************************)
EXTENDS Naturals, Sequences, FiniteSets

CONSTANTS Threads,   \* the threads that use the lock
          Nil,       \* the null pointer
          MaxSpin,   \* kMaxSpinCount
          Spurious   \* may compare_exchange_weak fail when the values agree?

ASSUME NilAssumption == Nil \notin Threads
ASSUME ThreadsAssumption == IsFiniteSet(Threads)
ASSUME MaxSpinAssumption == MaxSpin \in Nat
ASSUME SpuriousAssumption == Spurious \in BOOLEAN

VARIABLES addr,      \* addr_: head pointer, kLockedBit, kQueueLockedBit
          node,      \* the WaitNode of each thread
          pc,        \* where each thread is
          current,   \* its local copy of the word
          spinCount, \* its local spin counter
          popped     \* the node it took from the queue in unlockSlow

vars == <<addr, node, pc, current, spinCount, popped>>

Pointers == Threads \cup {Nil}

Words == [head : Pointers, locked : BOOLEAN, qlocked : BOOLEAN]

Nodes == [next : Pointers, tail : Pointers, shouldPark : BOOLEAN]

Free == [head |-> Nil, locked |-> FALSE, qlocked |-> FALSE]

Held == [head |-> Nil, locked |-> TRUE, qlocked |-> FALSE]

\* A node as its declaration leaves it; Nil stands for a pointer never set.
FreshNode == [next |-> Nil, tail |-> Nil, shouldPark |-> FALSE]

Init ==
  /\ addr = Free
  /\ node = [t \in Threads |-> FreshNode]
  /\ pc = [t \in Threads |-> "idle"]
  /\ current = [t \in Threads |-> Free]
  /\ spinCount = [t \in Threads |-> 0]
  /\ popped = [t \in Threads |-> Nil]

Goto(t, label) == pc' = [pc EXCEPT ![t] = label]

At(t, label) == pc[t] = label

CasWins(expected, desired) == addr = expected /\ addr' = desired

CasLoses(expected) == (Spurious \/ addr # expected) /\ UNCHANGED addr

-----------------------------------------------------------------------------
(* lock() and lockSlow() *)

LockFast(t) ==
  /\ At(t, "idle")
  /\ \/ CasWins(Free, Held) /\ Goto(t, "critical") /\ UNCHANGED spinCount
     \/ CasLoses(Free) /\ Goto(t, "load") /\ spinCount' = [spinCount EXCEPT ![t] = 0]
  /\ UNCHANGED <<node, current, popped>>

\* Mutant: one spin too many.
SpinOnceMore(t, word) ==
  IF word.head = Nil /\ spinCount[t] <= MaxSpin
  THEN Goto(t, "load") /\ spinCount' = [spinCount EXCEPT ![t] = @ + 1]
  ELSE Goto(t, "queueLoad") /\ UNCHANGED spinCount

SpinOrQueue(t, word) ==
  IF word.head = Nil /\ spinCount[t] < MaxSpin
  THEN Goto(t, "load") /\ spinCount' = [spinCount EXCEPT ![t] = @ + 1]
  ELSE Goto(t, "queueLoad") /\ UNCHANGED spinCount

Load(t) ==
  /\ At(t, "load")
  /\ current' = [current EXCEPT ![t] = addr]
  /\ IF addr.locked
     THEN SpinOrQueue(t, addr)
     ELSE Goto(t, "acquire") /\ UNCHANGED spinCount
  /\ UNCHANGED <<addr, node, popped>>

\* Mutant: the new word is kLockedBit alone and forgets the queue.
AcquireDropsQueue(t) ==
  /\ At(t, "acquire")
  /\ \/ CasWins(current[t], Held) /\ Goto(t, "critical") /\ UNCHANGED spinCount
     \/ CasLoses(current[t]) /\ SpinOrQueue(t, current[t])
  /\ UNCHANGED <<node, current, popped>>

Acquire(t) ==
  /\ At(t, "acquire")
  /\ \/ CasWins(current[t], [current[t] EXCEPT !.locked = TRUE])
        /\ Goto(t, "critical") /\ UNCHANGED spinCount
     \/ CasLoses(current[t]) /\ SpinOrQueue(t, current[t])
  /\ UNCHANGED <<node, current, popped>>

\* The node is declared, and destroyed again when the loop continues.
QueueLoad(t) ==
  /\ At(t, "queueLoad")
  /\ current' = [current EXCEPT ![t] = addr]
  /\ node' = [node EXCEPT ![t] = FreshNode]
  /\ Goto(t, IF ~addr.locked \/ addr.qlocked THEN "load" ELSE "queueCas")
  /\ UNCHANGED <<addr, spinCount, popped>>

QueueCas(t) ==
  /\ At(t, "queueCas")
  /\ \/ CasWins(current[t], [current[t] EXCEPT !.qlocked = TRUE]) /\ Goto(t, "link")
     \/ CasLoses(current[t]) /\ Goto(t, "load")
  /\ UNCHANGED <<node, current, spinCount, popped>>

\* Mutant: the pointer to the first node is published without kLockedBit.
LinkFirstUnlocks(t) ==
  /\ current[t].head = Nil
  /\ node' = [node EXCEPT ![t] = [next |-> Nil, tail |-> t, shouldPark |-> TRUE]]
  /\ current' = [current EXCEPT ![t] = [Free EXCEPT !.head = t]]

LinkFirst(t) ==
  /\ current[t].head = Nil
  /\ node' = [node EXCEPT ![t] = [next |-> Nil, tail |-> t, shouldPark |-> TRUE]]
  /\ current' = [current EXCEPT ![t] = [Free EXCEPT !.head = t, !.locked = TRUE]]

LinkLast(t) ==
  LET head == current[t].head
      self == [node EXCEPT ![t].next = Nil, ![t].shouldPark = TRUE]
      last == self[head].tail
  IN  /\ head # Nil
      /\ node' = [self EXCEPT ![last].next = t, ![head].tail = t]
      /\ current' = [current EXCEPT ![t].qlocked = FALSE]

Link(t) ==
  /\ At(t, "link")
  /\ LinkFirst(t) \/ LinkLast(t)
  /\ Goto(t, "publish")
  /\ UNCHANGED <<addr, spinCount, popped>>

\* A plain store: it is right only if nobody else changed the word meanwhile.
Publish(t) ==
  /\ At(t, "publish")
  /\ addr' = current[t]
  /\ Goto(t, "parking")
  /\ UNCHANGED <<node, current, spinCount, popped>>

NodeMutexFree(t) == \A u \in Threads : ~(At(u, "notify") /\ popped[u] = t)

\* The mutex of the node is taken, shouldPark read and the wait begun.
Park(t) ==
  /\ At(t, "parking")
  /\ NodeMutexFree(t)
  /\ Goto(t, IF node[t].shouldPark THEN "asleep" ELSE "load")
  /\ UNCHANGED <<addr, node, current, spinCount, popped>>

\* Mutant: an "if" in place of the loop around the wait.
SpuriousReturn(t) ==
  /\ At(t, "asleep")
  /\ Goto(t, "load")
  /\ UNCHANGED <<addr, node, current, spinCount, popped>>

SpuriousWakeup(t) ==
  /\ At(t, "asleep")
  /\ Goto(t, "parking")
  /\ UNCHANGED <<addr, node, current, spinCount, popped>>

-----------------------------------------------------------------------------
(* unlock() and unlockSlow() *)

UnlockFast(t) ==
  /\ At(t, "critical")
  /\ \/ CasWins(Held, Free) /\ Goto(t, "idle")
     \/ CasLoses(Held) /\ Goto(t, "unlockLoad")
  /\ UNCHANGED <<node, current, spinCount, popped>>

\* Mutant: no wait for the thread that holds the queue bit.
UnlockLoadImpatient(t) ==
  /\ At(t, "unlockLoad")
  /\ current' = [current EXCEPT ![t] = addr]
  /\ Goto(t, IF addr = Held THEN "unlockCas" ELSE "unlockQueueCas")
  /\ UNCHANGED <<addr, node, spinCount, popped>>

UnlockLoad(t) ==
  /\ At(t, "unlockLoad")
  /\ current' = [current EXCEPT ![t] = addr]
  /\ Goto(t, IF addr = Held THEN "unlockCas"
             ELSE IF addr.qlocked THEN "unlockLoad" ELSE "unlockQueueCas")
  /\ UNCHANGED <<addr, node, spinCount, popped>>

UnlockCas(t) ==
  /\ At(t, "unlockCas")
  /\ \/ CasWins(Held, Free) /\ Goto(t, "idle")
     \/ CasLoses(Held) /\ Goto(t, "unlockLoad")
  /\ UNCHANGED <<node, current, spinCount, popped>>

UnlockQueueCas(t) ==
  /\ At(t, "unlockQueueCas")
  /\ \/ CasWins(current[t], [current[t] EXCEPT !.qlocked = TRUE]) /\ Goto(t, "pop")
     \/ CasLoses(current[t]) /\ Goto(t, "unlockLoad")
  /\ UNCHANGED <<node, current, spinCount, popped>>

\* Mutant: the next head does not learn where the tail is.
PopForgetsTail(t) ==
  /\ At(t, "pop")
  /\ current' = [current EXCEPT ![t] = addr]
  /\ popped' = [popped EXCEPT ![t] = addr.head]
  /\ Goto(t, "release")
  /\ UNCHANGED <<addr, node, spinCount>>

Pop(t) ==
  LET first == addr.head
      second == node[first].next
  IN  /\ At(t, "pop")
      /\ current' = [current EXCEPT ![t] = addr]
      /\ popped' = [popped EXCEPT ![t] = first]
      /\ node' = IF second = Nil THEN node
                 ELSE [node EXCEPT ![second].tail = node[first].tail]
      /\ Goto(t, "release")
      /\ UNCHANGED <<addr, spinCount>>

\* A plain store that clears both bits and removes the head.
Release(t) ==
  /\ At(t, "release")
  /\ addr' = [Free EXCEPT !.head = node[popped[t]].next]
  /\ Goto(t, "wake")
  /\ UNCHANGED <<node, current, spinCount, popped>>

\* Mutant: shouldPark stays up, so the woken thread goes back to sleep.
WakeKeepsFlag(t) ==
  /\ At(t, "wake")
  /\ Goto(t, "notify")
  /\ UNCHANGED <<addr, node, current, spinCount, popped>>

\* Takes the mutex of the node and keeps it until Notify is done.
Wake(t) ==
  /\ At(t, "wake")
  /\ node' = [node EXCEPT ![popped[t]].shouldPark = FALSE]
  /\ Goto(t, "notify")
  /\ UNCHANGED <<addr, current, spinCount, popped>>

Notify(t) ==
  /\ At(t, "notify")
  /\ pc' = [u \in Threads |->
              IF u = t THEN "idle"
              ELSE IF u = popped[t] /\ At(u, "asleep") THEN "parking" ELSE pc[u]]
  /\ popped' = [popped EXCEPT ![t] = Nil]
  /\ UNCHANGED <<addr, node, current, spinCount>>

-----------------------------------------------------------------------------
\* What a thread does once it called lock(), SpuriousWakeup excepted.
Step(t) ==
  \/ Load(t) \/ Acquire(t)
  \/ QueueLoad(t) \/ QueueCas(t) \/ Link(t) \/ Publish(t) \/ Park(t)
  \/ UnlockFast(t) \/ UnlockLoad(t) \/ UnlockCas(t) \/ UnlockQueueCas(t)
  \/ Pop(t) \/ Release(t) \/ Wake(t) \/ Notify(t)

Next == \E t \in Threads : LockFast(t) \/ SpuriousWakeup(t) \/ Step(t)

Spec == Init /\ [][Next]_vars

\* Threads that are inside lock() or unlock() or hold the lock keep running;
\* nobody is obliged to call lock(), and spurious wakeups may never come.
FairSpec == Spec /\ \A t \in Threads : WF_vars(Step(t))
-----------------------------------------------------------------------------
Labels == {"idle", "load", "acquire", "queueLoad", "queueCas", "link", "publish",
           "parking", "asleep", "critical", "unlockLoad", "unlockCas",
           "unlockQueueCas", "pop", "release", "wake", "notify"}

TypeOK ==
  /\ addr \in Words
  /\ node \in [Threads -> Nodes]
  /\ pc \in [Threads -> Labels]
  /\ current \in [Threads -> Words]
  /\ spinCount \in [Threads -> 0 .. MaxSpin]
  /\ popped \in [Threads -> Pointers]

\* From the CAS that took the lock to the store or CAS that gives it back.
Holds(t) == pc[t] \in {"critical", "unlockLoad", "unlockCas", "unlockQueueCas",
                       "pop", "release"}

\* The thread that set kQueueLockedBit and has not cleared it.
HoldsQueue(t) == pc[t] \in {"link", "publish", "pop", "release"}

\* The WaitNode of t is on the stack of t: t has not left the loop body.
NodeInScope(t) == pc[t] \in {"queueCas", "link", "publish", "parking", "asleep"}

\* The nodes reachable from the word, first in first out.  A queue longer than
\* the number of threads contains a cycle, and is cut off.
Queue ==
  LET bound == Cardinality(Threads) + 1
  IN  CHOOSE q \in UNION {[1 .. n -> Threads] : n \in 0 .. bound} :
        /\ q # <<>> => q[1] = addr.head
        /\ \A i \in 2 .. Len(q) : q[i] = node[q[i - 1]].next
        /\ \/ Len(q) = bound
           \/ (IF q = <<>> THEN addr.head ELSE node[q[Len(q)]].next) = Nil

Queued == {Queue[i] : i \in 1 .. Len(Queue)}

\* No two threads are between lock() and the store that unlocks: the promise
\* of the lock, across both fast paths, the queue and the barging threads.
MutualExclusion == \A t, u \in Threads : Holds(t) /\ Holds(u) => t = u

\* The four MK_ASSERTs of WordLock.cpp: an unlocked word never carries the queue
\* bit, and an unlocker that won the queue bit finds both bits and a sleeper.
AssertsHold ==
  \A t \in Threads :
    /\ At(t, "acquire") => ~current[t].qlocked
    /\ At(t, "pop") => addr.locked /\ addr.qlocked /\ addr.head # Nil

\* The intrusive list is sound whenever nobody is editing it: no cycle, each
\* member is a live node of a thread that is about to sleep or asleep, and the
\* first node knows the last one (its tail field is otherwise indeterminate).
QueueWellFormed ==
  (\A t \in Threads : ~HoldsQueue(t)) =>
    /\ Len(Queue) = Cardinality(Queued)
    /\ \A t \in Queued : pc[t] \in {"parking", "asleep"} /\ node[t].shouldPark
    /\ Queue # <<>> => node[Queue[1]].tail = Queue[Len(Queue)]

\* A pointer to a WaitNode is followed only while the thread that owns the
\* node is still inside the loop body that declared it: the waker still has to
\* use the mutex and the condition of the node after it left the queue.
NoUseAfterScope ==
  \A t \in Threads :
    /\ pc[t] \in {"release", "wake", "notify"} => NodeInScope(popped[t])
    /\ At(t, "link") /\ current[t].head # Nil =>
         LET head == current[t].head
         IN  NodeInScope(head) /\ node[head].tail # Nil /\ NodeInScope(node[head].tail)

\* Every step of the lock is a step of FifoLock or changes nothing there.
Holder ==
  IF \E t \in Threads : Holds(t) THEN CHOOSE t \in Threads : Holds(t) ELSE Nil

Abstract == INSTANCE FifoLock WITH owner <- Holder, sleepers <- Queue

ImplementsFifoLock == Abstract!Spec

\* A thread that went to sleep is woken, as long as the holders unlock: no
\* wakeup is lost between the queue, shouldPark and the condition variable.
SleeperIsWoken == \A t \in Threads : At(t, "parking") ~> At(t, "load")
=============================================================================
