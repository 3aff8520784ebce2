--------------------------- MODULE WordLockProofs ---------------------------
(***************************************************************************)
(* Theorems about WordLock for every set of threads, spin bound and choice *)
(* of Spurious: first about the word, then about the queue, which is a     *)
(* list without a cycle that every step keeps, appends to or takes the     *)
(* head of.  From this follow the soundness of the list, the lifetime of   *)
(* its nodes, and that WordLock implements FifoLock.                       *)
(***************************************************************************)
EXTENDS WordLock, ListFacts

USE NilAssumption

-----------------------------------------------------------------------------
(* The fields of the words the code builds, so that the proofs below need no *)
(* record update.                                                            *)

LEMMA WordFacts ==
  /\ Free \in Words /\ ~Free.locked /\ ~Free.qlocked /\ Free.head = Nil
  /\ Held \in Words /\ Held.locked /\ ~Held.qlocked /\ Held.head = Nil
BY DEF Free, Held, Words, Pointers

LEMMA LockedWord ==
  ASSUME NEW w \in Words
  PROVE  LET v == [w EXCEPT !.locked = TRUE]
         IN  v \in Words /\ v.locked /\ v.qlocked = w.qlocked /\ v.head = w.head
BY DEF Words

LEMMA QueueLockedWord ==
  ASSUME NEW w \in Words
  PROVE  LET v == [w EXCEPT !.qlocked = TRUE]
         IN  v \in Words /\ v.qlocked /\ v.locked = w.locked /\ v.head = w.head
BY DEF Words

LEMMA QueueUnlockedWord ==
  ASSUME NEW w \in Words
  PROVE  LET v == [w EXCEPT !.qlocked = FALSE]
         IN  v \in Words /\ ~v.qlocked /\ v.locked = w.locked /\ v.head = w.head
BY DEF Words

LEMMA FirstWord ==
  ASSUME NEW p \in Pointers
  PROVE  LET v == [Free EXCEPT !.head = p, !.locked = TRUE]
         IN  v \in Words /\ ~v.qlocked /\ v.locked /\ v.head = p
BY DEF Words, Free

LEMMA RestWord ==
  ASSUME NEW p \in Pointers
  PROVE  LET v == [Free EXCEPT !.head = p]
         IN  v \in Words /\ ~v.qlocked /\ ~v.locked /\ v.head = p
BY DEF Words, Free

LEMMA FreshNodeType == FreshNode \in Nodes
BY DEF FreshNode, Nodes, Pointers
LEMMA NextUpdate ==
  ASSUME NEW f \in [Threads -> Nodes], NEW p, NEW q \in Pointers
  PROVE  [f EXCEPT ![p].next = q] \in [Threads -> Nodes]
BY DEF Nodes

LEMMA TailUpdate ==
  ASSUME NEW f \in [Threads -> Nodes], NEW p, NEW q \in Pointers
  PROVE  [f EXCEPT ![p].tail = q] \in [Threads -> Nodes]
BY DEF Nodes

LEMMA ParkUpdate ==
  ASSUME NEW f \in [Threads -> Nodes], NEW p, NEW b \in BOOLEAN
  PROVE  [f EXCEPT ![p].shouldPark = b] \in [Threads -> Nodes]
BY DEF Nodes

-----------------------------------------------------------------------------
\* What the local copy of the word, and the word, tell a thread at each label.
LocalInv(t) ==
  /\ At(t, "acquire") => ~current[t].locked /\ ~current[t].qlocked
  /\ pc[t] \in {"queueCas", "link", "publish"} =>
       current[t].locked /\ ~current[t].qlocked
  /\ At(t, "unlockQueueCas") =>
       current[t].locked /\ ~current[t].qlocked /\ current[t].head # Nil
  /\ At(t, "pop") => addr.head # Nil
  /\ At(t, "release") => popped[t] # Nil

QueueExclusion == \A t, u \in Threads : HoldsQueue(t) /\ HoldsQueue(u) => t = u

\* Both bits of the word are locks.  The second is only ever taken while the
\* first is held, which is what makes the two plain stores safe.
LockInv ==
  /\ \A t \in Threads : Holds(t) => addr.locked
  /\ \A t \in Threads : HoldsQueue(t) => addr.qlocked
  /\ addr.qlocked => addr.locked
  /\ MutualExclusion
  /\ QueueExclusion
  /\ \A t \in Threads : LocalInv(t)

Inv == TypeOK /\ LockInv

LEMMA InitInv == Init => Inv
  <1> SUFFICES ASSUME Init PROVE Inv
    OBVIOUS
  <1>1. TypeOK
    BY WordFacts, FreshNodeType, MaxSpinAssumption DEF Init, TypeOK, Labels, Pointers
  <1>2. LockInv
    BY WordFacts DEF Init, LockInv, LocalInv, MutualExclusion, QueueExclusion, Holds,
                     HoldsQueue, At
  <1>3. QED
    BY <1>1, <1>2 DEF Inv

\* A step that leaves the word alone, or only takes a label outside the two
\* critical sections to another one, cannot break the exclusions; the five that
\* win a CAS or store to the word are where the invariant is needed.
LEMMA StepInv ==
  ASSUME NEW t \in Threads, Inv, LockFast(t) \/ SpuriousWakeup(t) \/ Step(t)
  PROVE  Inv'
  <1> USE DEF Inv, Goto, At, CasWins, CasLoses, SpinOrQueue
  <1>1. CASE LockFast(t)
    <2>1. TypeOK'
      BY <1>1, WordFacts, MaxSpinAssumption DEF LockFast, TypeOK, Labels
    <2>2. LockInv'
      BY <1>1, WordFacts
      DEF LockFast, TypeOK, LockInv, LocalInv, MutualExclusion, QueueExclusion,
          Holds, HoldsQueue
    <2> QED BY <2>1, <2>2
  <1>2. CASE Load(t)
    <2>1. TypeOK'
      BY <1>2, MaxSpinAssumption DEF Load, TypeOK, Labels
    <2>2. LockInv'
      BY <1>2
      DEF Load, TypeOK, LockInv, LocalInv, MutualExclusion, QueueExclusion,
          Holds, HoldsQueue
    <2> QED BY <2>1, <2>2
  <1>3. CASE Acquire(t)
    <2> DEFINE w == [current[t] EXCEPT !.locked = TRUE]
    <2>1. w \in Words /\ w.locked /\ w.qlocked = current[t].qlocked
      BY LockedWord DEF TypeOK
    <2> HIDE DEF w
    <2>2. CASE addr = current[t] /\ addr' = w /\ pc' = [pc EXCEPT ![t] = "critical"]
               /\ UNCHANGED <<node, current, popped, spinCount>>
      <3>1. TypeOK'
        BY <2>1, <2>2 DEF TypeOK, Labels
      <3>2. LockInv'
        BY <1>3, <2>1, <2>2
        DEF Acquire, TypeOK, LockInv, LocalInv, MutualExclusion, QueueExclusion,
            Holds, HoldsQueue
      <3> QED BY <3>1, <3>2
    <2>3. CASE SpinOrQueue(t, current[t]) /\ UNCHANGED <<addr, node, current, popped>>
      <3>1. TypeOK'
        BY <2>3, MaxSpinAssumption DEF TypeOK, Labels
      <3>2. LockInv'
        BY <1>3, <2>3
        DEF Acquire, TypeOK, LockInv, LocalInv, MutualExclusion, QueueExclusion,
            Holds, HoldsQueue
      <3> QED BY <3>1, <3>2
    <2> QED BY <1>3, <2>2, <2>3 DEF Acquire, w
  <1>4. CASE QueueLoad(t)
    <2>1. TypeOK'
      BY <1>4, FreshNodeType DEF QueueLoad, TypeOK, Labels
    <2>2. LockInv'
      BY <1>4
      DEF QueueLoad, TypeOK, LockInv, LocalInv, MutualExclusion, QueueExclusion,
          Holds, HoldsQueue
    <2> QED BY <2>1, <2>2
  <1>5. CASE QueueCas(t)
    <2> DEFINE w == [current[t] EXCEPT !.qlocked = TRUE]
    <2>1. w \in Words /\ w.qlocked /\ w.locked = current[t].locked
          /\ w.head = current[t].head
      BY QueueLockedWord DEF TypeOK
    <2> HIDE DEF w
    <2>2. CASE addr = current[t] /\ addr' = w /\ pc' = [pc EXCEPT ![t] = "link"]
               /\ UNCHANGED <<node, current, popped, spinCount>>
      <3>1. TypeOK'
        BY <2>1, <2>2 DEF TypeOK, Labels
      <3>2. LockInv'
        BY <1>5, <2>1, <2>2
        DEF QueueCas, TypeOK, LockInv, LocalInv, MutualExclusion, QueueExclusion,
            Holds, HoldsQueue
      <3> QED BY <3>1, <3>2
    <2>3. CASE pc' = [pc EXCEPT ![t] = "load"]
               /\ UNCHANGED <<addr, node, current, popped, spinCount>>
      <3>1. TypeOK'
        BY <2>3 DEF TypeOK, Labels
      <3>2. LockInv'
        BY <1>5, <2>3
        DEF QueueCas, TypeOK, LockInv, LocalInv, MutualExclusion, QueueExclusion,
            Holds, HoldsQueue
      <3> QED BY <3>1, <3>2
    <2> QED BY <1>5, <2>2, <2>3 DEF QueueCas, w
  <1>6. CASE Link(t)
    <2>1. node' \in [Threads -> Nodes] /\ current' \in [Threads -> Words]
          /\ current'[t].locked /\ ~current'[t].qlocked
          /\ \A u \in Threads \ {t} : current'[u] = current[u]
      <3>1. CASE LinkFirst(t)
        <4>1. [next |-> Nil, tail |-> t, shouldPark |-> TRUE] \in Nodes
          BY DEF Nodes, Pointers
        <4> DEFINE w == [Free EXCEPT !.head = t, !.locked = TRUE]
        <4>2. w \in Words /\ ~w.qlocked /\ w.locked
          BY FirstWord DEF Pointers
        <4> HIDE DEF w
        <4>3. node' = [node EXCEPT ![t] = [next |-> Nil, tail |-> t, shouldPark |-> TRUE]]
              /\ current' = [current EXCEPT ![t] = w]
          BY <3>1 DEF LinkFirst, w
        <4> QED BY <4>1, <4>2, <4>3 DEF TypeOK
      <3>2. CASE LinkLast(t)
        <4> DEFINE w == [current[t] EXCEPT !.qlocked = FALSE]
                   head == current[t].head
                   own == [node EXCEPT ![t].next = Nil, ![t].shouldPark = TRUE]
                   last == own[head].tail
        <4>1. w \in Words /\ ~w.qlocked /\ w.locked = current[t].locked
          BY QueueUnlockedWord DEF TypeOK
        <4>2. own \in [Threads -> Nodes]
          BY NextUpdate, ParkUpdate DEF TypeOK, Pointers
        <4>3. node' = [[own EXCEPT ![last].next = t] EXCEPT ![head].tail = t]
              /\ current' = [current EXCEPT ![t] = w]
          BY <3>2 DEF LinkLast
        <4> HIDE DEF w, head, own, last
        <4>4. node' \in [Threads -> Nodes]
          BY <4>2, <4>3, NextUpdate, TailUpdate DEF Pointers
        <4>5. current[t].locked
          BY <1>6 DEF Link, LockInv, LocalInv
        <4> QED BY <4>1, <4>3, <4>4, <4>5 DEF TypeOK
      <3> QED BY <1>6, <3>1, <3>2 DEF Link
    <2>2. TypeOK'
      BY <1>6, <2>1 DEF Link, TypeOK, Labels
    <2>3. LockInv'
      BY <1>6, <2>1
      DEF Link, TypeOK, LockInv, LocalInv, MutualExclusion, QueueExclusion,
          Holds, HoldsQueue
    <2> QED BY <2>2, <2>3
  <1>7. CASE Publish(t)
    <2>1. TypeOK'
      BY <1>7 DEF Publish, TypeOK, Labels
    <2>2. LockInv'
      BY <1>7
      DEF Publish, TypeOK, LockInv, LocalInv, MutualExclusion, QueueExclusion,
          Holds, HoldsQueue
    <2> QED BY <2>1, <2>2
  <1>8. CASE Park(t) \/ SpuriousWakeup(t)
    <2>1. TypeOK'
      BY <1>8 DEF Park, SpuriousWakeup, TypeOK, Labels
    <2>2. LockInv'
      BY <1>8
      DEF Park, SpuriousWakeup, TypeOK, LockInv, LocalInv, MutualExclusion,
          QueueExclusion, Holds, HoldsQueue
    <2> QED BY <2>1, <2>2
  <1>9. CASE UnlockFast(t) \/ UnlockCas(t)
    <2>1. TypeOK'
      BY <1>9, WordFacts DEF UnlockFast, UnlockCas, TypeOK, Labels
    <2>2. LockInv'
      BY <1>9, WordFacts
      DEF UnlockFast, UnlockCas, TypeOK, LockInv, LocalInv, MutualExclusion,
          QueueExclusion, Holds, HoldsQueue
    <2> QED BY <2>1, <2>2
  <1>10. CASE UnlockLoad(t)
    <2>1. TypeOK'
      BY <1>10 DEF UnlockLoad, TypeOK, Labels
    <2>2. addr.locked
      BY <1>10 DEF UnlockLoad, LockInv, Holds
    <2>3. ASSUME addr.head = Nil, ~addr.qlocked PROVE addr = Held
      <3>1. Held = [head |-> Nil, locked |-> TRUE, qlocked |-> FALSE]
        BY DEF Held
      <3>2. addr = [head |-> addr.head, locked |-> addr.locked, qlocked |-> addr.qlocked]
        BY DEF TypeOK, Words
      <3>3. addr.locked = TRUE /\ addr.qlocked = FALSE
        BY <2>2, <2>3 DEF TypeOK, Words
      <3> QED BY <2>3, <3>1, <3>2, <3>3
    <2>4. LockInv'
      BY <1>10, <2>2, <2>3
      DEF UnlockLoad, TypeOK, LockInv, LocalInv, MutualExclusion, QueueExclusion,
          Holds, HoldsQueue
    <2> QED BY <2>1, <2>4
  <1>11. CASE UnlockQueueCas(t)
    <2> DEFINE w == [current[t] EXCEPT !.qlocked = TRUE]
    <2>1. w \in Words /\ w.qlocked /\ w.locked = current[t].locked
          /\ w.head = current[t].head
      BY QueueLockedWord DEF TypeOK
    <2> HIDE DEF w
    <2>2. CASE addr = current[t] /\ addr' = w /\ pc' = [pc EXCEPT ![t] = "pop"]
               /\ UNCHANGED <<node, current, popped, spinCount>>
      <3>1. TypeOK'
        BY <2>1, <2>2 DEF TypeOK, Labels
      <3>2. LockInv'
        BY <1>11, <2>1, <2>2
        DEF UnlockQueueCas, TypeOK, LockInv, LocalInv, MutualExclusion,
            QueueExclusion, Holds, HoldsQueue
      <3> QED BY <3>1, <3>2
    <2>3. CASE pc' = [pc EXCEPT ![t] = "unlockLoad"]
               /\ UNCHANGED <<addr, node, current, popped, spinCount>>
      <3>1. TypeOK'
        BY <2>3 DEF TypeOK, Labels
      <3>2. LockInv'
        BY <1>11, <2>3
        DEF UnlockQueueCas, TypeOK, LockInv, LocalInv, MutualExclusion,
            QueueExclusion, Holds, HoldsQueue
      <3> QED BY <3>1, <3>2
    <2> QED BY <1>11, <2>2, <2>3 DEF UnlockQueueCas, w
  <1>12. CASE Pop(t)
    <2>1. addr.head \in Threads
      BY <1>12 DEF Pop, LockInv, LocalInv, TypeOK, Words, Pointers
    <2>2. node' \in [Threads -> Nodes]
      <3>1. node[addr.head].tail \in Pointers
        BY <2>1 DEF TypeOK, Nodes
      <3> QED BY <1>12, <3>1, TailUpdate DEF Pop, TypeOK
    <2>3. TypeOK'
      BY <1>12, <2>1, <2>2 DEF Pop, TypeOK, Labels, Pointers
    <2>4. LockInv'
      BY <1>12, <2>1
      DEF Pop, TypeOK, LockInv, LocalInv, MutualExclusion, QueueExclusion,
          Holds, HoldsQueue
    <2> QED BY <2>3, <2>4
  <1>13. CASE Release(t)
    <2> DEFINE p == node[popped[t]].next
               w == [Free EXCEPT !.head = p]
    <2>1. p \in Pointers
      BY <1>13 DEF Release, LockInv, LocalInv, TypeOK, Nodes, Pointers
    <2>2. w \in Words /\ ~w.qlocked /\ ~w.locked
      BY <2>1, RestWord
    <2>3. addr' = w
      BY <1>13 DEF Release
    <2> HIDE DEF w
    <2>4. TypeOK'
      BY <1>13, <2>2, <2>3 DEF Release, TypeOK, Labels
    <2>5. LockInv'
      BY <1>13, <2>2, <2>3
      DEF Release, TypeOK, LockInv, LocalInv, MutualExclusion, QueueExclusion,
          Holds, HoldsQueue
    <2> QED BY <2>4, <2>5
  <1>14. CASE Wake(t)
    <2>1. TypeOK'
      BY <1>14, ParkUpdate DEF Wake, TypeOK, Labels
    <2>2. LockInv'
      BY <1>14
      DEF Wake, TypeOK, LockInv, LocalInv, MutualExclusion, QueueExclusion,
          Holds, HoldsQueue
    <2> QED BY <2>1, <2>2
  <1>15. CASE Notify(t)
    <2>1. TypeOK'
      BY <1>15 DEF Notify, TypeOK, Labels, Pointers
    <2>2. LockInv'
      BY <1>15
      DEF Notify, TypeOK, LockInv, LocalInv, MutualExclusion, QueueExclusion,
          Holds, HoldsQueue
    <2> QED BY <2>1, <2>2
  <1> QED
    BY <1>1, <1>2, <1>3, <1>4, <1>5, <1>6, <1>7, <1>8, <1>9, <1>10, <1>11, <1>12,
       <1>13, <1>14, <1>15 DEF Step

\* The inductive invariant, and what follows from it at every state.
LEMMA Invariance == Spec => []Inv
  <1>1. Inv /\ [Next]_vars => Inv'
    <2> SUFFICES ASSUME Inv, [Next]_vars PROVE Inv'
      OBVIOUS
    <2>1. CASE Next
      BY <2>1, StepInv DEF Next
    <2>2. CASE UNCHANGED vars
      BY <2>2 DEF vars, Inv, TypeOK, LockInv, LocalInv, MutualExclusion,
                  QueueExclusion, Holds, HoldsQueue, At
    <2> QED BY <2>1, <2>2
  <1> QED BY InitInv, <1>1, PTL DEF Spec

\* Type correctness of the word, the nodes and the locals of lockSlow and
\* unlockSlow.
THEOREM TypeCorrect == Spec => []TypeOK
  <1>1. Inv => TypeOK
    BY DEF Inv
  <1> QED BY <1>1, Invariance, PTL

\* WordLock::lock and WordLock::unlock exclude every two threads.
THEOREM Exclusion == Spec => []MutualExclusion
  <1>1. Inv => MutualExclusion
    BY DEF Inv, LockInv
  <1> QED BY <1>1, Invariance, PTL

\* The MK_ASSERTs of lockSlow and unlockSlow never fire.
THEOREM Assertions == Spec => []AssertsHold
  <1>1. Inv => AssertsHold
    BY DEF Inv, LockInv, LocalInv, AssertsHold, Holds, HoldsQueue, At
  <1> QED BY <1>1, Invariance, PTL

-----------------------------------------------------------------------------
(* The queue.  The sequence is a variable of the invariant and not the       *)
(* expression Queue, so that no step below has to walk along the pointers;   *)
(* QueueIs says that the two agree.                                          *)

\* The pointers lead from the word along q and no further.
Linked(q) ==
  /\ addr.head = IF q = <<>> THEN Nil ELSE q[1]
  /\ \A i \in 1 .. Len(q) : node[q[i]].next = IF i = Len(q) THEN Nil ELSE q[i + 1]

Distinct(q) == \A i, j \in 1 .. Len(q) : q[i] = q[j] => i = j

Waiting(t) == pc[t] \in {"parking", "asleep"}

\* The threads in the queue wait, or are about to publish the word with
\* themselves in it, and the first one knows the last.
Members(q) ==
  /\ \A i \in 1 .. Len(q) : node[q[i]].shouldPark /\ (Waiting(q[i]) \/ At(q[i], "publish"))
  /\ q # <<>> => node[q[1]].tail = q[Len(q)]

\* What the thread with the queue bit knows of the queue.
Editing(t, q) ==
  /\ At(t, "link") => current[t].head = addr.head
  /\ At(t, "publish") =>
       IF q = <<>>
       THEN /\ current[t].head = t
            /\ node[t].next = Nil /\ node[t].tail = t /\ node[t].shouldPark
       ELSE current[t].head = addr.head
  /\ At(t, "release") =>
       /\ popped[t] = addr.head
       /\ Len(q) > 1 => node[q[2]].tail = q[Len(q)]

\* A thread that was popped cannot leave before its waker is through with it.
Waking(t, q) ==
  pc[t] \in {"wake", "notify"} =>
    /\ popped[t] \in Threads /\ Waiting(popped[t])
    /\ \A i \in 1 .. Len(q) : q[i] # popped[t]
    /\ At(t, "wake") => node[popped[t]].shouldPark

WakingApart ==
  \A t, u \in Threads :
    {pc[t], pc[u]} \subseteq {"wake", "notify"} /\ popped[t] = popped[u] => t = u

QueueInv(q) ==
  /\ Linked(q) /\ Distinct(q) /\ Members(q)
  /\ \A t \in Threads : Editing(t, q) /\ Waking(t, q)

\* The lock bit is set for somebody: the queue is not left alone with it.
LockedIsHeld == addr.locked => \E t \in Threads : Holds(t)

QueueInvariant == LockedIsHeld /\ WakingApart /\ \E q \in Seq(Threads) : QueueInv(q)

\* A queue without repetition is no longer than the set of threads.
LEMMA QueueLength ==
  ASSUME NEW q \in Seq(Threads), Distinct(q)
  PROVE  Len(q) \in Nat /\ Cardinality(Threads) \in Nat /\ Len(q) <= Cardinality(Threads)
  <1>1. Len(q) \in Nat /\ q \in [1 .. Len(q) -> Threads]
    BY LenProperties
  <1>2. q \in Injection(1 .. Len(q), Threads)
    BY <1>1 DEF Distinct, Injection, IsInjective
  <1>3. Cardinality(1 .. Len(q)) = Len(q)
    BY <1>1, FS_Interval
  <1>4. Cardinality(1 .. Len(q)) <= Cardinality(Threads)
    BY <1>2, FS_Injection, ThreadsAssumption
  <1> QED BY <1>1, <1>3, <1>4, FS_CardinalityType, ThreadsAssumption

\* What Queue chooses: a walk along the pointers.
Walk(r) ==
  /\ r # <<>> => r[1] = addr.head
  /\ \A i \in 2 .. Len(r) : r[i] = node[r[i - 1]].next
  /\ \/ Len(r) = Cardinality(Threads) + 1
     \/ (IF r = <<>> THEN addr.head ELSE node[r[Len(r)]].next) = Nil

\* Two walks from the same word agree at every position: a first difference
\* would need two successors of one node.
LEMMA QueueIs ==
  ASSUME NEW q \in Seq(Threads), Linked(q), Distinct(q)
  PROVE  Queue = q
  <1> DEFINE N == Cardinality(Threads)
             Walks == UNION {[1 .. n -> Threads] : n \in 0 .. N + 1}
  <1>1. Len(q) \in Nat /\ N \in Nat /\ Len(q) <= N
    BY QueueLength
  <1>2. q \in Walks
    BY <1>1, LenProperties
  <1>3. Walk(q)
    <2>1. q # <<>> => Len(q) # 0
      BY EmptySeq
    <2>2. \A i \in 2 .. Len(q) : i - 1 \in 1 .. Len(q) /\ i - 1 # Len(q) /\ (i - 1) + 1 = i
      BY <1>1
    <2>3. q # <<>> => Len(q) \in 1 .. Len(q)
      BY <1>1, <2>1
    <2> QED BY <2>2, <2>3 DEF Walk, Linked
  <1>4. Queue = CHOOSE r \in Walks : Walk(r)
    BY DEF Queue, Walk
  <1> HIDE DEF N, Walks
  <1>5. ASSUME NEW r \in Walks, Walk(r) PROVE r = q
    <2>1. PICK n \in 0 .. N + 1 : r \in [1 .. n -> Threads]
      BY DEF Walks
    <2>2. n \in Nat /\ n <= N + 1
      BY <1>1
    <2>3. r \in Seq(Threads) /\ Len(r) = n
      <3>1. n \in Nat
        BY <2>2
      <3>2. r \in Seq(Threads)
        BY <2>1, <3>1, SeqDef
      <3>3. DOMAIN r = 1 .. Len(r) /\ DOMAIN r = 1 .. n /\ Len(r) \in Nat
        BY <2>1, <3>2, LenProperties
      <3>4. \A i : i \in 1 .. Len(r) <=> i \in 1 .. n
        BY <3>3
      <3>5. Len(r) = 0 \/ Len(r) \in 1 .. n
        BY <3>3, <3>4
      <3>6. n = 0 \/ n \in 1 .. Len(r)
        BY <3>1, <3>4
      <3>7. Len(r) \in Nat
        BY <3>3
      <3> QED BY <3>1, <3>2, <3>5, <3>6, <3>7
    <2>4. r = <<>> <=> n = 0
      BY <2>3, EmptySeq
    <2>5. q = <<>> <=> Len(q) = 0
      BY EmptySeq
    <2>6. \A i \in 1 .. n : i <= Len(q) => r[i] = q[i]
      <3> DEFINE D == {i \in 1 .. n : i <= Len(q) /\ r[i] # q[i]}
      <3> SUFFICES ASSUME D # {} PROVE FALSE
        OBVIOUS
      <3>1. D \subseteq Nat
        BY <1>1, <2>2
      <3> HIDE DEF D
      <3>2. PICK i \in D : \A j \in D : i <= j
        BY <3>1, Least
      <3>3. i \in 1 .. n /\ i \in 1 .. Len(q) /\ r[i] # q[i]
        BY <1>1, <2>2 DEF D
      <3>4. CASE i = 1
        BY <1>5, <2>4, <2>5, <3>3, <3>4 DEF Walk, Linked
      <3>5. CASE i # 1
        <4>1. i \in 2 .. n /\ i - 1 \in 1 .. n /\ i - 1 \in 1 .. Len(q) /\ i - 1 # Len(q)
              /\ (i - 1) + 1 = i /\ ~(i <= i - 1)
          BY <1>1, <2>2, <3>3, <3>5
        <4>2. r[i - 1] = q[i - 1]
          BY <3>2, <4>1 DEF D
        <4>3. r[i] = node[r[i - 1]].next
          BY <1>5, <2>3, <4>1 DEF Walk
        <4>4. node[q[i - 1]].next = q[i]
          BY <4>1 DEF Linked
        <4> QED BY <3>3, <4>2, <4>3, <4>4
      <3> QED BY <3>4, <3>5
    <2>7. n = Len(q)
      <3>1. CASE n < Len(q)
        <4>1. (IF r = <<>> THEN addr.head ELSE node[r[n]].next) = Nil
          BY <1>1, <2>2, <1>5, <2>3, <3>1 DEF Walk, N
        <4>2. CASE n = 0
          <5>1. addr.head = q[1] /\ q[1] \in Threads
            BY <1>1, <2>2, <2>5, <3>1, <4>2, ElementOfSeq DEF Linked
          <5> QED BY <2>4, <4>1, <4>2, <5>1
        <4>3. CASE n # 0
          <5>1. n \in 1 .. n /\ n \in 1 .. Len(q) /\ n # Len(q) /\ n + 1 \in 1 .. Len(q)
            BY <1>1, <2>2, <3>1, <4>3
          <5>2. node[q[n]].next = q[n + 1] /\ q[n + 1] \in Threads
            BY <1>1, <2>2, <5>1, ElementOfSeq DEF Linked
          <5> QED BY <2>4, <2>6, <4>1, <4>3, <5>1, <5>2
        <4> QED BY <4>2, <4>3
      <3>2. CASE Len(q) < n
        <4>1. CASE Len(q) = 0
          <5>1. 1 \in 1 .. n
            BY <1>1, <2>2, <3>2
          <5> QED BY <1>5, <2>1, <2>4, <2>5, <3>2, <4>1, <5>1 DEF Walk, Linked
        <4>2. CASE Len(q) # 0
          <5>1. Len(q) \in 1 .. Len(q) /\ Len(q) \in 1 .. n /\ Len(q) + 1 \in 2 .. n
                /\ Len(q) + 1 \in 1 .. n /\ (Len(q) + 1) - 1 = Len(q)
            BY <1>1, <2>2, <3>2, <4>2
          <5>2. r[Len(q) + 1] = node[r[Len(q)]].next
            BY <1>5, <2>3, <5>1 DEF Walk
          <5>3. node[q[Len(q)]].next = Nil
            BY <5>1 DEF Linked
          <5>4. r[Len(q) + 1] \in Threads
            BY <2>3, <5>1, ElementOfSeq
          <5>5. r[Len(q)] = q[Len(q)]
            BY <1>1, <2>6, <5>1
          <5> QED BY <5>2, <5>3, <5>4, <5>5
        <4> QED BY <4>1, <4>2
      <3> QED BY <1>1, <2>2, <3>1, <3>2
    <2> QED BY <2>1, <2>3, <2>6, <2>7, LenProperties
  <1> QED BY <1>2, <1>3, <1>5, <1>4

\* Who is in the queue, as a fact about threads.
LEMMA MembersWait ==
  ASSUME NEW q \in Seq(Threads), Members(q)
  PROVE  \A i \in 1 .. Len(q) : /\ q[i] \in Threads /\ node[q[i]].shouldPark
                                 /\ pc[q[i]] \in {"parking", "asleep", "publish"}
BY ElementOfSeq DEF Members, Waiting, At

\* A step of a thread that is neither queued, nor edits the queue, nor wakes.
Calm == {"idle", "load", "acquire", "queueLoad", "queueCas", "link", "critical",
         "unlockLoad", "unlockCas", "unlockQueueCas", "pop"}

LEMMA CalmStep ==
  ASSUME TypeOK, NEW q \in Seq(Threads), QueueInv(q), WakingApart, NEW t \in Threads,
         NEW l \in Calm, pc[t] \in Calm, pc' = [pc EXCEPT ![t] = l],
         addr'.head = addr.head, popped' = popped,
         \A u \in Threads \ {t} : node'[u] = node[u] /\ current'[u] = current[u],
         l = "link" => current'[t].head = addr'.head
  PROVE  QueueInv(q)' /\ WakingApart'
  <1>1. \A i \in 1 .. Len(q) : q[i] \in Threads \ {t}
    BY MembersWait DEF QueueInv, Calm
  <1>2. pc'[t] = l /\ \A u \in Threads \ {t} : pc'[u] = pc[u]
    BY DEF TypeOK
  <1>3. \A i \in 1 .. Len(q) : node'[q[i]] = node[q[i]] /\ pc'[q[i]] = pc[q[i]]
    BY <1>1, <1>2
  <1>4. Linked(q)'
    BY <1>3 DEF QueueInv, Linked
  <1>5. Members(q)'
    BY <1>3, FirstAndLast DEF QueueInv, Members, Waiting, At
  <1>6. ASSUME NEW u \in Threads PROVE Editing(u, q)'
    <2>1. CASE u = t
      BY <1>2, <2>1 DEF Editing, At, Calm
    <2>2. CASE u # t
      <3>1. Len(q) > 1 => node'[q[2]] = node[q[2]]
        BY <1>3, FirstAndLast
      <3> QED BY <1>2, <2>2, <3>1 DEF QueueInv, Editing, At
    <2> QED BY <2>1, <2>2
  <1>7. ASSUME NEW u \in Threads PROVE Waking(u, q)'
    <2>1. CASE u = t
      BY <1>2, <2>1 DEF Waking, Calm
    <2>2. CASE u # t
      BY <1>2, <2>2 DEF QueueInv, Waking, Waiting, At, Calm
    <2> QED BY <2>1, <2>2
  <1>8. WakingApart'
    BY <1>2 DEF WakingApart, Calm
  <1>9. Distinct(q)
    BY DEF QueueInv
  <1> QED BY <1>4, <1>5, <1>6, <1>7, <1>8, <1>9 DEF QueueInv, Distinct

\* Which steps are calm, and what keeps the lock bit company.
LEMMA CalmActions ==
  ASSUME Inv, NEW q \in Seq(Threads), QueueInv(q), WakingApart, LockedIsHeld,
         NEW t \in Threads,
         \/ LockFast(t) \/ Load(t) \/ Acquire(t) \/ QueueLoad(t) \/ QueueCas(t)
         \/ UnlockFast(t) \/ UnlockLoad(t) \/ UnlockCas(t) \/ UnlockQueueCas(t)
  PROVE  QueueInv(q)' /\ WakingApart' /\ LockedIsHeld'
  <1> USE DEF Goto, At, CasWins, CasLoses, SpinOrQueue
  <1> DEFINE locked == [current[t] EXCEPT !.locked = TRUE]
             qlocked == [current[t] EXCEPT !.qlocked = TRUE]
  <1>1. TypeOK /\ (Holds(t) => addr.locked)
    BY DEF Inv, LockInv
  <1>2. locked.head = current[t].head /\ qlocked.head = current[t].head
        /\ qlocked.locked = current[t].locked
    BY <1>1, LockedWord, QueueLockedWord DEF TypeOK
  <1> HIDE DEF locked, qlocked
  <1>3. PICK l \in Calm : pc[t] \in Calm /\ pc' = [pc EXCEPT ![t] = l]
    BY DEF LockFast, Load, Acquire, QueueLoad, QueueCas, UnlockFast, UnlockLoad,
           UnlockCas, UnlockQueueCas, Calm
  <1>4. \/ addr' = addr
        \/ {addr, addr'} \subseteq {Free, Held}
        \/ addr = current[t] /\ addr' \in {locked, qlocked}
    BY DEF LockFast, Load, Acquire, QueueLoad, QueueCas, UnlockFast, UnlockLoad,
           UnlockCas, UnlockQueueCas, locked, qlocked
  <1>5. addr'.head = addr.head
    BY <1>2, <1>4, WordFacts
  <1>6. \A u \in Threads \ {t} : node'[u] = node[u] /\ current'[u] = current[u]
    BY <1>1 DEF TypeOK, LockFast, Load, Acquire, QueueLoad, QueueCas, UnlockFast,
                UnlockLoad, UnlockCas, UnlockQueueCas
  <1>7. l = "link" => current'[t].head = addr'.head
    BY <1>1, <1>2, <1>3 DEF TypeOK, LockFast, Load, Acquire, QueueLoad, QueueCas, UnlockFast,
                UnlockLoad, UnlockCas, UnlockQueueCas, qlocked
  <1>8. popped' = popped
    BY DEF LockFast, Load, Acquire, QueueLoad, QueueCas, UnlockFast, UnlockLoad,
           UnlockCas, UnlockQueueCas
  <1>9. QueueInv(q)' /\ WakingApart'
    BY <1>1, <1>3, <1>5, <1>6, <1>7, <1>8, CalmStep
  <1>10. \/ Holds(t)'
         \/ addr' = Free
         \/ ~Holds(t) /\ addr'.locked = addr.locked
    BY <1>1, <1>2
    DEF TypeOK, Holds, LockFast, Load, Acquire, QueueLoad, QueueCas, UnlockFast,
        UnlockLoad, UnlockCas, UnlockQueueCas, qlocked
  <1>11. \A u \in Threads \ {t} : Holds(u) => Holds(u)'
    BY <1>1, <1>3 DEF TypeOK, Holds
  <1>12. LockedIsHeld'
    BY <1>10, <1>11, WordFacts DEF LockedIsHeld
  <1> QED BY <1>9, <1>12

\* The first thread of an empty queue does not change the queue before it
\* publishes the word; any other thread does.
LEMMA LinkFirstStep ==
  ASSUME Inv, NEW q \in Seq(Threads), QueueInv(q), WakingApart, LockedIsHeld,
         NEW t \in Threads, Link(t), LinkFirst(t)
  PROVE  QueueInv(q)' /\ WakingApart' /\ LockedIsHeld' /\ q = <<>>
  <1> USE DEF Goto, At
  <1>1. TypeOK /\ pc[t] = "link"
    BY DEF Inv, Link
  <1>2. q = <<>>
    BY <1>1, FirstAndLast, ElementOfSeq DEF LinkFirst, QueueInv, Editing, Linked
  <1>3. Len(q) = 0
    BY <1>2
  <1>4. /\ addr' = addr /\ popped' = popped
        /\ pc'[t] = "publish" /\ \A u \in Threads \ {t} : pc'[u] = pc[u]
        /\ node'[t] = [next |-> Nil, tail |-> t, shouldPark |-> TRUE]
        /\ \A u \in Threads \ {t} : node'[u] = node[u] /\ current'[u] = current[u]
        /\ current'[t].head = t
    BY <1>1, FirstWord DEF Link, LinkFirst, TypeOK, Pointers
  <1>5. Linked(q)' /\ Distinct(q)' /\ Members(q)'
    BY <1>2, <1>3, <1>4 DEF QueueInv, Linked, Distinct, Members
  <1>6. \A u \in Threads : Editing(u, q)'
    BY <1>1, <1>2, <1>3, <1>4 DEF QueueInv, Editing
  <1>7. \A u \in Threads : Waking(u, q)'
    BY <1>1, <1>4 DEF QueueInv, Waking, Waiting
  <1>8. WakingApart'
    BY <1>4 DEF WakingApart
  <1>9. LockedIsHeld'
    BY <1>1, <1>4 DEF LockedIsHeld, Holds
  <1> QED BY <1>2, <1>5, <1>6, <1>7, <1>8, <1>9 DEF QueueInv

LEMMA NextField ==
  ASSUME NEW f \in [Threads -> Nodes], NEW p, NEW v \in Pointers, NEW u \in Threads
  PROVE  LET g == [f EXCEPT ![p].next = v]
         IN  /\ g[u].next = IF u = p THEN v ELSE f[u].next
             /\ g[u].tail = f[u].tail /\ g[u].shouldPark = f[u].shouldPark
BY DEF Nodes

LEMMA TailField ==
  ASSUME NEW f \in [Threads -> Nodes], NEW p, NEW v \in Pointers, NEW u \in Threads
  PROVE  LET g == [f EXCEPT ![p].tail = v]
         IN  /\ g[u].tail = IF u = p THEN v ELSE f[u].tail
             /\ g[u].next = f[u].next /\ g[u].shouldPark = f[u].shouldPark
BY DEF Nodes

LEMMA ParkField ==
  ASSUME NEW f \in [Threads -> Nodes], NEW p, NEW v \in BOOLEAN, NEW u \in Threads
  PROVE  LET g == [f EXCEPT ![p].shouldPark = v]
         IN  /\ g[u].shouldPark = IF u = p THEN v ELSE f[u].shouldPark
             /\ g[u].next = f[u].next /\ g[u].tail = f[u].tail
BY DEF Nodes

\* The thread that links itself behind the last one is in the queue from then
\* on: the nodes lead to it, although the word is not published yet.
LEMMA LinkLastStep ==
  ASSUME Inv, NEW q \in Seq(Threads), QueueInv(q), WakingApart, LockedIsHeld,
         NEW t \in Threads, Link(t), LinkLast(t)
  PROVE  QueueInv(Append(q, t))' /\ WakingApart' /\ LockedIsHeld'
  <1> USE DEF Goto, At
  <1> DEFINE r == Append(q, t)
             n == Len(q)
  <1>1. TypeOK /\ pc[t] = "link"
    BY DEF Inv, Link
  <1>2. q # <<>> /\ addr.head = q[1] /\ current[t].head = q[1] /\ n \in Nat \ {0}
    BY <1>1, FirstAndLast DEF LinkLast, QueueInv, Editing, Linked
  <1>3. \A i \in 1 .. n : q[i] \in Threads \ {t} /\ node[q[i]].shouldPark
                          /\ pc[q[i]] \in {"parking", "asleep", "publish"}
    BY <1>1, MembersWait DEF QueueInv
  <1>4. 1 \in 1 .. n /\ n \in 1 .. n /\ n + 1 \in 1 .. n + 1 /\ 1 \in 1 .. n + 1
    BY <1>2
  <1>5. /\ r \in Seq(Threads) /\ Len(r) = n + 1 /\ r # <<>>
        /\ \A i \in 1 .. n : r[i] = q[i]
        /\ r[n + 1] = t
    BY AppendProperties
  <1> HIDE DEF r
  <1>6. /\ addr' = addr /\ popped' = popped
        /\ pc'[t] = "publish" /\ \A u \in Threads \ {t} : pc'[u] = pc[u]
        /\ \A u \in Threads \ {t} : current'[u] = current[u]
        /\ current'[t].head = q[1]
    <2>1. [current[t] EXCEPT !.qlocked = FALSE].head = q[1]
      BY <1>1, <1>2, QueueUnlockedWord DEF TypeOK
    <2> QED BY <1>1, <2>1 DEF Link, LinkLast, TypeOK
  <1>7. \A u \in Threads :
          /\ node'[u].next = IF u = q[n] THEN t ELSE IF u = t THEN Nil ELSE node[u].next
          /\ node'[u].tail = IF u = q[1] THEN t ELSE node[u].tail
          /\ node'[u].shouldPark = IF u = t THEN TRUE ELSE node[u].shouldPark
    <2> DEFINE a == [node EXCEPT ![t].next = Nil]
               b == [a EXCEPT ![t].shouldPark = TRUE]
               c == [b EXCEPT ![b[q[1]].tail].next = t]
    <2>1. a \in [Threads -> Nodes] /\ b \in [Threads -> Nodes]
      BY <1>1, NextUpdate, ParkUpdate DEF TypeOK, Pointers
    <2>2. \A u \in Threads :
            /\ b[u].next = IF u = t THEN Nil ELSE node[u].next
            /\ b[u].tail = node[u].tail
            /\ b[u].shouldPark = IF u = t THEN TRUE ELSE node[u].shouldPark
      <3> SUFFICES ASSUME NEW u \in Threads
                   PROVE  /\ b[u].next = IF u = t THEN Nil ELSE node[u].next
                          /\ b[u].tail = node[u].tail
                          /\ b[u].shouldPark = IF u = t THEN TRUE ELSE node[u].shouldPark
        OBVIOUS
      <3>1. /\ a[u].next = IF u = t THEN Nil ELSE node[u].next
            /\ a[u].tail = node[u].tail /\ a[u].shouldPark = node[u].shouldPark
        BY <1>1, NextField DEF TypeOK, Pointers
      <3>2. /\ b[u].shouldPark = IF u = t THEN TRUE ELSE a[u].shouldPark
            /\ b[u].next = a[u].next /\ b[u].tail = a[u].tail
        BY <2>1, ParkField
      <3> QED BY <3>1, <3>2
    <2>3. b[q[1]].tail = q[n]
      BY <1>2, <1>3, <1>4, <2>2 DEF QueueInv, Members
    <2>4. node' = [c EXCEPT ![q[1]].tail = t]
      BY <1>2 DEF LinkLast
    <2> HIDE DEF a, b
    <2>5. c = [b EXCEPT ![q[n]].next = t]
      BY <2>3
    <2> HIDE DEF c
    <2>6. c \in [Threads -> Nodes]
      BY <2>1, <2>5, NextUpdate DEF Pointers
    <2> SUFFICES ASSUME NEW u \in Threads
                 PROVE  /\ node'[u].next = IF u = q[n] THEN t ELSE IF u = t THEN Nil ELSE node[u].next
                        /\ node'[u].tail = IF u = q[1] THEN t ELSE node[u].tail
                        /\ node'[u].shouldPark = IF u = t THEN TRUE ELSE node[u].shouldPark
      OBVIOUS
    <2>7. /\ c[u].next = IF u = q[n] THEN t ELSE b[u].next
          /\ c[u].tail = b[u].tail /\ c[u].shouldPark = b[u].shouldPark
      BY <2>1, <2>5, NextField DEF Pointers
    <2>8. /\ node'[u].tail = IF u = q[1] THEN t ELSE c[u].tail
          /\ node'[u].next = c[u].next /\ node'[u].shouldPark = c[u].shouldPark
      BY <2>4, <2>6, TailField DEF Pointers
    <2> QED BY <2>2, <2>7, <2>8
  <1>8. Distinct(r)
    <2> SUFFICES ASSUME NEW i \in 1 .. n + 1, NEW j \in 1 .. n + 1, r[i] = r[j]
                 PROVE  i = j
      BY <1>5 DEF Distinct
    <2>1. \A k \in 1 .. n + 1 : k \in 1 .. n \/ k = n + 1
      BY <1>2
    <2> QED BY <1>3, <1>5, <2>1 DEF QueueInv, Distinct
  <1>9. Linked(r)'
    <2>1. addr'.head = r[1]
      BY <1>2, <1>4, <1>5, <1>6
    <2>2. ASSUME NEW i \in 1 .. n + 1
          PROVE  node'[r[i]].next = IF i = n + 1 THEN Nil ELSE r[i + 1]
      <3>1. CASE i = n + 1
        BY <1>3, <1>4, <1>5, <1>7, <3>1
      <3>2. CASE i = n
        <4>1. i # n + 1 /\ r[i] = q[n] /\ r[i + 1] = t
          BY <1>2, <1>4, <1>5, <3>2
        <4> QED BY <1>3, <1>4, <1>7, <4>1
      <3>3. CASE i \in 1 .. n - 1
        <4>1. i \in 1 .. n /\ i + 1 \in 1 .. n /\ i # n /\ i # n + 1
          BY <1>2, <3>3
        <4>2. q[i] # q[n]
          BY <1>4, <4>1 DEF QueueInv, Distinct
        <4>3. node'[q[i]].next = node[q[i]].next
          BY <1>3, <1>7, <4>1, <4>2
        <4>4. node[q[i]].next = q[i + 1]
          BY <4>1 DEF QueueInv, Linked
        <4> QED BY <1>5, <4>1, <4>3, <4>4
      <3>4. i = n + 1 \/ i = n \/ i \in 1 .. n - 1
        BY <1>2
      <3> QED BY <3>1, <3>2, <3>3, <3>4
    <2> QED BY <1>5, <2>1, <2>2 DEF Linked
  <1>10. Members(r)'
    <2>1. ASSUME NEW i \in 1 .. n + 1
          PROVE  node'[r[i]].shouldPark /\ pc'[r[i]] \in {"parking", "asleep", "publish"}
      <3>1. CASE i = n + 1
        BY <1>5, <1>6, <1>7, <3>1
      <3>2. CASE i \in 1 .. n
        <4>1. r[i] = q[i] /\ q[i] \in Threads \ {t} /\ node[q[i]].shouldPark
              /\ pc[q[i]] \in {"parking", "asleep", "publish"}
          BY <1>3, <1>5, <3>2
        <4>2. node'[q[i]].shouldPark = node[q[i]].shouldPark /\ pc'[q[i]] = pc[q[i]]
          BY <1>6, <1>7, <4>1
        <4> QED BY <4>1, <4>2
      <3> QED BY <1>2, <3>1, <3>2
    <2>2. node'[r[1]].tail = r[n + 1]
      BY <1>3, <1>4, <1>5, <1>7
    <2> QED BY <1>5, <2>1, <2>2 DEF Members, Waiting
  <1>11. ASSUME NEW u \in Threads PROVE Editing(u, r)'
    <2>1. CASE u = t
      BY <1>2, <1>5, <1>6, <2>1 DEF Editing
    <2>2. CASE u # t
      BY <1>1, <1>6, <2>2 DEF Editing, Inv, LockInv, QueueExclusion, HoldsQueue
    <2> QED BY <2>1, <2>2
  <1>12. ASSUME NEW u \in Threads PROVE Waking(u, r)'
    <2> SUFFICES ASSUME pc'[u] \in {"wake", "notify"}
                 PROVE  /\ popped'[u] \in Threads /\ Waiting(popped[u])'
                        /\ \A i \in 1 .. Len(r) : r[i] # popped'[u]
                        /\ pc'[u] = "wake" => node'[popped'[u]].shouldPark
      BY DEF Waking
    <2>1. u # t /\ pc'[u] = pc[u]
      BY <1>6
    <2>2. popped[u] \in Threads /\ Waiting(popped[u]) /\ popped[u] # t
          /\ (\A i \in 1 .. n : q[i] # popped[u]) /\ (pc[u] = "wake" => node[popped[u]].shouldPark)
      BY <1>1, <2>1 DEF QueueInv, Waking, Waiting
    <2>3. \A i \in 1 .. n + 1 : i \in 1 .. n \/ i = n + 1
      BY <1>2
    <2>4. PICK x \in Threads \ {t} : x = popped[u] /\ x = popped'[u]
      BY <1>6, <2>2
    <2>5. Waiting(x)'
      BY <1>6, <2>2, <2>4 DEF Waiting
    <2>6. \A i \in 1 .. Len(r) : r[i] # x
      BY <1>5, <2>2, <2>3, <2>4
    <2>7. pc'[u] = "wake" => node'[x].shouldPark
      BY <1>7, <2>1, <2>2, <2>4
    <2> QED BY <2>4, <2>5, <2>6, <2>7 DEF Waiting
  <1>13. WakingApart'
    BY <1>6 DEF WakingApart
  <1>14. LockedIsHeld'
    BY <1>1, <1>6 DEF LockedIsHeld, Holds
  <1>15. Distinct(r)'
    BY <1>8 DEF Distinct
  <1> QED BY <1>9, <1>10, <1>11, <1>12, <1>13, <1>14, <1>15 DEF QueueInv, r

\* The store of the word: the queue appears, or is what it was.
LEMMA PublishFirstStep ==
  ASSUME Inv, QueueInv(<<>>), WakingApart, LockedIsHeld, NEW t \in Threads, Publish(t)
  PROVE  QueueInv(<<t>>)' /\ WakingApart' /\ LockedIsHeld'
  <1> USE DEF Goto, At
  <1>1. TypeOK /\ pc[t] = "publish" /\ addr.locked
    BY DEF Inv, LockInv, Publish, HoldsQueue
  <1>2. Len(<<t>>) = 1 /\ <<t>>[1] = t /\ <<t>> # <<>> /\ 1 .. 1 = {1}
    OBVIOUS
  <1>3. /\ current[t].head = t /\ node[t].next = Nil /\ node[t].tail = t
        /\ node[t].shouldPark
    BY <1>1 DEF QueueInv, Editing
  <1>4. /\ addr'.head = t /\ node' = node /\ popped' = popped /\ current' = current
        /\ pc'[t] = "parking" /\ \A u \in Threads \ {t} : pc'[u] = pc[u]
    BY <1>1, <1>3 DEF Publish, TypeOK
  <1>5. Linked(<<t>>)' /\ Distinct(<<t>>)' /\ Members(<<t>>)'
    BY <1>2, <1>3, <1>4 DEF Linked, Distinct, Members, Waiting
  <1>6. ASSUME NEW u \in Threads PROVE Editing(u, <<t>>)'
    <2>1. CASE u = t
      BY <1>4, <2>1 DEF Editing
    <2>2. CASE u # t
      BY <1>1, <1>4, <2>2 DEF Editing, Inv, LockInv, QueueExclusion, HoldsQueue
    <2> QED BY <2>1, <2>2
  <1>7. ASSUME NEW u \in Threads PROVE Waking(u, <<t>>)'
    BY <1>1, <1>2, <1>4 DEF QueueInv, Waking, Waiting
  <1>8. WakingApart'
    BY <1>4 DEF WakingApart
  <1>9. LockedIsHeld'
    BY <1>1, <1>4 DEF LockedIsHeld, Holds
  <1> QED BY <1>5, <1>6, <1>7, <1>8, <1>9 DEF QueueInv

LEMMA PublishNextStep ==
  ASSUME Inv, NEW q \in Seq(Threads), QueueInv(q), WakingApart, LockedIsHeld, q # <<>>,
         NEW t \in Threads, Publish(t)
  PROVE  QueueInv(q)' /\ WakingApart' /\ LockedIsHeld'
  <1> USE DEF Goto, At
  <1>1. TypeOK /\ pc[t] = "publish" /\ addr.locked
    BY DEF Inv, LockInv, Publish, HoldsQueue
  <1>2. /\ addr'.head = addr.head /\ node' = node /\ popped' = popped /\ current' = current
        /\ pc'[t] = "parking" /\ \A u \in Threads \ {t} : pc'[u] = pc[u]
    BY <1>1 DEF Publish, TypeOK, QueueInv, Editing
  <1>3. Linked(q)' /\ Distinct(q)'
    BY <1>2 DEF QueueInv, Linked, Distinct
  <1>4. Members(q)'
    BY <1>2, MembersWait DEF QueueInv, Members, Waiting
  <1>5. ASSUME NEW u \in Threads PROVE Editing(u, q)'
    <2>1. CASE u = t
      BY <1>2, <2>1 DEF Editing
    <2>2. CASE u # t
      BY <1>1, <1>2, <2>2 DEF Editing, Inv, LockInv, QueueExclusion, HoldsQueue
    <2> QED BY <2>1, <2>2
  <1>6. ASSUME NEW u \in Threads PROVE Waking(u, q)'
    BY <1>1, <1>2 DEF QueueInv, Waking, Waiting
  <1>7. WakingApart'
    BY <1>2 DEF WakingApart
  <1>8. LockedIsHeld'
    BY <1>1, <1>2 DEF LockedIsHeld, Holds
  <1> QED BY <1>3, <1>4, <1>5, <1>6, <1>7, <1>8 DEF QueueInv

\* A thread that waits stays while it is queued, for its flag is up, and while
\* it is being woken, for its waker has the mutex of its node.
LEMMA SleeperStep ==
  ASSUME Inv, NEW q \in Seq(Threads), QueueInv(q), WakingApart, LockedIsHeld,
         NEW t \in Threads, Park(t) \/ SpuriousWakeup(t)
  PROVE  QueueInv(q)' /\ WakingApart' /\ LockedIsHeld'
  <1> USE DEF Goto, At
  <1>1. TypeOK /\ Waiting(t)
    BY DEF Inv, Park, SpuriousWakeup, Waiting
  <1>2. /\ addr' = addr /\ node' = node /\ popped' = popped /\ current' = current
        /\ \A u \in Threads \ {t} : pc'[u] = pc[u]
        /\ pc'[t] \in {"asleep", "parking", "load"}
        /\ pc'[t] = "load" => ~node[t].shouldPark /\ NodeMutexFree(t)
    BY <1>1 DEF Park, SpuriousWakeup, TypeOK
  <1>3. Linked(q)' /\ Distinct(q)'
    BY <1>2 DEF QueueInv, Linked, Distinct
  <1>4. Members(q)'
    BY <1>2, MembersWait DEF QueueInv, Members, Waiting
  <1>5. ASSUME NEW u \in Threads PROVE Editing(u, q)'
    BY <1>1, <1>2 DEF QueueInv, Editing, Waiting
  <1>6. ASSUME NEW u \in Threads PROVE Waking(u, q)'
    BY <1>1, <1>2 DEF QueueInv, Waking, Waiting, NodeMutexFree
  <1>7. WakingApart'
    BY <1>1, <1>2 DEF WakingApart, Waiting
  <1>8. LockedIsHeld'
    BY <1>1, <1>2 DEF LockedIsHeld, Holds, Waiting
  <1> QED BY <1>3, <1>4, <1>5, <1>6, <1>7, <1>8 DEF QueueInv

\* unlockSlow tells the second node who is last, and leaves the links alone.
LEMMA PopStep ==
  ASSUME Inv, NEW q \in Seq(Threads), QueueInv(q), WakingApart, LockedIsHeld,
         NEW t \in Threads, Pop(t)
  PROVE  QueueInv(q)' /\ WakingApart' /\ LockedIsHeld'
  <1> USE DEF Goto, At
  <1>1. TypeOK /\ pc[t] = "pop" /\ addr.head \in Threads
    BY DEF Inv, LockInv, LocalInv, Pop, TypeOK, Words, Pointers
  <1>2. q # <<>> /\ addr.head = q[1] /\ Len(q) \in Nat /\ 1 \in 1 .. Len(q)
    BY <1>1, FirstAndLast DEF QueueInv, Linked
  <1>3. /\ addr' = addr /\ popped'[t] = q[1]
        /\ \A u \in Threads \ {t} :
             pc'[u] = pc[u] /\ popped'[u] = popped[u] /\ current'[u] = current[u]
        /\ pc'[t] = "release"
    BY <1>1, <1>2 DEF Pop, TypeOK
  <1>4. \A u \in Threads : node'[u].next = node[u].next /\ node'[u].shouldPark = node[u].shouldPark
    <2>1. node[addr.head].tail \in Pointers
      BY <1>1 DEF TypeOK, Nodes
    <2> QED BY <1>1, <2>1, TailField DEF Pop, TypeOK
  <1>5. node'[q[1]].tail = q[Len(q)] /\ (Len(q) > 1 => node'[q[2]].tail = q[Len(q)])
    <2>1. node[q[1]].tail = q[Len(q)] /\ q[Len(q)] \in Threads /\ q[1] \in Threads
      BY <1>2, FirstAndLast, ElementOfSeq DEF QueueInv, Members
    <2>2. Len(q) \in Nat /\ Len(q) # 0
      BY <1>2, FirstAndLast
    <2>3. CASE Len(q) = 1
      <3>1. node[q[1]].next = Nil
        BY <1>2, <2>3 DEF QueueInv, Linked
      <3> QED BY <1>2, <2>1, <2>3, <3>1 DEF Pop
    <2>4. CASE Len(q) > 1
      <3>1. 2 \in 1 .. Len(q) /\ Len(q) # 1
        BY <2>2, <2>4, Lengths
      <3>2. node[q[1]].next = q[2] /\ q[2] \in Threads /\ q[2] # q[1]
        BY <1>2, <3>1, ElementOfSeq DEF QueueInv, Linked, Distinct
      <3>3. node' = [node EXCEPT ![q[2]].tail = q[Len(q)]]
        BY <1>2, <2>1, <3>2 DEF Pop
      <3> QED BY <1>1, <2>1, <3>2, <3>3, TailField DEF TypeOK, Pointers
    <2>5. Len(q) = 1 \/ Len(q) > 1
      BY <2>2, Lengths
    <2> QED BY <2>3, <2>4, <2>5
  <1>6. \A i \in 1 .. Len(q) : q[i] \in Threads \ {t}
    BY <1>1, MembersWait DEF QueueInv
  <1>7. Linked(q)' /\ Distinct(q)'
    BY <1>3, <1>4, <1>6 DEF QueueInv, Linked, Distinct
  <1>8. Members(q)'
    BY <1>3, <1>4, <1>5, <1>6 DEF QueueInv, Members, Waiting
  <1>9. ASSUME NEW u \in Threads PROVE Editing(u, q)'
    <2>1. CASE u = t
      BY <1>2, <1>3, <1>5, <2>1 DEF Editing
    <2>2. CASE u # t
      BY <1>1, <1>3, <2>2 DEF Editing, Inv, LockInv, QueueExclusion, HoldsQueue
    <2> QED BY <2>1, <2>2
  <1>10. ASSUME NEW u \in Threads PROVE Waking(u, q)'
    BY <1>1, <1>3, <1>4 DEF QueueInv, Waking, Waiting
  <1>11. WakingApart'
    BY <1>3 DEF WakingApart
  <1>12. LockedIsHeld'
    BY <1>1, <1>3 DEF LockedIsHeld, Holds
  <1> QED BY <1>7, <1>8, <1>9, <1>10, <1>11, <1>12 DEF QueueInv

\* The store that unlocks takes the first thread out of the queue.
LEMMA ReleaseStep ==
  ASSUME Inv, NEW q \in Seq(Threads), QueueInv(q), WakingApart, LockedIsHeld,
         NEW t \in Threads, Release(t)
  PROVE  QueueInv(Tail(q))' /\ WakingApart' /\ LockedIsHeld' /\ q # <<>>
  <1> USE DEF Goto, At
  <1> DEFINE r == Tail(q)
             n == Len(q)
  <1>1. TypeOK /\ pc[t] = "release" /\ popped[t] # Nil /\ popped[t] = addr.head
    BY DEF Inv, LockInv, LocalInv, Release, QueueInv, Editing
  <1>2. q # <<>> /\ popped[t] = q[1] /\ n \in Nat
    BY <1>1, FirstAndLast DEF QueueInv, Linked
  <1>3. n # 0
    BY <1>2, FirstAndLast
  <1>4. 1 \in 1 .. n /\ (n > 1 => 2 \in 1 .. n) /\ n - 1 \in Nat
    BY <1>2, <1>3
  <1>5. r \in Seq(Threads) /\ Len(r) = n - 1 /\ \A i \in 1 .. n - 1 : r[i] = q[i + 1]
    BY <1>2, HeadTailProperties
  <1> HIDE DEF r
  <1>6. \A i \in 1 .. n - 1 : i + 1 \in 1 .. n /\ i + 1 # 1 /\ (i + 1 = n <=> i = n - 1)
    BY <1>4
  <1>7. \A i \in 1 .. n : q[i] \in Threads /\ node[q[i]].shouldPark
                          /\ pc[q[i]] \in {"parking", "asleep"}
    <2>1. \A u \in Threads : pc[u] # "publish"
      BY <1>1 DEF Inv, LockInv, QueueExclusion, HoldsQueue
    <2> QED BY <2>1, MembersWait DEF QueueInv
  <1>8. r = <<>> <=> n = 1
    BY <1>2, <1>5, FirstAndLast
  <1>9. \A i \in 1 .. n - 1 :
          node[r[i]].next = IF i = n - 1 THEN Nil ELSE r[i + 1]
    <2> SUFFICES ASSUME NEW i \in 1 .. n - 1
                 PROVE  node[r[i]].next = IF i = n - 1 THEN Nil ELSE r[i + 1]
      OBVIOUS
    <2>1. node[q[i + 1]].next = IF i + 1 = n THEN Nil ELSE q[(i + 1) + 1]
      BY <1>6 DEF QueueInv, Linked
    <2>2. CASE i = n - 1
      BY <1>5, <1>6, <2>1, <2>2
    <2>3. CASE i # n - 1
      <3>1. i + 1 \in 1 .. n - 1
        BY <1>4, <2>3
      <3> QED BY <1>5, <1>6, <2>1, <2>3, <3>1
    <2> QED BY <2>2, <2>3
  <1>10. node[q[1]].next = IF r = <<>> THEN Nil ELSE r[1]
    <2>1. CASE n = 1
      BY <1>4, <1>8, <2>1 DEF QueueInv, Linked
    <2>2. CASE n # 1
      <3>1. 1 \in 1 .. n - 1 /\ n # 1
        BY <1>2, <1>3, <2>2, Lengths
      <3> QED BY <1>4, <1>5, <1>8, <2>2, <3>1 DEF QueueInv, Linked
    <2> QED BY <2>1, <2>2
  <1>11. /\ addr'.head = node[q[1]].next /\ ~addr'.locked
         /\ node' = node /\ popped' = popped /\ current' = current
         /\ pc'[t] = "wake" /\ \A u \in Threads \ {t} : pc'[u] = pc[u]
    <2>1. node[q[1]].next \in Pointers
      BY <1>1, <1>4, <1>7 DEF TypeOK, Nodes
    <2> QED BY <1>1, <1>2, <2>1, RestWord DEF Release, TypeOK
  <1>12. Linked(r)'
    BY <1>5, <1>9, <1>10, <1>11 DEF Linked
  <1>13. Distinct(r)'
    <2> SUFFICES ASSUME NEW i \in 1 .. n - 1, NEW j \in 1 .. n - 1, r[i] = r[j]
                 PROVE  i = j
      BY <1>5 DEF Distinct
    <2>1. i + 1 = j + 1
      BY <1>5, <1>6 DEF QueueInv, Distinct
    <2> QED BY <1>4, <2>1
  <1>14. Members(r)'
    <2>1. ASSUME NEW i \in 1 .. n - 1
          PROVE  node'[r[i]].shouldPark /\ Waiting(r[i])'
      <3>1. r[i] = q[i + 1] /\ q[i + 1] # t
        BY <1>1, <1>5, <1>6, <1>7
      <3> QED BY <1>6, <1>7, <1>11, <3>1 DEF Waiting
    <2>2. ASSUME r # <<>> PROVE node'[r[1]].tail = r[n - 1]
      <3>1. 1 \in 1 .. n - 1 /\ n - 1 \in 1 .. n - 1 /\ n > 1 /\ (n - 1) + 1 = n
        BY <1>2, <1>3, <1>8, <2>2, Lengths
      <3>2. r[1] = q[2] /\ r[n - 1] = q[n]
        BY <1>5, <3>1
      <3> QED BY <1>1, <1>11, <3>1, <3>2 DEF QueueInv, Editing
    <2> QED BY <1>5, <2>1, <2>2 DEF Members
  <1>15. ASSUME NEW u \in Threads PROVE Editing(u, r)'
    <2>1. CASE u = t
      BY <1>11, <2>1 DEF Editing
    <2>2. CASE u # t
      BY <1>1, <1>11, <2>2 DEF Editing, Inv, LockInv, QueueExclusion, HoldsQueue
    <2> QED BY <2>1, <2>2
  <1>16. ASSUME NEW u \in Threads, pc'[u] \in {"wake", "notify"}
         PROVE  /\ popped[u] \in Threads /\ Waiting(popped[u])'
                /\ \A i \in 1 .. n - 1 : r[i] # popped[u]
                /\ pc'[u] = "wake" => node[popped[u]].shouldPark
    <2>1. CASE u = t
      <3>1. popped[u] = q[1] /\ q[1] # t
        BY <1>1, <1>2, <1>4, <1>7, <2>1
      <3>2. \A i \in 1 .. n - 1 : q[i + 1] # q[1]
        BY <1>4, <1>6 DEF QueueInv, Distinct
      <3> QED BY <1>4, <1>5, <1>7, <1>11, <3>1, <3>2 DEF Waiting
    <2>2. CASE u # t
      <3>1. /\ popped[u] \in Threads /\ Waiting(popped[u]) /\ popped[u] # t
            /\ \A i \in 1 .. n : q[i] # popped[u]
            /\ pc[u] = "wake" => node[popped[u]].shouldPark
        BY <1>1, <1>11, <1>16, <2>2 DEF QueueInv, Waking, Waiting
      <3> QED BY <1>5, <1>6, <1>11, <2>2, <3>1 DEF Waiting
    <2> QED BY <2>1, <2>2
  <1>17. \A u \in Threads : Waking(u, r)'
    BY <1>5, <1>11, <1>16 DEF Waking
  <1>18. WakingApart'
    <2>1. \A u \in Threads \ {t} : pc[u] \in {"wake", "notify"} => popped[u] # q[1]
      BY <1>4 DEF QueueInv, Waking
    <2> QED BY <1>2, <1>11, <2>1 DEF WakingApart
  <1>19. LockedIsHeld'
    BY <1>11 DEF LockedIsHeld
  <1> QED BY <1>2, <1>12, <1>13, <1>14, <1>15, <1>17, <1>18, <1>19 DEF QueueInv, r

\* The waker works on one node, which is in no queue any more.
LEMMA WakerStep ==
  ASSUME Inv, NEW q \in Seq(Threads), QueueInv(q), WakingApart, LockedIsHeld,
         NEW t \in Threads, Wake(t) \/ Notify(t)
  PROVE  QueueInv(q)' /\ WakingApart' /\ LockedIsHeld'
  <1> USE DEF Goto, At
  <1> DEFINE p == popped[t]
  <1>1. TypeOK /\ pc[t] \in {"wake", "notify"}
    BY DEF Inv, Wake, Notify
  <1>2. p \in Threads /\ pc[p] \in {"parking", "asleep"} /\ \A i \in 1 .. Len(q) : q[i] # p
    BY <1>1 DEF QueueInv, Waking, Waiting
  <1>3. \A i \in 1 .. Len(q) : q[i] \in Threads \ {t, p}
    BY <1>1, <1>2, MembersWait DEF QueueInv
  <1>4. /\ addr' = addr /\ current' = current
        /\ \A u \in Threads \ {t} : popped'[u] = popped[u]
        /\ \A u \in Threads \ {p} : node'[u] = node[u]
        /\ \A u \in Threads \ {t, p} : pc'[u] = pc[u]
        /\ pc'[p] \in {"parking", "asleep"}
        /\ \/ pc'[t] = "notify" /\ popped'[t] = p
           \/ pc'[t] = "idle"
    BY <1>1, <1>2 DEF Wake, Notify, TypeOK
  <1>5. Linked(q)' /\ Distinct(q)'
    BY <1>3, <1>4 DEF QueueInv, Linked, Distinct
  <1>6. Members(q)'
    BY <1>3, <1>4, FirstAndLast DEF QueueInv, Members, Waiting
  <1>7. ASSUME NEW u \in Threads PROVE Editing(u, q)'
    <2>1. CASE u = t \/ u = p
      BY <1>4, <2>1 DEF Editing
    <2>2. CASE u \notin {t, p}
      <3>1. Len(q) > 1 => node'[q[2]] = node[q[2]]
        <4>1. Len(q) \in Nat
          BY FirstAndLast
        <4>2. Len(q) > 1 => 2 \in 1 .. Len(q)
          BY <4>1
        <4> QED BY <1>3, <1>4, <4>2
      <3> QED BY <1>4, <2>2, <3>1 DEF QueueInv, Editing
    <2> QED BY <2>1, <2>2
  <1>8. ASSUME NEW u \in Threads PROVE Waking(u, q)'
    <2>1. CASE u = t
      BY <1>2, <1>4, <2>1 DEF Waking, Waiting
    <2>2. CASE u # t
      BY <1>1, <1>2, <1>4, <2>2 DEF QueueInv, Waking, Waiting, WakingApart
    <2> QED BY <2>1, <2>2
  <1>9. WakingApart'
    BY <1>1, <1>2, <1>4 DEF WakingApart
  <1>10. LockedIsHeld'
    BY <1>1, <1>2, <1>4 DEF LockedIsHeld, Holds
  <1> QED BY <1>5, <1>6, <1>7, <1>8, <1>9, <1>10 DEF QueueInv

LEMMA InitQueue == Init => QueueInvariant /\ QueueInv(<<>>)
  <1> SUFFICES ASSUME Init PROVE QueueInvariant /\ QueueInv(<<>>)
    OBVIOUS
  <1>1. <<>> \in Seq(Threads) /\ Len(<<>>) = 0
    BY EmptySeq
  <1>2. 1 .. Len(<<>>) = {}
    BY <1>1
  <1>3. \A t \in Threads : pc[t] = "idle"
    BY DEF Init
  <1>4. QueueInv(<<>>)
    BY <1>2, <1>3, WordFacts
    DEF Init, QueueInv, Linked, Distinct, Members, Editing, Waking, At
  <1>5. LockedIsHeld /\ WakingApart
    BY <1>3, WordFacts DEF Init, LockedIsHeld, WakingApart
  <1> QED BY <1>1, <1>4, <1>5 DEF QueueInvariant

\* How a step moves the queue.
LEMMA StepQueue ==
  ASSUME Inv, NEW q \in Seq(Threads), QueueInv(q), WakingApart, LockedIsHeld,
         NEW t \in Threads, LockFast(t) \/ SpuriousWakeup(t) \/ Step(t)
  PROVE  /\ WakingApart' /\ LockedIsHeld'
         /\ \E r \in Seq(Threads) :
              /\ QueueInv(r)'
              /\ \/ r = q /\ ~Release(t)
                 \/ r = Append(q, t) /\ (Link(t) \/ Publish(t))
                 \/ r = Tail(q) /\ q # <<>> /\ Release(t)
  <1>1. CASE \/ LockFast(t) \/ Load(t) \/ Acquire(t) \/ QueueLoad(t) \/ QueueCas(t)
             \/ UnlockFast(t) \/ UnlockLoad(t) \/ UnlockCas(t) \/ UnlockQueueCas(t)
    <2>1. QueueInv(q)' /\ WakingApart' /\ LockedIsHeld'
      BY <1>1, CalmActions
    <2>2. ~Release(t)
      BY <1>1 DEF LockFast, Load, Acquire, QueueLoad, QueueCas, UnlockFast, UnlockLoad,
                  UnlockCas, UnlockQueueCas, Release, At
    <2> QED BY <2>1, <2>2
  <1>2. CASE Link(t)
    <2>1. ~Release(t)
      BY <1>2 DEF Link, Release, At
    <2>2. CASE LinkFirst(t)
      BY <1>2, <2>1, <2>2, LinkFirstStep
    <2>3. CASE LinkLast(t)
      BY <1>2, <2>3, LinkLastStep, AppendProperties
    <2> QED BY <1>2, <2>2, <2>3 DEF Link
  <1>3. CASE Publish(t)
    <2>1. ~Release(t)
      BY <1>3 DEF Publish, Release, At
    <2>2. CASE q = <<>>
      <3>1. QueueInv(<<t>>)' /\ WakingApart' /\ LockedIsHeld'
        BY <1>3, <2>2, PublishFirstStep
      <3>2. Append(q, t) = <<t>> /\ <<t>> \in Seq(Threads)
        BY <2>2
      <3> QED BY <1>3, <3>1, <3>2
    <2>3. CASE q # <<>>
      BY <1>3, <2>1, <2>3, PublishNextStep
    <2> QED BY <2>2, <2>3
  <1>4. CASE Park(t) \/ SpuriousWakeup(t)
    <2>1. ~Release(t)
      BY <1>4 DEF Park, SpuriousWakeup, Release, At
    <2> QED BY <1>4, <2>1, SleeperStep
  <1>5. CASE Pop(t)
    <2>1. ~Release(t)
      BY <1>5 DEF Pop, Release, At
    <2> QED BY <1>5, <2>1, PopStep
  <1>6. CASE Release(t)
    BY <1>6, ReleaseStep, HeadTailProperties
  <1>7. CASE Wake(t) \/ Notify(t)
    <2>1. ~Release(t)
      BY <1>7 DEF Wake, Notify, Release, At
    <2> QED BY <1>7, <2>1, WakerStep
  <1> QED BY <1>1, <1>2, <1>3, <1>4, <1>5, <1>6, <1>7 DEF Step

LEMMA QueueInvariance == Spec => [](Inv /\ QueueInvariant)
  <1>1. Init => Inv /\ QueueInvariant
    BY InitInv, InitQueue
  <1>2. Inv /\ QueueInvariant /\ [Next]_vars => (Inv /\ QueueInvariant)'
    <2> SUFFICES ASSUME Inv, QueueInvariant, [Next]_vars PROVE Inv' /\ QueueInvariant'
      OBVIOUS
    <2>1. PICK q \in Seq(Threads) : QueueInv(q)
      BY DEF QueueInvariant
    <2>2. ASSUME NEW t \in Threads, LockFast(t) \/ SpuriousWakeup(t) \/ Step(t)
          PROVE  Inv' /\ QueueInvariant'
      <3>1. Inv'
        BY <2>2, StepInv
      <3>2. WakingApart' /\ LockedIsHeld' /\ \E r \in Seq(Threads) : QueueInv(r)'
        BY <2>1, <2>2, StepQueue DEF QueueInvariant
      <3> QED BY <3>1, <3>2 DEF QueueInvariant
    <2>3. CASE UNCHANGED vars
      <3>1. Inv'
        BY <2>3 DEF vars, Inv, TypeOK, LockInv, LocalInv, MutualExclusion,
                    QueueExclusion, Holds, HoldsQueue, At
      <3>2. QueueInv(q)'
        BY <2>1, <2>3 DEF vars, QueueInv, Linked, Distinct, Members, Editing, Waking,
                          Waiting, At
      <3>3. WakingApart' /\ LockedIsHeld'
        BY <2>3 DEF QueueInvariant, vars, WakingApart, LockedIsHeld, Holds
      <3> QED BY <3>1, <3>2, <3>3 DEF QueueInvariant
    <2> QED BY <2>2, <2>3 DEF Next
  <1> QED BY <1>1, <1>2, PTL DEF Spec

LEMMA QueueExists ==
  ASSUME QueueInvariant
  PROVE  Queue \in Seq(Threads) /\ QueueInv(Queue)
  <1>1. PICK q \in Seq(Threads) : QueueInv(q)
    BY DEF QueueInvariant
  <1>2. Queue = q
    BY <1>1, QueueIs DEF QueueInv
  <1> QED BY <1>1, <1>2

\* The intrusive list that lockSlow and unlockSlow edit is sound whenever the
\* queue bit is clear.
THEOREM SoundQueue == Spec => []QueueWellFormed
  <1>1. ASSUME QueueInvariant PROVE QueueWellFormed
    <2> DEFINE q == Queue
               S == {q[i] : i \in 1 .. Len(q)}
    <2>1. q \in Seq(Threads) /\ QueueInv(q)
      BY <1>1, QueueExists
    <2>2. S = Queued
      BY DEF Queued
    <2> HIDE DEF q
    <2>3. Len(q) \in Nat /\ q \in [1 .. Len(q) -> Threads]
      BY <2>1, LenProperties
    <2>4. q \in Bijection(1 .. Len(q), S)
      BY <2>1, <2>3 DEF QueueInv, Distinct, Bijection, Injection, Surjection, IsInjective
    <2>5. Cardinality(S) = Len(q)
      BY <2>3, <2>4, FS_CountingElements DEF ExistsBijection
    <2>6. ASSUME \A t \in Threads : ~HoldsQueue(t), NEW t \in S
          PROVE  pc[t] \in {"parking", "asleep"} /\ node[t].shouldPark
      BY <2>1, <2>6, MembersWait DEF QueueInv, HoldsQueue
    <2>7. q # <<>> => node[q[1]].tail = q[Len(q)]
      BY <2>1 DEF QueueInv, Members
    <2> QED BY <2>2, <2>5, <2>6, <2>7 DEF QueueWellFormed, q
  <1> QED BY <1>1, QueueInvariance, PTL

\* No WaitNode is used after the thread that declared it left the loop body.
THEOREM NodesLive == Spec => []NoUseAfterScope
  <1>1. ASSUME Inv, QueueInvariant PROVE NoUseAfterScope
    <2>1. PICK q \in Seq(Threads) : QueueInv(q)
      BY <1>1 DEF QueueInvariant
    <2>2. \A i \in 1 .. Len(q) : q[i] \in Threads /\ NodeInScope(q[i])
      BY <2>1, MembersWait DEF QueueInv, NodeInScope
    <2>3. addr.head # Nil => /\ addr.head = q[1] /\ 1 \in 1 .. Len(q)
                            /\ Len(q) \in 1 .. Len(q)
                            /\ node[addr.head].tail = q[Len(q)]
      BY <2>1, FirstAndLast DEF QueueInv, Linked, Members
    <2>4. ASSUME NEW t \in Threads, pc[t] \in {"release", "wake", "notify"}
          PROVE  NodeInScope(popped[t])
      <3>1. CASE pc[t] = "release"
        <4>1. popped[t] = addr.head /\ popped[t] # Nil
          BY <1>1, <2>1, <3>1 DEF Inv, LockInv, LocalInv, QueueInv, Editing, At
        <4> QED BY <2>2, <2>3, <4>1
      <3>2. CASE pc[t] \in {"wake", "notify"}
        BY <2>1, <3>2 DEF QueueInv, Waking, Waiting, NodeInScope
      <3> QED BY <2>4, <3>1, <3>2
    <2>5. ASSUME NEW t \in Threads, At(t, "link"), current[t].head # Nil
          PROVE  LET head == current[t].head
                 IN  NodeInScope(head) /\ node[head].tail # Nil /\ NodeInScope(node[head].tail)
      <3>1. current[t].head = addr.head
        BY <2>1, <2>5 DEF QueueInv, Editing
      <3> QED BY <2>2, <2>3, <2>5, <3>1
    <2> QED BY <2>4, <2>5 DEF NoUseAfterScope
  <1> QED BY <1>1, QueueInvariance, PTL

-----------------------------------------------------------------------------
(* WordLock implements FifoLock.                                             *)

LEMMA HolderIs ==
  ASSUME MutualExclusion
  PROVE  /\ \A t \in Threads : Holds(t) => Holder = t
         /\ (\A t \in Threads : ~Holds(t)) => Holder = Nil
BY DEF MutualExclusion, Holder

\* A step keeps the holder, takes the lock when nobody has it, or gives it up.
LEMMA HolderStep ==
  ASSUME Inv, NEW t \in Threads, LockFast(t) \/ SpuriousWakeup(t) \/ Step(t)
  PROVE  /\ \A u \in Threads \ {t} : Holds(u)' <=> Holds(u)
         /\ \/ Holds(t)' <=> Holds(t)
            \/ ~addr.locked /\ ~At(t, "publish") /\ ~Waiting(t) /\ Holds(t)'
            \/ Holds(t) /\ ~Holds(t)' /\ (Release(t) \/ addr.head = Nil)
  <1> USE DEF Goto, At, CasWins, CasLoses, SpinOrQueue
  <1>1. TypeOK /\ (At(t, "acquire") => ~current[t].locked)
    BY DEF Inv, LockInv, LocalInv
  <1>2. CASE LockFast(t)
    BY <1>1, <1>2, WordFacts DEF TypeOK, LockFast, Holds, Waiting
  <1>3. CASE Acquire(t)
    BY <1>1, <1>3 DEF TypeOK, Acquire, Holds, Waiting
  <1>4. CASE UnlockFast(t) \/ UnlockCas(t)
    BY <1>1, <1>4, WordFacts DEF TypeOK, UnlockFast, UnlockCas, Holds
  <1>5. CASE Release(t)
    BY <1>1, <1>5 DEF TypeOK, Release, Holds
  <1>6. CASE \/ Load(t) \/ QueueLoad(t) \/ QueueCas(t) \/ Link(t) \/ Publish(t)
             \/ Park(t) \/ SpuriousWakeup(t)
    BY <1>1, <1>6 DEF TypeOK, Load, QueueLoad, QueueCas, Link, Publish, Park,
                      SpuriousWakeup, Holds
  <1>7. CASE UnlockLoad(t) \/ UnlockQueueCas(t) \/ Pop(t) \/ Wake(t)
    BY <1>1, <1>7 DEF TypeOK, UnlockLoad, UnlockQueueCas, Pop, Wake, Holds
  <1>8. CASE Notify(t)
    BY <1>1, <1>8 DEF TypeOK, Notify, Holds
  <1> QED BY <1>2, <1>3, <1>4, <1>5, <1>6, <1>7, <1>8 DEF Step

\* The invariant in terms of Queue.
QueueKnown ==
  /\ Queue \in Seq(Threads) /\ QueueInv(Queue)
  /\ \A q \in Seq(Threads) : QueueInv(q) => Queue = q

LEMMA StepRefines ==
  ASSUME Inv, Inv', QueueInvariant, QueueKnown, QueueKnown', NEW t \in Threads,
         LockFast(t) \/ SpuriousWakeup(t) \/ Step(t)
  PROVE  Abstract!Next \/ UNCHANGED Abstract!vars
  <1> DEFINE q == Queue
             r == Queue'
  <1>1. q \in Seq(Threads) /\ QueueInv(q)
    BY DEF QueueKnown
  <1>2. \/ r = q /\ ~Release(t)
        \/ r = Append(q, t) /\ (Link(t) \/ Publish(t))
        \/ r = Tail(q) /\ q # <<>> /\ Release(t)
    BY <1>1, StepQueue DEF QueueInvariant, QueueKnown
  <1>3. r \in Seq(Threads) /\ \A i, j \in 1 .. Len(r) : r[i] = r[j] => i = j
    BY DEF QueueKnown, QueueInv, Distinct
  <1>4. MutualExclusion /\ MutualExclusion'
    BY DEF Inv, LockInv
  <1>5. /\ \A u \in Threads : Holds(u) => Holder = u
        /\ (\A u \in Threads : ~Holds(u)) => Holder = Nil
    BY <1>4, HolderIs
  <1>6. /\ \A u \in Threads : Holds(u)' => Holder' = u
        /\ (\A u \in Threads : ~Holds(u)') => Holder' = Nil
    BY <1>4 DEF MutualExclusion, Holder
  <1>7. Holder \in Threads \cup {Nil}
    BY <1>5
  <1> HIDE DEF q, r
  <1>8. CASE r = Append(q, t) /\ (Link(t) \/ Publish(t))
    <2>1. HoldsQueue(t) /\ ~Holds(t) /\ ~Holds(t)'
      BY <1>8 DEF Link, Publish, HoldsQueue, Holds, At, Goto, Inv, TypeOK
    <2>2. PICK h \in Threads : Holds(h)
      BY <2>1 DEF Inv, LockInv, QueueInvariant, LockedIsHeld
    <2>3. Holder = h /\ h # t /\ h # Nil
      BY <1>5, <2>1, <2>2
    <2>4. Holder' = h
      BY <1>6, <1>8, <2>1, <2>2, HolderStep
    <2>5. \A i \in 1 .. Len(q) : q[i] # t
      <3>1. /\ Len(r) = Len(q) + 1 /\ r[Len(q) + 1] = t /\ Len(q) \in Nat
            /\ \A i \in 1 .. Len(q) : r[i] = q[i]
        BY <1>1, <1>8, AppendProperties, LenProperties
      <3>2. \A i \in 1 .. Len(q) : i \in 1 .. Len(r) /\ Len(q) + 1 \in 1 .. Len(r) /\ i # Len(q) + 1
        BY <3>1
      <3> QED BY <1>3, <3>1, <3>2
    <2>6. Abstract!FallAsleep(t)
      BY <1>8, <2>3, <2>4, <2>5 DEF Abstract!FallAsleep, Abstract!Contains, q, r
    <2> QED BY <2>6 DEF Abstract!Next
  <1>9. CASE r = Tail(q) /\ q # <<>> /\ Release(t)
    <2>1. Holds(t) /\ ~Holds(t)'
      BY <1>9 DEF Release, Holds, At, Goto, Inv, TypeOK
    <2>2. Holder = t /\ \A u \in Threads : ~Holds(u)'
      BY <1>4, <1>5, <2>1, HolderStep DEF MutualExclusion
    <2>3. Abstract!Release(t)
      BY <1>6, <1>9, <2>2 DEF Abstract!Release, q, r
    <2> QED BY <2>3 DEF Abstract!Next
  <1>10. CASE r = q /\ ~Release(t)
    <2>1. CASE Holds(t)' <=> Holds(t)
      <3>1. \A u \in Threads : Holds(u)' <=> Holds(u)
        BY <2>1, HolderStep
      <3>2. Holder' = Holder
        BY <1>5, <1>6, <3>1
      <3> QED BY <1>10, <3>2 DEF Abstract!vars, q, r
    <2>2. CASE ~addr.locked /\ ~At(t, "publish") /\ ~Waiting(t) /\ Holds(t)'
      <3>1. Holder = Nil /\ Holder' = t
        BY <1>5, <1>6, <2>2 DEF Inv, LockInv
      <3>2. \A i \in 1 .. Len(q) : q[i] # t
        BY <1>1, <2>2, MembersWait DEF QueueInv, Waiting, At
      <3>3. Abstract!Acquire(t)
        BY <1>10, <3>1, <3>2 DEF Abstract!Acquire, Abstract!Contains, q, r
      <3> QED BY <3>3 DEF Abstract!Next
    <2>3. CASE Holds(t) /\ ~Holds(t)' /\ addr.head = Nil
      <3>1. q = <<>>
        BY <1>1, <2>3, FirstAndLast, ElementOfSeq DEF QueueInv, Linked
      <3>2. Holder = t /\ \A u \in Threads : ~Holds(u)'
        BY <1>4, <1>5, <2>3, HolderStep DEF MutualExclusion
      <3>3. Abstract!Release(t)
        BY <1>6, <1>10, <3>1, <3>2 DEF Abstract!Release, q, r
      <3> QED BY <3>3 DEF Abstract!Next
    <2> QED BY <1>10, <2>1, <2>2, <2>3, HolderStep
  <1> QED BY <1>2, <1>8, <1>9, <1>10

\* Every step of lock and unlock is a step of the abstract lock or stutters.
THEOREM Refinement == Spec => ImplementsFifoLock
  <1>1. Init => Abstract!Init
    <2> SUFFICES ASSUME Init PROVE Abstract!Init
      OBVIOUS
    <2>1. Queue = <<>>
      BY InitQueue, QueueIs, EmptySeq DEF QueueInv
    <2>2. \A t \in Threads : ~Holds(t)
      BY DEF Init, Holds
    <2>3. Holder = Nil
      BY <2>2 DEF Holder
    <2> QED BY <2>1, <2>3 DEF Abstract!Init
  <1>2. QueueInvariant => QueueKnown
    BY QueueExists, QueueIs DEF QueueInv, QueueKnown
  <1>3. /\ Inv /\ QueueInvariant /\ QueueKnown
        /\ Inv' /\ QueueKnown'
        /\ [Next]_vars
        => [Abstract!Next]_Abstract!vars
    <2> SUFFICES ASSUME Inv, QueueInvariant, QueueKnown, Inv', QueueKnown', [Next]_vars
                 PROVE  [Abstract!Next]_Abstract!vars
      OBVIOUS
    <2>1. CASE Next
      BY <2>1, StepRefines DEF Next
    <2>2. CASE UNCHANGED vars
      BY <2>2 DEF vars, Abstract!vars, Holder, Queue, Holds
    <2> QED BY <2>1, <2>2
  <1> QED BY <1>1, <1>2, <1>3, QueueInvariance, PTL DEF Spec, ImplementsFifoLock, Abstract!Spec
=============================================================================
