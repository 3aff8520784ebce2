---------------------------- MODULE LibraryProofs ----------------------------
(***************************************************************************)
(* Theorems about the components that need no module of their own:         *)
(* Condition, the workers of a priority group and their WaitGroup, and     *)
(* what MCOwners holds: SharedPtr, UniquePtr and the services of the       *)
(* program.                                                                *)
(***************************************************************************)
EXTENDS Workers, MCWaiting, MCOwners, ListFacts, FunctionTheorems

-----------------------------------------------------------------------------
(* Condition                                                               *)

LEMMA RemoveAtType ==
  ASSUME NEW S, NEW q \in Seq(S), NEW i \in 1 .. Len(q)
  PROVE  Waiting!RemoveAt(q, i) \in Seq(S)
BY DEF Waiting!RemoveAt

\* The producers whose item is there or was taken: there are never more items
\* than that, which bounds the counter.
Delivered == {p \in Producers : waitPc[p] \notin {"start", "produce"}}

ItemsBound == items <= Cardinality(Delivered)

ConditionInv == Waiting!WaitersFlagged /\ ItemsBound

LEMMA DeliveredFinite ==
  IsFiniteSet(Delivered) /\ Cardinality(Delivered) \in Nat
  /\ Cardinality(Producers) \in Nat /\ Cardinality(Delivered) <= Cardinality(Producers)
  <1>1. Delivered \in SUBSET Producers
    BY DEF Delivered
  <1> QED BY <1>1, FS_Subset, FS_CardinalityType, ProducersAssumption

\* A delivered item stays delivered.
LEMMA DeliveredGrows ==
  ASSUME Waiting!TypeOK, Delivered \subseteq Delivered'
  PROVE  Cardinality(Delivered) <= Cardinality(Delivered')
  <1>1. Delivered' \in SUBSET Producers
    BY DEF Delivered
  <1>2. IsFiniteSet(Delivered')
    BY <1>1, FS_Subset, ProducersAssumption
  <1> QED BY <1>2, FS_Subset

LEMMA ConditionStart == Waiting!Init => ConditionInv
  <1> SUFFICES ASSUME Waiting!Init PROVE ConditionInv
    OBVIOUS
  <1>1. Cardinality(Delivered) \in Nat /\ Cardinality(Producers) \in Nat
    BY DeliveredFinite
  <1>2. Waiting!TypeOK
    <2>1. 0 \in 0 .. Cardinality(Producers) /\ <<>> \in Seq(Consumers)
      BY <1>1
    <2> QED BY <2>1 DEF Waiting!Init, Waiting!TypeOK, Waiting!Cardinality, Cardinality
  <1>3. ItemsBound
    BY <1>1 DEF Waiting!Init, ItemsBound
  <1> QED BY <1>2, <1>3 DEF Waiting!Init, ConditionInv, Waiting!WaitersFlagged

LEMMA ConsumerInv ==
  ASSUME ConditionInv, NEW t \in Consumers, Waiting!ConsumerStep(t) \/ Waiting!TimeOut(t)
  PROVE  ConditionInv'
  <1> USE DEF Waiting!At, Waiting!Goto, Waiting!LockUser
  <1>1. Waiting!TypeOK /\ t \in Waiting!Threads /\ t \notin Producers
    BY RolesAssumption DEF ConditionInv, Waiting!WaitersFlagged, Waiting!Threads
  <1>2. Delivered' = Delivered
    BY <1>1 DEF Waiting!TypeOK, Waiting!Threads, Delivered, Waiting!ConsumerStep, Waiting!ConsumerLock, Waiting!Test, Waiting!Enqueue, Waiting!BeforeSleep,
                Waiting!Woken, Waiting!Relock, Waiting!TimeOut
  <1>3. items' \in Nat /\ items' <= items
    BY <1>1, DeliveredFinite
    DEF Waiting!TypeOK, Waiting!ConsumerStep, Waiting!ConsumerLock, Waiting!Test, Waiting!Enqueue, Waiting!BeforeSleep, Waiting!Woken, Waiting!Relock, Waiting!TimeOut
  <1>4. Waiting!TypeOK'
    <2>1. queue' \in Seq(Consumers)
      BY <1>1, AppendProperties, RemoveAtType
      DEF Waiting!TypeOK, Waiting!ConsumerStep, Waiting!ConsumerLock, Waiting!Test, Waiting!Enqueue, Waiting!BeforeSleep, Waiting!Woken, Waiting!Relock, Waiting!TimeOut
    <2>2. items' \in 0 .. Cardinality(Producers)
      BY <1>1, <1>3, DeliveredFinite DEF Waiting!TypeOK, Waiting!Cardinality, Cardinality
    <2>3. hasWaiters' \in BOOLEAN /\ owner' \in Waiting!Threads \cup {Nil} /\ gaveUp' \subseteq Consumers
      BY <1>1
      DEF Waiting!TypeOK, Waiting!ConsumerStep, Waiting!ConsumerLock, Waiting!Test, Waiting!Enqueue, Waiting!BeforeSleep, Waiting!Woken, Waiting!Relock, Waiting!TimeOut
    <2>4. waitPc' \in [Waiting!Threads -> {"start", "test", "validate", "beforeSleep", "asleep", "relock",
                               "produce", "oneLoad", "unparkOne", "allLoad", "clearFlag",
                               "unparkAll", "done"}]
      BY <1>1
      DEF Waiting!TypeOK, Waiting!ConsumerStep, Waiting!ConsumerLock, Waiting!Test, Waiting!Enqueue, Waiting!BeforeSleep, Waiting!Woken, Waiting!Relock, Waiting!TimeOut
    <2> QED BY <2>1, <2>2, <2>3, <2>4 DEF Waiting!TypeOK, Waiting!Cardinality, Cardinality
  <1>5. ItemsBound'
    BY <1>1, <1>2, <1>3, DeliveredFinite DEF ConditionInv, ItemsBound, Waiting!TypeOK
  <1>6. \A p \in Producers : Waiting!At(p, "unparkAll")' <=> Waiting!At(p, "unparkAll")
    BY <1>1 DEF Waiting!TypeOK, Waiting!Threads, Waiting!ConsumerStep, Waiting!ConsumerLock, Waiting!Test, Waiting!Enqueue, Waiting!BeforeSleep, Waiting!Woken,
                Waiting!Relock, Waiting!TimeOut
  <1>7. queue' # <<>> => hasWaiters' \/ (queue # <<>> /\ hasWaiters' = hasWaiters)
    BY <1>1, EmptySeq
    DEF Waiting!TypeOK, Waiting!ConsumerStep, Waiting!ConsumerLock, Waiting!Test, Waiting!Enqueue, Waiting!BeforeSleep, Waiting!Woken, Waiting!Relock, Waiting!TimeOut
  <1> QED BY <1>4, <1>5, <1>6, <1>7 DEF ConditionInv, Waiting!WaitersFlagged

LEMMA ProducerInv ==
  ASSUME ConditionInv, NEW t \in Producers, Waiting!ProducerStep(t)
  PROVE  ConditionInv'
  <1> USE DEF Waiting!At, Waiting!Goto, Waiting!LockUser, Waiting!Finish, Waiting!NotifyLoad
  <1>1. Waiting!TypeOK /\ t \in Waiting!Threads
    BY DEF ConditionInv, Waiting!WaitersFlagged, Waiting!Threads
  <1>2. Delivered \subseteq Delivered'
    BY <1>1 DEF Waiting!TypeOK, Waiting!Threads, Delivered, Waiting!ProducerStep, Waiting!ProducerLock, Waiting!Produce, Waiting!NotifyOneLoad,
                Waiting!NotifyAllLoad, Waiting!UnparkOne, Waiting!ClearFlag, Waiting!UnparkAll
  <1>3. Cardinality(Delivered) <= Cardinality(Delivered') /\ Cardinality(Delivered) \in Nat
        /\ Cardinality(Delivered') \in Nat /\ Cardinality(Delivered') <= Cardinality(Producers)
    <2>1. Delivered' \in SUBSET Producers
      BY DEF Delivered
    <2> QED BY <1>1, <1>2, <2>1, DeliveredGrows, DeliveredFinite, FS_Subset, FS_CardinalityType,
               ProducersAssumption
  <1>4. items' \in Nat /\ items' <= Cardinality(Delivered')
    <2>1. CASE Waiting!Produce(t)
      <3>1. Delivered' = Delivered \cup {t} /\ t \notin Delivered
        BY <1>1, <2>1 DEF Waiting!TypeOK, Waiting!Threads, Delivered, Waiting!Produce
      <3>2. Cardinality(Delivered') = Cardinality(Delivered) + 1
        BY <3>1, DeliveredFinite, FS_AddElement
      <3> QED BY <1>1, <1>3, <2>1, <3>2, DeliveredFinite DEF Waiting!TypeOK, Waiting!Produce, ConditionInv, ItemsBound
    <2>2. CASE ~Waiting!Produce(t)
      <3>1. items' = items
        BY <2>2 DEF Waiting!ProducerStep, Waiting!ProducerLock, Waiting!NotifyOneLoad, Waiting!NotifyAllLoad, Waiting!UnparkOne,
                    Waiting!ClearFlag, Waiting!UnparkAll
      <3> QED BY <1>1, <1>3, <3>1, DeliveredFinite DEF Waiting!TypeOK, ConditionInv, ItemsBound
    <2> QED BY <2>1, <2>2
  <1>5. Waiting!TypeOK'
    <2>1. queue' \in Seq(Consumers)
      <3>1. queue' \in {queue, <<>>} \/ (queue # <<>> /\ queue' = Tail(queue))
        BY DEF Waiting!ProducerStep, Waiting!ProducerLock, Waiting!Produce, Waiting!NotifyOneLoad, Waiting!NotifyAllLoad, Waiting!UnparkOne,
               Waiting!ClearFlag, Waiting!UnparkAll
      <3>2. queue \in Seq(Consumers) /\ <<>> \in Seq(Consumers)
        BY <1>1 DEF Waiting!TypeOK
      <3> QED BY <3>1, <3>2, HeadTailProperties
    <2>2. items' \in 0 .. Cardinality(Producers)
      BY <1>3, <1>4, DeliveredFinite
    <2>3. hasWaiters' \in BOOLEAN /\ owner' \in Waiting!Threads \cup {Nil} /\ gaveUp' \subseteq Consumers
      BY <1>1
      DEF Waiting!TypeOK, Waiting!ProducerStep, Waiting!ProducerLock, Waiting!Produce, Waiting!NotifyOneLoad, Waiting!NotifyAllLoad, Waiting!UnparkOne,
          Waiting!ClearFlag, Waiting!UnparkAll
    <2>4. waitPc' \in [Waiting!Threads -> {"start", "test", "validate", "beforeSleep", "asleep", "relock",
                               "produce", "oneLoad", "unparkOne", "allLoad", "clearFlag",
                               "unparkAll", "done"}]
      BY <1>1
      DEF Waiting!TypeOK, Waiting!ProducerStep, Waiting!ProducerLock, Waiting!Produce, Waiting!NotifyOneLoad, Waiting!NotifyAllLoad, Waiting!UnparkOne,
          Waiting!ClearFlag, Waiting!UnparkAll
    <2> QED BY <2>1, <2>2, <2>3, <2>4 DEF Waiting!TypeOK, Waiting!Cardinality, Cardinality
  <1>6. ASSUME queue' # <<>> PROVE hasWaiters' \/ \E p \in Producers : Waiting!At(p, "unparkAll")'
    <2>1. CASE Waiting!UnparkOne(t)
      <3>1. queue # <<>> /\ Len(queue) # 1 /\ hasWaiters' = hasWaiters
        <4>1. queue # <<>> /\ queue' = Tail(queue)
          BY <1>6, <2>1 DEF Waiting!UnparkOne
        <4>2. Len(queue) # 1
          BY <1>1, <1>6, <4>1, HeadTailProperties, EmptySeq DEF Waiting!TypeOK
        <4> QED BY <1>1, <2>1, <4>1, <4>2 DEF Waiting!UnparkOne, Waiting!TypeOK
      <3>2. \A p \in Producers : Waiting!At(p, "unparkAll") => Waiting!At(p, "unparkAll")'
        BY <1>1, <2>1 DEF Waiting!UnparkOne, Waiting!TypeOK, Waiting!Threads
      <3> QED BY <3>1, <3>2 DEF ConditionInv, Waiting!WaitersFlagged
    <2>2. CASE Waiting!ClearFlag(t)
      BY <1>1, <2>2 DEF Waiting!ClearFlag, Waiting!TypeOK
    <2>3. CASE Waiting!UnparkAll(t)
      BY <1>6, <2>3 DEF Waiting!UnparkAll
    <2>4. CASE Waiting!ProducerLock(t) \/ Waiting!Produce(t) \/ Waiting!NotifyOneLoad(t) \/ Waiting!NotifyAllLoad(t)
      <3>1. queue' = queue /\ hasWaiters' = hasWaiters
        BY <2>4 DEF Waiting!ProducerLock, Waiting!Produce, Waiting!NotifyOneLoad, Waiting!NotifyAllLoad
      <3>2. \A p \in Producers : Waiting!At(p, "unparkAll") => Waiting!At(p, "unparkAll")'
        BY <1>1, <2>4 DEF Waiting!ProducerLock, Waiting!Produce, Waiting!NotifyOneLoad, Waiting!NotifyAllLoad, Waiting!TypeOK, Waiting!Threads
      <3> QED BY <1>6, <3>1, <3>2 DEF ConditionInv, Waiting!WaitersFlagged
    <2> QED BY <2>1, <2>2, <2>3, <2>4 DEF Waiting!ProducerStep
  <1> QED BY <1>4, <1>5, <1>6 DEF ConditionInv, ItemsBound, Waiting!WaitersFlagged

\* hasWaiters_ is down with a thread in the bucket only while a notifyAll is
\* about to empty the bucket, and the variables have their types: so a notifier
\* that reads the flag as down leaves nobody behind for good.
THEOREM Flagged == Waiting!Spec => []WaitersFlagged
  <1>1. ConditionInv /\ [Waiting!Next]_(Waiting!vars) => ConditionInv'
    <2> SUFFICES ASSUME ConditionInv, [Waiting!Next]_(Waiting!vars) PROVE ConditionInv'
      OBVIOUS
    <2>1. CASE UNCHANGED Waiting!vars
      BY <2>1 DEF Waiting!vars, ConditionInv, Waiting!WaitersFlagged, ItemsBound, Delivered, Waiting!TypeOK, Waiting!At
    <2>2. CASE Waiting!Next
      BY <2>1, <2>2, ConsumerInv, ProducerInv DEF Waiting!Next, Waiting!Done
    <2> QED BY <2>1, <2>2
  <1>2. ConditionInv => WaitersFlagged
    BY DEF ConditionInv, WaitersFlagged
  <1> QED BY <1>1, <1>2, ConditionStart, PTL DEF Waiting!Spec

-----------------------------------------------------------------------------
(* Worker threads and WaitGroup *)

WorkerLabels ==
  {"epoch", "try", "run", "bump", "check", "unparkOne", "quiet", "waiting", "wait", "park", "parked",
   "woken", "exited"}

ClientLabels == {"idle", "bump", "check", "unparkOne", "wakeAll", "unparkAll", "join", "joined"}

\* Where a worker is inside wait, and where Main is once it destroys the system.
Inside == {"park", "parked", "woken"}

Destroying == {"wakeAll", "unparkAll", "join", "joined"}

JobTypes ==
  /\ where \in [Jobs -> Queues \cup {"unmade", "taken", "done"}]
  /\ parent \in [Jobs -> 0 .. MaxJobs] /\ awaits \in [Jobs -> 0 .. MaxJobs]
  /\ isOwnGroup \in BOOLEAN

Places ==
  /\ pc \in [Threads -> WorkerLabels \cup ClientLabels] /\ shutdown \in BOOLEAN
  /\ \A w \in WorkerThreads : pc[w] \in WorkerLabels
  /\ \A c \in Clients : pc[c] \in ClientLabels /\ (c # Main => pc[c] \notin Destroying)
  /\ shutdown <=> pc[Main] \in Destroying

Rounds ==
  /\ epoch \in Nat
  /\ seen \in [WorkerThreads -> Nat] /\ \A w \in WorkerThreads : seen[w] <= epoch
  /\ next \in [WorkerThreads -> 1 .. 2 + Cardinality(WorkerThreads)]

\* The threads parked on the WaitGroup are the workers that sleep, each once.
Asleep ==
  /\ parked \in Seq(WorkerThreads)
  /\ \A i, j \in 1 .. Len(parked) : parked[i] = parked[j] => i = j
  /\ \A w \in WorkerThreads : pc[w] = "parked" <=> \E i \in 1 .. Len(parked) : parked[i] = w

\* What a worker runs was taken, and waits but for the top, which may.
StackOf(w) ==
  /\ \A i \in 1 .. Len(stack[w]) : where[stack[w][i]] = "taken"
  /\ \A i \in 1 .. Len(stack[w]) - 1 : awaits[stack[w][i]] # 0
  /\ pc[w] \in {"run", "bump", "check", "unparkOne", "waiting"} => stack[w] # <<>>
  /\ pc[w] \in {"epoch", "quiet", "wait", "park", "parked", "woken", "exited"} => stack[w] = <<>>
  /\ pc[w] \in {"try", "waiting"} /\ stack[w] # <<>> => awaits[stack[w][Len(stack[w])]] # 0

Stacks ==
  /\ stack \in [WorkerThreads -> Seq(Jobs)]
  /\ \A w \in WorkerThreads : StackOf(w)
  /\ \A v, w \in WorkerThreads : \A i \in 1 .. Len(stack[v]), j \in 1 .. Len(stack[w]) :
       stack[v][i] = stack[w][j] => v = w /\ i = j

Active == numActiveThreads = Cardinality(Counted)

\* The epoch moves once for each job that was made, and once in the destructor.
Bumping == {t \in Threads : pc[t] = "bump"}

Made == {j \in Jobs : where[j] # "unmade"}

Bumps ==
  /\ IsFiniteSet(Bumping)
  /\ epoch + Cardinality(Bumping)
       <= Cardinality(Made) + (IF shutdown /\ pc[Main] # "wakeAll" THEN 1 ELSE 0)

WorkersInv == JobTypes /\ Places /\ Rounds /\ Asleep /\ Stacks /\ Active /\ Bumps

LEMMA FewJobs ==
  /\ IsFiniteSet(Jobs) /\ Cardinality(Jobs) = MaxJobs
  /\ \A S \in SUBSET Jobs : IsFiniteSet(S) /\ Cardinality(S) \in Nat /\ Cardinality(S) <= MaxJobs
  <1>1. MaxJobs \in Nat /\ 1 \in Int /\ MaxJobs \in Int
    BY BoundAssumption
  <1>2. IsFiniteSet(1 .. MaxJobs) /\ Cardinality(1 .. MaxJobs) = IF 1 > MaxJobs THEN 0 ELSE MaxJobs - 1 + 1
    BY <1>1, FS_Interval
  <1>3. Cardinality(1 .. MaxJobs) = MaxJobs
    BY <1>1, <1>2
  <1>4. ASSUME NEW S \in SUBSET Jobs
        PROVE  IsFiniteSet(S) /\ Cardinality(S) \in Nat /\ Cardinality(S) <= MaxJobs
    BY <1>2, <1>3, FS_Subset, FS_CardinalityType DEF Jobs
  <1> QED BY <1>2, <1>3, <1>4 DEF Jobs

LEMMA FewWorkers ==
  \A S \in SUBSET WorkerThreads : IsFiniteSet(S) /\ Cardinality(S) \in Nat
  BY WorkerAssumption, FS_Subset, FS_CardinalityType

LEMMA Roles ==
  /\ Main \in Clients /\ Main \in Threads
  /\ \A t \in Threads : t \in Clients <=> t \notin WorkerThreads
  /\ \A w \in WorkerThreads : w \in Threads /\ w \notin Clients /\ w # Main
  BY ClientAssumption DEF Threads

\* tryDequeueJob visits the two global queues, its own local one and those of all others.
LEMMA AllVisited ==
  ASSUME NEW w \in WorkerThreads
  PROVE  /\ Len(Visits(w)) = 2 + Cardinality(WorkerThreads)
         /\ \A k \in 1 .. Len(Visits(w)) : Visits(w)[k] \in Queues
         /\ 2 + Cardinality(WorkerThreads) \in Nat
  <1> DEFINE S == WorkerThreads \ {w}
             others == SetToSeq(S)
             first == <<"high", "low", w>>
  <1>1. IsFiniteSet(S) /\ Cardinality(S) = Cardinality(WorkerThreads) - 1
        /\ Cardinality(WorkerThreads) \in Nat /\ Cardinality(S) \in Nat
    BY WorkerAssumption, FS_RemoveElement, FewWorkers
  <1>2. \E f \in [1 .. Cardinality(S) -> S] : IsInjective(f)
    <2>1. ExistsBijection(1 .. Cardinality(S), S)
      BY <1>1, FS_CardinalityType
    <2> QED BY <2>1 DEF ExistsBijection, Bijection, Injection, IsInjective
  <1>3. others \in [1 .. Cardinality(S) -> S]
    BY <1>2 DEF SetToSeq
  <1> HIDE DEF S, others
  <1>4. others \in Seq(S) /\ Len(others) = Cardinality(S)
    BY <1>1, <1>3
  <1>5. S \subseteq Queues /\ w \in Queues /\ "high" \in Queues /\ "low" \in Queues
    BY DEF Queues, S
  <1>6. others \in Seq(Queues)
    BY <1>4, <1>5
  <1>7. first \in Seq(Queues) /\ Len(first) = 3
    BY <1>5
  <1> HIDE DEF first
  <1>8. first \o others \in Seq(Queues) /\ Len(first \o others) = 3 + Cardinality(S)
    <2>1. first \o others \in Seq(Queues) /\ Len(first \o others) = Len(first) + Len(others)
      BY <1>6, <1>7, ConcatProperties
    <2> QED BY <1>4, <1>7, <2>1
  <1>9. Visits(w) = first \o others
    BY DEF Visits, first, others, S
  <1>10. Len(Visits(w)) = 2 + Cardinality(WorkerThreads)
    BY <1>1, <1>8, <1>9
  <1>11. \A k \in 1 .. Len(Visits(w)) : Visits(w)[k] \in Queues
    BY <1>8, <1>9
  <1> QED BY <1>1, <1>10, <1>11

\* A thread moves, neither to sleep nor awake and past no change of the counters.
LEMMA MoveOnly ==
  ASSUME WorkersInv, NEW t \in Threads, NEW label, pc' = [pc EXCEPT ![t] = label],
         t \in WorkerThreads => label \in WorkerLabels /\ (pc[t] \in Inside <=> label \in Inside),
         t \in Clients => label \in ClientLabels \ Destroying /\ pc[t] \notin Destroying,
         pc[t] # "parked" /\ label # "parked" /\ label # "bump",
         shutdown' = shutdown, epoch' = epoch, numActiveThreads' = numActiveThreads,
         parked' = parked, Made' = Made
  PROVE  Places' /\ Asleep' /\ Active' /\ Bumps'
  <1>1. /\ pc \in [Threads -> WorkerLabels \cup ClientLabels] /\ pc'[t] = label
        /\ \A u \in Threads \ {t} : pc'[u] = pc[u]
        /\ label \in WorkerLabels \cup ClientLabels
    BY Roles DEF WorkersInv, Places
  <1>2. Places'
    <2>1. pc' \in [Threads -> WorkerLabels \cup ClientLabels]
      BY <1>1
    <2>2. \A w \in WorkerThreads : pc'[w] \in WorkerLabels
      BY <1>1, Roles DEF WorkersInv, Places
    <2>3. \A c \in Clients : pc'[c] \in ClientLabels /\ (c # Main => pc'[c] \notin Destroying)
      BY <1>1, Roles DEF WorkersInv, Places, Threads
    <2>4. pc'[Main] \in Destroying <=> pc[Main] \in Destroying
      BY <1>1, Roles
    <2> QED BY <2>1, <2>2, <2>3, <2>4 DEF WorkersInv, Places
  <1>3. Asleep'
    <2>1. \A w \in WorkerThreads : pc'[w] = "parked" <=> pc[w] = "parked"
      BY <1>1, Roles
    <2> QED BY <2>1 DEF WorkersInv, Asleep
  <1>4. Counted' = Counted
    <2>1. \A w \in WorkerThreads : pc'[w] \in Inside <=> pc[w] \in Inside
      BY <1>1, Roles
    <2> QED BY <2>1 DEF Counted, Inside
  <1>5. Bumps'
    <2>1. Bumping' \in SUBSET Bumping
      BY <1>1 DEF Bumping
    <2>2. IsFiniteSet(Bumping') /\ Cardinality(Bumping') <= Cardinality(Bumping)
          /\ Cardinality(Bumping') \in Nat /\ Cardinality(Bumping) \in Nat
      BY <2>1, FS_Subset, FS_CardinalityType DEF WorkersInv, Bumps
    <2>3. pc'[Main] = "wakeAll" <=> pc[Main] = "wakeAll"
      BY <1>1, Roles DEF Destroying
    <2>4. Cardinality(Made) \in Nat /\ epoch \in Nat
      BY FewJobs DEF WorkersInv, Rounds, Made
    <2> QED BY <2>2, <2>3, <2>4 DEF WorkersInv, Bumps
  <1> QED BY <1>2, <1>3, <1>4, <1>5 DEF WorkersInv, Active

\* The stacks do not change, nor what they say of a worker where it is now.
LEMMA SameStacks ==
  ASSUME Stacks, stack' = stack,
         NEW t, \A w \in WorkerThreads \ {t} : pc'[w] = pc[w],
         \A w \in WorkerThreads : \A i \in 1 .. Len(stack[w]) :
            where'[stack[w][i]] = where[stack[w][i]] /\ awaits'[stack[w][i]] = awaits[stack[w][i]],
         t \in WorkerThreads => StackOf(t)'
  PROVE  Stacks'
  <1>1. ASSUME NEW w \in WorkerThreads, w # t PROVE StackOf(w)'
    <2>1. stack[w] \in Seq(Jobs) /\ Len(stack[w]) \in Nat /\ pc'[w] = pc[w]
      BY <1>1 DEF Stacks
    <2>2. stack[w] # <<>> => Len(stack[w]) \in 1 .. Len(stack[w])
      BY <2>1, FirstAndLast
    <2>3. StackOf(w)
      BY DEF Stacks
    <2> QED BY <2>1, <2>2, <2>3 DEF StackOf
  <1> QED BY <1>1 DEF Stacks

LEMMA TopOf ==
  ASSUME WorkersInv, NEW w \in WorkerThreads, stack[w] # <<>>
  PROVE  /\ stack[w] \in Seq(Jobs) /\ Len(stack[w]) \in Nat \ {0} /\ Len(stack[w]) \in 1 .. Len(stack[w])
         /\ Last(stack[w]) = stack[w][Len(stack[w])] /\ Last(stack[w]) \in Jobs
         /\ where[Last(stack[w])] = "taken"
  <1>1. stack[w] \in Seq(Jobs)
    BY DEF WorkersInv, Stacks
  <1>2. Len(stack[w]) \in Nat \ {0} /\ Len(stack[w]) \in 1 .. Len(stack[w])
    BY <1>1, FirstAndLast
  <1>3. Last(stack[w]) = stack[w][Len(stack[w])]
    BY DEF Last
  <1> QED BY <1>1, <1>2, <1>3 DEF WorkersInv, Stacks, StackOf

LEMMA ScheduleInv ==
  ASSUME WorkersInv, NEW t \in Threads, Schedule(t)
  PROVE  WorkersInv'
  <1> DEFINE j == CHOOSE k \in Unmade : \A i \in Unmade : k <= i
  <1>1. j \in Unmade
    <2>1. Unmade \subseteq Nat /\ Unmade # {}
      BY DEF Schedule, Unmade, In, Jobs
    <2>2. \E k \in Unmade : \A i \in Unmade : k <= i
      BY <2>1, Least
    <2> QED BY <2>2
  <1>2. j \in Jobs /\ where[j] = "unmade" /\ pc[t] = Home(t) /\ ~shutdown
    BY <1>1 DEF Unmade, In, Schedule, At
  <1>3. /\ parent' = [parent EXCEPT ![j] = IF t \in Clients THEN 0 ELSE Last(stack[t])]
        /\ stack' = stack /\ awaits' = awaits /\ epoch' = epoch /\ numActiveThreads' = numActiveThreads
        /\ parked' = parked /\ shutdown' = shutdown /\ seen' = seen /\ next' = next
        /\ isOwnGroup' = isOwnGroup
    BY DEF Schedule, waitGroup
  <1>4. PICK q \in Queues : where' = [where EXCEPT ![j] = q] /\ (pc' = pc \/ pc' = [pc EXCEPT ![t] = "bump"])
    <2>1. "high" \in Queues /\ "low" \in Queues /\ (t \in WorkerThreads => t \in Queues)
      BY DEF Queues
    <2> HIDE DEF j
    <2> QED BY <2>1 DEF Schedule, Goto, j
  <1> HIDE DEF j
  <1>5. t \in WorkerThreads => pc[t] = "run" /\ stack[t] # <<>>
    BY <1>2, Roles DEF Home, WorkersInv, Stacks, StackOf
  <1>6. t \in Clients => pc[t] = "idle"
    BY <1>2 DEF Home
  <1>7. where'[j] = q /\ q # "unmade" /\ q # "taken" /\ \A k \in Jobs \ {j} : where'[k] = where[k]
    BY <1>2, <1>4, WorkerAssumption DEF WorkersInv, JobTypes, Queues
  <1>8. JobTypes'
    <2>1. (IF t \in Clients THEN 0 ELSE Last(stack[t])) \in 0 .. MaxJobs
      BY <1>5, Roles, TopOf, BoundAssumption DEF Jobs
    <2>2. parent' \in [Jobs -> 0 .. MaxJobs]
      BY <1>3, <2>1 DEF WorkersInv, JobTypes
    <2>3. where' \in [Jobs -> Queues \cup {"unmade", "taken", "done"}]
      BY <1>4 DEF WorkersInv, JobTypes
    <2> QED BY <1>3, <2>2, <2>3 DEF WorkersInv, JobTypes
  <1>9. /\ pc \in [Threads -> WorkerLabels \cup ClientLabels]
        /\ pc'[t] \in {pc[t], "bump"} /\ \A u \in Threads \ {t} : pc'[u] = pc[u]
        /\ pc' \in [Threads -> WorkerLabels \cup ClientLabels]
    BY <1>4 DEF WorkersInv, Places, WorkerLabels
  <1>10. pc[t] # "bump" /\ pc[t] \notin Inside /\ pc[t] \notin Destroying
    BY <1>5, <1>6, Roles DEF Inside, Destroying
  <1>11. Places'
    <2>1. \A w \in WorkerThreads : pc'[w] \in WorkerLabels
      BY <1>9, Roles DEF WorkersInv, Places, WorkerLabels
    <2>2. \A c \in Clients : pc'[c] \in ClientLabels /\ (pc'[c] \in Destroying <=> pc[c] \in Destroying)
      BY <1>9, <1>10, Roles DEF WorkersInv, Places, ClientLabels, Threads, Destroying
    <2> QED BY <1>3, <1>9, <2>1, <2>2, Roles DEF WorkersInv, Places
  <1>12. Rounds'
    BY <1>3 DEF WorkersInv, Rounds
  <1>13. \A w \in WorkerThreads : pc'[w] \in Inside <=> pc[w] \in Inside
    BY <1>9, <1>10, Roles DEF Inside
  <1>14. Asleep'
    <2>1. \A w \in WorkerThreads : pc'[w] = "parked" <=> pc[w] = "parked"
      BY <1>9, <1>10, Roles DEF Inside
    <2> QED BY <1>3, <2>1 DEF WorkersInv, Asleep
  <1>15. Active'
    BY <1>3, <1>13 DEF WorkersInv, Active, Counted, Inside
  <1>16. Stacks'
    <2>1. \A w \in WorkerThreads \ {t} : pc'[w] = pc[w]
      BY <1>9, Roles
    <2>2. \A w \in WorkerThreads : \A i \in 1 .. Len(stack[w]) :
            where'[stack[w][i]] = where[stack[w][i]] /\ awaits'[stack[w][i]] = awaits[stack[w][i]]
      <3>1. ASSUME NEW w \in WorkerThreads, NEW i \in 1 .. Len(stack[w])
            PROVE  where'[stack[w][i]] = where[stack[w][i]]
        <4>1. stack[w] \in Seq(Jobs) /\ where[stack[w][i]] = "taken"
          BY DEF WorkersInv, Stacks, StackOf
        <4>2. stack[w][i] \in Jobs
          BY <4>1
        <4> QED BY <1>2, <1>7, <4>1, <4>2
      <3> QED BY <1>3, <3>1
    <2>3. ASSUME t \in WorkerThreads PROVE StackOf(t)'
      <3>1. StackOf(t) /\ Len(stack[t]) \in Nat /\ pc'[t] \in {"run", "bump"} /\ stack[t] # <<>>
        BY <1>5, <1>9, <2>3, TopOf DEF WorkersInv, Stacks
      <3> QED BY <1>3, <2>2, <2>3, <3>1 DEF StackOf
    <2> QED BY <1>3, <2>1, <2>2, <2>3, SameStacks DEF WorkersInv
  <1>17. Bumps'
    <2>1. Made' = Made \cup {j} /\ j \notin Made
      BY <1>2, <1>7 DEF Made
    <2>2. Cardinality(Made') = Cardinality(Made) + 1 /\ Cardinality(Made) \in Nat
      BY <2>1, FewJobs, FS_AddElement DEF Made
    <2>3. Bumping' \in {Bumping, Bumping \cup {t}}
      BY <1>4, <1>9 DEF Bumping
    <2>4. IsFiniteSet(Bumping') /\ Cardinality(Bumping') <= Cardinality(Bumping) + 1
          /\ Cardinality(Bumping) \in Nat /\ Cardinality(Bumping') \in Nat
      <3>1. IsFiniteSet(Bumping) /\ Cardinality(Bumping) \in Nat
        BY FS_CardinalityType DEF WorkersInv, Bumps
      <3>2. /\ IsFiniteSet(Bumping \cup {t}) /\ Cardinality(Bumping \cup {t}) \in Nat
            /\ Cardinality(Bumping \cup {t}) <= Cardinality(Bumping) + 1
        <4>1. /\ IsFiniteSet(Bumping \cup {t})
              /\ Cardinality(Bumping \cup {t}) = IF t \in Bumping THEN Cardinality(Bumping) ELSE Cardinality(Bumping) + 1
          BY <3>1, FS_AddElement
        <4>2. Cardinality(Bumping \cup {t}) \in {Cardinality(Bumping), Cardinality(Bumping) + 1}
          BY <4>1
        <4> QED BY <3>1, <4>1, <4>2
      <3>3. CASE Bumping' = Bumping
        BY <3>1, <3>3
      <3>4. CASE Bumping' = Bumping \cup {t}
        BY <3>1, <3>2, <3>4
      <3> QED BY <2>3, <3>3, <3>4
    <2>5. epoch \in Nat
      BY DEF WorkersInv, Rounds
    <2>6. epoch + Cardinality(Bumping) <= Cardinality(Made) + 0
      BY <1>2 DEF WorkersInv, Bumps
    <2>7. ~shutdown'
      BY <1>2, <1>3
    <2> QED BY <1>3, <2>2, <2>4, <2>5, <2>6, <2>7 DEF Bumps
  <1> QED BY <1>8, <1>11, <1>12, <1>14, <1>15, <1>16, <1>17 DEF WorkersInv

\* What a step of a thread that keeps the jobs and the stacks leaves to be shown.
LEMMA JobsKept ==
  ASSUME WorkersInv, UNCHANGED <<jobs, isOwnGroup>>, NEW t, \A w \in WorkerThreads \ {t} : pc'[w] = pc[w],
         t \in WorkerThreads => StackOf(t)'
  PROVE  JobTypes' /\ Stacks' /\ Made' = Made
  <1>1. where' = where /\ parent' = parent /\ stack' = stack /\ awaits' = awaits /\ isOwnGroup' = isOwnGroup
    BY DEF jobs
  <1>2. Stacks'
    BY <1>1, SameStacks DEF WorkersInv
  <1> QED BY <1>1, <1>2 DEF WorkersInv, JobTypes, Made

LEMMA BumpInv ==
  ASSUME WorkersInv, NEW t \in Threads, Bump(t)
  PROVE  WorkersInv'
  <1>1. /\ pc[t] = "bump" /\ epoch' = epoch + 1 /\ pc' = [pc EXCEPT ![t] = "check"]
        /\ UNCHANGED <<jobs, isOwnGroup>> /\ UNCHANGED <<numActiveThreads, parked, shutdown, seen, next>>
    BY DEF Bump, At, Goto
  <1>2. /\ pc'[t] = "check" /\ \A u \in Threads \ {t} : pc'[u] = pc[u]
        /\ pc' \in [Threads -> WorkerLabels \cup ClientLabels]
    BY <1>1 DEF WorkersInv, Places, WorkerLabels
  <1>3. Places'
    <2>1. \A w \in WorkerThreads : pc'[w] \in WorkerLabels
      BY <1>2, Roles DEF WorkersInv, Places, WorkerLabels
    <2>2. \A c \in Clients : pc'[c] \in ClientLabels /\ (pc'[c] \in Destroying <=> pc[c] \in Destroying)
      BY <1>1, <1>2, Roles DEF WorkersInv, Places, ClientLabels, Threads, Destroying
    <2> QED BY <1>1, <1>2, <2>1, <2>2, Roles DEF WorkersInv, Places
  <1>4. Asleep'
    <2>1. \A w \in WorkerThreads : pc'[w] = "parked" <=> pc[w] = "parked"
      BY <1>1, <1>2, Roles
    <2> QED BY <1>1, <2>1 DEF WorkersInv, Asleep
  <1>5. Active'
    <2>1. \A w \in WorkerThreads : pc'[w] \in Inside <=> pc[w] \in Inside
      BY <1>1, <1>2, Roles DEF Inside
    <2> QED BY <1>1, <2>1 DEF WorkersInv, Active, Counted, Inside
  <1>6. Rounds'
    BY <1>1 DEF WorkersInv, Rounds
  <1>7. JobTypes' /\ Stacks' /\ Made' = Made
    <2>1. ASSUME t \in WorkerThreads PROVE StackOf(t)'
      <3>1. StackOf(t)
        BY <2>1 DEF WorkersInv, Stacks
      <3> QED BY <1>1, <1>2, <3>1 DEF StackOf, jobs
    <2>2. \A w \in WorkerThreads \ {t} : pc'[w] = pc[w]
      BY <1>2, Roles
    <2> QED BY <1>1, <2>1, <2>2, JobsKept
  <1>8. Bumps'
    <2>1. Bumping' = Bumping \ {t} /\ t \in Bumping
      BY <1>1, <1>2 DEF Bumping
    <2>2. IsFiniteSet(Bumping') /\ Cardinality(Bumping') = Cardinality(Bumping) - 1
          /\ Cardinality(Bumping) \in Nat
      BY <2>1, FS_RemoveElement, FS_CardinalityType DEF WorkersInv, Bumps
    <2>3. pc'[Main] = "wakeAll" <=> pc[Main] = "wakeAll"
      BY <1>1, <1>2, Roles
    <2>4. Cardinality(Made) \in Nat /\ epoch \in Nat
      BY FewJobs DEF WorkersInv, Rounds, Made
    <2> QED BY <1>1, <1>7, <2>2, <2>3, <2>4 DEF WorkersInv, Bumps
  <1> QED BY <1>3, <1>4, <1>5, <1>6, <1>7, <1>8 DEF WorkersInv

\* A step that only moves one thread, and may store what a worker saw.
LEMMA PlaceInv ==
  ASSUME WorkersInv, NEW t \in Threads, NEW label, pc' = [pc EXCEPT ![t] = label],
         t \in WorkerThreads => label \in WorkerLabels /\ (pc[t] \in Inside <=> label \in Inside),
         t \in Clients => label \in ClientLabels \ Destroying /\ pc[t] \notin Destroying,
         pc[t] # "parked" /\ label # "parked" /\ label # "bump",
         UNCHANGED <<jobs, isOwnGroup>>, UNCHANGED waitGroup, shutdown' = shutdown, Rounds',
         t \in WorkerThreads => StackOf(t)'
  PROVE  WorkersInv'
  <1>1. \A w \in WorkerThreads \ {t} : pc'[w] = pc[w]
    BY Roles DEF WorkersInv, Places
  <1>2. JobTypes' /\ Stacks' /\ Made' = Made
    BY <1>1, JobsKept
  <1>3. epoch' = epoch /\ numActiveThreads' = numActiveThreads /\ parked' = parked
    BY DEF waitGroup
  <1>4. Places' /\ Asleep' /\ Active' /\ Bumps'
    BY <1>2, <1>3, MoveOnly
  <1> QED BY <1>2, <1>4 DEF WorkersInv

LEMMA CheckInv ==
  ASSUME WorkersInv, NEW t \in Threads, Check(t)
  PROVE  WorkersInv'
  <1>1. PICK label \in {Home(t), "unparkOne"} : pc' = [pc EXCEPT ![t] = label]
    BY DEF Check, Goto
  <1>2. /\ pc[t] = "check" /\ UNCHANGED <<jobs, isOwnGroup>> /\ UNCHANGED waitGroup /\ shutdown' = shutdown
        /\ epoch' = epoch /\ seen' = seen /\ next' = next
    BY DEF Check, At, waitGroup
  <1>3. t \in WorkerThreads => label \in {"run", "unparkOne"}
    BY Roles DEF Home
  <1>4. t \in Clients => label \in {"idle", "unparkOne"}
    BY DEF Home
  <1>5. ASSUME t \in WorkerThreads PROVE StackOf(t)'
    <2>1. StackOf(t) /\ pc'[t] = label
      BY <1>1, <1>5 DEF WorkersInv, Stacks, Places
    <2> QED BY <1>2, <1>3, <1>5, <2>1 DEF StackOf, jobs
  <1>6. Rounds'
    BY <1>2 DEF WorkersInv, Rounds
  <1>7. label # "parked" /\ label # "bump"
    BY <1>3, <1>4, Roles
  <1>8. t \in WorkerThreads => label \in WorkerLabels /\ (pc[t] \in Inside <=> label \in Inside)
    BY <1>2, <1>3 DEF WorkerLabels, Inside
  <1>9. t \in Clients => label \in ClientLabels \ Destroying /\ pc[t] \notin Destroying
    BY <1>2, <1>4 DEF ClientLabels, Destroying
  <1> QED BY <1>1, <1>2, <1>5, <1>6, <1>7, <1>8, <1>9, PlaceInv

LEMMA UnparkOneInv ==
  ASSUME WorkersInv, NEW t \in Threads, UnparkOne(t)
  PROVE  WorkersInv'
  <1>1. /\ pc[t] = "unparkOne" /\ UNCHANGED <<jobs, isOwnGroup>> /\ shutdown' = shutdown
        /\ epoch' = epoch /\ numActiveThreads' = numActiveThreads /\ seen' = seen /\ next' = next
    BY DEF UnparkOne, At
  <1>2. /\ t \in WorkerThreads => Home(t) = "run"
        /\ t \in Clients => Home(t) = "idle"
    BY Roles DEF Home
  <1>3. Rounds'
    BY <1>1 DEF WorkersInv, Rounds
  <1>4. CASE parked = <<>>
    <2>1. pc' = [pc EXCEPT ![t] = Home(t)] /\ parked' = parked
      BY <1>4 DEF UnparkOne, Goto
    <2>2. ASSUME t \in WorkerThreads PROVE StackOf(t)'
      <3>1. StackOf(t) /\ pc'[t] = "run"
        BY <1>2, <2>1, <2>2 DEF WorkersInv, Stacks, Places
      <3> QED BY <1>1, <2>2, <3>1 DEF StackOf, jobs
    <2>3. Home(t) # "parked" /\ Home(t) # "bump" /\ pc[t] # "parked"
      BY <1>1 DEF Home
    <2>4. t \in WorkerThreads => Home(t) \in WorkerLabels /\ (pc[t] \in Inside <=> Home(t) \in Inside)
      BY <1>1, <1>2 DEF WorkerLabels, Inside
    <2>5. t \in Clients => Home(t) \in ClientLabels \ Destroying /\ pc[t] \notin Destroying
      BY <1>1, <1>2 DEF ClientLabels, Destroying
    <2>6. UNCHANGED waitGroup
      BY <1>1, <2>1 DEF waitGroup
    <2> QED BY <1>1, <1>3, <2>1, <2>2, <2>3, <2>4, <2>5, <2>6, PlaceInv
  <1>5. CASE parked # <<>>
    <2> DEFINE h == parked[1]
    <2>1. parked \in Seq(WorkerThreads) /\ Len(parked) \in Nat /\ 1 \in 1 .. Len(parked) /\ h \in WorkerThreads
      <3>1. parked \in Seq(WorkerThreads) /\ Len(parked) \in Nat /\ 1 \in 1 .. Len(parked)
        BY <1>5, FirstAndLast DEF WorkersInv, Asleep
      <3> QED BY <3>1
    <2>2. pc[h] = "parked" /\ h # t
      BY <1>1, <2>1 DEF WorkersInv, Asleep
    <2>3. pc' = [pc EXCEPT ![t] = Home(t), ![h] = "woken"] /\ parked' = Tail(parked)
      BY <1>5, <2>1 DEF UnparkOne
    <2> HIDE DEF h
    <2>4. /\ pc'[t] = Home(t) /\ pc'[h] = "woken" /\ h \in Threads
          /\ \A u \in Threads \ {t, h} : pc'[u] = pc[u] /\ pc' \in [Threads -> WorkerLabels \cup ClientLabels]
      BY <1>2, <2>1, <2>2, <2>3, Roles DEF WorkersInv, Places, WorkerLabels, ClientLabels, Threads
    <2>5. pc' \in [Threads -> WorkerLabels \cup ClientLabels]
      BY <1>2, <2>3, Roles DEF WorkersInv, Places, WorkerLabels, ClientLabels, Threads
    <2>6. Places'
      <3>1. \A w \in WorkerThreads : pc'[w] \in WorkerLabels
        BY <1>2, <2>4, Roles DEF WorkersInv, Places, WorkerLabels
      <3>2. \A c \in Clients : pc'[c] \in ClientLabels /\ (pc'[c] \in Destroying <=> pc[c] \in Destroying)
        BY <1>1, <1>2, <2>1, <2>4, Roles DEF WorkersInv, Places, ClientLabels, Threads, Destroying
      <3> QED BY <1>1, <2>5, <3>1, <3>2, Roles DEF WorkersInv, Places
    <2>7. \A w \in WorkerThreads : pc'[w] \in Inside <=> pc[w] \in Inside
      BY <1>1, <1>2, <2>2, <2>4, Roles DEF Inside
    <2>8. Active'
      BY <1>1, <2>7 DEF WorkersInv, Active, Counted, Inside
    <2>9. Asleep'
      <3>1. /\ parked' \in Seq(WorkerThreads) /\ Len(parked') = Len(parked) - 1
            /\ \A i \in 1 .. Len(parked) - 1 : parked'[i] = parked[i + 1]
        BY <1>5, <2>1, <2>3, HeadTailProperties
      <3>2. \A i, j \in 1 .. Len(parked') : parked'[i] = parked'[j] => i = j
        <4>1. ASSUME NEW i \in 1 .. Len(parked'), NEW j \in 1 .. Len(parked'), parked'[i] = parked'[j]
              PROVE  i = j
          <5>1. i + 1 \in 1 .. Len(parked) /\ j + 1 \in 1 .. Len(parked)
                /\ parked[i + 1] = parked[j + 1]
            BY <2>1, <3>1, <4>1
          <5>2. i + 1 = j + 1
            BY <5>1 DEF WorkersInv, Asleep
          <5> QED BY <5>2
        <4> QED BY <4>1
      <3>3. ASSUME NEW w \in WorkerThreads
            PROVE  pc'[w] = "parked" <=> \E i \in 1 .. Len(parked') : parked'[i] = w
        <4>1. CASE w = h
          <5>1. pc'[w] # "parked"
            BY <2>4, <4>1
          <5>2. ASSUME NEW i \in 1 .. Len(parked'), parked'[i] = w PROVE FALSE
            <6>1. i + 1 \in 1 .. Len(parked) /\ parked[i + 1] = parked[1] /\ i + 1 # 1
              BY <2>1, <3>1, <4>1, <5>2 DEF h
            <6> QED BY <2>1, <6>1 DEF WorkersInv, Asleep
          <5> QED BY <5>1, <5>2
        <4>2. CASE w # h
          <5>1. pc'[w] = "parked" <=> pc[w] = "parked"
            BY <1>1, <1>2, <2>4, <4>2, Roles
          <5>2. ASSUME NEW i \in 1 .. Len(parked), parked[i] = w
                PROVE  \E k \in 1 .. Len(parked') : parked'[k] = w
            <6>1. i # 1
              BY <4>2, <5>2 DEF h
            <6>2. i - 1 \in 1 .. Len(parked') /\ (i - 1) + 1 = i
              BY <2>1, <3>1, <6>1
            <6> QED BY <3>1, <5>2, <6>2
          <5>3. ASSUME NEW i \in 1 .. Len(parked'), parked'[i] = w
                PROVE  \E k \in 1 .. Len(parked) : parked[k] = w
            <6>1. i + 1 \in 1 .. Len(parked) /\ parked[i + 1] = w
              BY <2>1, <3>1, <5>3
            <6> QED BY <6>1
          <5> QED BY <5>1, <5>2, <5>3 DEF WorkersInv, Asleep
        <4> QED BY <4>1, <4>2
      <3> QED BY <3>1, <3>2, <3>3 DEF Asleep
    <2>10. JobTypes' /\ Stacks' /\ Made' = Made
      <3>1. where' = where /\ parent' = parent /\ stack' = stack /\ awaits' = awaits /\ isOwnGroup' = isOwnGroup
        BY <1>1 DEF jobs
      <3>2. ASSUME NEW w \in WorkerThreads PROVE StackOf(w)'
        <4>1. StackOf(w)
          BY DEF WorkersInv, Stacks
        <4>2. CASE w = t
          BY <1>1, <1>2, <2>4, <3>1, <4>1, <4>2 DEF StackOf
        <4>3. CASE w = h
          BY <2>2, <2>4, <3>1, <4>1, <4>3 DEF StackOf
        <4>4. CASE w # t /\ w # h
          <5>1. pc'[w] = pc[w]
            BY <2>4, <4>4, Roles
          <5> QED BY <3>1, <4>1, <5>1 DEF StackOf
        <4> QED BY <4>2, <4>3, <4>4
      <3>3. Stacks'
        BY <3>1, <3>2 DEF WorkersInv, Stacks
      <3> QED BY <3>1, <3>3 DEF WorkersInv, JobTypes, Made
    <2>11. Bumps'
      <3>1. Bumping' = Bumping
        BY <1>1, <1>2, <2>2, <2>4, Roles DEF Bumping, Home
      <3>2. pc'[Main] = "wakeAll" <=> pc[Main] = "wakeAll"
        BY <1>1, <1>2, <2>1, <2>4, Roles
      <3> QED BY <1>1, <2>10, <3>1, <3>2 DEF WorkersInv, Bumps
    <2> QED BY <1>3, <2>6, <2>8, <2>9, <2>10, <2>11 DEF WorkersInv
  <1> QED BY <1>4, <1>5

LEMMA LoadEpochInv ==
  ASSUME WorkersInv, NEW w \in WorkerThreads, LoadEpoch(w)
  PROVE  WorkersInv'
  <1>1. /\ pc[w] = "epoch" /\ pc' = [pc EXCEPT ![w] = "try"] /\ seen' = [seen EXCEPT ![w] = epoch]
        /\ UNCHANGED <<jobs, isOwnGroup>> /\ UNCHANGED waitGroup /\ shutdown' = shutdown
        /\ next' = next /\ epoch' = epoch
    BY DEF LoadEpoch, At, Goto, waitGroup
  <1>2. Rounds'
    BY <1>1 DEF WorkersInv, Rounds
  <1>3. StackOf(w)'
    <2>1. StackOf(w) /\ pc'[w] = "try"
      BY <1>1, Roles DEF WorkersInv, Stacks, Places
    <2> QED BY <1>1, <2>1 DEF StackOf, jobs
  <1> QED BY <1>1, <1>2, <1>3, Roles, PlaceInv DEF WorkerLabels, Inside

LEMMA FindNothingInv ==
  ASSUME WorkersInv, NEW w \in WorkerThreads, FindNothing(w)
  PROVE  WorkersInv'
  <1>1. /\ pc[w] = "try" /\ UNCHANGED <<jobs, isOwnGroup>> /\ UNCHANGED waitGroup /\ shutdown' = shutdown
        /\ seen' = seen /\ epoch' = epoch
    BY DEF FindNothing, At, waitGroup
  <1>2. PICK label \in {"try", IF stack[w] = <<>> THEN "quiet" ELSE "waiting"} : pc' = [pc EXCEPT ![w] = label]
    <2>1. pc = [pc EXCEPT ![w] = "try"]
      BY <1>1 DEF WorkersInv, Places
    <2> QED BY <2>1 DEF FindNothing, Goto
  <1>3. Rounds'
    <2>1. next[w] \in 1 .. 2 + Cardinality(WorkerThreads)
          /\ Len(Visits(w)) = 2 + Cardinality(WorkerThreads) /\ 2 + Cardinality(WorkerThreads) \in Nat
      BY AllVisited DEF WorkersInv, Rounds
    <2>2. CASE next' = [next EXCEPT ![w] = 1]
      BY <1>1, <2>1, <2>2 DEF WorkersInv, Rounds
    <2>3. CASE next' = [next EXCEPT ![w] = next[w] + 1] /\ next[w] < Len(Visits(w))
      <3>1. next[w] + 1 \in 1 .. 2 + Cardinality(WorkerThreads)
        BY <2>1, <2>3
      <3> QED BY <1>1, <2>3, <3>1 DEF WorkersInv, Rounds
    <2> QED BY <2>2, <2>3 DEF FindNothing
  <1>4. StackOf(w)'
    <2>1. StackOf(w) /\ pc'[w] = label
      BY <1>2, Roles DEF WorkersInv, Stacks, Places
    <2> QED BY <1>1, <1>2, <2>1 DEF StackOf, jobs
  <1>5. label \in WorkerLabels /\ label \notin Inside /\ pc[w] \notin Inside /\ label # "bump" /\ label # "parked"
    BY <1>1, <1>2 DEF WorkerLabels, Inside
  <1> QED BY <1>1, <1>2, <1>3, <1>4, <1>5, Roles, PlaceInv

LEMMA TryRunOneJobInv ==
  ASSUME WorkersInv, NEW w \in WorkerThreads, TryRunOneJob(w)
  PROVE  WorkersInv'
  <1>1. /\ pc[w] = "waiting" /\ pc' = [pc EXCEPT ![w] = "try"]
        /\ UNCHANGED <<jobs, isOwnGroup>> /\ UNCHANGED waitGroup /\ shutdown' = shutdown
        /\ next' = next /\ epoch' = epoch /\ seen' = seen
    BY DEF TryRunOneJob, At, Goto, waitGroup
  <1>2. Rounds'
    BY <1>1 DEF WorkersInv, Rounds
  <1>3. StackOf(w)'
    <2>1. StackOf(w) /\ pc'[w] = "try"
      BY <1>1, Roles DEF WorkersInv, Stacks, Places
    <2> QED BY <1>1, <2>1 DEF StackOf, jobs
  <1> QED BY <1>1, <1>2, <1>3, Roles, PlaceInv DEF WorkerLabels, Inside

LEMMA QuietInv ==
  ASSUME WorkersInv, NEW w \in WorkerThreads, Quiet(w)
  PROVE  WorkersInv'
  <1>1. /\ pc[w] = "quiet"
        /\ UNCHANGED <<jobs, isOwnGroup>> /\ UNCHANGED waitGroup /\ shutdown' = shutdown
        /\ next' = next /\ epoch' = epoch /\ seen' = seen
    BY DEF Quiet, At, waitGroup
  <1>2. PICK label \in {"exited", "wait"} : pc' = [pc EXCEPT ![w] = label]
    BY DEF Quiet, Goto
  <1>3. Rounds'
    BY <1>1 DEF WorkersInv, Rounds
  <1>4. StackOf(w)'
    <2>1. StackOf(w) /\ pc'[w] = label
      BY <1>2, Roles DEF WorkersInv, Stacks, Places
    <2> QED BY <1>1, <1>2, <2>1 DEF StackOf, jobs
  <1>5. label \in WorkerLabels /\ label \notin Inside /\ pc[w] \notin Inside /\ label # "bump" /\ label # "parked"
    BY <1>1, <1>2 DEF WorkerLabels, Inside
  <1> QED BY <1>1, <1>2, <1>3, <1>4, <1>5, Roles, PlaceInv

LEMMA TakeInv ==
  ASSUME WorkersInv, NEW w \in WorkerThreads, Take(w)
  PROVE  WorkersInv'
  <1>1. /\ pc[w] = "try" /\ pc' = [pc EXCEPT ![w] = "run"] /\ next' = [next EXCEPT ![w] = 1]
        /\ seen' = [seen EXCEPT ![w] = 0] /\ parent' = parent /\ awaits' = awaits /\ shutdown' = shutdown
        /\ isOwnGroup' = isOwnGroup /\ epoch' = epoch /\ numActiveThreads' = numActiveThreads
        /\ parked' = parked
    BY DEF Take, At, Goto, waitGroup
  <1>2. PICK j \in Offered(w, Visits(w)[next[w]]) :
          where' = [where EXCEPT ![j] = "taken"] /\ stack' = [stack EXCEPT ![w] = Append(@, j)]
    BY DEF Take
  <1> DEFINE old == stack[w]
             new == Append(old, j)
  <1>3. j \in Jobs /\ where[j] # "taken" /\ where[j] # "unmade"
    <2>1. /\ Len(Visits(w)) = 2 + Cardinality(WorkerThreads)
          /\ \A k \in 1 .. Len(Visits(w)) : Visits(w)[k] \in Queues
      BY AllVisited
    <2>2. next[w] \in 1 .. Len(Visits(w))
      BY <2>1 DEF WorkersInv, Rounds
    <2>3. Visits(w)[next[w]] \in Queues
      BY <2>1, <2>2
    <2>4. j \in In(Visits(w)[next[w]])
      BY <1>2 DEF Offered
    <2> QED BY <2>3, <2>4, WorkerAssumption DEF In, Queues
  <1>4. old \in Seq(Jobs) /\ Len(old) \in Nat /\ new \in Seq(Jobs) /\ Len(new) = Len(old) + 1
        /\ (\A i \in 1 .. Len(old) : new[i] = old[i]) /\ new[Len(old) + 1] = j
    BY <1>3, AppendProperties, LenProperties DEF WorkersInv, Stacks
  <1>5. /\ stack' \in [WorkerThreads -> Seq(Jobs)] /\ stack'[w] = new
        /\ \A v \in WorkerThreads \ {w} : stack'[v] = stack[v]
    BY <1>2, <1>4 DEF WorkersInv, Stacks
  <1>6. /\ where' \in [Jobs -> Queues \cup {"unmade", "taken", "done"}] /\ where'[j] = "taken"
        /\ \A k \in Jobs \ {j} : where'[k] = where[k]
    BY <1>2, <1>3 DEF WorkersInv, JobTypes
  <1>7. pc'[w] = "run" /\ \A v \in WorkerThreads \ {w} : pc'[v] = pc[v]
    BY <1>1, Roles DEF WorkersInv, Places
  <1> HIDE DEF old, new
  <1>8. \A v \in WorkerThreads : \A i \in 1 .. Len(stack[v]) : stack[v][i] \in Jobs \ {j}
    <2>1. ASSUME NEW v \in WorkerThreads, NEW i \in 1 .. Len(stack[v])
          PROVE  stack[v][i] \in Jobs \ {j}
      <3>1. stack[v] \in Seq(Jobs) /\ where[stack[v][i]] = "taken"
        BY DEF WorkersInv, Stacks, StackOf
      <3>2. stack[v][i] \in Jobs
        BY <3>1
      <3> QED BY <1>3, <3>1, <3>2
    <2> QED BY <2>1
  <1>9. JobTypes'
    BY <1>1, <1>6 DEF WorkersInv, JobTypes
  <1>10. Rounds'
    <2>1. 1 \in 1 .. 2 + Cardinality(WorkerThreads) /\ 0 \in Nat /\ 0 <= epoch
      BY FewWorkers DEF WorkersInv, Rounds
    <2> QED BY <1>1, <2>1 DEF WorkersInv, Rounds
  <1>11. Made' = Made
    BY <1>3, <1>6 DEF Made
  <1>12. Places' /\ Asleep' /\ Active' /\ Bumps'
    BY <1>1, <1>11, Roles, MoveOnly DEF WorkerLabels, Inside
  <1>13. ASSUME NEW v \in WorkerThreads PROVE StackOf(v)'
    <2>1. CASE v # w
      <3>1. StackOf(v) /\ stack'[v] = stack[v] /\ pc'[v] = pc[v]
        BY <1>5, <1>7, <2>1 DEF WorkersInv, Stacks
      <3>2. \A i \in 1 .. Len(stack[v]) : where'[stack[v][i]] = where[stack[v][i]]
        BY <1>6, <1>8
      <3> QED BY <1>1, <3>1, <3>2 DEF StackOf
    <2>2. CASE v = w
      <3>1. StackOf(w) /\ old = stack[w]
        BY DEF WorkersInv, Stacks, old
      <3>2. \A i \in 1 .. Len(new) : where'[new[i]] = "taken"
        <4>1. ASSUME NEW i \in 1 .. Len(new) PROVE where'[new[i]] = "taken"
          <5>1. CASE i = Len(old) + 1
            BY <1>4, <1>6, <5>1
          <5>2. CASE i \in 1 .. Len(old)
            BY <1>4, <1>6, <1>8, <3>1, <5>2 DEF StackOf
          <5> QED BY <1>4, <5>1, <5>2
        <4> QED BY <4>1
      <3>3. \A i \in 1 .. Len(new) - 1 : awaits'[new[i]] # 0
        <4>1. ASSUME NEW i \in 1 .. Len(new) - 1 PROVE awaits[new[i]] # 0
          <5>1. i \in 1 .. Len(old) /\ new[i] = old[i]
            BY <1>4
          <5>2. CASE i = Len(old)
            <6>1. old # <<>>
              BY <1>4, <5>1, EmptySeq
            <6> QED BY <1>1, <3>1, <5>1, <5>2, <6>1 DEF StackOf
          <5>3. CASE i # Len(old)
            <6>1. i \in 1 .. Len(old) - 1
              BY <1>4, <5>1, <5>3
            <6> QED BY <3>1, <5>1, <6>1 DEF StackOf
          <5> QED BY <5>2, <5>3
        <4> QED BY <1>1, <4>1
      <3>4. new # <<>>
        BY <1>4, EmptySeq
      <3> QED BY <1>5, <1>7, <2>2, <3>2, <3>3, <3>4 DEF StackOf
    <2> QED BY <2>1, <2>2
  <1>14. \A u, v \in WorkerThreads : \A i \in 1 .. Len(stack'[u]), k \in 1 .. Len(stack'[v]) :
           stack'[u][i] = stack'[v][k] => u = v /\ i = k
    <2>1. ASSUME NEW u \in WorkerThreads, NEW i \in 1 .. Len(stack'[u])
          PROVE  \/ i \in 1 .. Len(stack[u]) /\ stack'[u][i] = stack[u][i]
                 \/ u = w /\ i = Len(old) + 1 /\ stack'[u][i] = j
      <3>1. CASE u # w
        BY <1>5, <3>1
      <3>2. CASE u = w
        <4>1. i \in 1 .. Len(old) + 1 /\ stack'[u][i] = new[i] /\ stack[u] = old
          BY <1>4, <1>5, <3>2 DEF old
        <4> QED BY <1>4, <3>2, <4>1
      <3> QED BY <3>1, <3>2
    <2>2. ASSUME NEW u \in WorkerThreads, NEW v \in WorkerThreads,
                 NEW i \in 1 .. Len(stack'[u]), NEW k \in 1 .. Len(stack'[v]), stack'[u][i] = stack'[v][k]
          PROVE  u = v /\ i = k
      <3>1. CASE i \in 1 .. Len(stack[u]) /\ stack'[u][i] = stack[u][i]
        <4>1. stack'[u][i] # j
          BY <1>8, <3>1
        <4>2. k \in 1 .. Len(stack[v]) /\ stack'[v][k] = stack[v][k]
          BY <2>1, <2>2, <4>1
        <4>3. stack[u][i] = stack[v][k]
          BY <2>2, <3>1, <4>2
        <4> QED BY <3>1, <4>2, <4>3 DEF WorkersInv, Stacks
      <3>2. CASE u = w /\ i = Len(old) + 1 /\ stack'[u][i] = j
        <4>1. v = w /\ k = Len(old) + 1
          BY <1>8, <2>1, <2>2, <3>2
        <4> QED BY <3>2, <4>1
      <3> QED BY <2>1, <3>1, <3>2
    <2> QED BY <2>2
  <1>15. Stacks'
    BY <1>5, <1>13, <1>14 DEF Stacks
  <1> QED BY <1>9, <1>10, <1>12, <1>15 DEF WorkersInv

LEMMA JobReturnsInv ==
  ASSUME WorkersInv, NEW w \in WorkerThreads, JobReturns(w)
  PROVE  WorkersInv'
  <1> DEFINE done == Last(stack[w])
             old == stack[w]
             new == Front(old)
  <1>1. /\ pc[w] = "run" /\ where' = [where EXCEPT ![done] = "done"]
        /\ parent' = [j \in Jobs |-> IF done \in {j, parent[j]} THEN 0 ELSE parent[j]]
        /\ stack' = [stack EXCEPT ![w] = Front(@)]
        /\ pc' = [pc EXCEPT ![w] = IF Len(old) = 1 THEN "epoch" ELSE "waiting"]
        /\ awaits' = awaits /\ shutdown' = shutdown /\ seen' = seen /\ next' = next
        /\ isOwnGroup' = isOwnGroup /\ epoch' = epoch /\ numActiveThreads' = numActiveThreads
        /\ parked' = parked
    BY DEF JobReturns, At, Goto, waitGroup
  <1>2. stack[w] # <<>>
    BY <1>1 DEF WorkersInv, Stacks, StackOf
  <1>3. /\ old \in Seq(Jobs) /\ Len(old) \in Nat \ {0} /\ Len(old) \in 1 .. Len(old)
        /\ done = old[Len(old)] /\ done \in Jobs /\ where[done] = "taken"
    BY <1>2, TopOf
  <1>4. new \in Seq(Jobs) /\ Len(new) = Len(old) - 1 /\ \A i \in 1 .. Len(old) - 1 : new[i] = old[i]
    <2>1. new = SubSeq(old, 1, Len(old) - 1)
      BY DEF Front
    <2> HIDE DEF old, new
    <2>2. PICK n \in Nat : n = Len(old) - 1
      BY <1>3
    <2>3. 1 \in Nat /\ 1 <= 1 /\ n <= Len(old) /\ 1 <= n + 1 /\ n - 1 + 1 = n
      BY <1>3, <2>2
    <2>4. /\ SubSeq(old, 1, n) \in Seq(Jobs) /\ Len(SubSeq(old, 1, n)) = n - 1 + 1
          /\ \A i \in 1 .. n - 1 + 1 : SubSeq(old, 1, n)[i] = old[1 + i - 1]
      BY <1>3, <2>3, PartOfSeq
    <2>5. \A i \in 1 .. n : 1 + i - 1 = i
      OBVIOUS
    <2> QED BY <2>1, <2>2, <2>3, <2>4, <2>5
  <1>5. /\ stack' \in [WorkerThreads -> Seq(Jobs)] /\ stack'[w] = new
        /\ \A v \in WorkerThreads \ {w} : stack'[v] = stack[v]
    BY <1>1, <1>4 DEF WorkersInv, Stacks
  <1>6. /\ where' \in [Jobs -> Queues \cup {"unmade", "taken", "done"}] /\ where'[done] = "done"
        /\ \A k \in Jobs \ {done} : where'[k] = where[k]
    BY <1>1, <1>3 DEF WorkersInv, JobTypes
  <1>7. PICK label \in {"epoch", "waiting"} :
          /\ pc' = [pc EXCEPT ![w] = label] /\ pc'[w] = label /\ (label = "epoch" <=> Len(old) = 1)
          /\ \A v \in WorkerThreads \ {w} : pc'[v] = pc[v]
    BY <1>1, Roles DEF WorkersInv, Places
  <1>8. old = stack[w]
    OBVIOUS
  <1>9. JobTypes'
    <2>1. parent' \in [Jobs -> 0 .. MaxJobs]
      BY <1>1, BoundAssumption DEF WorkersInv, JobTypes
    <2> QED BY <1>1, <1>6, <2>1 DEF WorkersInv, JobTypes
  <1> HIDE DEF old, new, done
  <1>10. Rounds'
    BY <1>1 DEF WorkersInv, Rounds
  <1>11. Made' = Made
    BY <1>3, <1>6 DEF Made
  <1>12. Places' /\ Asleep' /\ Active' /\ Bumps'
    BY <1>1, <1>7, <1>11, Roles, MoveOnly DEF WorkerLabels, Inside
  <1>13. \A v \in WorkerThreads : \A i \in 1 .. Len(stack'[v]) :
           /\ i \in 1 .. Len(stack[v]) /\ stack'[v][i] = stack[v][i]
           /\ v = w => i # Len(old)
    <2>1. ASSUME NEW v \in WorkerThreads, NEW i \in 1 .. Len(stack'[v])
          PROVE  /\ i \in 1 .. Len(stack[v]) /\ stack'[v][i] = stack[v][i]
                 /\ v = w => i # Len(old)
      <3>1. CASE v # w
        BY <1>5, <3>1
      <3>2. CASE v = w
        <4>1. i \in 1 .. Len(old) - 1 /\ stack'[v][i] = new[i]
          BY <1>4, <1>5, <3>2
        <4>2. i \in 1 .. Len(old) /\ i # Len(old)
          BY <1>3, <4>1
        <4> QED BY <1>4, <1>8, <3>2, <4>1, <4>2
      <3> QED BY <3>1, <3>2
    <2> QED BY <2>1
  <1>14. \A v \in WorkerThreads : \A i \in 1 .. Len(stack'[v]) : stack'[v][i] \in Jobs \ {done}
    <2>1. ASSUME NEW v \in WorkerThreads, NEW i \in 1 .. Len(stack'[v])
          PROVE  stack'[v][i] \in Jobs \ {done}
      <3>1. stack[v] \in Seq(Jobs) /\ i \in 1 .. Len(stack[v]) /\ stack'[v][i] = stack[v][i]
        BY <1>13 DEF WorkersInv, Stacks
      <3>2. stack[v][i] \in Jobs
        BY <3>1
      <3>3. stack[v][i] = stack[w][Len(old)] => v = w /\ i = Len(old)
        BY <1>3, <1>8, <3>1 DEF WorkersInv, Stacks
      <3> QED BY <1>3, <1>8, <1>13, <3>1, <3>2, <3>3
    <2> QED BY <2>1
  <1>15. ASSUME NEW v \in WorkerThreads PROVE StackOf(v)'
    <2>1. StackOf(v)
      BY DEF WorkersInv, Stacks
    <2>2. \A i \in 1 .. Len(stack'[v]) : where'[stack'[v][i]] = "taken"
      BY <1>6, <1>13, <1>14, <2>1 DEF StackOf
    <2>3. CASE v # w
      BY <1>1, <1>5, <1>7, <2>1, <2>2, <2>3 DEF StackOf
    <2>4. CASE v = w
      <3>1. \A i \in 1 .. Len(new) : awaits'[new[i]] # 0
        BY <1>1, <1>4, <1>8, <2>1, <2>4 DEF StackOf
      <3>2. new = <<>> <=> Len(old) = 1
        BY <1>3, <1>4, EmptySeq
      <3>3. \A i \in 1 .. Len(new) - 1 : i \in 1 .. Len(new)
        BY <1>3, <1>4
      <3>4. new # <<>> => Len(new) \in 1 .. Len(new)
        BY <1>4, FirstAndLast
      <3> QED BY <1>5, <1>7, <2>2, <2>4, <3>1, <3>2, <3>3, <3>4 DEF StackOf
    <2> QED BY <2>3, <2>4
  <1>16. \A u, v \in WorkerThreads : \A i \in 1 .. Len(stack'[u]), k \in 1 .. Len(stack'[v]) :
           stack'[u][i] = stack'[v][k] => u = v /\ i = k
    <2>1. \A u, v \in WorkerThreads : \A i \in 1 .. Len(stack[u]), k \in 1 .. Len(stack[v]) :
            stack[u][i] = stack[v][k] => u = v /\ i = k
      BY DEF WorkersInv, Stacks
    <2>2. ASSUME NEW u \in WorkerThreads, NEW v \in WorkerThreads,
                 NEW i \in 1 .. Len(stack'[u]), NEW k \in 1 .. Len(stack'[v]),
                 stack'[u][i] = stack'[v][k]
          PROVE  u = v /\ i = k
      <3>1. /\ i \in 1 .. Len(stack[u]) /\ stack'[u][i] = stack[u][i]
            /\ k \in 1 .. Len(stack[v]) /\ stack'[v][k] = stack[v][k]
        BY <1>13
      <3>2. stack[u][i] = stack[v][k]
        BY <2>2, <3>1
      <3> QED BY <2>1, <3>1, <3>2
    <2> QED BY <2>2
  <1>17. Stacks'
    BY <1>5, <1>15, <1>16 DEF Stacks
  <1> QED BY <1>9, <1>10, <1>12, <1>17 DEF WorkersInv

LEMMA WaitForJobInv ==
  ASSUME WorkersInv, NEW w \in WorkerThreads, WaitForJob(w)
  PROVE  WorkersInv'
  <1> DEFINE j == Last(stack[w])
  <1>1. /\ pc[w] = "run" /\ pc' = [pc EXCEPT ![w] = "waiting"]
        /\ where' = where /\ parent' = parent /\ stack' = stack /\ UNCHANGED waitGroup
        /\ seen' = seen /\ next' = next /\ isOwnGroup' = isOwnGroup /\ epoch' = epoch
        /\ shutdown' = shutdown /\ numActiveThreads' = numActiveThreads /\ parked' = parked
    BY DEF WaitForJob, At, Goto, waitGroup
  <1>2. PICK c \in Jobs : awaits' = [awaits EXCEPT ![j] = c]
    BY DEF WaitForJob
  <1>3. stack[w] # <<>> /\ StackOf(w)
    BY <1>1 DEF WorkersInv, Stacks, StackOf
  <1>4. j = stack[w][Len(stack[w])] /\ j \in Jobs /\ Len(stack[w]) \in Nat
    BY <1>3, TopOf
  <1>5. c # 0 /\ c \in 0 .. MaxJobs
    BY BoundAssumption DEF Jobs
  <1>6. /\ awaits' \in [Jobs -> 0 .. MaxJobs] /\ awaits'[j] = c
        /\ \A k \in Jobs : awaits[k] # 0 => awaits'[k] # 0
    BY <1>2, <1>4, <1>5 DEF WorkersInv, JobTypes
  <1> HIDE DEF j
  <1>7. pc'[w] = "waiting" /\ \A v \in WorkerThreads \ {w} : pc'[v] = pc[v]
    BY <1>1, Roles DEF WorkersInv, Places
  <1>8. JobTypes'
    BY <1>1, <1>6 DEF WorkersInv, JobTypes
  <1>9. Rounds'
    BY <1>1 DEF WorkersInv, Rounds
  <1>10. Made' = Made
    BY <1>1 DEF Made
  <1>11. Places' /\ Asleep' /\ Active' /\ Bumps'
    BY <1>1, <1>10, Roles, MoveOnly DEF WorkerLabels, Inside
  <1>12. ASSUME NEW v \in WorkerThreads PROVE StackOf(v)'
    <2>1. StackOf(v) /\ stack[v] \in Seq(Jobs) /\ Len(stack[v]) \in Nat
      BY DEF WorkersInv, Stacks
    <2>2. \A i \in 1 .. Len(stack[v]) : stack[v][i] \in Jobs /\ (awaits[stack[v][i]] # 0 => awaits'[stack[v][i]] # 0)
      BY <1>6, <2>1
    <2>3. \A i \in 1 .. Len(stack[v]) - 1 : awaits'[stack[v][i]] # 0
      BY <2>1, <2>2 DEF StackOf
    <2>4. stack[v] # <<>> => Len(stack[v]) \in 1 .. Len(stack[v])
      BY <2>1, FirstAndLast
    <2>5. CASE v = w
      BY <1>1, <1>3, <1>4, <1>5, <1>6, <1>7, <2>1, <2>3, <2>5 DEF StackOf
    <2>6. CASE v # w
      BY <1>1, <1>7, <2>1, <2>2, <2>3, <2>4, <2>6 DEF StackOf
    <2> QED BY <2>5, <2>6
  <1>13. Stacks'
    BY <1>1, <1>12 DEF WorkersInv, Stacks
  <1> QED BY <1>8, <1>9, <1>11, <1>13 DEF WorkersInv

LEMMA IsJobFinishedInv ==
  ASSUME WorkersInv, NEW w \in WorkerThreads, IsJobFinished(w)
  PROVE  WorkersInv'
  <1> DEFINE j == Last(stack[w])
  <1>1. /\ pc[w] = "waiting" /\ pc' = [pc EXCEPT ![w] = "run"] /\ awaits' = [awaits EXCEPT ![j] = 0]
        /\ where' = where /\ parent' = parent /\ stack' = stack /\ UNCHANGED waitGroup
        /\ seen' = seen /\ next' = next /\ isOwnGroup' = isOwnGroup /\ epoch' = epoch
        /\ shutdown' = shutdown /\ numActiveThreads' = numActiveThreads /\ parked' = parked
    BY DEF IsJobFinished, At, Goto, waitGroup
  <1>2. stack[w] # <<>> /\ StackOf(w)
    BY <1>1 DEF WorkersInv, Stacks, StackOf
  <1>3. j = stack[w][Len(stack[w])] /\ j \in Jobs /\ Len(stack[w]) \in Nat /\ Len(stack[w]) \in 1 .. Len(stack[w])
    BY <1>2, TopOf
  <1>4. /\ awaits' \in [Jobs -> 0 .. MaxJobs]
        /\ \A k \in Jobs \ {j} : awaits'[k] = awaits[k]
    BY <1>1, <1>3, BoundAssumption DEF WorkersInv, JobTypes
  <1> HIDE DEF j
  <1>5. pc'[w] = "run" /\ \A v \in WorkerThreads \ {w} : pc'[v] = pc[v]
    BY <1>1, Roles DEF WorkersInv, Places
  <1>6. JobTypes'
    BY <1>1, <1>4 DEF WorkersInv, JobTypes
  <1>7. Rounds'
    BY <1>1 DEF WorkersInv, Rounds
  <1>8. Made' = Made
    BY <1>1 DEF Made
  <1>9. Places' /\ Asleep' /\ Active' /\ Bumps'
    BY <1>1, <1>8, Roles, MoveOnly DEF WorkerLabels, Inside
  <1>10. ASSUME NEW v \in WorkerThreads, NEW i \in 1 .. Len(stack[v]), v # w \/ i # Len(stack[w])
         PROVE  awaits'[stack[v][i]] = awaits[stack[v][i]]
    <2>1. stack[v] \in Seq(Jobs)
      BY DEF WorkersInv, Stacks
    <2>2. stack[v][i] \in Jobs
      BY <2>1
    <2>3. stack[v][i] # stack[w][Len(stack[w])]
      BY <1>3, <1>10 DEF WorkersInv, Stacks
    <2> QED BY <1>3, <1>4, <2>2, <2>3
  <1>11. ASSUME NEW v \in WorkerThreads PROVE StackOf(v)'
    <2>1. StackOf(v) /\ stack[v] \in Seq(Jobs) /\ Len(stack[v]) \in Nat
      BY DEF WorkersInv, Stacks
    <2>2. \A i \in 1 .. Len(stack[v]) - 1 : i \in 1 .. Len(stack[v]) /\ i # Len(stack[v])
      BY <2>1
    <2>3. \A i \in 1 .. Len(stack[v]) - 1 : awaits'[stack[v][i]] = awaits[stack[v][i]]
      BY <1>10, <2>2
    <2>4. stack[v] # <<>> => Len(stack[v]) \in 1 .. Len(stack[v])
      BY <2>1, FirstAndLast
    <2>5. CASE v = w
      BY <1>1, <1>2, <1>5, <2>1, <2>3, <2>5 DEF StackOf
    <2>6. CASE v # w
      BY <1>1, <1>5, <1>10, <2>1, <2>3, <2>4, <2>6 DEF StackOf
    <2> QED BY <2>5, <2>6
  <1>12. Stacks'
    BY <1>1, <1>11 DEF WorkersInv, Stacks
  <1> QED BY <1>6, <1>7, <1>9, <1>12 DEF WorkersInv

\* A worker goes into wait or comes out of it, or goes to sleep inside.
LEMMA WorkerMoves ==
  ASSUME WorkersInv, NEW w \in WorkerThreads, NEW label \in WorkerLabels \ {"bump"},
         pc[w] \in {"wait", "park", "woken"}, pc' = [pc EXCEPT ![w] = label],
         label \in {"epoch", "park", "parked", "woken"},
         UNCHANGED <<jobs, isOwnGroup>>, epoch' = epoch, shutdown' = shutdown, seen' = seen, next' = next
  PROVE  /\ JobTypes' /\ Places' /\ Rounds' /\ Stacks' /\ Bumps'
         /\ pc'[w] = label /\ \A v \in WorkerThreads \ {w} : pc'[v] = pc[v]
  <1>1. /\ pc'[w] = label /\ \A t \in Threads \ {w} : pc'[t] = pc[t]
        /\ pc' \in [Threads -> WorkerLabels \cup ClientLabels]
    BY Roles DEF WorkersInv, Places
  <1>2. \A v \in WorkerThreads \ {w} : pc'[v] = pc[v]
    BY <1>1, Roles
  <1>3. StackOf(w)'
    <2>1. StackOf(w)
      BY DEF WorkersInv, Stacks
    <2> QED BY <1>1, <2>1 DEF StackOf, jobs
  <1>4. JobTypes' /\ Stacks' /\ Made' = Made
    BY <1>2, <1>3, JobsKept
  <1>5. Rounds'
    BY DEF WorkersInv, Rounds
  <1>6. \A c \in Clients : pc'[c] = pc[c]
    BY <1>1, Roles DEF Threads
  <1>7. Places'
    BY <1>1, <1>2, <1>6, Roles DEF WorkersInv, Places
  <1>8. Bumps'
    <2>1. Bumping' = Bumping
      BY <1>1, Roles DEF Bumping
    <2> QED BY <1>4, <1>6, <2>1, Roles DEF WorkersInv, Bumps
  <1> QED BY <1>1, <1>2, <1>4, <1>5, <1>7, <1>8

LEMMA WaitInv ==
  ASSUME WorkersInv, NEW w \in WorkerThreads, Wait(w)
  PROVE  WorkersInv'
  <1>1. /\ pc[w] = "wait" /\ pc' = [pc EXCEPT ![w] = "park"] /\ numActiveThreads' = numActiveThreads - 1
        /\ parked' = parked /\ UNCHANGED <<jobs, isOwnGroup>>
        /\ epoch' = epoch /\ shutdown' = shutdown /\ seen' = seen /\ next' = next
    BY DEF Wait, At, Goto
  <1>2. /\ JobTypes' /\ Places' /\ Rounds' /\ Stacks' /\ Bumps'
        /\ pc'[w] = "park" /\ \A v \in WorkerThreads \ {w} : pc'[v] = pc[v]
    BY <1>1, WorkerMoves DEF WorkerLabels
  <1>3. Asleep'
    BY <1>1, <1>2 DEF WorkersInv, Asleep
  <1>4. Counted' = Counted \ {w} /\ w \in Counted
    BY <1>1, <1>2 DEF Counted
  <1>5. Cardinality(Counted') = Cardinality(Counted) - 1
    BY <1>4, FewWorkers, FS_RemoveElement DEF Counted
  <1>6. Active'
    BY <1>1, <1>5 DEF WorkersInv, Active
  <1> QED BY <1>2, <1>3, <1>6 DEF WorkersInv

LEMMA WokenInv ==
  ASSUME WorkersInv, NEW w \in WorkerThreads, Woken(w)
  PROVE  WorkersInv'
  <1>1. /\ pc[w] = "woken" /\ pc' = [pc EXCEPT ![w] = "epoch"] /\ numActiveThreads' = numActiveThreads + 1
        /\ parked' = parked /\ UNCHANGED <<jobs, isOwnGroup>>
        /\ epoch' = epoch /\ shutdown' = shutdown /\ seen' = seen /\ next' = next
    BY DEF Woken, At, Goto
  <1>2. /\ JobTypes' /\ Places' /\ Rounds' /\ Stacks' /\ Bumps'
        /\ pc'[w] = "epoch" /\ \A v \in WorkerThreads \ {w} : pc'[v] = pc[v]
    BY <1>1, WorkerMoves DEF WorkerLabels
  <1>3. Asleep'
    BY <1>1, <1>2 DEF WorkersInv, Asleep
  <1>4. Counted' = Counted \cup {w} /\ w \notin Counted
    BY <1>1, <1>2 DEF Counted
  <1>5. Cardinality(Counted') = Cardinality(Counted) + 1
    BY <1>4, FewWorkers, FS_AddElement DEF Counted
  <1>6. Active'
    BY <1>1, <1>5 DEF WorkersInv, Active
  <1> QED BY <1>2, <1>3, <1>6 DEF WorkersInv

LEMMA ParkInv ==
  ASSUME WorkersInv, NEW w \in WorkerThreads, Park(w)
  PROVE  WorkersInv'
  <1>1. /\ pc[w] = "park" /\ numActiveThreads' = numActiveThreads
        /\ UNCHANGED <<jobs, isOwnGroup>>
        /\ epoch' = epoch /\ shutdown' = shutdown /\ seen' = seen /\ next' = next
    BY DEF Park, At
  <1>2. PICK label \in {"parked", "woken"} :
          /\ pc' = [pc EXCEPT ![w] = label]
          /\ parked' = IF label = "parked" THEN Append(parked, w) ELSE parked
    BY DEF Park, Goto
  <1>3. /\ JobTypes' /\ Places' /\ Rounds' /\ Stacks' /\ Bumps'
        /\ pc'[w] = label /\ \A v \in WorkerThreads \ {w} : pc'[v] = pc[v]
    BY <1>1, <1>2, WorkerMoves DEF WorkerLabels
  <1>4. Counted' = Counted
    BY <1>1, <1>2, <1>3 DEF Counted
  <1>5. Active'
    BY <1>1, <1>4 DEF WorkersInv, Active
  <1>6. CASE label = "woken"
    <2>1. Asleep'
      BY <1>1, <1>2, <1>3, <1>6 DEF WorkersInv, Asleep
    <2> QED BY <1>3, <1>5, <2>1 DEF WorkersInv
  <1>7. CASE label = "parked"
    <2>1. /\ parked \in Seq(WorkerThreads) /\ Len(parked) \in Nat
          /\ \A i \in 1 .. Len(parked) : parked[i] # w
      BY <1>1 DEF WorkersInv, Asleep
    <2>2. /\ parked' \in Seq(WorkerThreads) /\ Len(parked') = Len(parked) + 1
          /\ (\A i \in 1 .. Len(parked) : parked'[i] = parked[i]) /\ parked'[Len(parked) + 1] = w
      BY <1>2, <1>7, <2>1, AppendProperties
    <2>3. \A i \in 1 .. Len(parked') : i \in 1 .. Len(parked) \/ i = Len(parked) + 1
      BY <2>1, <2>2
    <2>4. \A i \in 1 .. Len(parked) : i \in 1 .. Len(parked')
      BY <2>1, <2>2
    <2>5. Len(parked) + 1 \in 1 .. Len(parked')
      BY <2>1, <2>2
    <2>6. \A i, k \in 1 .. Len(parked') : parked'[i] = parked'[k] => i = k
      BY <2>1, <2>2, <2>3 DEF WorkersInv, Asleep
    <2>7. ASSUME NEW v \in WorkerThreads
          PROVE  pc'[v] = "parked" <=> \E i \in 1 .. Len(parked') : parked'[i] = v
      <3>1. CASE v = w
        BY <1>3, <1>7, <2>2, <2>5, <3>1
      <3>2. CASE v # w
        <4>1. pc[v] = "parked" <=> \E i \in 1 .. Len(parked) : parked[i] = v
          BY DEF WorkersInv, Asleep
        <4> QED BY <1>3, <2>2, <2>3, <2>4, <3>2, <4>1
      <3> QED BY <3>1, <3>2
    <2>8. Asleep'
      BY <2>2, <2>6, <2>7 DEF Asleep
    <2> QED BY <1>3, <1>5, <2>8 DEF WorkersInv
  <1> QED BY <1>6, <1>7

\* Main goes on in the destructor.
LEMMA MainMoves ==
  ASSUME WorkersInv, NEW label \in Destroying, pc[Main] \in {"idle"} \cup Destroying,
         pc[Main] = "idle" => ~shutdown, shutdown' = TRUE,
         pc'[Main] = label, \A c \in Clients \ {Main} : pc'[c] = pc[c],
         pc' \in [Threads -> WorkerLabels \cup ClientLabels],
         \A w \in WorkerThreads : pc'[w] = pc[w] \/ (pc[w] = "parked" /\ pc'[w] = "woken"),
         UNCHANGED <<jobs, isOwnGroup>>, numActiveThreads' = numActiveThreads,
         seen' = seen, next' = next, epoch' \in {epoch, epoch + 1}
  PROVE  JobTypes' /\ Places' /\ Rounds' /\ Stacks' /\ Active' /\ Made' = Made /\ Bumping' = Bumping
  <1>1. where' = where /\ parent' = parent /\ stack' = stack /\ awaits' = awaits /\ isOwnGroup' = isOwnGroup
    BY DEF jobs
  <1>2. JobTypes' /\ Made' = Made
    BY <1>1 DEF WorkersInv, JobTypes, Made
  <1>3. Places'
    <2>1. \A w \in WorkerThreads : pc'[w] \in WorkerLabels
      BY DEF WorkersInv, Places, WorkerLabels
    <2>2. label \in ClientLabels
      BY DEF Destroying, ClientLabels
    <2> QED BY <2>1, <2>2, Roles DEF WorkersInv, Places
  <1>4. Rounds'
    BY DEF WorkersInv, Rounds
  <1>5. Stacks'
    <2>1. ASSUME NEW w \in WorkerThreads PROVE StackOf(w)'
      <3>1. StackOf(w)
        BY DEF WorkersInv, Stacks
      <3> QED BY <1>1, <3>1 DEF StackOf
    <2> QED BY <1>1, <2>1 DEF WorkersInv, Stacks
  <1>6. Active'
    <2>1. \A w \in WorkerThreads : pc'[w] \in Inside <=> pc[w] \in Inside
      BY DEF Inside
    <2> QED BY <2>1 DEF WorkersInv, Active, Counted, Inside
  <1>7. Bumping' = Bumping
    <2>1. pc[Main] # "bump" /\ pc'[Main] # "bump"
      BY DEF Destroying
    <2>2. \A t \in Threads : pc'[t] = "bump" <=> pc[t] = "bump"
      BY <2>1, Roles
    <2> QED BY <2>2 DEF Bumping
  <1> QED BY <1>2, <1>3, <1>4, <1>5, <1>6, <1>7

\* Nobody is woken, and the epoch moves only in wakeAll.
LEMMA MainMovesInv ==
  ASSUME WorkersInv, NEW label \in Destroying, pc[Main] \in {"idle"} \cup Destroying,
         pc[Main] = "idle" => ~shutdown, shutdown' = TRUE, pc' = [pc EXCEPT ![Main] = label],
         UNCHANGED <<jobs, isOwnGroup>>, numActiveThreads' = numActiveThreads, parked' = parked,
         seen' = seen, next' = next,
         \/ epoch' = epoch /\ label # "wakeAll" /\ pc[Main] \notin {"idle", "wakeAll"}
         \/ epoch' = epoch /\ label = "wakeAll" /\ pc[Main] = "idle"
         \/ epoch' = epoch + 1 /\ label = "unparkAll" /\ pc[Main] = "wakeAll"
  PROVE  WorkersInv'
  <1>1. /\ pc'[Main] = label /\ \A c \in Clients \ {Main} : pc'[c] = pc[c]
        /\ \A w \in WorkerThreads : pc'[w] = pc[w]
        /\ pc' \in [Threads -> WorkerLabels \cup ClientLabels]
    BY Roles DEF WorkersInv, Places, Threads, Destroying, ClientLabels
  <1>2. JobTypes' /\ Places' /\ Rounds' /\ Stacks' /\ Active' /\ Made' = Made /\ Bumping' = Bumping
    BY <1>1, MainMoves
  <1>3. Asleep'
    BY <1>1 DEF WorkersInv, Asleep
  <1>4. Bumps'
    <2>1. Cardinality(Made) \in Nat /\ epoch \in Nat /\ Cardinality(Bumping) \in Nat
      BY FewJobs, FS_CardinalityType DEF WorkersInv, Rounds, Made, Bumps
    <2>2. shutdown <=> pc[Main] \in Destroying
      BY DEF WorkersInv, Places
    <2> QED BY <1>1, <1>2, <2>1, <2>2 DEF WorkersInv, Bumps, Destroying
  <1> QED BY <1>2, <1>3, <1>4 DEF WorkersInv

LEMMA DestroyInv ==
  ASSUME WorkersInv, Destroy
  PROVE  WorkersInv'
  BY MainMovesInv DEF Destroy, At, Goto, waitGroup, Destroying

LEMMA WakeAllInv ==
  ASSUME WorkersInv, WakeAll
  PROVE  WorkersInv'
  <1>1. shutdown
    BY DEF WorkersInv, Places, WakeAll, At, Destroying
  <1> QED BY <1>1, MainMovesInv DEF WakeAll, At, Goto, Destroying

LEMMA JoinInv ==
  ASSUME WorkersInv, Join
  PROVE  WorkersInv'
  <1>1. shutdown
    BY DEF WorkersInv, Places, Join, At, Destroying
  <1> QED BY <1>1, MainMovesInv DEF Join, At, Goto, waitGroup, Destroying

LEMMA UnparkAllInv ==
  ASSUME WorkersInv, UnparkAll
  PROVE  WorkersInv'
  <1>1. /\ pc[Main] = "unparkAll" /\ parked' = <<>>
        /\ pc' = [t \in Threads |-> IF t = Main THEN "join" ELSE IF pc[t] = "parked" THEN "woken" ELSE pc[t]]
        /\ UNCHANGED <<jobs, isOwnGroup>> /\ epoch' = epoch /\ numActiveThreads' = numActiveThreads
        /\ shutdown' = shutdown /\ seen' = seen /\ next' = next
    BY DEF UnparkAll, At
  <1>2. \A c \in Clients : pc[c] # "parked"
    BY DEF WorkersInv, Places, ClientLabels
  <1>3. /\ pc'[Main] = "join" /\ \A c \in Clients \ {Main} : pc'[c] = pc[c]
    BY <1>1, <1>2, Roles DEF Threads
  <1>4. \A w \in WorkerThreads : pc'[w] = IF pc[w] = "parked" THEN "woken" ELSE pc[w]
    BY <1>1, Roles
  <1>5. pc' \in [Threads -> WorkerLabels \cup ClientLabels]
    BY <1>1 DEF WorkersInv, Places, WorkerLabels, ClientLabels
  <1>6. shutdown
    BY <1>1 DEF WorkersInv, Places, Destroying
  <1>7. JobTypes' /\ Places' /\ Rounds' /\ Stacks' /\ Active' /\ Made' = Made /\ Bumping' = Bumping
    BY <1>1, <1>3, <1>4, <1>5, <1>6, MainMoves DEF Destroying
  <1>8. Asleep'
    <2>1. parked' \in Seq(WorkerThreads) /\ Len(parked') = 0
      BY <1>1, EmptySeq
    <2>2. \A w \in WorkerThreads : pc'[w] # "parked"
      BY <1>4
    <2> QED BY <2>1, <2>2 DEF Asleep
  <1>9. Bumps'
    BY <1>1, <1>3, <1>6, <1>7 DEF WorkersInv, Bumps
  <1> QED BY <1>7, <1>8, <1>9 DEF WorkersInv

LEMMA WorkersStand ==
  ASSUME WorkersInv, UNCHANGED vars
  PROVE  WorkersInv'
  <1>1. /\ where' = where /\ parent' = parent /\ stack' = stack /\ awaits' = awaits
        /\ epoch' = epoch /\ numActiveThreads' = numActiveThreads /\ parked' = parked
        /\ shutdown' = shutdown /\ pc' = pc /\ seen' = seen /\ next' = next /\ isOwnGroup' = isOwnGroup
    BY DEF vars, jobs, waitGroup
  <1>2. JobTypes' /\ Places' /\ Rounds' /\ Asleep'
    BY <1>1 DEF WorkersInv, JobTypes, Places, Rounds, Asleep
  <1>3. Stacks'
    BY <1>1 DEF WorkersInv, Stacks, StackOf
  <1>4. Active' /\ Bumps'
    BY <1>1 DEF WorkersInv, Active, Bumps, Counted, Bumping, Made
  <1> QED BY <1>2, <1>3, <1>4 DEF WorkersInv

LEMMA WorkersNext ==
  ASSUME WorkersInv, [Next]_vars
  PROVE  WorkersInv'
  <1>1. CASE UNCHANGED vars
    BY <1>1, WorkersStand
  <1>2. ASSUME NEW t \in Threads, Schedule(t) \/ CallStep(t) PROVE WorkersInv'
    BY <1>2, ScheduleInv, BumpInv, CheckInv, UnparkOneInv DEF CallStep
  <1>3. ASSUME NEW w \in WorkerThreads, WorkerStep(w) \/ WaitForJob(w) PROVE WorkersInv'
    BY <1>3, LoadEpochInv, TakeInv, FindNothingInv, JobReturnsInv, QuietInv, WaitInv, ParkInv,
       WokenInv, IsJobFinishedInv, TryRunOneJobInv, WaitForJobInv DEF WorkerStep
  <1>4. CASE Destroy \/ MainStep \/ Done
    BY <1>4, DestroyInv, WakeAllInv, UnparkAllInv, JoinInv, WorkersStand DEF MainStep, Done
  <1> QED BY <1>1, <1>2, <1>3, <1>4 DEF Next

LEMMA WorkersStart ==
  ASSUME Init
  PROVE  WorkersInv
  <1>1. JobTypes
    BY BoundAssumption DEF Init, JobTypes
  <1>2. \A t \in Threads : pc[t] = IF t \in WorkerThreads THEN "epoch" ELSE "idle"
    BY DEF Init
  <1>3. Places
    <2>1. \A w \in WorkerThreads : pc[w] = "epoch"
      BY <1>2, Roles
    <2>2. \A c \in Clients : pc[c] = "idle"
      BY <1>2, Roles DEF Threads
    <2>3. pc \in [Threads -> WorkerLabels \cup ClientLabels]
      BY DEF Init, WorkerLabels, ClientLabels
    <2>4. shutdown = FALSE
      BY DEF Init
    <2> QED BY <2>1, <2>2, <2>3, <2>4, Roles DEF Places, WorkerLabels, ClientLabels, Destroying
  <1>4. Rounds
    <2>1. 1 \in 1 .. 2 + Cardinality(WorkerThreads)
      BY FewWorkers
    <2> QED BY <2>1 DEF Init, Rounds
  <1>5. Asleep
    <2>1. parked \in Seq(WorkerThreads) /\ Len(parked) = 0
      BY EmptySeq DEF Init
    <2> QED BY <1>2, <2>1, Roles DEF Asleep
  <1>6. Stacks
    <2>1. /\ stack \in [WorkerThreads -> Seq(Jobs)]
          /\ \A w \in WorkerThreads : stack[w] = <<>> /\ Len(stack[w]) = 0
      BY EmptySeq DEF Init
    <2> QED BY <1>2, <2>1, Roles DEF Stacks, StackOf
  <1>7. Active
    <2>1. Counted = WorkerThreads
      BY <1>2, Roles DEF Counted
    <2> QED BY <2>1 DEF Init, Active
  <1>8. Bumps
    <2>1. Bumping = {}
      BY <1>2 DEF Bumping
    <2>2. Cardinality(Made) \in Nat
      BY FewJobs DEF Made
    <2> QED BY <2>1, <2>2, FS_EmptySet DEF Init, Bumps
  <1> QED BY <1>1, <1>3, <1>4, <1>5, <1>6, <1>7, <1>8 DEF WorkersInv

\* numActiveThreads_ is the number of workers outside wait whatever happens, the threads
\* parked on the WaitGroup are those that sleep, and what a worker runs below the top of
\* its stack waits; the epoch moves at most once for each job and once for the destructor.
THEOREM WorkersTyped == Spec => []TypeOK
  <1>1. ASSUME WorkersInv PROVE TypeOK
    <2>1. epoch \in 0 .. MaxJobs + 1
      <3>1. Cardinality(Bumping) \in Nat /\ Cardinality(Made) \in Nat /\ Cardinality(Made) <= MaxJobs
        BY <1>1, FewJobs, FS_CardinalityType DEF WorkersInv, Bumps, Made
      <3>2. epoch \in Nat /\ MaxJobs \in Nat
        BY <1>1, BoundAssumption DEF WorkersInv, Rounds
      <3>3. epoch + Cardinality(Bumping) <= Cardinality(Made) + 1
        BY <1>1, <3>1, <3>2 DEF WorkersInv, Bumps
      <3> QED BY <3>1, <3>2, <3>3
    <2>2. ToSet(parked) = {w \in WorkerThreads : At(w, "parked")}
      <3>1. parked \in Seq(WorkerThreads) /\ DOMAIN parked = 1 .. Len(parked)
            /\ \A i \in 1 .. Len(parked) : parked[i] \in WorkerThreads
        BY <1>1 DEF WorkersInv, Asleep
      <3> QED BY <1>1, <3>1 DEF WorkersInv, Asleep, ToSet, At
    <2>3. ASSUME NEW w \in WorkerThreads
          PROVE  /\ stack[w] \in Seq(In("taken"))
                 /\ \A i \in DOMAIN stack[w] : i < Len(stack[w]) => awaits[stack[w][i]] # 0
      <3>1. stack[w] \in Seq(Jobs) /\ StackOf(w)
        BY <1>1 DEF WorkersInv, Stacks
      <3>2. Len(stack[w]) \in Nat /\ DOMAIN stack[w] = 1 .. Len(stack[w])
            /\ \A i \in 1 .. Len(stack[w]) : stack[w][i] \in Jobs
        BY <3>1
      <3>3. \A i \in 1 .. Len(stack[w]) : stack[w][i] \in In("taken")
        BY <3>1, <3>2 DEF StackOf, In
      <3>4. stack[w] \in Seq(In("taken"))
        BY <3>1, <3>3
      <3> QED BY <3>1, <3>2, <3>4 DEF StackOf
    <2>4. seen \in [WorkerThreads -> 0 .. MaxJobs + 1]
      <3>1. seen \in [WorkerThreads -> Nat] /\ (\A w \in WorkerThreads : seen[w] <= epoch)
            /\ MaxJobs \in Nat
        BY <1>1, BoundAssumption DEF WorkersInv, Rounds
      <3>2. \A w \in WorkerThreads : seen[w] \in 0 .. MaxJobs + 1
        BY <2>1, <3>1
      <3> QED BY <3>1, <3>2
    <2>5. \A w \in WorkerThreads : pc[w] \in WorkerLabels
      BY <1>1 DEF WorkersInv, Places
    <2>6. \A c \in Clients : pc[c] \in ClientLabels
      BY <1>1 DEF WorkersInv, Places
    <2>7. JobTypes /\ shutdown \in BOOLEAN /\ parked \in Seq(WorkerThreads) /\ Active
          /\ next \in [WorkerThreads -> 1 .. 2 + Cardinality(WorkerThreads)]
      BY <1>1 DEF WorkersInv, Places, Asleep, Rounds
    <2> QED BY <2>1, <2>2, <2>3, <2>4, <2>5, <2>6, <2>7 DEF TypeOK, JobTypes, Active, WorkerLabels, ClientLabels
  <1>2. WorkersInv => TypeOK
    BY <1>1
  <1>3. WorkersInv /\ [Next]_vars => WorkersInv'
    BY WorkersNext
  <1>4. Init => WorkersInv
    BY WorkersStart
  <1> QED BY <1>2, <1>3, <1>4, PTL DEF Spec

-----------------------------------------------------------------------------
(* SharedPtr                                                               *)

Whats == {"addStrong", "subStrong", "destruct", "addWeak", "subWeak", "delete", "store", "load",
          "cas"}

Accesses == [what : Whats, c : Controllers \cup {nullptr}, h : Handles \cup {nullptr}, seen : Nat]

Items(q) == {q[i] : i \in 1 .. Len(q)}

\* The accesses of an operation come in this order: release, add, store; those of lock()
\* stand alone until it knows the count.
Rank(x) ==
  CASE x.what = "destruct" -> 1
    [] x.what \in {"subStrong", "subWeak", "delete"} -> 2
    [] x.what \in {"addStrong", "addWeak"} -> 3
    [] x.what = "store" -> 4
    [] OTHER -> 5

Before(x, y) ==
  \/ Rank(x) < Rank(y) /\ Rank(y) # 5
  \/ Rank(x) = 4 /\ Rank(y) = 4 /\ x.h # y.h /\ y.c = nullptr

Ordered(q) == \A i, j \in 1 .. Len(q) : i < j => Before(q[i], q[j])

\* The accesses left of the operation of t, and those of a kind.
Due(t) == Items(todo[t])

DueOf(t, what) == {x \in Due(t) : x.what = what}

Stored(t) == {x.h : x \in DueOf(t, "store")}

Doing(t, what, c) == \E x \in DueOf(t, what) : x.c = c

\* The references of t to c: handles that stay, handles that will hold c and whose
\* reference was added, and one that is about to be released.
RefsOf(t, c, own, add, sub) ==
  {h \in own : h \notin Stored(t) /\ handle[t][h] = c}
    \cup {h \in own : DueOf(t, add) = {} /\ \E x \in DueOf(t, "store") : x.h = h /\ x.c = c}
    \cup {n \in {"sub"} : Doing(t, sub, c)}

StrongOf(t, c) == RefsOf(t, c, Strong(t), "addStrong", "subStrong")

WeakOf(t, c) == RefsOf(t, c, Weak(t), "addWeak", "subWeak")

Names == Handles \cup {"sub"}

Total(f) == {p \in Owners \X Names : p[2] \in f[p[1]]}

StrongRefs(c) == Total([t \in Owners |-> StrongOf(t, c)])

WeakRefs(c) == Total([t \in Owners |-> WeakOf(t, c)])

\* A handle of t that stays holds c.
Keeps(t, c, handles) == \E h \in handles : h \notin Stored(t) /\ handle[t][h] = c

AccessOK(t, x) ==
  /\ x \in Accesses
  /\ x.what # "store" => x.c \in Controllers
  /\ x.what = "store" => x.h \in Strong(t) \cup Weak(t)
  /\ x.what = "addStrong" =>
       Keeps(t, x.c, Strong(t)) /\ \E h \in Strong(t) : DueOf(t, "store") = {Access("store", x.c, h)}
  /\ x.what = "addWeak" =>
       /\ Keeps(t, x.c, Strong(t) \cup Weak(t))
       /\ \E h \in Weak(t) : DueOf(t, "store") = {Access("store", x.c, h)}
  /\ x.what \in {"load", "cas"} => x.h \in Strong(t) /\ Keeps(t, x.c, Weak(t))
  /\ x.what = "cas" => x.seen # 0
  /\ x.what = "destruct" =>
       strongCount[x.c] = 0 /\ life[x.c] = "alive" /\ (threadSafe => Doing(t, "subWeak", x.c))
  /\ x.what = "delete" => weakCount[x.c] = 0 /\ life[x.c] = "destroyed"

ThreadOK(t) == Ordered(todo[t]) /\ \A x \in Due(t) : AccessOK(t, x)

\* The weak reference of the owners; those of a pointer that is not thread safe keep it.
Share(c) == IF strongCount[c] > 0 \/ (~threadSafe /\ life[c] # "unborn") THEN 1 ELSE 0

ControllerOK(c) ==
  /\ strongCount[c] = Cardinality(StrongRefs(c))
  /\ weakCount[c] = Cardinality(WeakRefs(c)) + lost[c] + Share(c)
  /\ strongCount[c] > 0 => life[c] = "alive"
  /\ life[c] = "alive" /\ strongCount[c] = 0 => \E t \in Owners : Doing(t, "destruct", c)
  /\ life[c] \in {"unborn", "deleted"} => weakCount[c] = 0
  /\ life[c] = "destroyed" /\ weakCount[c] = 0 => \E t \in Owners : Doing(t, "delete", c)
  /\ \A t, u \in Owners : Doing(t, "destruct", c) /\ Doing(u, "destruct", c) => t = u
  /\ \A t, u \in Owners : Doing(t, "delete", c) /\ Doing(u, "delete", c) => t = u

PointerInv ==
  /\ PointerTypes /\ todo \in [Owners -> Seq(Accesses)]
  /\ \A t \in Owners : ThreadOK(t)
  /\ \A c \in Controllers : ControllerOK(c)

-----------------------------------------------------------------------------
LEMMA NoItems == Items(<<>>) = {} /\ Ordered(<<>>) /\ <<>> \in Seq(Accesses)
BY DEF Items, Ordered

LEMMA OneItem ==
  ASSUME NEW x \in Accesses
  PROVE  <<x>> \in Seq(Accesses) /\ Items(<<x>>) = {x} /\ Ordered(<<x>>) /\ <<x>> # <<>>
  <1>1. Len(<<x>>) = 1 /\ <<x>>[1] = x
    OBVIOUS
  <1>2. 1 .. 1 = {1}
    OBVIOUS
  <1> QED BY <1>1, <1>2 DEF Items, Ordered

LEMMA TwoParts ==
  ASSUME NEW p \in Seq(Accesses), NEW q \in Seq(Accesses)
  PROVE  /\ p \o q \in Seq(Accesses) /\ Items(p \o q) = Items(p) \cup Items(q)
         /\ Ordered(p) /\ Ordered(q) /\ (\A x \in Items(p), y \in Items(q) : Before(x, y))
              => Ordered(p \o q)
  <1> DEFINE m == Len(p)
             n == Len(q)
             r == p \o q
  <1>1. /\ m \in Nat /\ n \in Nat /\ r \in Seq(Accesses) /\ Len(r) = m + n
        /\ \A i \in 1 .. m + n : r[i] = IF i <= m THEN p[i] ELSE q[i - m]
    BY ConcatProperties, LenProperties
  <1> HIDE DEF m, n, r
  <1>2. \A i \in 1 .. m : r[i] = p[i] /\ i \in 1 .. m + n
    BY <1>1
  <1>3. \A i \in 1 .. n : r[m + i] = q[i] /\ m + i \in 1 .. m + n
    BY <1>1
  <1>4. \A i \in 1 .. m + n : i \in 1 .. m \/ (i - m \in 1 .. n /\ r[i] = q[i - m] /\ i > m)
    BY <1>1
  <1>5. Items(r) = Items(p) \cup Items(q)
    <2>1. Items(r) = {r[i] : i \in 1 .. m + n} /\ Items(p) = {p[i] : i \in 1 .. m}
          /\ Items(q) = {q[i] : i \in 1 .. n}
      BY <1>1 DEF Items, m, n
    <2> QED BY <2>1, <1>2, <1>3, <1>4
  <1>6. ASSUME Ordered(p), Ordered(q), \A x \in Items(p), y \in Items(q) : Before(x, y)
        PROVE  Ordered(r)
    <2> SUFFICES ASSUME NEW i \in 1 .. m + n, NEW j \in 1 .. m + n, i < j PROVE Before(r[i], r[j])
      BY <1>1 DEF Ordered
    <2>1. CASE j \in 1 .. m
      <3>1. i \in 1 .. m
        BY <1>1, <2>1
      <3> QED BY <1>2, <1>6, <2>1, <3>1 DEF Ordered, m
    <2>2. CASE j \notin 1 .. m /\ i \in 1 .. m
      BY <1>2, <1>4, <1>6, <2>2 DEF Items, m, n
    <2>3. CASE j \notin 1 .. m /\ i \notin 1 .. m
      <3>1. i - m < j - m
        BY <1>1
      <3> QED BY <1>4, <1>6, <2>3, <3>1 DEF Ordered, n
    <2> QED BY <2>1, <2>2, <2>3
  <1> QED BY <1>1, <1>5, <1>6 DEF r

LEMMA ItemsOrder ==
  ASSUME NEW x, NEW y, x \in Accesses, y \in Accesses, Before(x, y)
  PROVE  (x # y /\ ~Before(y, x)) \/ (x.what = "store" /\ y.what = "store" /\ x.h # y.h)
BY DEF Before, Rank

LEMMA FirstItem ==
  ASSUME NEW q \in Seq(Accesses), Ordered(q), q # <<>>
  PROVE  /\ Head(q) \in Items(q) /\ Head(q) \in Accesses
         /\ Tail(q) \in Seq(Accesses) /\ Ordered(Tail(q))
         /\ Items(Tail(q)) = Items(q) \ {Head(q)}
         /\ \A y \in Items(Tail(q)) : Before(Head(q), y)
         /\ Items(q) \subseteq Accesses
  <1> DEFINE n == Len(q)
             r == Tail(q)
  <1>1. /\ n \in Nat /\ n # 0 /\ Head(q) = q[1] /\ r \in Seq(Accesses) /\ Len(r) = n - 1
        /\ \A i \in 1 .. n - 1 : r[i] = q[i + 1]
    BY HeadTailProperties, LenProperties, EmptySeq
  <1>2. \A i \in 1 .. n : q[i] \in Accesses
    BY ElementOfSeq
  <1>3. \A i, j \in 1 .. n : i < j => Before(q[i], q[j])
    BY DEF Ordered
  <1>4. Items(q) = {q[i] : i \in 1 .. n} /\ Items(r) = {r[i] : i \in 1 .. n - 1}
    BY <1>1 DEF Items
  <1> HIDE DEF n, r
  <1>5. 1 \in 1 .. n /\ (\A i \in 1 .. n - 1 : i + 1 \in 1 .. n /\ 1 < i + 1)
        /\ (\A i \in 1 .. n : i = 1 \/ (i - 1 \in 1 .. n - 1 /\ (i - 1) + 1 = i))
    BY <1>1
  <1>6. \A y \in Items(r) : Before(q[1], y)
    BY <1>1, <1>3, <1>5, <1>4
  <1>7. \A y \in Items(r) : y # q[1]
    <2>1. \A y \in Items(r) : y \in Accesses
      BY <1>1, <1>2, <1>5, <1>4
    <2> QED BY <1>2, <1>5, <1>6, <2>1, ItemsOrder
  <1>8. Items(r) = Items(q) \ {q[1]}
    <2>1. \A y \in Items(r) : y \in Items(q)
      BY <1>1, <1>5, <1>4
    <2>2. \A y \in Items(q) : y # q[1] => y \in Items(r)
      <3> SUFFICES ASSUME NEW i \in 1 .. n, q[i] # q[1] PROVE q[i] \in Items(r)
        BY <1>4
      <3>1. i - 1 \in 1 .. n - 1 /\ r[i - 1] = q[i]
        BY <1>1, <1>5
      <3> QED BY <3>1, <1>4
    <2> QED BY <1>7, <2>1, <2>2
  <1>9. Ordered(r)
    <2> SUFFICES ASSUME NEW i \in 1 .. n - 1, NEW j \in 1 .. n - 1, i < j PROVE Before(r[i], r[j])
      BY <1>1 DEF Ordered
    <2>1. i + 1 < j + 1
      OBVIOUS
    <2> QED BY <1>1, <1>3, <1>5, <2>1
  <1> QED BY <1>1, <1>2, <1>5, <1>6, <1>8, <1>9, <1>4 DEF r

\* Of two accesses that are due one comes first.
LEMMA OneFirst ==
  ASSUME NEW q \in Seq(Accesses), Ordered(q), NEW x \in Items(q), NEW y \in Items(q), x # y
  PROVE  Before(x, y) \/ Before(y, x)
  <1>1. PICK i \in 1 .. Len(q) : q[i] = x
    BY DEF Items
  <1>2. PICK j \in 1 .. Len(q) : q[j] = y
    BY DEF Items
  <1>3. i < j \/ j < i
    BY <1>1, <1>2, LenProperties
  <1> QED BY <1>1, <1>2, <1>3 DEF Ordered

LEMMA SomeItem ==
  ASSUME NEW q \in Seq(Accesses)
  PROVE  q = <<>> <=> Items(q) = {}
  <1>1. Len(q) \in Nat /\ (q = <<>> <=> Len(q) = 0)
    BY LenProperties, EmptySeq
  <1>2. Len(q) # 0 => 1 \in 1 .. Len(q)
    BY <1>1
  <1> QED BY <1>1, <1>2 DEF Items

-----------------------------------------------------------------------------
(* Counting *)

\* The references of a thread changed by one that took the place of another, or not.
Same(S, T) == T = S \/ \E a \in Names \cap S, b \in Names \ S : T = (S \ {a}) \cup {b}

LEMMA TotalFinite ==
  ASSUME NEW f
  PROVE  IsFiniteSet(Total(f)) /\ Cardinality(Total(f)) \in Nat
  <1>1. IsFiniteSet(Names)
    <2>1. Names = {"a", "b", "v", "w", "sub"}
      BY DEF Names, Handles
    <2>2. IsFiniteSet({"a", "b", "v", "w", "sub"})
      <3>1. IsFiniteSet({}) /\ IsFiniteSet({"a"})
        BY FS_EmptySet, FS_AddElement
      <3>2. IsFiniteSet({"a"} \cup {"b"})
        BY <3>1, FS_AddElement
      <3>3. IsFiniteSet(({"a"} \cup {"b"}) \cup {"v"})
        BY <3>2, FS_AddElement
      <3>4. IsFiniteSet((({"a"} \cup {"b"}) \cup {"v"}) \cup {"w"})
        BY <3>3, FS_AddElement
      <3>5. IsFiniteSet(((({"a"} \cup {"b"}) \cup {"v"}) \cup {"w"}) \cup {"sub"})
        BY <3>4, FS_AddElement
      <3>6. ((({"a"} \cup {"b"}) \cup {"v"}) \cup {"w"}) \cup {"sub"} = {"a", "b", "v", "w", "sub"}
        OBVIOUS
      <3> QED BY <3>5, <3>6
    <2> QED BY <2>1, <2>2
  <1>2. IsFiniteSet(Owners \X Names)
    BY <1>1, PointerAssumption, FS_Product
  <1>3. Total(f) \in SUBSET (Owners \X Names)
    BY DEF Total
  <1> QED BY <1>2, <1>3, FS_Subset, FS_CardinalityType

LEMMA Recount ==
  ASSUME NEW f, NEW g, NEW t \in Owners, \A u \in Owners \ {t} : g[u] = f[u]
  PROVE  /\ Same(f[t], g[t]) => Cardinality(Total(g)) = Cardinality(Total(f))
         /\ \A x \in Names \ f[t] :
              g[t] = f[t] \cup {x} => Cardinality(Total(g)) = Cardinality(Total(f)) + 1
         /\ \A x \in Names \cap f[t] :
              g[t] = f[t] \ {x} => Cardinality(Total(g)) = Cardinality(Total(f)) - 1
  <1> DEFINE F == Total(f)
             G == Total(g)
  <1>1. \A p : p \in F <=> p \in Owners \X Names /\ p[2] \in f[p[1]]
    BY DEF Total
  <1>2. \A p : p \in G <=> p \in Owners \X Names /\ p[2] \in g[p[1]]
    BY DEF Total
  <1>3. IsFiniteSet(F) /\ IsFiniteSet(G) /\ Cardinality(F) \in Nat /\ Cardinality(G) \in Nat
    BY TotalFinite
  <1> HIDE DEF F, G
  <1>4. \A p \in Owners \X Names : p[1] # t => (p \in F <=> p \in G)
    BY <1>1, <1>2
  <1>5. \A x \in Names : /\ <<t, x>> \in Owners \X Names
                         /\ <<t, x>> \in F <=> x \in f[t]
                         /\ <<t, x>> \in G <=> x \in g[t]
    BY <1>1, <1>2
  <1>6. \A p \in Owners \X Names : p[1] = t => p = <<t, p[2]>> /\ p[2] \in Names
    OBVIOUS
  <1>7. F \subseteq Owners \X Names /\ G \subseteq Owners \X Names
    BY <1>1, <1>2
  <1>8. ASSUME g[t] = f[t] PROVE Cardinality(G) = Cardinality(F)
    <2>1. \A p \in Owners \X Names : p \in F <=> p \in G
      BY <1>4, <1>5, <1>6, <1>8
    <2>2. F = G
      BY <1>7, <2>1
    <2> QED BY <2>2
  <1>9. ASSUME NEW x \in Names \ f[t], g[t] = f[t] \cup {x}
        PROVE  Cardinality(G) = Cardinality(F) + 1
    <2>1. \A p \in Owners \X Names : p \in G <=> p \in F \/ p = <<t, x>>
      BY <1>4, <1>5, <1>6, <1>9
    <2>2. <<t, x>> \notin F
      BY <1>5
    <2>3. G = F \cup {<<t, x>>}
      BY <1>5, <1>7, <2>1
    <2> QED BY <1>3, <2>2, <2>3, FS_AddElement
  <1>10. ASSUME NEW x \in Names \cap f[t], g[t] = f[t] \ {x}
         PROVE  Cardinality(G) = Cardinality(F) - 1
    <2>1. \A p \in Owners \X Names : p \in G <=> p \in F /\ p # <<t, x>>
      BY <1>4, <1>5, <1>6, <1>10
    <2>2. <<t, x>> \in F
      BY <1>5
    <2>3. G = F \ {<<t, x>>}
      BY <1>5, <1>7, <2>1
    <2> QED BY <1>3, <2>2, <2>3, FS_RemoveElement
  <1>11. ASSUME NEW a \in Names \cap f[t], NEW b \in Names \ f[t], g[t] = (f[t] \ {a}) \cup {b}
         PROVE  Cardinality(G) = Cardinality(F)
    <2>1. \A p \in Owners \X Names : p \in G <=> (p \in F /\ p # <<t, a>>) \/ p = <<t, b>>
      BY <1>4, <1>5, <1>6, <1>11
    <2>2. <<t, a>> \in F /\ <<t, b>> \notin F
      BY <1>5
    <2>3. G = (F \ {<<t, a>>}) \cup {<<t, b>>}
      BY <1>5, <1>7, <2>1
    <2>4. IsFiniteSet(F \ {<<t, a>>}) /\ Cardinality(F \ {<<t, a>>}) = Cardinality(F) - 1
      BY <1>3, <2>2, FS_RemoveElement
    <2>5. Cardinality(G) = Cardinality(F \ {<<t, a>>}) + 1
      BY <2>2, <2>3, <2>4, FS_AddElement
    <2> QED BY <1>3, <2>4, <2>5
  <1> QED BY <1>8, <1>9, <1>10, <1>11 DEF Same, F, G

LEMMA Counts ==
  ASSUME NEW t \in Owners, NEW c,
         \A u \in Owners \ {t} : StrongOf(u, c)' = StrongOf(u, c) /\ WeakOf(u, c)' = WeakOf(u, c)
  PROVE  /\ Same(StrongOf(t, c), StrongOf(t, c)') =>
              Cardinality(StrongRefs(c)') = Cardinality(StrongRefs(c))
         /\ \A x \in Names \ StrongOf(t, c) : StrongOf(t, c)' = StrongOf(t, c) \cup {x} =>
              Cardinality(StrongRefs(c)') = Cardinality(StrongRefs(c)) + 1
         /\ \A x \in Names \cap StrongOf(t, c) : StrongOf(t, c)' = StrongOf(t, c) \ {x} =>
              Cardinality(StrongRefs(c)') = Cardinality(StrongRefs(c)) - 1
         /\ Same(WeakOf(t, c), WeakOf(t, c)') =>
              Cardinality(WeakRefs(c)') = Cardinality(WeakRefs(c))
         /\ \A x \in Names \ WeakOf(t, c) : WeakOf(t, c)' = WeakOf(t, c) \cup {x} =>
              Cardinality(WeakRefs(c)') = Cardinality(WeakRefs(c)) + 1
         /\ \A x \in Names \cap WeakOf(t, c) : WeakOf(t, c)' = WeakOf(t, c) \ {x} =>
              Cardinality(WeakRefs(c)') = Cardinality(WeakRefs(c)) - 1
  <1> DEFINE f == [u \in Owners |-> StrongOf(u, c)]
             g == [u \in Owners |-> StrongOf(u, c)']
             m == [u \in Owners |-> WeakOf(u, c)]
             n == [u \in Owners |-> WeakOf(u, c)']
  <1>1. /\ StrongRefs(c) = Total(f) /\ StrongRefs(c)' = Total(g)
        /\ WeakRefs(c) = Total(m) /\ WeakRefs(c)' = Total(n)
    BY DEF StrongRefs, WeakRefs
  <1>2. /\ f[t] = StrongOf(t, c) /\ g[t] = StrongOf(t, c)'
        /\ m[t] = WeakOf(t, c) /\ n[t] = WeakOf(t, c)'
    OBVIOUS
  <1>3. (\A u \in Owners \ {t} : g[u] = f[u]) /\ \A u \in Owners \ {t} : n[u] = m[u]
    OBVIOUS
  <1> HIDE DEF f, g, m, n
  <1>4. /\ Same(f[t], g[t]) => Cardinality(Total(g)) = Cardinality(Total(f))
        /\ \A x \in Names \ f[t] :
             g[t] = f[t] \cup {x} => Cardinality(Total(g)) = Cardinality(Total(f)) + 1
        /\ \A x \in Names \cap f[t] :
             g[t] = f[t] \ {x} => Cardinality(Total(g)) = Cardinality(Total(f)) - 1
    BY <1>3, Recount
  <1>5. /\ Same(m[t], n[t]) => Cardinality(Total(n)) = Cardinality(Total(m))
        /\ \A x \in Names \ m[t] :
             n[t] = m[t] \cup {x} => Cardinality(Total(n)) = Cardinality(Total(m)) + 1
        /\ \A x \in Names \cap m[t] :
             n[t] = m[t] \ {x} => Cardinality(Total(n)) = Cardinality(Total(m)) - 1
    BY <1>3, Recount
  <1>6. /\ Same(StrongOf(t, c), StrongOf(t, c)') =>
              Cardinality(StrongRefs(c)') = Cardinality(StrongRefs(c))
        /\ \A x \in Names \ StrongOf(t, c) : StrongOf(t, c)' = StrongOf(t, c) \cup {x} =>
              Cardinality(StrongRefs(c)') = Cardinality(StrongRefs(c)) + 1
        /\ \A x \in Names \cap StrongOf(t, c) : StrongOf(t, c)' = StrongOf(t, c) \ {x} =>
              Cardinality(StrongRefs(c)') = Cardinality(StrongRefs(c)) - 1
    BY ONLY <1>1, <1>2, <1>4
  <1>7. /\ Same(WeakOf(t, c), WeakOf(t, c)') =>
              Cardinality(WeakRefs(c)') = Cardinality(WeakRefs(c))
        /\ \A x \in Names \ WeakOf(t, c) : WeakOf(t, c)' = WeakOf(t, c) \cup {x} =>
              Cardinality(WeakRefs(c)') = Cardinality(WeakRefs(c)) + 1
        /\ \A x \in Names \cap WeakOf(t, c) : WeakOf(t, c)' = WeakOf(t, c) \ {x} =>
              Cardinality(WeakRefs(c)') = Cardinality(WeakRefs(c)) - 1
    BY ONLY <1>1, <1>2, <1>5
  <1> QED BY ONLY <1>6, <1>7

-----------------------------------------------------------------------------
(* What the steps have in common *)

\* What happens in a step of t to the other threads: nothing.
Mine(t) ==
  /\ threadSafe' = threadSafe
  /\ \A u \in Owners \ {t} : todo'[u] = todo[u] /\ handle'[u] = handle[u]

LEMMA Others ==
  ASSUME NEW t \in Owners, Mine(t), NEW u \in Owners \ {t}
  PROVE  /\ Due(u)' = Due(u) /\ Stored(u)' = Stored(u)
         /\ Strong(u)' = Strong(u) /\ Weak(u)' = Weak(u)
         /\ \A what : DueOf(u, what)' = DueOf(u, what)
         /\ \A what, c : Doing(u, what, c)' = Doing(u, what, c)
         /\ \A c, handles : Keeps(u, c, handles)' = Keeps(u, c, handles)
         /\ \A c : StrongOf(u, c)' = StrongOf(u, c) /\ WeakOf(u, c)' = WeakOf(u, c)
  <1>1. todo'[u] = todo[u] /\ handle'[u] = handle[u] /\ threadSafe' = threadSafe
    BY DEF Mine
  <1>2. Due(u)' = Due(u)
    BY <1>1 DEF Due
  <1>3. Strong(u)' = Strong(u) /\ Weak(u)' = Weak(u)
    BY <1>1 DEF Strong, Weak
  <1>4. \A what : DueOf(u, what)' = DueOf(u, what)
    BY <1>2 DEF DueOf
  <1>5. Stored(u)' = Stored(u)
    BY <1>4 DEF Stored
  <1>6. \A what, c : Doing(u, what, c)' = Doing(u, what, c)
    BY <1>4 DEF Doing
  <1>7. \A c, handles : Keeps(u, c, handles)' = Keeps(u, c, handles)
    BY <1>1, <1>5 DEF Keeps
  <1>8. \A c, own, add, sub : RefsOf(u, c, own, add, sub)' = RefsOf(u, c, own, add, sub)
    BY <1>1, <1>4, <1>5, <1>6 DEF RefsOf
  <1>9. \A c : StrongOf(u, c)' = StrongOf(u, c) /\ WeakOf(u, c)' = WeakOf(u, c)
    BY <1>3, <1>8 DEF StrongOf, WeakOf
  <1> QED BY <1>2, <1>3, <1>4, <1>5, <1>6, <1>7, <1>9

\* A step of t that leaves the counts of c and what they count as they are.
Keeping(t, c) ==
  /\ strongCount'[c] = strongCount[c] /\ weakCount'[c] = weakCount[c]
  /\ lost'[c] = lost[c] /\ life'[c] = life[c]
  /\ Same(StrongOf(t, c), StrongOf(t, c)') /\ Same(WeakOf(t, c), WeakOf(t, c)')
  /\ Doing(t, "destruct", c)' = Doing(t, "destruct", c)
  /\ Doing(t, "delete", c)' = Doing(t, "delete", c)

LEMMA KeepingController ==
  ASSUME NEW t \in Owners, Mine(t), NEW c \in Controllers, ControllerOK(c), Keeping(t, c)
  PROVE  ControllerOK(c)'
  <1>1. \A u \in Owners : /\ Doing(u, "destruct", c)' = Doing(u, "destruct", c)
                           /\ Doing(u, "delete", c)' = Doing(u, "delete", c)
    BY Others DEF Keeping
  <1>2. \A u \in Owners \ {t} : StrongOf(u, c)' = StrongOf(u, c) /\ WeakOf(u, c)' = WeakOf(u, c)
    BY Others
  <1>3. /\ Cardinality(StrongRefs(c)') = Cardinality(StrongRefs(c))
        /\ Cardinality(WeakRefs(c)') = Cardinality(WeakRefs(c))
    BY <1>2, Counts DEF Keeping
  <1>4. Share(c)' = Share(c)
    BY DEF Share, Keeping, Mine
  <1> QED BY <1>1, <1>3, <1>4 DEF ControllerOK, Keeping

\* Owners that are about to destroy the object or to delete the controller find both as
\* they left them.
Undisturbed(t, c) ==
  \A u \in Owners \ {t} :
    /\ Doing(u, "destruct", c) => strongCount'[c] = 0 /\ life'[c] = "alive"
    /\ Doing(u, "delete", c) => weakCount'[c] = 0 /\ life'[c] = "destroyed"

LEMMA OtherAccess ==
  ASSUME PointerInv, NEW t \in Owners, Mine(t), NEW u \in Owners \ {t}, NEW x \in Due(u),
         \A c \in Controllers : Keeping(t, c) \/ Undisturbed(t, c)
  PROVE  AccessOK(u, x)'
  <1>1. AccessOK(u, x)
    BY DEF PointerInv, ThreadOK
  <1>2. x.what \in {"destruct", "delete"} => x.c \in Controllers /\ Doing(u, x.what, x.c)
    BY <1>1 DEF AccessOK, Doing, DueOf
  <1>3. /\ x.what = "destruct" => strongCount'[x.c] = 0 /\ life'[x.c] = "alive"
        /\ x.what = "delete" => weakCount'[x.c] = 0 /\ life'[x.c] = "destroyed"
    BY <1>1, <1>2 DEF AccessOK, Keeping, Undisturbed
  <1>4. /\ Strong(u)' = Strong(u) /\ Weak(u)' = Weak(u) /\ threadSafe' = threadSafe
        /\ \A what : DueOf(u, what)' = DueOf(u, what)
        /\ \A what, c : Doing(u, what, c)' = Doing(u, what, c)
        /\ \A c, handles : Keeps(u, c, handles)' = Keeps(u, c, handles)
    BY Others DEF Mine
  <1> QED BY ONLY <1>1, <1>3, <1>4 DEF AccessOK

LEMMA Assemble ==
  ASSUME PointerInv, NEW t \in Owners, Mine(t), PointerTypes', todo' \in [Owners -> Seq(Accesses)],
         ThreadOK(t)',
         \A c \in Controllers : Keeping(t, c) \/ (Undisturbed(t, c) /\ ControllerOK(c)')
  PROVE  PointerInv'
  <1>1. \A c \in Controllers : ControllerOK(c)'
    BY KeepingController DEF PointerInv
  <1>2. ASSUME NEW u \in Owners \ {t} PROVE ThreadOK(u)'
    <2>1. todo'[u] = todo[u] /\ Due(u)' = Due(u)
      BY Others DEF Mine
    <2>2. \A x \in Due(u) : AccessOK(u, x)'
      BY OtherAccess
    <2>3. Ordered(todo[u])
      BY DEF PointerInv, ThreadOK
    <2> QED BY <2>1, <2>2, <2>3 DEF ThreadOK
  <1>3. \A u \in Owners : ThreadOK(u)'
    BY <1>2
  <1> QED BY <1>1, <1>3 DEF PointerInv

\* What is known of a thread that has an operation under way.
LEMMA Running ==
  ASSUME PointerInv, NEW t \in Owners, todo[t] # <<>>
  PROVE  /\ Now(t) \in Due(t) /\ Now(t) \in Accesses /\ AccessOK(t, Now(t))
         /\ \A y \in Due(t) \ {Now(t)} : Before(Now(t), y) /\ y \in Accesses
         /\ threadSafe \in BOOLEAN
  <1>1. todo[t] \in Seq(Accesses) /\ Ordered(todo[t]) /\ \A x \in Due(t) : AccessOK(t, x)
    BY DEF PointerInv, ThreadOK
  <1>2. /\ Head(todo[t]) \in Items(todo[t]) /\ Head(todo[t]) \in Accesses
        /\ Items(Tail(todo[t])) = Items(todo[t]) \ {Head(todo[t])}
        /\ \A y \in Items(Tail(todo[t])) : Before(Head(todo[t]), y)
        /\ Items(todo[t]) \subseteq Accesses
    BY <1>1, FirstItem
  <1> QED BY <1>1, <1>2 DEF Now, Due, PointerInv, PointerTypes

\* Its next access is made, and others take the place of it.
LEMMA Replaced ==
  ASSUME PointerInv, NEW t \in Owners, todo[t] # <<>>, NEW q \in Seq(Accesses), Ordered(q),
         \A x \in Items(q), y \in Due(t) \ {Now(t)} : Before(x, y), Then(t, q)
  PROVE  /\ todo' \in [Owners -> Seq(Accesses)] /\ Ordered(todo[t])'
         /\ \A u \in Owners \ {t} : todo'[u] = todo[u]
         /\ Due(t)' = Items(q) \cup (Due(t) \ {Now(t)})
  <1> DEFINE r == Tail(todo[t])
  <1>1. todo[t] \in Seq(Accesses) /\ Ordered(todo[t]) /\ todo \in [Owners -> Seq(Accesses)]
    BY DEF PointerInv, ThreadOK
  <1>2. /\ r \in Seq(Accesses) /\ Ordered(r)
        /\ Items(r) = Items(todo[t]) \ {Head(todo[t])}
    BY <1>1, FirstItem
  <1> HIDE DEF r
  <1>3. /\ q \o r \in Seq(Accesses) /\ Items(q \o r) = Items(q) \cup Items(r)
        /\ Ordered(q) /\ Ordered(r) /\ (\A x \in Items(q), y \in Items(r) : Before(x, y))
             => Ordered(q \o r)
    BY <1>2, TwoParts
  <1>4. Items(r) = Due(t) \ {Now(t)}
    BY <1>2 DEF Due, Now
  <1>5. Ordered(q \o r)
    BY <1>2, <1>3, <1>4
  <1>6. todo' = [todo EXCEPT ![t] = q \o r]
    BY DEF Then, r
  <1>7. /\ todo' \in [Owners -> Seq(Accesses)] /\ todo'[t] = q \o r
        /\ \A u \in Owners \ {t} : todo'[u] = todo[u]
    BY <1>1, <1>3, <1>6
  <1> QED BY <1>3, <1>4, <1>5, <1>7 DEF Due

\* No two accesses of an operation are of one kind, stores apart.
LEMMA KindsDiffer ==
  ASSUME PointerInv, NEW t \in Owners, NEW x \in Due(t), NEW y \in Due(t), x # y
  PROVE  x.what = y.what => x.what = "store" /\ x.h # y.h
  <1>1. todo[t] \in Seq(Accesses) /\ Ordered(todo[t])
    BY DEF PointerInv, ThreadOK
  <1>2. Before(x, y) \/ Before(y, x)
    BY <1>1, OneFirst DEF Due
  <1>3. x \in Accesses /\ y \in Accesses
    BY DEF PointerInv, ThreadOK, AccessOK
  <1> QED BY <1>2, <1>3 DEF Before, Rank, Accesses, Whats

\* The access made was not a store: nothing of that kind is left, and of the other kinds
\* what was there.
LEMMA KindsLeft ==
  ASSUME PointerInv, NEW t \in Owners, todo[t] # <<>>, NEW Q, NEW kind,
         Due(t)' = Q \cup (Due(t) \ {Now(t)}), Now(t).what = kind, kind # "store"
  PROVE  /\ DueOf(t, kind)' = {x \in Q : x.what = kind}
         /\ \A what : what # kind => DueOf(t, what)' = {x \in Q : x.what = what} \cup DueOf(t, what)
  <1> DEFINE D == Due(t)
             n == Now(t)
  <1>1. \A y \in D \ {n} : y.what # kind
    BY Running, KindsDiffer
  <1>2. \A what : /\ DueOf(t, what)' = {x \in Q \cup (D \ {n}) : x.what = what}
                  /\ DueOf(t, what) = {x \in D : x.what = what}
    BY DEF DueOf
  <1>3. n.what = kind
    OBVIOUS
  <1> HIDE DEF D, n
  <1>4. {x \in Q \cup (D \ {n}) : x.what = kind} = {x \in Q : x.what = kind}
    BY <1>1
  <1>5. \A what : what # kind =>
          {x \in Q \cup (D \ {n}) : x.what = what}
            = {x \in Q : x.what = what} \cup {x \in D : x.what = what}
    BY <1>3
  <1> QED BY <1>2, <1>4, <1>5

LEMMA KindsGone ==
  ASSUME PointerInv, NEW t \in Owners, todo[t] # <<>>, NEW kind,
         Due(t)' = {} \cup (Due(t) \ {Now(t)}), Now(t).what = kind, kind # "store"
  PROVE  /\ DueOf(t, kind)' = {}
         /\ \A what : what # kind => DueOf(t, what)' = DueOf(t, what)
  <1> DEFINE Q == {}
  <1>1. Due(t)' = Q \cup (Due(t) \ {Now(t)}) /\ \A what : {x \in Q : x.what = what} = {}
    OBVIOUS
  <1> HIDE DEF Q
  <1>2. /\ DueOf(t, kind)' = {x \in Q : x.what = kind}
        /\ \A what : what # kind => DueOf(t, what)' = {x \in Q : x.what = what} \cup DueOf(t, what)
    BY <1>1, KindsLeft
  <1> QED BY <1>1, <1>2

\* What is due in an operation that begins.
LEMMA Begun ==
  ASSUME PointerInv, NEW t \in Owners, NEW q \in Seq(Accesses), todo' = [todo EXCEPT ![t] = q]
  PROVE  /\ todo' \in [Owners -> Seq(Accesses)] /\ todo'[t] = q
         /\ \A u \in Owners \ {t} : todo'[u] = todo[u]
         /\ Due(t)' = Items(q)
  <1>1. todo \in [Owners -> Seq(Accesses)]
    BY DEF PointerInv
  <1>2. todo'[t] = q
    BY <1>1
  <1> QED BY <1>1, <1>2 DEF Due

LEMMA IdleHas ==
  ASSUME NEW t, Idle(t)
  PROVE  /\ Due(t) = {} /\ Stored(t) = {} /\ \A what : DueOf(t, what) = {}
         /\ \A what, c : ~Doing(t, what, c)
         /\ \A c : /\ StrongOf(t, c) = {h \in Strong(t) : handle[t][h] = c}
                   /\ WeakOf(t, c) = {h \in Weak(t) : handle[t][h] = c}
  <1>1. Due(t) = {}
    BY NoItems DEF Idle, Due
  <1>2. Stored(t) = {} /\ (\A what : DueOf(t, what) = {}) /\ \A what, c : ~Doing(t, what, c)
    BY <1>1 DEF DueOf, Stored, Doing
  <1> QED BY <1>1, <1>2 DEF StrongOf, WeakOf, RefsOf

LEMMA HandleKinds ==
  ASSUME NEW t
  PROVE  /\ Strong(t) \subseteq Handles /\ Weak(t) \subseteq Handles
         /\ Strong(t) \cap Weak(t) = {} /\ "sub" \notin Handles
         /\ Strong(t) \subseteq Names /\ Weak(t) \subseteq Names /\ "sub" \in Names
BY DEF Strong, Weak, Handles, Names

\* Who has a reference keeps the count above zero.
LEMMA Referenced ==
  ASSUME PointerInv, NEW t \in Owners, NEW c \in Controllers
  PROVE  /\ StrongOf(t, c) # {} => strongCount[c] > 0
         /\ WeakOf(t, c) # {} => weakCount[c] > 0
         /\ strongCount[c] > 0 => weakCount[c] > 0 /\ life[c] = "alive"
         /\ StrongOf(t, c) \subseteq Names /\ WeakOf(t, c) \subseteq Names
         /\ strongCount[c] \in Nat /\ weakCount[c] \in Nat /\ lost[c] \in Nat
         /\ Cardinality(WeakRefs(c)) \in Nat /\ Cardinality(StrongRefs(c)) \in Nat
         /\ ControllerOK(c)
  <1>1. ControllerOK(c) /\ strongCount[c] \in Nat /\ weakCount[c] \in Nat /\ lost[c] \in Nat
    BY PointerAssumption DEF PointerInv, PointerTypes
  <1>2. StrongOf(t, c) \subseteq Names /\ WeakOf(t, c) \subseteq Names
    BY HandleKinds DEF StrongOf, WeakOf, RefsOf
  <1>3. IsFiniteSet(StrongRefs(c)) /\ IsFiniteSet(WeakRefs(c))
        /\ Cardinality(StrongRefs(c)) \in Nat /\ Cardinality(WeakRefs(c)) \in Nat
    BY TotalFinite DEF StrongRefs, WeakRefs
  <1>4. /\ \A x \in StrongOf(t, c) : <<t, x>> \in StrongRefs(c)
        /\ \A x \in WeakOf(t, c) : <<t, x>> \in WeakRefs(c)
    BY <1>2 DEF StrongRefs, WeakRefs, Total
  <1>5. /\ StrongOf(t, c) # {} => Cardinality(StrongRefs(c)) # 0
        /\ WeakOf(t, c) # {} => Cardinality(WeakRefs(c)) # 0
    BY <1>3, <1>4, FS_EmptySet
  <1>6. Share(c) \in {0, 1} /\ (strongCount[c] > 0 => Share(c) = 1)
    BY DEF Share
  <1> QED BY <1>1, <1>2, <1>3, <1>5, <1>6 DEF ControllerOK

LEMMA DoingMeans ==
  ASSUME PointerInv, NEW t \in Owners, NEW c
  PROVE  /\ Doing(t, "destruct", c) => /\ strongCount[c] = 0 /\ life[c] = "alive"
                                       /\ threadSafe => Doing(t, "subWeak", c)
         /\ Doing(t, "delete", c) => weakCount[c] = 0 /\ life[c] = "destroyed"
         /\ Doing(t, "subStrong", c) => "sub" \in StrongOf(t, c)
         /\ Doing(t, "subWeak", c) => "sub" \in WeakOf(t, c)
  <1>1. \A x \in Due(t) : AccessOK(t, x)
    BY DEF PointerInv, ThreadOK
  <1> QED BY <1>1 DEF AccessOK, Doing, DueOf, StrongOf, WeakOf, RefsOf

\* The references of t when only their accesses of other kinds changed.
LEMMA RefsStay ==
  ASSUME NEW t, NEW c, NEW own, NEW add, NEW sub, handle'[t] = handle[t],
         DueOf(t, "store")' = DueOf(t, "store"), DueOf(t, add)' = DueOf(t, add),
         DueOf(t, sub)' = DueOf(t, sub)
  PROVE  RefsOf(t, c, own, add, sub)' = RefsOf(t, c, own, add, sub)
  <1>1. Stored(t)' = Stored(t)
    BY DEF Stored
  <1>2. Doing(t, sub, c)' = Doing(t, sub, c)
    BY DEF Doing
  <1> QED BY <1>1, <1>2 DEF RefsOf

\* The accesses that follow the one that was made, none of which is a store, stay sound.
LEMMA RestOK ==
  ASSUME PointerInv, NEW t \in Owners, threadSafe' = threadSafe, handle'[t] = handle[t],
         DueOf(t, "store")' = DueOf(t, "store"), NEW y \in Due(t),
         y.what \notin {"load", "cas", "destruct"},
         y.what = "delete" => weakCount'[y.c] = 0 /\ life'[y.c] = "destroyed"
  PROVE  AccessOK(t, y)'
  <1>1. AccessOK(t, y)
    BY DEF PointerInv, ThreadOK
  <1>2. Stored(t)' = Stored(t)
    BY DEF Stored
  <1>3. \A c, handles : Keeps(t, c, handles)' = Keeps(t, c, handles)
    BY <1>2 DEF Keeps
  <1>4. Strong(t)' = Strong(t) /\ Weak(t)' = Weak(t)
    BY DEF Strong, Weak
  <1> QED BY <1>1, <1>3, <1>4 DEF AccessOK

LEMMA AddStrongInv ==
  ASSUME PointerInv, NEW t \in Owners, AddStrongRef(t)
  PROVE  PointerInv'
  <1> DEFINE n == Now(t)
             Q == {}
  <1>1. todo[t] # <<>> /\ n.what = "addStrong"
    BY DEF AddStrongRef, Facing, Now
  <1>2. /\ n \in Due(t) /\ n \in Accesses /\ AccessOK(t, n)
        /\ \A y \in Due(t) \ {n} : Before(n, y) /\ y \in Accesses
    BY <1>1, Running
  <1>3. PICK c0 \in Controllers, h \in Strong(t) :
          n.c = c0 /\ DueOf(t, "store") = {Access("store", c0, h)} /\ Keeps(t, c0, Strong(t))
    BY <1>1, <1>2 DEF AccessOK
  <1>4. /\ strongCount' = [strongCount EXCEPT ![c0] = @ + 1]
        /\ threadSafe' = threadSafe /\ weakCount' = weakCount /\ life' = life /\ handle' = handle
        /\ lost' = lost /\ Then(t, <<>>)
    BY <1>3 DEF AddStrongRef
  <1>5. /\ todo' \in [Owners -> Seq(Accesses)] /\ Ordered(todo[t])'
        /\ \A u \in Owners \ {t} : todo'[u] = todo[u]
        /\ Due(t)' = {} \cup (Due(t) \ {n})
    BY <1>1, <1>4, NoItems, Replaced
  <1>6. /\ DueOf(t, "addStrong")' = {}
        /\ \A what : what # "addStrong" => DueOf(t, what)' = DueOf(t, what)
    BY <1>1, <1>5, KindsGone
  <1> HIDE DEF n
  <1>7. Mine(t)
    BY <1>4, <1>5 DEF Mine
  <1>8. ThreadOK(t)'
    <2>1. ASSUME NEW y \in Due(t) \ {n} PROVE AccessOK(t, y)'
      <3>1. y.what = "store"
        BY <1>1, <1>2 DEF Before, Rank, Accesses, Whats
      <3> QED BY <1>4, <1>6, <3>1, RestOK
    <2> QED BY <1>5, <2>1 DEF ThreadOK
  <1>9. strongCount \in [Controllers -> Nat]
    BY DEF PointerInv, PointerTypes
  <1>10. PointerTypes'
    BY <1>4, <1>9 DEF PointerInv, PointerTypes
  <1>11. /\ Strong(t)' = Strong(t) /\ Weak(t)' = Weak(t)
         /\ \A c : WeakOf(t, c)' = WeakOf(t, c)
    <2>1. Strong(t)' = Strong(t) /\ Weak(t)' = Weak(t)
      BY <1>4 DEF Strong, Weak
    <2>2. \A c : RefsOf(t, c, Weak(t), "addWeak", "subWeak")' = RefsOf(t, c, Weak(t), "addWeak", "subWeak")
      BY <1>4, <1>6, <2>1, RefsStay
    <2> QED BY <2>1, <2>2 DEF WeakOf
  <1>12. /\ \A c : Doing(t, "destruct", c)' = Doing(t, "destruct", c)
         /\ \A c : Doing(t, "delete", c)' = Doing(t, "delete", c)
         /\ \A c : Doing(t, "subStrong", c)' = Doing(t, "subStrong", c)
    BY <1>6 DEF Doing
  <1>13. DueOf(t, "addStrong") # {}
    BY <1>1, <1>2 DEF DueOf
  <1>14. Stored(t) = {h} /\ Stored(t)' = {h}
    <2>1. {x.h : x \in {Access("store", c0, h)}} = {h}
      BY DEF Access
    <2>2. DueOf(t, "store")' = DueOf(t, "store")
      BY <1>6
    <2> QED BY <1>3, <2>1, <2>2 DEF Stored
  <1>15. \A c : /\ StrongOf(t, c) = {k \in Strong(t) : k # h /\ handle[t][k] = c}
                                     \cup {k \in {"sub"} : Doing(t, "subStrong", c)}
                /\ StrongOf(t, c)' = {k \in Strong(t) : k # h /\ handle[t][k] = c}
                                       \cup {k \in {h} : c = c0}
                                       \cup {k \in {"sub"} : Doing(t, "subStrong", c)}
    <2>1. \A c : StrongOf(t, c) = {k \in Strong(t) : k # h /\ handle[t][k] = c}
                                     \cup {k \in {"sub"} : Doing(t, "subStrong", c)}
      BY <1>13, <1>14 DEF StrongOf, RefsOf
    <2>2. \A c, k : (\E x \in {Access("store", c0, h)} : x.h = k /\ x.c = c) <=> k = h /\ c = c0
      BY DEF Access
    <2>3. \A c : StrongOf(t, c)' = {k \in Strong(t) : k # h /\ handle[t][k] = c}
                                     \cup {k \in Strong(t) : k = h /\ c = c0}
                                     \cup {k \in {"sub"} : Doing(t, "subStrong", c)}
      BY <1>3, <1>4, <1>6, <1>11, <1>12, <1>14, <2>2 DEF StrongOf, RefsOf
    <2> QED BY <2>1, <2>3
  <1>16. ASSUME NEW c \in Controllers \ {c0} PROVE Keeping(t, c)
    <2>1. StrongOf(t, c)' = StrongOf(t, c)
      BY <1>15
    <2> QED BY <1>4, <1>9, <1>11, <1>12, <2>1 DEF Keeping, Same
  <1>17. Undisturbed(t, c0) /\ ControllerOK(c0)'
    <2>1. StrongOf(t, c0)' = StrongOf(t, c0) \cup {h} /\ h \in Names \ StrongOf(t, c0)
      BY <1>15, HandleKinds
    <2>2. Same(WeakOf(t, c0), WeakOf(t, c0)')
      BY <1>11 DEF Same
    <2>3. /\ Cardinality(StrongRefs(c0)') = Cardinality(StrongRefs(c0)) + 1
          /\ Cardinality(WeakRefs(c0)') = Cardinality(WeakRefs(c0))
      BY <1>7, <2>1, <2>2, Others, Counts
    <2>4. strongCount[c0] > 0
      <3>1. StrongOf(t, c0) # {}
        BY <1>3, <1>14, <1>15 DEF Keeps
      <3> QED BY <3>1, Referenced
    <2>5. /\ strongCount[c0] \in Nat /\ weakCount[c0] > 0 /\ life[c0] = "alive" /\ ControllerOK(c0)
      BY <2>4, Referenced
    <2>6. strongCount'[c0] = strongCount[c0] + 1
      BY <1>4, <1>9
    <2>7. Share(c0)' = Share(c0)
      BY <1>4, <2>4, <2>5, <2>6 DEF Share
    <2>8. Undisturbed(t, c0)
      BY <1>4, <2>4, <2>5, DoingMeans DEF Undisturbed
    <2>9. /\ \A u \in Owners : Doing(u, "destruct", c0)' = Doing(u, "destruct", c0)
          /\ \A u \in Owners : Doing(u, "delete", c0)' = Doing(u, "delete", c0)
      BY <1>7, <1>12, Others
    <2> QED BY <1>4, <2>3, <2>5, <2>6, <2>7, <2>8, <2>9 DEF ControllerOK
  <1> QED BY <1>5, <1>7, <1>8, <1>10, <1>16, <1>17, Assemble

LEMMA AccessIs ==
  ASSUME NEW what \in Whats, NEW c \in Controllers \cup {nullptr}, NEW h \in Handles \cup {nullptr}
  PROVE  /\ Access(what, c, h) \in Accesses /\ Access(what, c, h).what = what
         /\ Access(what, c, h).c = c /\ Access(what, c, h).h = h
BY DEF Access, Accesses

LEMMA OnControllerIs ==
  ASSUME NEW what \in Whats, NEW c \in Controllers \cup {nullptr}
  PROVE  /\ OnController(what, c, nullptr) \in Seq(Accesses) /\ Ordered(OnController(what, c, nullptr))
         /\ Items(OnController(what, c, nullptr)) = {x \in {Access(what, c, nullptr)} : c # nullptr}
  <1>1. Access(what, c, nullptr) \in Accesses
    BY AccessIs
  <1>2. CASE c = nullptr
    BY <1>2, NoItems DEF OnController
  <1>3. CASE c # nullptr
    BY <1>1, <1>3, OneItem DEF OnController
  <1> QED BY <1>2, <1>3

LEMMA ReleaseStrongInv ==
  ASSUME PointerInv, NEW t \in Owners, ReleaseStrongRef(t)
  PROVE  PointerInv'
  <1> DEFINE n == Now(t)
  <1>1. todo[t] # <<>> /\ n.what = "subStrong"
    BY DEF ReleaseStrongRef, Facing, Now
  <1>2. /\ n \in Due(t) /\ n \in Accesses /\ AccessOK(t, n) /\ threadSafe \in BOOLEAN
        /\ \A y \in Due(t) \ {n} : Before(n, y) /\ y \in Accesses
    BY <1>1, Running
  <1>3. PICK c0 \in Controllers : n.c = c0
    BY <1>1, <1>2 DEF AccessOK
  <1> DEFINE q == IF strongCount[c0] = 1
                  THEN OnController("destruct", c0, nullptr)
                         \o (IF threadSafe THEN OnController("subWeak", c0, nullptr) ELSE <<>>)
                  ELSE <<>>
             Q == {x \in {Access("destruct", c0, nullptr)} : strongCount[c0] = 1}
                    \cup {x \in {Access("subWeak", c0, nullptr)} : strongCount[c0] = 1 /\ threadSafe}
  <1>4. /\ strongCount' = [strongCount EXCEPT ![c0] = @ - 1]
        /\ threadSafe' = threadSafe /\ weakCount' = weakCount /\ life' = life /\ handle' = handle
        /\ lost' = lost /\ Then(t, q)
    BY <1>3 DEF ReleaseStrongRef
  <1>5. \A y \in Due(t) \ {n} : Rank(y) \in {3, 4} /\ y.what \in {"addStrong", "addWeak", "store"}
    BY <1>1, <1>2 DEF Before, Rank, Accesses, Whats
  <1>6. q \in Seq(Accesses) /\ Ordered(q) /\ Items(q) = Q
    <2>1. /\ OnController("destruct", c0, nullptr) \in Seq(Accesses)
          /\ Ordered(OnController("destruct", c0, nullptr))
          /\ Items(OnController("destruct", c0, nullptr)) = {Access("destruct", c0, nullptr)}
      BY <1>3, OnControllerIs, PointerAssumption DEF Whats
    <2>2. /\ OnController("subWeak", c0, nullptr) \in Seq(Accesses)
          /\ Ordered(OnController("subWeak", c0, nullptr))
          /\ Items(OnController("subWeak", c0, nullptr)) = {Access("subWeak", c0, nullptr)}
      BY <1>3, OnControllerIs, PointerAssumption DEF Whats
    <2>3. Before(Access("destruct", c0, nullptr), Access("subWeak", c0, nullptr))
      BY DEF Before, Rank, Access
    <2> DEFINE a == OnController("destruct", c0, nullptr)
               b == OnController("subWeak", c0, nullptr)
    <2>4. /\ a \o b \in Seq(Accesses) /\ Ordered(a \o b)
          /\ Items(a \o b) = {Access("destruct", c0, nullptr), Access("subWeak", c0, nullptr)}
      <3> HIDE DEF a, b
      <3>1. \A x \in Items(a), y \in Items(b) : Before(x, y)
        BY <2>1, <2>2, <2>3 DEF a, b
      <3> QED BY <2>1, <2>2, <3>1, TwoParts DEF a, b
    <2>5. a \o <<>> = a
      BY <2>1, ConcatEmptySeq
    <2>6. CASE strongCount[c0] = 1 /\ threadSafe
      BY <2>4, <2>6
    <2>7. CASE strongCount[c0] = 1 /\ ~threadSafe
      BY <2>1, <2>5, <2>7
    <2>8. CASE strongCount[c0] # 1
      BY <2>8, NoItems
    <2> QED BY <1>2, <2>6, <2>7, <2>8
  <1>7. /\ Access("destruct", c0, nullptr).what = "destruct" /\ Access("destruct", c0, nullptr).c = c0
       /\ Access("subWeak", c0, nullptr).what = "subWeak" /\ Access("subWeak", c0, nullptr).c = c0
    BY DEF Access
  <1>8. \A x \in Q : Rank(x) \in {1, 2} /\ x.what \in {"destruct", "subWeak"} /\ x.c = c0
    BY DEF Rank, Access
  <1>9. \A x \in Items(q), y \in Due(t) \ {n} : Before(x, y)
    <2>1. \A x, y : Rank(x) \in {1, 2} /\ Rank(y) \in {3, 4} => Before(x, y)
      BY DEF Before
    <2> QED BY <1>5, <1>6, <1>8, <2>1
  <1>10. /\ todo' \in [Owners -> Seq(Accesses)] /\ Ordered(todo[t])'
         /\ \A u \in Owners \ {t} : todo'[u] = todo[u]
         /\ Due(t)' = Items(q) \cup (Due(t) \ {n})
    <2> HIDE DEF q
    <2> QED BY <1>1, <1>4, <1>6, <1>9, Replaced
  <1>11. Due(t)' = Q \cup (Due(t) \ {n})
    BY <1>6, <1>10
  <1>12. /\ DueOf(t, "subStrong")' = {}
         /\ \A what : what \notin {"subStrong", "destruct", "subWeak"} => DueOf(t, what)' = DueOf(t, what)
         /\ DueOf(t, "destruct") = {} /\ DueOf(t, "subWeak") = {}
         /\ DueOf(t, "destruct")' = {x \in Q : x.what = "destruct"}
         /\ DueOf(t, "subWeak")' = {x \in Q : x.what = "subWeak"}
    <2>1. \A y \in Due(t) : y.what \notin {"destruct", "subWeak"}
      BY <1>1, <1>5
    <2>2. DueOf(t, "destruct") = {} /\ DueOf(t, "subWeak") = {}
      BY <2>1 DEF DueOf
    <2>3. \A what : what \notin {"destruct", "subWeak"} => {x \in Q : x.what = what} = {}
      BY <1>8
    <2> HIDE DEF Q
    <2>4. /\ PointerInv /\ t \in Owners /\ todo[t] # <<>> /\ Now(t).what = "subStrong"
         /\ Due(t)' = Q \cup (Due(t) \ {Now(t)})
      BY <1>1, <1>11
    <2>5. /\ DueOf(t, "subStrong")' = {x \in Q : x.what = "subStrong"}
          /\ \A what : what # "subStrong" => DueOf(t, what)' = {x \in Q : x.what = what} \cup DueOf(t, what)
      BY ONLY <2>4, KindsLeft
    <2> HIDE DEF n
    <2> QED BY <2>2, <2>3, <2>5
  <1> HIDE DEF n, q
  <1>13. Mine(t)
    BY <1>4, <1>10 DEF Mine
  <1>14. /\ Strong(t)' = Strong(t) /\ Weak(t)' = Weak(t) /\ Stored(t)' = Stored(t)
    BY <1>4, <1>12 DEF Strong, Weak, Stored
  <1>15. strongCount \in [Controllers -> Nat] /\ ControllerOK(c0) /\ "sub" \in StrongOf(t, c0)
         /\ strongCount[c0] \in Nat /\ strongCount[c0] > 0 /\ life[c0] = "alive"
    <2>1. Doing(t, "subStrong", c0)
      BY <1>1, <1>2, <1>3 DEF Doing, DueOf
    <2>2. "sub" \in StrongOf(t, c0)
      BY <2>1, DoingMeans
    <2> QED BY <1>3, <2>2, Referenced DEF PointerInv, PointerTypes
  <1>16. strongCount'[c0] = strongCount[c0] - 1 /\ strongCount'[c0] \in Nat
    <2> QED BY <1>3, <1>4, <1>15
  <1>17. PointerTypes'
    <2> QED BY <1>3, <1>4, <1>15, <1>16 DEF PointerInv, PointerTypes
  <1>18. \A y \in DueOf(t, "subStrong") : y = n
    BY <1>1, <1>5 DEF DueOf
  <1>19. \A c : Doing(t, "subStrong", c) <=> c = c0
    BY <1>1, <1>2, <1>3, <1>18 DEF Doing, DueOf
  <1>20. \A c : /\ StrongOf(t, c)' = StrongOf(t, c) \ {"sub"}
                /\ c # c0 => "sub" \notin StrongOf(t, c)
    <2>1. \A c : ~Doing(t, "subStrong", c)'
      BY <1>12 DEF Doing
    <2>2. DueOf(t, "addStrong")' = DueOf(t, "addStrong") /\ DueOf(t, "store")' = DueOf(t, "store")
      BY <1>12
    <2> DEFINE R(c) == {h \in Strong(t) : h \notin Stored(t) /\ handle[t][h] = c}
                 \cup {h \in Strong(t) : DueOf(t, "addStrong") = {}
                         /\ \E x \in DueOf(t, "store") : x.h = h /\ x.c = c}
    <2>3. \A c : StrongOf(t, c) = R(c) \cup {k \in {"sub"} : Doing(t, "subStrong", c)}
      BY DEF StrongOf, RefsOf
    <2>4. \A c : StrongOf(t, c)' = R(c) \cup {k \in {"sub"} : FALSE}
      BY <1>4, <1>14, <2>1, <2>2 DEF StrongOf, RefsOf
    <2>5. \A c : "sub" \notin R(c)
      BY HandleKinds
    <2> HIDE DEF R
    <2> QED BY <1>19, <2>3, <2>4, <2>5
  <1>21. \A c : /\ WeakOf(t, c)' = WeakOf(t, c) \cup {k \in {"sub"} : c = c0 /\ strongCount[c0] = 1 /\ threadSafe}
                /\ "sub" \notin WeakOf(t, c)
                /\ Doing(t, "subWeak", c)' <=> c = c0 /\ strongCount[c0] = 1 /\ threadSafe
    <2>1. \A c : Doing(t, "subWeak", c)' <=> c = c0 /\ strongCount[c0] = 1 /\ threadSafe
      <3>1. \A c : (\E x \in {x \in Q : x.what = "subWeak"} : x.c = c)
                     <=> c = c0 /\ strongCount[c0] = 1 /\ threadSafe
        BY <1>7
      <3> HIDE DEF Q
      <3> QED BY <1>12, <3>1 DEF Doing
    <2>2. DueOf(t, "addWeak")' = DueOf(t, "addWeak") /\ DueOf(t, "store")' = DueOf(t, "store")
      BY <1>12
    <2>3. \A c : ~Doing(t, "subWeak", c)
      BY <1>12 DEF Doing
    <2> DEFINE R(c) == {h \in Weak(t) : h \notin Stored(t) /\ handle[t][h] = c}
                 \cup {h \in Weak(t) : DueOf(t, "addWeak") = {}
                         /\ \E x \in DueOf(t, "store") : x.h = h /\ x.c = c}
    <2>4. \A c : WeakOf(t, c) = R(c) \cup {k \in {"sub"} : Doing(t, "subWeak", c)}
      BY DEF WeakOf, RefsOf
    <2>5. \A c : WeakOf(t, c)' = R(c) \cup {k \in {"sub"} : Doing(t, "subWeak", c)'}
      BY <1>4, <1>14, <2>2 DEF WeakOf, RefsOf
    <2>6. \A c : "sub" \notin R(c)
      BY HandleKinds
    <2> HIDE DEF R
    <2> QED BY <2>1, <2>3, <2>4, <2>5, <2>6
  <1>22. \A c : /\ ~Doing(t, "destruct", c) /\ (Doing(t, "destruct", c)' <=> c = c0 /\ strongCount[c0] = 1)
                /\ Doing(t, "delete", c)' = Doing(t, "delete", c)
    <2>1. \A c : Doing(t, "delete", c)' = Doing(t, "delete", c)
      BY <1>12 DEF Doing
    <2>2. \A c : (\E x \in {x \in Q : x.what = "destruct"} : x.c = c)
                   <=> c = c0 /\ strongCount[c0] = 1
      BY <1>7
    <2> HIDE DEF Q
    <2> QED BY <1>12, <2>1, <2>2 DEF Doing
  <1>23. ThreadOK(t)'
    <2>1. ASSUME NEW y \in Due(t) \ {n} PROVE AccessOK(t, y)'
      BY <1>4, <1>5, <1>12, <2>1, RestOK
    <2>2. ASSUME NEW x \in Q PROVE AccessOK(t, x)'
      <3>1. x \in Accesses /\ x.c = c0 /\ x.what \in {"destruct", "subWeak"}
        BY <1>3, <1>8, AccessIs DEF Whats
      <3>2. x.what = "destruct" => strongCount'[c0] = 0 /\ life'[c0] = "alive"
                                   /\ (threadSafe' => Doing(t, "subWeak", c0)')
        BY <1>4, <1>15, <1>16, <1>21, <3>1
      <3> QED BY <1>3, <3>1, <3>2 DEF AccessOK
    <2> QED BY <1>10, <1>11, <2>1, <2>2 DEF ThreadOK
  <1>24. ASSUME NEW c \in Controllers \ {c0} PROVE Keeping(t, c)
    <2>1. StrongOf(t, c)' = StrongOf(t, c) /\ WeakOf(t, c)' = WeakOf(t, c)
      BY <1>20, <1>21
    <2>2. strongCount'[c] = strongCount[c]
      BY <1>3, <1>4, <1>15
    <2>3. Doing(t, "destruct", c)' = Doing(t, "destruct", c)
      <3>1. ~Doing(t, "destruct", c)' /\ ~Doing(t, "destruct", c)
        BY <1>22
      <3> QED BY <3>1 DEF Doing
    <2> QED BY <1>4, <1>22, <2>1, <2>2, <2>3 DEF Keeping, Same
  <1>25. Undisturbed(t, c0)
    BY <1>15, DoingMeans DEF Undisturbed
  <1>26. ControllerOK(c0)'
    <2>1. Cardinality(StrongRefs(c0)') = Cardinality(StrongRefs(c0)) - 1
      <3>1. StrongOf(t, c0)' = StrongOf(t, c0) \ {"sub"} /\ "sub" \in Names \cap StrongOf(t, c0)
        BY <1>15, <1>20, HandleKinds
      <3> QED BY <1>13, <3>1, Others, Counts
    <2>2. Cardinality(WeakRefs(c0)') = Cardinality(WeakRefs(c0))
                                        + (IF strongCount[c0] = 1 /\ threadSafe THEN 1 ELSE 0)
      <3>1. CASE strongCount[c0] = 1 /\ threadSafe
        <4>1. WeakOf(t, c0)' = WeakOf(t, c0) \cup {"sub"} /\ "sub" \in Names \ WeakOf(t, c0)
          BY <1>21, <3>1, HandleKinds
        <4> QED BY <1>13, <3>1, <4>1, Others, Counts
      <3>2. CASE ~(strongCount[c0] = 1 /\ threadSafe)
        <4>1. Same(WeakOf(t, c0), WeakOf(t, c0)')
          BY <1>21, <3>2 DEF Same
        <4>2. Cardinality(WeakRefs(c0)') = Cardinality(WeakRefs(c0))
          BY <1>13, <4>1, Others, Counts
        <4>3. Cardinality(WeakRefs(c0)) \in Nat
          BY <1>3, Referenced
        <4> QED BY <3>2, <4>2, <4>3
      <3> QED BY <3>1, <3>2
    <2>3. Share(c0) = 1 /\ Share(c0)' = IF strongCount[c0] = 1 /\ threadSafe THEN 0 ELSE 1
      BY <1>2, <1>4, <1>15, <1>16 DEF Share
    <2>4. /\ Cardinality(WeakRefs(c0)) \in Nat /\ lost[c0] \in Nat /\ weakCount[c0] \in Nat
          /\ weakCount[c0] > 0
      BY <1>3, <1>15, Referenced
    <2>5. weakCount'[c0] = Cardinality(WeakRefs(c0)') + lost'[c0] + Share(c0)'
      BY <1>2, <1>4, <1>15, <2>2, <2>3, <2>4 DEF ControllerOK
    <2>6. strongCount'[c0] = Cardinality(StrongRefs(c0)')
      BY <1>15, <1>16, <2>1 DEF ControllerOK
    <2>7. strongCount'[c0] = 0 => \E u \in Owners : Doing(u, "destruct", c0)'
      BY <1>15, <1>16, <1>22
    <2>8. \A u, v \in Owners : Doing(u, "destruct", c0)' /\ Doing(v, "destruct", c0)' => u = v
      <3>1. \A u \in Owners \ {t} : ~Doing(u, "destruct", c0)'
        BY <1>13, <1>15, Others, DoingMeans
      <3> QED BY <3>1
    <2>9. \A u, v \in Owners : ~Doing(u, "delete", c0)'
      BY <1>13, <1>15, <1>22, Others, DoingMeans
    <2> QED BY <1>4, <1>15, <2>4, <2>5, <2>6, <2>7, <2>8, <2>9 DEF ControllerOK
  <1> QED BY <1>10, <1>13, <1>17, <1>23, <1>24, <1>25, <1>26, Assemble

\* A step that makes an access other than a store and has nothing follow from it.
LEMMA AccessMade ==
  ASSUME PointerInv, NEW t \in Owners, todo[t] # <<>>, NEW kind, NEW c0,
         Now(t).what = kind, Now(t).c = c0, kind \notin {"store", "load", "cas"},
         Then(t, <<>>), threadSafe' = threadSafe, handle' = handle
  PROVE  /\ Mine(t) /\ todo' \in [Owners -> Seq(Accesses)] /\ Ordered(todo[t])'
         /\ Due(t)' \subseteq Due(t) /\ Now(t) \in Due(t) /\ c0 \in Controllers
         /\ \A y \in Due(t)' : /\ y.what \notin {"load", "cas", "destruct"}
                               /\ kind # "destruct" => y.what # "delete"
                               /\ kind \in {"addStrong", "addWeak"} => y.what = "store"
         /\ DueOf(t, kind)' = {} /\ DueOf(t, kind) = {Now(t)}
         /\ \A what : what # kind => DueOf(t, what)' = DueOf(t, what)
         /\ \A what, c : what # kind => Doing(t, what, c)' = Doing(t, what, c)
         /\ \A c : Doing(t, kind, c) <=> c = c0
         /\ \A c : ~Doing(t, kind, c)'
         /\ Strong(t)' = Strong(t) /\ Weak(t)' = Weak(t) /\ Stored(t)' = Stored(t)
  <1> DEFINE n == Now(t)
  <1>1. /\ n \in Due(t) /\ n \in Accesses /\ AccessOK(t, n)
        /\ \A y \in Due(t) \ {n} : Before(n, y) /\ y \in Accesses
    BY Running
  <1>2. c0 \in Controllers
    BY <1>1 DEF AccessOK
  <1>3. /\ todo' \in [Owners -> Seq(Accesses)] /\ Ordered(todo[t])'
        /\ \A u \in Owners \ {t} : todo'[u] = todo[u]
        /\ Due(t)' = {} \cup (Due(t) \ {n})
    BY NoItems, Replaced
  <1>4. /\ DueOf(t, kind)' = {}
        /\ \A what : what # kind => DueOf(t, what)' = DueOf(t, what)
    BY <1>3, KindsGone
  <1>5. DueOf(t, kind) = {n}
    <2>1. \A y \in Due(t) : y # n => y.what # kind
      BY <1>1, KindsDiffer
    <2> QED BY <1>1, <2>1 DEF DueOf
  <1>6. n.what = kind /\ n.c = c0
    OBVIOUS
  <1> HIDE DEF n
  <1>7. \A y \in Due(t)' : /\ y.what \notin {"load", "cas", "destruct"}
                           /\ kind # "destruct" => y.what # "delete"
                           /\ kind \in {"addStrong", "addWeak"} => y.what = "store"
    <2>1. \A y \in Due(t) \ {n} : /\ y.what \notin {"load", "cas", "destruct"}
                                  /\ kind # "destruct" => y.what # "delete"
                                  /\ kind \in {"addStrong", "addWeak"} => y.what = "store"
      BY <1>1, <1>6 DEF Before, Rank, Accesses, Whats
    <2> QED BY <1>3, <2>1
  <1>8. \A what, c : what # kind => Doing(t, what, c)' = Doing(t, what, c)
    BY <1>4 DEF Doing
  <1>9. \A c : (Doing(t, kind, c) <=> c = c0) /\ ~Doing(t, kind, c)'
    BY <1>4, <1>5, <1>6 DEF Doing
  <1>10. Strong(t)' = Strong(t) /\ Weak(t)' = Weak(t) /\ Stored(t)' = Stored(t)
    <2>1. DueOf(t, "store")' = DueOf(t, "store")
      BY <1>4
    <2> QED BY <2>1 DEF Strong, Weak, Stored
  <1>11. Mine(t)
    BY <1>3 DEF Mine
  <1> QED BY <1>1, <1>2, <1>3, <1>4, <1>5, <1>7, <1>8, <1>9, <1>10, <1>11 DEF n

\* The references of t that an access to neither count changes.
LEMMA RefsSame ==
  ASSUME NEW t, handle' = handle, Strong(t)' = Strong(t), Weak(t)' = Weak(t),
         DueOf(t, "store")' = DueOf(t, "store")
  PROVE  /\ DueOf(t, "addStrong")' = DueOf(t, "addStrong")
            /\ DueOf(t, "subStrong")' = DueOf(t, "subStrong")
              => \A c : StrongOf(t, c)' = StrongOf(t, c)
         /\ DueOf(t, "addWeak")' = DueOf(t, "addWeak")
            /\ DueOf(t, "subWeak")' = DueOf(t, "subWeak")
              => \A c : WeakOf(t, c)' = WeakOf(t, c)
  <1>1. ASSUME DueOf(t, "addStrong")' = DueOf(t, "addStrong"),
               DueOf(t, "subStrong")' = DueOf(t, "subStrong")
        PROVE  \A c : StrongOf(t, c)' = StrongOf(t, c)
    <2>1. \A c : RefsOf(t, c, Strong(t), "addStrong", "subStrong")'
                   = RefsOf(t, c, Strong(t), "addStrong", "subStrong")
      BY <1>1, RefsStay
    <2> QED BY <2>1 DEF StrongOf
  <1>2. ASSUME DueOf(t, "addWeak")' = DueOf(t, "addWeak"), DueOf(t, "subWeak")' = DueOf(t, "subWeak")
        PROVE  \A c : WeakOf(t, c)' = WeakOf(t, c)
    <2>1. \A c : RefsOf(t, c, Weak(t), "addWeak", "subWeak")'
                   = RefsOf(t, c, Weak(t), "addWeak", "subWeak")
      BY <1>2, RefsStay
    <2> QED BY <2>1 DEF WeakOf
  <1> QED BY <1>1, <1>2

LEMMA DestructInv ==
  ASSUME PointerInv, NEW t \in Owners, DestructObject(t)
  PROVE  PointerInv'
  <1>1. todo[t] # <<>> /\ Now(t).what = "destruct"
    BY DEF DestructObject, Facing, Now
  <1>2. PICK c0 \in Controllers : Now(t).c = c0
    BY <1>1, Running DEF AccessOK
  <1>3. /\ life' = [life EXCEPT ![c0] = "destroyed"]
        /\ threadSafe' = threadSafe /\ weakCount' = weakCount /\ strongCount' = strongCount
        /\ handle' = handle /\ lost' = lost /\ Then(t, <<>>)
    BY <1>2 DEF DestructObject
  <1>4. /\ Mine(t) /\ todo' \in [Owners -> Seq(Accesses)] /\ Ordered(todo[t])'
        /\ Due(t)' \subseteq Due(t)
        /\ \A y \in Due(t)' : y.what \notin {"load", "cas", "destruct"}
        /\ \A what : what # "destruct" => DueOf(t, what)' = DueOf(t, what)
        /\ \A what, c : what # "destruct" => Doing(t, what, c)' = Doing(t, what, c)
        /\ \A c : Doing(t, "destruct", c) <=> c = c0
        /\ \A c : ~Doing(t, "destruct", c)'
        /\ Strong(t)' = Strong(t) /\ Weak(t)' = Weak(t)
    BY <1>1, <1>2, <1>3, AccessMade
  <1>5. /\ DueOf(t, "store")' = DueOf(t, "store")
        /\ DueOf(t, "addStrong")' = DueOf(t, "addStrong") /\ DueOf(t, "subStrong")' = DueOf(t, "subStrong")
        /\ DueOf(t, "addWeak")' = DueOf(t, "addWeak") /\ DueOf(t, "subWeak")' = DueOf(t, "subWeak")
    BY <1>4
  <1>6. \A c : StrongOf(t, c)' = StrongOf(t, c) /\ WeakOf(t, c)' = WeakOf(t, c)
    BY <1>3, <1>4, <1>5, RefsSame
  <1>7. Doing(t, "destruct", c0)
    BY <1>4
  <1>8. /\ strongCount[c0] = 0 /\ life[c0] = "alive" /\ (threadSafe => Doing(t, "subWeak", c0))
        /\ ControllerOK(c0) /\ weakCount[c0] \in Nat /\ lost[c0] \in Nat
        /\ Cardinality(WeakRefs(c0)) \in Nat
    BY <1>7, DoingMeans, Referenced
  <1>9. life \in [Controllers -> {"unborn", "alive", "destroyed", "deleted"}]
    BY DEF PointerInv, PointerTypes
  <1>10. PointerTypes'
    BY <1>3, <1>9 DEF PointerInv, PointerTypes
  <1>11. ThreadOK(t)'
    <2>1. ASSUME NEW y \in Due(t)' PROVE AccessOK(t, y)'
      <3>1. y \in Due(t) /\ y.what \notin {"load", "cas", "destruct"}
        BY <1>4
      <3>2. ASSUME y.what = "delete" PROVE weakCount'[y.c] = 0 /\ life'[y.c] = "destroyed"
        <4>1. weakCount[y.c] = 0 /\ life[y.c] = "destroyed" /\ y.c \in Controllers
          BY <3>1, <3>2 DEF PointerInv, ThreadOK, AccessOK
        <4> QED BY <1>3, <1>8, <1>9, <4>1
      <3> QED BY <1>3, <1>5, <3>1, <3>2, RestOK
    <2> QED BY <1>4, <2>1 DEF ThreadOK
  <1>12. ASSUME NEW c \in Controllers \ {c0} PROVE Keeping(t, c)
    <2>1. ~Doing(t, "destruct", c) /\ ~Doing(t, "destruct", c)'
      BY <1>4
    <2>2. Doing(t, "destruct", c)' = Doing(t, "destruct", c)
      BY <2>1 DEF Doing
    <2>3. Doing(t, "delete", c)' = Doing(t, "delete", c)
      BY <1>4
    <2> QED BY <1>3, <1>6, <1>9, <2>2, <2>3 DEF Keeping, Same
  <1>13. Undisturbed(t, c0)
    BY <1>7, <1>8, DoingMeans DEF Undisturbed, ControllerOK
  <1>14. ControllerOK(c0)'
    <2>1. weakCount[c0] > 0
      <3>1. CASE threadSafe
        BY <1>8, <3>1, DoingMeans, Referenced
      <3>2. CASE ~threadSafe
        BY <1>8, <3>2 DEF ControllerOK, Share
      <3> QED BY <3>1, <3>2
    <2>2. /\ Cardinality(StrongRefs(c0)') = Cardinality(StrongRefs(c0))
          /\ Cardinality(WeakRefs(c0)') = Cardinality(WeakRefs(c0))
      <3>1. Same(StrongOf(t, c0), StrongOf(t, c0)') /\ Same(WeakOf(t, c0), WeakOf(t, c0)')
        BY <1>6 DEF Same
      <3> QED BY <1>4, <3>1, Others, Counts
    <2>3. Share(c0)' = Share(c0) /\ life'[c0] = "destroyed"
      BY <1>3, <1>8, <1>9 DEF Share
    <2>4. \A u \in Owners : ~Doing(u, "destruct", c0)'
      BY <1>4, <1>7, <1>8, Others DEF ControllerOK
    <2>5. \A u \in Owners : ~Doing(u, "delete", c0)'
      BY <1>4, <1>8, Others, DoingMeans
    <2> QED BY <1>3, <1>8, <2>1, <2>2, <2>3, <2>4, <2>5 DEF ControllerOK
  <1> QED BY <1>4, <1>10, <1>11, <1>12, <1>13, <1>14, Assemble

LEMMA DeleteInv ==
  ASSUME PointerInv, NEW t \in Owners, DeleteThis(t)
  PROVE  PointerInv'
  <1>1. todo[t] # <<>> /\ Now(t).what = "delete"
    BY DEF DeleteThis, Facing, Now
  <1>2. PICK c0 \in Controllers : Now(t).c = c0
    BY <1>1, Running DEF AccessOK
  <1>3. /\ life' = [life EXCEPT ![c0] = "deleted"]
        /\ threadSafe' = threadSafe /\ weakCount' = weakCount /\ strongCount' = strongCount
        /\ handle' = handle /\ lost' = lost /\ Then(t, <<>>)
    BY <1>2 DEF DeleteThis
  <1>4. /\ Mine(t) /\ todo' \in [Owners -> Seq(Accesses)] /\ Ordered(todo[t])'
        /\ Due(t)' \subseteq Due(t)
        /\ \A y \in Due(t)' : y.what \notin {"load", "cas", "destruct", "delete"}
        /\ \A what : what # "delete" => DueOf(t, what)' = DueOf(t, what)
        /\ \A what, c : what # "delete" => Doing(t, what, c)' = Doing(t, what, c)
        /\ \A c : Doing(t, "delete", c) <=> c = c0
        /\ \A c : ~Doing(t, "delete", c)'
        /\ Strong(t)' = Strong(t) /\ Weak(t)' = Weak(t)
    <2>1. Now(t).what = "delete" /\ Now(t).c = c0 /\ "delete" \notin {"store", "load", "cas"}
      BY <1>1, <1>2
    <2>2. Then(t, <<>>) /\ threadSafe' = threadSafe /\ handle' = handle
      BY <1>3
    <2>3. Mine(t) /\ todo' \in [Owners -> Seq(Accesses)] /\ Ordered(todo[t])'
          /\ Due(t)' \subseteq Due(t)
      BY <1>1, <2>1, <2>2, AccessMade
    <2>4. \A what : what # "delete" => DueOf(t, what)' = DueOf(t, what)
      BY <1>1, <2>1, <2>2, AccessMade
    <2>5. \A what, c : what # "delete" => Doing(t, what, c)' = Doing(t, what, c)
      BY <1>1, <2>1, <2>2, AccessMade
    <2>6. DueOf(t, "delete")' = {} /\ DueOf(t, "delete") = {Now(t)}
      BY <1>1, <2>1, <2>2, AccessMade
    <2>7. (\A c : Doing(t, "delete", c) <=> c = c0) /\ \A c : ~Doing(t, "delete", c)'
      BY <2>1, <2>6 DEF Doing
    <2>8. Strong(t)' = Strong(t) /\ Weak(t)' = Weak(t)
      BY <1>1, <2>1, <2>2, AccessMade
    <2>9. /\ \A y \in Due(t)' : y.what \notin {"load", "cas", "destruct"}
          /\ DueOf(t, "delete")' = {}
      BY <1>1, <2>1, <2>2, AccessMade
    <2>10. \A y \in Due(t)' : y.what # "delete"
      BY <2>9 DEF DueOf
    <2> QED BY <2>3, <2>9, <2>10, <2>4, <2>5, <2>7, <2>8
  <1>5. /\ DueOf(t, "store")' = DueOf(t, "store")
        /\ DueOf(t, "addStrong")' = DueOf(t, "addStrong") /\ DueOf(t, "subStrong")' = DueOf(t, "subStrong")
        /\ DueOf(t, "addWeak")' = DueOf(t, "addWeak") /\ DueOf(t, "subWeak")' = DueOf(t, "subWeak")
    BY <1>4
  <1>6. \A c : StrongOf(t, c)' = StrongOf(t, c) /\ WeakOf(t, c)' = WeakOf(t, c)
    BY <1>3, <1>4, <1>5, RefsSame
  <1>7. Doing(t, "delete", c0)
    BY <1>4
  <1>8. /\ weakCount[c0] = 0 /\ life[c0] = "destroyed" /\ ControllerOK(c0)
        /\ strongCount[c0] \in Nat
    BY <1>7, DoingMeans, Referenced
  <1>9. life \in [Controllers -> {"unborn", "alive", "destroyed", "deleted"}]
    BY DEF PointerInv, PointerTypes
  <1>10. PointerTypes'
    BY <1>3, <1>9 DEF PointerInv, PointerTypes
  <1>11. ThreadOK(t)'
    <2>1. ASSUME NEW y \in Due(t)' PROVE AccessOK(t, y)'
      <3>1. y \in Due(t) /\ y.what \notin {"load", "cas", "destruct"} /\ y.what # "delete"
        BY <1>4
      <3> QED BY <1>3, <1>5, <3>1, RestOK
    <2> QED BY <1>4, <2>1 DEF ThreadOK
  <1>12. ASSUME NEW c \in Controllers \ {c0} PROVE Keeping(t, c)
    <2>1. ~Doing(t, "delete", c) /\ ~Doing(t, "delete", c)'
      BY <1>4
    <2>2. Doing(t, "delete", c)' = Doing(t, "delete", c)
      BY <2>1 DEF Doing
    <2>3. Doing(t, "destruct", c)' = Doing(t, "destruct", c)
      BY <1>4
    <2> QED BY <1>3, <1>6, <1>9, <2>2, <2>3 DEF Keeping, Same
  <1>13. Undisturbed(t, c0)
    BY <1>7, <1>8, DoingMeans DEF Undisturbed, ControllerOK
  <1>14. ControllerOK(c0)'
    <2>1. /\ Cardinality(StrongRefs(c0)') = Cardinality(StrongRefs(c0))
          /\ Cardinality(WeakRefs(c0)') = Cardinality(WeakRefs(c0))
      <3>1. Same(StrongOf(t, c0), StrongOf(t, c0)') /\ Same(WeakOf(t, c0), WeakOf(t, c0)')
        BY <1>6 DEF Same
      <3> QED BY <1>4, <3>1, Others, Counts
    <2>2. Share(c0)' = Share(c0) /\ life'[c0] = "deleted" /\ ~(strongCount[c0] > 0)
      BY <1>3, <1>8, <1>9 DEF Share, ControllerOK
    <2>3. \A u \in Owners : ~Doing(u, "delete", c0)'
      BY <1>4, <1>7, <1>8, Others DEF ControllerOK
    <2>4. \A u \in Owners : ~Doing(u, "destruct", c0)'
      BY <1>4, <1>8, Others, DoingMeans
    <2> QED BY <1>3, <1>8, <2>1, <2>2, <2>3, <2>4 DEF ControllerOK
  <1> QED BY <1>4, <1>10, <1>11, <1>12, <1>13, <1>14, Assemble

\* Once the weak reference was added, the handle that will be given c0 holds it.
LEMMA AddWeakInv ==
  ASSUME PointerInv, NEW t \in Owners, AddWeakRef(t)
  PROVE  PointerInv'
  <1>1. todo[t] # <<>> /\ Now(t).what = "addWeak"
    BY DEF AddWeakRef, Facing, Now
  <1>2. PICK c0 \in Controllers, h \in Weak(t) :
          /\ Now(t).c = c0 /\ DueOf(t, "store") = {Access("store", c0, h)}
          /\ Keeps(t, c0, Strong(t) \cup Weak(t))
    BY <1>1, Running DEF AccessOK
  <1>3. /\ weakCount' = [weakCount EXCEPT ![c0] = @ + 1]
        /\ threadSafe' = threadSafe /\ life' = life /\ strongCount' = strongCount
        /\ handle' = handle /\ lost' = lost /\ Then(t, <<>>)
    BY <1>2 DEF AddWeakRef
  <1>4. /\ Mine(t) /\ todo' \in [Owners -> Seq(Accesses)] /\ Ordered(todo[t])'
        /\ Due(t)' \subseteq Due(t)
        /\ \A y \in Due(t)' : y.what = "store"
        /\ DueOf(t, "addWeak")' = {} /\ DueOf(t, "addWeak") = {Now(t)}
        /\ \A what : what # "addWeak" => DueOf(t, what)' = DueOf(t, what)
        /\ \A what, c : what # "addWeak" => Doing(t, what, c)' = Doing(t, what, c)
        /\ Strong(t)' = Strong(t) /\ Weak(t)' = Weak(t) /\ Stored(t)' = Stored(t)
    BY <1>1, <1>2, <1>3, AccessMade
  <1>5. /\ DueOf(t, "store")' = DueOf(t, "store")
        /\ DueOf(t, "addStrong")' = DueOf(t, "addStrong") /\ DueOf(t, "subStrong")' = DueOf(t, "subStrong")
    BY <1>4
  <1>6. \A c : StrongOf(t, c)' = StrongOf(t, c)
    BY <1>3, <1>4, <1>5, RefsSame
  <1>7. Stored(t) = {h}
    <2>1. {x.h : x \in {Access("store", c0, h)}} = {h}
      BY DEF Access
    <2> QED BY <1>2, <2>1 DEF Stored
  <1>8. \A c : Doing(t, "subWeak", c)' = Doing(t, "subWeak", c)
    BY <1>4
  <1>9. \A c : /\ WeakOf(t, c) = {k \in Weak(t) : k # h /\ handle[t][k] = c}
                                   \cup {k \in {"sub"} : Doing(t, "subWeak", c)}
               /\ WeakOf(t, c)' = {k \in Weak(t) : k # h /\ handle[t][k] = c}
                                    \cup {k \in {h} : c = c0}
                                    \cup {k \in {"sub"} : Doing(t, "subWeak", c)}
    <2>1. \A c : WeakOf(t, c) = {k \in Weak(t) : k # h /\ handle[t][k] = c}
                                  \cup {k \in {"sub"} : Doing(t, "subWeak", c)}
      <3>1. DueOf(t, "addWeak") # {}
        BY <1>4
      <3> QED BY <1>7, <3>1 DEF WeakOf, RefsOf
    <2>2. \A c, k : (\E x \in {Access("store", c0, h)} : x.h = k /\ x.c = c) <=> k = h /\ c = c0
      BY DEF Access
    <2>3. Stored(t)' = {h} /\ DueOf(t, "addWeak")' = {} /\ Weak(t)' = Weak(t)
          /\ DueOf(t, "store")' = {Access("store", c0, h)} /\ handle' = handle
      BY <1>2, <1>3, <1>4, <1>5, <1>7
    <2>4. \A c : WeakOf(t, c)' = {k \in Weak(t) : k # h /\ handle[t][k] = c}
                                   \cup {k \in Weak(t) : k = h /\ c = c0}
                                   \cup {k \in {"sub"} : Doing(t, "subWeak", c)}
      BY <1>8, <2>2, <2>3 DEF WeakOf, RefsOf
    <2> QED BY <2>1, <2>4
  <1>10. weakCount \in [Controllers -> Nat]
    BY DEF PointerInv, PointerTypes
  <1>11. PointerTypes'
    BY <1>3, <1>10 DEF PointerInv, PointerTypes
  <1>12. ThreadOK(t)'
    <2>1. ASSUME NEW y \in Due(t)' PROVE AccessOK(t, y)'
      <3>1. y \in Due(t) /\ y.what = "store"
        BY <1>4
      <3> QED BY <1>3, <1>5, <3>1, RestOK
    <2> QED BY <1>4, <2>1 DEF ThreadOK
  <1>13. \A c : /\ Doing(t, "destruct", c)' = Doing(t, "destruct", c)
                /\ Doing(t, "delete", c)' = Doing(t, "delete", c)
    BY <1>4
  <1>14. ASSUME NEW c \in Controllers \ {c0} PROVE Keeping(t, c)
    <2>1. WeakOf(t, c)' = WeakOf(t, c)
      BY <1>9
    <2> QED BY <1>3, <1>6, <1>10, <1>13, <2>1 DEF Keeping, Same
  <1>15. weakCount[c0] > 0 /\ ControllerOK(c0) /\ weakCount[c0] \in Nat /\ lost[c0] \in Nat
         /\ Cardinality(WeakRefs(c0)) \in Nat /\ life[c0] \notin {"unborn", "deleted"}
    <2>1. PICK g \in Strong(t) \cup Weak(t) : g \notin Stored(t) /\ handle[t][g] = c0
      BY <1>2 DEF Keeps
    <2>2. g \in StrongOf(t, c0) \cup WeakOf(t, c0)
      BY <2>1 DEF StrongOf, WeakOf, RefsOf
    <2>3. weakCount[c0] > 0 /\ ControllerOK(c0) /\ weakCount[c0] \in Nat /\ lost[c0] \in Nat
          /\ Cardinality(WeakRefs(c0)) \in Nat
      BY <2>2, Referenced
    <2> QED BY <2>3 DEF ControllerOK
  <1>16. Undisturbed(t, c0)
    BY <1>3, <1>15, DoingMeans DEF Undisturbed
  <1>17. ControllerOK(c0)'
    <2>1. /\ Cardinality(StrongRefs(c0)') = Cardinality(StrongRefs(c0))
          /\ Cardinality(WeakRefs(c0)') = Cardinality(WeakRefs(c0)) + 1
      <3>1. Same(StrongOf(t, c0), StrongOf(t, c0)')
        BY <1>6 DEF Same
      <3>2. WeakOf(t, c0)' = WeakOf(t, c0) \cup {h} /\ h \in Names \ WeakOf(t, c0)
        BY <1>9, HandleKinds
      <3> QED BY <1>4, <3>1, <3>2, Others, Counts
    <2>2. Share(c0)' = Share(c0) /\ Share(c0) \in Nat
      BY <1>3 DEF Share
    <2>3. /\ \A u \in Owners : Doing(u, "destruct", c0)' = Doing(u, "destruct", c0)
          /\ \A u \in Owners : Doing(u, "delete", c0)' = Doing(u, "delete", c0)
      BY <1>4, <1>13, Others
    <2>4. weakCount'[c0] = weakCount[c0] + 1
      BY <1>3, <1>10
    <2> QED BY <1>3, <1>15, <2>1, <2>2, <2>3, <2>4 DEF ControllerOK
  <1> QED BY <1>4, <1>11, <1>12, <1>14, <1>16, <1>17, Assemble

\* Two references are more than one.
LEMMA OneReference ==
  ASSUME PointerInv, NEW t \in Owners, NEW u \in Owners, NEW c \in Controllers,
         "sub" \in WeakOf(t, c), "sub" \in WeakOf(u, c), t # u
  PROVE  Cardinality(WeakRefs(c)) > 1
  <1> DEFINE R == WeakRefs(c)
             a == <<t, "sub">>
             b == <<u, "sub">>
  <1>1. IsFiniteSet(R) /\ Cardinality(R) \in Nat
    BY TotalFinite DEF WeakRefs
  <1>2. a \in R /\ b \in R /\ a # b
    BY HandleKinds DEF WeakRefs, Total
  <1> HIDE DEF R, a, b
  <1>3. IsFiniteSet(R \ {a}) /\ Cardinality(R \ {a}) = Cardinality(R) - 1
    BY <1>1, <1>2, FS_RemoveElement
  <1>4. Cardinality(R \ {a}) # 0 /\ Cardinality(R \ {a}) \in Nat
    BY <1>2, <1>3, FS_EmptySet, FS_CardinalityType
  <1> QED BY <1>1, <1>3, <1>4 DEF R

LEMMA ReleaseWeakInv ==
  ASSUME PointerInv, NEW t \in Owners, ReleaseWeakRef(t)
  PROVE  PointerInv'
  <1> DEFINE n == Now(t)
  <1>1. todo[t] # <<>> /\ n.what = "subWeak"
    BY DEF ReleaseWeakRef, Facing, Now
  <1>2. /\ n \in Due(t) /\ n \in Accesses /\ AccessOK(t, n) /\ threadSafe \in BOOLEAN
        /\ \A y \in Due(t) \ {n} : Before(n, y) /\ y \in Accesses
    BY <1>1, Running
  <1>3. PICK c0 \in Controllers : n.c = c0
    BY <1>1, <1>2 DEF AccessOK
  <1> DEFINE q == IF weakCount[c0] = 1 THEN OnController("delete", c0, nullptr) ELSE <<>>
             Q == {x \in {Access("delete", c0, nullptr)} : weakCount[c0] = 1}
  <1>4. /\ weakCount' = [weakCount EXCEPT ![c0] = @ - 1]
        /\ threadSafe' = threadSafe /\ strongCount' = strongCount /\ life' = life
        /\ handle' = handle /\ lost' = lost /\ Then(t, q)
    BY <1>3 DEF ReleaseWeakRef
  <1>5. \A y \in Due(t) \ {n} : Rank(y) \in {3, 4} /\ y.what \in {"addStrong", "addWeak", "store"}
    BY <1>1, <1>2 DEF Before, Rank, Accesses, Whats
  <1>6. q \in Seq(Accesses) /\ Ordered(q) /\ Items(q) = Q
    <2>1. /\ OnController("delete", c0, nullptr) \in Seq(Accesses)
          /\ Ordered(OnController("delete", c0, nullptr))
          /\ Items(OnController("delete", c0, nullptr)) = {Access("delete", c0, nullptr)}
      BY <1>3, OnControllerIs, PointerAssumption DEF Whats
    <2>2. CASE weakCount[c0] = 1
      BY <2>1, <2>2
    <2>3. CASE weakCount[c0] # 1
      BY <2>3, NoItems
    <2> QED BY <2>2, <2>3
  <1>7. \A x \in Q : Rank(x) = 2 /\ x.what = "delete" /\ x.c = c0
    BY DEF Rank, Access
  <1>8. \A x \in Items(q), y \in Due(t) \ {n} : Before(x, y)
    <2>1. \A x, y : Rank(x) = 2 /\ Rank(y) \in {3, 4} => Before(x, y)
      BY DEF Before
    <2> QED BY <1>5, <1>6, <1>7, <2>1
  <1>9. /\ todo' \in [Owners -> Seq(Accesses)] /\ Ordered(todo[t])'
        /\ \A u \in Owners \ {t} : todo'[u] = todo[u]
        /\ Due(t)' = Items(q) \cup (Due(t) \ {n})
    <2> HIDE DEF q
    <2> QED BY <1>1, <1>4, <1>6, <1>8, Replaced
  <1>10. Due(t)' = Q \cup (Due(t) \ {n})
    BY <1>6, <1>9
  <1>11. /\ DueOf(t, "subWeak")' = {}
         /\ \A what : what \notin {"subWeak", "delete"} => DueOf(t, what)' = DueOf(t, what)
         /\ DueOf(t, "destruct") = {} /\ DueOf(t, "delete") = {}
         /\ DueOf(t, "delete")' = {x \in Q : x.what = "delete"}
    <2>1. \A y \in Due(t) : y.what \notin {"destruct", "delete"}
      BY <1>1, <1>5
    <2>2. DueOf(t, "destruct") = {} /\ DueOf(t, "delete") = {}
      BY <2>1 DEF DueOf
    <2>3. \A what : what # "delete" => {x \in Q : x.what = what} = {}
      BY <1>7
    <2> HIDE DEF Q
    <2>4. /\ PointerInv /\ t \in Owners /\ todo[t] # <<>> /\ Now(t).what = "subWeak"
         /\ Due(t)' = Q \cup (Due(t) \ {Now(t)})
      BY <1>1, <1>10
    <2>5. /\ DueOf(t, "subWeak")' = {x \in Q : x.what = "subWeak"}
          /\ \A what : what # "subWeak" => DueOf(t, what)' = {x \in Q : x.what = what} \cup DueOf(t, what)
      BY ONLY <2>4, KindsLeft
    <2> HIDE DEF n
    <2> QED BY <2>2, <2>3, <2>5
  <1> HIDE DEF n, q
  <1>12. Mine(t)
    BY <1>4, <1>9 DEF Mine
  <1>13. /\ Strong(t)' = Strong(t) /\ Weak(t)' = Weak(t) /\ Stored(t)' = Stored(t)
    BY <1>4, <1>11 DEF Strong, Weak, Stored
  <1>14. weakCount \in [Controllers -> Nat] /\ ControllerOK(c0) /\ "sub" \in WeakOf(t, c0)
         /\ weakCount[c0] \in Nat /\ weakCount[c0] > 0 /\ lost[c0] \in Nat /\ strongCount[c0] \in Nat
         /\ Cardinality(WeakRefs(c0)) \in Nat
    <2>1. Doing(t, "subWeak", c0)
      BY <1>1, <1>2, <1>3 DEF Doing, DueOf
    <2>2. "sub" \in WeakOf(t, c0)
      BY <2>1, DoingMeans
    <2> QED BY <1>3, <2>2, Referenced DEF PointerInv, PointerTypes
  <1>15. weakCount'[c0] = weakCount[c0] - 1 /\ weakCount'[c0] \in Nat
    <2> QED BY <1>3, <1>4, <1>14
  <1>16. PointerTypes'
    <2> QED BY <1>3, <1>4, <1>14, <1>15 DEF PointerInv, PointerTypes
  <1>17. \A c : ~Doing(t, "destruct", c) /\ ~Doing(t, "delete", c)
    BY <1>11 DEF Doing
  <1>18. ASSUME weakCount[c0] = 1 PROVE life[c0] = "destroyed"
    <2>1. Cardinality(WeakRefs(c0)) # 0
      <3>1. <<t, "sub">> \in WeakRefs(c0)
        BY <1>14, HandleKinds DEF WeakRefs, Total
      <3> QED BY <3>1, TotalFinite, FS_EmptySet DEF WeakRefs
    <2>2. Share(c0) \in {0, 1}
      BY DEF Share
    <2>3. Cardinality(WeakRefs(c0)) = 1 /\ Share(c0) = 0
      BY <1>14, <1>18, <2>1, <2>2 DEF ControllerOK
    <2>4. strongCount[c0] = 0 /\ life[c0] \in {"alive", "destroyed"}
      BY <1>14, <1>18, <2>3 DEF ControllerOK, Share, PointerInv, PointerTypes
    <2>5. threadSafe
      BY <2>3, <2>4 DEF Share
    <2>6. ~(life[c0] = "alive")
      <3> SUFFICES ASSUME life[c0] = "alive" PROVE FALSE
        OBVIOUS
      <3>1. PICK u \in Owners : Doing(u, "destruct", c0)
        BY <1>14, <2>4 DEF ControllerOK
      <3>2. u # t /\ "sub" \in WeakOf(u, c0)
        BY <1>17, <2>5, <3>1, DoingMeans
      <3> QED BY <1>14, <2>3, <3>2, OneReference
    <2> QED BY <2>4, <2>6
  <1>19. \A c : StrongOf(t, c)' = StrongOf(t, c)
    <2>1. /\ DueOf(t, "store")' = DueOf(t, "store")
          /\ DueOf(t, "addStrong")' = DueOf(t, "addStrong") /\ DueOf(t, "subStrong")' = DueOf(t, "subStrong")
      BY <1>11
    <2> QED BY <1>4, <1>13, <2>1, RefsSame
  <1>20. \A c : /\ WeakOf(t, c)' = WeakOf(t, c) \ {"sub"}
                /\ c # c0 => "sub" \notin WeakOf(t, c)
    <2>1. \A c : Doing(t, "subWeak", c) <=> c = c0
      <3>1. \A y \in DueOf(t, "subWeak") : y = n
        BY <1>1, <1>5 DEF DueOf
      <3> QED BY <1>1, <1>2, <1>3, <3>1 DEF Doing, DueOf
    <2>2. \A c : ~Doing(t, "subWeak", c)'
      BY <1>11 DEF Doing
    <2>3. DueOf(t, "addWeak")' = DueOf(t, "addWeak") /\ DueOf(t, "store")' = DueOf(t, "store")
      BY <1>11
    <2> DEFINE R(c) == {h \in Weak(t) : h \notin Stored(t) /\ handle[t][h] = c}
                 \cup {h \in Weak(t) : DueOf(t, "addWeak") = {}
                         /\ \E x \in DueOf(t, "store") : x.h = h /\ x.c = c}
    <2>4. \A c : WeakOf(t, c) = R(c) \cup {k \in {"sub"} : Doing(t, "subWeak", c)}
      BY DEF WeakOf, RefsOf
    <2>5. \A c : WeakOf(t, c)' = R(c) \cup {k \in {"sub"} : FALSE}
      BY <1>4, <1>13, <2>2, <2>3 DEF WeakOf, RefsOf
    <2>6. \A c : "sub" \notin R(c)
      BY HandleKinds
    <2> HIDE DEF R
    <2> QED BY <2>1, <2>4, <2>5, <2>6
  <1>21. \A c : /\ Doing(t, "destruct", c)' = Doing(t, "destruct", c)
                /\ Doing(t, "delete", c)' <=> c = c0 /\ weakCount[c0] = 1
    <2>1. \A c : Doing(t, "destruct", c)' = Doing(t, "destruct", c)
      BY <1>11 DEF Doing
    <2>2. \A c : (\E x \in {x \in Q : x.what = "delete"} : x.c = c) <=> c = c0 /\ weakCount[c0] = 1
      <3>1. Access("delete", c0, nullptr).what = "delete" /\ Access("delete", c0, nullptr).c = c0
        BY DEF Access
      <3> QED BY <3>1
    <2> HIDE DEF Q
    <2> QED BY <1>11, <2>1, <2>2 DEF Doing
  <1>22. ThreadOK(t)'
    <2>1. ASSUME NEW y \in Due(t) \ {n} PROVE AccessOK(t, y)'
      BY <1>4, <1>5, <1>11, <2>1, RestOK
    <2>2. ASSUME NEW x \in Q PROVE AccessOK(t, x)'
      <3>1. x \in Accesses /\ x.c = c0 /\ x.what = "delete" /\ weakCount[c0] = 1
        BY <1>3, <1>7, AccessIs DEF Whats
      <3>2. weakCount'[c0] = 0 /\ life'[c0] = "destroyed"
        BY <1>4, <1>15, <1>18, <3>1
      <3> QED BY <1>3, <3>1, <3>2 DEF AccessOK
    <2> QED BY <1>9, <1>10, <2>1, <2>2 DEF ThreadOK
  <1>23. ASSUME NEW c \in Controllers \ {c0} PROVE Keeping(t, c)
    <2>1. StrongOf(t, c)' = StrongOf(t, c) /\ WeakOf(t, c)' = WeakOf(t, c)
      BY <1>19, <1>20
    <2>2. weakCount'[c] = weakCount[c]
      BY <1>3, <1>4, <1>14
    <2>3. Doing(t, "delete", c)' = Doing(t, "delete", c)
      <3>1. ~Doing(t, "delete", c)' /\ ~Doing(t, "delete", c)
        BY <1>17, <1>21
      <3> QED BY <3>1 DEF Doing
    <2> QED BY <1>4, <1>21, <2>1, <2>2, <2>3 DEF Keeping, Same
  <1>24. Undisturbed(t, c0)
    BY <1>4, <1>14, DoingMeans DEF Undisturbed
  <1>25. ControllerOK(c0)'
    <2>1. Cardinality(StrongRefs(c0)') = Cardinality(StrongRefs(c0))
      <3>1. Same(StrongOf(t, c0), StrongOf(t, c0)')
        BY <1>19 DEF Same
      <3> QED BY <1>12, <3>1, Others, Counts
    <2>2. Cardinality(WeakRefs(c0)') = Cardinality(WeakRefs(c0)) - 1
      <3>1. WeakOf(t, c0)' = WeakOf(t, c0) \ {"sub"} /\ "sub" \in Names \cap WeakOf(t, c0)
        BY <1>14, <1>20, HandleKinds
      <3> QED BY <1>12, <3>1, Others, Counts
    <2>3. Share(c0)' = Share(c0) /\ Share(c0) \in Nat
      BY <1>4 DEF Share
    <2>4. weakCount'[c0] = Cardinality(WeakRefs(c0)') + lost'[c0] + Share(c0)'
      BY <1>4, <1>14, <1>15, <2>2, <2>3 DEF ControllerOK
    <2>5. strongCount'[c0] = Cardinality(StrongRefs(c0)')
      BY <1>4, <1>14, <2>1 DEF ControllerOK
    <2>6. \A u \in Owners : Doing(u, "destruct", c0)' = Doing(u, "destruct", c0)
      BY <1>12, <1>21, Others
    <2>7. life[c0] = "destroyed" /\ weakCount'[c0] = 0 => \E u \in Owners : Doing(u, "delete", c0)'
      BY <1>14, <1>15, <1>21
    <2>8. \A u, v \in Owners : Doing(u, "delete", c0)' /\ Doing(v, "delete", c0)' => u = v
      <3>1. \A u \in Owners \ {t} : ~Doing(u, "delete", c0)'
        BY <1>12, <1>14, Others, DoingMeans
      <3> QED BY <3>1
    <2>9. life[c0] \notin {"unborn", "deleted"}
      BY <1>14 DEF ControllerOK
    <2> QED BY <1>4, <1>14, <2>4, <2>5, <2>6, <2>7, <2>8, <2>9 DEF ControllerOK
  <1> QED BY <1>9, <1>12, <1>16, <1>22, <1>23, <1>24, <1>25, Assemble

\* A store is made: the handle holds what it was about to hold.
LEMMA StoreHandleInv ==
  ASSUME PointerInv, NEW t \in Owners, StoreHandle(t)
  PROVE  PointerInv'
  <1> DEFINE n == Now(t)
             h == n.h
             d == n.c
  <1>1. todo[t] # <<>> /\ n.what = "store"
    BY DEF StoreHandle, Facing, Now
  <1>2. /\ n \in Due(t) /\ n \in Accesses /\ AccessOK(t, n)
        /\ \A y \in Due(t) \ {n} : Before(n, y) /\ y \in Accesses
    BY <1>1, Running
  <1>3. PICK h0, d0 : n.h = h0 /\ n.c = d0
    OBVIOUS
  <1>4. h0 \in Handles /\ d0 \in Controllers \cup {nullptr}
    BY <1>1, <1>2, <1>3, HandleKinds DEF AccessOK, Accesses
  <1>5. /\ handle' = [handle EXCEPT ![t][h0] = d0]
        /\ threadSafe' = threadSafe /\ strongCount' = strongCount /\ weakCount' = weakCount
        /\ life' = life /\ lost' = lost /\ Then(t, <<>>)
    BY <1>3 DEF StoreHandle
  <1>6. /\ todo' \in [Owners -> Seq(Accesses)] /\ Ordered(todo[t])'
        /\ \A u \in Owners \ {t} : todo'[u] = todo[u]
        /\ Due(t)' = {} \cup (Due(t) \ {n})
    BY <1>1, <1>5, NoItems, Replaced
  <1>7. handle \in [Owners -> [Handles -> Controllers \cup {nullptr}]]
    BY DEF PointerInv, PointerTypes
  <1>8. /\ \A u \in Owners \ {t} : handle'[u] = handle[u]
        /\ handle'[t][h0] = d0 /\ \A k \in Handles : k # h0 => handle'[t][k] = handle[t][k]
    BY <1>4, <1>5, <1>7
  <1>9. Mine(t)
    BY <1>5, <1>6, <1>8 DEF Mine
  <1>10. PointerTypes'
    <2>1. handle' \in [Owners -> [Handles -> Controllers \cup {nullptr}]]
      BY <1>4, <1>5, <1>7
    <2> QED BY <1>5, <2>1 DEF PointerInv, PointerTypes
  <1>11. \A y \in Due(t) : y.what = "store" /\ (y # n => y.h # h0)
    <2>1. \A y \in Due(t) \ {n} : y.what = "store"
      BY <1>1, <1>2 DEF Before, Rank, Accesses, Whats
    <2> QED BY <1>1, <1>2, <1>3, <2>1, KindsDiffer
  <1> HIDE DEF n
  <1>12. /\ DueOf(t, "store") = Due(t) /\ DueOf(t, "store")' = Due(t) \ {n}
         /\ \A what : what # "store" => DueOf(t, what) = {} /\ DueOf(t, what)' = {}
    BY <1>6, <1>11 DEF DueOf
  <1>13. \A what, c : what # "store" => ~Doing(t, what, c) /\ ~Doing(t, what, c)'
    BY <1>12 DEF Doing
  <1>14. /\ \A k : k \in Stored(t) <=> \E x \in Due(t) : x.h = k
         /\ \A k : k \in Stored(t)' <=> \E x \in Due(t) \ {n} : x.h = k
    <2>1. Stored(t) = {x.h : x \in Due(t)} /\ Stored(t)' = {x.h : x \in Due(t) \ {n}}
      BY <1>12 DEF Stored
    <2> QED BY <2>1
  <1>15. Strong(t)' = Strong(t) /\ Weak(t)' = Weak(t)
    BY <1>5 DEF Strong, Weak
  <1>16. ASSUME NEW own, own \subseteq Handles, NEW add, NEW sub, add # "store", sub # "store"
         PROVE  \A c : RefsOf(t, c, own, add, sub)' = RefsOf(t, c, own, add, sub)
    <2> SUFFICES ASSUME NEW c PROVE RefsOf(t, c, own, add, sub)' = RefsOf(t, c, own, add, sub)
      OBVIOUS
    <2> DEFINE K(k) == (~(\E x \in Due(t) : x.h = k) /\ handle[t][k] = c)
                          \/ \E x \in Due(t) : x.h = k /\ x.c = c
               L(k) == (~(\E x \in Due(t) \ {n} : x.h = k) /\ handle'[t][k] = c)
                          \/ \E x \in Due(t) \ {n} : x.h = k /\ x.c = c
    <2>1. RefsOf(t, c, own, add, sub) = {k \in own : K(k)}
      BY <1>12, <1>13, <1>14, <1>16 DEF RefsOf
    <2>2. RefsOf(t, c, own, add, sub)' = {k \in own : L(k)}
      BY <1>12, <1>13, <1>14, <1>16 DEF RefsOf
    <2>3. ASSUME NEW k \in own PROVE K(k) <=> L(k)
      <3>1. CASE k = h0
        BY <1>2, <1>3, <1>8, <1>11, <3>1
      <3>2. CASE k # h0
        BY <1>2, <1>3, <1>8, <1>11, <1>16, <3>2
      <3> QED BY <3>1, <3>2
    <2> HIDE DEF K, L
    <2> QED BY <2>1, <2>2, <2>3
  <1>17. \A c : StrongOf(t, c)' = StrongOf(t, c) /\ WeakOf(t, c)' = WeakOf(t, c)
    <2>1. \A c : RefsOf(t, c, Strong(t), "addStrong", "subStrong")'
                   = RefsOf(t, c, Strong(t), "addStrong", "subStrong")
      BY <1>15, <1>16, HandleKinds
    <2>2. \A c : RefsOf(t, c, Weak(t), "addWeak", "subWeak")'
                   = RefsOf(t, c, Weak(t), "addWeak", "subWeak")
      BY <1>15, <1>16, HandleKinds
    <2> QED BY <2>1, <2>2 DEF StrongOf, WeakOf
  <1>18. ASSUME NEW c \in Controllers PROVE Keeping(t, c)
    <2>1. /\ Doing(t, "destruct", c)' = Doing(t, "destruct", c)
          /\ Doing(t, "delete", c)' = Doing(t, "delete", c)
      <3>1. DueOf(t, "destruct")' = DueOf(t, "destruct") /\ DueOf(t, "delete")' = DueOf(t, "delete")
        BY <1>12
      <3> QED BY <3>1 DEF Doing
    <2> QED BY <1>5, <1>17, <2>1 DEF Keeping, Same
  <1>19. ThreadOK(t)'
    <2>1. ASSUME NEW y \in Due(t) \ {n} PROVE AccessOK(t, y)'
      <3>1. y.what = "store" /\ AccessOK(t, y)
        BY <1>11 DEF PointerInv, ThreadOK
      <3> QED BY <1>15, <3>1 DEF AccessOK
    <2> QED BY <1>6, <2>1 DEF ThreadOK
  <1> QED BY <1>6, <1>9, <1>10, <1>18, <1>19, Assemble

-----------------------------------------------------------------------------
(* Operations that give a handle something else to hold *)

\* Accesses in the order of operations: those that release, then the one that adds, then
\* the stores.
LEMMA Releases ==
  ASSUME NEW sub \in {"subStrong", "subWeak"}, NEW old \in Controllers \cup {nullptr}
  PROVE  LET a == OnController(sub, old, nullptr)
         IN  /\ a \in Seq(Accesses) /\ Ordered(a)
             /\ \A x : x \in Items(a) <=> x = Access(sub, old, nullptr) /\ old # nullptr
             /\ \A x \in Items(a) : Rank(x) = 2
  <1>1. /\ OnController(sub, old, nullptr) \in Seq(Accesses) /\ Ordered(OnController(sub, old, nullptr))
        /\ Items(OnController(sub, old, nullptr)) = {x \in {Access(sub, old, nullptr)} : old # nullptr}
    BY OnControllerIs DEF Whats
  <1>2. Rank(Access(sub, old, nullptr)) = 2
    BY DEF Rank, Access
  <1> QED BY <1>1, <1>2

LEMMA Stores ==
  ASSUME NEW d \in Controllers \cup {nullptr}, NEW h \in Handles
  PROVE  /\ Store(d, h) \in Seq(Accesses) /\ Ordered(Store(d, h))
         /\ \A x : x \in Items(Store(d, h)) <=> x = Access("store", d, h)
         /\ Rank(Access("store", d, h)) = 4
         /\ Access("store", d, h).h = h /\ Access("store", d, h).c = d
  <1>1. Access("store", d, h) \in Accesses
    BY AccessIs DEF Whats
  <1>2. /\ Store(d, h) \in Seq(Accesses) /\ Ordered(Store(d, h))
        /\ Items(Store(d, h)) = {Access("store", d, h)}
    BY <1>1, OneItem DEF Store
  <1>3. Access("store", d, h).what = "store" /\ Access("store", d, h).h = h
        /\ Access("store", d, h).c = d
    BY DEF Access
  <1> QED BY <1>2, <1>3 DEF Rank

LEMMA ReleaseAndStore ==
  ASSUME NEW sub \in {"subStrong", "subWeak"}, NEW old \in Controllers \cup {nullptr},
         NEW d \in Controllers \cup {nullptr}, NEW h \in Handles
  PROVE  LET q == OnController(sub, old, nullptr) \o Store(d, h)
         IN  /\ q \in Seq(Accesses) /\ Ordered(q)
             /\ \A x : x \in Items(q) <=>
                  (x = Access(sub, old, nullptr) /\ old # nullptr) \/ x = Access("store", d, h)
  <1> DEFINE a == OnController(sub, old, nullptr)
             s == Store(d, h)
  <1>1. /\ a \in Seq(Accesses) /\ Ordered(a)
        /\ \A x : x \in Items(a) <=> x = Access(sub, old, nullptr) /\ old # nullptr
        /\ \A x \in Items(a) : Rank(x) = 2
    BY Releases
  <1>2. /\ s \in Seq(Accesses) /\ Ordered(s) /\ (\A x : x \in Items(s) <=> x = Access("store", d, h))
        /\ Rank(Access("store", d, h)) = 4
    BY Stores
  <1> HIDE DEF a, s
  <1>3. \A x \in Items(a), y \in Items(s) : Before(x, y)
    BY <1>1, <1>2 DEF Before
  <1>4. a \o s \in Seq(Accesses) /\ Ordered(a \o s) /\ Items(a \o s) = Items(a) \cup Items(s)
    BY <1>1, <1>2, <1>3, TwoParts
  <1> QED BY <1>1, <1>2, <1>4 DEF a, s

LEMMA ReleaseAddAndStore ==
  ASSUME NEW sub \in {"subStrong", "subWeak"}, NEW add \in {"addStrong", "addWeak"},
         NEW old \in Controllers \cup {nullptr}, NEW d \in Controllers \cup {nullptr}, NEW h \in Handles
  PROVE  LET q == OnController(sub, old, nullptr) \o OnController(add, d, nullptr) \o Store(d, h)
         IN  /\ q \in Seq(Accesses) /\ Ordered(q)
             /\ \A x : x \in Items(q) <=>
                  \/ x = Access(sub, old, nullptr) /\ old # nullptr
                  \/ x = Access(add, d, nullptr) /\ d # nullptr
                  \/ x = Access("store", d, h)
  <1> DEFINE a == OnController(sub, old, nullptr)
             b == OnController(add, d, nullptr)
             s == Store(d, h)
  <1>1. /\ a \in Seq(Accesses) /\ Ordered(a)
        /\ \A x : x \in Items(a) <=> x = Access(sub, old, nullptr) /\ old # nullptr
        /\ \A x \in Items(a) : Rank(x) = 2
    BY Releases
  <1>2. /\ b \in Seq(Accesses) /\ Ordered(b)
        /\ \A x : x \in Items(b) <=> x = Access(add, d, nullptr) /\ d # nullptr
        /\ \A x \in Items(b) : Rank(x) = 3
    <2>1. b \in Seq(Accesses) /\ Ordered(b) /\ Items(b) = {x \in {Access(add, d, nullptr)} : d # nullptr}
      BY OnControllerIs DEF Whats
    <2>2. Rank(Access(add, d, nullptr)) = 3
      BY DEF Rank, Access
    <2> QED BY <2>1, <2>2
  <1>3. /\ s \in Seq(Accesses) /\ Ordered(s) /\ (\A x : x \in Items(s) <=> x = Access("store", d, h))
        /\ Rank(Access("store", d, h)) = 4
    BY Stores
  <1> HIDE DEF a, b, s
  <1>4. \A x \in Items(a), y \in Items(b) : Before(x, y)
    BY <1>1, <1>2 DEF Before
  <1>5. a \o b \in Seq(Accesses) /\ Ordered(a \o b) /\ Items(a \o b) = Items(a) \cup Items(b)
    BY <1>1, <1>2, <1>4, TwoParts
  <1>6. \A x \in Items(a \o b), y \in Items(s) : Before(x, y)
    BY <1>1, <1>2, <1>3, <1>5 DEF Before
  <1>7. /\ (a \o b) \o s \in Seq(Accesses) /\ Ordered((a \o b) \o s)
        /\ Items((a \o b) \o s) = Items(a \o b) \cup Items(s)
    BY <1>3, <1>5, <1>6, TwoParts
  <1> QED BY <1>1, <1>2, <1>3, <1>5, <1>7 DEF a, b, s

LEMMA ReleaseAndMove ==
  ASSUME NEW sub \in {"subStrong", "subWeak"}, NEW old \in Controllers \cup {nullptr},
         NEW d \in Controllers \cup {nullptr}, NEW h \in Handles, NEW g \in Handles, h # g
  PROVE  LET q == OnController(sub, old, nullptr) \o Store(d, h) \o Store(nullptr, g)
         IN  /\ q \in Seq(Accesses) /\ Ordered(q)
             /\ \A x : x \in Items(q) <=>
                  \/ x = Access(sub, old, nullptr) /\ old # nullptr
                  \/ x = Access("store", d, h) \/ x = Access("store", nullptr, g)
  <1> DEFINE a == OnController(sub, old, nullptr)
             s == Store(d, h)
             r == Store(nullptr, g)
  <1>1. /\ a \o s \in Seq(Accesses) /\ Ordered(a \o s)
        /\ \A x : x \in Items(a \o s) <=>
             (x = Access(sub, old, nullptr) /\ old # nullptr) \/ x = Access("store", d, h)
    BY ReleaseAndStore
  <1>2. nullptr \in Controllers \cup {nullptr}
    OBVIOUS
  <1>3. /\ r \in Seq(Accesses) /\ Ordered(r) /\ (\A x : x \in Items(r) <=> x = Access("store", nullptr, g))
        /\ Rank(Access("store", nullptr, g)) = 4
        /\ Access("store", nullptr, g).h = g /\ Access("store", nullptr, g).c = nullptr
    BY <1>2, Stores
  <1>4. Rank(Access("store", d, h)) = 4 /\ Access("store", d, h).h = h
    BY Stores
  <1>5. Rank(Access(sub, old, nullptr)) = 2
    BY DEF Rank, Access
  <1> HIDE DEF a, s, r
  <1>6. \A x \in Items(a \o s), y \in Items(r) : Before(x, y)
    BY <1>1, <1>3, <1>4, <1>5 DEF Before
  <1>7. /\ (a \o s) \o r \in Seq(Accesses) /\ Ordered((a \o s) \o r)
        /\ Items((a \o s) \o r) = Items(a \o s) \cup Items(r)
    BY <1>1, <1>3, <1>6, TwoParts
  <1> QED BY <1>1, <1>3, <1>7 DEF a, s, r

\* A thread that has done nothing yet about what its handles hold.
Resting(t) == \A x \in Due(t) : x.what \in {"load", "cas"}

LEMMA RestingHas ==
  ASSUME NEW t, Resting(t)
  PROVE  /\ Stored(t) = {} /\ \A what : what \notin {"load", "cas"} => DueOf(t, what) = {}
         /\ \A what, c : what \notin {"load", "cas"} => ~Doing(t, what, c)
         /\ \A c, own, add, sub : add \notin {"load", "cas"} /\ sub \notin {"load", "cas"} =>
              RefsOf(t, c, own, add, sub) = {h \in own : handle[t][h] = c}
  <1>1. \A what : what \notin {"load", "cas"} => DueOf(t, what) = {}
    BY DEF DueOf, Resting
  <1>2. \A what, c : what \notin {"load", "cas"} => ~Doing(t, what, c)
    BY <1>1 DEF Doing
  <1>3. Stored(t) = {} /\ DueOf(t, "store") = {}
    BY <1>1 DEF Stored
  <1> QED BY <1>1, <1>2, <1>3 DEF RefsOf

\* The handle h gave up what it held.
LEMMA GivesUp ==
  ASSUME NEW R, NEW T, R \subseteq Handles, NEW h \in Handles,
         \A k : k \in T <=> (k \in R /\ k # h) \/ (k = "sub" /\ h \in R)
  PROVE  Same(R, T)
  <1>1. "sub" \in Names \ R /\ h \in Names /\ R \subseteq Names
    BY DEF Names, Handles
  <1>2. CASE h \in R
    <2>1. T = (R \ {h}) \cup {"sub"}
      BY <1>2
    <2> QED BY <1>1, <1>2, <2>1 DEF Same
  <1>3. CASE h \notin R
    <2>1. T = R
      BY <1>3
    <2> QED BY <2>1 DEF Same
  <1> QED BY <1>2, <1>3

\* It gave it up and took something else of the same controller.
LEMMA TakesToo ==
  ASSUME NEW R, NEW T, R \subseteq Handles, NEW h \in Handles,
         \A k : k \in T <=> (k \in R /\ k # h) \/ k = h \/ (k = "sub" /\ h \in R)
  PROVE  \E x \in Names \ R : T = R \cup {x}
  <1>1. "sub" \in Names \ R /\ h \in Names /\ R \subseteq Names
    BY DEF Names, Handles
  <1>2. CASE h \in R
    <2>1. T = R \cup {"sub"}
      BY <1>2
    <2> QED BY <1>1, <2>1
  <1>3. CASE h \notin R
    <2>1. T = R \cup {h}
      BY <1>3
    <2> QED BY <1>1, <1>3, <2>1
  <1> QED BY <1>2, <1>3

\* It gave it up and took what g held.
LEMMA TakesOver ==
  ASSUME NEW R, NEW T, R \subseteq Handles, NEW h \in Handles, NEW g \in Handles, h # g,
         \A k : k \in T <=> (k \in R /\ k # h /\ k # g) \/ (k = h /\ g \in R) \/ (k = "sub" /\ h \in R)
  PROVE  Same(R, T)
  <1>1. "sub" \in Names \ R /\ h \in Names /\ g \in Names /\ R \subseteq Names
    BY DEF Names, Handles
  <1>2. CASE h \in R /\ g \in R
    <2>1. T = (R \ {g}) \cup {"sub"}
      BY <1>2
    <2> QED BY <1>1, <1>2, <2>1 DEF Same
  <1>3. CASE h \in R /\ g \notin R
    <2>1. T = (R \ {h}) \cup {"sub"}
      BY <1>3
    <2> QED BY <1>1, <1>3, <2>1 DEF Same
  <1>4. CASE h \notin R /\ g \in R
    <2>1. T = (R \ {g}) \cup {h}
      BY <1>4
    <2> QED BY <1>1, <1>4, <2>1 DEF Same
  <1>5. CASE h \notin R /\ g \notin R
    <2>1. T = R
      BY <1>5
    <2> QED BY <2>1 DEF Same
  <1> QED BY <1>2, <1>3, <1>4, <1>5

\* The references of the other kind stay.
LEMMA OtherRefs ==
  ASSUME NEW t, Resting(t), handle' = handle, NEW own, NEW sub, NEW add,
         sub \notin {"load", "cas"}, add \notin {"load", "cas"},
         DueOf(t, sub)' = {}, \A x \in DueOf(t, "store")' : x.h \notin own
  PROVE  \A c : RefsOf(t, c, own, add, sub)' = RefsOf(t, c, own, add, sub)
  <1>1. \A c : RefsOf(t, c, own, add, sub) = {k \in own : handle[t][k] = c}
    BY RestingHas
  <1>2. \A k \in own : k \notin Stored(t)'
    BY DEF Stored
  <1>3. \A c : ~Doing(t, sub, c)'
    BY DEF Doing
  <1>4. \A c : RefsOf(t, c, own, add, sub)' = {k \in own : handle[t][k] = c}
    BY <1>2, <1>3 DEF RefsOf
  <1> QED BY <1>1, <1>4

LEMMA RestingStays ==
  ASSUME NEW t, Resting(t), Resting(t)', handle' = handle, threadSafe' = threadSafe
  PROVE  /\ \A c : StrongOf(t, c)' = StrongOf(t, c) /\ WeakOf(t, c)' = WeakOf(t, c)
         /\ \A c : Doing(t, "destruct", c)' = Doing(t, "destruct", c)
         /\ \A c : Doing(t, "delete", c)' = Doing(t, "delete", c)
         /\ Stored(t)' = {} /\ Strong(t)' = Strong(t) /\ Weak(t)' = Weak(t)
  <1>1. \A what : what \notin {"load", "cas"} => DueOf(t, what)' = {} /\ DueOf(t, what) = {}
    BY DEF DueOf, Resting
  <1>2. Strong(t)' = Strong(t) /\ Weak(t)' = Weak(t)
    BY DEF Strong, Weak
  <1>3. DueOf(t, "store")' = {} /\ DueOf(t, "subStrong")' = {} /\ DueOf(t, "subWeak")' = {}
        /\ DueOf(t, "destruct")' = DueOf(t, "destruct") /\ DueOf(t, "delete")' = DueOf(t, "delete")
    BY <1>1
  <1>4. \A x \in DueOf(t, "store")' : x.h \notin Strong(t) /\ x.h \notin Weak(t)
    BY <1>3
  <1>5. \A c : RefsOf(t, c, Strong(t), "addStrong", "subStrong")'
                 = RefsOf(t, c, Strong(t), "addStrong", "subStrong")
    BY <1>2, <1>3, <1>4, OtherRefs
  <1>6. \A c : RefsOf(t, c, Weak(t), "addWeak", "subWeak")'
                 = RefsOf(t, c, Weak(t), "addWeak", "subWeak")
    BY <1>2, <1>3, <1>4, OtherRefs
  <1>7. Stored(t)' = {}
    BY <1>3 DEF Stored
  <1> QED BY <1>2, <1>3, <1>5, <1>6, <1>7 DEF StrongOf, WeakOf, Doing

\* The operation of t gives its strong handle h another controller d, or nullptr.
LEMMA AssignsStrong ==
  ASSUME PointerInv, NEW t \in Owners, Mine(t), Resting(t), handle' = handle,
         NEW h \in Strong(t), NEW d \in Controllers \cup {nullptr},
         DueOf(t, "addStrong")' \subseteq {Access("addStrong", d, nullptr)},
         DueOf(t, "addStrong")' # {} =>
           d \in Controllers /\ \E k \in Strong(t) : k # h /\ handle[t][k] = d,
         \A x : x \in Due(t)' <=>
           \/ x = Access("subStrong", handle[t][h], nullptr) /\ handle[t][h] # nullptr
           \/ x \in DueOf(t, "addStrong")' \/ x = Access("store", d, h),
         Ordered(todo[t])'
  PROVE  /\ ThreadOK(t)'
         /\ \A c \in Controllers : DueOf(t, "addStrong")' # {} \/ c # d => Same(StrongOf(t, c), StrongOf(t, c)')
         /\ DueOf(t, "addStrong")' = {} /\ d \in Controllers =>
              \E x \in Names \ StrongOf(t, d) : StrongOf(t, d)' = StrongOf(t, d) \cup {x}
         /\ \A c : WeakOf(t, c)' = WeakOf(t, c)
         /\ \A c : Doing(t, "destruct", c)' = Doing(t, "destruct", c)
         /\ \A c : Doing(t, "delete", c)' = Doing(t, "delete", c)
         /\ \A c : ~Doing(t, "destruct", c)
  <1>1. PICK old : handle[t][h] = old
    OBVIOUS
  <1> DEFINE s == Access("store", d, h)
             b == Access("subStrong", old, nullptr)
             a == Access("addStrong", d, nullptr)
  <1>2. /\ s.what = "store" /\ s.h = h /\ s.c = d
        /\ b.what = "subStrong" /\ b.c = old
        /\ a.what = "addStrong" /\ a.c = d
    BY DEF Access
  <1>3. /\ \A x \in DueOf(t, "addStrong")' : x = a
        /\ \A x : x \in Due(t)' <=> \/ x = b /\ old # nullptr
                                \/ x \in DueOf(t, "addStrong")' \/ x = s
    BY <1>1
  <1>4. h \in Handles /\ old \in Controllers \cup {nullptr}
    BY <1>1, HandleKinds DEF PointerInv, PointerTypes
  <1>5. s \in Accesses /\ a \in Accesses /\ b \in Accesses
    BY <1>4, AccessIs DEF Whats
  <1> HIDE DEF s, a, b
  <1>6. DueOf(t, "store")' = {s}
    BY <1>2, <1>3 DEF DueOf
  <1>7. /\ \A what : what \notin {"store", "addStrong", "subStrong"} => DueOf(t, what)' = {}
        /\ DueOf(t, "addWeak")' = {} /\ DueOf(t, "subWeak")' = {}
        /\ DueOf(t, "destruct")' = {} /\ DueOf(t, "delete")' = {}
    BY <1>2, <1>3 DEF DueOf
  <1>8. Strong(t)' = Strong(t) /\ Weak(t)' = Weak(t)
    BY DEF Mine, Strong, Weak
  <1>9. \A c : WeakOf(t, c)' = WeakOf(t, c)
    <2>1. \A x \in DueOf(t, "store")' : x.h \notin Weak(t)
      BY <1>2, <1>6, HandleKinds
    <2>2. \A c : RefsOf(t, c, Weak(t), "addWeak", "subWeak")' = RefsOf(t, c, Weak(t), "addWeak", "subWeak")
      BY <1>7, <1>8, <2>1, OtherRefs
    <2> QED BY <1>8, <2>2 DEF WeakOf
  <1>10. /\ \A c : Doing(t, "destruct", c)' = Doing(t, "destruct", c)
         /\ \A c : Doing(t, "delete", c)' = Doing(t, "delete", c)
         /\ \A c : ~Doing(t, "destruct", c)
    <2>1. DueOf(t, "destruct") = {} /\ DueOf(t, "delete") = {}
      BY RestingHas
    <2>2. DueOf(t, "destruct")' = DueOf(t, "destruct") /\ DueOf(t, "delete")' = DueOf(t, "delete")
      BY <1>7, <2>1
    <2> QED BY <2>1, <2>2 DEF Doing
  <1>11. ASSUME NEW c \in Controllers
         PROVE  /\ DueOf(t, "addStrong")' # {} \/ c # d => Same(StrongOf(t, c), StrongOf(t, c)')
                /\ DueOf(t, "addStrong")' = {} /\ c = d =>
                     \E x \in Names \ StrongOf(t, c) : StrongOf(t, c)' = StrongOf(t, c) \cup {x}
    <2> DEFINE R == StrongOf(t, c)
               T == StrongOf(t, c)'
    <2>1. \A k : k \in R <=> k \in Strong(t) /\ handle[t][k] = c
      BY RestingHas DEF StrongOf
    <2>2. Doing(t, "subStrong", c)' <=> c = old
      <3>1. DueOf(t, "subStrong")' = {x \in {b} : old # nullptr}
        BY <1>2, <1>3 DEF DueOf
      <3> QED BY <1>2, <3>1, PointerAssumption DEF Doing
    <2>3. \A k : k \in Stored(t)' <=> k = h
      BY <1>2, <1>6 DEF Stored
    <2>4. \A k : k \in T <=>
            \/ k \in Strong(t) /\ k # h /\ handle[t][k] = c
            \/ k = h /\ DueOf(t, "addStrong")' = {} /\ c = d
            \/ k = "sub" /\ c = old
      BY <1>2, <1>6, <1>8, <2>2, <2>3 DEF StrongOf, RefsOf
    <2>5. R \subseteq Handles /\ h \in Handles /\ (h \in R <=> c = old)
      BY <1>1, <1>4, <2>1, HandleKinds
    <2> HIDE DEF R, T
    <2>6. ASSUME DueOf(t, "addStrong")' # {} \/ c # d PROVE Same(R, T)
      <3>1. \A k : k \in T <=> (k \in R /\ k # h) \/ (k = "sub" /\ h \in R)
        BY <2>1, <2>4, <2>5, <2>6
      <3> QED BY <2>5, <3>1, GivesUp
    <2>7. ASSUME DueOf(t, "addStrong")' = {}, c = d PROVE \E x \in Names \ R : T = R \cup {x}
      <3>1. \A k : k \in T <=> (k \in R /\ k # h) \/ k = h \/ (k = "sub" /\ h \in R)
        BY <2>1, <2>4, <2>5, <2>7
      <3> QED BY <2>5, <3>1, TakesToo
    <2> QED BY <2>6, <2>7 DEF R, T
  <1>12. ThreadOK(t)'
    <2>1. AccessOK(t, s)'
      BY <1>2, <1>5, <1>8 DEF AccessOK
    <2>2. ASSUME old # nullptr PROVE AccessOK(t, b)'
      <3>1. b \in Accesses /\ b.what = "subStrong" /\ b.c \in Controllers
        BY <1>2, <1>4, <1>5, <2>2
      <3> QED BY <3>1 DEF AccessOK
    <2>3. ASSUME a \in DueOf(t, "addStrong")' PROVE AccessOK(t, a)'
      <3>1. PICK k \in Strong(t) : k # h /\ handle[t][k] = d
        BY <2>3
      <3>2. d \in Controllers
        BY <2>3
      <3>3. \A g : g \in Stored(t)' => g = h
        BY <1>2, <1>6 DEF Stored
      <3>4. Keeps(t, d, Strong(t))'
        BY <1>8, <3>1, <3>3 DEF Keeps
      <3>5. h \in Strong(t)' /\ DueOf(t, "store")' = {Access("store", d, h)}
        BY <1>6, <1>8 DEF s
      <3> QED BY <1>2, <1>5, <3>2, <3>4, <3>5 DEF AccessOK
    <2>4. \A x \in Due(t)' : AccessOK(t, x)'
      BY <1>3, <2>1, <2>2, <2>3
    <2> QED BY <2>4 DEF ThreadOK
  <1> QED BY <1>9, <1>10, <1>11, <1>12

\* The operation of t gives its weak handle h another controller d, or nullptr.
LEMMA AssignsWeak ==
  ASSUME PointerInv, NEW t \in Owners, Mine(t), Resting(t), handle' = handle,
         NEW h \in Weak(t), NEW d \in Controllers \cup {nullptr},
         DueOf(t, "addWeak")' \subseteq {Access("addWeak", d, nullptr)},
         DueOf(t, "addWeak")' # {} =>
           d \in Controllers /\ \E k \in Strong(t) \cup Weak(t) : k # h /\ handle[t][k] = d,
         \A x : x \in Due(t)' <=>
           \/ x = Access("subWeak", handle[t][h], nullptr) /\ handle[t][h] # nullptr
           \/ x \in DueOf(t, "addWeak")' \/ x = Access("store", d, h),
         Ordered(todo[t])'
  PROVE  /\ ThreadOK(t)'
         /\ \A c \in Controllers : DueOf(t, "addWeak")' # {} \/ c # d => Same(WeakOf(t, c), WeakOf(t, c)')
         /\ DueOf(t, "addWeak")' = {} /\ d \in Controllers =>
              \E x \in Names \ WeakOf(t, d) : WeakOf(t, d)' = WeakOf(t, d) \cup {x}
         /\ \A c : StrongOf(t, c)' = StrongOf(t, c)
         /\ \A c : Doing(t, "destruct", c)' = Doing(t, "destruct", c)
         /\ \A c : Doing(t, "delete", c)' = Doing(t, "delete", c)
         /\ \A c : ~Doing(t, "destruct", c)
  <1>1. PICK old : handle[t][h] = old
    OBVIOUS
  <1> DEFINE s == Access("store", d, h)
             b == Access("subWeak", old, nullptr)
             a == Access("addWeak", d, nullptr)
  <1>2. /\ s.what = "store" /\ s.h = h /\ s.c = d
        /\ b.what = "subWeak" /\ b.c = old
        /\ a.what = "addWeak" /\ a.c = d
    BY DEF Access
  <1>3. /\ \A x \in DueOf(t, "addWeak")' : x = a
        /\ \A x : x \in Due(t)' <=> \/ x = b /\ old # nullptr
                                \/ x \in DueOf(t, "addWeak")' \/ x = s
    BY <1>1
  <1>4. h \in Handles /\ old \in Controllers \cup {nullptr}
    BY <1>1, HandleKinds DEF PointerInv, PointerTypes
  <1>5. s \in Accesses /\ a \in Accesses /\ b \in Accesses
    BY <1>4, AccessIs DEF Whats
  <1> HIDE DEF s, a, b
  <1>6. DueOf(t, "store")' = {s}
    BY <1>2, <1>3 DEF DueOf
  <1>7. /\ \A what : what \notin {"store", "addWeak", "subWeak"} => DueOf(t, what)' = {}
        /\ DueOf(t, "addStrong")' = {} /\ DueOf(t, "subStrong")' = {}
        /\ DueOf(t, "destruct")' = {} /\ DueOf(t, "delete")' = {}
    BY <1>2, <1>3 DEF DueOf
  <1>8. Strong(t)' = Strong(t) /\ Weak(t)' = Weak(t)
    BY DEF Mine, Strong, Weak
  <1>9. \A c : StrongOf(t, c)' = StrongOf(t, c)
    <2>1. \A x \in DueOf(t, "store")' : x.h \notin Strong(t)
      BY <1>2, <1>6, HandleKinds
    <2>2. \A c : RefsOf(t, c, Strong(t), "addStrong", "subStrong")' = RefsOf(t, c, Strong(t), "addStrong", "subStrong")
      BY <1>7, <1>8, <2>1, OtherRefs
    <2> QED BY <1>8, <2>2 DEF StrongOf
  <1>10. /\ \A c : Doing(t, "destruct", c)' = Doing(t, "destruct", c)
         /\ \A c : Doing(t, "delete", c)' = Doing(t, "delete", c)
         /\ \A c : ~Doing(t, "destruct", c)
    <2>1. DueOf(t, "destruct") = {} /\ DueOf(t, "delete") = {}
      BY RestingHas
    <2>2. DueOf(t, "destruct")' = DueOf(t, "destruct") /\ DueOf(t, "delete")' = DueOf(t, "delete")
      BY <1>7, <2>1
    <2> QED BY <2>1, <2>2 DEF Doing
  <1>11. ASSUME NEW c \in Controllers
         PROVE  /\ DueOf(t, "addWeak")' # {} \/ c # d => Same(WeakOf(t, c), WeakOf(t, c)')
                /\ DueOf(t, "addWeak")' = {} /\ c = d =>
                     \E x \in Names \ WeakOf(t, c) : WeakOf(t, c)' = WeakOf(t, c) \cup {x}
    <2> DEFINE R == WeakOf(t, c)
               T == WeakOf(t, c)'
    <2>1. \A k : k \in R <=> k \in Weak(t) /\ handle[t][k] = c
      BY RestingHas DEF WeakOf
    <2>2. Doing(t, "subWeak", c)' <=> c = old
      <3>1. DueOf(t, "subWeak")' = {x \in {b} : old # nullptr}
        BY <1>2, <1>3 DEF DueOf
      <3> QED BY <1>2, <3>1, PointerAssumption DEF Doing
    <2>3. \A k : k \in Stored(t)' <=> k = h
      BY <1>2, <1>6 DEF Stored
    <2>4. \A k : k \in T <=>
            \/ k \in Weak(t) /\ k # h /\ handle[t][k] = c
            \/ k = h /\ DueOf(t, "addWeak")' = {} /\ c = d
            \/ k = "sub" /\ c = old
      BY <1>2, <1>6, <1>8, <2>2, <2>3 DEF WeakOf, RefsOf
    <2>5. R \subseteq Handles /\ h \in Handles /\ (h \in R <=> c = old)
      BY <1>1, <1>4, <2>1, HandleKinds
    <2> HIDE DEF R, T
    <2>6. ASSUME DueOf(t, "addWeak")' # {} \/ c # d PROVE Same(R, T)
      <3>1. \A k : k \in T <=> (k \in R /\ k # h) \/ (k = "sub" /\ h \in R)
        BY <2>1, <2>4, <2>5, <2>6
      <3> QED BY <2>5, <3>1, GivesUp
    <2>7. ASSUME DueOf(t, "addWeak")' = {}, c = d PROVE \E x \in Names \ R : T = R \cup {x}
      <3>1. \A k : k \in T <=> (k \in R /\ k # h) \/ k = h \/ (k = "sub" /\ h \in R)
        BY <2>1, <2>4, <2>5, <2>7
      <3> QED BY <2>5, <3>1, TakesToo
    <2> QED BY <2>6, <2>7 DEF R, T
  <1>12. ThreadOK(t)'
    <2>1. AccessOK(t, s)'
      BY <1>2, <1>5, <1>8 DEF AccessOK
    <2>2. ASSUME old # nullptr PROVE AccessOK(t, b)'
      <3>1. b \in Accesses /\ b.what = "subWeak" /\ b.c \in Controllers
        BY <1>2, <1>4, <1>5, <2>2
      <3> QED BY <3>1 DEF AccessOK
    <2>3. ASSUME a \in DueOf(t, "addWeak")' PROVE AccessOK(t, a)'
      <3>1. PICK k \in Strong(t) \cup Weak(t) : k # h /\ handle[t][k] = d
        BY <2>3
      <3>2. d \in Controllers
        BY <2>3
      <3>3. \A g : g \in Stored(t)' => g = h
        BY <1>2, <1>6 DEF Stored
      <3>4. Keeps(t, d, Strong(t) \cup Weak(t))'
        BY <1>8, <3>1, <3>3 DEF Keeps
      <3>5. h \in Weak(t)' /\ DueOf(t, "store")' = {Access("store", d, h)}
        BY <1>6, <1>8 DEF s
      <3> QED BY <1>2, <1>5, <3>2, <3>4, <3>5 DEF AccessOK
    <2>4. \A x \in Due(t)' : AccessOK(t, x)'
      BY <1>3, <2>1, <2>2, <2>3
    <2> QED BY <2>4 DEF ThreadOK
  <1> QED BY <1>9, <1>10, <1>11, <1>12

\* A step of t that is about what is due only.
LEMMA TodoOnly ==
  ASSUME PointerInv, NEW t \in Owners, Mine(t),
         UNCHANGED <<threadSafe, strongCount, weakCount, handle, lost, life>>,
         todo' \in [Owners -> Seq(Accesses)], ThreadOK(t)',
         \A c \in Controllers : Same(StrongOf(t, c), StrongOf(t, c)') /\ Same(WeakOf(t, c), WeakOf(t, c)'),
         \A c : Doing(t, "destruct", c)' = Doing(t, "destruct", c),
         \A c : Doing(t, "delete", c)' = Doing(t, "delete", c)
  PROVE  PointerInv'
  <1>1. PointerTypes'
    BY DEF PointerInv, PointerTypes
  <1>2. \A c \in Controllers : Keeping(t, c)
    BY DEF Keeping
  <1> QED BY <1>1, <1>2, Assemble

LEMMA IdleRests ==
  ASSUME NEW t, Idle(t)
  PROVE  Resting(t)
BY IdleHas DEF Resting

\* What is due in an operation that begins is what it is made of.
LEMMA Beginning ==
  ASSUME PointerInv, NEW t \in Owners, NEW q \in Seq(Accesses), Ordered(q), Begin(t, q)
  PROVE  /\ Mine(t) /\ Resting(t) /\ handle' = handle
         /\ UNCHANGED <<threadSafe, strongCount, weakCount, handle, lost, life>>
         /\ todo' \in [Owners -> Seq(Accesses)] /\ Ordered(todo[t])'
         /\ Due(t)' = Items(q)
  <1>1. todo' = [todo EXCEPT ![t] = q] /\ Idle(t)
        /\ UNCHANGED <<threadSafe, strongCount, weakCount, handle, lost, life>>
    BY DEF Begin
  <1>2. /\ todo' \in [Owners -> Seq(Accesses)] /\ todo'[t] = q
        /\ \A u \in Owners \ {t} : todo'[u] = todo[u]
        /\ Due(t)' = Items(q)
    BY <1>1, Begun
  <1>3. Mine(t) /\ Ordered(todo[t])'
    BY <1>1, <1>2 DEF Mine
  <1> QED BY <1>1, <1>2, <1>3, IdleRests

\* The strong handle h is given d, which another handle of t holds, or nullptr.
LEMMA CopyingStrong ==
  ASSUME PointerInv, NEW t \in Owners, NEW h \in Strong(t), NEW d \in Controllers \cup {nullptr},
         d # nullptr => \E k \in Strong(t) : k # h /\ handle[t][k] = d,
         Begin(t, OnController("subStrong", handle[t][h], nullptr) \o OnController("addStrong", d, nullptr)
                    \o Store(d, h))
  PROVE  PointerInv'
  <1>1. PICK old : handle[t][h] = old
    OBVIOUS
  <1>2. h \in Handles /\ old \in Controllers \cup {nullptr}
    BY <1>1, HandleKinds DEF PointerInv, PointerTypes
  <1> DEFINE q == OnController("subStrong", old, nullptr) \o OnController("addStrong", d, nullptr) \o Store(d, h)
  <1>3. /\ q \in Seq(Accesses) /\ Ordered(q)
        /\ \A x : x \in Items(q) <=>
             \/ x = Access("subStrong", old, nullptr) /\ old # nullptr
             \/ x = Access("addStrong", d, nullptr) /\ d # nullptr
             \/ x = Access("store", d, h)
    BY <1>2, ReleaseAddAndStore
  <1>4. Begin(t, q)
    BY <1>1
  <1> HIDE DEF q
  <1>5. /\ Mine(t) /\ Resting(t) /\ handle' = handle
        /\ UNCHANGED <<threadSafe, strongCount, weakCount, handle, lost, life>>
        /\ todo' \in [Owners -> Seq(Accesses)] /\ Ordered(todo[t])'
        /\ Due(t)' = Items(q)
    BY <1>3, <1>4, Beginning
  <1>6. \A x : x \in DueOf(t, "addStrong")' <=> x = Access("addStrong", d, nullptr) /\ d # nullptr
    <2>1. /\ Access("subStrong", old, nullptr).what = "subStrong" /\ Access("addStrong", d, nullptr).what = "addStrong"
          /\ Access("store", d, h).what = "store"
      BY DEF Access
    <2>2. \A x : x \in Due(t)' <=>
         \/ x = Access("subStrong", old, nullptr) /\ old # nullptr
         \/ x = Access("addStrong", d, nullptr) /\ d # nullptr
         \/ x = Access("store", d, h)
      BY <1>3, <1>5
    <2> QED BY <2>1, <2>2 DEF DueOf
  <1>7. \A x : x \in Due(t)' <=>
           \/ x = Access("subStrong", handle[t][h], nullptr) /\ handle[t][h] # nullptr
           \/ x \in DueOf(t, "addStrong")' \/ x = Access("store", d, h)
    BY <1>1, <1>3, <1>5, <1>6
  <1>8. /\ DueOf(t, "addStrong")' \subseteq {Access("addStrong", d, nullptr)}
        /\ DueOf(t, "addStrong")' # {} => d \in Controllers /\ \E k \in Strong(t) : k # h /\ handle[t][k] = d
        /\ \A c \in Controllers : DueOf(t, "addStrong")' # {} \/ c # d
    BY <1>6, PointerAssumption
  <1>9. /\ ThreadOK(t)'
        /\ \A c \in Controllers : DueOf(t, "addStrong")' # {} \/ c # d => Same(StrongOf(t, c), StrongOf(t, c)')
        /\ \A c : WeakOf(t, c)' = WeakOf(t, c)
        /\ \A c : Doing(t, "destruct", c)' = Doing(t, "destruct", c)
        /\ \A c : Doing(t, "delete", c)' = Doing(t, "delete", c)
    BY <1>5, <1>7, <1>8, AssignsStrong
  <1>10. \A c \in Controllers : Same(StrongOf(t, c), StrongOf(t, c)') /\ Same(WeakOf(t, c), WeakOf(t, c)')
    BY <1>8, <1>9 DEF Same
  <1> QED BY <1>5, <1>9, <1>10, TodoOnly

LEMMA ScriptStrong ==
  ASSUME NEW old \in Controllers \cup {nullptr}, NEW d \in Controllers \cup {nullptr}, NEW h \in Handles
  PROVE  LET q == OnController("subStrong", old, nullptr) \o Store(d, h)
         IN  /\ q \in Seq(Accesses) /\ Ordered(q)
             /\ \A x : x \in Items(q) <=>
                  (x = Access("subStrong", old, nullptr) /\ old # nullptr) \/ x = Access("store", d, h)
  <1> DEFINE a == OnController("subStrong", old, nullptr)
             s == Store(d, h)
  <1>1. /\ a \in Seq(Accesses) /\ Ordered(a)
        /\ \A x : x \in Items(a) <=> x = Access("subStrong", old, nullptr) /\ old # nullptr
        /\ \A x \in Items(a) : Rank(x) = 2
    BY Releases
  <1>2. /\ s \in Seq(Accesses) /\ Ordered(s) /\ (\A x : x \in Items(s) <=> x = Access("store", d, h))
        /\ Rank(Access("store", d, h)) = 4
    BY Stores
  <1> HIDE DEF a, s
  <1>3. \A x \in Items(a), y \in Items(s) : Before(x, y)
    BY <1>1, <1>2 DEF Before
  <1>4. a \o s \in Seq(Accesses) /\ Ordered(a \o s) /\ Items(a \o s) = Items(a) \cup Items(s)
    BY <1>1, <1>2, <1>3, TwoParts
  <1> QED BY <1>1, <1>2, <1>4 DEF a, s

\* The strong handle h is given nullptr.
LEMMA EmptyingStrong ==
  ASSUME PointerInv, NEW t \in Owners, NEW h \in Strong(t), Mine(t), Resting(t),
         UNCHANGED <<threadSafe, strongCount, weakCount, handle, lost, life>>,
         todo' \in [Owners -> Seq(Accesses)], Ordered(todo[t])',
         \A x : x \in Due(t)' <=>
           \/ x = Access("subStrong", handle[t][h], nullptr) /\ handle[t][h] # nullptr
           \/ x = Access("store", nullptr, h)
  PROVE  PointerInv'
  <1>1. PICK old : handle[t][h] = old
    OBVIOUS
  <1>2. DueOf(t, "addStrong")' = {}
    <2>1. Access("subStrong", old, nullptr).what = "subStrong" /\ Access("store", nullptr, h).what = "store"
      BY DEF Access
    <2>2. \A x \in Due(t)' : x = Access("subStrong", old, nullptr) \/ x = Access("store", nullptr, h)
      BY <1>1
    <2> QED BY <2>1, <2>2 DEF DueOf
  <1>3. \A x : x \in Due(t)' <=>
           \/ x = Access("subStrong", handle[t][h], nullptr) /\ handle[t][h] # nullptr
           \/ x \in DueOf(t, "addStrong")' \/ x = Access("store", nullptr, h)
    BY <1>1, <1>2
  <1>4. DueOf(t, "addStrong")' \subseteq {Access("addStrong", nullptr, nullptr)} /\ nullptr \in Controllers \cup {nullptr}
    BY <1>2
  <1>5. /\ ThreadOK(t)'
        /\ \A c \in Controllers : DueOf(t, "addStrong")' # {} \/ c # nullptr => Same(StrongOf(t, c), StrongOf(t, c)')
        /\ \A c : WeakOf(t, c)' = WeakOf(t, c)
        /\ \A c : Doing(t, "destruct", c)' = Doing(t, "destruct", c)
        /\ \A c : Doing(t, "delete", c)' = Doing(t, "delete", c)
    BY <1>2, <1>3, <1>4, AssignsStrong
  <1>6. \A c \in Controllers : Same(StrongOf(t, c), StrongOf(t, c)') /\ Same(WeakOf(t, c), WeakOf(t, c)')
    BY <1>5, PointerAssumption DEF Same
  <1> QED BY <1>5, <1>6, TodoOnly

LEMMA ResettingStrong ==
  ASSUME PointerInv, NEW t \in Owners, NEW h \in Strong(t),
         Begin(t, OnController("subStrong", handle[t][h], nullptr) \o Store(nullptr, h))
  PROVE  PointerInv'
  <1>1. PICK old : handle[t][h] = old
    OBVIOUS
  <1>2. h \in Handles /\ old \in Controllers \cup {nullptr} /\ nullptr \in Controllers \cup {nullptr}
    BY <1>1, HandleKinds DEF PointerInv, PointerTypes
  <1> DEFINE q == OnController("subStrong", old, nullptr) \o Store(nullptr, h)
  <1>3. /\ q \in Seq(Accesses) /\ Ordered(q)
        /\ \A x : x \in Items(q) <=>
             (x = Access("subStrong", old, nullptr) /\ old # nullptr) \/ x = Access("store", nullptr, h)
    BY <1>2, ScriptStrong
  <1>4. Begin(t, q)
    BY <1>1
  <1> HIDE DEF q
  <1>5. /\ Mine(t) /\ Resting(t)
        /\ UNCHANGED <<threadSafe, strongCount, weakCount, handle, lost, life>>
        /\ todo' \in [Owners -> Seq(Accesses)] /\ Ordered(todo[t])'
        /\ Due(t)' = Items(q)
    BY <1>3, <1>4, Beginning
  <1> QED BY <1>1, <1>3, <1>5, EmptyingStrong

\* The strong handle h is given what g holds, and g nullptr.
LEMMA MovingStrong ==
  ASSUME PointerInv, NEW t \in Owners, NEW h \in Strong(t), NEW g \in Strong(t), h # g, handle[t][g] # nullptr,
         Begin(t, OnController("subStrong", handle[t][h], nullptr) \o Store(handle[t][g], h) \o Store(nullptr, g))
  PROVE  PointerInv'
  <1>1. PICK old, d : handle[t][h] = old /\ handle[t][g] = d
    OBVIOUS
  <1>2. h \in Handles /\ g \in Handles /\ old \in Controllers \cup {nullptr} /\ d \in Controllers
        /\ d \in Controllers \cup {nullptr} /\ nullptr \in Controllers \cup {nullptr}
    BY <1>1, HandleKinds DEF PointerInv, PointerTypes
  <1> DEFINE q == OnController("subStrong", old, nullptr) \o Store(d, h) \o Store(nullptr, g)
             b == Access("subStrong", old, nullptr)
             s == Access("store", d, h)
             r == Access("store", nullptr, g)
  <1>3. /\ q \in Seq(Accesses) /\ Ordered(q)
        /\ \A x : x \in Items(q) <=> (x = b /\ old # nullptr) \/ x = s \/ x = r
    BY <1>2, ReleaseAndMove
  <1>4. Begin(t, q)
    BY <1>1
  <1> HIDE DEF q
  <1>5. /\ Mine(t) /\ Resting(t) /\ handle' = handle
        /\ UNCHANGED <<threadSafe, strongCount, weakCount, handle, lost, life>>
        /\ todo' \in [Owners -> Seq(Accesses)] /\ Ordered(todo[t])'
        /\ Due(t)' = Items(q)
    BY <1>3, <1>4, Beginning
  <1>6. /\ s.what = "store" /\ s.h = h /\ s.c = d /\ r.what = "store" /\ r.h = g /\ r.c = nullptr
        /\ b.what = "subStrong" /\ b.c = old
    BY DEF Access
  <1>7. s \in Accesses /\ r \in Accesses /\ b \in Accesses
    BY <1>2, AccessIs DEF Whats
  <1>8. \A x : x \in Due(t)' <=> (x = b /\ old # nullptr) \/ x = s \/ x = r
    BY <1>3, <1>5
  <1> HIDE DEF s, r, b
  <1>9. /\ DueOf(t, "store")' = {s, r}
        /\ DueOf(t, "subStrong")' = {x \in {b} : old # nullptr} /\ DueOf(t, "addStrong")' = {}
        /\ DueOf(t, "addWeak")' = {} /\ DueOf(t, "subWeak")' = {}
        /\ DueOf(t, "destruct")' = {} /\ DueOf(t, "delete")' = {}
    BY <1>6, <1>8 DEF DueOf
  <1>10. Strong(t)' = Strong(t) /\ Weak(t)' = Weak(t)
    BY <1>5 DEF Strong, Weak
  <1>11. \A c : WeakOf(t, c)' = WeakOf(t, c)
    <2>1. \A x \in DueOf(t, "store")' : x.h \notin Weak(t)
      BY <1>6, <1>9, HandleKinds
    <2>2. \A c : RefsOf(t, c, Weak(t), "addWeak", "subWeak")' = RefsOf(t, c, Weak(t), "addWeak", "subWeak")
      BY <1>5, <1>9, <1>10, <2>1, OtherRefs
    <2> QED BY <1>10, <2>2 DEF WeakOf
  <1>12. /\ \A c : Doing(t, "destruct", c)' = Doing(t, "destruct", c)
         /\ \A c : Doing(t, "delete", c)' = Doing(t, "delete", c)
    <2>1. DueOf(t, "destruct") = {} /\ DueOf(t, "delete") = {}
      BY <1>5, RestingHas
    <2>2. DueOf(t, "destruct")' = DueOf(t, "destruct") /\ DueOf(t, "delete")' = DueOf(t, "delete")
      BY <1>9, <2>1
    <2> QED BY <2>1, <2>2 DEF Doing
  <1>13. ASSUME NEW c \in Controllers PROVE Same(StrongOf(t, c), StrongOf(t, c)')
    <2> DEFINE R == StrongOf(t, c)
               T == StrongOf(t, c)'
    <2>1. \A k : k \in R <=> k \in Strong(t) /\ handle[t][k] = c
      BY <1>5, RestingHas DEF StrongOf
    <2>2. Doing(t, "subStrong", c)' <=> c = old
      BY <1>6, <1>9, PointerAssumption DEF Doing
    <2>3. \A k : k \in Stored(t)' <=> k = h \/ k = g
      <3>1. Stored(t)' = {x.h : x \in {s, r}}
        BY <1>9 DEF Stored
      <3> QED BY <1>6, <3>1
    <2>4. \A k : k \in T <=>
            \/ k \in Strong(t) /\ k # h /\ k # g /\ handle[t][k] = c
            \/ k = h /\ c = d
            \/ k = "sub" /\ c = old
      <3>1. \A k : (\E x \in DueOf(t, "store")' : x.h = k /\ x.c = c) <=> k = h /\ c = d
        BY <1>6, <1>9, PointerAssumption
      <3> QED BY <1>5, <1>9, <1>10, <2>2, <2>3, <3>1 DEF StrongOf, RefsOf
    <2>5. R \subseteq Handles /\ (h \in R <=> c = old) /\ (g \in R <=> c = d)
      BY <1>1, <2>1, HandleKinds
    <2> HIDE DEF R, T
    <2>6. \A k : k \in T <=> (k \in R /\ k # h /\ k # g) \/ (k = h /\ g \in R) \/ (k = "sub" /\ h \in R)
      BY <2>1, <2>4, <2>5
    <2> QED BY <1>2, <2>5, <2>6, TakesOver DEF R, T
  <1>14. ThreadOK(t)'
    <2>1. AccessOK(t, s)' /\ AccessOK(t, r)'
      BY <1>6, <1>7, <1>10 DEF AccessOK
    <2>2. ASSUME old # nullptr PROVE AccessOK(t, b)'
      <3>1. b \in Accesses /\ b.what = "subStrong" /\ b.c \in Controllers
        BY <1>2, <1>6, <1>7, <2>2
      <3> QED BY <3>1 DEF AccessOK
    <2>3. \A x \in Due(t)' : AccessOK(t, x)'
      BY <1>8, <2>1, <2>2
    <2> QED BY <1>5, <2>3 DEF ThreadOK
  <1>15. \A c \in Controllers : Same(StrongOf(t, c), StrongOf(t, c)') /\ Same(WeakOf(t, c), WeakOf(t, c)')
    BY <1>11, <1>13 DEF Same
  <1> QED BY <1>5, <1>12, <1>14, <1>15, TodoOnly

\* The weak handle h is given d, which another handle of t holds, or nullptr.
LEMMA CopyingWeak ==
  ASSUME PointerInv, NEW t \in Owners, NEW h \in Weak(t), NEW d \in Controllers \cup {nullptr},
         d # nullptr => \E k \in Strong(t) \cup Weak(t) : k # h /\ handle[t][k] = d,
         Begin(t, OnController("subWeak", handle[t][h], nullptr) \o OnController("addWeak", d, nullptr)
                    \o Store(d, h))
  PROVE  PointerInv'
  <1>1. PICK old : handle[t][h] = old
    OBVIOUS
  <1>2. h \in Handles /\ old \in Controllers \cup {nullptr}
    BY <1>1, HandleKinds DEF PointerInv, PointerTypes
  <1> DEFINE q == OnController("subWeak", old, nullptr) \o OnController("addWeak", d, nullptr) \o Store(d, h)
  <1>3. /\ q \in Seq(Accesses) /\ Ordered(q)
        /\ \A x : x \in Items(q) <=>
             \/ x = Access("subWeak", old, nullptr) /\ old # nullptr
             \/ x = Access("addWeak", d, nullptr) /\ d # nullptr
             \/ x = Access("store", d, h)
    BY <1>2, ReleaseAddAndStore
  <1>4. Begin(t, q)
    BY <1>1
  <1> HIDE DEF q
  <1>5. /\ Mine(t) /\ Resting(t) /\ handle' = handle
        /\ UNCHANGED <<threadSafe, strongCount, weakCount, handle, lost, life>>
        /\ todo' \in [Owners -> Seq(Accesses)] /\ Ordered(todo[t])'
        /\ Due(t)' = Items(q)
    BY <1>3, <1>4, Beginning
  <1>6. \A x : x \in DueOf(t, "addWeak")' <=> x = Access("addWeak", d, nullptr) /\ d # nullptr
    <2>1. /\ Access("subWeak", old, nullptr).what = "subWeak" /\ Access("addWeak", d, nullptr).what = "addWeak"
          /\ Access("store", d, h).what = "store"
      BY DEF Access
    <2>2. \A x : x \in Due(t)' <=>
         \/ x = Access("subWeak", old, nullptr) /\ old # nullptr
         \/ x = Access("addWeak", d, nullptr) /\ d # nullptr
         \/ x = Access("store", d, h)
      BY <1>3, <1>5
    <2> QED BY <2>1, <2>2 DEF DueOf
  <1>7. \A x : x \in Due(t)' <=>
           \/ x = Access("subWeak", handle[t][h], nullptr) /\ handle[t][h] # nullptr
           \/ x \in DueOf(t, "addWeak")' \/ x = Access("store", d, h)
    BY <1>1, <1>3, <1>5, <1>6
  <1>8. /\ DueOf(t, "addWeak")' \subseteq {Access("addWeak", d, nullptr)}
        /\ DueOf(t, "addWeak")' # {} => d \in Controllers /\ \E k \in Strong(t) \cup Weak(t) : k # h /\ handle[t][k] = d
        /\ \A c \in Controllers : DueOf(t, "addWeak")' # {} \/ c # d
    BY <1>6, PointerAssumption
  <1>9. /\ ThreadOK(t)'
        /\ \A c \in Controllers : DueOf(t, "addWeak")' # {} \/ c # d => Same(WeakOf(t, c), WeakOf(t, c)')
        /\ \A c : StrongOf(t, c)' = StrongOf(t, c)
        /\ \A c : Doing(t, "destruct", c)' = Doing(t, "destruct", c)
        /\ \A c : Doing(t, "delete", c)' = Doing(t, "delete", c)
    BY <1>5, <1>7, <1>8, AssignsWeak
  <1>10. \A c \in Controllers : Same(StrongOf(t, c), StrongOf(t, c)') /\ Same(WeakOf(t, c), WeakOf(t, c)')
    BY <1>8, <1>9 DEF Same
  <1> QED BY <1>5, <1>9, <1>10, TodoOnly

LEMMA ScriptWeak ==
  ASSUME NEW old \in Controllers \cup {nullptr}, NEW d \in Controllers \cup {nullptr}, NEW h \in Handles
  PROVE  LET q == OnController("subWeak", old, nullptr) \o Store(d, h)
         IN  /\ q \in Seq(Accesses) /\ Ordered(q)
             /\ \A x : x \in Items(q) <=>
                  (x = Access("subWeak", old, nullptr) /\ old # nullptr) \/ x = Access("store", d, h)
  <1> DEFINE a == OnController("subWeak", old, nullptr)
             s == Store(d, h)
  <1>1. /\ a \in Seq(Accesses) /\ Ordered(a)
        /\ \A x : x \in Items(a) <=> x = Access("subWeak", old, nullptr) /\ old # nullptr
        /\ \A x \in Items(a) : Rank(x) = 2
    BY Releases
  <1>2. /\ s \in Seq(Accesses) /\ Ordered(s) /\ (\A x : x \in Items(s) <=> x = Access("store", d, h))
        /\ Rank(Access("store", d, h)) = 4
    BY Stores
  <1> HIDE DEF a, s
  <1>3. \A x \in Items(a), y \in Items(s) : Before(x, y)
    BY <1>1, <1>2 DEF Before
  <1>4. a \o s \in Seq(Accesses) /\ Ordered(a \o s) /\ Items(a \o s) = Items(a) \cup Items(s)
    BY <1>1, <1>2, <1>3, TwoParts
  <1> QED BY <1>1, <1>2, <1>4 DEF a, s

\* The weak handle h is given nullptr.
LEMMA EmptyingWeak ==
  ASSUME PointerInv, NEW t \in Owners, NEW h \in Weak(t), Mine(t), Resting(t),
         UNCHANGED <<threadSafe, strongCount, weakCount, handle, lost, life>>,
         todo' \in [Owners -> Seq(Accesses)], Ordered(todo[t])',
         \A x : x \in Due(t)' <=>
           \/ x = Access("subWeak", handle[t][h], nullptr) /\ handle[t][h] # nullptr
           \/ x = Access("store", nullptr, h)
  PROVE  PointerInv'
  <1>1. PICK old : handle[t][h] = old
    OBVIOUS
  <1>2. DueOf(t, "addWeak")' = {}
    <2>1. Access("subWeak", old, nullptr).what = "subWeak" /\ Access("store", nullptr, h).what = "store"
      BY DEF Access
    <2>2. \A x \in Due(t)' : x = Access("subWeak", old, nullptr) \/ x = Access("store", nullptr, h)
      BY <1>1
    <2> QED BY <2>1, <2>2 DEF DueOf
  <1>3. \A x : x \in Due(t)' <=>
           \/ x = Access("subWeak", handle[t][h], nullptr) /\ handle[t][h] # nullptr
           \/ x \in DueOf(t, "addWeak")' \/ x = Access("store", nullptr, h)
    BY <1>1, <1>2
  <1>4. DueOf(t, "addWeak")' \subseteq {Access("addWeak", nullptr, nullptr)} /\ nullptr \in Controllers \cup {nullptr}
    BY <1>2
  <1>5. /\ ThreadOK(t)'
        /\ \A c \in Controllers : DueOf(t, "addWeak")' # {} \/ c # nullptr => Same(WeakOf(t, c), WeakOf(t, c)')
        /\ \A c : StrongOf(t, c)' = StrongOf(t, c)
        /\ \A c : Doing(t, "destruct", c)' = Doing(t, "destruct", c)
        /\ \A c : Doing(t, "delete", c)' = Doing(t, "delete", c)
    BY <1>2, <1>3, <1>4, AssignsWeak
  <1>6. \A c \in Controllers : Same(StrongOf(t, c), StrongOf(t, c)') /\ Same(WeakOf(t, c), WeakOf(t, c)')
    BY <1>5, PointerAssumption DEF Same
  <1> QED BY <1>5, <1>6, TodoOnly

LEMMA ResettingWeak ==
  ASSUME PointerInv, NEW t \in Owners, NEW h \in Weak(t),
         Begin(t, OnController("subWeak", handle[t][h], nullptr) \o Store(nullptr, h))
  PROVE  PointerInv'
  <1>1. PICK old : handle[t][h] = old
    OBVIOUS
  <1>2. h \in Handles /\ old \in Controllers \cup {nullptr} /\ nullptr \in Controllers \cup {nullptr}
    BY <1>1, HandleKinds DEF PointerInv, PointerTypes
  <1> DEFINE q == OnController("subWeak", old, nullptr) \o Store(nullptr, h)
  <1>3. /\ q \in Seq(Accesses) /\ Ordered(q)
        /\ \A x : x \in Items(q) <=>
             (x = Access("subWeak", old, nullptr) /\ old # nullptr) \/ x = Access("store", nullptr, h)
    BY <1>2, ScriptWeak
  <1>4. Begin(t, q)
    BY <1>1
  <1> HIDE DEF q
  <1>5. /\ Mine(t) /\ Resting(t)
        /\ UNCHANGED <<threadSafe, strongCount, weakCount, handle, lost, life>>
        /\ todo' \in [Owners -> Seq(Accesses)] /\ Ordered(todo[t])'
        /\ Due(t)' = Items(q)
    BY <1>3, <1>4, Beginning
  <1> QED BY <1>1, <1>3, <1>5, EmptyingWeak

\* The weak handle h is given what g holds, and g nullptr.
LEMMA MovingWeak ==
  ASSUME PointerInv, NEW t \in Owners, NEW h \in Weak(t), NEW g \in Weak(t), h # g, handle[t][g] # nullptr,
         Begin(t, OnController("subWeak", handle[t][h], nullptr) \o Store(handle[t][g], h) \o Store(nullptr, g))
  PROVE  PointerInv'
  <1>1. PICK old, d : handle[t][h] = old /\ handle[t][g] = d
    OBVIOUS
  <1>2. h \in Handles /\ g \in Handles /\ old \in Controllers \cup {nullptr} /\ d \in Controllers
        /\ d \in Controllers \cup {nullptr} /\ nullptr \in Controllers \cup {nullptr}
    BY <1>1, HandleKinds DEF PointerInv, PointerTypes
  <1> DEFINE q == OnController("subWeak", old, nullptr) \o Store(d, h) \o Store(nullptr, g)
             b == Access("subWeak", old, nullptr)
             s == Access("store", d, h)
             r == Access("store", nullptr, g)
  <1>3. /\ q \in Seq(Accesses) /\ Ordered(q)
        /\ \A x : x \in Items(q) <=> (x = b /\ old # nullptr) \/ x = s \/ x = r
    BY <1>2, ReleaseAndMove
  <1>4. Begin(t, q)
    BY <1>1
  <1> HIDE DEF q
  <1>5. /\ Mine(t) /\ Resting(t) /\ handle' = handle
        /\ UNCHANGED <<threadSafe, strongCount, weakCount, handle, lost, life>>
        /\ todo' \in [Owners -> Seq(Accesses)] /\ Ordered(todo[t])'
        /\ Due(t)' = Items(q)
    BY <1>3, <1>4, Beginning
  <1>6. /\ s.what = "store" /\ s.h = h /\ s.c = d /\ r.what = "store" /\ r.h = g /\ r.c = nullptr
        /\ b.what = "subWeak" /\ b.c = old
    BY DEF Access
  <1>7. s \in Accesses /\ r \in Accesses /\ b \in Accesses
    BY <1>2, AccessIs DEF Whats
  <1>8. \A x : x \in Due(t)' <=> (x = b /\ old # nullptr) \/ x = s \/ x = r
    BY <1>3, <1>5
  <1> HIDE DEF s, r, b
  <1>9. /\ DueOf(t, "store")' = {s, r}
        /\ DueOf(t, "subWeak")' = {x \in {b} : old # nullptr} /\ DueOf(t, "addWeak")' = {}
        /\ DueOf(t, "addStrong")' = {} /\ DueOf(t, "subStrong")' = {}
        /\ DueOf(t, "destruct")' = {} /\ DueOf(t, "delete")' = {}
    BY <1>6, <1>8 DEF DueOf
  <1>10. Strong(t)' = Strong(t) /\ Weak(t)' = Weak(t)
    BY <1>5 DEF Strong, Weak
  <1>11. \A c : StrongOf(t, c)' = StrongOf(t, c)
    <2>1. \A x \in DueOf(t, "store")' : x.h \notin Strong(t)
      BY <1>6, <1>9, HandleKinds
    <2>2. \A c : RefsOf(t, c, Strong(t), "addStrong", "subStrong")' = RefsOf(t, c, Strong(t), "addStrong", "subStrong")
      BY <1>5, <1>9, <1>10, <2>1, OtherRefs
    <2> QED BY <1>10, <2>2 DEF StrongOf
  <1>12. /\ \A c : Doing(t, "destruct", c)' = Doing(t, "destruct", c)
         /\ \A c : Doing(t, "delete", c)' = Doing(t, "delete", c)
    <2>1. DueOf(t, "destruct") = {} /\ DueOf(t, "delete") = {}
      BY <1>5, RestingHas
    <2>2. DueOf(t, "destruct")' = DueOf(t, "destruct") /\ DueOf(t, "delete")' = DueOf(t, "delete")
      BY <1>9, <2>1
    <2> QED BY <2>1, <2>2 DEF Doing
  <1>13. ASSUME NEW c \in Controllers PROVE Same(WeakOf(t, c), WeakOf(t, c)')
    <2> DEFINE R == WeakOf(t, c)
               T == WeakOf(t, c)'
    <2>1. \A k : k \in R <=> k \in Weak(t) /\ handle[t][k] = c
      BY <1>5, RestingHas DEF WeakOf
    <2>2. Doing(t, "subWeak", c)' <=> c = old
      BY <1>6, <1>9, PointerAssumption DEF Doing
    <2>3. \A k : k \in Stored(t)' <=> k = h \/ k = g
      <3>1. Stored(t)' = {x.h : x \in {s, r}}
        BY <1>9 DEF Stored
      <3> QED BY <1>6, <3>1
    <2>4. \A k : k \in T <=>
            \/ k \in Weak(t) /\ k # h /\ k # g /\ handle[t][k] = c
            \/ k = h /\ c = d
            \/ k = "sub" /\ c = old
      <3>1. \A k : (\E x \in DueOf(t, "store")' : x.h = k /\ x.c = c) <=> k = h /\ c = d
        BY <1>6, <1>9, PointerAssumption
      <3> QED BY <1>5, <1>9, <1>10, <2>2, <2>3, <3>1 DEF WeakOf, RefsOf
    <2>5. R \subseteq Handles /\ (h \in R <=> c = old) /\ (g \in R <=> c = d)
      BY <1>1, <2>1, HandleKinds
    <2> HIDE DEF R, T
    <2>6. \A k : k \in T <=> (k \in R /\ k # h /\ k # g) \/ (k = h /\ g \in R) \/ (k = "sub" /\ h \in R)
      BY <2>1, <2>4, <2>5
    <2> QED BY <1>2, <2>5, <2>6, TakesOver DEF R, T
  <1>14. ThreadOK(t)'
    <2>1. AccessOK(t, s)' /\ AccessOK(t, r)'
      BY <1>6, <1>7, <1>10 DEF AccessOK
    <2>2. ASSUME old # nullptr PROVE AccessOK(t, b)'
      <3>1. b \in Accesses /\ b.what = "subWeak" /\ b.c \in Controllers
        BY <1>2, <1>6, <1>7, <2>2
      <3> QED BY <3>1 DEF AccessOK
    <2>3. \A x \in Due(t)' : AccessOK(t, x)'
      BY <1>8, <2>1, <2>2
    <2> QED BY <1>5, <2>3 DEF ThreadOK
  <1>15. \A c \in Controllers : Same(StrongOf(t, c), StrongOf(t, c)') /\ Same(WeakOf(t, c), WeakOf(t, c)')
    BY <1>11, <1>13 DEF Same
  <1> QED BY <1>5, <1>12, <1>14, <1>15, TodoOnly

LEMMA CopySharedInv ==
  ASSUME PointerInv, NEW t \in Owners, NEW h \in Strong(t), NEW g \in Strong(t), CopyShared(t, h, g)
  PROVE  PointerInv'
  <1>1. PICK d : handle[t][g] = d
    OBVIOUS
  <1>2. h # g /\ d \in Controllers \cup {nullptr}
    BY <1>1, HandleKinds DEF CopyShared, PointerInv, PointerTypes
  <1>3. Begin(t, OnController("subStrong", handle[t][h], nullptr) \o OnController("addStrong", d, nullptr)
                    \o Store(d, h))
    BY <1>1 DEF CopyShared
  <1> QED BY <1>1, <1>2, <1>3, CopyingStrong

LEMMA WeakFromSharedInv ==
  ASSUME PointerInv, NEW t \in Owners, NEW w \in Weak(t), NEW g \in Strong(t), WeakFromShared(t, w, g)
  PROVE  PointerInv'
  <1>1. PICK d : handle[t][g] = d
    OBVIOUS
  <1>2. w # g /\ d \in Controllers \cup {nullptr}
    BY <1>1, HandleKinds DEF PointerInv, PointerTypes
  <1>3. Begin(t, OnController("subWeak", handle[t][w], nullptr) \o OnController("addWeak", d, nullptr)
                    \o Store(d, w))
    BY <1>1 DEF WeakFromShared
  <1> QED BY <1>1, <1>2, <1>3, CopyingWeak

LEMMA CopyWeakInv ==
  ASSUME PointerInv, NEW t \in Owners, NEW w \in Weak(t), NEW v \in Weak(t), CopyWeak(t, w, v)
  PROVE  PointerInv'
  <1>1. PICK d : handle[t][v] = d
    OBVIOUS
  <1>2. w # v /\ d \in Controllers \cup {nullptr}
    BY <1>1, HandleKinds DEF CopyWeak, PointerInv, PointerTypes
  <1>3. Begin(t, OnController("subWeak", handle[t][w], nullptr) \o OnController("addWeak", d, nullptr)
                    \o Store(d, w))
    BY <1>1 DEF CopyWeak
  <1> QED BY <1>1, <1>2, <1>3, CopyingWeak

\* An access stands alone: the thread only looks at the count.
LEMMA LookingInv ==
  ASSUME PointerInv, NEW t \in Owners, Mine(t), Resting(t),
         UNCHANGED <<threadSafe, strongCount, weakCount, handle, lost, life>>,
         todo' \in [Owners -> Seq(Accesses)], Ordered(todo[t])',
         NEW x \in Accesses, Due(t)' = {x}, x.what \in {"load", "cas"}, x.h \in Strong(t),
         x.c \in Controllers, \E w \in Weak(t) : handle[t][w] = x.c, x.what = "cas" => x.seen # 0
  PROVE  PointerInv'
  <1>1. Resting(t)'
    BY DEF Resting
  <1>2. /\ \A c : StrongOf(t, c)' = StrongOf(t, c) /\ WeakOf(t, c)' = WeakOf(t, c)
        /\ \A c : Doing(t, "destruct", c)' = Doing(t, "destruct", c)
        /\ \A c : Doing(t, "delete", c)' = Doing(t, "delete", c)
        /\ Stored(t)' = {} /\ Strong(t)' = Strong(t) /\ Weak(t)' = Weak(t)
    BY <1>1, RestingStays
  <1>3. Keeps(t, x.c, Weak(t))'
    BY <1>2 DEF Keeps
  <1>4. AccessOK(t, x)'
    BY <1>2, <1>3 DEF AccessOK
  <1>5. ThreadOK(t)'
    BY <1>4 DEF ThreadOK
  <1> QED BY <1>2, <1>5, TodoOnly DEF Same

LEMMA LockInv ==
  ASSUME PointerInv, NEW t \in Owners, NEW w \in Weak(t), NEW h \in Strong(t), Lock(t, w, h)
  PROVE  PointerInv'
  <1>1. PICK d : handle[t][w] = d
    OBVIOUS
  <1>2. d \in Controllers /\ h \in Handles
    BY <1>1, HandleKinds DEF Lock, PointerInv, PointerTypes
  <1> DEFINE x == Access("load", d, h)
             q == <<x>>
  <1>3. x \in Accesses /\ x.what = "load" /\ x.c = d /\ x.h = h
    BY <1>2, AccessIs DEF Whats
  <1>4. Begin(t, q)
    BY <1>1 DEF Lock
  <1> HIDE DEF x
  <1>5. q \in Seq(Accesses) /\ Items(q) = {x} /\ Ordered(q)
    BY <1>3, OneItem
  <1> HIDE DEF q
  <1>6. /\ Mine(t) /\ Resting(t)
        /\ UNCHANGED <<threadSafe, strongCount, weakCount, handle, lost, life>>
        /\ todo' \in [Owners -> Seq(Accesses)] /\ Ordered(todo[t])'
        /\ Due(t)' = {x}
    BY <1>4, <1>5, Beginning
  <1> QED BY <1>1, <1>2, <1>3, <1>6, LookingInv

\* What is known of a thread that looks at the count.
LEMMA Looking ==
  ASSUME PointerInv, NEW t \in Owners, todo[t] # <<>>, Now(t).what \in {"load", "cas"}
  PROVE  /\ Due(t) = {Now(t)} /\ Resting(t) /\ Now(t) \in Accesses
         /\ Now(t).h \in Strong(t) /\ Now(t).c \in Controllers
         /\ \E w \in Weak(t) : handle[t][w] = Now(t).c
         /\ Now(t).what = "cas" => Now(t).seen # 0
  <1>1. /\ Now(t) \in Due(t) /\ Now(t) \in Accesses /\ AccessOK(t, Now(t))
        /\ \A y \in Due(t) \ {Now(t)} : Before(Now(t), y) /\ y \in Accesses
    BY Running
  <1>2. \A y \in Due(t) \ {Now(t)} : FALSE
    BY <1>1 DEF Before, Rank
  <1>3. Due(t) = {Now(t)} /\ Resting(t)
    BY <1>1, <1>2 DEF Resting
  <1> QED BY <1>1, <1>3 DEF AccessOK, Keeps

\* It knows the count and goes on.
LEMMA GoingOn ==
  ASSUME PointerInv, NEW t \in Owners, todo[t] # <<>>, Now(t).what \in {"load", "cas"},
         NEW q \in Seq(Accesses), Ordered(q), Then(t, q), threadSafe' = threadSafe, handle' = handle
  PROVE  /\ Mine(t) /\ todo' \in [Owners -> Seq(Accesses)] /\ Ordered(todo[t])'
         /\ Due(t)' = Items(q)
  <1>1. Due(t) \ {Now(t)} = {}
    BY Looking
  <1>2. /\ todo' \in [Owners -> Seq(Accesses)] /\ Ordered(todo[t])'
        /\ \A u \in Owners \ {t} : todo'[u] = todo[u]
        /\ Due(t)' = Items(q) \cup (Due(t) \ {Now(t)})
    BY <1>1, Replaced
  <1> QED BY <1>1, <1>2 DEF Mine

LEMMA RetryInv ==
  ASSUME PointerInv, NEW t \in Owners, todo[t] # <<>>, Now(t).what \in {"load", "cas"},
         NEW count \in Nat, Retry(t, count),
         UNCHANGED <<threadSafe, strongCount, weakCount, handle, lost, life>>
  PROVE  PointerInv'
  <1>1. PICK h, n, old : Now(t) = n /\ n.h = h /\ old = handle[t][h]
    OBVIOUS
  <1>2. /\ Resting(t) /\ n \in Accesses /\ h \in Strong(t) /\ n.c \in Controllers
        /\ \E w \in Weak(t) : handle[t][w] = n.c
    BY <1>1, Looking
  <1>3. h \in Handles /\ old \in Controllers \cup {nullptr} /\ nullptr \in Controllers \cup {nullptr}
    BY <1>1, <1>2, HandleKinds DEF PointerInv, PointerTypes
  <1>4. CASE count = 0
    <2> DEFINE q == OnController("subStrong", old, nullptr) \o Store(nullptr, h)
    <2>1. /\ q \in Seq(Accesses) /\ Ordered(q)
          /\ \A x : x \in Items(q) <=>
               (x = Access("subStrong", old, nullptr) /\ old # nullptr) \/ x = Access("store", nullptr, h)
      BY ONLY <1>3, ScriptStrong
    <2>2. Then(t, q)
      BY <1>1, <1>4 DEF Retry
    <2> HIDE DEF q
    <2>3. /\ Mine(t) /\ todo' \in [Owners -> Seq(Accesses)] /\ Ordered(todo[t])'
          /\ Due(t)' = Items(q)
      BY <2>1, <2>2, GoingOn
    <2>4. \A x : x \in Due(t)' <=>
             \/ x = Access("subStrong", handle[t][h], nullptr) /\ handle[t][h] # nullptr
             \/ x = Access("store", nullptr, h)
      BY <1>1, <2>1, <2>3
    <2> QED BY <1>2, <2>3, <2>4, EmptyingStrong
  <1>5. CASE count # 0
    <2> DEFINE x == [n EXCEPT !.what = "cas", !.seen = count]
               q == <<x>>
    <2>1. x \in Accesses /\ x.what = "cas" /\ x.c = n.c /\ x.h = h /\ x.seen = count
      BY <1>1, <1>2 DEF Accesses, Whats
    <2>2. Then(t, q)
      BY <1>1, <1>5 DEF Retry
    <2> HIDE DEF x
    <2>3. q \in Seq(Accesses) /\ Items(q) = {x} /\ Ordered(q)
      BY <2>1, OneItem
    <2> HIDE DEF q
    <2>4. /\ Mine(t) /\ todo' \in [Owners -> Seq(Accesses)] /\ Ordered(todo[t])'
          /\ Due(t)' = {x}
      BY <2>2, <2>3, GoingOn
    <2> QED BY <1>2, <1>5, <2>1, <2>4, LookingInv
  <1> QED BY <1>4, <1>5

LEMMA LoadStrongInv ==
  ASSUME PointerInv, NEW t \in Owners, LoadStrong(t)
  PROVE  PointerInv'
  <1>1. todo[t] # <<>> /\ Now(t).what \in {"load", "cas"}
    BY DEF LoadStrong, Facing, Now
  <1>2. PICK count : count = strongCount[Now(t).c]
    OBVIOUS
  <1>3. count \in Nat
    BY <1>1, <1>2, Looking DEF PointerInv, PointerTypes
  <1>4. Retry(t, count) /\ UNCHANGED <<threadSafe, strongCount, weakCount, handle, lost, life>>
    BY <1>2 DEF LoadStrong
  <1> QED BY <1>1, <1>3, <1>4, RetryInv

\* A strong reference to d is there before the handle that will hold it.
LEMMA Taking ==
  ASSUME PointerInv, NEW t \in Owners, NEW h \in Strong(t), NEW d \in Controllers, Mine(t), Resting(t),
         threadSafe' = threadSafe, handle' = handle, lost' = lost, PointerTypes',
         todo' \in [Owners -> Seq(Accesses)], Ordered(todo[t])',
         \A x : x \in Due(t)' <=>
           \/ x = Access("subStrong", handle[t][h], nullptr) /\ handle[t][h] # nullptr
           \/ x = Access("store", d, h),
         \A c \in Controllers \ {d} : /\ strongCount'[c] = strongCount[c]
                                      /\ weakCount'[c] = weakCount[c] /\ life'[c] = life[c],
         strongCount'[d] = strongCount[d] + 1, life'[d] = "alive", weakCount'[d] > 0,
         weakCount'[d] - Share(d)' = weakCount[d] - Share(d),
         ~Doing(t, "destruct", d),
         \A u \in Owners : ~Doing(u, "destruct", d) /\ ~Doing(u, "delete", d)
  PROVE  PointerInv'
  <1>1. PICK old : handle[t][h] = old
    OBVIOUS
  <1>2. DueOf(t, "addStrong")' = {}
    <2>1. Access("subStrong", old, nullptr).what = "subStrong" /\ Access("store", d, h).what = "store"
      BY DEF Access
    <2>2. \A x \in Due(t)' : x = Access("subStrong", old, nullptr) \/ x = Access("store", d, h)
      BY <1>1
    <2> QED BY <2>1, <2>2 DEF DueOf
  <1>3. \A x : x \in Due(t)' <=>
           \/ x = Access("subStrong", handle[t][h], nullptr) /\ handle[t][h] # nullptr
           \/ x \in DueOf(t, "addStrong")' \/ x = Access("store", d, h)
    BY <1>2
  <1>4. d \in Controllers \cup {nullptr} /\ DueOf(t, "addStrong")' \subseteq {Access("addStrong", d, nullptr)}
    BY <1>2
  <1>5. /\ ThreadOK(t)'
        /\ \A c \in Controllers : DueOf(t, "addStrong")' # {} \/ c # d => Same(StrongOf(t, c), StrongOf(t, c)')
        /\ DueOf(t, "addStrong")' = {} /\ d \in Controllers =>
             \E x \in Names \ StrongOf(t, d) : StrongOf(t, d)' = StrongOf(t, d) \cup {x}
        /\ \A c : WeakOf(t, c)' = WeakOf(t, c)
        /\ \A c : Doing(t, "destruct", c)' = Doing(t, "destruct", c)
        /\ \A c : Doing(t, "delete", c)' = Doing(t, "delete", c)
    BY <1>2, <1>3, <1>4, AssignsStrong
  <1>6. ASSUME NEW c \in Controllers \ {d} PROVE Keeping(t, c)
    BY <1>5 DEF Keeping, Same
  <1>7. Undisturbed(t, d)
    BY DEF Undisturbed
  <1>8. ControllerOK(d)'
    <2>1. /\ ControllerOK(d) /\ strongCount[d] \in Nat /\ weakCount[d] \in Nat /\ lost[d] \in Nat
          /\ Cardinality(WeakRefs(d)) \in Nat
      BY Referenced
    <2>2. Cardinality(StrongRefs(d)') = Cardinality(StrongRefs(d)) + 1
      BY <1>2, <1>5, Others, Counts
    <2>3. Cardinality(WeakRefs(d)') = Cardinality(WeakRefs(d))
      <3>1. Same(WeakOf(t, d), WeakOf(t, d)')
        BY <1>5 DEF Same
      <3> QED BY <1>5, <3>1, Others, Counts
    <2>4. strongCount'[d] = Cardinality(StrongRefs(d)')
      BY <2>1, <2>2 DEF ControllerOK
    <2>5. weakCount'[d] = Cardinality(WeakRefs(d)') + lost'[d] + Share(d)'
      <3>1. Share(d) \in Nat /\ Share(d)' \in Nat /\ weakCount'[d] \in Nat
        BY DEF Share, PointerTypes
      <3>2. weakCount[d] = Cardinality(WeakRefs(d)) + lost[d] + Share(d)
        BY <2>1 DEF ControllerOK
      <3> QED BY <2>1, <2>3, <3>1, <3>2
    <2>6. \A u \in Owners : ~Doing(u, "destruct", d)' /\ ~Doing(u, "delete", d)'
      BY <1>5, Others
    <2>7. strongCount'[d] # 0
      BY <2>1
    <2> QED BY <2>4, <2>5, <2>6, <2>7 DEF ControllerOK
  <1> QED BY <1>5, <1>6, <1>7, <1>8, Assemble

LEMMA TryAddStrongInv ==
  ASSUME PointerInv, NEW t \in Owners, TryAddStrongRef(t)
  PROVE  PointerInv'
  <1>1. todo[t] # <<>> /\ Now(t).what \in {"load", "cas"} /\ Now(t).what = "cas"
    BY DEF TryAddStrongRef, Facing, Now
  <1>2. PICK n, h, d, old : Now(t) = n /\ n.h = h /\ n.c = d /\ old = handle[t][h]
    OBVIOUS
  <1>3. Resting(t) /\ h \in Strong(t) /\ d \in Controllers /\ n.seen # 0
    BY <1>1, <1>2, Looking
  <1>4. CASE strongCount[d] = n.seen
    <2> DEFINE q == OnController("subStrong", old, nullptr) \o Store(d, h)
    <2>1. h \in Handles /\ old \in Controllers \cup {nullptr} /\ d \in Controllers \cup {nullptr}
      BY <1>2, <1>3, HandleKinds DEF PointerInv, PointerTypes
    <2>2. /\ q \in Seq(Accesses) /\ Ordered(q)
          /\ \A x : x \in Items(q) <=>
               (x = Access("subStrong", old, nullptr) /\ old # nullptr) \/ x = Access("store", d, h)
      BY ONLY <2>1, ScriptStrong
    <2>3. /\ Then(t, q) /\ strongCount' = [strongCount EXCEPT ![d] = @ + 1]
          /\ UNCHANGED <<threadSafe, weakCount, life, handle, lost>>
      BY <1>2, <1>4 DEF TryAddStrongRef
    <2> HIDE DEF q
    <2>4. /\ Mine(t) /\ todo' \in [Owners -> Seq(Accesses)] /\ Ordered(todo[t])'
          /\ Due(t)' = Items(q)
      BY <1>1, <2>2, <2>3, GoingOn
    <2>5. \A x : x \in Due(t)' <=>
             \/ x = Access("subStrong", handle[t][h], nullptr) /\ handle[t][h] # nullptr
             \/ x = Access("store", d, h)
      BY <1>2, <2>2, <2>4
    <2>6. /\ strongCount[d] > 0 /\ weakCount[d] > 0 /\ life[d] = "alive"
          /\ strongCount[d] \in Nat /\ weakCount[d] \in Nat
      BY <1>3, <1>4, Referenced
    <2>7. strongCount \in [Controllers -> Nat]
      BY DEF PointerInv, PointerTypes
    <2>8. /\ strongCount'[d] = strongCount[d] + 1
          /\ \A c \in Controllers \ {d} : strongCount'[c] = strongCount[c]
      BY <1>3, <2>3, <2>7
    <2>9. PointerTypes'
      <3>1. strongCount' \in [Controllers -> Nat]
        BY <1>3, <2>3, <2>7
      <3> QED BY <2>3, <3>1 DEF PointerInv, PointerTypes
    <2>10. Share(d) = 1 /\ Share(d)' = 1
      BY <2>6, <2>8 DEF Share
    <2>11. \A u \in Owners : ~Doing(u, "destruct", d) /\ ~Doing(u, "delete", d)
      BY <2>6, DoingMeans
    <2>12. weakCount'[d] = weakCount[d] /\ life'[d] = "alive"
           /\ \A c \in Controllers \ {d} : weakCount'[c] = weakCount[c] /\ life'[c] = life[c]
      BY <2>3, <2>6
    <2> QED BY <1>3, <2>3, <2>4, <2>5, <2>6, <2>8, <2>9, <2>10, <2>11, <2>12, Taking
  <1>5. CASE strongCount[d] # n.seen
    <2>1. PICK count : count = strongCount[d]
      OBVIOUS
    <2>2. count \in Nat
      BY <1>3, <2>1 DEF PointerInv, PointerTypes
    <2>3. Retry(t, count) /\ UNCHANGED <<threadSafe, strongCount, weakCount, handle, lost, life>>
      BY <1>2, <1>5, <2>1 DEF TryAddStrongRef
    <2> QED BY <1>1, <2>2, <2>3, RetryInv
  <1> QED BY <1>4, <1>5

LEMMA MakeSharedInv ==
  ASSUME PointerInv, NEW t \in Owners, NEW h \in Strong(t), MakeShared(t, h)
  PROVE  PointerInv'
  <1>1. PICK old : old = handle[t][h]
    OBVIOUS
  <1> DEFINE q(d) == OnController("subStrong", old, nullptr) \o Store(d, h)
  <1>2. PICK d \in Controllers :
          /\ Idle(t) /\ life[d] = "unborn"
          /\ life' = [life EXCEPT ![d] = "alive"]
          /\ strongCount' = [strongCount EXCEPT ![d] = 1]
          /\ weakCount' = [weakCount EXCEPT ![d] = 1]
          /\ todo' = [todo EXCEPT ![t] = q(d)]
          /\ UNCHANGED <<threadSafe, handle, lost>>
    BY <1>1 DEF MakeShared
  <1>3. h \in Handles /\ old \in Controllers \cup {nullptr} /\ d \in Controllers \cup {nullptr}
    BY <1>1, HandleKinds DEF PointerInv, PointerTypes
  <1>4. /\ q(d) \in Seq(Accesses) /\ Ordered(q(d))
        /\ \A x : x \in Items(q(d)) <=>
             (x = Access("subStrong", old, nullptr) /\ old # nullptr) \/ x = Access("store", d, h)
    BY ONLY <1>3, ScriptStrong
  <1> HIDE DEF q
  <1>5. Resting(t)
    BY <1>2, IdleRests
  <1>6. /\ todo' \in [Owners -> Seq(Accesses)] /\ todo'[t] = q(d)
        /\ \A u \in Owners \ {t} : todo'[u] = todo[u]
        /\ Due(t)' = Items(q(d))
    BY <1>2, <1>4, Begun
  <1>7. Mine(t) /\ Ordered(todo[t])'
    BY <1>2, <1>4, <1>6 DEF Mine
  <1>8. \A x : x \in Due(t)' <=>
           \/ x = Access("subStrong", handle[t][h], nullptr) /\ handle[t][h] # nullptr
           \/ x = Access("store", d, h)
    BY <1>1, <1>4, <1>6
  <1>9. PointerTypes /\ strongCount \in [Controllers -> Nat] /\ weakCount \in [Controllers -> Nat]
        /\ life \in [Controllers -> {"unborn", "alive", "destroyed", "deleted"}]
    BY DEF PointerInv, PointerTypes
  <1>10. PointerTypes'
    BY <1>2, <1>9 DEF PointerTypes
  <1>11. /\ strongCount'[d] = 1 /\ weakCount'[d] = 1 /\ life'[d] = "alive"
         /\ \A c \in Controllers \ {d} : /\ strongCount'[c] = strongCount[c]
                                         /\ weakCount'[c] = weakCount[c] /\ life'[c] = life[c]
    BY <1>2, <1>9
  <1>12. weakCount[d] = 0 /\ strongCount[d] = 0 /\ Share(d) = 0 /\ Share(d)' = 1
    <2>1. ControllerOK(d) /\ strongCount[d] \in Nat /\ life[d] = "unborn"
      BY <1>2, Referenced
    <2>2. weakCount[d] = 0 /\ strongCount[d] = 0
      BY <2>1 DEF ControllerOK
    <2> QED BY <1>11, <2>1, <2>2 DEF Share
  <1>13. \A u \in Owners : ~Doing(u, "destruct", d) /\ ~Doing(u, "delete", d)
    BY <1>2, DoingMeans
  <1>14. threadSafe' = threadSafe /\ handle' = handle /\ lost' = lost
    BY <1>2
  <1>15. strongCount'[d] = strongCount[d] + 1 /\ weakCount'[d] > 0
         /\ weakCount'[d] - Share(d)' = weakCount[d] - Share(d)
    BY <1>11, <1>12
  <1> QED BY <1>5, <1>6, <1>7, <1>8, <1>10, <1>11, <1>13, <1>14, <1>15, Taking

\* The reference of a weak handle that is cleared is lost.
LEMMA ClearWeakInv ==
  ASSUME PointerInv, NEW t \in Owners, NEW w \in Weak(t), ClearWeak(t, w)
  PROVE  PointerInv'
  <1>1. PICK c0 : handle[t][w] = c0
    OBVIOUS
  <1>2. /\ Idle(t) /\ c0 # nullptr /\ lost[c0] < MaxLost
        /\ lost' = [lost EXCEPT ![c0] = @ + 1]
        /\ handle' = [handle EXCEPT ![t][w] = nullptr]
        /\ UNCHANGED <<threadSafe, strongCount, weakCount, life, todo>>
    BY <1>1 DEF ClearWeak
  <1>3. handle \in [Owners -> [Handles -> Controllers \cup {nullptr}]] /\ lost \in [Controllers -> 0 .. MaxLost]
        /\ w \in Handles /\ todo \in [Owners -> Seq(Accesses)]
    BY HandleKinds DEF PointerInv, PointerTypes
  <1>4. c0 \in Controllers
    BY <1>1, <1>2, <1>3
  <1>5. /\ \A u \in Owners \ {t} : handle'[u] = handle[u]
        /\ handle'[t][w] = nullptr /\ \A k \in Handles : k # w => handle'[t][k] = handle[t][k]
    BY <1>2, <1>3
  <1>6. Mine(t)
    BY <1>2, <1>5 DEF Mine
  <1>7. lost'[c0] = lost[c0] + 1 /\ lost'[c0] \in 0 .. MaxLost
        /\ \A c \in Controllers \ {c0} : lost'[c] = lost[c]
    BY <1>2, <1>3, <1>4, PointerAssumption
  <1>8. PointerTypes'
    <2>1. lost' \in [Controllers -> 0 .. MaxLost]
      BY <1>2, <1>3, <1>4, <1>7
    <2>2. handle' \in [Owners -> [Handles -> Controllers \cup {nullptr}]]
      BY <1>2, <1>3
    <2> QED BY <1>2, <2>1, <2>2 DEF PointerInv, PointerTypes
  <1>9. /\ Due(t) = {} /\ (\A what : DueOf(t, what) = {}) /\ (\A what, c : ~Doing(t, what, c))
        /\ \A c : /\ StrongOf(t, c) = {h \in Strong(t) : handle[t][h] = c}
                  /\ WeakOf(t, c) = {h \in Weak(t) : handle[t][h] = c}
    BY <1>2, IdleHas
  <1>10. Due(t)' = {} /\ Ordered(todo[t])'
    BY <1>2, <1>9, NoItems DEF Due, Idle
  <1>11. ThreadOK(t)'
    BY <1>10 DEF ThreadOK
  <1>12. (\A what : DueOf(t, what)' = {}) /\ (\A what, c : ~Doing(t, what, c)') /\ Stored(t)' = {}
    BY <1>10 DEF DueOf, Doing, Stored
  <1>13. Strong(t)' = Strong(t) /\ Weak(t)' = Weak(t)
    BY <1>2 DEF Strong, Weak
  <1>14. \A c : /\ StrongOf(t, c)' = {h \in Strong(t) : handle'[t][h] = c}
                /\ WeakOf(t, c)' = {h \in Weak(t) : handle'[t][h] = c}
    BY <1>12, <1>13 DEF StrongOf, WeakOf, RefsOf
  <1>15. \A c \in Controllers : StrongOf(t, c)' = StrongOf(t, c)
    <2>1. \A k \in Strong(t) : k \in Handles /\ k # w
      BY HandleKinds
    <2>2. \A k \in Strong(t) : handle'[t][k] = handle[t][k]
      BY <1>5, <2>1
    <2> HIDE DEF Strong
    <2>3. \A c : {h \in Strong(t) : handle'[t][h] = c} = {h \in Strong(t) : handle[t][h] = c}
      BY ONLY <2>2
    <2> QED BY ONLY <1>9, <1>14, <2>3
  <1>16. \A c \in Controllers : WeakOf(t, c)' = WeakOf(t, c) \ {w} /\ (c # c0 => w \notin WeakOf(t, c))
    <2>1. \A c \in Controllers, k \in Weak(t) : handle'[t][k] = c <=> handle[t][k] = c /\ k # w
      BY <1>5, HandleKinds, PointerAssumption
    <2> QED BY <1>1, <1>9, <1>14, <2>1
  <1>17. \A c : /\ Doing(t, "destruct", c)' = Doing(t, "destruct", c)
                /\ Doing(t, "delete", c)' = Doing(t, "delete", c)
    <2>1. DueOf(t, "destruct")' = DueOf(t, "destruct") /\ DueOf(t, "delete")' = DueOf(t, "delete")
      BY <1>9, <1>12
    <2> QED BY <2>1 DEF Doing
  <1>18. ASSUME NEW c \in Controllers \ {c0} PROVE Keeping(t, c)
    <2>1. WeakOf(t, c)' = WeakOf(t, c)
      BY <1>16
    <2> QED BY <1>2, <1>7, <1>15, <1>17, <2>1 DEF Keeping, Same
  <1>19. Undisturbed(t, c0)
    BY <1>2, DoingMeans DEF Undisturbed
  <1>20. ControllerOK(c0)'
    <2>1. /\ ControllerOK(c0) /\ strongCount[c0] \in Nat /\ weakCount[c0] \in Nat /\ lost[c0] \in Nat
          /\ Cardinality(WeakRefs(c0)) \in Nat
      BY <1>4, Referenced
    <2>2. Cardinality(StrongRefs(c0)') = Cardinality(StrongRefs(c0))
      <3>1. Same(StrongOf(t, c0), StrongOf(t, c0)')
        BY <1>4, <1>15 DEF Same
      <3> QED BY <1>6, <3>1, Others, Counts
    <2>3. Cardinality(WeakRefs(c0)') = Cardinality(WeakRefs(c0)) - 1
      <3>1. w \in Names \cap WeakOf(t, c0) /\ WeakOf(t, c0)' = WeakOf(t, c0) \ {w}
        BY <1>1, <1>4, <1>9, <1>16, HandleKinds
      <3> QED BY <1>6, <3>1, Others, Counts
    <2>4. Share(c0)' = Share(c0) /\ Share(c0) \in Nat
      BY <1>2 DEF Share
    <2>5. \A u \in Owners : /\ Doing(u, "destruct", c0)' = Doing(u, "destruct", c0)
                             /\ Doing(u, "delete", c0)' = Doing(u, "delete", c0)
      BY <1>6, <1>17, Others
    <2> QED BY <1>2, <1>7, <2>1, <2>2, <2>3, <2>4, <2>5 DEF ControllerOK
  <1> QED BY <1>2, <1>3, <1>6, <1>8, <1>10, <1>11, <1>18, <1>19, <1>20, Assemble

LEMMA MoveSharedInv ==
  ASSUME PointerInv, NEW t \in Owners, NEW h \in Strong(t), NEW g \in Strong(t), MoveShared(t, h, g)
  PROVE  PointerInv'
  <1>1. h # g /\ handle[t][g] # nullptr
        /\ Begin(t, OnController("subStrong", handle[t][h], nullptr) \o Store(handle[t][g], h) \o Store(nullptr, g))
    BY DEF MoveShared
  <1> QED BY <1>1, MovingStrong

LEMMA MoveWeakInv ==
  ASSUME PointerInv, NEW t \in Owners, NEW w \in Weak(t), NEW v \in Weak(t), MoveWeak(t, w, v)
  PROVE  PointerInv'
  <1>1. w # v /\ handle[t][v] # nullptr
        /\ Begin(t, OnController("subWeak", handle[t][w], nullptr) \o Store(handle[t][v], w) \o Store(nullptr, v))
    BY DEF MoveWeak
  <1> QED BY <1>1, MovingWeak

LEMMA ResetSharedInv ==
  ASSUME PointerInv, NEW t \in Owners, NEW h \in Strong(t), ResetShared(t, h)
  PROVE  PointerInv'
  <1>1. Begin(t, OnController("subStrong", handle[t][h], nullptr) \o Store(nullptr, h))
    BY DEF ResetShared
  <1> QED BY <1>1, ResettingStrong

LEMMA ResetWeakInv ==
  ASSUME PointerInv, NEW t \in Owners, NEW w \in Weak(t), ResetWeak(t, w)
  PROVE  PointerInv'
  <1>1. Begin(t, OnController("subWeak", handle[t][w], nullptr) \o Store(nullptr, w))
    BY DEF ResetWeak
  <1> QED BY <1>1, ResettingWeak

LEMMA OperationInv ==
  ASSUME PointerInv, NEW t \in Owners, Operation(t)
  PROVE  PointerInv'
  <1>1. CASE \E h \in Strong(t) : MakeShared(t, h) \/ ResetShared(t, h)
    BY <1>1, MakeSharedInv, ResetSharedInv
  <1>2. CASE \E h, g \in Strong(t) : CopyShared(t, h, g) \/ MoveShared(t, h, g)
    BY <1>2, CopySharedInv, MoveSharedInv
  <1>3. CASE \E w \in Weak(t) : ResetWeak(t, w) \/ ClearWeak(t, w)
    BY <1>3, ResetWeakInv, ClearWeakInv
  <1>4. CASE \E w, v \in Weak(t) : CopyWeak(t, w, v) \/ MoveWeak(t, w, v)
    BY <1>4, CopyWeakInv, MoveWeakInv
  <1>5. CASE \E w \in Weak(t), h \in Strong(t) : WeakFromShared(t, w, h) \/ Lock(t, w, h)
    BY <1>5, WeakFromSharedInv, LockInv
  <1> QED BY <1>1, <1>2, <1>3, <1>4, <1>5 DEF Operation

LEMMA StepInv ==
  ASSUME PointerInv, NEW t \in Owners, Step(t)
  PROVE  PointerInv'
BY AddStrongInv, ReleaseStrongInv, DestructInv, AddWeakInv, ReleaseWeakInv, DeleteInv, LoadStrongInv,
   TryAddStrongInv, StoreHandleInv DEF Step

LEMMA StandsStill ==
  ASSUME PointerInv, UNCHANGED pointerVars
  PROVE  PointerInv'
  <1>1. UNCHANGED <<threadSafe, strongCount, weakCount, life, handle, lost, todo>>
    BY DEF pointerVars
  <1>2. \A t : /\ Due(t)' = Due(t) /\ Strong(t)' = Strong(t) /\ Weak(t)' = Weak(t)
              /\ \A what : DueOf(t, what)' = DueOf(t, what)
    BY <1>1 DEF Due, DueOf, Strong, Weak
  <1>3. \A t : /\ Stored(t)' = Stored(t)
              /\ \A what, c : Doing(t, what, c)' = Doing(t, what, c)
    BY <1>2 DEF Stored, Doing
  <1>4. \A t, c : StrongOf(t, c)' = StrongOf(t, c) /\ WeakOf(t, c)' = WeakOf(t, c)
    BY <1>1, <1>2, <1>3 DEF StrongOf, WeakOf, RefsOf
  <1>5. \A c : /\ StrongRefs(c)' = StrongRefs(c) /\ WeakRefs(c)' = WeakRefs(c)
              /\ Share(c)' = Share(c)
    BY <1>1, <1>4 DEF StrongRefs, WeakRefs, Share
  <1>6. \A t, c, handles : Keeps(t, c, handles)' = Keeps(t, c, handles)
    BY <1>1, <1>3 DEF Keeps
  <1>7. \A t \in Owners : ThreadOK(t)'
    <2>1. ASSUME NEW t \in Owners, NEW x \in Due(t) PROVE AccessOK(t, x)'
      <3>1. AccessOK(t, x)
        BY DEF PointerInv, ThreadOK
      <3> QED BY ONLY <1>1, <1>2, <1>3, <1>6, <3>1 DEF AccessOK
    <2> QED BY <1>1, <1>2, <2>1 DEF PointerInv, ThreadOK
  <1>8. \A c \in Controllers : ControllerOK(c)'
    BY <1>1, <1>3, <1>5 DEF PointerInv, ControllerOK
  <1> QED BY <1>1, <1>7, <1>8 DEF PointerInv, PointerTypes

LEMMA InitPointerInv == PointerInit => PointerInv
  <1> SUFFICES ASSUME PointerInit PROVE PointerInv
    OBVIOUS
  <1> DEFINE R == {t \in Owners : TakesPart(t)}
  <1>1. /\ threadSafe \in BOOLEAN
        /\ handle = [t \in Owners |-> [h \in Handles |->
                        IF TakesPart(t) /\ h = "a" THEN First ELSE nullptr]]
        /\ strongCount = [c \in Controllers |-> IF c = First THEN Cardinality(R) ELSE 0]
        /\ weakCount = [c \in Controllers |-> IF c = First THEN 1 ELSE 0]
        /\ life = [c \in Controllers |-> IF c = First THEN "alive" ELSE "unborn"]
        /\ lost = [c \in Controllers |-> 0]
        /\ todo = [t \in Owners |-> <<>>]
    BY DEF PointerInit
  <1>2. IsFiniteSet(R) /\ Cardinality(R) \in Nat /\ Cardinality(R) # 0
    <2>1. R \in SUBSET Owners
      OBVIOUS
    <2>2. R # {}
      <3>1. (CHOOSE u \in Owners : TRUE) \in Owners
        BY PointerAssumption
      <3> QED BY <3>1 DEF TakesPart
    <2> QED BY <2>1, <2>2, PointerAssumption, FS_Subset, FS_CardinalityType, FS_EmptySet
  <1> HIDE DEF R
  <1>3. PointerTypes /\ todo \in [Owners -> Seq(Accesses)]
    <2>1. handle \in [Owners -> [Handles -> Controllers \cup {nullptr}]]
      BY <1>1, PointerAssumption
    <2>2. strongCount \in [Controllers -> Nat] /\ weakCount \in [Controllers -> Nat]
          /\ lost \in [Controllers -> 0 .. MaxLost]
          /\ life \in [Controllers -> {"unborn", "alive", "destroyed", "deleted"}]
      BY <1>1, <1>2, PointerAssumption
    <2> QED BY <1>1, <2>1, <2>2, NoItems DEF PointerTypes
  <1>4. \A t \in Owners : Idle(t)
    BY <1>1 DEF Idle
  <1>5. \A t \in Owners : ThreadOK(t)
    BY <1>4, IdleHas, NoItems DEF ThreadOK, Idle
  <1>6. \A t \in Owners, c \in Controllers :
          /\ WeakOf(t, c) = {}
          /\ StrongOf(t, c) = IF c = First /\ t \in R THEN {"a"} ELSE {}
    <2> SUFFICES ASSUME NEW t \in Owners, NEW c \in Controllers
                 PROVE  /\ WeakOf(t, c) = {}
                        /\ StrongOf(t, c) = IF c = First /\ t \in R THEN {"a"} ELSE {}
      OBVIOUS
    <2>1. /\ StrongOf(t, c) = {h \in Strong(t) : handle[t][h] = c}
          /\ WeakOf(t, c) = {h \in Weak(t) : handle[t][h] = c}
      BY <1>4, IdleHas
    <2>2. \A h \in Handles : handle[t][h] = c <=> h = "a" /\ c = First /\ t \in R
      BY <1>1, PointerAssumption DEF R
    <2>3. "a" \in Strong(t) /\ "a" \in Handles /\ "a" \notin Weak(t)
      BY DEF Strong, Weak, Handles
    <2> QED BY <2>1, <2>2, <2>3, HandleKinds
  <1>7. \A c \in Controllers : /\ WeakRefs(c) = {}
                               /\ StrongRefs(c) = IF c = First THEN R \X {"a"} ELSE {}
    <2> SUFFICES ASSUME NEW c \in Controllers
                 PROVE  /\ WeakRefs(c) = {}
                        /\ StrongRefs(c) = IF c = First THEN R \X {"a"} ELSE {}
      OBVIOUS
    <2>1. \A t \in Owners, n \in Names : <<t, n>> \in WeakRefs(c) <=> n \in WeakOf(t, c)
      BY DEF WeakRefs, Total
    <2>2. \A t \in Owners, n \in Names : <<t, n>> \in StrongRefs(c) <=> n \in StrongOf(t, c)
      BY DEF StrongRefs, Total
    <2>3. /\ WeakRefs(c) \subseteq Owners \X Names /\ StrongRefs(c) \subseteq Owners \X Names
          /\ R \subseteq Owners /\ "a" \in Names
      BY DEF WeakRefs, StrongRefs, Total, R, Names, Handles
    <2>4. WeakRefs(c) = {}
      BY <1>6, <2>1, <2>3
    <2>5. CASE c = First
      <3>1. \A t \in Owners, n \in Names : <<t, n>> \in StrongRefs(c) <=> t \in R /\ n = "a"
        BY <1>6, <2>2, <2>5
      <3> QED BY <2>3, <2>4, <2>5, <3>1
    <2>6. CASE c # First
      BY <1>6, <2>2, <2>3, <2>4, <2>6
    <2> QED BY <2>5, <2>6
  <1>8. Cardinality(R \X {"a"}) = Cardinality(R)
    <2>1. IsFiniteSet({"a"}) /\ Cardinality({"a"}) = 1
      BY FS_Singleton
    <2>2. Cardinality(R \X {"a"}) = Cardinality(R) * 1
      BY <1>2, <2>1, FS_Product
    <2> QED BY <1>2, <2>2
  <1>9. \A c \in Controllers : ControllerOK(c)
    <2> SUFFICES ASSUME NEW c \in Controllers PROVE ControllerOK(c)
      OBVIOUS
    <2>1. \A t \in Owners : \A what : ~Doing(t, what, c)
      BY <1>4, IdleHas
    <2>2. Cardinality(WeakRefs(c)) = 0 /\ Cardinality(StrongRefs(c)) = strongCount[c]
      BY <1>1, <1>2, <1>7, <1>8, FS_EmptySet
    <2>3. weakCount[c] = Share(c) /\ lost[c] = 0 /\ Share(c) \in Nat
      BY <1>1, <1>2 DEF Share
    <2>4. /\ strongCount[c] > 0 <=> c = First
          /\ life[c] = "alive" <=> c = First
          /\ life[c] # "alive" => life[c] = "unborn" /\ weakCount[c] = 0
      BY <1>1, <1>2
    <2>5. strongCount[c] = 0 => c # First
      BY <2>4
    <2> QED BY <2>1, <2>2, <2>3, <2>4, <2>5 DEF ControllerOK
  <1> QED BY <1>3, <1>5, <1>9 DEF PointerInv

LEMMA InvOwnership == PointerInv => Ownership
  <1> SUFFICES ASSUME PointerInv PROVE Ownership
    OBVIOUS
  <1>1. \A t \in Owners : \A h \in Strong(t) :
          handle[t][h] # nullptr /\ h \notin Assigned(t) => life[handle[t][h]] = "alive"
    <2> SUFFICES ASSUME NEW t \in Owners, NEW h \in Strong(t), handle[t][h] # nullptr, h \notin Assigned(t)
                 PROVE  life[handle[t][h]] = "alive"
      OBVIOUS
    <2>1. PICK c : handle[t][h] = c
      OBVIOUS
    <2>2. c \in Controllers
      BY <2>1, HandleKinds DEF PointerInv, PointerTypes
    <2>3. h \notin Stored(t)
      BY DEF Assigned, Stored, DueOf, Due, Items
    <2>4. h \in StrongOf(t, c)
      BY <2>1, <2>3 DEF StrongOf, RefsOf
    <2> QED BY <2>1, <2>2, <2>4, Referenced
  <1>2. \A t \in Owners :
          todo[t] # <<>> /\ ~Facing(t, "store") =>
            life[Now(t).c] \in (IF Facing(t, "destruct") \/ Facing(t, "addStrong") THEN {"alive"}
                                ELSE IF Facing(t, "delete") THEN {"destroyed"}
                                ELSE {"alive", "destroyed"})
    <2> SUFFICES ASSUME NEW t \in Owners, todo[t] # <<>>, ~Facing(t, "store")
                 PROVE  life[Now(t).c] \in (IF Facing(t, "destruct") \/ Facing(t, "addStrong") THEN {"alive"}
                                            ELSE IF Facing(t, "delete") THEN {"destroyed"}
                                            ELSE {"alive", "destroyed"})
      OBVIOUS
    <2>1. PICK x : Now(t) = x
      OBVIOUS
    <2>2. x \in Due(t) /\ AccessOK(t, x) /\ \A what : Facing(t, what) <=> x.what = what
      <3>1. todo[t] \in Seq(Accesses) /\ Ordered(todo[t])
        BY DEF PointerInv, ThreadOK
      <3>2. Head(todo[t]) \in Items(todo[t])
        BY <3>1, FirstItem
      <3> QED BY <2>1, <3>2 DEF Now, Facing, Due, PointerInv, ThreadOK
    <2>3. PICK c : x.c = c
      OBVIOUS
    <2>4. x.what # "store" /\ c \in Controllers /\ x.what \in Whats
      BY <2>2, <2>3 DEF AccessOK, Accesses
    <2>5. Doing(t, x.what, c)
      BY <2>2, <2>3 DEF Doing, DueOf
    <2>6. life[c] \in {"unborn", "alive", "destroyed", "deleted"} /\ ControllerOK(c)
      BY <2>4 DEF PointerInv, PointerTypes
    <2>7. \A k \in Strong(t) : k \notin Stored(t) /\ handle[t][k] = c => life[c] = "alive"
      <3>1. \A k \in Strong(t) : k \notin Stored(t) /\ handle[t][k] = c => k \in StrongOf(t, c)
        BY DEF StrongOf, RefsOf
      <3> QED BY <2>4, <3>1, Referenced
    <2>8. \A k \in Weak(t) : k \notin Stored(t) /\ handle[t][k] = c => life[c] \in {"alive", "destroyed"}
      <3>1. \A k \in Weak(t) : k \notin Stored(t) /\ handle[t][k] = c => k \in WeakOf(t, c)
        BY DEF WeakOf, RefsOf
      <3>2. WeakOf(t, c) # {} => weakCount[c] > 0
        BY <2>4, Referenced
      <3> QED BY <2>6, <3>1, <3>2 DEF ControllerOK
    <2>9. CASE x.what = "destruct"
      BY <2>1, <2>2, <2>3, <2>9 DEF AccessOK
    <2>10. CASE x.what = "delete"
      BY <2>1, <2>2, <2>3, <2>10 DEF AccessOK
    <2>11. CASE x.what = "addStrong"
      BY <2>1, <2>2, <2>3, <2>7, <2>11 DEF AccessOK, Keeps
    <2>12. CASE x.what = "addWeak"
      BY <2>1, <2>2, <2>3, <2>7, <2>8, <2>12 DEF AccessOK, Keeps
    <2>13. CASE x.what \in {"load", "cas"}
      BY <2>1, <2>2, <2>3, <2>8, <2>13 DEF AccessOK, Keeps
    <2>14. CASE x.what = "subStrong"
      <3>1. life[c] = "alive"
        BY <2>4, <2>5, <2>14, DoingMeans, Referenced
      <3> QED BY <2>1, <2>2, <2>3, <2>14, <3>1
    <2>15. CASE x.what = "subWeak"
      <3>1. weakCount[c] > 0
        BY <2>4, <2>5, <2>15, DoingMeans, Referenced
      <3>2. life[c] \in {"alive", "destroyed"}
        BY <2>6, <3>1 DEF ControllerOK
      <3> QED BY <2>1, <2>2, <2>3, <2>15, <3>2
    <2> QED BY <2>4, <2>9, <2>10, <2>11, <2>12, <2>13, <2>14, <2>15 DEF Whats
  <1> QED BY <1>1, <1>2 DEF Ownership

LEMMA InvExact == PointerInv => RefCountsExact
  <1> SUFFICES ASSUME PointerInv, \A t \in Owners : Idle(t), NEW c \in Controllers, life[c] # "unborn"
               PROVE  /\ strongCount[c] = Cardinality(Holders(c, Strong))
                      /\ weakCount[c] = Cardinality(Holders(c, Weak)) + lost[c]
                                          + (IF strongCount[c] > 0 \/ ~threadSafe THEN 1 ELSE 0)
                      /\ life[c] = IF strongCount[c] > 0 THEN "alive"
                                   ELSE IF weakCount[c] > 0 THEN "destroyed" ELSE "deleted"
    BY DEF RefCountsExact
  <1>1. \A t \in Owners : /\ \A what : ~Doing(t, what, c)
                           /\ StrongOf(t, c) = {h \in Strong(t) : handle[t][h] = c}
                           /\ WeakOf(t, c) = {h \in Weak(t) : handle[t][h] = c}
    BY IdleHas
  <1>2. StrongRefs(c) = Holders(c, Strong)
    <2> DEFINE R == StrongRefs(c)
               H == Holders(c, Strong)
    <2>1. \A t \in Owners, n \in Names : <<t, n>> \in R <=> n \in Strong(t) /\ handle[t][n] = c
      BY <1>1 DEF StrongRefs, Total
    <2>2. \A t \in Owners, n \in Handles : <<t, n>> \in H <=> n \in Strong(t) /\ handle[t][n] = c
      BY DEF Holders
    <2>3. R \subseteq Owners \X Names /\ H \subseteq Owners \X Handles
      BY DEF StrongRefs, Total, Holders
    <2>4. Handles \subseteq Names /\ \A t : Strong(t) \subseteq Handles
      BY HandleKinds DEF Names
    <2> HIDE DEF R, H
    <2>5. R \subseteq H
      BY <2>1, <2>2, <2>3, <2>4
    <2>6. H \subseteq R
      BY <2>1, <2>2, <2>3, <2>4
    <2> QED BY <2>5, <2>6 DEF R, H
  <1>3. WeakRefs(c) = Holders(c, Weak)
    <2> DEFINE R == WeakRefs(c)
               H == Holders(c, Weak)
    <2>1. \A t \in Owners, n \in Names : <<t, n>> \in R <=> n \in Weak(t) /\ handle[t][n] = c
      BY <1>1 DEF WeakRefs, Total
    <2>2. \A t \in Owners, n \in Handles : <<t, n>> \in H <=> n \in Weak(t) /\ handle[t][n] = c
      BY DEF Holders
    <2>3. R \subseteq Owners \X Names /\ H \subseteq Owners \X Handles
      BY DEF WeakRefs, Total, Holders
    <2>4. Handles \subseteq Names /\ \A t : Weak(t) \subseteq Handles
      BY HandleKinds DEF Names
    <2> HIDE DEF R, H
    <2>5. R \subseteq H
      BY <2>1, <2>2, <2>3, <2>4
    <2>6. H \subseteq R
      BY <2>1, <2>2, <2>3, <2>4
    <2> QED BY <2>5, <2>6 DEF R, H
  <1>4. /\ ControllerOK(c) /\ strongCount[c] \in Nat /\ weakCount[c] \in Nat
        /\ life[c] \in {"alive", "destroyed", "deleted"}
    <2>1. PICK t \in Owners : TRUE
      BY PointerAssumption
    <2> QED BY Referenced DEF PointerInv, PointerTypes
  <1>5. Share(c) = IF strongCount[c] > 0 \/ ~threadSafe THEN 1 ELSE 0
    BY DEF Share
  <1>6. life[c] = IF strongCount[c] > 0 THEN "alive" ELSE IF weakCount[c] > 0 THEN "destroyed" ELSE "deleted"
    BY <1>1, <1>4 DEF ControllerOK
  <1> QED BY <1>2, <1>3, <1>4, <1>5, <1>6 DEF ControllerOK

\* The object lives while a strong reference is held or on its way, the controller while
\* any reference is, and what is left when all are gone was destroyed and deleted once:
\* the counts are those of the handles and of the accesses under way in every state.
THEOREM OwnersKeepAlive == PointerSpec => []PointersSound
  <1>1. PointerInv /\ [PointerNext]_pointerVars => PointerInv'
    <2> SUFFICES ASSUME PointerInv, [PointerNext]_pointerVars PROVE PointerInv'
      OBVIOUS
    <2>1. CASE UNCHANGED pointerVars
      BY <2>1, StandsStill
    <2>2. CASE PointerNext
      BY <2>2, OperationInv, StepInv DEF PointerNext
    <2> QED BY <2>1, <2>2
  <1>2. PointerInv => PointersSound
    BY InvOwnership, InvExact DEF PointerInv, PointersSound
  <1> QED BY <1>1, <1>2, InitPointerInv, PTL DEF PointerSpec

-----------------------------------------------------------------------------
(* UniquePtr and the services of the program                               *)

\* Pointers with these values own each object made, but those in r, once.
OwnedOnce(pointers, r) ==
  /\ pointers \in [Unique!Pointers -> made \cup {nullptr}]
  /\ \A x \in Objects \ made : pointers[x] = nullptr
  /\ \A p, q \in Unique!Pointers : pointers[p] = pointers[q] /\ pointers[p] # nullptr => p = q
  /\ \A p \in Unique!Pointers : pointers[p] \notin r
  /\ \A x \in made \ r : \E p \in Unique!Pointers : pointers[p] = x

UniqueInv ==
  /\ ~corrupted /\ raw \subseteq made /\ made \subseteq Objects
  /\ OwnedOnce(ptr, raw)

\* What hangs on an object that nobody owns are objects made that were not released.
\* What points there, and it points to, hangs on it too.
LEMMA ChainOfOrphan ==
  ASSUME NEW pointers, NEW r, r \subseteq made, made \subseteq Objects, NEW o \in made, o \notin r,
         OwnedOnce(pointers, r \cup {o})
  PROVE  /\ o \in Unique!Chain(pointers, o)
         /\ Unique!Chain(pointers, o) \subseteq made \ r
         /\ \A y \in Unique!Chain(pointers, o) :
              pointers[y] # nullptr => pointers[y] \in Unique!Chain(pointers, o)
         /\ \A p \in Unique!Pointers :
              pointers[p] \in Unique!Chain(pointers, o) => p \in Unique!Chain(pointers, o)
  <1> DEFINE Closed(S) == o \in S /\ \A y \in S : pointers[y] # nullptr => pointers[y] \in S
             D == Unique!Chain(pointers, o)
  <1>1. D = {x \in Objects : \A S \in SUBSET Objects : Closed(S) => x \in S}
    BY DEF Unique!Chain
  <1>2. \A S \in SUBSET Objects : Closed(S) => D \subseteq S
    BY <1>1
  <1>3. nullptr \notin Objects /\ Objects \subseteq Unique!Pointers
    BY PointersAssumption DEF Unique!Pointers
  <1>4. \A y \in Objects : pointers[y] # nullptr => pointers[y] \in made \ (r \cup {o})
    BY <1>3 DEF OwnedOnce
  <1>5. o \in D
    BY <1>1
  <1>6. D \subseteq made \ r
    <2>1. Closed(made \ r) /\ made \ r \in SUBSET Objects
      BY <1>4
    <2> HIDE DEF D, Closed
    <2> QED BY <1>2, <2>1
  <1>7. \A y \in D : pointers[y] # nullptr => pointers[y] \in D
    <2> SUFFICES ASSUME NEW y \in D, pointers[y] # nullptr PROVE pointers[y] \in D
      OBVIOUS
    <2>1. y \in Objects /\ pointers[y] \in Objects
      BY <1>1, <1>4
    <2>2. \A S \in SUBSET Objects : Closed(S) => pointers[y] \in S
      BY <1>2
    <2> HIDE DEF D, Closed
    <2> QED BY <1>1, <2>1, <2>2
  <1>8. ASSUME NEW p \in Unique!Pointers, pointers[p] \in D, p \notin D PROVE FALSE
    <2>1. pointers[p] # o /\ pointers[p] # nullptr
      BY <1>1, <1>3, <1>8 DEF OwnedOnce
    <2>2. Closed(D \ {pointers[p]})
      <3>1. o \in D \ {pointers[p]}
        BY <1>5, <2>1
      <3>2. ASSUME NEW y \in D, pointers[y] # nullptr PROVE pointers[y] \in D \ {pointers[p]}
        <4>1. y \in Unique!Pointers /\ y # p
          BY <1>1, <1>3, <1>8
        <4>2. pointers[y] # pointers[p]
          BY <2>1, <4>1 DEF OwnedOnce
        <4> QED BY <1>7, <3>2, <4>2
      <3> QED BY <3>1, <3>2
    <2>3. D \ {pointers[p]} \in SUBSET Objects
      BY <1>1
    <2> HIDE DEF D, Closed
    <2> QED BY <1>2, <1>8, <2>2, <2>3
  <1> QED BY <1>5, <1>6, <1>7, <1>8

\* The object that a pointer gave up is deleted with all that hangs on it.
LEMMA FinishInv ==
  ASSUME UniqueInv, NEW pointers, NEW o \in made \cup {nullptr}, raw' \subseteq made,
         o \notin raw', OwnedOnce(pointers, raw' \cup ({o} \ {nullptr})),
         Unique!Finish(pointers, o)
  PROVE  UniqueInv'
  <1> DEFINE D == IF o = nullptr THEN {} ELSE Unique!Chain(pointers, o)
  <1>1. made \subseteq Objects /\ ~corrupted
    BY DEF UniqueInv
  <1>2. nullptr \notin Objects /\ Objects \subseteq Unique!Pointers
    BY PointersAssumption DEF Unique!Pointers
  <1>3. /\ D \subseteq made \ raw'
        /\ o # nullptr => o \in D
        /\ \A p \in Unique!Pointers : pointers[p] \in D => p \in D
        /\ \A y \in D : pointers[y] # nullptr => pointers[y] \in D
    <2>1. CASE o = nullptr
      BY <2>1
    <2>2. CASE o # nullptr
      <3>1. {o} \ {nullptr} = {o} /\ o \in made
        BY <2>2
      <3> QED BY <1>1, <2>2, <3>1, ChainOfOrphan
    <2> QED BY <2>1, <2>2
  <1>4. /\ ptr' = [p \in Unique!Pointers |-> IF p \in D THEN nullptr ELSE pointers[p]]
        /\ made' = made \ D /\ corrupted' = (corrupted \/ ~(D \subseteq made))
    BY DEF Unique!Finish
  <1> HIDE DEF D
  <1>5. ~corrupted'
    BY <1>1, <1>3, <1>4
  <1>6. raw' \subseteq made' /\ made' \subseteq Objects
    BY <1>1, <1>3, <1>4
  <1>7. OwnedOnce(ptr, raw)'
    <2>1. ptr' \in [Unique!Pointers -> made' \cup {nullptr}]
      BY <1>3, <1>4 DEF OwnedOnce
    <2>2. \A x \in Objects \ made' : ptr'[x] = nullptr
      BY <1>2, <1>4 DEF OwnedOnce
    <2>3. ASSUME NEW p \in Unique!Pointers, NEW q \in Unique!Pointers,
                 ptr'[p] = ptr'[q], ptr'[p] # nullptr
          PROVE  p = q
      BY <1>4, <2>3 DEF OwnedOnce
    <2>4. \A p \in Unique!Pointers : ptr'[p] \notin raw'
      BY <1>1, <1>2, <1>4 DEF OwnedOnce
    <2>5. ASSUME NEW x \in made' \ raw' PROVE \E p \in Unique!Pointers : ptr'[p] = x
      <3>1. x \in made \ (raw' \cup ({o} \ {nullptr})) /\ x \notin D
        BY <1>3, <1>4
      <3>2. PICK p \in Unique!Pointers : pointers[p] = x
        BY <3>1 DEF OwnedOnce
      <3>3. p \notin D
        BY <1>1, <1>2, <1>3, <3>1, <3>2
      <3> QED BY <1>4, <3>2, <3>3
    <2> QED BY <2>1, <2>2, <2>3, <2>4, <2>5 DEF OwnedOnce
  <1> QED BY <1>5, <1>6, <1>7 DEF UniqueInv

LEMMA UsablePointer ==
  ASSUME UniqueInv, NEW p, Unique!Usable(p)
  PROVE  p \in Unique!Pointers /\ p \notin Objects \ made /\ ptr[p] \in made \cup {nullptr}
  <1>1. p \in Unique!Pointers /\ p \notin Objects \ made
    BY PointersAssumption DEF Unique!Usable, Unique!Pointers, UniqueInv
  <1> QED BY <1>1 DEF UniqueInv, OwnedOnce

\* A pointer gives up what it has.
LEMMA Emptied ==
  ASSUME made \subseteq Objects, NEW g, NEW r, r \subseteq made, OwnedOnce(g, r),
         NEW p \in Unique!Pointers
  PROVE  OwnedOnce([g EXCEPT ![p] = nullptr], r \cup ({g[p]} \ {nullptr}))
  <1> DEFINE f == [g EXCEPT ![p] = nullptr]
             s == r \cup ({g[p]} \ {nullptr})
  <1>1. g \in [Unique!Pointers -> made \cup {nullptr}] /\ nullptr \notin Objects
    BY PointersAssumption DEF OwnedOnce
  <1>2. f \in [Unique!Pointers -> made \cup {nullptr}] /\ f[p] = nullptr
        /\ \A q \in Unique!Pointers : q # p => f[q] = g[q]
    BY <1>1
  <1> HIDE DEF f
  <1>3. \A x \in Objects \ made : f[x] = nullptr
    BY <1>2 DEF OwnedOnce, Unique!Pointers
  <1>4. \A q, k \in Unique!Pointers : f[q] = f[k] /\ f[q] # nullptr => q = k
    BY <1>2 DEF OwnedOnce
  <1>5. \A q \in Unique!Pointers : f[q] \notin s
    <2>1. nullptr \notin s
      BY <1>1
    <2> QED BY <1>2, <2>1 DEF OwnedOnce
  <1>6. \A x \in made \ s : \E q \in Unique!Pointers : f[q] = x
    BY <1>1, <1>2 DEF OwnedOnce
  <1> QED BY <1>2, <1>3, <1>4, <1>5, <1>6 DEF OwnedOnce

\* A pointer that has nothing gets an object that nobody owns.
LEMMA Filled ==
  ASSUME made \subseteq Objects, NEW g, NEW r, OwnedOnce(g, r), NEW x \in made, x \in r,
         NEW p \in Unique!Pointers, p \notin Objects \ made, g[p] = nullptr
  PROVE  OwnedOnce([g EXCEPT ![p] = x], r \ {x})
  <1> DEFINE f == [g EXCEPT ![p] = x]
  <1>1. g \in [Unique!Pointers -> made \cup {nullptr}] /\ nullptr \notin Objects
    BY PointersAssumption DEF OwnedOnce
  <1>2. f \in [Unique!Pointers -> made \cup {nullptr}] /\ f[p] = x
        /\ \A q \in Unique!Pointers : q # p => f[q] = g[q]
    BY <1>1
  <1> HIDE DEF f
  <1>3. \A y \in Objects \ made : f[y] = nullptr
    BY <1>2 DEF OwnedOnce, Unique!Pointers
  <1>4. \A q, k \in Unique!Pointers : f[q] = f[k] /\ f[q] # nullptr => q = k
    BY <1>2 DEF OwnedOnce
  <1>5. \A q \in Unique!Pointers : f[q] \notin r \ {x}
    BY <1>2 DEF OwnedOnce
  <1>6. \A y \in made \ (r \ {x}) : \E q \in Unique!Pointers : f[q] = y
    BY <1>1, <1>2 DEF OwnedOnce
  <1> QED BY <1>2, <1>3, <1>4, <1>5, <1>6 DEF OwnedOnce, f

LEMMA MakeInv ==
  ASSUME UniqueInv, NEW p, NEW o \in Objects, Unique!MakeUnique(p, o)
  PROVE  UniqueInv'
  <1>1. p \in Unique!Pointers /\ p \notin Objects \ made /\ Unique!Usable(p)
    BY UsablePointer DEF Unique!MakeUnique
  <1>2. /\ o \notin made /\ ptr[p] = nullptr /\ p # o
        /\ ptr' = [ptr EXCEPT ![p] = o] /\ made' = made \cup {o}
        /\ raw' = raw /\ corrupted' = corrupted
    BY DEF Unique!MakeUnique
  <1>3. ptr \in [Unique!Pointers -> made \cup {nullptr}] /\ nullptr \notin Objects
        /\ made \subseteq Objects /\ raw \subseteq made
    BY PointersAssumption DEF UniqueInv, OwnedOnce
  <1>4. ptr' \in [Unique!Pointers -> made' \cup {nullptr}] /\ ptr'[p] = o
        /\ \A q \in Unique!Pointers : q # p => ptr'[q] = ptr[q]
    BY <1>1, <1>2, <1>3
  <1>5. \A x \in Objects \ made' : ptr'[x] = nullptr
    BY <1>1, <1>2, <1>4 DEF UniqueInv, OwnedOnce, Unique!Pointers
  <1>6. \A q, k \in Unique!Pointers : ptr'[q] = ptr'[k] /\ ptr'[q] # nullptr => q = k
    BY <1>2, <1>3, <1>4 DEF UniqueInv, OwnedOnce
  <1>7. \A q \in Unique!Pointers : ptr'[q] \notin raw'
    BY <1>2, <1>3, <1>4 DEF UniqueInv, OwnedOnce
  <1>8. \A x \in made' \ raw' : \E q \in Unique!Pointers : ptr'[q] = x
    BY <1>1, <1>2, <1>3, <1>4 DEF UniqueInv, OwnedOnce
  <1>9. OwnedOnce(ptr, raw)'
    BY <1>4, <1>5, <1>6, <1>7, <1>8 DEF OwnedOnce
  <1> QED BY <1>2, <1>3, <1>9 DEF UniqueInv

LEMMA MoveInv ==
  ASSUME UniqueInv, NEW p, NEW q, Unique!MoveAssign(p, q)
  PROVE  UniqueInv'
  <1> DEFINE taken == [ptr EXCEPT ![p] = ptr[q], ![q] = nullptr]
             o == ptr[p]
  <1>1. /\ Unique!Usable(p) /\ Unique!Usable(q) /\ raw' = raw
        /\ UNCHANGED <<array, ptr, made, corrupted>> \/ Unique!Finish(taken, o)
        /\ p = q /\ ~array => UNCHANGED <<array, ptr, made, corrupted>>
    BY DEF Unique!MoveAssign
  <1>2. /\ p \in Unique!Pointers /\ p \notin Objects \ made /\ o \in made \cup {nullptr}
        /\ q \in Unique!Pointers /\ ptr[q] \in made \cup {nullptr}
    BY <1>1, UsablePointer
  <1>3. /\ made \subseteq Objects /\ raw \subseteq made /\ nullptr \notin Objects
        /\ OwnedOnce(ptr, raw) /\ ptr \in [Unique!Pointers -> made \cup {nullptr}]
    BY PointersAssumption DEF UniqueInv, OwnedOnce
  <1>4. o \notin raw
    BY <1>2, <1>3 DEF OwnedOnce
  <1>5. OwnedOnce(taken, raw \cup ({o} \ {nullptr}))
    <2> DEFINE g == [ptr EXCEPT ![p] = nullptr]
               r == raw \cup ({o} \ {nullptr})
    <2>1. OwnedOnce(g, r)
      BY <1>2, <1>3, Emptied
    <2>2. /\ g \in [Unique!Pointers -> made \cup {nullptr}] /\ g[p] = nullptr
          /\ \A k \in Unique!Pointers : k # p => g[k] = ptr[k]
      BY <1>2, <1>3
    <2> DEFINE f == [g EXCEPT ![q] = nullptr]
               s == r \cup ({g[q]} \ {nullptr})
    <2>3. OwnedOnce(f, s)
      <3>1. r \subseteq made
        BY <1>2, <1>3
      <3> HIDE DEF g, r
      <3> QED BY <1>2, <1>3, <2>1, <3>1, Emptied
    <2>4. CASE p = q \/ ptr[q] = nullptr
      <3>1. g[q] = nullptr
        BY <1>2, <2>2, <2>4
      <3>2. s = r
        BY <3>1
      <3>3. taken = f
        BY <1>2, <1>3, <2>4
      <3> HIDE DEF taken, f, s
      <3> QED BY <2>3, <3>2, <3>3
    <2>5. CASE p # q /\ ptr[q] # nullptr
      <3>1. g[q] = ptr[q] /\ ptr[q] \in made
        BY <1>2, <2>2, <2>5
      <3>2. ptr[q] \in s /\ f[p] = nullptr /\ s \ {ptr[q]} = r
        <4>1. ptr[q] # o /\ ptr[q] \notin raw
          BY <1>2, <1>3, <2>5 DEF OwnedOnce
        <4>2. s = r \cup {ptr[q]}
          BY <2>5, <3>1
        <4>3. f[p] = nullptr
          BY <1>2, <2>2, <2>5
        <4> HIDE DEF f, s, g
        <4> QED BY <4>1, <4>2, <4>3
      <3>3. [f EXCEPT ![p] = ptr[q]] = taken
        BY <1>2, <1>3, <2>5
      <3> HIDE DEF f, s, g, taken
      <3>4. OwnedOnce([f EXCEPT ![p] = ptr[q]], s \ {ptr[q]})
        BY <1>2, <1>3, <2>3, <3>1, <3>2, Filled
      <3> QED BY <3>2, <3>3, <3>4
    <2> QED BY <2>4, <2>5
  <1>6. CASE Unique!Finish(taken, o)
    <2> HIDE DEF taken, o
    <2> QED BY <1>1, <1>2, <1>3, <1>4, <1>5, <1>6, FinishInv
  <1>7. CASE UNCHANGED <<array, ptr, made, corrupted>>
    BY <1>1, <1>7 DEF UniqueInv, OwnedOnce
  <1> QED BY <1>1, <1>6, <1>7

LEMMA NullifyInv ==
  ASSUME UniqueInv, NEW p, Unique!Nullify(p)
  PROVE  UniqueInv'
  <1>1. Unique!Usable(p) /\ raw' = raw /\ Unique!Finish([ptr EXCEPT ![p] = nullptr], ptr[p])
    BY DEF Unique!Nullify
  <1>2. p \in Unique!Pointers /\ ptr[p] \in made \cup {nullptr}
    BY <1>1, UsablePointer
  <1>3. OwnedOnce([ptr EXCEPT ![p] = nullptr], raw \cup ({ptr[p]} \ {nullptr}))
    BY <1>2, Emptied DEF UniqueInv
  <1>4. ptr[p] \notin raw /\ raw \subseteq made
    BY <1>2 DEF UniqueInv, OwnedOnce
  <1> QED BY <1>1, <1>2, <1>3, <1>4, FinishInv

LEMMA ResetInv ==
  ASSUME UniqueInv, NEW p, NEW o, Unique!Reset(p, o)
  PROVE  UniqueInv'
  <1>1. /\ Unique!Usable(p) /\ o \in raw \cup {ptr[p]} /\ o # nullptr /\ raw' = raw \ {o}
        /\ o = ptr[p] => UNCHANGED <<array, ptr, made, corrupted>>
        /\ o # ptr[p] => Unique!Finish([ptr EXCEPT ![p] = o], ptr[p])
    BY DEF Unique!Reset
  <1>2. p \in Unique!Pointers /\ p \notin Objects \ made /\ ptr[p] \in made \cup {nullptr}
    BY <1>1, UsablePointer
  <1>3. /\ made \subseteq Objects /\ raw \subseteq made /\ OwnedOnce(ptr, raw)
        /\ ptr[p] \notin raw /\ ptr \in [Unique!Pointers -> made \cup {nullptr}]
    BY <1>2 DEF UniqueInv, OwnedOnce
  <1>4. CASE o = ptr[p]
    <2>1. raw' = raw
      BY <1>1, <1>3, <1>4
    <2> QED BY <1>1, <1>4, <2>1 DEF UniqueInv, OwnedOnce
  <1>5. CASE o # ptr[p]
    <2> DEFINE g == [ptr EXCEPT ![p] = nullptr]
               r == raw \cup ({ptr[p]} \ {nullptr})
    <2>1. OwnedOnce(g, r) /\ g[p] = nullptr
      BY <1>2, <1>3, Emptied
    <2>2. o \in made /\ o \in r
      BY <1>1, <1>3, <1>5
    <2>3. [g EXCEPT ![p] = o] = [ptr EXCEPT ![p] = o]
      BY <1>2, <1>3
    <2>4. r \ {o} = raw' \cup ({ptr[p]} \ {nullptr})
      BY <1>1, <1>5
    <2> HIDE DEF g, r
    <2>5. OwnedOnce([g EXCEPT ![p] = o], r \ {o})
      BY <1>2, <1>3, <2>1, <2>2, Filled
    <2> QED BY <1>1, <1>2, <1>3, <1>5, <2>3, <2>4, <2>5, FinishInv
  <1> QED BY <1>4, <1>5

LEMMA ReleaseInv ==
  ASSUME UniqueInv, NEW p, Unique!Release(p)
  PROVE  UniqueInv'
  <1>1. /\ Unique!Usable(p) /\ ptr[p] # nullptr /\ ptr' = [ptr EXCEPT ![p] = nullptr]
        /\ raw' = raw \cup {ptr[p]} /\ made' = made /\ corrupted' = corrupted
    BY DEF Unique!Release
  <1>2. p \in Unique!Pointers /\ ptr[p] \in made
    BY <1>1, UsablePointer
  <1>3. OwnedOnce([ptr EXCEPT ![p] = nullptr], raw \cup ({ptr[p]} \ {nullptr}))
    BY <1>2, Emptied DEF UniqueInv
  <1>4. {ptr[p]} \ {nullptr} = {ptr[p]}
    BY <1>1
  <1>5. OwnedOnce(ptr', raw')
    BY <1>1, <1>3, <1>4
  <1>6. OwnedOnce(ptr, raw)'
    BY <1>1, <1>5 DEF OwnedOnce
  <1> QED BY <1>1, <1>2, <1>6 DEF UniqueInv

LEMMA UniqueStep ==
  ASSUME UniqueInv, [Unique!Next]_(Unique!vars)
  PROVE  UniqueInv'
  <1>1. CASE UNCHANGED Unique!vars
    BY <1>1 DEF Unique!vars, UniqueInv, OwnedOnce
  <1>2. CASE Unique!Next
    BY <1>2, MakeInv, MoveInv, NullifyInv, ResetInv, ReleaseInv DEF Unique!Next
  <1> QED BY <1>1, <1>2

LEMMA UniqueStart ==
  ASSUME Unique!Init
  PROVE  UniqueInv
  <1>1. made = {} /\ raw = {} /\ corrupted = FALSE /\ ptr = [p \in Unique!Pointers |-> nullptr]
    BY DEF Unique!Init
  <1>2. OwnedOnce(ptr, raw)
    BY <1>1 DEF OwnedOnce, Unique!Pointers
  <1> QED BY <1>1, <1>2 DEF UniqueInv

LEMMA OwnersCounted ==
  ASSUME UniqueInv
  PROVE  Unique!OneOwner
  <1>1. /\ made \subseteq Objects /\ nullptr \notin Objects
        /\ Variables \cup made \subseteq Unique!Pointers
        /\ \A p \in Unique!Pointers : ptr[p] # nullptr => p \in Variables \cup made
    BY PointersAssumption DEF UniqueInv, OwnedOnce, Unique!Pointers
  <1>2. ASSUME NEW o \in made
        PROVE  Cardinality({p \in Variables \cup made : ptr[p] = o}) = IF o \in raw THEN 0 ELSE 1
    <2> DEFINE Having == {p \in Variables \cup made : ptr[p] = o}
    <2>1. CASE o \in raw
      <3>1. Having = {}
        BY <1>1, <2>1 DEF UniqueInv, OwnedOnce
      <3> QED BY <2>1, <3>1, FS_EmptySet
    <2>2. CASE o \notin raw
      <3>1. PICK p \in Unique!Pointers : ptr[p] = o
        BY <2>2 DEF UniqueInv, OwnedOnce
      <3>2. p \in Variables \cup made
        BY <1>1, <3>1
      <3>3. \A q \in Unique!Pointers : ptr[q] = o => q = p
        BY <1>1, <3>1 DEF UniqueInv, OwnedOnce
      <3>4. Having = {p}
        BY <1>1, <3>1, <3>2, <3>3
      <3> QED BY <2>2, <3>4, FS_Singleton
    <2> QED BY <2>1, <2>2
  <1>3. \A p \in Variables \cup made : ptr[p] \in made \cup {nullptr}
    BY <1>1 DEF UniqueInv, OwnedOnce
  <1>4. ~corrupted /\ raw \subseteq made
    BY DEF UniqueInv
  <1>5. \A S : Unique!Cardinality(S) = Cardinality(S)
    BY DEF Unique!Cardinality, Cardinality
  <1> QED BY ONLY <1>2, <1>3, <1>4, <1>5 DEF Unique!OneOwner

-----------------------------------------------------------------------------
\* What there is at each step of the program.
ProgramInv ==
  LET three == {"vfs", "logSystem", "jobSystem"}
      two == {"vfs", "logSystem"}
      one == {"vfs"}
  IN  \/ stage = "makeVfs" /\ services = {} /\ registered = {}
      \/ stage \in {"makeFileSink", "makeLogSystem"} /\ services = one /\ registered = one
      \/ stage = "makeJobSystem" /\ services = two /\ registered = two
      \/ /\ stage \in {"build", "logRow", "logError", "savePpm", "logFinished"}
         /\ services = three /\ registered = three
      \/ stage = "unregister" /\ services = three /\ registered \in {three, two, one}
      \/ stage = "destroy" /\ services \in {three, two, one, {}} /\ registered = {}
      \/ stage = "failed" /\ services = {}

LEMMA FirstServices ==
  /\ Program!FirstOf(0) = {}
  /\ Program!FirstOf(1) = {"vfs"}
  /\ Program!FirstOf(2) = {"vfs", "logSystem"}
  /\ Program!FirstOf(3) = {"vfs", "logSystem", "jobSystem"}
  <1> DEFINE S(k) == Program!Services[k]
  <1>1. S(1) = "vfs" /\ S(2) = "logSystem" /\ S(3) = "jobSystem"
    BY DEF Program!Services
  <1>2. \A n : Program!FirstOf(n) = {S(k) : k \in 1 .. n}
    BY DEF Program!FirstOf
  <1> HIDE DEF S
  <1>3. 1 .. 0 = {} /\ 1 .. 1 = {1} /\ 1 .. 2 = {1, 2} /\ 1 .. 3 = {1, 2, 3}
    OBVIOUS
  <1>4. /\ {S(k) : k \in {}} = {} /\ {S(k) : k \in {1}} = {S(1)}
        /\ {S(k) : k \in {1, 2}} = {S(1), S(2)}
        /\ {S(k) : k \in {1, 2, 3}} = {S(1), S(2), S(3)}
    OBVIOUS
  <1> QED BY <1>1, <1>2, <1>3, <1>4

LEMMA ProgramStep ==
  ASSUME ProgramInv, [Program!Next]_(Program!vars)
  PROVE  ProgramInv'
  <1>1. CASE UNCHANGED Program!vars
    BY <1>1 DEF Program!vars, ProgramInv
  <1>2. CASE Program!MakeVfs \/ Program!MakeFileSink
    BY <1>2 DEF ProgramInv, Program!MakeVfs, Program!MakeFileSink, Program!ReturnError,
                Program!Register
  <1>3. CASE Program!MakeLogSystem
    BY <1>3 DEF ProgramInv, Program!MakeLogSystem, Program!ReturnError, Program!Register
  <1>4. CASE Program!MakeJobSystem
    BY <1>4 DEF ProgramInv, Program!MakeJobSystem, Program!Register
  <1>5. CASE Program!Build \/ Program!LogRow \/ Program!SavePpm \/ Program!LogResult
    BY <1>5 DEF ProgramInv, Program!Build, Program!LogRow, Program!SavePpm, Program!LogResult
  <1>6. CASE Program!Unregister
    <2>1. /\ stage = "unregister" /\ services = {"vfs", "logSystem", "jobSystem"}
          /\ services' = services
      BY <1>6 DEF ProgramInv, Program!Unregister
    <2>2. PICK n \in 1 .. 3 : registered = Program!FirstOf(n) /\ registered' = Program!FirstOf(n - 1)
      BY <1>6 DEF Program!Unregister
    <2>3. n = 1 \/ n = 2 \/ n = 3
      OBVIOUS
    <2>4. \/ registered' = {}
          \/ registered' = {"vfs"}
          \/ registered' = {"vfs", "logSystem"}
      BY <2>2, <2>3, FirstServices
    <2>5. stage' = IF registered' = {} THEN "destroy" ELSE "unregister"
      BY <1>6 DEF Program!Unregister
    <2> QED BY <2>1, <2>4, <2>5 DEF ProgramInv
  <1>7. CASE Program!Destroy
    <2>1. stage = "destroy" /\ stage' = stage /\ registered = {} /\ registered' = registered
      BY <1>7 DEF ProgramInv, Program!Destroy
    <2>2. PICK n \in 1 .. 3 : services = Program!FirstOf(n) /\ services' = Program!FirstOf(n - 1)
      BY <1>7 DEF Program!Destroy
    <2>3. n = 1 \/ n = 2 \/ n = 3
      OBVIOUS
    <2>4. services' = {} \/ services' = {"vfs"} \/ services' = {"vfs", "logSystem"}
      BY <2>2, <2>3, FirstServices
    <2> QED BY <2>1, <2>4 DEF ProgramInv
  <1>8. CASE Program!Done
    BY <1>8 DEF ProgramInv, Program!Done, Program!vars
  <1> QED BY <1>1, <1>2, <1>3, <1>4, <1>5, <1>6, <1>7, <1>8 DEF Program!Next

\* What one has is in AppContext and exists: OneOwner and ServicesLive hold, for any
\* number of objects.
THEOREM OwnersKeepTheirs == Unique!Spec /\ Program!Spec => []OwnersSound
  <1>1. UniqueInv /\ [Unique!Next]_(Unique!vars) => UniqueInv'
    BY UniqueStep
  <1>2. ProgramInv /\ [Program!Next]_(Program!vars) => ProgramInv'
    BY ProgramStep
  <1>3. Unique!Init => UniqueInv
    BY UniqueStart
  <1>4. Program!Init => ProgramInv
    BY DEF Program!Init, ProgramInv
  <1>5. UniqueInv /\ ProgramInv => OwnersSound
    <2>1. ASSUME ProgramInv PROVE Program!ServicesLive
      BY <2>1 DEF ProgramInv, Program!ServicesLive, Program!Gets
    <2> QED BY <2>1, OwnersCounted DEF OwnersSound
  <1> QED BY <1>1, <1>2, <1>3, <1>4, <1>5, PTL DEF Unique!Spec, Program!Spec
=============================================================================
