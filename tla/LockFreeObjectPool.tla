------------------------- MODULE LockFreeObjectPool -------------------------
(***************************************************************************)
(* mk::LockFreeObjectPool: a free list of nodes whose reference counts     *)
(* keep a node from coming back to the list while another thread is about  *)
(* to read its next pointer, and which grows by whole chunks under a lock. *)
(*                                                                         *)
(* A node is <<c, i>>, the i-th of the c-th chunk that was made.  One      *)
(* action per access to head_ or to a reference count; the next pointer of *)
(* a node is written only while no other thread can add a reference.       *)
(*                                                                         *)
(* chunksMutex_ is a lock with an owner (see module SharedMutex); release  *)
(* takes it, shared, for the assert isOwned.                               *)
(***************************************************************************)
EXTENDS Naturals, Sequences, FiniteSets

CONSTANTS Threads,
          Nil,          \* the null pointer
          PerChunk,     \* PerChunkObjectCount
          ChunkCounts,  \* the values of maxChunkCount to construct a pool with
          MaxAcquires   \* bound on the calls of tryAcquire of each thread, for each of these

ASSUME NilAssumption == Nil \notin Threads /\ Nil \notin Nat \X Nat
ASSUME FiniteAssumption == IsFiniteSet(Threads)
ASSUME SizeAssumption == PerChunk \in Nat \ {0} /\ ChunkCounts \subseteq Nat \ {0}
ASSUME BoundAssumption == MaxAcquires \in [ChunkCounts -> [Threads -> Nat]]

VARIABLES head,       \* head_
          ref, next,  \* of each node
          maxChunkCount, \* maxChunkCount_, which is const
          chunkIndex, \* Chunk::index of each chunk made so far, base_ first
          chunkCount, \* currentChunkCount_
          mutex,      \* the thread that holds chunksMutex_, or Nil
          held,       \* the nodes whose objects each thread owns
          pc,         \* where each thread is
          popped, prevHead, nextHead, seenRef, \* locals of tryAcquireImpl
          seenCount,  \* its local currentChunkCount
          pushed,     \* the node that pushNode was called with
          pushHead,   \* its local `head`
          back,       \* where pushNode returns to
          acquires    \* calls of tryAcquire so far

list == <<head, ref, next>>
growth == <<maxChunkCount, chunkIndex, chunkCount, mutex>>
acquiring == <<popped, prevHead, nextHead, seenRef, seenCount, acquires>>
pushing == <<pushed, pushHead, back>>
vars == <<list, growth, held, pc, acquiring, pushing>>

\* Threads that read an old count may each add a chunk.
Nodes == (1 .. 1 + (maxChunkCount - 1) * Cardinality(Threads)) \X (0 .. PerChunk - 1)

\* kShouldBeOnFreeListBit, right above the references that can exist at once.
FreeBit == Cardinality(Threads) + 2

Plus(r, d) == (r + d) % (2 * FreeBit)

Count(n) == ref[n] % FreeBit

\* listify: the last node of the chunk is the first of its list.
ListifiedNext(c, n) == IF n[2] = 0 THEN Nil ELSE <<c, n[2] - 1>>

ListifiedHead(c) == <<c, PerChunk - 1>>

\* The tail it reports is that same node.
ListifiedTail(c) == <<c, PerChunk - 1>>

Init ==
  /\ maxChunkCount \in ChunkCounts
  /\ head = ListifiedHead(1)
  /\ ref = [n \in Nodes |-> IF n[1] = 1 THEN 1 ELSE 0]
  /\ next = [n \in Nodes |-> IF n[1] = 1 THEN ListifiedNext(1, n) ELSE Nil]
  /\ chunkIndex = <<0>>
  /\ chunkCount = 1
  /\ mutex = Nil
  /\ held = [t \in Threads |-> {}]
  /\ pc = [t \in Threads |-> "idle"]
  /\ popped = [t \in Threads |-> Nil]
  /\ prevHead = [t \in Threads |-> Nil]
  /\ nextHead = [t \in Threads |-> Nil]
  /\ seenRef = [t \in Threads |-> 0]
  /\ seenCount = [t \in Threads |-> 0]
  /\ pushed = [t \in Threads |-> Nil]
  /\ pushHead = [t \in Threads |-> Nil]
  /\ back = [t \in Threads |-> "idle"]
  /\ acquires = [t \in Threads |-> 0]

At(t, label) == pc[t] = label

Goto(t, label) == pc' = [pc EXCEPT ![t] = label]

\* The head of the loop of tryAcquireImpl, entered with this value of popped.
Loop(n) == IF n = Nil THEN "exhausted" ELSE "loadRef"

\* The call returns the objects, one or none; the lock is released with it.
Return(t, objects) ==
  /\ held' = [held EXCEPT ![t] = @ \cup objects]
  /\ mutex' = IF mutex = t THEN Nil ELSE mutex
  /\ popped' = [popped EXCEPT ![t] = Nil]
  /\ prevHead' = [prevHead EXCEPT ![t] = Nil]
  /\ nextHead' = [nextHead EXCEPT ![t] = Nil]
  /\ Goto(t, "idle")

-----------------------------------------------------------------------------
(* tryAcquire *)

Acquire(t) ==
  /\ At(t, "idle") /\ acquires[t] < MaxAcquires[maxChunkCount][t]
  /\ acquires' = [acquires EXCEPT ![t] = @ + 1]
  /\ Goto(t, "loadHead")
  /\ UNCHANGED <<list, growth, held, popped, prevHead, nextHead, seenRef, seenCount, pushing>>

LoadHead(t) ==
  /\ At(t, "loadHead")
  /\ popped' = [popped EXCEPT ![t] = head]
  /\ Goto(t, Loop(head))
  /\ UNCHANGED <<list, growth, held, prevHead, nextHead, seenRef, seenCount, acquires, pushing>>

\* (mutant of LoadRef) The reference is added whatever the count.
LoadRefUnchecked(t) ==
  /\ At(t, "loadRef")
  /\ prevHead' = [prevHead EXCEPT ![t] = popped[t]]
  /\ seenRef' = [seenRef EXCEPT ![t] = ref[popped[t]]]
  /\ Goto(t, "addRef")
  /\ UNCHANGED <<list, growth, held, popped, nextHead, seenCount, acquires, pushing>>

\* A node without references is in the hands of pushNode or of its new owner.
LoadRef(t) ==
  /\ At(t, "loadRef")
  /\ prevHead' = [prevHead EXCEPT ![t] = popped[t]]
  /\ seenRef' = [seenRef EXCEPT ![t] = ref[popped[t]]]
  /\ Goto(t, IF Count(popped[t]) = 0 THEN "loadHead" ELSE "addRef")
  /\ UNCHANGED <<list, growth, held, popped, nextHead, seenCount, acquires, pushing>>

AddRef(t) ==
  /\ At(t, "addRef")
  /\ IF ref[popped[t]] = seenRef[t]
     THEN ref' = [ref EXCEPT ![popped[t]] = Plus(@, 1)] /\ Goto(t, "loadNext")
     ELSE UNCHANGED ref /\ Goto(t, "loadHead")
  /\ seenRef' = [seenRef EXCEPT ![t] = 0]
  /\ UNCHANGED <<head, next, growth, held, popped, prevHead, nextHead, seenCount, acquires,
                 pushing>>

LoadNext(t) ==
  /\ At(t, "loadNext")
  /\ nextHead' = [nextHead EXCEPT ![t] = next[popped[t]]]
  /\ Goto(t, "casHead")
  /\ UNCHANGED <<list, growth, held, popped, prevHead, seenRef, seenCount, acquires, pushing>>

\* A CAS that fails leaves the current head in popped.
CasHead(t) ==
  /\ At(t, "casHead")
  /\ IF head = popped[t]
     THEN head' = nextHead[t] /\ Goto(t, "dropRefs") /\ UNCHANGED popped
     ELSE popped' = [popped EXCEPT ![t] = head] /\ Goto(t, "undo") /\ UNCHANGED head
  /\ UNCHANGED <<ref, next, growth, held, prevHead, nextHead, seenRef, seenCount, acquires,
                 pushing>>

\* (mutant of DropRefs) The reference of the list is forgotten.
DropRefsOnlyOwn(t) ==
  /\ At(t, "dropRefs")
  /\ ref' = [ref EXCEPT ![popped[t]] = Plus(@, 2 * FreeBit - 1)]
  /\ Return(t, {popped[t]})
  /\ UNCHANGED <<head, next, maxChunkCount, chunkIndex, chunkCount, seenRef, seenCount, acquires, pushing>>

\* Two references go: the one just added and the one of the list.
DropRefs(t) ==
  /\ At(t, "dropRefs")
  /\ ref' = [ref EXCEPT ![popped[t]] = Plus(@, 2 * FreeBit - 2)]
  /\ Return(t, {popped[t]})
  /\ UNCHANGED <<head, next, maxChunkCount, chunkIndex, chunkCount, seenRef, seenCount, acquires, pushing>>

\* The last reference to a node that was released meanwhile puts it back.
Undo(t) ==
  LET n == prevHead[t]
  IN  /\ At(t, "undo")
      /\ ref' = [ref EXCEPT ![n] = Plus(@, 2 * FreeBit - 1)]
      /\ IF ref[n] = FreeBit + 1
         THEN /\ pushed' = [pushed EXCEPT ![t] = n]
              /\ back' = [back EXCEPT ![t] = Loop(popped[t])]
              /\ Goto(t, "pushLoad")
         ELSE Goto(t, Loop(popped[t])) /\ UNCHANGED <<pushed, back>>
      /\ UNCHANGED <<head, next, growth, held, acquiring, pushHead>>

-----------------------------------------------------------------------------
(* tryAcquire of an empty list *)

\* The holder of the lock is in the nested call, which may not grow the pool.
Exhausted(t) ==
  /\ At(t, "exhausted")
  /\ IF mutex = t
     THEN Goto(t, "grow") /\ UNCHANGED <<growth, held, acquiring>>
     ELSE /\ seenCount' = [seenCount EXCEPT ![t] = chunkCount]
          /\ IF chunkCount < maxChunkCount
             THEN Goto(t, "lockChunks") /\ UNCHANGED <<mutex, held, popped, prevHead, nextHead>>
             ELSE Return(t, {})
          /\ UNCHANGED <<maxChunkCount, chunkIndex, chunkCount, seenRef, acquires>>
  /\ UNCHANGED <<list, pushing>>

LockChunks(t) ==
  /\ At(t, "lockChunks") /\ mutex = Nil
  /\ mutex' = t
  /\ Goto(t, "loadHead")
  /\ UNCHANGED <<list, maxChunkCount, chunkIndex, chunkCount, held, acquiring, pushing>>

\* The new chunk is numbered by the count read before the lock was taken.
Grow(t) ==
  LET c == Len(chunkIndex) + 1
  IN  /\ At(t, "grow")
      /\ chunkCount' = chunkCount + 1
      /\ chunkIndex' = Append(chunkIndex, seenCount[t] + 1)
      /\ ref' = [n \in Nodes |-> IF n[1] = c THEN 1 ELSE ref[n]]
      /\ next' = [n \in Nodes |-> IF n[1] = c THEN ListifiedNext(c, n) ELSE next[n]]
      /\ popped' = [popped EXCEPT ![t] = ListifiedHead(c)]
      /\ nextHead' = [nextHead EXCEPT ![t] = ListifiedNext(c, ListifiedHead(c))]
      /\ Goto(t, "growLoad")
      /\ UNCHANGED <<head, maxChunkCount, mutex, held, prevHead, seenRef, seenCount, acquires, pushing>>

\* oldHead is kept in prevHead, which is not in use here.
GrowLoad(t) ==
  /\ At(t, "growLoad")
  /\ prevHead' = [prevHead EXCEPT ![t] = head]
  /\ Goto(t, "growCas")
  /\ UNCHANGED <<list, growth, held, popped, nextHead, seenRef, seenCount, acquires, pushing>>

\* The caller gets the first node as it is, its reference count still one.
GrowCas(t) ==
  /\ At(t, "growCas")
  /\ next' = [next EXCEPT ![ListifiedTail(popped[t][1])] = prevHead[t]]
  /\ IF head = prevHead[t]
     THEN head' = nextHead[t] /\ Return(t, {popped[t]})
     ELSE /\ prevHead' = [prevHead EXCEPT ![t] = head]
          /\ UNCHANGED <<head, mutex, held, popped, nextHead, pc>>
  /\ UNCHANGED <<ref, maxChunkCount, chunkIndex, chunkCount, seenRef, seenCount, acquires, pushing>>

-----------------------------------------------------------------------------
(* release and pushNode *)

Release(t) ==
  /\ At(t, "idle") /\ mutex = Nil
  /\ \E n \in held[t] :
       /\ held' = [held EXCEPT ![t] = @ \ {n}]
       /\ pushed' = [pushed EXCEPT ![t] = n]
  /\ back' = [back EXCEPT ![t] = "idle"]
  /\ Goto(t, "setFree")
  /\ UNCHANGED <<list, growth, acquiring, pushHead>>

\* (mutant of SetFree) The node is pushed although others refer to it.
SetFreeAlwaysPushes(t) ==
  /\ At(t, "setFree")
  /\ ref' = [ref EXCEPT ![pushed[t]] = Plus(@, FreeBit)]
  /\ Goto(t, "pushLoad")
  /\ UNCHANGED <<head, next, growth, held, acquiring, pushing>>

\* With references left, it is their last holder who puts the node back.
SetFree(t) ==
  LET n == pushed[t]
  IN  /\ At(t, "setFree")
      /\ ref' = [ref EXCEPT ![n] = Plus(@, FreeBit)]
      /\ IF ref[n] = 0
         THEN Goto(t, "pushLoad") /\ UNCHANGED pushed
         ELSE Goto(t, "idle") /\ pushed' = [pushed EXCEPT ![t] = Nil]
      /\ UNCHANGED <<head, next, growth, held, acquiring, pushHead, back>>

PushLoad(t) ==
  /\ At(t, "pushLoad")
  /\ pushHead' = [pushHead EXCEPT ![t] = head]
  /\ Goto(t, "pushStore")
  /\ UNCHANGED <<list, growth, held, acquiring, pushed, back>>

PushStore(t) ==
  /\ At(t, "pushStore")
  /\ next' = [next EXCEPT ![pushed[t]] = pushHead[t]]
  /\ ref' = [ref EXCEPT ![pushed[t]] = 1]
  /\ Goto(t, "pushCas")
  /\ UNCHANGED <<head, growth, held, acquiring, pushing>>

PushReturn(t) ==
  /\ Goto(t, back[t])
  /\ pushed' = [pushed EXCEPT ![t] = Nil]
  /\ pushHead' = [pushHead EXCEPT ![t] = Nil]

PushCas(t) ==
  /\ At(t, "pushCas")
  /\ IF head = pushHead[t]
     THEN head' = pushed[t] /\ PushReturn(t)
     ELSE /\ pushHead' = [pushHead EXCEPT ![t] = head]
          /\ Goto(t, "pushUndo")
          /\ UNCHANGED <<head, pushed>>
  /\ UNCHANGED <<ref, next, growth, held, acquiring, back>>

\* Threads that found the node's reference count at one may have joined.
PushUndo(t) ==
  LET n == pushed[t]
  IN  /\ At(t, "pushUndo")
      /\ ref' = [ref EXCEPT ![n] = Plus(@, FreeBit - 1)]
      /\ IF ref[n] = 1
         THEN Goto(t, "pushStore") /\ UNCHANGED <<pushed, pushHead>>
         ELSE PushReturn(t)
      /\ UNCHANGED <<head, next, growth, held, acquiring, back>>

-----------------------------------------------------------------------------
Step(t) ==
  \/ LoadHead(t) \/ LoadRef(t) \/ AddRef(t) \/ LoadNext(t) \/ CasHead(t) \/ DropRefs(t)
  \/ Undo(t) \/ Exhausted(t) \/ LockChunks(t) \/ Grow(t) \/ GrowLoad(t) \/ GrowCas(t)
  \/ SetFree(t) \/ PushLoad(t) \/ PushStore(t) \/ PushCas(t) \/ PushUndo(t)

Done ==
  /\ \A t \in Threads : At(t, "idle") /\ acquires[t] = MaxAcquires[maxChunkCount][t] /\ held[t] = {}
  /\ UNCHANGED vars

Next == (\E t \in Threads : Acquire(t) \/ Release(t) \/ Step(t)) \/ Done

Spec == Init /\ [][Next]_vars

-----------------------------------------------------------------------------
Labels == {"idle", "loadHead", "loadRef", "addRef", "loadNext", "casHead", "dropRefs", "undo",
           "exhausted", "lockChunks", "grow", "growLoad", "growCas", "setFree", "pushLoad",
           "pushStore", "pushCas", "pushUndo"}

Pointers == Nodes \cup {Nil}

TypeOK ==
  /\ head \in Pointers
  /\ ref \in [Nodes -> 0 .. 2 * FreeBit - 1] /\ next \in [Nodes -> Pointers]
  /\ maxChunkCount \in ChunkCounts /\ chunkIndex \in Seq(Nat) /\ chunkCount \in Nat
  /\ mutex \in Threads \cup {Nil}
  /\ held \in [Threads -> SUBSET Nodes]
  /\ pc \in [Threads -> Labels]
  /\ popped \in [Threads -> Pointers] /\ prevHead \in [Threads -> Pointers]
  /\ nextHead \in [Threads -> Pointers]
  /\ seenRef \in [Threads -> 0 .. 2 * FreeBit - 1] /\ seenCount \in [Threads -> Nat]
  /\ pushed \in [Threads -> Pointers] /\ pushHead \in [Threads -> Pointers]
  /\ back \in [Threads -> {"idle", "exhausted", "loadRef"}]
  /\ acquires \in [Threads -> Nat]

Live == {n \in Nodes : n[1] <= Len(chunkIndex)}

\* The nodes reachable from head_: the least set of nodes that has the head and,
\* with a node, the next one.
FreeList ==
  LET lists == {S \in SUBSET Live : /\ head \in S \cup {Nil}
                                    /\ \A n \in S : next[n] \in S \cup {Nil}}
  IN  {n \in Live : \A S \in lists : n \in S}

Taking(n) == {t \in Threads : At(t, "dropRefs") /\ popped[t] = n}

Releasing(n) == {t \in Threads : pushed[t] = n}

\* The threads that added a reference to n and have yet to drop it.
Referring(n) == Taking(n) \cup {t \in Threads : /\ pc[t] \in {"loadNext", "casHead"}
                                                /\ popped[t] = n}
                          \cup {t \in Threads : At(t, "undo") /\ prevHead[t] = n}

\* The node waits for the last of these to put it back.
Deferred(n) == ref[n] >= FreeBit /\ Releasing(n) = {}

One(condition) == IF condition THEN 1 ELSE 0

\* Each node is in one place: on the list, owned by one caller, on its way from
\* the one to the other in the hands of one thread, or left to the threads that
\* still refer to it, of which there is one.  So no object is handed out twice,
\* and none is lost, whoever meets whom at the list.  (A pool that grows does
\* lose nodes: see NoNodeLost.)
OnePlace ==
  LET onFreeList == FreeList
  IN \A n \in Live :
    LET places == One(n \in onFreeList) + One(Deferred(n)) + Cardinality(Taking(n))
                    + Cardinality(Releasing(n)) + Cardinality({t \in Threads : n \in held[t]})
    IN  /\ places <= 1
        /\ Len(chunkIndex) = 1 => places = 1 /\ (Deferred(n) => Referring(n) # {})

\* The reference count is what the protocol reads into it: the threads that
\* refer to the node, and the list while the node is on it or between its
\* store and its CAS in pushNode, or popped and not yet dropped.  (The first
\* node of a chunk that was added keeps a reference too many.)
RefsAgree ==
  LET onFreeList == FreeList
  IN TypeOK /\ \A n \in Live :
    LET onList == \/ n \in onFreeList \/ Taking(n) # {}
                  \/ \E t \in Releasing(n) : pc[t] \in {"pushCas", "pushUndo"}
    IN  /\ Count(n) >= Cardinality(Referring(n)) + One(onList)
        /\ Len(chunkIndex) = 1 => Count(n) = Cardinality(Referring(n)) + One(onList)

\* A node is popped off the list only with "ref > 0", so that "popped->next can
\* no longer change", and never while it is marked as released (the assert).
PoppedIsSafe ==
  \A t \in Threads :
    /\ At(t, "casHead") /\ head = popped[t] => nextHead[t] = next[head]
    /\ At(t, "dropRefs") => ref[popped[t]] < FreeBit

-----------------------------------------------------------------------------
(* What the tests say of a pool that grows *)

\* "Pool lost nodes across dynamically allocated chunks"
\* (LockFreeObjectPoolTest.cpp:1099): with every thread outside, a node that
\* nobody holds is on the free list.
NoNodeLost ==
  (\A t \in Threads : At(t, "idle")) =>
    \A n \in Live : n \in FreeList \/ \E t \in Threads : n \in held[t]
=============================================================================
