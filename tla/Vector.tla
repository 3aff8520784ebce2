------------------------------- MODULE Vector --------------------------------
(***************************************************************************)
(* IVector over the three storages of core/IMemory.h: the heap (Vector),   *)
(* a fixed buffer inside the object (FixedVector) and such a buffer that   *)
(* falls back to the heap (StackVector).  What matters is which slots hold *)
(* constructed elements and which heap blocks are owned; an element is a   *)
(* value.                                                                  *)
(*                                                                         *)
(* An argument of push is not an element of the vector itself: emplace     *)
(* grows first, and the reference would dangle.                            *)
(***************************************************************************)
EXTENDS Integers, Sequences, FiniteSets

CONSTANTS Vectors,
          Values, Default, \* of elements; what T() is
          Raw,             \* memory without an element
          Inline,          \* N of the storages with a buffer
          MaxSize,         \* bound on size()
          ShrinksAny       \* resize drops elements of any type, not only trivial ones

VARIABLES trivial, \* IsTriviallyDestructible<T>
          storage, \* the storage each vector is instantiated with
          onHeap,  \* begin_ is a block of the heap; for "inline", usingFallback_
          slots,   \* from begin_ to capacity_
          size,    \* end_ - begin_
          alive,   \* constructions minus destructions of elements
          blocks   \* heap blocks allocated and not freed

vars == <<trivial, storage, onHeap, slots, size, alive, blocks>>

capacity(v) == Len(slots[v])

Init ==
  /\ trivial \in BOOLEAN
  /\ storage \in [Vectors -> {"heap", "stack", "inline"}]
  /\ onHeap = [v \in Vectors |-> FALSE]
  /\ slots = [v \in Vectors |-> <<>>]
  /\ size = [v \in Vectors |-> 0]
  /\ alive = 0
  /\ blocks = 0
-----------------------------------------------------------------------------
(* Storages, and the memory of one vector as a record that operations      *)
(* transform                                                               *)

Memory(v) == [slots |-> slots[v], size |-> size[v], onHeap |-> onHeap[v],
              born |-> 0, dead |-> 0, allocated |-> 0]

NoMemory == [slots |-> <<>>, size |-> 0, onHeap |-> FALSE,
             born |-> 0, dead |-> 0, allocated |-> 0]

\* The first n of old bytes in a buffer of capacity n, whatever it was before.
Moved(s, n) == [i \in 1 .. n |-> IF i <= Len(s) THEN s[i] ELSE Raw]

\* (mutant of ToCapacity) Nothing is copied to the first heap block.
ToCapacityEmpty(v, m, n) ==
  LET stays == storage[v] = "stack" \/ (storage[v] = "inline" /\ ~m.onHeap /\ n <= Inline)
      fresh == IF stays \/ m.onHeap THEN 0 ELSE 1
  IN  [m EXCEPT !.slots = Moved(IF fresh = 1 THEN <<>> ELSE @, n), !.onHeap = ~stays,
                !.allocated = @ + fresh]

\* Storage::resize: realloc, the buffer in the object, or a first heap block.
ToCapacity(v, m, n) ==
  LET stays == storage[v] = "stack" \/ (storage[v] = "inline" /\ ~m.onHeap /\ n <= Inline)
      fresh == IF stays \/ m.onHeap THEN 0 ELSE 1
  IN  [m EXCEPT !.slots = Moved(@, n), !.onHeap = ~stays, !.allocated = @ + fresh]

\* The capacity that room for n elements is made with: half as much again, if
\* that is enough.
Grown(cap, n) ==
  LET grown == (cap * 3) \div 2
  IN  IF n <= cap THEN cap ELSE IF grown > n THEN grown ELSE n

EnsureCapacity(v, m, n) ==
  IF n <= Len(m.slots) THEN m ELSE ToCapacity(v, m, Grown(Len(m.slots), n))

\* destructElems on count slots from index i, counted from 0; no element left
\* there matters any more when T is trivial.
Destruct(m, i, count) ==
  [m EXCEPT !.slots = [j \in DOMAIN @ |-> IF j \in i + 1 .. i + count THEN Raw ELSE @[j]],
            !.dead = @ + (IF trivial THEN 0 ELSE count)]

\* Elements constructed from begin_ + i on, end_ is set behind them.
Construct(m, i, list) ==
  [m EXCEPT !.slots = [j \in DOMAIN @ |->
                         IF j \in i + 1 .. i + Len(list) THEN list[j - i] ELSE @[j]],
            !.size = i + Len(list),
            !.born = @ + (IF trivial THEN 0 ELSE Len(list))]

\* copyFrom; the elements before were destructed.
CopyFrom(v, m, list) == Construct(EnsureCapacity(v, m, Len(list)), 0, list)

Free(m) == [NoMemory EXCEPT !.born = m.born, !.dead = m.dead, !.allocated = m.allocated
                                 - (IF m.onHeap THEN 1 ELSE 0)]

\* The operation leaves vector v with the memory m and w with that of n.
Commit2(v, m, w, n) ==
  /\ slots' = [slots EXCEPT ![v] = m.slots, ![w] = n.slots]
  /\ size' = [size EXCEPT ![v] = m.size, ![w] = n.size]
  /\ onHeap' = [onHeap EXCEPT ![v] = m.onHeap, ![w] = n.onHeap]
  /\ alive' = (alive + m.born) - m.dead
  /\ blocks' = blocks + m.allocated
  /\ UNCHANGED <<trivial, storage>>

Commit(v, m) == Commit2(v, m, v, m)
-----------------------------------------------------------------------------
(* IVector: the operations *)

Elements(v) == SubSeq(slots[v], 1, size[v])

\* A storage with nothing but a buffer asserts that it is asked for no more than
\* N elements, and growth can ask for more although n would do.
Fits(v, n) == n <= MaxSize /\ (storage[v] = "stack" => Grown(capacity(v), n) <= Inline)

\* push, emplace
Push(v, x) ==
  /\ Fits(v, size[v] + 1)
  /\ Commit(v, Construct(EnsureCapacity(v, Memory(v), size[v] + 1), size[v], <<x>>))

\* What is returned is an element of the caller by then.
Pop(v) ==
  /\ size[v] > 0
  /\ Commit(v, [Destruct(Memory(v), size[v] - 1, 1) EXCEPT !.size = @ - 1])

Reserve(v, n) == Fits(v, n) /\ Commit(v, EnsureCapacity(v, Memory(v), n))

\* The elements that are dropped stay; as many slots behind end_ are destructed.
\* The new elements are constructed behind the old ones.
Resize(v, n) ==
  LET m == EnsureCapacity(v, Memory(v), n)
      padding == [i \in 1 .. n - size[v] |-> Default]
  IN  /\ Fits(v, n)
      /\ n < size[v] => trivial \/ ShrinksAny
      /\ Commit(v, IF n >= size[v] THEN Construct(m, size[v], padding)
                   ELSE [Destruct(m, IF trivial THEN n ELSE size[v], size[v] - n)
                           EXCEPT !.size = n])

\* What malloc would round a request for n elements up to.
GoodCapacities(v, n) ==
  IF storage[v] = "heap" \/ onHeap[v] THEN IF n = 0 THEN {0} ELSE {n, n + 1} ELSE {Inline}

ShrinkToFit(v) ==
  \E good \in GoodCapacities(v, size[v]) :
    Commit(v, IF good >= capacity(v) THEN Memory(v) ELSE ToCapacity(v, Memory(v), good))

Cleared(v) == [Destruct(Memory(v), 0, size[v]) EXCEPT !.size = 0]

Clear(v) == Commit(v, Cleared(v))

\* v = { ... }
AssignList(v, list) == Fits(v, Len(list)) /\ Commit(v, CopyFrom(v, Cleared(v), list))

\* v = w, from a vector with any storage
Assign(v, w) ==
  /\ v # w /\ Fits(v, size[w])
  /\ Commit(v, CopyFrom(v, Cleared(v), Elements(w)))

\* (mutant of MoveAssign) The block of the vector assigned to is not freed.
MoveAssignLeaks(v, w) ==
  /\ v # w /\ Fits(v, size[w])
  /\ IF storage[v] = "heap" /\ storage[w] = "heap"
     THEN Commit2(v, [Memory(w) EXCEPT !.dead = Cleared(v).dead], w, NoMemory)
     ELSE Commit(v, CopyFrom(v, Cleared(v), Elements(w)))

\* v = std::move(w). Only a heap block can change hands: w is left without one.
\* Other storages copy, and w keeps its elements.
MoveAssign(v, w) ==
  LET freed == Free(Cleared(v))
  IN  /\ v # w /\ Fits(v, size[w])
      /\ IF storage[v] = "heap" /\ storage[w] = "heap"
         THEN Commit2(v, [Memory(w) EXCEPT !.dead = freed.dead,
                                           !.allocated = IF onHeap[v] THEN -1 ELSE 0],
                      w, NoMemory)
         ELSE Commit(v, CopyFrom(v, Cleared(v), Elements(w)))

\* The destructor, and a new vector of the same type in its place.
Recreate(v) == Commit(v, Free(Cleared(v)))

Next ==
  \E v \in Vectors :
    \/ \E x \in Values : Push(v, x)
    \/ Pop(v)
    \/ \E n \in 0 .. MaxSize : Reserve(v, n) \/ Resize(v, n)
    \/ ShrinkToFit(v) \/ Clear(v) \/ Recreate(v)
    \/ \E n \in 0 .. 2 : \E list \in [1 .. n -> Values] : AssignList(v, list)
    \/ \E w \in Vectors : Assign(v, w) \/ MoveAssign(v, w)

Spec == Init /\ [][Next]_vars
-----------------------------------------------------------------------------
TypeOK ==
  /\ trivial \in BOOLEAN
  /\ storage \in [Vectors -> {"heap", "stack", "inline"}]
  /\ onHeap \in [Vectors -> BOOLEAN]
  /\ size \in [Vectors -> 0 .. MaxSize]
  /\ slots \in [Vectors -> Seq(Values \cup {Raw})]

\* The elements that were constructed and are there.
Constructed == UNION {{v} \X (1 .. size[v]) : v \in Vectors}

\* Whatever the storage and however the vector grew, shrank, was copied or moved:
\* the slots up to end_ hold elements and no other does, an element is destructed
\* exactly once, heap blocks are neither leaked nor shared, and the buffer in the
\* object is not asked for more than its N elements.
VectorSound ==
  /\ \A v \in Vectors :
       /\ size[v] <= capacity(v)
       /\ \A i \in 1 .. capacity(v) : (slots[v][i] # Raw) = (i <= size[v])
       /\ storage[v] = "stack" => capacity(v) <= Inline
       /\ onHeap[v] => storage[v] # "stack"
  /\ alive = IF trivial THEN 0 ELSE Cardinality(Constructed)
  /\ blocks = Cardinality({v \in Vectors : onHeap[v]})

\* resize to a smaller size destructs the elements that it drops: no slot behind
\* end_ holds an element any more.
ShrinkDestructs ==
  \A v \in Vectors : \A i \in size[v] + 1 .. capacity(v) : slots[v][i] = Raw

\* The elements are what the operations promise, wherever they are kept.
L == INSTANCE Lists WITH Names <- Vectors, content <- [v \in Vectors |-> Elements(v)]

ListStep == [L!Next]_[v \in Vectors |-> Elements(v)]

ImplementsLists == L!Init /\ [][ListStep]_vars
=============================================================================
