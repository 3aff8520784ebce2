------------------------------ MODULE SharedPtr ------------------------------
(***************************************************************************)
(* SharedPtr and WeakPtr of core/ISharedPtr.h.  A controller counts its    *)
(* strong and its weak references; the strong ones together hold one weak  *)
(* reference.  Every operation on a handle is a list of accesses to        *)
(* controllers, which is what todo[t] holds: threads interleave between    *)
(* them.  A thread only touches handles of its own, as the class demands.  *)
(* MCLibrary extends this module and JobSystem: they share no name.        *)
(***************************************************************************)
EXTENDS Naturals, Sequences, FiniteSets

CONSTANTS Owners,       \* with a SharedPtr of their own to one object
          Controllers,  \* RefControllers, with the object each one controls
          First,        \* the controller of that object
          nullptr,
          Watchers,     \* of the threads, those that rather hold weak pointers
          MaxLost       \* bound on lost

ASSUME PointerAssumption ==
  /\ IsFiniteSet(Owners) /\ Owners # {}
  /\ First \in Controllers /\ nullptr \notin Controllers
  /\ MaxLost \in Nat

VARIABLES threadSafe,   \* IsThreadSafe; if FALSE only one thread runs
          strongCount, weakCount,
          life,         \* unborn, alive, destroyed (the object), deleted (both)
          handle,       \* controller_ of the handles of each thread
          lost,         \* weak references dropped but not released
          todo          \* the accesses left of the operation of each thread

pointerVars == <<threadSafe, strongCount, weakCount, life, handle, lost, todo>>

\* The handles of a thread. Two of each kind are many states: when several
\* threads run, each has two of one kind and one of the other.
Strong(t) == IF threadSafe /\ t \in Watchers THEN {"a"} ELSE {"a", "b"}

Weak(t) == IF threadSafe /\ t \notin Watchers THEN {"w"} ELSE {"v", "w"}

Handles == {"a", "b", "v", "w"}

\* One thread alone uses pointers that are not thread safe.
TakesPart(t) == threadSafe \/ t = CHOOSE u \in Owners : TRUE

PointerInit ==
  /\ threadSafe \in BOOLEAN
  /\ handle = [t \in Owners |-> [h \in Handles |->
                  IF TakesPart(t) /\ h = "a" THEN First ELSE nullptr]]
  /\ strongCount = [c \in Controllers |->
                      IF c = First THEN Cardinality({t \in Owners : TakesPart(t)}) ELSE 0]
  /\ weakCount = [c \in Controllers |-> IF c = First THEN 1 ELSE 0]
  /\ life = [c \in Controllers |-> IF c = First THEN "alive" ELSE "unborn"]
  /\ lost = [c \in Controllers |-> 0]
  /\ todo = [t \in Owners |-> <<>>]

-----------------------------------------------------------------------------
(* RefController: the accesses operations are made of *)

Access(what, c, h) == [what |-> what, c |-> c, h |-> h, seen |-> 0]

OnController(what, c, h) == IF c = nullptr THEN <<>> ELSE <<Access(what, c, h)>>

\* The handle h is given to hold c; a move also empties the other handle.
Store(c, h) == <<Access("store", c, h)>>

Facing(t, what) == todo[t] # <<>> /\ Head(todo[t]).what = what

Now(t) == Head(todo[t])

Then(t, accesses) == todo' = [todo EXCEPT ![t] = accesses \o Tail(@)]

AddStrongRef(t) ==
  /\ Facing(t, "addStrong")
  /\ strongCount' = [strongCount EXCEPT ![Now(t).c] = @ + 1]
  /\ Then(t, <<>>)
  /\ UNCHANGED <<threadSafe, weakCount, life, handle, lost>>

\* The single-threaded branch destroys the object and stops there.
ReleaseStrongRef(t) ==
  LET c == Now(t).c
      last == OnController("destruct", c, nullptr)
                \o (IF threadSafe THEN OnController("subWeak", c, nullptr) ELSE <<>>)
  IN  /\ Facing(t, "subStrong")
      /\ strongCount' = [strongCount EXCEPT ![c] = @ - 1]
      /\ Then(t, IF strongCount[c] = 1 THEN last ELSE <<>>)
      /\ UNCHANGED <<threadSafe, weakCount, life, handle, lost>>

DestructObject(t) ==
  /\ Facing(t, "destruct")
  /\ life' = [life EXCEPT ![Now(t).c] = "destroyed"]
  /\ Then(t, <<>>)
  /\ UNCHANGED <<threadSafe, strongCount, weakCount, handle, lost>>

AddWeakRef(t) ==
  /\ Facing(t, "addWeak")
  /\ weakCount' = [weakCount EXCEPT ![Now(t).c] = @ + 1]
  /\ Then(t, <<>>)
  /\ UNCHANGED <<threadSafe, strongCount, life, handle, lost>>

ReleaseWeakRef(t) ==
  LET c == Now(t).c
  IN  /\ Facing(t, "subWeak")
      /\ weakCount' = [weakCount EXCEPT ![c] = @ - 1]
      /\ Then(t, IF weakCount[c] = 1 THEN OnController("delete", c, nullptr) ELSE <<>>)
      /\ UNCHANGED <<threadSafe, strongCount, life, handle, lost>>

DeleteThis(t) ==
  /\ Facing(t, "delete")
  /\ life' = [life EXCEPT ![Now(t).c] = "deleted"]
  /\ Then(t, <<>>)
  /\ UNCHANGED <<threadSafe, strongCount, weakCount, handle, lost>>

StoreHandle(t) ==
  /\ Facing(t, "store")
  /\ handle' = [handle EXCEPT ![t][Now(t).h] = Now(t).c]
  /\ Then(t, <<>>)
  /\ UNCHANGED <<threadSafe, strongCount, weakCount, life, lost>>

\* What follows once tryAddStrongRef knows the count: give up on zero (a null
\* SharedPtr is assigned) or try to add one to it.
Retry(t, count) ==
  Then(t, IF count = 0
          THEN OnController("subStrong", handle[t][Now(t).h], nullptr) \o Store(nullptr, Now(t).h)
          ELSE <<[Now(t) EXCEPT !.what = "cas", !.seen = count]>>)

LoadStrong(t) ==
  /\ Facing(t, "load")
  /\ Retry(t, strongCount[Now(t).c])
  /\ UNCHANGED <<threadSafe, strongCount, weakCount, life, handle, lost>>

\* (mutant of TryAddStrongRef) One is added without a look at what became of the count.
TryAddBlindly(t) ==
  LET c == Now(t).c
  IN  /\ Facing(t, "cas")
      /\ strongCount' = [strongCount EXCEPT ![c] = @ + 1]
      /\ Then(t, OnController("subStrong", handle[t][Now(t).h], nullptr) \o Store(c, Now(t).h))
      /\ UNCHANGED <<threadSafe, weakCount, life, handle, lost>>

TryAddStrongRef(t) ==
  LET c == Now(t).c
  IN  /\ Facing(t, "cas")
      /\ IF strongCount[c] = Now(t).seen
         THEN /\ strongCount' = [strongCount EXCEPT ![c] = @ + 1]
              /\ Then(t, OnController("subStrong", handle[t][Now(t).h], nullptr)
                           \o Store(c, Now(t).h))
         ELSE Retry(t, strongCount[c]) /\ UNCHANGED strongCount
      /\ UNCHANGED <<threadSafe, weakCount, life, handle, lost>>

-----------------------------------------------------------------------------
(* ISharedPtr and IWeakPtr: the operations *)

Idle(t) == todo[t] = <<>>

Begin(t, accesses) ==
  /\ Idle(t)
  /\ todo' = [todo EXCEPT ![t] = accesses]
  /\ UNCHANGED <<threadSafe, strongCount, weakCount, handle, lost, life>>

\* h = makeShared<T>()
MakeShared(t, h) ==
  \E c \in Controllers :
    /\ Idle(t) /\ life[c] = "unborn"
    /\ life' = [life EXCEPT ![c] = "alive"]
    /\ strongCount' = [strongCount EXCEPT ![c] = 1]
    /\ weakCount' = [weakCount EXCEPT ![c] = 1]
    /\ todo' = [todo EXCEPT ![t] = OnController("subStrong", handle[t][h], nullptr) \o Store(c, h)]
    /\ UNCHANGED <<threadSafe, handle, lost>>

\* h = g, and the construction of h from g when h is empty
CopyShared(t, h, g) ==
  /\ h # g
  /\ Begin(t, OnController("subStrong", handle[t][h], nullptr)
                \o OnController("addStrong", handle[t][g], nullptr) \o Store(handle[t][g], h))

\* h = std::move(g)
MoveShared(t, h, g) ==
  /\ h # g /\ handle[t][g] # nullptr
  /\ Begin(t, OnController("subStrong", handle[t][h], nullptr)
                \o Store(handle[t][g], h) \o Store(nullptr, g))

\* h.reset(), h = nullptr, h = std::move(h) and the destructor
ResetShared(t, h) ==
  /\ handle[t][h] # nullptr
  /\ Begin(t, OnController("subStrong", handle[t][h], nullptr) \o Store(nullptr, h))

\* w = g, and the construction of w from g when w is empty
WeakFromShared(t, w, g) ==
  Begin(t, OnController("subWeak", handle[t][w], nullptr)
             \o OnController("addWeak", handle[t][g], nullptr) \o Store(handle[t][g], w))

\* w = v of another weak pointer, and the construction of w from v
CopyWeak(t, w, v) ==
  /\ w # v
  /\ Begin(t, OnController("subWeak", handle[t][w], nullptr)
                \o OnController("addWeak", handle[t][v], nullptr) \o Store(handle[t][v], w))

\* w = std::move(v)
MoveWeak(t, w, v) ==
  /\ w # v /\ handle[t][v] # nullptr
  /\ Begin(t, OnController("subWeak", handle[t][w], nullptr)
                \o Store(handle[t][v], w) \o Store(nullptr, v))

\* w.reset() and the destructor
ResetWeak(t, w) ==
  /\ handle[t][w] # nullptr
  /\ Begin(t, OnController("subWeak", handle[t][w], nullptr) \o Store(nullptr, w))

\* w = nullptr: controller_ is cleared and nothing released.
ClearWeak(t, w) ==
  LET c == handle[t][w]
  IN  /\ Idle(t) /\ c # nullptr /\ lost[c] < MaxLost
      /\ lost' = [lost EXCEPT ![c] = @ + 1]
      /\ handle' = [handle EXCEPT ![t][w] = nullptr]
      /\ UNCHANGED <<threadSafe, strongCount, weakCount, life, todo>>

\* h = w.lock()
Lock(t, w, h) ==
  /\ handle[t][w] # nullptr
  /\ Begin(t, <<Access("load", handle[t][w], h)>>)

Operation(t) ==
  \/ \E h \in Strong(t) : MakeShared(t, h) \/ ResetShared(t, h)
  \/ \E h, g \in Strong(t) : CopyShared(t, h, g) \/ MoveShared(t, h, g)
  \/ \E w \in Weak(t) : ResetWeak(t, w) \/ ClearWeak(t, w)
  \/ \E w, v \in Weak(t) : CopyWeak(t, w, v) \/ MoveWeak(t, w, v)
  \/ \E w \in Weak(t), h \in Strong(t) : WeakFromShared(t, w, h) \/ Lock(t, w, h)

Step(t) ==
  \/ AddStrongRef(t) \/ ReleaseStrongRef(t) \/ DestructObject(t)
  \/ AddWeakRef(t) \/ ReleaseWeakRef(t) \/ DeleteThis(t)
  \/ LoadStrong(t) \/ TryAddStrongRef(t) \/ StoreHandle(t)

PointerNext == \E t \in Owners : (TakesPart(t) /\ Operation(t)) \/ Step(t)

PointerSpec == PointerInit /\ [][PointerNext]_pointerVars

-----------------------------------------------------------------------------
PointerTypes ==
  /\ threadSafe \in BOOLEAN
  /\ strongCount \in [Controllers -> Nat]
  /\ weakCount \in [Controllers -> Nat]
  /\ life \in [Controllers -> {"unborn", "alive", "destroyed", "deleted"}]
  /\ handle \in [Owners -> [Handles -> Controllers \cup {nullptr}]]
  /\ lost \in [Controllers -> 0 .. MaxLost]

Holders(c, kind(_)) ==
  {p \in Owners \X Handles : p[2] \in kind(p[1]) /\ handle[p[1]][p[2]] = c}

\* The handle whose turn it is to change at the end of the operation of t.
Assigned(t) == {todo[t][i].h : i \in 1 .. Len(todo[t])}

\* Whoever holds a SharedPtr may use the object, and whatever other threads do
\* to their own handles meanwhile, a controller is touched only before it
\* deleted itself, its object destroyed only once, and the controller deleted
\* only after it.  A lock() that wins is one such holder.
Ownership ==
  /\ \A t \in Owners : \A h \in Strong(t) :
       handle[t][h] # nullptr /\ h \notin Assigned(t) => life[handle[t][h]] = "alive"
  /\ \A t \in Owners :
       todo[t] # <<>> /\ ~Facing(t, "store") =>
         life[Now(t).c] \in (IF Facing(t, "destruct") \/ Facing(t, "addStrong") THEN {"alive"}
                             ELSE IF Facing(t, "delete") THEN {"destroyed"}
                             ELSE {"alive", "destroyed"})

\* When all threads are between operations the counts are the numbers of
\* handles, the object lives exactly as long as a SharedPtr to it, and the
\* controller as long as a reference of either kind.  What the code leaks is
\* accounted for: weak pointers assigned nullptr, and the share of the owners
\* of a single-threaded pointer.
RefCountsExact ==
  (\A t \in Owners : Idle(t)) =>
    \A c \in Controllers :
      life[c] # "unborn" =>
        /\ strongCount[c] = Cardinality(Holders(c, Strong))
        /\ weakCount[c] = Cardinality(Holders(c, Weak)) + lost[c]
                            + (IF strongCount[c] > 0 \/ ~threadSafe THEN 1 ELSE 0)
        /\ life[c] = IF strongCount[c] > 0 THEN "alive"
                     ELSE IF weakCount[c] > 0 THEN "destroyed" ELSE "deleted"

\* A SharedPtr keeps its object alive, WeakPtr::lock gives no dead one, and the counts
\* are exact, also between the steps of two threads.
PointersSound == PointerTypes /\ Ownership /\ RefCountsExact
=============================================================================
