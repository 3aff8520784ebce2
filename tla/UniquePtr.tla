------------------------------- MODULE UniquePtr -------------------------------
(***************************************************************************)
(* UniquePtr<T> and UniquePtr<T[]>: pointers that own an object each.  An  *)
(* object may have a UniquePtr of its own as a member, so that a chain of  *)
(* objects hangs on a pointer and is destroyed with it; the elements of an *)
(* array have none here.                                                   *)
(***************************************************************************)
EXTENDS Naturals, FiniteSets

CONSTANTS Variables, \* pointers that are not members of an object
          Objects,   \* what they may point to; an address is used again
          nullptr

VARIABLES array,     \* T is an array
          ptr,       \* ptr_ of the variables and of the member of each object
          alive,     \* objects that were made and not deleted
          raw,       \* objects that release() gave to the caller
          corrupted  \* an object was deleted twice, or a pointer used that was gone

vars == <<array, ptr, alive, raw, corrupted>>

\* A member is named by its object.
Pointers == Variables \cup Objects

Init ==
  /\ array \in BOOLEAN
  /\ ptr = [p \in Pointers |-> nullptr]
  /\ alive = {} /\ raw = {} /\ corrupted = FALSE

Usable(p) == p \in Variables \/ (p \in alive /\ ~array)

\* The objects that hang on object o, itself included: the least set that has it and
\* what the members of its own point to.
Chain(pointers, o) ==
  LET Closed(S) == o \in S /\ \A x \in S : pointers[x] # nullptr => pointers[x] \in S
  IN  {x \in Objects : \A S \in SUBSET Objects : Closed(S) => x \in S}

\* An operation leaves the pointers with these values and then calls the deleter
\* with o, which may be nullptr: the object and its members are destroyed.
Finish(pointers, o) ==
  LET dead == IF o = nullptr THEN {} ELSE Chain(pointers, o)
  IN  /\ ptr' = [p \in Pointers |-> IF p \in dead THEN nullptr ELSE pointers[p]]
      /\ alive' = alive \ dead
      /\ corrupted' = (corrupted \/ ~(dead \subseteq alive))
      /\ UNCHANGED array

\* makeUnique, move-assigned to p
MakeUnique(p, o) ==
  /\ Usable(p) /\ o \notin alive /\ p # o
  /\ ptr[p] = nullptr
  /\ ptr' = [ptr EXCEPT ![p] = o]
  /\ alive' = alive \cup {o}
  /\ UNCHANGED <<array, raw, corrupted>>

\* (mutant of MoveAssign) The old object is deleted before the new one is taken.
MoveAssignDeletesFirst(p, q) ==
  LET dead == IF ptr[p] = nullptr THEN {} ELSE Chain(ptr, ptr[p])
  IN  /\ Usable(p) /\ Usable(q) /\ p # q
      /\ ptr[q] = nullptr \/ p \notin Chain(ptr, ptr[q])
      /\ ptr' = [r \in Pointers |-> IF r \in dead \/ r = q THEN nullptr ELSE IF r = p THEN ptr[q] ELSE ptr[r]]
      /\ alive' = alive \ dead
      /\ corrupted' = (corrupted \/ q \in dead)
      /\ UNCHANGED <<array, raw>>

\* p = std::move(q).  A UniquePtr<T> compares the two first; a UniquePtr<T[]> that
\* is assigned to itself loses its array.  Nobody moves an object into one that
\* hangs on it.
MoveAssign(p, q) ==
  LET taken == [ptr EXCEPT ![p] = ptr[q], ![q] = nullptr]
  IN  /\ Usable(p) /\ Usable(q)
      /\ p # q /\ ptr[q] # nullptr => p \notin Chain(ptr, ptr[q])
      /\ IF p = q /\ ~array THEN UNCHANGED <<array, ptr, alive, corrupted>>
         ELSE Finish(taken, ptr[p])
      /\ UNCHANGED raw

\* p = nullptr, and the destructor
Nullify(p) ==
  /\ Usable(p)
  /\ Finish([ptr EXCEPT ![p] = nullptr], ptr[p])
  /\ UNCHANGED raw

\* reset(o) with an object of the caller, or with the own one, which does nothing
Reset(p, o) ==
  /\ Usable(p) /\ o \in raw \cup {ptr[p]} /\ o # nullptr
  /\ p \notin Chain(ptr, o)
  /\ IF o = ptr[p] THEN UNCHANGED <<array, ptr, alive, corrupted>>
     ELSE Finish([ptr EXCEPT ![p] = o], ptr[p])
  /\ raw' = raw \ {o}

Release(p) ==
  /\ Usable(p) /\ ptr[p] # nullptr
  /\ ptr' = [ptr EXCEPT ![p] = nullptr]
  /\ raw' = raw \cup {ptr[p]}
  /\ UNCHANGED <<array, alive, corrupted>>

Next ==
  \E p \in Pointers :
    \/ \E o \in Objects : MakeUnique(p, o) \/ Reset(p, o)
    \/ \E q \in Pointers : MoveAssign(p, q)
    \/ Nullify(p) \/ Release(p)

Spec == Init /\ [][Next]_vars
-----------------------------------------------------------------------------
\* Every object that was made and not deleted has one owner, a variable, another such
\* object or the caller of release(), and is never deleted twice, even if a pointer
\* takes what hangs on the object it owned itself.
OneOwner ==
  /\ ~corrupted
  /\ raw \subseteq alive
  /\ \A o \in alive :
       Cardinality({p \in Variables \cup alive : ptr[p] = o}) = IF o \in raw THEN 0 ELSE 1
  /\ \A p \in Variables \cup alive : ptr[p] \in alive \cup {nullptr}
=============================================================================
