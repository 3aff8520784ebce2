------------------------------- MODULE MCOwners -------------------------------
(***************************************************************************)
(* Who owns what: objects with many owners (SharedPtr) or with one         *)
(* (UniquePtr), and the services of the program.  They share no state.     *)
(* MCLibrary has the instances for TLC.                                    *)
(***************************************************************************)
EXTENDS SharedPtr

CONSTANTS Variables, Objects   \* of unique pointers

ASSUME PointersAssumption ==
  Variables \cap Objects = {} /\ nullptr \notin Variables \cup Objects

VARIABLES array, ptr, made, raw, corrupted,    \* UniquePtr
          stage, services, registered          \* PathTracer

uniqueVars == <<array, ptr, made, raw, corrupted>>
programVars == <<stage, services, registered>>

Unique == INSTANCE UniquePtr WITH alive <- made

Program == INSTANCE PathTracer WITH pc <- stage, alive <- services, instance <- registered
-----------------------------------------------------------------------------
\* What a UniquePtr or release() gave has one owner and is deleted once; the services
\* of the program are there when code gets them from AppContext.
OwnersSound == Unique!OneOwner /\ Program!ServicesLive
=============================================================================
