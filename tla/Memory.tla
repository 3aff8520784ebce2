------------------------------- MODULE Memory --------------------------------
(***************************************************************************)
(* The allocator of core/IMemory.h and src/memory/Memory.cpp: a header     *)
(* before each block remembers what free and realloc need to find the      *)
(* block of mimalloc it lies in.  Addresses count from the start of the    *)
(* block of mimalloc, which is aligned as it was asked to be.              *)
(***************************************************************************)
EXTENDS Integers, FiniteSets

CONSTANTS Blocks,      \* allocations that may be live at once
          Sizes,       \* userSize, newSize
          Alignments   \* powers of two from 8 on

VARIABLES block,   \* what mimalloc and the header of each live block hold
          freed,   \* what mimalloc last got back, see Found
          stats    \* stats.size

vars == <<block, freed, stats>>

kAllocHeaderSize == 24

\* size + alignment - 1 without the bits below alignment.
Align(size, alignment) == ((size + alignment - 1) \div alignment) * alignment

GetRawSize(alignedUserSize, alignment) ==
  Align(alignedUserSize + kAllocHeaderSize, alignment)

\* The distance of the user's pointer from the block, as getUser, getRaw and
\* getHeaderFromMiMalloc compute it.
Offset(size, alignment) ==
  LET aligned == Align(size, alignment) IN GetRawSize(aligned, alignment) - aligned

\* updateHeader on a block of mimalloc that is big enough for size.
Filled(b, size, alignment) ==
  [b EXCEPT !.rawSize = GetRawSize(Align(size, alignment), alignment),
            !.user = Offset(size, alignment),
            !.size = size, !.alignment = alignment]

None ==
  [rawSize |-> 0, user |-> 0, size |-> 0, alignment |-> 8, live |-> FALSE, data |-> 0]

Init ==
  /\ block = [b \in Blocks |-> None]
  /\ freed = 0
  /\ stats = 0

\* The block that free and realloc pass to mimalloc, found from the header:
\* zero is the start of the block mimalloc gave out.
Found(b) == block[b].user - Offset(block[b].size, block[b].alignment)

\* Whoever allocated writes all of it: data is where the user's bytes begin.
Written(b) == [b EXCEPT !.data = b.user, !.live = TRUE]

\* alloc and realloc(nullptr), and through them operator new.
Alloc(b, size, alignment) ==
  /\ ~block[b].live
  /\ block' = [block EXCEPT ![b] = Written(Filled(None, size, alignment))]
  /\ stats' = stats + size
  /\ UNCHANGED freed

\* mi_realloc_aligned copies the block as it is, so the bytes stay at their
\* distance from its start.  A caller asks for the alignment it had before.
Realloc(b, size) ==
  /\ block[b].live
  /\ freed' = Found(b)
  /\ block' = [block EXCEPT ![b] = Filled(@, size, block[b].alignment)]
  /\ stats' = stats + size - block[b].size

\* free and operator delete
Free(b) ==
  /\ block[b].live
  /\ freed' = Found(b)
  /\ block' = [block EXCEPT ![b] = None]
  /\ stats' = stats - block[b].size

Next ==
  \E b \in Blocks :
    \/ \E size \in Sizes : Realloc(b, size) \/ \E a \in Alignments : Alloc(b, size, a)
    \/ Free(b)

Spec == Init /\ [][Next]_vars
-----------------------------------------------------------------------------
TypeOK ==
  /\ block \in [Blocks -> [rawSize : Nat, user : Nat, size : Nat,
                           alignment : Alignments \cup {8}, live : BOOLEAN, data : Nat]]
  /\ freed \in Int /\ stats \in Int

Live == {b \in Blocks : block[b].live}

\* The bytes that users have.
UserBytes == UNION {{b} \X (1 .. block[b].size) : b \in Live}

\* After any sequence of calls a live block has room for its header and for the
\* bytes of the user, both aligned, and the bytes are where the user's pointer
\* says although realloc moved the block; mimalloc only ever gets back pointers
\* it gave out; and the statistics are the sum of what is live.
BlocksSound ==
  /\ \A b \in Live :
       /\ block[b].user >= kAllocHeaderSize
       /\ block[b].user + block[b].size <= block[b].rawSize
       /\ block[b].user % block[b].alignment = 0
       /\ block[b].user % 8 = 0
       /\ block[b].data = block[b].user
  /\ freed = 0
  /\ stats = Cardinality(UserBytes)
=============================================================================
