------------------------------ MODULE MCStorage ------------------------------
(***************************************************************************)
(* Where things are kept: blocks of the allocator (Memory), vectors on     *)
(* their storages (Vector), files that threads have open (Files) and the   *)
(* paths they are named with (Path).  They share no state.  MCLibrary has  *)
(* the instances for TLC.                                                  *)
(***************************************************************************)
EXTENDS Naturals, Sequences, FiniteSets

CONSTANTS Blocks, Sizes, Alignments,                       \* of Memory
          Vectors, Values, Default, Raw, Inline, MaxSize,  \* of Vector
          FileUsers, FileNames, NoFile, DirEntry,
          FileWrites, FileLength, FileReads,               \* of Files
          PathNames, Characters, PathTexts, PathComponents, PathLength

ASSUME MemoryAssumption ==
  /\ IsFiniteSet(Blocks) /\ Sizes \subseteq Nat
  /\ \A a \in Alignments : a \in Nat \ {0} /\ a % 8 = 0

ASSUME VectorAssumption ==
  /\ IsFiniteSet(Vectors) /\ Default \in Values /\ Raw \notin Values
  /\ Inline \in Nat /\ MaxSize \in Nat

ASSUME FilesAssumption ==
  NoFile # DirEntry /\ {NoFile, DirEntry} \cap Seq(Nat) = {} /\ FileWrites \subseteq Seq(Nat)

ASSUME PathsAssumption ==
  /\ {"/", "\\", "."} \subseteq Characters /\ "NUL" \notin Characters
  /\ PathTexts \subseteq Seq(Characters)
  /\ PathComponents \subseteq Seq(Characters \ {"/", "\\", "."}) \ {<<>>}

VARIABLES block, freed, stats,                                  \* Memory
          trivial, storage, onHeap, slots, size, alive, blocks, \* Vector
          node, opened, lastError, dst,                         \* Files
          data                                                  \* Path

memoryVars == <<block, freed, stats>>
vectorVars == <<trivial, storage, onHeap, slots, size, alive, blocks>>
fileVars == <<node, opened, lastError, dst>>

Mem == INSTANCE Memory

\* VectorResize shows what resize does to elements that are not trivial.
Vec == INSTANCE Vector WITH ShrinksAny <- FALSE

FileSystem == INSTANCE Files WITH
  Threads <- FileUsers, Names <- FileNames, Writes <- FileWrites, None <- NoFile,
  Dir <- DirEntry, MaxLength <- FileLength, MaxReads <- FileReads, handle <- opened

Paths == INSTANCE Path WITH
  Names <- PathNames, Texts <- PathTexts, Components <- PathComponents, MaxLength <- PathLength
-----------------------------------------------------------------------------
\* Blocks have room, are aligned and found again by realloc and free; the slots of a
\* vector hold its elements, and each block has one owner.
StorageSound ==
  /\ Mem!TypeOK /\ Mem!BlocksSound
  /\ Vec!TypeOK /\ Vec!VectorSound

\* The elements are what the operations on lists make of them.
ImplementsLists == Vec!ImplementsLists

\* The first read through a handle yields the whole file, whatever other threads do to
\* it and whatever error they left; what was written is in the file in one piece.  Paths
\* stay normalized, and parent and suffix undo what joining did.
FilesSound == FileSystem!ReadsWhole /\ FileSystem!WritesKept /\ Paths!PathSound
=============================================================================
