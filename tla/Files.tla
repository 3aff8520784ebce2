-------------------------------- MODULE Files ---------------------------------
(***************************************************************************)
(* The file system of the engine: Vfs and WindowsFileHandle, used by       *)
(* threads that have one file open each.  Reading and writing whole files  *)
(* (FileUtil) and the sink of the log are such sequences of calls.         *)
(*                                                                         *)
(* The functions of Windows are external: what they do to files, how they  *)
(* keep two handles of one file apart, and what they leave as last error.  *)
(***************************************************************************)
EXTENDS Integers, Sequences, FiniteSets, SequencesExt

CONSTANTS Threads, Names,
          Writes,      \* sequences of bytes to write
          None, Dir,   \* no file of that name, or a directory
          MaxLength,   \* bound on the length of files
          MaxReads     \* bound on the reads through one handle

VARIABLES node,        \* what each name stands for: a file is a sequence of bytes
          handle,      \* the file each thread has open, or None
          lastError,   \* GetLastError() of each thread
          dst          \* what it read last

vars == <<node, handle, lastError, dst>>

Modes == {"eRead", "eWrite", "eAppend", "eReadAndWrite", "eReadAndOverwrite", "eReadAndAppend"}

toAccessFlag(mode) ==
  CASE mode = "eRead" -> {"read"}
    [] mode = "eWrite" -> {"write"}
    [] mode = "eAppend" -> {"append"}
    [] mode \in {"eReadAndWrite", "eReadAndOverwrite"} -> {"read", "write"}
    [] mode = "eReadAndAppend" -> {"read", "append"}

toCreationDeposition(mode) ==
  CASE mode \in {"eRead", "eReadAndWrite"} -> "OPEN_EXISTING"
    [] mode \in {"eWrite", "eReadAndOverwrite"} -> "CREATE_ALWAYS"
    [] mode \in {"eAppend", "eReadAndAppend"} -> "OPEN_ALWAYS"

\* Errors without a case of their own, a sharing violation for one, fail an assert.
winErrorToResult(error) ==
  CASE error = "FILE_NOT_FOUND" -> "eDoesNotExist"
    [] error = "PATH_NOT_FOUND" -> "eNotFound"
    [] error = "INSUFFICIENT_BUFFER" -> "eOutOfCapactiy"
    [] error = "ACCESS_DENIED" -> "eInvalidPermission"
    [] error = "ALREADY_EXISTS" -> "eAlreadyExist"
    [] error = "SUCCESS" -> "eOk"
    [] OTHER -> "assert"

IsFile(name) == node[name] \notin {None, Dir}

Init ==
  /\ node \in [Names -> {None, <<0>>}]
  /\ handle = [t \in Threads |-> None]
  /\ lastError = [t \in Threads |-> "SUCCESS"]
  /\ dst = [t \in Threads |-> <<>>]

\* A function of Windows fails, and its error becomes the result of the call.
Fails(t, error) == lastError' = [lastError EXCEPT ![t] = error] /\ UNCHANGED node
-----------------------------------------------------------------------------
(* Vfs *)

\* (mutant of Share) Others may write to a file that is open.
ShareAll == {"read", "write", "append"}

\* What other handles of the file may do.
Share == {"read"}

\* Each of two handles allows what the other one is opened for.
Conflict(access, name) ==
  \E u \in Threads : /\ handle[u] # None /\ handle[u].name = name
                     /\ ~(access \subseteq Share /\ toAccessFlag(handle[u].mode) \subseteq Share)

\* size_ is the size of the file when it is opened.
Opened(t, name, mode, file) ==
  /\ node' = [node EXCEPT ![name] = file]
  /\ handle' = [handle EXCEPT ![t] =
       [name |-> name, mode |-> mode, size |-> Len(file), at |-> 0,
        found |-> file, wrote |-> <<>>, reads |-> <<>>]]

OpenFile(t, name, mode) ==
  LET how == toCreationDeposition(mode)
      exists == node[name] # None
  IN  /\ handle[t] = None
      /\ CASE node[name] = Dir -> Fails(t, "ACCESS_DENIED") /\ UNCHANGED handle
           [] how = "OPEN_EXISTING" /\ ~exists -> Fails(t, "FILE_NOT_FOUND") /\ UNCHANGED handle
           [] exists /\ node[name] # Dir /\ Conflict(toAccessFlag(mode), name) ->
                Fails(t, "SHARING_VIOLATION") /\ UNCHANGED handle
           [] OTHER ->
                /\ Opened(t, name, mode, IF how = "CREATE_ALWAYS" \/ ~exists THEN <<>> ELSE node[name])
                /\ lastError' = [lastError EXCEPT ![t] =
                     IF how = "OPEN_EXISTING" THEN @ ELSE IF exists THEN "ALREADY_EXISTS" ELSE "SUCCESS"]
      /\ dst' = [dst EXCEPT ![t] = <<>>]

\* A file that somebody has open is not deleted.
DeleteFile(t, name) ==
  /\ CASE node[name] = None -> Fails(t, "FILE_NOT_FOUND")
       [] node[name] = Dir -> Fails(t, "ACCESS_DENIED")
       [] \E u \in Threads : handle[u] # None /\ handle[u].name = name -> Fails(t, "SHARING_VIOLATION")
       [] OTHER -> node' = [node EXCEPT ![name] = None] /\ UNCHANGED lastError
  /\ UNCHANGED <<handle, dst>>

CreateDir(t, name) ==
  /\ IF node[name] # None THEN Fails(t, "ALREADY_EXISTS")
     ELSE node' = [node EXCEPT ![name] = Dir] /\ UNCHANGED lastError
  /\ UNCHANGED <<handle, dst>>

DeleteDir(t, name) ==
  /\ CASE node[name] = None -> Fails(t, "FILE_NOT_FOUND")
       [] IsFile(name) -> Fails(t, "DIRECTORY")
       [] OTHER -> node' = [node EXCEPT ![name] = None] /\ UNCHANGED lastError
  /\ UNCHANGED <<handle, dst>>

-----------------------------------------------------------------------------
(* WindowsFileHandle *)

\* read(Vector&) and read(String&): dst is resized to size_, with zeros, and filled
\* from the position of the handle.  ReadFile succeeds at the end of the file; the
\* result is then made of an error that an earlier call left behind.
Read(t) ==
  LET h == handle[t]
      left == SubSeq(node[h.name], h.at + 1, Len(node[h.name]))
      got == IF Len(left) < h.size THEN left ELSE SubSeq(left, 1, h.size)
      r == IF Len(got) = h.size THEN "eOk" ELSE winErrorToResult(lastError[t])
  IN  /\ h # None /\ Len(h.reads) < MaxReads
      /\ IF h.mode \in {"eWrite", "eAppend"}
         THEN /\ dst' = [dst EXCEPT ![t] = [k \in 1 .. h.size |-> 0]]
              /\ UNCHANGED handle
         ELSE /\ dst' = [dst EXCEPT ![t] = got \o [k \in 1 .. h.size - Len(got) |-> 0]]
              /\ handle' = [handle EXCEPT ![t].at = @ + Len(got), ![t].reads = Append(@, r)]
      /\ UNCHANGED <<node, lastError>>

\* The file with these bytes at an offset, over what is there.
Overwritten(file, at, bytes) ==
  SubSeq(file, 1, at) \o bytes \o SubSeq(file, at + Len(bytes) + 1, Len(file))

\* All of it is written, or the disk is full and some of it.
Write(t, bytes) ==
  LET h == handle[t]
      at == IF "append" \in toAccessFlag(h.mode) THEN Len(node[h.name]) ELSE h.at
  IN  /\ h # None
      /\ h.mode # "eRead"
      /\ \E n \in 0 .. Len(bytes) : LET some == SubSeq(bytes, 1, n) IN
           /\ at + n <= MaxLength
           /\ node' = [node EXCEPT ![h.name] = Overwritten(@, at, some)]
           /\ handle' = [handle EXCEPT ![t].at = IF n = 0 THEN @ ELSE at + n,
                                        ![t].wrote = @ \o some]
           /\ lastError' = [lastError EXCEPT ![t] = IF n = Len(bytes) THEN @ ELSE "DISK_FULL"]
      /\ UNCHANGED dst

CloseHandle(t) ==
  /\ handle[t] # None
  /\ handle' = [handle EXCEPT ![t] = None]
  /\ dst' = [dst EXCEPT ![t] = <<>>]
  /\ UNCHANGED <<node, lastError>>
-----------------------------------------------------------------------------
Next ==
  \E t \in Threads :
    \/ \E name \in Names :
         \/ \E mode \in Modes : OpenFile(t, name, mode)
         \/ DeleteFile(t, name) \/ CreateDir(t, name) \/ DeleteDir(t, name)
    \/ Read(t) \/ CloseHandle(t)
    \/ \E bytes \in Writes : Write(t, bytes)

Spec == Init /\ [][Next]_vars
-----------------------------------------------------------------------------
Open == {t \in Threads : handle[t] # None}

\* A file that somebody may write to is nobody else's, so that the size a handle
\* remembers is that of the file as long as it does not write itself: its first
\* read yields the whole file, and says so, whatever error was left behind.
ReadsWhole ==
  /\ \A t, u \in Open :
       t # u /\ handle[t].name = handle[u].name => handle[t].mode = "eRead"
  /\ \A t \in Open : LET h == handle[t] IN
       /\ IsFile(h.name)
       /\ h.wrote = <<>> /\ Len(h.reads) = 1 => h.reads[1] = "eOk" /\ dst[t] = node[h.name]

\* What was written through a handle is in the file, in order and in one piece, over
\* what it held or behind that, also when the disk was full meanwhile.
WritesKept ==
  \A t \in Open : LET h == handle[t] IN
    CASE h.mode \in {"eAppend", "eReadAndAppend"} -> node[h.name] = h.found \o h.wrote
      [] h.mode = "eReadAndWrite" /\ h.reads # <<>> -> IsFile(h.name)
      [] OTHER -> node[h.name] = h.wrote \o SubSeq(h.found, Len(h.wrote) + 1, Len(h.found))
=============================================================================
