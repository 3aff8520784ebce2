-------------------------------- MODULE Path ---------------------------------
(***************************************************************************)
(* fs::Path over String.  A String keeps a NUL behind its characters in a  *)
(* Vector<char>, and one that was moved from keeps nothing, not even that: *)
(* until it is assigned to, none of its operations may be called.  Nor may *)
(* a path be joined with itself: push would copy from what it resized.     *)
(***************************************************************************)
EXTENDS Integers, Sequences, SequencesExt

CONSTANTS Names,      \* of the paths
          Texts,      \* C strings and views that are passed in, without NUL
          Components, \* those of them without separators and dots
          MaxLength   \* bound on the length of a path

VARIABLE data   \* str_.data_ of each path

kSep == "/"

kWindowsSep == "\\"

NUL == "NUL"

Usable(p) == data[p] # <<>>

Init == data = [p \in Names |-> <<NUL>>]
-----------------------------------------------------------------------------
(* IString and StringView *)

Chars(d) == SubSeq(d, 1, Len(d) - 1)

FromChars(chars) == Append(chars, NUL)

\* resize and memcpy behind the old characters
Push(d, chars) == FromChars(Chars(d) \o chars)

\* replace
Replace(d, from, to) == [i \in DOMAIN d |-> IF d[i] = from THEN to ELSE d[i]]

\* The index, from 0, of the last c; -1 for kNpos.
rfind(chars, c) ==
  IF c \in Range(chars) THEN (CHOOSE i \in DOMAIN chars : chars[i] = c /\
                                \A j \in i + 1 .. Len(chars) : chars[j] # c) - 1 ELSE -1
-----------------------------------------------------------------------------
(* Path *)

normalize(d) == Replace(d, kWindowsSep, kSep)

isAbsolute(d) == Chars(d) # <<>> /\ d[1] = kSep

\* operator/ for a C string or a view
JoinText(d, text) ==
  IF text = <<>> THEN d
  ELSE normalize(IF text[1] \in {kSep, kWindowsSep} THEN FromChars(text)
                 ELSE Push(Push(d, <<kSep>>), text))

\* operator/ for a path, which is normalized already
JoinPath(d, other) ==
  IF Chars(other) = <<>> THEN d
  ELSE IF isAbsolute(other) THEN other
  ELSE Push(Push(d, <<kSep>>), Chars(other))

parent(d) ==
  LET pos == rfind(Chars(d), kSep)
  IN  IF pos = -1 THEN d ELSE FromChars(SubSeq(d, 1, pos))

suffix(d) ==
  LET pos == rfind(Chars(d), ".")
  IN  IF pos = -1 THEN <<>> ELSE SubSeq(Chars(d), pos + 2, Len(d) - 1)

Set(p, d) == Len(d) <= MaxLength + 1 /\ data' = [data EXCEPT ![p] = d]

Make(p, text) == Set(p, normalize(FromChars(text)))

Copy(p, q) == p # q /\ Usable(q) /\ Set(p, data[q])

Move(p, q) == p # q /\ Usable(q) /\ data' = [data EXCEPT ![p] = data[q], ![q] = <<>>]

Join(p, text) == Usable(p) /\ Set(p, JoinText(data[p], text))

JoinOther(p, q) == p # q /\ Usable(p) /\ Usable(q) /\ Set(p, JoinPath(data[p], data[q]))

\* p = q.parent()
Parent(p, q) == Usable(q) /\ Set(p, parent(data[q]))

Next ==
  \E p \in Names :
    \/ \E text \in Texts : Make(p, text) \/ Join(p, text)
    \/ \E q \in Names : Copy(p, q) \/ Move(p, q) \/ JoinOther(p, q) \/ Parent(p, q)

Spec == Init /\ [][Next]_data
-----------------------------------------------------------------------------
\* Whatever paths and texts it was joined from, a path ends with its only NUL
\* and has no Windows separator left; parent takes away what was joined last,
\* suffix finds what follows the dot in it, and joining something relative to
\* a path that is not empty leaves it as absolute or relative as it was.
PathSound ==
  \A p \in Names : Usable(p) =>
    /\ Last(data[p]) = NUL
    /\ {NUL, kWindowsSep} \cap Range(Chars(data[p])) = {}
    /\ \A c \in Components :
         /\ parent(JoinText(data[p], c)) = data[p]
         /\ \A s \in Components : suffix(JoinText(data[p], c \o <<".">> \o s)) = s
         /\ Chars(data[p]) # <<>> =>
              isAbsolute(JoinText(data[p], c)) = isAbsolute(data[p])
    /\ \A q \in Names : Usable(q) /\ isAbsolute(data[q]) => JoinPath(data[p], data[q]) = data[q]
=============================================================================
