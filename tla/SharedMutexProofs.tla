------------------------- MODULE SharedMutexProofs -------------------------
(***************************************************************************)
(* Theorems about SharedMutex for all finite sets of writers and readers   *)
(* and every number of calls.                                              *)
(***************************************************************************)
EXTENDS SharedMutex, ListFacts

USE FiniteAssumption, RolesAssumption

-----------------------------------------------------------------------------
(* The fields of the words the code builds. *)

LEMMA NoBitsWord ==
  /\ NoBits \in States /\ ~NoBits.eLocked /\ ~NoBits.eParked /\ ~NoBits.eDrain
  /\ ~NoBits.sParked /\ NoBits.readers = 0
  <1>1. Cardinality(Readers) \in Nat
    BY FS_CardinalityType
  <1>2. 0 \in 0 .. Cardinality(Readers)
    BY <1>1
  <1> QED BY <1>2 DEF NoBits, States

LEMMA OnlyLockedWord ==
  /\ OnlyLocked \in States /\ OnlyLocked.eLocked /\ ~OnlyLocked.eParked
  /\ ~OnlyLocked.eDrain /\ ~OnlyLocked.sParked /\ OnlyLocked.readers = 0
  <1>1. Cardinality(Readers) \in Nat
    BY FS_CardinalityType
  <1>2. 0 \in 0 .. Cardinality(Readers)
    BY <1>1
  <1> QED BY <1>2 DEF NoBits, OnlyLocked, States

\* v agrees with w on the fields that a step does not write.
Same(v, w, fields) ==
  /\ "eLocked" \in fields => v.eLocked = w.eLocked
  /\ "eParked" \in fields => v.eParked = w.eParked
  /\ "eDrain" \in fields => v.eDrain = w.eDrain
  /\ "sParked" \in fields => v.sParked = w.sParked
  /\ "readers" \in fields => v.readers = w.readers

LEMMA BitWords ==
  ASSUME NEW w \in States, NEW b \in BOOLEAN
  PROVE  /\ LET v == [w EXCEPT !.eLocked = b]
            IN  v \in States /\ v.eLocked = b
                /\ Same(v, w, {"eParked", "eDrain", "sParked", "readers"})
         /\ LET v == [w EXCEPT !.eParked = b]
            IN  v \in States /\ v.eParked = b
                /\ Same(v, w, {"eLocked", "eDrain", "sParked", "readers"})
         /\ LET v == [w EXCEPT !.eDrain = b]
            IN  v \in States /\ v.eDrain = b
                /\ Same(v, w, {"eLocked", "eParked", "sParked", "readers"})
         /\ LET v == [w EXCEPT !.sParked = b]
            IN  v \in States /\ v.sParked = b
                /\ Same(v, w, {"eLocked", "eParked", "eDrain", "readers"})
         /\ LET v == [w EXCEPT !.eLocked = FALSE, !.eParked = FALSE]
            IN  v \in States /\ ~v.eLocked /\ ~v.eParked
                /\ Same(v, w, {"eDrain", "sParked", "readers"})
         /\ LET v == [w EXCEPT !.eParked = FALSE, !.sParked = FALSE, !.eLocked = @ /\ b]
            IN  v \in States /\ v.eLocked = (w.eLocked /\ b) /\ ~v.eParked /\ ~v.sParked
                /\ Same(v, w, {"eDrain", "readers"})
BY DEF States, Same

LEMMA ReaderWords ==
  ASSUME NEW w \in States
  PROVE  /\ w.readers + 1 <= Cardinality(Readers) =>
              LET v == [w EXCEPT !.readers = @ + 1]
              IN  v \in States /\ v.readers = w.readers + 1
                  /\ Same(v, w, {"eLocked", "eParked", "eDrain", "sParked"})
         /\ w.readers # 0 =>
              LET v == [w EXCEPT !.readers = @ - 1]
              IN  v \in States /\ v.readers = w.readers - 1
                  /\ Same(v, w, {"eLocked", "eParked", "eDrain", "sParked"})
  <1> DEFINE c == Cardinality(Readers)
  <1>1. c \in Nat
    BY FS_CardinalityType
  <1> HIDE DEF c
  <1>2. w \in [eLocked : BOOLEAN, eParked : BOOLEAN, eDrain : BOOLEAN, sParked : BOOLEAN,
              readers : 0 .. c]
    BY DEF States, c
  <1>3. /\ w.readers + 1 <= c => w.readers + 1 \in 0 .. c
        /\ w.readers # 0 => w.readers - 1 \in 0 .. c
    BY <1>1, <1>2
  <1> QED BY <1>2, <1>3 DEF States, Same, c

-----------------------------------------------------------------------------
(* Who owns the word. *)

\* What a copy still says at the step that uses it.
Copies(t) ==
  /\ At(t, "wCas") => ~current[t].eLocked
  /\ At(t, "uCas") => current[t] = OnlyLocked
  /\ At(t, "uUnparkOne") => current[t].eParked

ReaderCopies(t) == At(t, "rCas") => ~current[t].eLocked

\* The exclusive bit has exactly one owner while it is set; an owner that drained
\* the readers keeps them out.
BitInv ==
  /\ \A t, u \in Writers : OwnsBit(t) /\ OwnsBit(u) => t = u
  /\ state.eLocked <=> \E t \in Writers : OwnsBit(t)
  /\ \A t \in Writers : MayWrite(t) => state.readers = 0
  /\ \A t \in Writers : Copies(t)
  /\ \A t \in Readers : ReaderCopies(t)

In == {r \in Readers : MayRead(r)}

CountInv == state.readers = Cardinality(In)

Inv == TypeOK /\ BitInv /\ CountInv

LEMMA InFinite ==
  /\ IsFiniteSet(In) /\ Cardinality(In) \in Nat /\ Cardinality(Readers) \in Nat
  /\ Cardinality(In) <= Cardinality(Readers)
  <1>1. In \in SUBSET Readers
    BY DEF In
  <1> QED BY <1>1, FS_Subset, FS_CardinalityType

LEMMA InitInv == Init => Inv
  <1> SUFFICES ASSUME Init PROVE Inv
    OBVIOUS
  <1>1. \A t \in Threads : pc[t] = "idle"
    BY DEF Init
  <1>2. TypeOK
    BY NoBitsWord, EmptySeq, BoundAssumption DEF Init, TypeOK, Labels, Threads
  <1>3. BitInv
    BY <1>1, NoBitsWord
    DEF Init, BitInv, OwnsBit, MayWrite, Copies, ReaderCopies, At, Threads
  <1>4. In = {}
    BY <1>1 DEF In, MayRead, Threads
  <1>5. CountInv
    BY <1>4, NoBitsWord, FS_EmptySet DEF Init, CountInv
  <1> QED BY <1>2, <1>3, <1>5 DEF Inv

\* A thread that is woken goes back to the load it came from.
LEMMA ResumeLabel ==
  ASSUME NEW l \in Labels
  PROVE  /\ Resume(l) \in Labels
         /\ l \notin {"wParked", "drainParked", "rParked"} => Resume(l) = l
         /\ l = "wParked" => Resume(l) = "wLoad"
         /\ l = "drainParked" => Resume(l) = "drainLoad"
         /\ l = "rParked" => Resume(l) = "rLoad"
BY DEF Resume, Labels

LEMMA WakeOnePc ==
  ASSUME TypeOK, NEW t \in Threads, NEW i \in 1 .. Len(queue),
         NEW l \in Labels \ {"wParked", "drainParked", "rParked"}, WakeOne(t, i, l)
  PROVE  /\ queue' \in Seq([who : Threads, mask : {"eParked", "eDrain", "sParked"}])
         /\ queue[i].who \in Threads
         /\ pc' \in [Threads -> Labels]
         /\ pc'[t] = l
         /\ \A u \in Threads \ {t} : /\ u = queue[i].who => pc'[u] = Resume(pc[u])
                                     /\ u # queue[i].who => pc'[u] = pc[u]
         /\ \A u \in Threads \ {t} :
              /\ pc[u] \notin {"wParked", "drainParked", "rParked"} => pc'[u] = pc[u]
              /\ pc'[u] = pc[u] \/ pc'[u] = Resume(pc[u])
  <1> DEFINE E == [who : Threads, mask : {"eParked", "eDrain", "sParked"}]
  <1>1. queue \in Seq(E) /\ pc \in [Threads -> Labels]
    BY DEF TypeOK
  <1> HIDE DEF E
  <1>2. queue' \in Seq(E) /\ queue[i] \in E
    BY <1>1, RemoveAtElements, ElementOfSeq DEF WakeOne
  <1>3. \A u \in Threads : Resume(pc[u]) \in Labels
    BY <1>1, ResumeLabel
  <1>4. queue[i].who \in Threads
    BY <1>2 DEF E
  <1>5. pc' = [u \in Threads |-> IF u = t THEN l
                                ELSE IF u = queue[i].who THEN Resume(pc[u]) ELSE pc[u]]
    BY DEF WakeOne
  <1>6. \A u \in Threads \ {t} : /\ u = queue[i].who => pc'[u] = Resume(pc[u])
                                 /\ u # queue[i].who => pc'[u] = pc[u]
    BY <1>5
  <1>7. ASSUME NEW u \in Threads \ {t}
        PROVE  /\ pc[u] \notin {"wParked", "drainParked", "rParked"} => pc'[u] = pc[u]
               /\ pc'[u] = pc[u] \/ pc'[u] = Resume(pc[u])
    <2>1. pc[u] \in Labels
      BY <1>1
    <2>2. pc[u] \notin {"wParked", "drainParked", "rParked"} => Resume(pc[u]) = pc[u]
      BY <2>1, ResumeLabel
    <2>3. pc'[u] = pc[u] \/ pc'[u] = Resume(pc[u])
      BY <1>6
    <2> QED BY <1>6, <2>2, <2>3
  <1>8. pc' \in [Threads -> Labels] /\ pc'[t] = l
    BY <1>3, <1>1, <1>5
  <1> QED BY <1>2, <1>4, <1>6, <1>7, <1>8 DEF E

-----------------------------------------------------------------------------
(* A step is one of few kinds: what it writes to the word, and what it says  *)
(* about the label and the copy of the thread that takes it.                 *)

\* Nobody else's label or copy changes; the word, and the readers that are in,
\* stay as they are.
LocalStep(t) ==
  /\ state' = state
  /\ pc' \in [Threads -> Labels] /\ current' \in [Threads -> States]
  /\ \A u \in Threads \ {t} : pc'[u] = pc[u] /\ current'[u] = current[u]

\* The steps that win a CAS or write under the lock of the bucket.
CasStep(t, from, desired, to) ==
  /\ At(t, from) /\ state = current[t] /\ state' = desired
  /\ pc' = [pc EXCEPT ![t] = to]
  /\ current' = [current EXCEPT ![t] = NoBits]
  /\ UNCHANGED <<queue, calls>>

LEMMA CasCases ==
  ASSUME NEW t, NEW from, NEW desired, NEW won, NEW lost, Cas(t, from, desired, won, lost)
  PROVE  \/ CasStep(t, from, desired, won)
         \/ /\ At(t, from) /\ state' = state
            /\ pc' = [pc EXCEPT ![t] = lost]
            /\ current' = [current EXCEPT ![t] = NoBits]
            /\ UNCHANGED <<queue, calls>>
BY DEF Cas, CasStep, Goto

\* A step that leaves the word alone and gives nobody the right to write or read.
CalmLabels == {"idle", "wLoad", "wSetParked", "wValidate", "wParked", "rLoad", "rSetParked",
               "rValidate", "rParked", "ruUnparkOne", "uUnparkAll"}

LEMMA SameCount ==
  ASSUME TypeOK, TypeOK', CountInv, state'.readers = state.readers,
         \A r \in Readers : MayRead(r)' <=> MayRead(r)
  PROVE  CountInv'
  <1>1. In' = In
    BY DEF In
  <1> QED BY <1>1 DEF CountInv

\* The steps of one thread that do not touch the word.
LEMMA LocalInv ==
  ASSUME Inv, NEW t \in Threads, LocalStep(t), queue' \in Seq([who : Threads, mask : {"eParked", "eDrain", "sParked"}]),
         calls' \in [Threads -> Nat], \A u \in Threads : calls'[u] <= MaxCalls[u],
         OwnsBit(t)' <=> OwnsBit(t),
         MayWrite(t)' => MayWrite(t) \/ state.readers = 0,
         MayRead(t)' <=> MayRead(t),
         t \in Writers => Copies(t)',
         t \in Readers => ReaderCopies(t)'
  PROVE  Inv'
  <1>1. TypeOK'
    BY DEF Inv, TypeOK, LocalStep
  <1>2. \A u \in Threads : OwnsBit(u)' <=> OwnsBit(u)
    BY DEF LocalStep, OwnsBit, At
  <1>3. \A u \in Threads : MayRead(u)' <=> MayRead(u)
    BY DEF LocalStep, MayRead
  <1>4. \A u \in Threads : MayWrite(u)' => MayWrite(u) \/ state.readers = 0
    BY DEF LocalStep, MayWrite
  <1>5. \A u \in Threads \ {t} : (Copies(u) => Copies(u)') /\ (ReaderCopies(u) => ReaderCopies(u)')
    BY DEF LocalStep, Copies, ReaderCopies, At
  <1>6. BitInv'
    BY <1>2, <1>4, <1>5 DEF Inv, BitInv, LocalStep, Threads
  <1>7. CountInv'
    BY <1>1, <1>3, SameCount DEF Inv, LocalStep, Threads
  <1> QED BY <1>1, <1>6, <1>7 DEF Inv

LEMMA TypeParts ==
  ASSUME TypeOK, NEW t \in Threads
  PROVE  /\ state \in States /\ current[t] \in States /\ pc[t] \in Labels
         /\ pc \in [Threads -> Labels] /\ current \in [Threads -> States]
         /\ [current EXCEPT ![t] = state] \in [Threads -> States]
         /\ [current EXCEPT ![t] = NoBits] \in [Threads -> States]
         /\ \A l \in Labels : [pc EXCEPT ![t] = l] \in [Threads -> Labels]
BY NoBitsWord DEF TypeOK

LEMMA CallInv ==
  ASSUME Inv, NEW t \in Threads, NEW l \in {"wLoad", "rLoad"}, Call(t, l)
  PROVE  Inv'
  <1> USE DEF At, Goto
  <1>1. TypeOK /\ l \in Labels
    BY DEF Inv, Labels
  <1>2. calls' \in [Threads -> Nat] /\ \A u \in Threads : calls'[u] <= MaxCalls[u]
    <2>1. calls[t] \in Nat /\ MaxCalls[t] \in Nat /\ calls[t] < MaxCalls[t]
      BY <1>1, BoundAssumption DEF TypeOK, Call, Threads
    <2>2. calls[t] + 1 \in Nat /\ calls[t] + 1 <= MaxCalls[t]
      BY <2>1
    <2> QED BY <1>1, <2>2 DEF TypeOK, Call
  <1>3. LocalStep(t) /\ queue' = queue /\ pc[t] = "idle" /\ pc'[t] = l
    BY <1>1, TypeParts DEF Call, LocalStep, TypeOK
  <1>4. queue' \in Seq([who : Threads, mask : {"eParked", "eDrain", "sParked"}])
    BY <1>1, <1>3 DEF TypeOK
  <1> QED BY <1>2, <1>3, <1>4, LocalInv DEF OwnsBit, MayWrite, MayRead, Copies, ReaderCopies

\* A load decides where to go on; the copy is what it saw.
LEMMA LoadInv ==
  ASSUME Inv, NEW t \in Threads,
         \/ t \in Writers /\ (WriterLoad(t) \/ DrainLoad(t) \/ UnlockLoad(t))
         \/ t \in Readers /\ (ReaderLoad(t) \/ UnlockSharedLoad(t))
  PROVE  Inv'
  <1> USE DEF At, Goto, Copy
  <1>1. TypeOK
    BY DEF Inv
  <1>2. PICK l \in Labels : pc' = [pc EXCEPT ![t] = l]
    BY DEF WriterLoad, WriterWait, DrainLoad, UnlockLoad, ReaderLoad, UnlockSharedLoad, Labels
  <1>3. current' = current \/ current' = [current EXCEPT ![t] = state]
    BY DEF WriterLoad, WriterWait, DrainLoad, UnlockLoad, ReaderLoad, UnlockSharedLoad
  <1>4. state' = state /\ queue' = queue /\ calls' = calls
    BY DEF WriterLoad, WriterWait, DrainLoad, UnlockLoad, ReaderLoad, UnlockSharedLoad
  <1>5. LocalStep(t)
    BY <1>1, <1>2, <1>3, <1>4, TypeParts DEF LocalStep, TypeOK
  <1>6. (current'[t] = current[t] \/ current'[t] = state) /\ pc'[t] = l
    BY <1>1, <1>2, <1>3 DEF TypeOK
  <1>7. /\ OwnsBit(t)' <=> OwnsBit(t)
        /\ MayWrite(t)' => MayWrite(t) \/ state.readers = 0
        /\ MayRead(t)' <=> MayRead(t)
        /\ t \in Writers => Copies(t)'
        /\ t \in Readers => ReaderCopies(t)'
    <2>1. CASE t \in Writers /\ WriterLoad(t)
      BY <1>1, <2>1 DEF TypeOK, WriterLoad, WriterWait, OwnsBit, MayWrite, MayRead, Copies
    <2>2. CASE t \in Writers /\ DrainLoad(t)
      BY <1>1, <2>2 DEF TypeOK, DrainLoad, OwnsBit, MayWrite, MayRead, Copies
    <2>3. CASE t \in Writers /\ UnlockLoad(t)
      BY <1>1, <2>3, OnlyLockedWord DEF TypeOK, UnlockLoad, OwnsBit, MayWrite, MayRead, Copies
    <2>4. CASE t \in Readers /\ ReaderLoad(t)
      BY <1>1, <2>4 DEF TypeOK, ReaderLoad, OwnsBit, MayWrite, MayRead, ReaderCopies
    <2>5. CASE t \in Readers /\ UnlockSharedLoad(t)
      BY <1>1, <2>5 DEF TypeOK, UnlockSharedLoad, OwnsBit, MayWrite, MayRead, ReaderCopies
    <2> QED BY <2>1, <2>2, <2>3, <2>4, <2>5
  <1> QED BY <1>1, <1>4, <1>5, <1>7, LocalInv DEF TypeOK

\* Going to sleep, and giving up at the deadline.
LEMMA ParkInv ==
  ASSUME Inv, NEW t \in Threads,
         \/ t \in Writers /\ (WriterPark(t) \/ DrainPark(t))
         \/ t \in Readers /\ ReaderPark(t)
         \/ TimeOut(t)
  PROVE  Inv'
  <1> USE DEF At, Goto
  <1> DEFINE E == [who : Threads, mask : {"eParked", "eDrain", "sParked"}]
  <1>1. TypeOK /\ queue \in Seq(E)
    BY DEF Inv, TypeOK
  <1>2. state' = state /\ current' = current /\ calls' = calls
    BY DEF WriterPark, DrainPark, ReaderPark, ParkIf, TimeOut
  <1>3. queue' \in Seq(E)
    <2>1. \A m \in {"eParked", "eDrain", "sParked"} : [who |-> t, mask |-> m] \in E
      OBVIOUS
    <2> HIDE DEF E
    <2>2. CASE TimeOut(t)
      BY <1>1, <2>2, RemoveAtElements DEF TimeOut
    <2>3. CASE ~TimeOut(t)
      <3>1. \E m \in {"eParked", "eDrain", "sParked"} :
              queue' \in {queue, Append(queue, [who |-> t, mask |-> m])}
        BY <2>3 DEF WriterPark, DrainPark, ReaderPark, ParkIf
      <3> QED BY <1>1, <2>1, <3>1, AppendProperties
    <2> QED BY <2>2, <2>3
  <1>4. PICK l \in Labels : pc' = [pc EXCEPT ![t] = l]
    BY DEF WriterPark, DrainPark, ReaderPark, ParkIf, TimeOut, Labels
  <1>5. LocalStep(t)
    BY <1>1, <1>2, <1>4, TypeParts DEF LocalStep, TypeOK
  <1>6. /\ OwnsBit(t)' <=> OwnsBit(t)
        /\ ~MayWrite(t)' /\ (MayRead(t)' <=> MayRead(t))
        /\ Copies(t)' /\ ReaderCopies(t)'
    BY <1>1 DEF TypeOK, WriterPark, DrainPark, ReaderPark, ParkIf, TimeOut, OwnsBit, MayWrite,
                MayRead, Copies, ReaderCopies
  <1> QED BY <1>1, <1>2, <1>3, <1>5, <1>6, LocalInv DEF TypeOK

\* A CAS that fails sends the thread back to the load.
LEMMA CasLostInv ==
  ASSUME Inv, NEW t \in Threads, NEW from, NEW to,
         <<from, to>> \in {<<"wCas", "wLoad">>, <<"wSetParked", "wLoad">>,
                          <<"drainCas", "drainLoad">>, <<"uCas", "uLoad">>,
                          <<"rCas", "rLoad">>, <<"rSetParked", "rLoad">>,
                          <<"ruCas", "ruLoad">>},
         At(t, from), state' = state, pc' = [pc EXCEPT ![t] = to],
         current' = [current EXCEPT ![t] = NoBits], UNCHANGED <<queue, calls>>
  PROVE  Inv'
  <1>1. TypeOK /\ to \in Labels
    BY DEF Inv, Labels
  <1>2. LocalStep(t) /\ pc'[t] = to
    BY <1>1, TypeParts DEF LocalStep, TypeOK
  <1>3. /\ OwnsBit(t)' <=> OwnsBit(t)
        /\ MayWrite(t)' => MayWrite(t)
        /\ MayRead(t)' <=> MayRead(t)
        /\ Copies(t)' /\ ReaderCopies(t)'
    BY <1>2 DEF OwnsBit, MayWrite, MayRead, Copies, ReaderCopies, At
  <1> QED BY <1>1, <1>2, <1>3, LocalInv DEF TypeOK

\* A CAS that sets a bit other than the exclusive one.
LEMMA MarkInv ==
  ASSUME Inv, NEW t \in Threads, NEW from, NEW to, NEW w,
         <<from, to>> \in {<<"wSetParked", "wValidate">>, <<"drainCas", "drainValidate">>,
                          <<"rSetParked", "rValidate">>},
         CasStep(t, from, w, to), w \in States, Same(w, state, {"eLocked", "readers"})
  PROVE  Inv'
  <1>1. TypeOK /\ to \in Labels
    BY DEF Inv, Labels
  <1>2. /\ state' \in States /\ state'.eLocked = state.eLocked /\ state'.readers = state.readers
        /\ pc'[t] = to /\ pc[t] = from
        /\ \A u \in Threads \ {t} : pc'[u] = pc[u] /\ current'[u] = current[u]
    BY <1>1 DEF CasStep, Same, TypeOK, At
  <1>3. TypeOK'
    BY <1>1, <1>2, TypeParts DEF CasStep, TypeOK
  <1>4. \A u \in Threads : /\ OwnsBit(u)' <=> OwnsBit(u)
                           /\ MayWrite(u)' => MayWrite(u)
                           /\ MayRead(u)' <=> MayRead(u)
                           /\ Copies(u) => Copies(u)'
                           /\ ReaderCopies(u) => ReaderCopies(u)'
    BY <1>2 DEF OwnsBit, MayWrite, MayRead, Copies, ReaderCopies, At
  <1>5. BitInv'
    BY <1>2, <1>4 DEF Inv, BitInv, Threads
  <1>6. CountInv'
    BY <1>1, <1>2, <1>3, <1>4, SameCount DEF Inv, Threads
  <1> QED BY <1>3, <1>5, <1>6 DEF Inv

\* The words that these steps write.
LEMMA MarkWords ==
  ASSUME NEW w \in States
  PROVE  /\ [w EXCEPT !.eParked = TRUE] \in States
         /\ Same([w EXCEPT !.eParked = TRUE], w, {"eLocked", "readers"})
         /\ [w EXCEPT !.eDrain = TRUE] \in States
         /\ Same([w EXCEPT !.eDrain = TRUE], w, {"eLocked", "readers"})
         /\ [w EXCEPT !.sParked = TRUE] \in States
         /\ Same([w EXCEPT !.sParked = TRUE], w, {"eLocked", "readers"})
BY DEF States, Same

LEMMA LockInv ==
  ASSUME Inv, NEW t \in Writers, CasStep(t, "wCas", [current[t] EXCEPT !.eLocked = TRUE], "drainLoad")
  PROVE  Inv'
  <1>1. TypeOK /\ t \in Threads
    BY DEF Inv, Threads
  <1>2. state \in States /\ ~state.eLocked
    BY <1>1, TypeParts DEF Inv, BitInv, Copies, CasStep
  <1>3. /\ state' \in States /\ state'.eLocked /\ state'.readers = state.readers
        /\ pc'[t] = "drainLoad" /\ pc[t] = "wCas"
        /\ \A u \in Threads \ {t} : pc'[u] = pc[u] /\ current'[u] = current[u]
    <2>1. state' = [state EXCEPT !.eLocked = TRUE]
      BY DEF CasStep
    <2>2. state' \in States /\ state'.eLocked /\ state'.readers = state.readers
      BY <1>2, <2>1, BitWords DEF Same
    <2> QED BY <1>1, <2>2 DEF CasStep, TypeOK, At
  <1>4. TypeOK'
    BY <1>1, <1>3, TypeParts DEF CasStep, TypeOK, Labels
  <1>5. \A u \in Threads : /\ OwnsBit(u)' <=> OwnsBit(u) \/ u = t
                           /\ MayWrite(u)' => MayWrite(u)
                           /\ MayRead(u)' <=> MayRead(u)
                           /\ Copies(u) => Copies(u)'
                           /\ ReaderCopies(u) => ReaderCopies(u)'
    BY <1>3 DEF OwnsBit, MayWrite, MayRead, Copies, ReaderCopies, At
  <1>6. BitInv'
    BY <1>2, <1>3, <1>5 DEF Inv, BitInv, Threads
  <1>7. CountInv'
    BY <1>1, <1>3, <1>4, <1>5, SameCount DEF Inv, Threads
  <1> QED BY <1>4, <1>6, <1>7 DEF Inv

\* The owner gives the exclusive bit up, or a thread that gave it up before
\* clears what else there is: the bit then belongs to somebody else.
LEMMA UnlockInv ==
  ASSUME Inv, NEW t \in Writers, NEW from, NEW to, to \in {"idle", "uClear", "uUnparkAll"},
         pc[t] \in {"uCas", "uUnparkOne", "uClear"}, TypeOK',
         state'.eLocked = (state.eLocked /\ ~OwnsBit(t)), state'.readers = state.readers,
         pc'[t] = to, to = "uClear" => current'[t].eParked,
         \A u \in Threads \ {t} : /\ current'[u] = current[u]
                                  /\ pc[u] \notin {"wParked", "drainParked", "rParked"} => pc'[u] = pc[u]
                                  /\ pc'[u] = pc[u] \/ pc'[u] = Resume(pc[u])
  PROVE  Inv'
  <1>1. TypeOK /\ t \in Threads
    BY DEF Inv, Threads
  <1>2. ~OwnsBit(t)'
    BY DEF OwnsBit, At
  <1>3. \A u \in Threads \ {t} :
          \/ pc'[u] = pc[u]
          \/ pc[u] = "wParked" /\ pc'[u] = "wLoad"
          \/ pc[u] = "drainParked" /\ pc'[u] = "drainLoad"
          \/ pc[u] = "rParked" /\ pc'[u] = "rLoad"
    BY <1>1, ResumeLabel DEF TypeOK
  <1>4. \A u \in Threads \ {t} : /\ OwnsBit(u)' <=> OwnsBit(u)
                                 /\ MayWrite(u)' => MayWrite(u)
                                 /\ MayRead(u)' <=> MayRead(u)
                                 /\ Copies(u) => Copies(u)'
                                 /\ ReaderCopies(u) => ReaderCopies(u)'
    BY <1>3 DEF OwnsBit, MayWrite, MayRead, Copies, ReaderCopies, At
  <1>5. ~MayWrite(t)' /\ ~MayRead(t)' /\ ~MayRead(t) /\ Copies(t)' /\ ReaderCopies(t)'
    BY DEF MayWrite, MayRead, Copies, ReaderCopies, At
  <1>6. BitInv'
    <2>1. CASE OwnsBit(t)
      BY <1>2, <1>4, <1>5, <2>1 DEF Inv, BitInv, Threads
    <2>2. CASE ~OwnsBit(t)
      BY <1>2, <1>4, <1>5, <2>2 DEF Inv, BitInv, Threads
    <2> QED BY <2>1, <2>2
  <1>7. CountInv'
    BY <1>1, <1>4, <1>5, SameCount DEF Inv, Threads
  <1> QED BY <1>6, <1>7 DEF Inv

LEMMA EnterInv ==
  ASSUME Inv, NEW t \in Readers, CasStep(t, "rCas", [current[t] EXCEPT !.readers = @ + 1], "reading")
  PROVE  Inv' /\ ~state.eLocked
  <1>1. TypeOK /\ t \in Threads
    BY DEF Inv, Threads
  <1>2. state \in States /\ ~state.eLocked
    BY <1>1, TypeParts DEF Inv, BitInv, ReaderCopies, CasStep
  <1>3. /\ pc'[t] = "reading" /\ pc[t] = "rCas" /\ current'[t] = NoBits
        /\ \A u \in Threads \ {t} : pc'[u] = pc[u] /\ current'[u] = current[u]
    BY <1>1 DEF CasStep, TypeOK, At
  <1>4. In' = In \cup {t} /\ t \notin In
    BY <1>1, <1>3 DEF In, MayRead, Threads
  <1>5. Cardinality(In') = Cardinality(In) + 1 /\ Cardinality(In') <= Cardinality(Readers)
        /\ Cardinality(In) \in Nat
    <2>1. In' \in SUBSET Readers
      BY DEF In
    <2> QED BY <1>4, <2>1, InFinite, FS_AddElement, FS_Subset
  <1>6. state.readers + 1 <= Cardinality(Readers)
    BY <1>5 DEF Inv, CountInv
  <1>7. /\ state' \in States /\ state'.readers = state.readers + 1
        /\ state'.eLocked = state.eLocked
    <2>1. state' = [state EXCEPT !.readers = @ + 1]
      BY DEF CasStep
    <2> QED BY <1>2, <1>6, <2>1, ReaderWords DEF Same
  <1>8. TypeOK'
    BY <1>1, <1>7, TypeParts DEF CasStep, TypeOK, Labels
  <1>9. \A u \in Threads : /\ OwnsBit(u)' <=> OwnsBit(u)
                           /\ MayWrite(u)' => MayWrite(u) /\ OwnsBit(u)
                           /\ Copies(u) => Copies(u)'
                           /\ ReaderCopies(u) => ReaderCopies(u)'
    BY <1>3 DEF OwnsBit, MayWrite, Copies, ReaderCopies, At
  <1>10. BitInv'
    BY <1>2, <1>7, <1>9 DEF Inv, BitInv, Threads
  <1>11. CountInv'
    BY <1>5, <1>7 DEF Inv, CountInv
  <1> QED BY <1>2, <1>8, <1>10, <1>11 DEF Inv

LEMMA LeaveInv ==
  ASSUME Inv, NEW t \in Readers, NEW l \in {"ruUnparkOne", "idle"},
         CasStep(t, "ruCas", [current[t] EXCEPT !.readers = @ - 1], l)
  PROVE  Inv'
  <1>1. TypeOK /\ t \in Threads /\ state \in States
    BY DEF Inv, TypeOK, Threads
  <1>2. /\ pc'[t] = l /\ pc[t] = "ruCas" /\ current'[t] = NoBits
        /\ \A u \in Threads \ {t} : pc'[u] = pc[u] /\ current'[u] = current[u]
    BY <1>1 DEF CasStep, TypeOK, At
  <1>3. In' = In \ {t} /\ t \in In
    BY <1>1, <1>2 DEF In, MayRead, Threads
  <1>4. Cardinality(In') = Cardinality(In) - 1 /\ Cardinality(In) \in Nat /\ Cardinality(In) # 0
    BY <1>3, InFinite, FS_RemoveElement, FS_EmptySet
  <1>5. state.readers # 0
    BY <1>4 DEF Inv, CountInv
  <1>6. /\ state' \in States /\ state'.readers = state.readers - 1
        /\ state'.eLocked = state.eLocked
    <2>1. state' = [state EXCEPT !.readers = @ - 1]
      BY DEF CasStep
    <2> QED BY <1>1, <1>5, <2>1, ReaderWords DEF Same
  <1>7. TypeOK'
    BY <1>1, <1>6, TypeParts DEF CasStep, TypeOK, Labels
  <1>8. \A u \in Threads : /\ OwnsBit(u)' <=> OwnsBit(u)
                           /\ MayWrite(u)' => MayWrite(u)
                           /\ Copies(u) => Copies(u)'
                           /\ ReaderCopies(u) => ReaderCopies(u)'
    BY <1>2 DEF OwnsBit, MayWrite, Copies, ReaderCopies, At
  <1>9. BitInv'
    BY <1>5, <1>6, <1>8 DEF Inv, BitInv, Threads
  <1>10. CountInv'
    BY <1>4, <1>6 DEF Inv, CountInv
  <1> QED BY <1>7, <1>9, <1>10 DEF Inv

\* unparkAll, and the unparkOne of a reader, only move threads that sleep.
LEMMA WakeInv ==
  ASSUME Inv, NEW t \in Threads, TypeOK', pc[t] \in {"uUnparkAll", "ruUnparkOne"}, pc'[t] = "idle",
         current' = current, state'.eLocked = state.eLocked, state'.readers = state.readers,
         \A u \in Threads \ {t} : pc'[u] = pc[u] \/ pc'[u] = Resume(pc[u])
  PROVE  Inv'
  <1>1. TypeOK
    BY DEF Inv
  <1>2. \A u \in Threads \ {t} :
          \/ pc'[u] = pc[u]
          \/ pc[u] = "wParked" /\ pc'[u] = "wLoad"
          \/ pc[u] = "drainParked" /\ pc'[u] = "drainLoad"
          \/ pc[u] = "rParked" /\ pc'[u] = "rLoad"
    BY <1>1, ResumeLabel DEF TypeOK
  <1>3. \A u \in Threads : /\ OwnsBit(u)' <=> OwnsBit(u)
                           /\ MayWrite(u)' => MayWrite(u)
                           /\ MayRead(u)' <=> MayRead(u)
                           /\ Copies(u) => Copies(u)'
                           /\ ReaderCopies(u) => ReaderCopies(u)'
    BY <1>2 DEF OwnsBit, MayWrite, MayRead, Copies, ReaderCopies, At
  <1>4. BitInv'
    BY <1>3 DEF Inv, BitInv, Threads
  <1>5. CountInv'
    BY <1>1, <1>3, SameCount DEF Inv, Threads
  <1> QED BY <1>4, <1>5 DEF Inv

\* What unlock does to the word and the bucket.
LEMMA UnlockStep ==
  ASSUME Inv, NEW t \in Writers, UnlockUnparkOne(t) \/ UnlockClear(t)
  PROVE  Inv'
  <1> DEFINE E == [who : Threads, mask : {"eParked", "eDrain", "sParked"}]
  <1> USE DEF At, Goto
  <1>1. TypeOK /\ t \in Threads /\ state \in States /\ queue \in Seq(E)
    BY DEF Inv, TypeOK, Threads
  <1> HIDE DEF E
  <1>2. CASE UnlockClear(t)
    <2>1. current[t].eParked \in BOOLEAN
      BY <1>1, TypeParts DEF States
    <2>2. /\ state' \in States /\ state'.eLocked = (state.eLocked /\ current[t].eParked)
          /\ state'.readers = state.readers
      <3>1. PICK b \in BOOLEAN : b = current[t].eParked
        BY <2>1
      <3>2. state' = [state EXCEPT !.eParked = FALSE, !.sParked = FALSE, !.eLocked = @ /\ b]
        BY <1>2, <3>1 DEF UnlockClear
      <3> QED BY <1>1, <3>1, <3>2 DEF States
    <2>3. TypeOK'
      BY <1>1, <1>2, <2>2, TypeParts DEF UnlockClear, TypeOK, Labels
    <2>4. OwnsBit(t) <=> ~current[t].eParked
      BY <1>2 DEF UnlockClear, OwnsBit
    <2>5. /\ pc[t] = "uClear" /\ pc'[t] = "uUnparkAll"
          /\ \A u \in Threads \ {t} : pc'[u] = pc[u] /\ current'[u] = current[u]
      BY <1>1, <1>2 DEF UnlockClear, TypeOK
    <2>6. state'.eLocked = (state.eLocked /\ ~OwnsBit(t))
      BY <2>1, <2>2, <2>4
    <2> QED BY <2>2, <2>3, <2>5, <2>6, UnlockInv
  <1>3. CASE UnlockUnparkOne(t)
    <2>1. OwnsBit(t) /\ pc[t] = "uUnparkOne" /\ current[t].eParked
      BY <1>3 DEF UnlockUnparkOne, OwnsBit, Inv, BitInv, Copies
    <2>2. state' \in States /\ ~state'.eLocked /\ state'.readers = state.readers
      <3>1. state' = [state EXCEPT !.eLocked = FALSE]
            \/ state' = [state EXCEPT !.eLocked = FALSE, !.eParked = FALSE]
        BY <1>3 DEF UnlockUnparkOne
      <3> QED BY <1>1, <3>1 DEF States
    <2>3. state'.eLocked = (state.eLocked /\ ~OwnsBit(t))
      BY <1>1, <2>1, <2>2 DEF States
    <2>4. CASE \E i \in Oldest("eParked") :
                 WakeOne(t, i, "idle") /\ current' = [current EXCEPT ![t] = NoBits]
      <3>1. PICK i \in 1 .. Len(queue) :
                 WakeOne(t, i, "idle") /\ current' = [current EXCEPT ![t] = NoBits]
        BY <2>4 DEF Oldest
      <3>2. /\ queue' \in Seq([who : Threads, mask : {"eParked", "eDrain", "sParked"}])
            /\ pc' \in [Threads -> Labels]
            /\ pc'[t] = "idle"
            /\ \A u \in Threads \ {t} : /\ u = queue[i].who => pc'[u] = Resume(pc[u])
                                        /\ u # queue[i].who => pc'[u] = pc[u]
            /\ \A u \in Threads \ {t} :
                 /\ pc[u] \notin {"wParked", "drainParked", "rParked"} => pc'[u] = pc[u]
                 /\ pc'[u] = pc[u] \/ pc'[u] = Resume(pc[u])
         /\ \A u \in Threads \ {t} :
              /\ pc[u] \notin {"wParked", "drainParked", "rParked"} => pc'[u] = pc[u]
              /\ pc'[u] = pc[u] \/ pc'[u] = Resume(pc[u])
        <4>1. "idle" \in Labels \ {"wParked", "drainParked", "rParked"}
          BY DEF Labels
        <4>2. TypeOK
          BY <1>1
        <4>3. t \in Threads
          BY <1>1
        <4>4. WakeOne(t, i, "idle")
          BY <3>1
        <4> QED BY <4>1, <4>2, <4>3, <4>4, WakeOnePc
      <3>3. \A u \in Threads \ {t} :
              /\ pc[u] \notin {"wParked", "drainParked", "rParked"} => pc'[u] = pc[u]
              /\ pc'[u] = pc[u] \/ pc'[u] = Resume(pc[u])
        BY <3>2
      <3>4. TypeOK'
        BY <1>1, <1>3, <2>2, <3>1, <3>2, TypeParts DEF UnlockUnparkOne, TypeOK
      <3>5. \A u \in Threads \ {t} : current'[u] = current[u]
        BY <1>1, <3>1 DEF TypeOK
      <3> QED BY <2>1, <2>2, <2>3, <3>2, <3>3, <3>4, <3>5, UnlockInv
    <2>5. CASE Goto(t, "uClear") /\ UNCHANGED <<queue, current>>
      <3>1. TypeOK'
        BY <1>1, <1>3, <2>2, <2>5, TypeParts DEF UnlockUnparkOne, TypeOK, Labels
      <3>2. pc'[t] = "uClear" /\ \A u \in Threads \ {t} : pc'[u] = pc[u] /\ current'[u] = current[u]
        BY <1>1, <2>5 DEF TypeOK
      <3> QED BY <2>1, <2>2, <2>3, <2>5, <3>1, <3>2, UnlockInv
    <2> QED BY <1>3, <2>4, <2>5 DEF UnlockUnparkOne
  <1> QED BY <1>2, <1>3

\* The threads that unparkAll leaves in the bucket were there before, once each.
LEMMA KeepOnlyThins ==
  ASSUME NEW S, queue \in Seq(S), NEW masks
  PROVE  /\ KeepOnly(masks) \in Seq(S)
         /\ Thinned(KeepOnly(masks), queue)
         /\ \A k \in 1 .. Len(KeepOnly(masks)) : KeepOnly(masks)[k].mask \in masks
  <1> DEFINE n == Len(queue)
             kept == {i \in 1 .. Len(queue) : queue[i].mask \in masks}
             c == Cardinality(kept)
             f == [k \in 1 .. c |-> CHOOSE i \in kept : Cardinality({j \in kept : j <= i}) = k]
  <1>1. n \in Nat /\ \A k \in 1 .. n : queue[k] \in S
    BY LenProperties, ElementOfSeq
  <1>2. kept \in SUBSET (1 .. n)
    OBVIOUS
  <1>3. KeepOnly(masks) = [k \in 1 .. c |-> queue[f[k]]]
    BY DEF KeepOnly
  <1>4. \A i \in kept : i \in 1 .. n /\ queue[i].mask \in masks
    OBVIOUS
  <1> HIDE DEF kept, n
  <1>5. c \in Nat /\ f \in [1 .. c -> kept] /\ \A k, l \in 1 .. c : f[k] = f[l] => k = l
    BY <1>1, <1>2, KthPosition
  <1> HIDE DEF c, f
  <1>6. \A k \in 1 .. c : f[k] \in 1 .. n /\ queue[f[k]] \in S /\ queue[f[k]].mask \in masks
    BY <1>1, <1>4, <1>5
  <1>7. KeepOnly(masks) \in Seq(S) /\ Len(KeepOnly(masks)) = c
    BY <1>3, <1>5, <1>6, LenProperties DEF Seq
  <1>8. f \in [1 .. c -> 1 .. n]
    BY <1>5, <1>6
  <1>9. \A k \in 1 .. c : KeepOnly(masks)[k] = queue[f[k]]
    BY <1>3
  <1>10. Thinned(KeepOnly(masks), queue)
    BY <1>5, <1>7, <1>8, <1>9 DEF Thinned, n
  <1> QED BY <1>6, <1>7, <1>9, <1>10

LEMMA UnlockWonInv ==
  ASSUME Inv, NEW t \in Writers, CasStep(t, "uCas", NoBits, "idle")
  PROVE  Inv'
  <1>1. TypeOK /\ t \in Threads
    BY DEF Inv, Threads
  <1>2. state = OnlyLocked
    BY DEF Inv, BitInv, Copies, CasStep
  <1>3. OwnsBit(t) /\ pc[t] = "uCas"
    BY DEF CasStep, OwnsBit, At
  <1>4. /\ state' \in States /\ ~state'.eLocked /\ state'.readers = state.readers
        /\ state.readers = 0
    BY <1>2, NoBitsWord, OnlyLockedWord DEF CasStep
  <1>5. state'.eLocked = (state.eLocked /\ ~OwnsBit(t))
    BY <1>3, <1>4 DEF States
  <1>6. TypeOK'
    BY <1>1, <1>4, TypeParts DEF CasStep, TypeOK, Labels
  <1>7. pc'[t] = "idle" /\ \A u \in Threads \ {t} : pc'[u] = pc[u] /\ current'[u] = current[u]
    BY <1>1 DEF CasStep, TypeOK
  <1> QED BY <1>3, <1>4, <1>5, <1>6, <1>7, UnlockInv

LEMMA UnparkAllInv ==
  ASSUME Inv, NEW t \in Writers, UnlockUnparkAll(t)
  PROVE  Inv'
  <1> DEFINE E == [who : Threads, mask : {"eParked", "eDrain", "sParked"}]
  <1>1. TypeOK /\ t \in Threads /\ queue \in Seq(E) /\ pc \in [Threads -> Labels]
    BY DEF Inv, TypeOK, Threads
  <1> HIDE DEF E
  <1>2. queue' \in Seq(E)
    BY <1>1, KeepOnlyThins DEF UnlockUnparkAll
  <1>3. \A u \in Threads : Resume(pc[u]) \in Labels
    BY <1>1, ResumeLabel
  <1>4. pc' = [u \in Threads |->
                 IF u = t THEN "idle"
                 ELSE IF pc[u] \in {"wParked", "rParked"} THEN Resume(pc[u]) ELSE pc[u]]
    BY DEF UnlockUnparkAll
  <1>5. "idle" \in Labels
    BY DEF Labels
  <1>6. pc' \in [Threads -> Labels] /\ pc'[t] = "idle"
    BY <1>1, <1>3, <1>4, <1>5
  <1>7. \A u \in Threads \ {t} : pc'[u] = pc[u] \/ pc'[u] = Resume(pc[u])
    BY <1>4
  <1>8. TypeOK'
    BY <1>1, <1>2, <1>6 DEF TypeOK, UnlockUnparkAll, E
  <1> QED BY <1>1, <1>6, <1>7, <1>8, WakeInv DEF UnlockUnparkAll, At

LEMMA UnparkDrainedInv ==
  ASSUME Inv, NEW t \in Readers, UnlockSharedUnparkOne(t)
  PROVE  Inv'
  <1>1. TypeOK /\ t \in Threads /\ state \in States
    BY DEF Inv, TypeOK, Threads
  <1>2. /\ state' \in States /\ state'.eLocked = state.eLocked
        /\ state'.readers = state.readers
    BY <1>1 DEF UnlockSharedUnparkOne, States
  <1>3. CASE \E i \in Oldest("eDrain") : WakeOne(t, i, "idle")
    <2>1. PICK i \in 1 .. Len(queue) : WakeOne(t, i, "idle")
      BY <1>3 DEF Oldest
    <2>2. "idle" \in Labels \ {"wParked", "drainParked", "rParked"}
      BY DEF Labels
    <2>3. /\ queue' \in Seq([who : Threads, mask : {"eParked", "eDrain", "sParked"}])
          /\ pc' \in [Threads -> Labels] /\ pc'[t] = "idle"
          /\ \A u \in Threads \ {t} : pc'[u] = pc[u] \/ pc'[u] = Resume(pc[u])
      BY <1>1, <2>1, <2>2, WakeOnePc
    <2>4. TypeOK'
      BY <1>1, <1>2, <2>3 DEF TypeOK, UnlockSharedUnparkOne
    <2> QED BY <1>1, <1>2, <2>3, <2>4, WakeInv DEF UnlockSharedUnparkOne, At
  <1>4. CASE Goto(t, "idle") /\ UNCHANGED queue
    <2>1. TypeOK'
      BY <1>1, <1>2, <1>4, TypeParts DEF TypeOK, UnlockSharedUnparkOne, Goto, Labels
    <2>2. pc'[t] = "idle" /\ \A u \in Threads \ {t} : pc'[u] = pc[u]
      BY <1>1, <1>4 DEF Goto, TypeOK
    <2> QED BY <1>1, <1>2, <2>1, <2>2, WakeInv DEF UnlockSharedUnparkOne, At
  <1> QED BY <1>3, <1>4 DEF UnlockSharedUnparkOne

-----------------------------------------------------------------------------
LEMMA WriterInv ==
  ASSUME Inv, NEW t \in Writers, Lock(t) \/ WriterStep(t)
  PROVE  Inv'
  <1>1. t \in Threads /\ TypeOK /\ state \in States /\ TRUE \in BOOLEAN
    BY DEF Inv, TypeOK, Threads
  <1>2. CASE Lock(t)
    BY <1>1, <1>2, CallInv DEF Lock
  <1>3. CASE WriterLoad(t) \/ DrainLoad(t) \/ UnlockLoad(t)
    BY <1>1, <1>3, LoadInv
  <1>4. CASE WriterCas(t)
    BY <1>1, <1>4, CasCases, LockInv, CasLostInv DEF WriterCas
  <1>5. CASE WriterSetParked(t)
    <2>1. CASE CasStep(t, "wSetParked", [current[t] EXCEPT !.eParked = TRUE], "wValidate")
      <3>1. state = current[t]
        BY <2>1 DEF CasStep
      <3> DEFINE w == [current[t] EXCEPT !.eParked = TRUE]
      <3>2. w \in States /\ Same(w, state, {"eLocked", "readers"})
        BY <1>1, <3>1, MarkWords
      <3> HIDE DEF w
      <3>3. CasStep(t, "wSetParked", w, "wValidate")
        BY <2>1 DEF w
      <3> QED BY <1>1, <3>2, <3>3, MarkInv
    <2>2. CASE ~CasStep(t, "wSetParked", [current[t] EXCEPT !.eParked = TRUE], "wValidate")
      BY <1>1, <1>5, <2>2, CasCases, CasLostInv DEF WriterSetParked
    <2> QED BY <2>1, <2>2
  <1>6. CASE DrainCas(t)
    <2>1. CASE CasStep(t, "drainCas", [current[t] EXCEPT !.eDrain = TRUE], "drainValidate")
      <3>1. state = current[t]
        BY <2>1 DEF CasStep
      <3> DEFINE w == [current[t] EXCEPT !.eDrain = TRUE]
      <3>2. w \in States /\ Same(w, state, {"eLocked", "readers"})
        BY <1>1, <3>1, MarkWords
      <3> HIDE DEF w
      <3>3. CasStep(t, "drainCas", w, "drainValidate")
        BY <2>1 DEF w
      <3> QED BY <1>1, <3>2, <3>3, MarkInv
    <2>2. CASE ~CasStep(t, "drainCas", [current[t] EXCEPT !.eDrain = TRUE], "drainValidate")
      BY <1>1, <1>6, <2>2, CasCases, CasLostInv DEF DrainCas
    <2> QED BY <2>1, <2>2
  <1>7. CASE WriterPark(t) \/ DrainPark(t)
    BY <1>1, <1>7, ParkInv
  <1>8. CASE UnlockCas(t)
    BY <1>1, <1>8, CasCases, CasLostInv, UnlockWonInv DEF UnlockCas
  <1>9. CASE UnlockUnparkOne(t) \/ UnlockClear(t)
    BY <1>9, UnlockStep
  <1>10. CASE UnlockUnparkAll(t)
    BY <1>10, UnparkAllInv
  <1> QED BY <1>2, <1>3, <1>4, <1>5, <1>6, <1>7, <1>8, <1>9, <1>10 DEF WriterStep

LEMMA ReaderInv ==
  ASSUME Inv, NEW t \in Readers, LockShared(t) \/ ReaderStep(t)
  PROVE  Inv'
  <1>1. t \in Threads /\ TypeOK /\ state \in States
    BY DEF Inv, TypeOK, Threads
  <1>2. CASE LockShared(t)
    BY <1>1, <1>2, CallInv DEF LockShared
  <1>3. CASE ReaderLoad(t) \/ UnlockSharedLoad(t)
    BY <1>1, <1>3, LoadInv
  <1>4. CASE ReaderCas(t)
    BY <1>1, <1>4, CasCases, EnterInv, CasLostInv DEF ReaderCas
  <1>5. CASE ReaderSetParked(t)
    <2>1. CASE CasStep(t, "rSetParked", [current[t] EXCEPT !.sParked = TRUE], "rValidate")
      <3>1. state = current[t]
        BY <2>1 DEF CasStep
      <3> DEFINE w == [current[t] EXCEPT !.sParked = TRUE]
      <3>2. w \in States /\ Same(w, state, {"eLocked", "readers"})
        BY <1>1, <3>1, MarkWords
      <3> HIDE DEF w
      <3>3. CasStep(t, "rSetParked", w, "rValidate")
        BY <2>1 DEF w
      <3> QED BY <1>1, <3>2, <3>3, MarkInv
    <2>2. CASE ~CasStep(t, "rSetParked", [current[t] EXCEPT !.sParked = TRUE], "rValidate")
      BY <1>1, <1>5, <2>2, CasCases, CasLostInv DEF ReaderSetParked
    <2> QED BY <2>1, <2>2
  <1>6. CASE ReaderPark(t)
    BY <1>1, <1>6, ParkInv
  <1>7. CASE UnlockSharedCas(t)
    BY <1>1, <1>7, CasCases, CasLostInv, LeaveInv DEF UnlockSharedCas
  <1>8. CASE UnlockSharedUnparkOne(t)
    BY <1>8, UnparkDrainedInv
  <1> QED BY <1>2, <1>3, <1>4, <1>5, <1>6, <1>7, <1>8 DEF ReaderStep

LEMMA StepInv == Inv /\ [Next]_vars => Inv'
  <1> SUFFICES ASSUME Inv, [Next]_vars PROVE Inv'
    OBVIOUS
  <1>1. CASE UNCHANGED vars
    BY <1>1 DEF vars, Inv, TypeOK, BitInv, CountInv, In, OwnsBit, MayWrite, MayRead, Copies,
                ReaderCopies, At
  <1>2. CASE Done
    BY <1>1, <1>2 DEF Done
  <1>3. CASE \E t \in Writers : Lock(t) \/ WriterStep(t)
    BY <1>3, WriterInv
  <1>4. CASE \E t \in Readers : LockShared(t) \/ ReaderStep(t)
    BY <1>4, ReaderInv
  <1>5. CASE \E t \in Threads : TimeOut(t)
    BY <1>5, ParkInv
  <1> QED BY <1>1, <1>2, <1>3, <1>4, <1>5 DEF Next

LEMMA Invariance == Spec => []Inv
  BY InitInv, StepInv, PTL DEF Spec

\* Mutual exclusion: a writer that returned from lock is alone, and the word says
\* who is in, for every interleaving with parking, draining and late unlocks.
THEOREM MutualExclusion == Spec => []Exclusion
  <1>1. Inv => Exclusion
    <2> SUFFICES ASSUME Inv PROVE Exclusion
      OBVIOUS
    <2> DEFINE owners == {t \in Writers : OwnsBit(t)}
    <2>1. TypeOK /\ BitInv /\ CountInv
      BY DEF Inv
    <2>2. \A t \in Writers : MayWrite(t) => \A r \in Readers : ~MayRead(r)
      <3> SUFFICES ASSUME NEW t \in Writers, MayWrite(t) PROVE In = {}
        BY DEF In
      <3>1. Cardinality(In) = 0
        BY <2>1 DEF BitInv, CountInv
      <3> QED BY <3>1, InFinite, FS_EmptySet
    <2>3. Cardinality(owners) = IF state.eLocked THEN 1 ELSE 0
      <3>1. CASE state.eLocked
        <4>1. \E t \in Writers : owners = {t}
          BY <2>1, <3>1 DEF BitInv
        <4> QED BY <3>1, <4>1, FS_Singleton
      <3>2. CASE ~state.eLocked
        <4>1. owners = {}
          BY <2>1, <3>2 DEF BitInv
        <4> QED BY <3>2, <4>1, FS_EmptySet
      <3> QED BY <3>1, <3>2
    <2> QED BY <2>1, <2>2, <2>3 DEF Exclusion, CountInv, In
  <1> QED BY <1>1, Invariance, PTL

LEMMA ReadersOnlyLeave ==
  Inv /\ [Next]_vars => (state.eLocked => state'.readers <= state.readers)
  <1> SUFFICES ASSUME Inv, [Next]_vars, state.eLocked
               PROVE  state'.readers <= state.readers
    OBVIOUS
  <1> DEFINE Smaller == state'.readers = state.readers \/ state'.readers = state.readers - 1
  <1>1. TypeOK /\ state \in States /\ Cardinality(Readers) \in Nat
    BY InFinite DEF Inv, TypeOK
  <1>2. state.readers \in Nat /\ state.readers <= state.readers
    BY <1>1 DEF States
  <1>3. Smaller => state'.readers <= state.readers
    BY <1>2
  <1> SUFFICES Smaller
    BY <1>3
  <1> USE DEF Goto
  <1>4. CASE UNCHANGED vars \/ Done \/ \E t \in Threads : TimeOut(t)
    BY <1>4 DEF vars, Done, TimeOut
  <1>5. ASSUME NEW t \in Writers, Lock(t) \/ WriterStep(t) PROVE Smaller
    <2> USE <1>1, <1>5
    <2>1. CASE UNCHANGED state
      BY <2>1
    <2>2. CASE WriterCas(t) \/ WriterSetParked(t) \/ DrainCas(t)
      BY <2>2 DEF WriterCas, WriterSetParked, DrainCas, Cas, States
    <2>3. CASE UnlockCas(t)
      BY <2>3, NoBitsWord, OnlyLockedWord
      DEF UnlockCas, Cas, Inv, BitInv, Copies
    <2>4. CASE UnlockUnparkOne(t) \/ UnlockClear(t)
      BY <2>4 DEF UnlockUnparkOne, UnlockClear, States
    <2> QED
      BY <2>1, <2>2, <2>3, <2>4
      DEF WriterStep, Lock, Call, WriterLoad, WriterPark, DrainLoad, DrainPark, ParkIf,
          UnlockLoad, UnlockUnparkAll
  <1>6. ASSUME NEW t \in Readers, LockShared(t) \/ ReaderStep(t) PROVE Smaller
    <2> USE <1>1, <1>6
    <2>1. CASE UNCHANGED state
      BY <2>1
    <2>2. CASE ReaderCas(t)
      BY <2>1, <2>2, CasCases, EnterInv DEF ReaderCas
    <2>3. CASE ReaderSetParked(t) \/ UnlockSharedCas(t)
      BY <2>3 DEF ReaderSetParked, UnlockSharedCas, Cas, States
    <2>4. CASE UnlockSharedUnparkOne(t)
      BY <2>4 DEF UnlockSharedUnparkOne, States
    <2> QED
      BY <2>1, <2>2, <2>3, <2>4
      DEF ReaderStep, LockShared, Call, ReaderLoad, ReaderPark, ParkIf, UnlockSharedLoad
  <1> QED BY <1>4, <1>5, <1>6 DEF Next

\* Once a writer has the exclusive bit, no reader gets in any more.
THEOREM NoEntry == Spec => NoEntryWhileLocked
  <1>1. Inv /\ [Next]_vars => [state.eLocked => state'.readers <= state.readers]_vars
    BY ReadersOnlyLeave
  <1> QED BY <1>1, Invariance, PTL DEF Spec, NoEntryWhileLocked

-----------------------------------------------------------------------------
(* Wake-ups: who sleeps, and who will wake them. *)

Parked == {"wParked", "drainParked", "rParked"}

\* A writer with one of these labels finds the bit free and takes it, or finds
\* it taken by another owner.
Rescuers == {"wLoad", "wCas", "wSetParked", "wValidate"}

\* The bucket knows each sleeper once, under the mask of the call it sleeps in.
QueueKnown ==
  /\ \A i \in 1 .. Len(queue) :
       /\ queue[i].mask = "eParked" => queue[i].who \in Writers /\ pc[queue[i].who] = "wParked"
       /\ queue[i].mask = "eDrain" => queue[i].who \in Writers /\ pc[queue[i].who] = "drainParked"
       /\ queue[i].mask = "sParked" => queue[i].who \in Readers /\ pc[queue[i].who] = "rParked"
  /\ \A i, j \in 1 .. Len(queue) : queue[i].who = queue[j].who => i = j

\* With the promise to the sleepers: a bit is set for those that sleep, until
\* somebody is about to wake them all, and a bit that is set while nobody has the
\* lock comes with a writer that goes for it.
WakersKnown ==
  /\ NobodyForgotten
  /\ Sleeps("eParked") => state.eParked \/ AtSome({"uUnparkAll"})
  /\ Sleeps("sParked") => state.sParked \/ AtSome({"uUnparkAll"})
  /\ state.eParked => state.eLocked \/ AtSome(Rescuers)

SleepInv == QueueKnown /\ WakersKnown

LEMMA InitSleep == Init => SleepInv
  <1> SUFFICES ASSUME Init PROVE SleepInv
    OBVIOUS
  <1>1. Len(queue) = 0 /\ \A i \in 1 .. Len(queue) : FALSE
    BY EmptySeq DEF Init
  <1> HIDE DEF Init
  <1>2. QueueKnown /\ \A m : ~Sleeps(m)
    BY <1>1 DEF QueueKnown, Sleeps
  <1>3. ~state.eParked
    BY NoBitsWord DEF Init
  <1> QED BY <1>2, <1>3 DEF SleepInv, WakersKnown, NobodyForgotten

\* A step of t moves nobody else but sleepers.
OnlySleepers(t) ==
  \A u \in Threads \ {t} : pc[u] \notin Parked => pc'[u] = pc[u]

LEMMA Moves ==
  ASSUME NEW t \in Threads, OnlySleepers(t), NEW L, L \cap Parked = {}
  PROVE  /\ AtSome(L) => pc[t] \in L \/ AtSome(L)'
         /\ pc'[t] \in L => AtSome(L)'
  <1>1. \A u \in Threads \ {t} : pc[u] \in L => pc'[u] \in L
    BY DEF OnlySleepers
  <1> QED BY <1>1 DEF AtSome

\* What is left of the bucket is still known if those that are left still sleep.
LEMMA KnownStays ==
  ASSUME QueueKnown, Thinned(queue', queue),
         \A k \in 1 .. Len(queue') : pc'[queue'[k].who] = pc[queue'[k].who]
  PROVE  QueueKnown' /\ \A m : Sleeps(m)' => Sleeps(m)
  <1>1. PICK f \in [1 .. Len(queue') -> 1 .. Len(queue)] :
               /\ \A k \in 1 .. Len(queue') : queue'[k] = queue[f[k]]
               /\ \A k, l \in 1 .. Len(queue') : f[k] = f[l] => k = l
    BY DEF Thinned
  <1>2. \A k \in 1 .. Len(queue') : f[k] \in 1 .. Len(queue)
    BY <1>1
  <1>3. ASSUME NEW k \in 1 .. Len(queue')
        PROVE  /\ queue'[k].mask = "eParked" =>
                    queue'[k].who \in Writers /\ pc'[queue'[k].who] = "wParked"
               /\ queue'[k].mask = "eDrain" =>
                    queue'[k].who \in Writers /\ pc'[queue'[k].who] = "drainParked"
               /\ queue'[k].mask = "sParked" =>
                    queue'[k].who \in Readers /\ pc'[queue'[k].who] = "rParked"
    <2> DEFINE e == queue[f[k]]
    <2>1. queue'[k] = e /\ f[k] \in 1 .. Len(queue)
      BY <1>1, <1>2
    <2>2. /\ e.mask = "eParked" => e.who \in Writers /\ pc[e.who] = "wParked"
          /\ e.mask = "eDrain" => e.who \in Writers /\ pc[e.who] = "drainParked"
          /\ e.mask = "sParked" => e.who \in Readers /\ pc[e.who] = "rParked"
      BY <2>1 DEF QueueKnown
    <2> HIDE DEF e
    <2>3. pc'[e.who] = pc[e.who]
      BY <2>1
    <2> QED BY <2>1, <2>2, <2>3
  <1>4. ASSUME NEW k \in 1 .. Len(queue'), NEW l \in 1 .. Len(queue'),
               queue'[k].who = queue'[l].who
        PROVE  k = l
    <2>1. queue[f[k]].who = queue[f[l]].who
      BY <1>1, <1>4
    <2>2. f[k] = f[l]
      BY <1>2, <2>1 DEF QueueKnown
    <2> QED BY <1>1, <2>2
  <1>5. \A m : Sleeps(m)' => Sleeps(m)
    BY <1>1, <1>2 DEF Sleeps
  <1> QED BY <1>3, <1>4, <1>5 DEF QueueKnown

LEMMA ThinnedSame == ASSUME NEW q PROVE Thinned(q, q)
  <1> DEFINE f == [k \in 1 .. Len(q) |-> k]
  <1>1. /\ f \in [1 .. Len(q) -> 1 .. Len(q)]
        /\ \A k \in 1 .. Len(q) : q[k] = q[f[k]]
        /\ \A k, l \in 1 .. Len(q) : f[k] = f[l] => k = l
    OBVIOUS
  <1> QED BY <1>1 DEF Thinned

LEMMA Entries ==
  ASSUME TypeOK, QueueKnown, NEW i \in 1 .. Len(queue)
  PROVE  /\ queue \in Seq([who : Threads, mask : {"eParked", "eDrain", "sParked"}])
         /\ Len(queue) \in Nat
         /\ queue[i].who \in Threads /\ queue[i].mask \in {"eParked", "eDrain", "sParked"}
         /\ pc[queue[i].who] \in Parked
  <1> DEFINE E == [who : Threads, mask : {"eParked", "eDrain", "sParked"}]
  <1>1. queue \in Seq(E)
    BY DEF TypeOK
  <1> HIDE DEF E
  <1>2. queue[i] \in E /\ Len(queue) \in Nat
    BY <1>1, ElementOfSeq, LenProperties
  <1>3. queue[i].who \in Threads /\ queue[i].mask \in {"eParked", "eDrain", "sParked"}
    BY <1>2 DEF E
  <1> QED BY <1>1, <1>2, <1>3 DEF QueueKnown, Parked, E

\* Nobody goes to sleep and nobody is woken.
LEMMA KnownLocal ==
  ASSUME TypeOK, QueueKnown, NEW t \in Threads, queue' = queue, pc[t] \notin Parked,
         \A u \in Threads \ {t} : pc'[u] = pc[u]
  PROVE  QueueKnown' /\ (\A m : Sleeps(m)' => Sleeps(m)) /\ OnlySleepers(t)
  <1>1. \A k \in 1 .. Len(queue') : pc'[queue'[k].who] = pc[queue'[k].who]
    BY Entries
  <1>2. Thinned(queue', queue)
    BY ThinnedSame
  <1> QED BY <1>1, <1>2, KnownStays DEF OnlySleepers

LEMMA KnownAppended ==
  ASSUME TypeOK, QueueKnown, NEW t \in Threads, NEW m, NEW l, pc[t] \notin Parked,
         \/ t \in Writers /\ <<m, l>> \in {<<"eParked", "wParked">>, <<"eDrain", "drainParked">>}
         \/ t \in Readers /\ <<m, l>> = <<"sParked", "rParked">>,
         queue' = Append(queue, [who |-> t, mask |-> m]), pc' = [pc EXCEPT ![t] = l]
  PROVE  QueueKnown' /\ (\A k : Sleeps(k)' => Sleeps(k) \/ k = m) /\ OnlySleepers(t)
  <1> DEFINE n == Len(queue)
             E == [who : Threads, mask : {"eParked", "eDrain", "sParked"}]
             e == [who |-> t, mask |-> m]
  <1>1. queue \in Seq(E) /\ pc \in [Threads -> Labels]
    BY DEF TypeOK
  <1>2. e \in E /\ e.who = t /\ e.mask = m
    OBVIOUS
  <1> HIDE DEF E, e
  <1>3. n \in Nat /\ Len(queue') = n + 1 /\ queue'[n + 1] = e
        /\ \A k \in 1 .. n : queue'[k] = queue[k]
    BY <1>1, <1>2, AppendProperties, LenProperties DEF e
  <1>4. \A k \in 1 .. n : queue[k].who # t /\ pc'[queue[k].who] = pc[queue[k].who]
    BY <1>1, Entries
  <1>5. pc'[t] = l /\ \A u \in Threads \ {t} : pc'[u] = pc[u]
    BY <1>1
  <1> HIDE DEF n
  <1>6. \A k \in 1 .. Len(queue') : k \in 1 .. n \/ k = n + 1
    BY <1>3
  <1>7. ASSUME NEW k \in 1 .. Len(queue')
        PROVE  /\ queue'[k].mask = "eParked" =>
                    queue'[k].who \in Writers /\ pc'[queue'[k].who] = "wParked"
               /\ queue'[k].mask = "eDrain" =>
                    queue'[k].who \in Writers /\ pc'[queue'[k].who] = "drainParked"
               /\ queue'[k].mask = "sParked" =>
                    queue'[k].who \in Readers /\ pc'[queue'[k].who] = "rParked"
    <2>1. CASE k \in 1 .. n
      BY <1>3, <1>4, <2>1 DEF QueueKnown, n
    <2>2. CASE k = n + 1
      BY <1>2, <1>3, <1>5, <2>2
    <2> QED BY <1>6, <2>1, <2>2
  <1>8. ASSUME NEW j \in 1 .. Len(queue'), NEW k \in 1 .. Len(queue'),
               queue'[j].who = queue'[k].who
        PROVE  j = k
    <2>1. CASE j \in 1 .. n /\ k \in 1 .. n
      BY <1>3, <1>8, <2>1 DEF QueueKnown, n
    <2>2. CASE j = n + 1 \/ k = n + 1
      BY <1>2, <1>3, <1>4, <1>6, <1>8, <2>2
    <2> QED BY <1>6, <2>1, <2>2
  <1>9. \A k : Sleeps(k)' => Sleeps(k) \/ k = m
    BY <1>2, <1>3, <1>6 DEF Sleeps, n
  <1> QED BY <1>5, <1>7, <1>8, <1>9 DEF QueueKnown, OnlySleepers

\* The i-th sleeper is taken out and nobody else who sleeps is moved.
LEMMA KnownRemoved ==
  ASSUME TypeOK, QueueKnown, NEW i \in 1 .. Len(queue), queue' = RemoveAt(queue, i),
         \A u \in Threads \ {queue[i].who} : pc[u] \in Parked => pc'[u] = pc[u]
  PROVE  /\ QueueKnown' /\ \A m : Sleeps(m)' => Sleeps(m)
         /\ Len(queue') = Len(queue) - 1
         /\ \A k \in 1 .. Len(queue') : \E j \in (1 .. Len(queue)) \ {i} : queue'[k] = queue[j]
  <1> DEFINE E == [who : Threads, mask : {"eParked", "eDrain", "sParked"}]
             n == Len(queue)
  <1>1. queue \in Seq(E)
    BY DEF TypeOK
  <1> HIDE DEF E
  <1>2. Len(queue') = n - 1 /\ Thinned(queue', queue)
    BY <1>1, RemoveAtElements, RemoveAtThins
  <1>3. PICK f \in [1 .. n - 1 -> (1 .. n) \ {i}] : \A k \in 1 .. n - 1 : queue'[k] = queue[f[k]]
    <2>1. \E f \in [1 .. Len(queue) - 1 -> (1 .. Len(queue)) \ {i}] :
             /\ \A k \in 1 .. Len(queue) - 1 : RemoveAt(queue, i)[k] = queue[f[k]]
             /\ \A k, l \in 1 .. Len(queue) - 1 : f[k] = f[l] => k = l
      BY <1>1, RemoveAtThins, Zenon
    <2> QED BY <2>1, Zenon
  <1>4. \A k \in 1 .. n - 1 : f[k] \in 1 .. n /\ f[k] # i
    BY <1>3
  <1>5. \A k \in 1 .. Len(queue') : pc'[queue'[k].who] = pc[queue'[k].who]
    <2> SUFFICES ASSUME NEW k \in 1 .. n - 1
                 PROVE  pc'[queue[f[k]].who] = pc[queue[f[k]].who]
      BY <1>2, <1>3
    <2>1. f[k] \in 1 .. n /\ f[k] # i
      BY <1>4
    <2>2. queue[f[k]].who # queue[i].who
      BY <2>1 DEF QueueKnown
    <2> QED BY <2>1, <2>2, Entries
  <1>6. QueueKnown' /\ \A m : Sleeps(m)' => Sleeps(m)
    BY <1>2, <1>5, KnownStays
  <1> QED BY <1>2, <1>3, <1>4, <1>6

-----------------------------------------------------------------------------
(* The promise to the sleepers, step by step. *)

\* What a thread makes sure of before it goes to sleep under a mask.
Justified(m) ==
  /\ m = "eParked" => state.eLocked /\ state.eParked
  /\ m = "eDrain" => state.readers > 0 /\ state.eDrain
  /\ m = "sParked" => state.sParked /\ (state.eLocked \/ state.eParked)

\* Steps that clear no bit that others wait for, and end no duty to wake.
LEMMA PromiseKept ==
  ASSUME WakersKnown, NEW t \in Threads, OnlySleepers(t),
         state.eLocked => state'.eLocked, state.eParked => state'.eParked,
         state'.eParked => state.eParked \/ pc'[t] \in Rescuers,
         state.sParked => state'.sParked,
         state.readers > 0 /\ state.eDrain =>
           (state'.readers > 0 /\ state'.eDrain) \/ pc'[t] = "ruUnparkOne",
         pc[t] \notin {"ruUnparkOne", "uUnparkAll", "uClear"},
         pc[t] \in Rescuers => pc'[t] \in Rescuers \/ state'.eLocked,
         \A m \in {"eParked", "eDrain", "sParked"} : Sleeps(m)' => Sleeps(m) \/ Justified(m)'
  PROVE  WakersKnown'
  <1> DEFINE D == {"ruUnparkOne"}
             U == {"uUnparkAll"}
             B == {"uClear", "uUnparkAll", "wLoad", "wCas", "wSetParked", "wValidate"}
  <1>1. /\ AtSome(D) => AtSome(D)'
        /\ pc'[t] = "ruUnparkOne" => AtSome(D)'
        /\ AtSome(U) => AtSome(U)'
        /\ AtSome(B) => AtSome(B)' \/ state'.eLocked
        /\ AtSome(Rescuers) => AtSome(Rescuers)' \/ state'.eLocked
        /\ AtSome(Rescuers)' => AtSome(B)'
        /\ pc'[t] \in Rescuers => AtSome(Rescuers)'
    <2>1. D \cap Parked = {} /\ U \cap Parked = {} /\ B \cap Parked = {}
          /\ Rescuers \cap Parked = {} /\ Rescuers \subseteq B
      BY DEF Parked, Rescuers
    <2>2. AtSome(Rescuers)' => AtSome(B)'
      BY <2>1 DEF AtSome
    <2>3. pc[t] \notin D /\ pc[t] \notin U /\ (pc[t] \in B => pc[t] \in Rescuers)
          /\ (pc'[t] = "ruUnparkOne" => pc'[t] \in D) /\ (pc'[t] \in Rescuers => pc'[t] \in B)
      BY DEF Rescuers
    <2> HIDE DEF D, U, B
    <2> QED BY <2>1, <2>2, <2>3, Moves
  <1>2. /\ Sleeps("eDrain") => (state.readers > 0 /\ state.eDrain) \/ AtSome(D)
        /\ Sleeps("eParked") \/ Sleeps("sParked") => state.eLocked \/ AtSome(B)
        /\ Sleeps("eParked") => state.eParked \/ AtSome(U)
        /\ Sleeps("sParked") => state.sParked \/ AtSome(U)
        /\ state.eParked => state.eLocked \/ AtSome(Rescuers)
    BY DEF WakersKnown, NobodyForgotten
  <1>3. /\ Sleeps("eDrain")' => Sleeps("eDrain") \/ (state'.readers > 0 /\ state'.eDrain)
        /\ Sleeps("eParked")' => Sleeps("eParked") \/ (state'.eLocked /\ state'.eParked)
        /\ Sleeps("sParked")' =>
             Sleeps("sParked") \/ (state'.sParked /\ (state'.eLocked \/ state'.eParked))
    BY DEF Justified
  <1>4. /\ Sleeps("eDrain")' => (state'.readers > 0 /\ state'.eDrain) \/ AtSome(D)'
        /\ Sleeps("eParked")' \/ Sleeps("sParked")' => state'.eLocked \/ AtSome(B)'
        /\ Sleeps("eParked")' => state'.eParked \/ AtSome(U)'
        /\ Sleeps("sParked")' => state'.sParked \/ AtSome(U)'
        /\ state'.eParked => state'.eLocked \/ AtSome(Rescuers)'
    <2> HIDE DEF D, U, B
    <2> QED BY <1>1, <1>2, <1>3
  <1> QED BY <1>4 DEF WakersKnown, NobodyForgotten

\* The word grows by the bits in it, or nothing happens to it.
LEMMA GrowSleep ==
  ASSUME TypeOK, SleepInv, NEW t \in Threads, NEW l, queue' = queue,
         pc' = [pc EXCEPT ![t] = l],
         state.eLocked => state'.eLocked, state.eParked => state'.eParked,
         state'.eParked => state.eParked \/ l \in Rescuers,
         state.sParked => state'.sParked,
         state.readers > 0 /\ state.eDrain =>
           (state'.readers > 0 /\ state'.eDrain) \/ l = "ruUnparkOne",
         pc[t] \notin Parked \cup {"ruUnparkOne", "uUnparkAll", "uClear"},
         pc[t] \in Rescuers => l \in Rescuers \/ state'.eLocked
  PROVE  SleepInv'
  <1>1. pc'[t] = l /\ \A u \in Threads \ {t} : pc'[u] = pc[u]
    BY DEF TypeOK
  <1>2. QueueKnown' /\ (\A m : Sleeps(m)' => Sleeps(m)) /\ OnlySleepers(t)
    BY <1>1, KnownLocal DEF SleepInv
  <1>3. WakersKnown'
    BY <1>1, <1>2, PromiseKept DEF SleepInv
  <1> QED BY <1>2, <1>3 DEF SleepInv

LEMMA LoadSleep ==
  ASSUME TypeOK, SleepInv, NEW t \in Threads,
         \/ Lock(t) \/ LockShared(t)
         \/ WriterLoad(t) \/ DrainLoad(t) \/ UnlockLoad(t)
         \/ ReaderLoad(t) \/ UnlockSharedLoad(t)
  PROVE  SleepInv'
  <1> USE DEF At, Goto
  <1>1. UNCHANGED <<state, queue>> /\ pc[t] \notin Parked \cup {"ruUnparkOne", "uUnparkAll", "uClear"}
    BY DEF Lock, LockShared, Call, WriterLoad, WriterWait, DrainLoad, UnlockLoad, ReaderLoad,
           UnlockSharedLoad, Parked
  <1>2. \E l : pc' = [pc EXCEPT ![t] = l] /\ (pc[t] \in Rescuers => l \in Rescuers \/ state.eLocked)
    BY DEF Lock, LockShared, Call, WriterLoad, WriterWait, DrainLoad, UnlockLoad, ReaderLoad,
           UnlockSharedLoad, Rescuers
  <1> QED BY <1>1, <1>2, GrowSleep

\* A thread goes to sleep only when somebody is there to wake it.
LEMMA ParkSleep ==
  ASSUME TypeOK, SleepInv, NEW t \in Threads,
         \/ t \in Writers /\ (WriterPark(t) \/ DrainPark(t))
         \/ t \in Readers /\ ReaderPark(t)
  PROVE  SleepInv'
  <1> USE DEF At, Goto
  <1>1. /\ UNCHANGED state
        /\ pc[t] \notin Parked \cup {"ruUnparkOne", "uUnparkAll", "uClear"}
        /\ pc[t] \in Rescuers <=> pc[t] = "wValidate"
    BY DEF WriterPark, DrainPark, ReaderPark, ParkIf, Parked, Rescuers
  <1>2. CASE \E l : /\ queue' = queue /\ pc' = [pc EXCEPT ![t] = l]
                    /\ pc[t] \in Rescuers => l \in Rescuers
    BY <1>1, <1>2, GrowSleep
  <1>3. CASE \E m, l :
               /\ \/ t \in Writers /\ <<m, l>> \in {<<"eParked", "wParked">>, <<"eDrain", "drainParked">>}
                  \/ t \in Readers /\ <<m, l>> = <<"sParked", "rParked">>
               /\ queue' = Append(queue, [who |-> t, mask |-> m]) /\ pc' = [pc EXCEPT ![t] = l]
               /\ Justified(m) /\ (pc[t] \in Rescuers => state.eLocked)
    <2>1. PICK m, l :
               /\ \/ t \in Writers /\ <<m, l>> \in {<<"eParked", "wParked">>, <<"eDrain", "drainParked">>}
                  \/ t \in Readers /\ <<m, l>> = <<"sParked", "rParked">>
               /\ queue' = Append(queue, [who |-> t, mask |-> m]) /\ pc' = [pc EXCEPT ![t] = l]
               /\ Justified(m) /\ (pc[t] \in Rescuers => state.eLocked)
      BY <1>3
    <2>2. QueueKnown' /\ (\A k : Sleeps(k)' => Sleeps(k) \/ k = m) /\ OnlySleepers(t)
      BY <1>1, <2>1, KnownAppended DEF SleepInv
    <2>3. Justified(m)'
      BY <1>1, <2>1 DEF Justified
    <2>4. WakersKnown'
      BY <1>1, <2>1, <2>2, <2>3, PromiseKept DEF SleepInv
    <2> QED BY <2>2, <2>4 DEF SleepInv
  <1>4. CASE WriterPark(t) /\ t \in Writers
    BY <1>1, <1>2, <1>3, <1>4 DEF WriterPark, ParkIf, Justified, Rescuers
  <1>5. CASE DrainPark(t) /\ t \in Writers
    BY <1>1, <1>2, <1>3, <1>5 DEF DrainPark, ParkIf, Justified, Rescuers
  <1>6. CASE ReaderPark(t) /\ t \in Readers
    BY <1>1, <1>2, <1>3, <1>6 DEF ReaderPark, ParkIf, Justified, Rescuers
  <1> QED BY <1>4, <1>5, <1>6

LEMMA TimeOutSleep ==
  ASSUME TypeOK, SleepInv, NEW t \in Threads, TimeOut(t)
  PROVE  SleepInv'
  <1>1. PICK i \in 1 .. Len(queue) : queue[i].who = t /\ queue' = RemoveAt(queue, i)
    BY DEF TimeOut
  <1>2. /\ pc[t] \in {"wParked", "rParked"} /\ pc'[t] = "idle" /\ state' = state
        /\ \A u \in Threads \ {t} : pc'[u] = pc[u]
    BY DEF TimeOut, Goto, TypeOK
  <1>3. \A u \in Threads \ {queue[i].who} : pc[u] \in Parked => pc'[u] = pc[u]
    BY <1>1, <1>2
  <1>4. QueueKnown' /\ \A m : Sleeps(m)' => Sleeps(m)
    BY <1>1, <1>3, KnownRemoved DEF SleepInv
  <1>5. OnlySleepers(t) /\ pc[t] \notin Rescuers \cup {"ruUnparkOne", "uUnparkAll", "uClear"}
    BY <1>2 DEF OnlySleepers, Rescuers
  <1>6. WakersKnown'
    BY <1>2, <1>4, <1>5, PromiseKept DEF SleepInv
  <1> QED BY <1>4, <1>6 DEF SleepInv

LEMMA WonSleep ==
  ASSUME TypeOK, SleepInv, NEW t \in Threads, state \in States,
         \/ CasStep(t, "wCas", [current[t] EXCEPT !.eLocked = TRUE], "drainLoad")
         \/ CasStep(t, "wSetParked", [current[t] EXCEPT !.eParked = TRUE], "wValidate")
         \/ CasStep(t, "drainCas", [current[t] EXCEPT !.eDrain = TRUE], "drainValidate")
         \/ CasStep(t, "rCas", [current[t] EXCEPT !.readers = @ + 1], "reading")
         \/ CasStep(t, "rSetParked", [current[t] EXCEPT !.sParked = TRUE], "rValidate")
         \/ CasStep(t, "ruCas", [current[t] EXCEPT !.readers = @ - 1],
                    IF current[t].eDrain /\ current[t].readers = 1 THEN "ruUnparkOne" ELSE "idle")
  PROVE  SleepInv'
  <1> USE DEF CasStep, At
  <1>1. state.readers \in Nat
    BY InFinite DEF States
  <1>2. pc[t] \notin Parked \cup {"ruUnparkOne", "uUnparkAll", "uClear"}
    BY DEF Parked
  <1>3. CASE CasStep(t, "wCas", [current[t] EXCEPT !.eLocked = TRUE], "drainLoad")
    <2>1. state' = [state EXCEPT !.eLocked = TRUE]
      BY <1>3
    <2>2. /\ state'.eLocked /\ state'.eParked = state.eParked /\ state'.sParked = state.sParked
          /\ state'.eDrain = state.eDrain /\ state'.readers = state.readers
      BY <2>1 DEF States
    <2> QED BY <1>2, <1>3, <2>2, GrowSleep
  <1>4. CASE CasStep(t, "wSetParked", [current[t] EXCEPT !.eParked = TRUE], "wValidate")
    <2>1. state' = [state EXCEPT !.eParked = TRUE]
      BY <1>4
    <2>2. /\ state'.eLocked = state.eLocked /\ state'.eParked /\ state'.sParked = state.sParked
          /\ state'.eDrain = state.eDrain /\ state'.readers = state.readers
      BY <2>1 DEF States
    <2>3. "wValidate" \in Rescuers
      BY DEF Rescuers
    <2> QED BY <1>2, <1>4, <2>2, <2>3, GrowSleep
  <1>5. CASE CasStep(t, "drainCas", [current[t] EXCEPT !.eDrain = TRUE], "drainValidate")
    <2>1. state' = [state EXCEPT !.eDrain = TRUE]
      BY <1>5
    <2>2. /\ state'.eLocked = state.eLocked /\ state'.eParked = state.eParked
          /\ state'.sParked = state.sParked /\ state'.eDrain /\ state'.readers = state.readers
      BY <2>1 DEF States
    <2>3. pc[t] \notin Rescuers
      BY <1>5 DEF Rescuers
    <2> QED BY <1>2, <1>5, <2>2, <2>3, GrowSleep
  <1>6. CASE CasStep(t, "rCas", [current[t] EXCEPT !.readers = @ + 1], "reading")
    <2>1. state' = [state EXCEPT !.readers = @ + 1]
      BY <1>6
    <2>2. /\ state'.eLocked = state.eLocked /\ state'.eParked = state.eParked
          /\ state'.sParked = state.sParked /\ state'.eDrain = state.eDrain
          /\ state'.readers > 0
      BY <1>1, <2>1 DEF States
    <2>3. pc[t] \notin Rescuers
      BY <1>6 DEF Rescuers
    <2> QED BY <1>2, <1>6, <2>2, <2>3, GrowSleep
  <1>7. CASE CasStep(t, "rSetParked", [current[t] EXCEPT !.sParked = TRUE], "rValidate")
    <2>1. state' = [state EXCEPT !.sParked = TRUE]
      BY <1>7
    <2>2. /\ state'.eLocked = state.eLocked /\ state'.eParked = state.eParked
          /\ state'.sParked /\ state'.eDrain = state.eDrain /\ state'.readers = state.readers
      BY <2>1 DEF States
    <2>3. pc[t] \notin Rescuers
      BY <1>7 DEF Rescuers
    <2> QED BY <1>2, <1>7, <2>2, <2>3, GrowSleep
  <1>8. CASE CasStep(t, "ruCas", [current[t] EXCEPT !.readers = @ - 1],
                     IF current[t].eDrain /\ current[t].readers = 1 THEN "ruUnparkOne" ELSE "idle")
    <2> DEFINE l == IF state.eDrain /\ state.readers = 1 THEN "ruUnparkOne" ELSE "idle"
    <2>1. state' = [state EXCEPT !.readers = @ - 1] /\ pc' = [pc EXCEPT ![t] = l]
      BY <1>8
    <2>2. /\ state'.eLocked = state.eLocked /\ state'.eParked = state.eParked
          /\ state'.sParked = state.sParked /\ state'.eDrain = state.eDrain
          /\ state'.readers = state.readers - 1
      BY <2>1 DEF States
    <2>3. pc[t] \notin Rescuers /\ queue' = queue
      BY <1>8 DEF Rescuers
    <2>4. state.readers > 0 /\ state.eDrain => state'.readers > 0 \/ l = "ruUnparkOne"
      BY <1>1, <2>2
    <2> HIDE DEF l
    <2> QED BY <1>2, <2>1, <2>2, <2>3, <2>4, GrowSleep
  <1> QED BY <1>3, <1>4, <1>5, <1>6, <1>7, <1>8

\* unlock without anybody to wake: the word said that nobody sleeps.
LEMMA UnlockWonSleep ==
  ASSUME Inv, SleepInv, NEW t \in Writers, CasStep(t, "uCas", NoBits, "idle")
  PROVE  SleepInv'
  <1>1. TypeOK /\ t \in Threads /\ state = OnlyLocked /\ state' = NoBits
    BY DEF Inv, BitInv, Copies, CasStep, Threads
  <1>2. /\ pc[t] = "uCas" /\ queue' = queue
        /\ \A u \in Threads \ {t} : pc'[u] = pc[u]
    BY <1>1 DEF CasStep, At, TypeOK
  <1>3. QueueKnown' /\ (\A m : Sleeps(m)' => Sleeps(m)) /\ OnlySleepers(t)
    BY <1>1, <1>2, KnownLocal DEF SleepInv, Parked
  <1> DEFINE D == {"ruUnparkOne"}
             U == {"uUnparkAll"}
             B == {"uClear", "uUnparkAll", "wLoad", "wCas", "wSetParked", "wValidate"}
  <1>4. D \cap Parked = {} /\ U \cap Parked = {} /\ pc[t] \notin D \cup U
    BY <1>2 DEF Parked
  <1>5. AtSome(U)' => AtSome(B)'
    BY DEF AtSome
  <1>6. (AtSome(D) => AtSome(D)') /\ (AtSome(U) => AtSome(U)')
    <2> HIDE DEF D, U
    <2> QED BY <1>1, <1>3, <1>4, Moves
  <1>7. /\ Sleeps("eDrain") => AtSome(D)
        /\ Sleeps("eParked") => AtSome(U)
        /\ Sleeps("sParked") => AtSome(U)
    BY <1>1, OnlyLockedWord DEF SleepInv, WakersKnown, NobodyForgotten
  <1>8. ~state'.eParked
    BY <1>1, NoBitsWord
  <1> HIDE DEF D, U, B
  <1>9. /\ Sleeps("eDrain")' => AtSome(D)'
        /\ Sleeps("eParked")' \/ Sleeps("sParked")' => AtSome(U)' /\ AtSome(B)'
    BY <1>3, <1>5, <1>6, <1>7
  <1>10. WakersKnown'
    BY <1>8, <1>9 DEF WakersKnown, NobodyForgotten, D, U, B
  <1> QED BY <1>3, <1>10 DEF SleepInv

LEMMA ClearSleep ==
  ASSUME Inv, SleepInv, NEW t \in Writers, UnlockClear(t)
  PROVE  SleepInv'
  <1>1. TypeOK /\ t \in Threads /\ state \in States
    BY DEF Inv, TypeOK, Threads
  <1>2. /\ pc[t] = "uClear" /\ queue' = queue /\ pc'[t] = "uUnparkAll"
        /\ \A u \in Threads \ {t} : pc'[u] = pc[u]
    BY <1>1 DEF UnlockClear, At, Goto, TypeOK
  <1>3. QueueKnown' /\ (\A m : Sleeps(m)' => Sleeps(m)) /\ OnlySleepers(t)
    BY <1>1, <1>2, KnownLocal DEF SleepInv, Parked
  <1>4. /\ ~state'.eParked /\ state'.eDrain = state.eDrain
        /\ state'.readers = state.readers
    BY <1>1 DEF UnlockClear, States
  <1> DEFINE D == {"ruUnparkOne"}
             U == {"uUnparkAll"}
             B == {"uClear", "uUnparkAll", "wLoad", "wCas", "wSetParked", "wValidate"}
  <1>5. D \cap Parked = {} /\ pc[t] \notin D
    BY <1>2 DEF Parked
  <1>6. AtSome(U)' /\ AtSome(B)'
    BY <1>1, <1>2 DEF AtSome
  <1>7. AtSome(D) => AtSome(D)'
    <2> HIDE DEF D
    <2> QED BY <1>1, <1>3, <1>5, Moves
  <1>8. Sleeps("eDrain") => (state.readers > 0 /\ state.eDrain) \/ AtSome(D)
    BY DEF SleepInv, WakersKnown, NobodyForgotten
  <1> HIDE DEF D, U, B
  <1>9. Sleeps("eDrain")' => (state'.readers > 0 /\ state'.eDrain) \/ AtSome(D)'
    BY <1>3, <1>4, <1>7, <1>8
  <1>10. WakersKnown'
    BY <1>4, <1>6, <1>9 DEF WakersKnown, NobodyForgotten, D, U, B
  <1> QED BY <1>3, <1>10 DEF SleepInv

\* unparkOne finds a sleeper of its mask if there is one.
LEMMA OldestFound ==
  ASSUME TypeOK, NEW m, Oldest(m) = {}
  PROVE  ~Sleeps(m)
  <1> DEFINE P == {i \in 1 .. Len(queue) : queue[i].mask = m}
  <1>1. Len(queue) \in Nat
    BY LenProperties DEF TypeOK
  <1> SUFFICES ASSUME P # {} PROVE FALSE
    BY DEF Sleeps
  <1>2. P \subseteq Nat
    BY <1>1
  <1>3. PICK i \in P : \A j \in P : i <= j
    BY <1>2, Least
  <1>4. \A k \in 1 .. i - 1 : queue[k].mask # m
    BY <1>1, <1>3
  <1> QED BY <1>3, <1>4 DEF Oldest

\* What one wake-up does to the bucket.
LEMMA KnownWoken ==
  ASSUME TypeOK, QueueKnown, NEW t \in Threads, NEW i \in 1 .. Len(queue),
         pc[t] \notin Parked, WakeOne(t, i, "idle")
  PROVE  /\ QueueKnown' /\ (\A m : Sleeps(m)' => Sleeps(m)) /\ OnlySleepers(t)
         /\ Len(queue') = Len(queue) - 1
         /\ \A k \in 1 .. Len(queue') : \E j \in (1 .. Len(queue)) \ {i} : queue'[k] = queue[j]
         /\ queue[i].who \in Threads \ {t} /\ pc'[queue[i].who] = Resume(pc[queue[i].who])
  <1>1. "idle" \in Labels \ {"wParked", "drainParked", "rParked"}
    BY DEF Labels
  <1>2. /\ \A u \in Threads \ {t} : /\ u = queue[i].who => pc'[u] = Resume(pc[u])
                                    /\ u # queue[i].who => pc'[u] = pc[u]
        /\ \A u \in Threads \ {t} :
             pc[u] \notin {"wParked", "drainParked", "rParked"} => pc'[u] = pc[u]
    BY <1>1, WakeOnePc
  <1>3. queue[i].who \in Threads \ {t}
    BY Entries
  <1>4. \A u \in Threads \ {queue[i].who} : pc[u] \in Parked => pc'[u] = pc[u]
    BY <1>2
  <1>5. queue' = RemoveAt(queue, i)
    BY DEF WakeOne
  <1>6. /\ QueueKnown' /\ (\A m : Sleeps(m)' => Sleeps(m))
        /\ Len(queue') = Len(queue) - 1
        /\ \A k \in 1 .. Len(queue') : \E j \in (1 .. Len(queue)) \ {i} : queue'[k] = queue[j]
    BY <1>4, <1>5, KnownRemoved
  <1>7. OnlySleepers(t) /\ pc'[queue[i].who] = Resume(pc[queue[i].who])
    <2>1. OnlySleepers(t)
      BY <1>2 DEF OnlySleepers, Parked
    <2> QED BY <1>2, <1>3, <2>1
  <1> QED BY <1>3, <1>6, <1>7

LEMMA UnparkOneSleep ==
  ASSUME Inv, SleepInv, NEW t \in Writers, UnlockUnparkOne(t)
  PROVE  SleepInv'
  <1>1. TypeOK /\ t \in Threads /\ state \in States /\ pc[t] = "uUnparkOne" /\ pc[t] \notin Parked
    BY DEF Inv, TypeOK, Threads, UnlockUnparkOne, At, Parked
  <1> DEFINE D == {"ruUnparkOne"}
             U == {"uUnparkAll"}
             B == {"uClear", "uUnparkAll", "wLoad", "wCas", "wSetParked", "wValidate"}
  <1>2. D \cap Parked = {} /\ U \cap Parked = {} /\ pc[t] \notin D \cup U
    BY <1>1 DEF Parked
  <1>3. OnlySleepers(t) => (AtSome(D) => AtSome(D)') /\ (AtSome(U) => AtSome(U)')
    <2> HIDE DEF D, U
    <2> QED BY <1>1, <1>2, Moves
  <1>4. /\ Sleeps("eDrain") => (state.readers > 0 /\ state.eDrain) \/ AtSome(D)
        /\ Sleeps("eParked") => state.eParked \/ AtSome(U)
        /\ Sleeps("sParked") => state.sParked \/ AtSome(U)
    BY DEF SleepInv, WakersKnown, NobodyForgotten
  <1>5. /\ state'.eDrain = state.eDrain /\ state'.readers = state.readers
        /\ state'.sParked = state.sParked
    BY <1>1 DEF UnlockUnparkOne, States
  <1>6. CASE \E i \in Oldest("eParked") :
               /\ state' \in {[state EXCEPT !.eLocked = FALSE]} \cup
                             IF Len(queue) > 1 THEN {}
                             ELSE {[state EXCEPT !.eLocked = FALSE, !.eParked = FALSE]}
               /\ WakeOne(t, i, "idle")
    <2>1. PICK i \in 1 .. Len(queue) :
             /\ queue[i].mask = "eParked" /\ WakeOne(t, i, "idle")
             /\ \/ state' = [state EXCEPT !.eLocked = FALSE]
                \/ /\ ~(Len(queue) > 1)
                   /\ state' = [state EXCEPT !.eLocked = FALSE, !.eParked = FALSE]
      BY <1>6 DEF Oldest
    <2>2. /\ QueueKnown' /\ (\A m : Sleeps(m)' => Sleeps(m)) /\ OnlySleepers(t)
          /\ Len(queue') = Len(queue) - 1
          /\ queue[i].who \in Threads \ {t} /\ pc'[queue[i].who] = Resume(pc[queue[i].who])
      BY <1>1, <2>1, KnownWoken DEF SleepInv
    <2>3. pc'[queue[i].who] = "wLoad"
      <3>1. pc[queue[i].who] = "wParked"
        BY <2>1 DEF SleepInv, QueueKnown
      <3> QED BY <2>2, <3>1 DEF Resume
    <2>4. AtSome(Rescuers)' /\ AtSome(B)'
      BY <2>2, <2>3 DEF AtSome, Rescuers
    <2>5. Sleeps("eParked")' => state'.eParked = state.eParked
      <3>1. CASE state' = [state EXCEPT !.eLocked = FALSE]
        BY <1>1, <3>1 DEF States
      <3>2. CASE ~(Len(queue) > 1)
        <4>1. Len(queue) \in Nat
          BY <1>1, LenProperties DEF TypeOK
        <4>2. ~Sleeps("eParked")'
          BY <2>2, <3>2, <4>1 DEF Sleeps
        <4> QED BY <4>2
      <3> QED BY <2>1, <3>1, <3>2
    <2> HIDE DEF D, U, B
    <2>6. /\ Sleeps("eDrain")' => (state'.readers > 0 /\ state'.eDrain) \/ AtSome(D)'
          /\ Sleeps("eParked")' => state'.eParked \/ AtSome(U)'
          /\ Sleeps("sParked")' => state'.sParked \/ AtSome(U)'
      BY <1>3, <1>4, <1>5, <2>2, <2>5
    <2>7. WakersKnown'
      BY <2>4, <2>6 DEF WakersKnown, NobodyForgotten, D, U, B
    <2> QED BY <2>2, <2>7 DEF SleepInv
  <1>7. CASE /\ Oldest("eParked") = {} /\ Goto(t, "uClear") /\ queue' = queue
             /\ state' = [state EXCEPT !.eLocked = FALSE, !.eParked = FALSE]
    <2>1. pc'[t] = "uClear" /\ \A u \in Threads \ {t} : pc'[u] = pc[u]
      BY <1>1, <1>7 DEF Goto, TypeOK
    <2>2. QueueKnown' /\ (\A m : Sleeps(m)' => Sleeps(m)) /\ OnlySleepers(t)
      BY <1>1, <1>7, <2>1, KnownLocal DEF SleepInv
    <2>3. ~Sleeps("eParked")
      BY <1>1, <1>7, OldestFound
    <2>4. ~state'.eParked
      BY <1>1, <1>7 DEF States
    <2>5. AtSome(B)'
      BY <1>1, <2>1 DEF AtSome
    <2> HIDE DEF D, U, B
    <2>6. /\ Sleeps("eDrain")' => (state'.readers > 0 /\ state'.eDrain) \/ AtSome(D)'
          /\ ~Sleeps("eParked")'
          /\ Sleeps("sParked")' => state'.sParked \/ AtSome(U)'
      BY <1>3, <1>4, <1>5, <2>2, <2>3
    <2>7. WakersKnown'
      BY <2>4, <2>5, <2>6 DEF WakersKnown, NobodyForgotten, D, U, B
    <2> QED BY <2>2, <2>7 DEF SleepInv
  <1> QED BY <1>6, <1>7 DEF UnlockUnparkOne

LEMMA UnparkAllSleep ==
  ASSUME Inv, SleepInv, NEW t \in Writers, UnlockUnparkAll(t)
  PROVE  SleepInv'
  <1> DEFINE E == [who : Threads, mask : {"eParked", "eDrain", "sParked"}]
             D == {"ruUnparkOne"}
  <1>1. TypeOK /\ t \in Threads /\ pc[t] = "uUnparkAll" /\ queue \in Seq(E) /\ state' = state
        /\ pc \in [Threads -> Labels]
    BY DEF Inv, TypeOK, Threads, UnlockUnparkAll, At
  <1> HIDE DEF E
  <1>2. \A u \in Threads \ {t} :
          pc'[u] = IF pc[u] \in {"wParked", "rParked"} THEN Resume(pc[u]) ELSE pc[u]
    BY DEF UnlockUnparkAll
  <1>3. Thinned(queue', queue) /\ \A k \in 1 .. Len(queue') : queue'[k].mask = "eDrain"
    BY <1>1, KeepOnlyThins DEF UnlockUnparkAll
  <1>4. \A k \in 1 .. Len(queue') : pc'[queue'[k].who] = pc[queue'[k].who]
    <2> SUFFICES ASSUME NEW k \in 1 .. Len(queue')
                 PROVE  pc'[queue'[k].who] = pc[queue'[k].who]
      OBVIOUS
    <2>1. PICK j \in 1 .. Len(queue) : queue'[k] = queue[j]
      BY <1>3 DEF Thinned
    <2>2. pc[queue[j].who] = "drainParked" /\ queue[j].who \in Threads
      BY <1>1, <1>3, <2>1, Entries DEF SleepInv, QueueKnown
    <2> QED BY <1>1, <1>2, <2>1, <2>2
  <1>5. QueueKnown' /\ \A m : Sleeps(m)' => Sleeps(m)
    BY <1>3, <1>4, KnownStays DEF SleepInv
  <1>6. ~Sleeps("eParked")' /\ ~Sleeps("sParked")'
    BY <1>3 DEF Sleeps
  <1>7. OnlySleepers(t)
    BY <1>2 DEF OnlySleepers, Parked
  <1>8. (AtSome(D) => AtSome(D)') /\ (AtSome(Rescuers) => AtSome(Rescuers)')
    <2>1. D \cap Parked = {} /\ Rescuers \cap Parked = {} /\ pc[t] \notin D \cup Rescuers
      BY <1>1 DEF Parked, Rescuers
    <2> HIDE DEF D
    <2> QED BY <1>1, <1>7, <2>1, Moves
  <1>9. /\ Sleeps("eDrain") => (state.readers > 0 /\ state.eDrain) \/ AtSome(D)
        /\ state.eParked => state.eLocked \/ AtSome(Rescuers)
    BY DEF SleepInv, WakersKnown, NobodyForgotten
  <1> HIDE DEF D
  <1>10. /\ Sleeps("eDrain")' => (state'.readers > 0 /\ state'.eDrain) \/ AtSome(D)'
         /\ state'.eParked => state'.eLocked \/ AtSome(Rescuers)'
    BY <1>1, <1>5, <1>8, <1>9
  <1>11. WakersKnown'
    BY <1>6, <1>10 DEF WakersKnown, NobodyForgotten, D
  <1> QED BY <1>5, <1>11 DEF SleepInv

\* The last reader out wakes the one writer that drains.
LEMMA UnparkDrainedSleep ==
  ASSUME Inv, SleepInv, NEW t \in Readers, UnlockSharedUnparkOne(t)
  PROVE  SleepInv'
  <1>1. /\ TypeOK /\ t \in Threads /\ state \in States /\ pc[t] = "ruUnparkOne"
        /\ pc[t] \notin Parked
    BY DEF Inv, TypeOK, Threads, UnlockSharedUnparkOne, At, Parked
  <1>2. /\ state'.eLocked = state.eLocked /\ state'.eParked = state.eParked
        /\ state'.sParked = state.sParked
    BY <1>1 DEF UnlockSharedUnparkOne, States
  <1> DEFINE U == {"uUnparkAll"}
             B == {"uClear", "uUnparkAll", "wLoad", "wCas", "wSetParked", "wValidate"}
  <1>3. OnlySleepers(t) => /\ AtSome(U) => AtSome(U)'
                           /\ AtSome(B) => AtSome(B)'
                           /\ AtSome(Rescuers) => AtSome(Rescuers)'
    <2>1. /\ U \cap Parked = {} /\ B \cap Parked = {} /\ Rescuers \cap Parked = {}
          /\ pc[t] \notin U \cup B \cup Rescuers
      BY <1>1 DEF Parked, Rescuers
    <2> HIDE DEF U, B
    <2> QED BY <1>1, <2>1, Moves
  <1>4. /\ Sleeps("eParked") \/ Sleeps("sParked") => state.eLocked \/ AtSome(B)
        /\ Sleeps("eParked") => state.eParked \/ AtSome(U)
        /\ Sleeps("sParked") => state.sParked \/ AtSome(U)
        /\ state.eParked => state.eLocked \/ AtSome(Rescuers)
    BY DEF SleepInv, WakersKnown, NobodyForgotten
  <1>5. ASSUME QueueKnown', \A m : Sleeps(m)' => Sleeps(m), OnlySleepers(t),
               ~Sleeps("eDrain")'
        PROVE  SleepInv'
    <2> HIDE DEF U, B
    <2>1. /\ Sleeps("eParked")' \/ Sleeps("sParked")' => state'.eLocked \/ AtSome(B)'
          /\ Sleeps("eParked")' => state'.eParked \/ AtSome(U)'
          /\ Sleeps("sParked")' => state'.sParked \/ AtSome(U)'
          /\ state'.eParked => state'.eLocked \/ AtSome(Rescuers)'
      BY <1>2, <1>3, <1>4, <1>5
    <2>2. WakersKnown'
      BY <1>5, <2>1 DEF WakersKnown, NobodyForgotten, U, B
    <2> QED BY <1>5, <2>2 DEF SleepInv
  <1>6. CASE \E i \in Oldest("eDrain") : WakeOne(t, i, "idle")
    <2>1. PICK i \in 1 .. Len(queue) : queue[i].mask = "eDrain" /\ WakeOne(t, i, "idle")
      BY <1>6 DEF Oldest
    <2>2. /\ QueueKnown' /\ (\A m : Sleeps(m)' => Sleeps(m)) /\ OnlySleepers(t)
          /\ \A k \in 1 .. Len(queue') : \E j \in (1 .. Len(queue)) \ {i} : queue'[k] = queue[j]
      BY <1>1, <2>1, KnownWoken DEF SleepInv
    <2>3. \A j \in 1 .. Len(queue) : queue[j].mask = "eDrain" => j = i
      <3> SUFFICES ASSUME NEW j \in 1 .. Len(queue), queue[j].mask = "eDrain"
                   PROVE  j = i
        OBVIOUS
      <3>1. /\ queue[i].who \in Writers /\ pc[queue[i].who] = "drainParked"
            /\ queue[j].who \in Writers /\ pc[queue[j].who] = "drainParked"
        BY <2>1 DEF SleepInv, QueueKnown
      <3>2. OwnsBit(queue[i].who) /\ OwnsBit(queue[j].who)
        BY <3>1 DEF OwnsBit
      <3>3. queue[i].who = queue[j].who
        BY <3>1, <3>2 DEF Inv, BitInv
      <3> QED BY <3>3 DEF SleepInv, QueueKnown
    <2>4. ~Sleeps("eDrain")'
      BY <2>2, <2>3 DEF Sleeps
    <2> QED BY <1>5, <2>2, <2>4
  <1>7. CASE Oldest("eDrain") = {} /\ Goto(t, "idle") /\ queue' = queue
    <2>1. \A u \in Threads \ {t} : pc'[u] = pc[u]
      BY <1>1, <1>7 DEF Goto, TypeOK
    <2>2. QueueKnown' /\ (\A m : Sleeps(m)' => Sleeps(m)) /\ OnlySleepers(t)
      BY <1>1, <1>7, <2>1, KnownLocal DEF SleepInv
    <2>3. ~Sleeps("eDrain")'
      BY <1>1, <1>7, <2>2, OldestFound
    <2> QED BY <1>5, <2>2, <2>3
  <1> QED BY <1>6, <1>7 DEF UnlockSharedUnparkOne

LEMMA StepSleep == Inv /\ SleepInv /\ [Next]_vars => SleepInv'
  <1> SUFFICES ASSUME Inv, SleepInv, [Next]_vars PROVE SleepInv'
    OBVIOUS
  <1>1. TypeOK /\ state \in States
    BY DEF Inv, TypeOK
  <1>2. CASE UNCHANGED vars
    BY <1>2 DEF vars, SleepInv, QueueKnown, WakersKnown, NobodyForgotten, Sleeps, AtSome
  <1>3. CASE Done
    BY <1>2, <1>3 DEF Done
  <1>4. ASSUME NEW t \in Writers, Lock(t) \/ WriterStep(t) PROVE SleepInv'
    <2> USE <1>1
    <2>1. t \in Threads
      BY DEF Threads
    <2>2. CASE Lock(t) \/ WriterLoad(t) \/ DrainLoad(t) \/ UnlockLoad(t)
      BY <2>1, <2>2, LoadSleep
    <2>3. CASE WriterCas(t)
      <3>1. CASE CasStep(t, "wCas", [current[t] EXCEPT !.eLocked = TRUE], "drainLoad")
        BY <2>1, <3>1, WonSleep
      <3>2. CASE At(t, "wCas") /\ state' = state /\ queue' = queue
                 /\ pc' = [pc EXCEPT ![t] = "wLoad"]
        BY <2>1, <3>2, GrowSleep DEF At, Parked, Rescuers
      <3> QED BY <2>3, <3>1, <3>2, CasCases DEF WriterCas
    <2>4. CASE WriterSetParked(t)
      <3>1. CASE CasStep(t, "wSetParked", [current[t] EXCEPT !.eParked = TRUE], "wValidate")
        BY <2>1, <3>1, WonSleep
      <3>2. CASE At(t, "wSetParked") /\ state' = state /\ queue' = queue
                 /\ pc' = [pc EXCEPT ![t] = "wLoad"]
        BY <2>1, <3>2, GrowSleep DEF At, Parked, Rescuers
      <3> QED BY <2>4, <3>1, <3>2, CasCases DEF WriterSetParked
    <2>5. CASE DrainCas(t)
      <3>1. CASE CasStep(t, "drainCas", [current[t] EXCEPT !.eDrain = TRUE], "drainValidate")
        BY <2>1, <3>1, WonSleep
      <3>2. CASE At(t, "drainCas") /\ state' = state /\ queue' = queue
                 /\ pc' = [pc EXCEPT ![t] = "drainLoad"]
        BY <2>1, <3>2, GrowSleep DEF At, Parked, Rescuers
      <3> QED BY <2>5, <3>1, <3>2, CasCases DEF DrainCas
    <2>6. CASE WriterPark(t) \/ DrainPark(t)
      BY <2>1, <2>6, ParkSleep
    <2>7. CASE UnlockCas(t)
      <3>1. CASE CasStep(t, "uCas", NoBits, "idle")
        BY <3>1, UnlockWonSleep
      <3>2. CASE At(t, "uCas") /\ state' = state /\ queue' = queue
                 /\ pc' = [pc EXCEPT ![t] = "uLoad"]
        BY <2>1, <3>2, GrowSleep DEF At, Parked, Rescuers
      <3> QED BY <2>7, <3>1, <3>2, CasCases DEF UnlockCas
    <2>8. CASE UnlockUnparkOne(t)
      BY <2>8, UnparkOneSleep
    <2>9. CASE UnlockClear(t)
      BY <2>9, ClearSleep
    <2>10. CASE UnlockUnparkAll(t)
      BY <2>10, UnparkAllSleep
    <2> QED BY <1>4, <2>2, <2>3, <2>4, <2>5, <2>6, <2>7, <2>8, <2>9, <2>10 DEF WriterStep
  <1>5. ASSUME NEW t \in Readers, LockShared(t) \/ ReaderStep(t) PROVE SleepInv'
    <2> USE <1>1
    <2>1. t \in Threads
      BY DEF Threads
    <2>2. CASE LockShared(t) \/ ReaderLoad(t) \/ UnlockSharedLoad(t)
      BY <2>1, <2>2, LoadSleep
    <2>3. CASE ReaderCas(t)
      <3>1. CASE CasStep(t, "rCas", [current[t] EXCEPT !.readers = @ + 1], "reading")
        BY <2>1, <3>1, WonSleep
      <3>2. CASE At(t, "rCas") /\ state' = state /\ queue' = queue
                 /\ pc' = [pc EXCEPT ![t] = "rLoad"]
        BY <2>1, <3>2, GrowSleep DEF At, Parked, Rescuers
      <3> QED BY <2>3, <3>1, <3>2, CasCases DEF ReaderCas
    <2>4. CASE ReaderSetParked(t)
      <3>1. CASE CasStep(t, "rSetParked", [current[t] EXCEPT !.sParked = TRUE], "rValidate")
        BY <2>1, <3>1, WonSleep
      <3>2. CASE At(t, "rSetParked") /\ state' = state /\ queue' = queue
                 /\ pc' = [pc EXCEPT ![t] = "rLoad"]
        BY <2>1, <3>2, GrowSleep DEF At, Parked, Rescuers
      <3> QED BY <2>4, <3>1, <3>2, CasCases DEF ReaderSetParked
    <2>5. CASE ReaderPark(t)
      BY <2>1, <2>5, ParkSleep
    <2>6. CASE UnlockSharedCas(t)
      <3>1. CASE CasStep(t, "ruCas", [current[t] EXCEPT !.readers = @ - 1],
                           IF current[t].eDrain /\ current[t].readers = 1 THEN "ruUnparkOne" ELSE "idle")
        BY <2>1, <3>1, WonSleep
      <3>2. CASE At(t, "ruCas") /\ state' = state /\ queue' = queue
                 /\ pc' = [pc EXCEPT ![t] = "ruLoad"]
        BY <2>1, <3>2, GrowSleep DEF At, Parked, Rescuers
      <3> QED BY <2>6, <3>1, <3>2, CasCases DEF UnlockSharedCas
    <2>7. CASE UnlockSharedUnparkOne(t)
      BY <2>7, UnparkDrainedSleep
    <2> QED BY <1>5, <2>2, <2>3, <2>4, <2>5, <2>6, <2>7 DEF ReaderStep
  <1>6. CASE \E t \in Threads : TimeOut(t)
    BY <1>1, <1>6, TimeOutSleep
  <1> QED BY <1>2, <1>3, <1>4, <1>5, <1>6 DEF Next

\* Nobody sleeps without somebody who will wake them, whatever the order in which
\* threads park, drain, time out and unlock.
THEOREM NoLostWakeUp == Spec => []NobodyForgotten
  <1>1. SleepInv => NobodyForgotten
    BY DEF SleepInv, WakersKnown
  <1> QED BY <1>1, InitSleep, StepSleep, Invariance, PTL DEF Spec
=============================================================================
