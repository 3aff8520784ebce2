---------------------------- MODULE SharedMutex -----------------------------
(***************************************************************************)
(* mk::cc::SharedMutex: a reader-writer lock in one 32-bit word whose      *)
(* waiters sleep in the ParkingLot.  A writer first takes the exclusive    *)
(* bit, which keeps everybody else out, and then drains the readers.       *)
(*                                                                         *)
(* One action per access to state_.  A critical section of the bucket is   *)
(* one action as well: validation and push in parkUntil, callback, pop and *)
(* wake-up in unparkOne, and all of unparkAll, each with at most one       *)
(* access to state_ (see module ParkingLot for what they are made of).     *)
(*                                                                         *)
(* ParkingLot reports eNoneLeft only if the thread it wakes is the last in *)
(* the bucket, and may report eMayHaveMore at any time, because threads    *)
(* that are on their way in and threads of other addresses count as well.  *)
(*                                                                         *)
(* Any call may find at any check that its deadline has passed; a call     *)
(* without a deadline is one for which this does not happen.               *)
(*                                                                         *)
(* A weak CAS that fails although the values agree only repeats the loop   *)
(* it stands in, and so do the first kMaxSpinCount rounds of a writer that *)
(* finds the lock taken: both are stuttering steps.                        *)
(***************************************************************************)
EXTENDS Naturals, Sequences, FiniteSets, SequencesExt

CONSTANTS Writers,   \* threads that call lock, tryLock and unlock
          Readers,   \* threads that call lockShared, tryLockShared, unlockShared
          MaxCalls   \* bound on the lock calls of each thread

ASSUME FiniteAssumption == IsFiniteSet(Writers) /\ IsFiniteSet(Readers)
ASSUME RolesAssumption == Writers \cap Readers = {}
ASSUME BoundAssumption == MaxCalls \in [Writers \cup Readers -> Nat]

VARIABLES state,     \* state_: the four bits and the number of readers
          queue,     \* the threads parked at this mutex: [who |-> _, mask |-> _]
          pc,        \* where each thread is
          current,   \* its local copy of state_
          calls      \* lock calls it has made

vars == <<state, queue, pc, current, calls>>

Threads == Writers \cup Readers

NoBits == [eLocked |-> FALSE, eParked |-> FALSE, eDrain |-> FALSE, sParked |-> FALSE,
           readers |-> 0]

OnlyLocked == [NoBits EXCEPT !.eLocked = TRUE]

Init ==
  /\ state = NoBits
  /\ queue = <<>>
  /\ pc = [t \in Threads |-> "idle"]
  /\ current = [t \in Threads |-> NoBits]
  /\ calls = [t \in Threads |-> 0]

At(t, label) == pc[t] = label

Goto(t, label) == pc' = [pc EXCEPT ![t] = label]

Copy(t) == current' = [current EXCEPT ![t] = state]

\* From label `from`: on to `won` if state_ still is what was read, else back
\* to `lost`.  A copy is never read after its CAS, so it is not kept.
Cas(t, from, desired, won, lost) ==
  /\ At(t, from)
  /\ IF state = current[t]
     THEN state' = desired /\ Goto(t, won)
     ELSE UNCHANGED state /\ Goto(t, lost)
  /\ current' = [current EXCEPT ![t] = NoBits]
  /\ UNCHANGED <<queue, calls>>

\* parkUntil: sleep if the state still says so, else try again at `retry`.
ParkIf(t, from, asleep, mask, retry, label) ==
  /\ At(t, from)
  /\ IF asleep
     THEN queue' = Append(queue, [who |-> t, mask |-> mask]) /\ Goto(t, label)
     ELSE UNCHANGED queue /\ Goto(t, retry)
  /\ UNCHANGED <<state, current, calls>>

\* Where a parked thread goes on when it is woken.
Resume(label) ==
  CASE label = "wParked" -> "wLoad"
    [] label = "drainParked" -> "drainLoad"
    [] label = "rParked" -> "rLoad"
    [] OTHER -> label

Oldest(mask) ==
  {i \in 1 .. Len(queue) : /\ queue[i].mask = mask
                           /\ \A k \in 1 .. i - 1 : queue[k].mask # mask}

\* unparkOne wakes the i-th parked thread and its caller goes on at `label`.
WakeOne(t, i, label) ==
  /\ queue' = RemoveAt(queue, i)
  /\ pc' = [u \in Threads |-> IF u = t THEN label
                              ELSE IF u = queue[i].who THEN Resume(pc[u]) ELSE pc[u]]

-----------------------------------------------------------------------------
(* lock and tryLock *)

Call(t, label) ==
  /\ At(t, "idle") /\ calls[t] < MaxCalls[t]
  /\ calls' = [calls EXCEPT ![t] = @ + 1]
  /\ Goto(t, label)
  /\ UNCHANGED <<state, queue, current>>

Lock(t) == Call(t, "wLoad")

\* The exclusive bit is set: give up if the deadline has passed, or go and wait
\* for its owner.
WriterWait(t) ==
  \/ Goto(t, "idle") /\ UNCHANGED current
  \/ state.eParked /\ Goto(t, "wValidate") /\ UNCHANGED current
  \/ ~state.eParked /\ Goto(t, "wSetParked") /\ Copy(t)

WriterLoad(t) ==
  /\ At(t, "wLoad")
  /\ IF state.eLocked THEN WriterWait(t) ELSE Copy(t) /\ Goto(t, "wCas")
  /\ UNCHANGED <<state, queue, calls>>

\* Mutant: the readers that are in are not drained.
WriterCasWithoutDrain(t) ==
  Cas(t, "wCas", [current[t] EXCEPT !.eLocked = TRUE], "writing", "wLoad")

WriterCas(t) ==
  Cas(t, "wCas", [current[t] EXCEPT !.eLocked = TRUE], "drainLoad", "wLoad")

WriterSetParked(t) ==
  Cas(t, "wSetParked", [current[t] EXCEPT !.eParked = TRUE], "wValidate", "wLoad")

\* Mutant: the validation function says yes without a look at the state.
WriterParkBlindly(t) == ParkIf(t, "wValidate", TRUE, "eParked", "wLoad", "wParked")

WriterPark(t) ==
  ParkIf(t, "wValidate", state.eLocked /\ state.eParked, "eParked", "wLoad", "wParked")

\* drainShared has no deadline: the caller holds the exclusive bit already.
DrainLoad(t) ==
  /\ At(t, "drainLoad")
  /\ IF state.readers = 0
     THEN Goto(t, "writing") /\ UNCHANGED current
     ELSE Goto(t, "drainCas") /\ Copy(t)
  /\ UNCHANGED <<state, queue, calls>>

DrainCas(t) ==
  Cas(t, "drainCas", [current[t] EXCEPT !.eDrain = TRUE], "drainValidate", "drainLoad")

DrainPark(t) ==
  ParkIf(t, "drainValidate", state.readers > 0 /\ state.eDrain, "eDrain", "drainLoad",
         "drainParked")

\* parkUntil gives up at the deadline, and tryLock or tryLockShared with it.
TimeOut(t) ==
  /\ pc[t] \in {"wParked", "rParked"}
  /\ \E i \in 1 .. Len(queue) : queue[i].who = t /\ queue' = RemoveAt(queue, i)
  /\ Goto(t, "idle")
  /\ UNCHANGED <<state, current, calls>>

-----------------------------------------------------------------------------
(* unlock *)

UnlockLoad(t) ==
  /\ At(t, "writing") \/ At(t, "uLoad")
  /\ Goto(t, IF state = OnlyLocked THEN "uCas"
             ELSE IF state.eParked THEN "uUnparkOne" ELSE "uClear")
  /\ Copy(t)
  /\ UNCHANGED <<state, queue, calls>>

UnlockCas(t) == Cas(t, "uCas", NoBits, "idle", "uLoad")

\* The callback clears the exclusive bit, and the parked bit too unless there
\* may be more; it also runs, with eNotFound, when no writer is parked.
UnlockUnparkOne(t) ==
  /\ At(t, "uUnparkOne")
  /\ \/ \E i \in Oldest("eParked") :
          /\ state' \in {[state EXCEPT !.eLocked = FALSE]} \cup
                        IF Len(queue) > 1 THEN {}
                        ELSE {[state EXCEPT !.eLocked = FALSE, !.eParked = FALSE]}
          /\ WakeOne(t, i, "idle")
          /\ current' = [current EXCEPT ![t] = NoBits]
     \/ /\ Oldest("eParked") = {}
        /\ state' = [state EXCEPT !.eLocked = FALSE, !.eParked = FALSE]
        /\ Goto(t, "uClear")
        /\ UNCHANGED <<queue, current>>
  /\ UNCHANGED calls

\* afterMask spares the exclusive bit if unparkOne has cleared it before, since
\* it may belong to another writer by now.
UnlockClear(t) ==
  /\ At(t, "uClear")
  /\ state' = [state EXCEPT !.eParked = FALSE, !.sParked = FALSE,
                            !.eLocked = @ /\ current[t].eParked]
  /\ current' = [current EXCEPT ![t] = NoBits]
  /\ Goto(t, "uUnparkAll")
  /\ UNCHANGED <<queue, calls>>

\* The threads of these masks stay parked, in their order.
KeepOnly(masks) ==
  LET kept == {i \in 1 .. Len(queue) : queue[i].mask \in masks}
  IN  [k \in 1 .. Cardinality(kept) |->
         queue[CHOOSE i \in kept : Cardinality({j \in kept : j <= i}) = k]]

\* Mutant: the mask names the writers only.
UnlockUnparkWriters(t) ==
  /\ At(t, "uUnparkAll")
  /\ queue' = KeepOnly({"eDrain", "sParked"})
  /\ pc' = [u \in Threads |->
              IF u = t THEN "idle"
              ELSE IF pc[u] = "wParked" THEN Resume(pc[u]) ELSE pc[u]]
  /\ UNCHANGED <<state, current, calls>>

UnlockUnparkAll(t) ==
  /\ At(t, "uUnparkAll")
  /\ queue' = KeepOnly({"eDrain"})
  /\ pc' = [u \in Threads |->
              IF u = t THEN "idle"
              ELSE IF pc[u] \in {"wParked", "rParked"} THEN Resume(pc[u]) ELSE pc[u]]
  /\ UNCHANGED <<state, current, calls>>

-----------------------------------------------------------------------------
(* lockShared, tryLockShared and unlockShared *)

LockShared(t) == Call(t, "rLoad")

\* Mutant: the test for the exclusive bit is missing.
ReaderLoadParkedOnly(t) ==
  /\ At(t, "rLoad")
  /\ IF state.eParked
     THEN \/ Goto(t, "idle") /\ UNCHANGED current
          \/ Goto(t, "rSetParked") /\ Copy(t)
     ELSE Goto(t, "rCas") /\ Copy(t)
  /\ UNCHANGED <<state, queue, calls>>

\* A reader yields to writers that hold the lock and to writers that wait.
ReaderLoad(t) ==
  /\ At(t, "rLoad")
  /\ IF state.eLocked \/ state.eParked
     THEN \/ Goto(t, "idle") /\ UNCHANGED current
          \/ Goto(t, "rSetParked") /\ Copy(t)
     ELSE Goto(t, "rCas") /\ Copy(t)
  /\ UNCHANGED <<state, queue, calls>>

ReaderCas(t) ==
  Cas(t, "rCas", [current[t] EXCEPT !.readers = @ + 1], "reading", "rLoad")

ReaderSetParked(t) ==
  Cas(t, "rSetParked", [current[t] EXCEPT !.sParked = TRUE], "rValidate", "rLoad")

ReaderPark(t) ==
  ParkIf(t, "rValidate", state.sParked /\ (state.eLocked \/ state.eParked), "sParked",
         "rLoad", "rParked")

UnlockSharedLoad(t) ==
  /\ At(t, "reading") \/ At(t, "ruLoad")
  /\ Copy(t)
  /\ Goto(t, "ruCas")
  /\ UNCHANGED <<state, queue, calls>>

\* The last reader out wakes the writer that drains, if there is one.
UnlockSharedCas(t) ==
  Cas(t, "ruCas", [current[t] EXCEPT !.readers = @ - 1],
      IF current[t].eDrain /\ current[t].readers = 1 THEN "ruUnparkOne" ELSE "idle",
      "ruLoad")

UnlockSharedUnparkOne(t) ==
  /\ At(t, "ruUnparkOne")
  /\ state' = [state EXCEPT !.eDrain = FALSE]
  /\ \/ \E i \in Oldest("eDrain") : WakeOne(t, i, "idle")
     \/ Oldest("eDrain") = {} /\ Goto(t, "idle") /\ UNCHANGED queue
  /\ UNCHANGED <<current, calls>>

-----------------------------------------------------------------------------
WriterStep(t) ==
  \/ WriterLoad(t) \/ WriterCas(t) \/ WriterSetParked(t) \/ WriterPark(t)
  \/ DrainLoad(t) \/ DrainCas(t) \/ DrainPark(t)
  \/ UnlockLoad(t) \/ UnlockCas(t) \/ UnlockUnparkOne(t) \/ UnlockClear(t)
  \/ UnlockUnparkAll(t)

ReaderStep(t) ==
  \/ ReaderLoad(t) \/ ReaderCas(t) \/ ReaderSetParked(t) \/ ReaderPark(t)
  \/ UnlockSharedLoad(t) \/ UnlockSharedCas(t) \/ UnlockSharedUnparkOne(t)

Done == (\A t \in Threads : At(t, "idle") /\ calls[t] = MaxCalls[t]) /\ UNCHANGED vars

Next ==
  \/ \E t \in Writers : Lock(t) \/ WriterStep(t)
  \/ \E t \in Readers : LockShared(t) \/ ReaderStep(t)
  \/ \E t \in Threads : TimeOut(t)
  \/ Done

Spec == Init /\ [][Next]_vars

\* Threads inside a call keep running, and a holder unlocks.
FairSpec ==
  /\ Spec
  /\ \A t \in Writers : WF_vars(WriterStep(t))
  /\ \A t \in Readers : WF_vars(ReaderStep(t))
-----------------------------------------------------------------------------
Labels ==
  {"idle", "wLoad", "wCas", "wSetParked", "wValidate", "wParked", "drainLoad", "drainCas",
   "drainValidate", "drainParked", "writing", "uLoad", "uCas", "uUnparkOne", "uClear",
   "uUnparkAll", "rLoad", "rCas", "rSetParked", "rValidate", "rParked", "reading",
   "ruLoad", "ruCas", "ruUnparkOne"}

States == [eLocked : BOOLEAN, eParked : BOOLEAN, eDrain : BOOLEAN, sParked : BOOLEAN,
           readers : 0 .. Cardinality(Readers)]

TypeOK ==
  /\ state \in States
  /\ queue \in Seq([who : Threads, mask : {"eParked", "eDrain", "sParked"}])
  /\ pc \in [Threads -> Labels]
  /\ current \in [Threads -> States]
  /\ calls \in [Threads -> Nat] /\ \A t \in Threads : calls[t] <= MaxCalls[t]

\* From the CAS that set the exclusive bit to the one that clears it.
OwnsBit(t) ==
  \/ pc[t] \in {"drainLoad", "drainCas", "drainValidate", "drainParked", "writing",
                "uLoad", "uCas", "uUnparkOne"}
  \/ At(t, "uClear") /\ ~current[t].eParked

MayWrite(t) == pc[t] \in {"writing", "uLoad", "uCas", "uUnparkOne"}

MayRead(t) == pc[t] \in {"reading", "ruLoad", "ruCas"}

\* A writer that returned from lock is alone until it unlocks, and the word
\* says exactly who is in: "OnlyOneExclusiveHolderAtATime",
\* "WriterExcludesAllReaders" and "ReadersExcludeWriter" of the tests, for
\* every interleaving with parking, draining and the late steps of unlock.
Exclusion ==
  /\ TypeOK
  /\ \A t \in Writers : MayWrite(t) => \A r \in Readers : ~MayRead(r)
  /\ Cardinality({t \in Writers : OwnsBit(t)}) = IF state.eLocked THEN 1 ELSE 0
  /\ Cardinality({r \in Readers : MayRead(r)}) = state.readers

\* "No new readers / writers are allowed to enter anymore": once a writer has
\* the exclusive bit the readers can only become fewer.
NoEntryWhileLocked == [][state.eLocked => state'.readers <= state.readers]_vars

Sleeps(mask) == \E i \in 1 .. Len(queue) : queue[i].mask = mask

AtSome(labels) == \E t \in Threads : pc[t] \in labels

\* Nobody sleeps without somebody who will wake them.  A draining writer waits
\* for a reader that saw the drain bit; another sleeper waits for the owner of
\* the exclusive bit, for a thread in the middle of unlock, or for a writer
\* that is awake in lock, finds the bit free and so becomes the owner.
NobodyForgotten ==
  /\ Sleeps("eDrain") =>
       (state.readers > 0 /\ state.eDrain) \/ AtSome({"ruUnparkOne"})
  /\ Sleeps("eParked") \/ Sleeps("sParked") =>
       state.eLocked \/ AtSome({"uClear", "uUnparkAll", "wLoad", "wCas", "wSetParked",
                               "wValidate"})

\* Every call returns when there are finitely many of them and the holders
\* unlock, deadline or not: no wake-up is lost.  (With writers that come back
\* for ever a reader may wait for ever.)
CallsReturn == \A t \in Threads : ~At(t, "idle") ~> At(t, "idle")
=============================================================================
