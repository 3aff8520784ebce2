------------------------------ MODULE JobQueue ------------------------------
(***************************************************************************)
(* mk::cc::JobQueue<MaxCount>: the ring buffer of one worker.  The owner   *)
(* pushes and pops at head_, which only it touches; thieves advance tail_. *)
(* A slot is free, holds an instance, or is marked taken by a thief that   *)
(* is about to remove it.                                                  *)
(*                                                                         *)
(* One action per atomic access.  The counters are natural numbers here,   *)
(* 32-bit in the code, which divides by a MaxCount that divides 2^32.      *)
(***************************************************************************)
EXTENDS Integers, Sequences, FiniteSets

CONSTANTS Jobs,      \* job instances; their addresses are reused
          NoJob,     \* a caller that got nothing
          Owner,     \* the owning thread
          Thieves,   \* the threads that call trySteal
          MaxCount,  \* number of slots
          Free,      \* Element::kFree
          Taken,     \* Element::kTaken
          Spurious,  \* may compareExchangeWeak fail when the values agree?
          MaxPushes  \* bound on the calls of tryEnqueue that succeed

ASSUME DistinctAssumption ==
  /\ Free # Taken
  /\ NoJob \notin Jobs /\ Free \notin Jobs /\ Taken \notin Jobs
  /\ Owner \notin Thieves
ASSUME SizeAssumption == MaxCount \in Nat \ {0} /\ MaxPushes \in Nat

VARIABLES slot,      \* queue_[i].value
          head,      \* head_
          tail,      \* tail_
          pc,        \* where each thread is
          bits,      \* its local `bits`, or the argument of tryEnqueue
          seenTail,  \* the local `tail` of each thief
          out,       \* outInstance of its last call
          pushes     \* number of successful tryEnqueue calls so far

vars == <<slot, head, tail, pc, bits, seenTail, out, pushes>>

Threads == Thieves \cup {Owner}
Slots == 0 .. MaxCount - 1
Values == Jobs \cup {Free, Taken}

Init ==
  /\ slot = [i \in Slots |-> Free]
  /\ head = 0
  /\ tail = 0
  /\ pc = [t \in Threads |-> "idle"]
  /\ bits = [t \in Threads |-> Free]
  /\ seenTail = [t \in Thieves |-> 0]
  /\ out = [t \in Threads |-> NoJob]
  /\ pushes = 0

At(t, label) == pc[t] = label

Goto(t, label) == pc' = [pc EXCEPT ![t] = label]

Back == head % MaxCount          \* where tryEnqueue stores
LastSlot == (head - 1) % MaxCount \* where tryDequeue looks
Seen(t) == seenTail[t] % MaxCount \* where a thief looks

\* A thief owns the slot it marked until it frees or restores it.
Marking(t) == pc[t] \in {"recheck", "advance", "free", "restore"}

\* The instances between tail_ and head_.  While a slot is marked, its
\* instance is in the local `bits` of the thief that marked it.
Item(i) ==
  IF slot[i] = Taken
  THEN bits[CHOOSE t \in Thieves : Marking(t) /\ Seen(t) = i]
  ELSE slot[i]

Queued == [k \in 1 .. head - tail |-> Item((tail + k - 1) % MaxCount)]

-----------------------------------------------------------------------------
(* The owner: tryEnqueue and tryDequeue *)

\* An instance is scheduled once, and again only after it was handed out.
EnqueueLoad(j) ==
  /\ At(Owner, "idle")
  /\ pushes < MaxPushes
  /\ \A k \in 1 .. head - tail : Queued[k] # j
  /\ bits' = [bits EXCEPT ![Owner] = j]
  /\ Goto(Owner, IF slot[Back] = Free THEN "store" ELSE "idle")
  /\ UNCHANGED <<slot, head, tail, seenTail, out, pushes>>

EnqueueStore ==
  /\ At(Owner, "store")
  /\ slot' = [slot EXCEPT ![Back] = bits[Owner]]
  /\ head' = head + 1
  /\ pushes' = pushes + 1
  /\ Goto(Owner, "idle")
  /\ UNCHANGED <<tail, bits, seenTail, out>>

DequeueLoad ==
  /\ At(Owner, "idle")
  /\ out' = [out EXCEPT ![Owner] = NoJob]
  /\ bits' = [bits EXCEPT ![Owner] = slot[LastSlot]]
  /\ Goto(Owner, IF slot[LastSlot] \in {Free, Taken} THEN "idle" ELSE "dequeueCas")
  /\ UNCHANGED <<slot, head, tail, seenTail, pushes>>

DequeueCas ==
  /\ At(Owner, "dequeueCas")
  /\ IF slot[LastSlot] = bits[Owner]
     THEN /\ slot' = [slot EXCEPT ![LastSlot] = Free]
          /\ head' = head - 1
          /\ out' = [out EXCEPT ![Owner] = bits[Owner]]
     ELSE UNCHANGED <<slot, head, out>>
  /\ Goto(Owner, "idle")
  /\ UNCHANGED <<tail, bits, seenTail, pushes>>

-----------------------------------------------------------------------------
(* A thief: trySteal *)

StealBegin(t) ==
  /\ At(t, "idle")
  /\ out' = [out EXCEPT ![t] = NoJob]
  /\ Goto(t, "loadTail")
  /\ UNCHANGED <<slot, head, tail, bits, seenTail, pushes>>

LoadTail(t) ==
  /\ At(t, "loadTail")
  /\ seenTail' = [seenTail EXCEPT ![t] = tail]
  /\ Goto(t, "loadSlot")
  /\ UNCHANGED <<slot, head, tail, bits, out, pushes>>

LoadSlot(t) ==
  /\ At(t, "loadSlot")
  /\ bits' = [bits EXCEPT ![t] = slot[Seen(t)]]
  /\ Goto(t, CASE slot[Seen(t)] = Free  -> "confirmEmpty"
               [] slot[Seen(t)] = Taken -> "loadTail"
               [] OTHER                 -> "mark")
  /\ UNCHANGED <<slot, head, tail, seenTail, out, pushes>>

\* trySteal returns false from here if tail_ did not move.
ConfirmEmpty(t) ==
  /\ At(t, "confirmEmpty")
  /\ Goto(t, IF seenTail[t] = tail THEN "idle" ELSE "loadTail")
  /\ UNCHANGED <<slot, head, tail, bits, seenTail, out, pushes>>

Mark(t) ==
  /\ At(t, "mark")
  /\ \/ /\ slot[Seen(t)] = bits[t]
        /\ slot' = [slot EXCEPT ![Seen(t)] = Taken]
        /\ Goto(t, "recheck")
     \/ /\ Spurious \/ slot[Seen(t)] # bits[t]
        /\ Goto(t, "loadTail")
        /\ UNCHANGED slot
  /\ UNCHANGED <<head, tail, bits, seenTail, out, pushes>>

\* Mutant: no check against ABA.
RecheckNothing(t) ==
  /\ At(t, "recheck")
  /\ Goto(t, "advance")
  /\ UNCHANGED <<slot, head, tail, bits, seenTail, out, pushes>>

\* The instance may have come round again at another position (ABA).
Recheck(t) ==
  /\ At(t, "recheck")
  /\ Goto(t, IF seenTail[t] = tail THEN "advance" ELSE "restore")
  /\ UNCHANGED <<slot, head, tail, bits, seenTail, out, pushes>>

Advance(t) ==
  /\ At(t, "advance")
  /\ tail' = tail + 1
  /\ out' = [out EXCEPT ![t] = bits[t]]
  /\ Goto(t, "free")
  /\ UNCHANGED <<slot, head, bits, seenTail, pushes>>

\* Mutant: the stolen slot stays marked.
FreeSlotMissing(t) ==
  /\ At(t, "free")
  /\ Goto(t, "idle")
  /\ UNCHANGED <<slot, head, tail, bits, seenTail, out, pushes>>

FreeSlot(t) ==
  /\ At(t, "free")
  /\ slot' = [slot EXCEPT ![Seen(t)] = Free]
  /\ Goto(t, "idle")
  /\ UNCHANGED <<head, tail, bits, seenTail, out, pushes>>

\* Mutant: the instance is not put back.
RestoreFree(t) ==
  /\ At(t, "restore")
  /\ slot' = [slot EXCEPT ![Seen(t)] = Free]
  /\ Goto(t, "loadTail")
  /\ UNCHANGED <<head, tail, bits, seenTail, out, pushes>>

Restore(t) ==
  /\ At(t, "restore")
  /\ slot' = [slot EXCEPT ![Seen(t)] = bits[t]]
  /\ Goto(t, "loadTail")
  /\ UNCHANGED <<head, tail, bits, seenTail, out, pushes>>

OwnerStep == EnqueueStore \/ DequeueCas

StealStep(t) ==
  \/ LoadTail(t) \/ LoadSlot(t) \/ ConfirmEmpty(t) \/ Mark(t)
  \/ Recheck(t) \/ Advance(t) \/ FreeSlot(t) \/ Restore(t)

Next ==
  \/ \E j \in Jobs : EnqueueLoad(j)
  \/ DequeueLoad \/ OwnerStep
  \/ \E t \in Thieves : StealBegin(t) \/ StealStep(t)

Spec == Init /\ [][Next]_vars

\* A call that began is completed by its thread; nobody has to call.
FairSpec == Spec /\ WF_vars(OwnerStep) /\ \A t \in Thieves : WF_vars(StealStep(t))

-----------------------------------------------------------------------------
TypeOK ==
  /\ slot \in [Slots -> Values]
  /\ head \in Nat /\ tail \in Nat /\ pushes \in 0 .. MaxPushes
  /\ pc \in [Threads -> {"idle", "store", "dequeueCas", "loadTail", "loadSlot",
                         "confirmEmpty", "mark", "recheck", "advance", "free",
                         "restore"}]
  /\ bits \in [Threads -> Values]
  /\ seenTail \in [Thieves -> Nat]
  /\ out \in [Threads -> Jobs \cup {NoJob}]

\* The ring has no hole and no leftover: exactly the slots from tail_ to head_
\* are occupied, but for the one slot a thief passed and has yet to free, and
\* every taken slot is owned by one thief, which still holds its instance.  So
\* a free slot at the current tail_ means that "the queue is indeed empty", and
\* tryEnqueue refuses only a full ring or a slot a thief has yet to free.
RingShape ==
  /\ TypeOK
  /\ tail <= head /\ head - tail <= MaxCount
  /\ \A k \in tail .. head - 1 : slot[k % MaxCount] # Free
  /\ \A i \in Slots : slot[i] # Free =>
       \/ \E k \in tail .. head - 1 : k % MaxCount = i
       \/ \E t \in Thieves : At(t, "free") /\ Seen(t) = i
  /\ \A i \in Slots : slot[i] = Taken =>
       Cardinality({t \in Thieves : Marking(t) /\ Seen(t) = i}) = 1

\* The instances handed out are those pushed, each once, by the owner in LIFO
\* and by the thieves in FIFO order.
Deque == INSTANCE WorkDeque WITH deque <- Queued, hand <- out

ImplementsDeque == Deque!Spec

\* A call of trySteal returns, though it loops while other threads mark and
\* restore the slot it wants.
StealReturns == \A t \in Thieves : At(t, "loadTail") ~> At(t, "idle")
=============================================================================
