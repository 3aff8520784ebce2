----------------------------- MODULE ParkingLot -----------------------------
(***************************************************************************)
(* mk::cc::ParkingLot: threads sleep in a bucket, a doubly linked list of  *)
(* ParkNodes on their stacks, until an unpark call for their address and   *)
(* mask, or a deadline, takes them out.  A bucket serves every address     *)
(* that hashes to it; this module is about one bucket and its WordLock,    *)
(* which appears here as a lock with an owner (see module WordLock).       *)
(*                                                                         *)
(* Parkers call parkUntil, unparkers call unparkOne and unparkAll.  What a *)
(* parker does with the bucket is one action, taken while the bucket is    *)
(* unlocked; an unparker keeps the bucket locked over several actions.     *)
(***************************************************************************)
EXTENDS Integers, Sequences, FiniteSets, SequencesExt

CONSTANTS Parkers,    \* threads that call parkUntil
          Unparkers,  \* threads that call unparkOne or unparkAll
          Nil,        \* the null pointer
          Keys,       \* what a parker passes: [address |-> _, mask |-> _, timed |-> _],
                      \* timed if it passes a deadline
          Asked,      \* what an unparker passes: [address |-> _, mask |-> _]
          MaxUnparks  \* bound on the unpark calls

ASSUME ThreadsAssumption == IsFiniteSet(Parkers) /\ Parkers \cap Unparkers = {}
ASSUME NilAssumption == Nil \notin Parkers \cup Unparkers
ASSUME AskedAssumption == Asked # {}
ASSUME BoundAssumption == MaxUnparks \in Nat

VARIABLES head, tail, count, \* the bucket
          owner,      \* the unparker that holds bucket.lock, or Nil
          node,       \* the ParkNode of each parker
          result,     \* ParkResult of its last call; "none" during a call and
                      \* for eSkip
          pc,         \* where each thread is
          asked,      \* arguments of each unparker
          stopEarly,  \* unparkOne, whose callback always stops
          it, after,  \* the locals `it` and `next` of genericUnpark
          found,      \* its local `result`
          unparks,    \* unpark calls so far
          queue       \* history: the parkers in the list, as pushed and popped

bucket == <<head, tail, count, owner>>
parker == <<node, result>>
unparker == <<asked, stopEarly, it, after, found, unparks>>
vars == <<bucket, parker, unparker, pc, queue>>

Pointers == Parkers \cup {Nil}

NoNode == [key |-> Nil, next |-> Nil, prev |-> Nil, shouldPark |-> FALSE]

Init ==
  /\ head = Nil /\ tail = Nil /\ count = 0 /\ owner = Nil
  /\ node = [t \in Parkers |-> NoNode]
  /\ result = [t \in Parkers |-> "none"]
  /\ pc = [t \in Parkers \cup Unparkers |-> "idle"]
  /\ asked = [u \in Unparkers |-> CHOOSE a \in Asked : TRUE]
  /\ stopEarly = [u \in Unparkers |-> FALSE]
  /\ it = [u \in Unparkers |-> Nil]
  /\ after = [u \in Unparkers |-> Nil]
  /\ found = [u \in Unparkers |-> "eNotFound"]
  /\ unparks = 0
  /\ queue = <<>>

At(t, label) == pc[t] = label

Goto(t, label) == pc' = [pc EXCEPT ![t] = label]

Matches(key, want) == key.address = want.address /\ key.mask \cap want.mask # {}

\* ParkBucket::push of the node of t.
Push(t) ==
  /\ queue' = Append(queue, t)
  /\ tail' = t
  /\ IF head = Nil
     THEN head' = t /\ UNCHANGED node
     ELSE node' = [node EXCEPT ![t].prev = tail, ![tail].next = t] /\ UNCHANGED head

\* Mutant: a node in the middle is unlinked in one direction only.
UnlinkedForward(t) ==
  LET n == node[t].next
      p == node[t].prev
  IN  CASE t = head /\ t = tail -> node
        [] t = head /\ t # tail -> [node EXCEPT ![n].prev = Nil]
        [] t # head             -> [node EXCEPT ![p].next = n]

\* ParkBucket::pop of t, which need not be at an end.
Unlinked(t) ==
  LET n == node[t].next
      p == node[t].prev
  IN  CASE t = head /\ t = tail -> node
        [] t = head /\ t # tail -> [node EXCEPT ![n].prev = Nil]
        [] t # head /\ t = tail -> [node EXCEPT ![p].next = Nil]
        [] OTHER               -> [node EXCEPT ![p].next = n, ![n].prev = p]

Shrink(t) ==
  /\ head' = IF t # head THEN head ELSE IF t = tail THEN Nil ELSE node[t].next
  /\ tail' = IF t # tail THEN tail ELSE IF t = head THEN Nil ELSE node[t].prev
  /\ count' = count - 1
  /\ queue' = RemoveFirst(queue, t)

-----------------------------------------------------------------------------
(* parkUntil *)

\* The count goes up before the bucket is locked.
ParkBegin(t) ==
  /\ At(t, "idle")
  /\ \E key \in Keys : node' = [node EXCEPT ![t] = [NoNode EXCEPT !.key = key,
                                                                   !.shouldPark = TRUE]]
  /\ result' = [result EXCEPT ![t] = "none"]
  /\ count' = count + 1
  /\ Goto(t, "validate")
  /\ UNCHANGED <<head, tail, owner, unparker, queue>>

\* The call ends and its node, with whatever it last held, is gone.
Return(t, outcome, nodes) ==
  /\ result' = [result EXCEPT ![t] = outcome]
  /\ node' = [nodes EXCEPT ![t] = NoNode]
  /\ Goto(t, "idle")

\* The validation function of the caller decides.
Skip(t) ==
  /\ At(t, "validate") /\ owner = Nil
  /\ count' = count - 1
  /\ Return(t, "none", node)
  /\ UNCHANGED <<head, tail, owner, unparker, queue>>

\* The beforeSleep callback of the caller follows, with no lock held.
Enqueue(t) ==
  /\ At(t, "validate") /\ owner = Nil
  /\ Push(t)
  /\ Goto(t, "check")
  /\ UNCHANGED <<count, owner, result, unparker>>

NodeMutexFree(t) == \A u \in Unparkers : ~(At(u, "notify") /\ it[u] = t)

Check(t) ==
  /\ At(t, "check") /\ NodeMutexFree(t)
  /\ IF node[t].shouldPark
     THEN Goto(t, "waiting") /\ UNCHANGED parker
     ELSE Return(t, "unparked", node)
  /\ UNCHANGED <<bucket, unparker, queue>>

SpuriousWakeup(t) ==
  /\ At(t, "waiting")
  /\ Goto(t, "check")
  /\ UNCHANGED <<bucket, parker, unparker, queue>>

\* wait_until reports a timeout; a notification may have come as well.
Expire(t) ==
  /\ pc[t] \in {"check", "waiting"} /\ node[t].key.timed /\ NodeMutexFree(t)
  /\ Goto(t, "relock")
  /\ UNCHANGED <<bucket, parker, unparker, queue>>

\* Mutant: the node leaves the list without the lock of the bucket.
RelockWithoutLock(t) ==
  /\ At(t, "relock")
  /\ IF node[t].shouldPark
     THEN Shrink(t) /\ Return(t, "timeout", Unlinked(t))
     ELSE Return(t, "unparked", node) /\ UNCHANGED <<head, tail, count, queue>>
  /\ UNCHANGED <<owner, unparker>>

\* Mutant: the timeout is believed although an unparker was faster.
RelockBelievesClock(t) ==
  /\ At(t, "relock") /\ owner = Nil
  /\ Shrink(t) /\ Return(t, "timeout", Unlinked(t))
  /\ UNCHANGED <<owner, unparker>>

\* An unparker may have been faster: the bucket decides.
Relock(t) ==
  /\ At(t, "relock") /\ owner = Nil
  /\ IF node[t].shouldPark
     THEN Shrink(t) /\ Return(t, "timeout", Unlinked(t))
     ELSE Return(t, "unparked", node) /\ UNCHANGED <<head, tail, count, queue>>
  /\ UNCHANGED <<owner, unparker>>

-----------------------------------------------------------------------------
(* unparkOne and unparkAll: genericUnpark *)

UnparkBegin(u) ==
  /\ At(u, "idle") /\ unparks < MaxUnparks
  /\ asked' \in {[asked EXCEPT ![u] = a] : a \in Asked}
  /\ stopEarly' \in {[stopEarly EXCEPT ![u] = b] : b \in BOOLEAN}
  /\ found' = [found EXCEPT ![u] = "eNotFound"]
  /\ unparks' = unparks + 1
  /\ Goto(u, "lock")
  /\ UNCHANGED <<bucket, parker, it, after, queue>>

LockBucket(u) ==
  /\ At(u, "lock") /\ owner = Nil
  /\ owner' = u
  /\ it' = [it EXCEPT ![u] = head]
  /\ Goto(u, "scan")
  /\ UNCHANGED <<head, tail, count, parker, asked, stopEarly, after, found, unparks, queue>>

\* The bucket is unlocked at the end of the list, after a last callback.
Scan(u) ==
  /\ At(u, "scan")
  /\ IF it[u] = Nil
     THEN owner' = Nil /\ Goto(u, "idle") /\ UNCHANGED <<it, after>>
     ELSE LET n == node[it[u]].next
          IN  /\ after' = [after EXCEPT ![u] = n]
              /\ IF Matches(node[it[u]].key, asked[u])
                 THEN Goto(u, "count") /\ UNCHANGED it
                 ELSE it' = [it EXCEPT ![u] = n] /\ UNCHANGED pc
              /\ UNCHANGED owner
  /\ UNCHANGED <<head, tail, count, parker, asked, stopEarly, found, unparks, queue>>

\* Mutant: off by one, the node that is about to be popped counts as well.
CountOffByOne(u) ==
  /\ At(u, "count")
  /\ found' = [found EXCEPT ![u] = IF count > 2 THEN "eMayHaveMore" ELSE "eNoneLeft"]
  /\ Goto(u, "pop")
  /\ UNCHANGED <<bucket, parker, asked, stopEarly, it, after, unparks, queue>>

\* The callback of the caller learns the result before the node is popped.
Count(u) ==
  /\ At(u, "count")
  /\ found' = [found EXCEPT ![u] = IF count > 1 THEN "eMayHaveMore" ELSE "eNoneLeft"]
  /\ Goto(u, "pop")
  /\ UNCHANGED <<bucket, parker, asked, stopEarly, it, after, unparks, queue>>

Pop(u) ==
  /\ At(u, "pop")
  /\ Shrink(it[u])
  /\ node' = Unlinked(it[u])
  /\ Goto(u, "clear")
  /\ UNCHANGED <<owner, result, unparker>>

\* Takes the mutex of the node and keeps it until Notify is done.
Clear(u) ==
  /\ At(u, "clear")
  /\ node' = [node EXCEPT ![it[u]].shouldPark = FALSE]
  /\ Goto(u, "notify")
  /\ UNCHANGED <<bucket, result, unparker, queue>>

\* Mutant: shouldPark is cleared, but the condition is not notified.
NotifyNobody(u) ==
  LET stop == stopEarly[u] \/ found[u] = "eNoneLeft"
  IN  /\ At(u, "notify")
      /\ owner' = IF stop THEN Nil ELSE owner
      /\ it' = [it EXCEPT ![u] = IF stop THEN Nil ELSE after[u]]
      /\ after' = [after EXCEPT ![u] = Nil]
      /\ Goto(u, IF stop THEN "idle" ELSE "scan")
      /\ UNCHANGED <<head, tail, count, parker, asked, stopEarly, found, unparks, queue>>

\* unparkAll goes on unless nobody was left; unparkOne stops.
Notify(u) ==
  LET t == it[u]
      stop == stopEarly[u] \/ found[u] = "eNoneLeft"
  IN  /\ At(u, "notify")
      /\ owner' = IF stop THEN Nil ELSE owner
      /\ it' = [it EXCEPT ![u] = IF stop THEN Nil ELSE after[u]]
      /\ after' = [after EXCEPT ![u] = Nil]
      /\ pc' = [pc EXCEPT ![u] = IF stop THEN "idle" ELSE "scan",
                          ![t] = IF At(t, "waiting") THEN "check" ELSE pc[t]]
      /\ UNCHANGED <<head, tail, count, parker, asked, stopEarly, found, unparks, queue>>

ParkStep(t) ==
  Skip(t) \/ Enqueue(t) \/ Check(t) \/ Relock(t)

UnparkStep(u) ==
  LockBucket(u) \/ Scan(u) \/ Count(u) \/ Pop(u) \/ Clear(u) \/ Notify(u)

Next ==
  \/ \E t \in Parkers : ParkBegin(t) \/ SpuriousWakeup(t) \/ Expire(t) \/ ParkStep(t)
  \/ \E u \in Unparkers : UnparkBegin(u) \/ UnparkStep(u)

Spec == Init /\ [][Next]_vars

\* Threads inside a call keep running; the clock reaches every deadline.
FairSpec == /\ Spec
            /\ \A t \in Parkers : WF_vars(ParkStep(t)) /\ WF_vars(Expire(t))
            /\ \A u \in Unparkers : WF_vars(UnparkStep(u))

-----------------------------------------------------------------------------
Labels == {"idle", "validate", "check", "waiting", "relock",
           "lock", "scan", "count", "pop", "clear", "notify"}

TypeOK ==
  /\ head \in Pointers /\ tail \in Pointers /\ count \in Nat
  /\ owner \in Unparkers \cup {Nil}
  /\ node \in [Parkers -> [key : Keys \cup {Nil}, next : Pointers, prev : Pointers,
                           shouldPark : BOOLEAN]]
  /\ result \in [Parkers -> {"none", "unparked", "timeout"}]
  /\ pc \in [Parkers \cup Unparkers -> Labels]
  /\ asked \in [Unparkers -> Asked] /\ stopEarly \in [Unparkers -> BOOLEAN]
  /\ it \in [Unparkers -> Pointers] /\ after \in [Unparkers -> Pointers]
  /\ found \in [Unparkers -> {"eNotFound", "eNoneLeft", "eMayHaveMore"}]
  /\ unparks \in 0 .. MaxUnparks

Listed(t) == \E i \in 1 .. Len(queue) : queue[i] = t

\* A parker is in parkUntil and its ParkNode exists.
NodeInScope(t) == pc[t] \in {"validate", "check", "waiting", "relock"}

\* The links, in both directions, spell the sequence of the nodes pushed and
\* not yet popped, whoever was removed from whichever place; and the count is
\* what genericUnpark takes it for: the nodes in the list and the threads on
\* their way in, never fewer.
BucketShape ==
  LET last == Len(queue)
  IN  /\ TypeOK
      /\ head = IF last = 0 THEN Nil ELSE queue[1]
      /\ tail = IF last = 0 THEN Nil ELSE queue[last]
      /\ \A i \in 1 .. last :
           /\ node[queue[i]].next = IF i = last THEN Nil ELSE queue[i + 1]
           /\ node[queue[i]].prev = IF i = 1 THEN Nil ELSE queue[i - 1]
      /\ count = last + Cardinality({t \in Parkers : At(t, "validate")})

\* Nodes are on the stacks of the parkers: the list, and the two pointers with
\* which an unparker walks it, only ever lead to calls that have not returned.
NoUseAfterScope ==
  /\ \A t \in Parkers : Listed(t) => NodeInScope(t) /\ node[t].shouldPark
  /\ \A u \in Unparkers :
       /\ pc[u] \in {"count", "pop", "clear", "notify"} => NodeInScope(it[u])
       /\ At(u, "scan") /\ it[u] # Nil => Listed(it[u])
       /\ pc[u] \in {"count", "pop", "clear", "notify"} /\ after[u] # Nil =>
            Listed(after[u])

\* eNoneLeft is exact: the clients clear their "somebody waits" bit on it.
LastMeansLast ==
  \A u \in Unparkers :
    At(u, "pop") /\ found[u] = "eNoneLeft" => queue = <<it[u]>>

\* A thread is unparked from the step that takes it out of the list.
Outcome(t) ==
  IF pc[t] \notin {"check", "waiting", "relock"} THEN result[t]
  ELSE IF Listed(t) THEN "parked" ELSE "unparked"

Abstract == INSTANCE ParkingQueue WITH
  queue <- [i \in 1 .. Len(queue) |-> [who |-> queue[i], key |-> node[queue[i]].key]],
  outcome <- [t \in Parkers |-> Outcome(t)]

ImplementsParkingQueue == Abstract!Spec

\* A parker that was taken out of the list, or whose deadline passes, returns.
ParkReturns ==
  \A t \in Parkers :
    At(t, "waiting") /\ (node[t].key.timed \/ ~node[t].shouldPark) ~> At(t, "idle")
=============================================================================
