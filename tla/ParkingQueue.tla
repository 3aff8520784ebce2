---------------------------- MODULE ParkingQueue ----------------------------
(***************************************************************************)
(* What mk::cc::ParkingLot promises for the addresses of one bucket: the   *)
(* parked threads form one queue, an unpark call removes the oldest thread *)
(* with a matching address and mask, and a thread leaves the queue exactly *)
(* once, either unparked or timed out.                                     *)
(***************************************************************************)
EXTENDS Naturals, Sequences, SequencesExt

CONSTANTS Parkers,   \* the threads that park
          Keys,      \* their address and mask: [address |-> _, mask |-> _]
          Asked      \* the addresses and masks that unpark calls name

VARIABLES queue,     \* the parked threads, oldest first: [who |-> _, key |-> _]
          outcome    \* what the last call of each thread came to

vars == <<queue, outcome>>

Matches(key, asked) == key.address = asked.address /\ key.mask \cap asked.mask # {}

Init == queue = <<>> /\ outcome = [t \in Parkers |-> "none"]

Settle(t, result) == outcome' = [outcome EXCEPT ![t] = result]

Begin(t) == outcome[t] # "parked" /\ Settle(t, "none") /\ UNCHANGED queue

Park(t, key) ==
  /\ outcome[t] = "none"
  /\ queue' = Append(queue, [who |-> t, key |-> key])
  /\ Settle(t, "parked")

Unpark(asked) ==
  \E i \in 1 .. Len(queue) :
    /\ Matches(queue[i].key, asked)
    /\ \A k \in 1 .. i - 1 : ~Matches(queue[k].key, asked)
    /\ Settle(queue[i].who, "unparked")
    /\ queue' = RemoveAt(queue, i)

TimeOut(t) ==
  /\ \E i \in 1 .. Len(queue) : queue[i].who = t /\ queue' = RemoveAt(queue, i)
  /\ Settle(t, "timeout")

Next ==
  \/ \E t \in Parkers : Begin(t) \/ TimeOut(t)
  \/ \E t \in Parkers, key \in Keys : Park(t, key)
  \/ \E asked \in Asked : Unpark(asked)

Spec == Init /\ [][Next]_vars
=============================================================================
