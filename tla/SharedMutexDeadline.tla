------------------------ MODULE SharedMutexDeadline -------------------------
(***************************************************************************)
(* SharedMutex with the deadline of each writer's call made visible, to    *)
(* ask what tryLock(duration) does when its time is up.                    *)
(***************************************************************************)
EXTENDS SharedMutex

VARIABLES expired,  \* has the deadline of the writer's call passed?
          blocked   \* was the mutex held from the call to the deadline?

OneCall == [t \in Threads |-> 1]

clockVars == <<vars, expired, blocked>>

Busy == \E t \in Threads : MayWrite(t) \/ MayRead(t)

ClockInit ==
  /\ Init
  /\ expired = [t \in Writers |-> FALSE]
  /\ blocked = [t \in Writers |-> FALSE]

Expire(t) ==
  /\ ~At(t, "idle") /\ ~expired[t]
  /\ expired' = [expired EXCEPT ![t] = TRUE]
  /\ UNCHANGED <<vars, blocked>>

Observe ==
  /\ Next
  /\ expired' = [t \in Writers |-> expired[t] /\ pc'[t] # "idle"]
  /\ blocked' = [t \in Writers |->
                   /\ pc'[t] # "idle"
                   /\ IF expired[t] THEN blocked[t]
                      ELSE (At(t, "idle") \/ blocked[t]) /\ Busy']

ClockSpec == ClockInit /\ [][Observe \/ \E t \in Writers : Expire(t)]_clockVars

\* "tryLock with a finite timeout must return false when the mutex is never
\* released within the window" (SharedMutexTest.cpp:568): a writer does not
\* come back with the lock if the mutex was held until after its deadline.
TryLockKeepsDeadline ==
  \A t \in Writers : ~(At(t, "writing") /\ expired[t] /\ blocked[t])
=============================================================================
