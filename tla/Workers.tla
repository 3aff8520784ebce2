------------------------------- MODULE Workers -------------------------------
(***************************************************************************)
(* The workers of one priority group: how they look for jobs, go to sleep  *)
(* on the WaitGroup when they find none, and are woken by the threads that *)
(* schedule jobs and by the destructor of the JobSystem; and how a job     *)
(* that waits for another runs jobs meanwhile, on top of itself.           *)
(*                                                                         *)
(* A queue is the set of its jobs, which are numbered as they are made: a  *)
(* global queue is one of a library (moodycamel::ConcurrentQueue), a local *)
(* one is a WorkDeque, the parked threads are the queue of ParkingQueue.   *)
(***************************************************************************)
EXTENDS Naturals, Sequences, FiniteSets, SequencesExt

CONSTANTS WorkerThreads,
          Clients,       \* threads that schedule jobs and are not in the group
          Main,          \* the client that destroys the JobSystem
          LocalCapacity, \* MaxCount of the local queues
          MaxJobs        \* bound on the jobs that are scheduled

ASSUME ClientAssumption == Main \in Clients /\ Clients \cap WorkerThreads = {}
ASSUME BoundAssumption == LocalCapacity \in Nat \ {0} /\ MaxJobs \in Nat
ASSUME WorkerAssumption ==
  /\ IsFiniteSet(WorkerThreads)
  /\ WorkerThreads \cap {"high", "low", "unmade", "taken", "done"} = {}

VARIABLES where,    \* the queue each job is in, or "unmade", "taken" or "done"
          parent,   \* the running job that made it and may wait for it, or 0
          stack,    \* the jobs each worker runs, each on top of one that waits
          awaits,   \* the job that each job waits for, or 0
          epoch,    \* epoch_
          numActiveThreads, \* numActiveThreads_
          parked,   \* the threads parked on the WaitGroup, oldest first
          shutdown, \* shutdown_
          pc,       \* where each thread is
          seen,     \* the epoch each worker read at the start of its round
          next,     \* the queue that tryDequeueJob looks at next
          isOwnGroup \* whether the jobs of the group pass for those of the group

jobs == <<where, parent, stack, awaits>>
waitGroup == <<epoch, numActiveThreads, parked>>
vars == <<jobs, waitGroup, shutdown, pc, seen, next, isOwnGroup>>

Threads == WorkerThreads \cup Clients

Jobs == 1 .. MaxJobs

Queues == {"high", "low"} \cup WorkerThreads

\* The order in which tryDequeueJob visits the queues.
Visits(w) == <<"high", "low", w>> \o SetToSeq(WorkerThreads \ {w})

\* The priorityGroup of a WorkerGroupContext is compared but never assigned, so
\* it may be the group's own or not.
Init ==
  /\ where = [j \in Jobs |-> "unmade"]
  /\ parent = [j \in Jobs |-> 0] /\ awaits = [j \in Jobs |-> 0]
  /\ stack = [w \in WorkerThreads |-> <<>>]
  /\ epoch = 0
  /\ numActiveThreads = Cardinality(WorkerThreads)
  /\ parked = <<>>
  /\ shutdown = FALSE
  /\ pc = [t \in Threads |-> IF t \in WorkerThreads THEN "epoch" ELSE "idle"]
  /\ seen = [w \in WorkerThreads |-> 0]
  /\ next = [w \in WorkerThreads |-> 1]
  /\ isOwnGroup \in BOOLEAN

At(t, label) == pc[t] = label

Goto(t, label) == pc' = [pc EXCEPT ![t] = label]

-----------------------------------------------------------------------------
(* decrementJobDependencyCount, once it found the job ready, and             *)
(* wakeOneIfNoActiveThreads: in a client, or in a job that a worker runs     *)

Home(t) == IF t \in Clients THEN "idle" ELSE "run"

In(q) == {j \in Jobs : where[j] = q}

Unmade == In("unmade")

\* A local queue that takes the job ends the call: nobody is woken.  Nothing is
\* scheduled once the system is being destroyed ("The user is responsible for
\* ensuring all meaningful work has already finished", IJobSystem.h).
Schedule(t) ==
  LET j == CHOOSE k \in Unmade : \A i \in Unmade : k <= i
  IN  /\ At(t, Home(t)) /\ Unmade # {} /\ ~shutdown
      /\ parent' = [parent EXCEPT ![j] = IF t \in Clients THEN 0 ELSE Last(stack[t])]
      /\ IF t \in WorkerThreads /\ isOwnGroup /\ Cardinality(In(t)) < LocalCapacity
         THEN where' = [where EXCEPT ![j] = t] /\ UNCHANGED pc
         ELSE /\ \E q \in {"high", "low"} : where' = [where EXCEPT ![j] = q]
              /\ Goto(t, "bump")
      /\ UNCHANGED <<stack, awaits, waitGroup, shutdown, seen, next, isOwnGroup>>

\* (mutant of Bump) The epoch moves only if that is needed to wake a sleeper.
BumpForSleepers(t) ==
  /\ At(t, "bump")
  /\ epoch' = IF parked = <<>> THEN epoch ELSE epoch + 1
  /\ Goto(t, "check")
  /\ UNCHANGED <<jobs, numActiveThreads, parked, shutdown, seen, next, isOwnGroup>>

Bump(t) ==
  /\ At(t, "bump")
  /\ epoch' = epoch + 1
  /\ Goto(t, "check")
  /\ UNCHANGED <<jobs, numActiveThreads, parked, shutdown, seen, next, isOwnGroup>>

Check(t) ==
  /\ At(t, "check")
  /\ Goto(t, IF numActiveThreads > 0 THEN Home(t) ELSE "unparkOne")
  /\ UNCHANGED <<jobs, waitGroup, shutdown, seen, next, isOwnGroup>>

UnparkOne(t) ==
  /\ At(t, "unparkOne")
  /\ IF parked = <<>>
     THEN Goto(t, Home(t)) /\ UNCHANGED parked
     ELSE /\ pc' = [pc EXCEPT ![t] = Home(t), ![Head(parked)] = "woken"]
          /\ parked' = Tail(parked)
  /\ UNCHANGED <<jobs, epoch, numActiveThreads, shutdown, seen, next, isOwnGroup>>

-----------------------------------------------------------------------------
(* jobThreadFn, and tryRunOneJob in a job that waits; a round that is        *)
(* repeated for the spin count or the yield count differs from one that      *)
(* starts later in nothing.  Locals are reset where their value is dead.     *)

LoadEpoch(w) ==
  /\ At(w, "epoch")
  /\ seen' = [seen EXCEPT ![w] = epoch]
  /\ Goto(w, "try")
  /\ UNCHANGED <<jobs, waitGroup, shutdown, next, isOwnGroup>>

\* A global queue keeps the order of one producer only; a local one gives its
\* owner the newest job and a thief the oldest.
Offered(w, q) ==
  CASE q \in {"high", "low"} -> In(q)
    [] q = w -> {j \in In(q) : \A i \in In(q) : i <= j}
    [] OTHER -> {j \in In(q) : \A i \in In(q) : j <= i}

Take(w) ==
  /\ At(w, "try")
  /\ \E j \in Offered(w, Visits(w)[next[w]]) :
       /\ where' = [where EXCEPT ![j] = "taken"]
       /\ stack' = [stack EXCEPT ![w] = Append(@, j)]
  /\ next' = [next EXCEPT ![w] = 1]
  /\ seen' = [seen EXCEPT ![w] = 0]
  /\ Goto(w, "run")
  /\ UNCHANGED <<parent, awaits, waitGroup, shutdown, isOwnGroup>>

\* tryRunOneJob returns where jobThreadFn goes on to sleep.
FindNothing(w) ==
  /\ At(w, "try") /\ In(Visits(w)[next[w]]) = {}
  /\ IF next[w] < Len(Visits(w))
     THEN next' = [next EXCEPT ![w] = @ + 1] /\ UNCHANGED pc
     ELSE next' = [next EXCEPT ![w] = 1] /\ Goto(w, IF stack[w] = <<>> THEN "quiet" ELSE "waiting")
  /\ UNCHANGED <<jobs, waitGroup, shutdown, seen, isOwnGroup>>

\* The handles of the jobs it made go out of scope with it, and nobody has to wait
\* for it any more.
JobReturns(w) ==
  LET done == Last(stack[w])
  IN  /\ At(w, "run")
      /\ where' = [where EXCEPT ![done] = "done"]
      /\ parent' = [j \in Jobs |-> IF done \in {j, parent[j]} THEN 0 ELSE parent[j]]
      /\ stack' = [stack EXCEPT ![w] = Front(@)]
      /\ Goto(w, IF Len(stack[w]) = 1 THEN "epoch" ELSE "waiting")
      /\ UNCHANGED <<awaits, waitGroup, shutdown, seen, next, isOwnGroup>>

-----------------------------------------------------------------------------
(* waitForJob with executeJobWhileWaiting and without a deadline, in a job   *)
(* that waits for one that it made                                           *)

WaitForJob(w) ==
  LET j == Last(stack[w])
  IN  /\ At(w, "run")
      /\ \E c \in Jobs : parent[c] = j /\ awaits' = [awaits EXCEPT ![j] = c]
      /\ Goto(w, "waiting")
      /\ UNCHANGED <<where, parent, stack, waitGroup, shutdown, seen, next, isOwnGroup>>

IsJobFinished(w) ==
  LET j == Last(stack[w])
  IN  /\ At(w, "waiting") /\ where[awaits[j]] = "done"
      /\ awaits' = [awaits EXCEPT ![j] = 0]
      /\ Goto(w, "run")
      /\ UNCHANGED <<where, parent, stack, waitGroup, shutdown, seen, next, isOwnGroup>>

\* (mutant of TryRunOneJob) The job sleeps and polls, as it does without
\* executeJobWhileWaiting.
SleepForPollPeriod(w) ==
  /\ At(w, "waiting") /\ where[awaits[Last(stack[w])]] # "done"
  /\ UNCHANGED vars

TryRunOneJob(w) ==
  /\ At(w, "waiting") /\ where[awaits[Last(stack[w])]] # "done"
  /\ Goto(w, "try")
  /\ UNCHANGED <<jobs, waitGroup, shutdown, seen, next, isOwnGroup>>

-----------------------------------------------------------------------------
(* WaitGroup::wait *)

\* (mutant of Quiet) The counts of the spin never reach their limit.
QuietSpinsOn(w) ==
  /\ At(w, "quiet")
  /\ Goto(w, "epoch")
  /\ UNCHANGED <<jobs, waitGroup, shutdown, seen, next, isOwnGroup>>

Quiet(w) ==
  /\ At(w, "quiet")
  /\ Goto(w, IF shutdown THEN "exited" ELSE "wait")
  /\ UNCHANGED <<jobs, waitGroup, shutdown, seen, next, isOwnGroup>>

Wait(w) ==
  /\ At(w, "wait")
  /\ numActiveThreads' = numActiveThreads - 1
  /\ Goto(w, "park")
  /\ UNCHANGED <<jobs, epoch, parked, shutdown, seen, next, isOwnGroup>>

Park(w) ==
  /\ At(w, "park")
  /\ IF epoch = seen[w]
     THEN parked' = Append(parked, w) /\ Goto(w, "parked")
     ELSE Goto(w, "woken") /\ UNCHANGED parked
  /\ UNCHANGED <<jobs, epoch, numActiveThreads, shutdown, seen, next, isOwnGroup>>

\* (mutant of Woken) Only a thread that slept is counted again.
WokenIfSlept(w) ==
  /\ At(w, "woken")
  /\ numActiveThreads' = IF epoch = seen[w] + 1 THEN numActiveThreads ELSE numActiveThreads + 1
  /\ Goto(w, "epoch")
  /\ UNCHANGED <<jobs, epoch, parked, shutdown, seen, next, isOwnGroup>>

Woken(w) ==
  /\ At(w, "woken")
  /\ numActiveThreads' = numActiveThreads + 1
  /\ Goto(w, "epoch")
  /\ UNCHANGED <<jobs, epoch, parked, shutdown, seen, next, isOwnGroup>>

-----------------------------------------------------------------------------
(* ~JobSystem and wakeAll *)

Destroy ==
  /\ At(Main, "idle") /\ ~shutdown
  /\ shutdown' = TRUE
  /\ Goto(Main, "wakeAll")
  /\ UNCHANGED <<jobs, waitGroup, seen, next, isOwnGroup>>

WakeAll ==
  /\ At(Main, "wakeAll")
  /\ epoch' = epoch + 1
  /\ Goto(Main, "unparkAll")
  /\ UNCHANGED <<jobs, numActiveThreads, parked, shutdown, seen, next, isOwnGroup>>

UnparkAll ==
  /\ At(Main, "unparkAll")
  /\ parked' = <<>>
  /\ pc' = [t \in Threads |-> IF t = Main THEN "join" ELSE IF At(t, "parked") THEN "woken" ELSE pc[t]]
  /\ UNCHANGED <<jobs, epoch, numActiveThreads, shutdown, seen, next, isOwnGroup>>

Join ==
  /\ At(Main, "join")
  /\ \A w \in WorkerThreads : At(w, "exited")
  /\ Goto(Main, "joined")
  /\ UNCHANGED <<jobs, waitGroup, shutdown, seen, next, isOwnGroup>>

-----------------------------------------------------------------------------
CallStep(t) == Bump(t) \/ Check(t) \/ UnparkOne(t)

WorkerStep(w) ==
  \/ LoadEpoch(w) \/ Take(w) \/ FindNothing(w) \/ JobReturns(w) \/ Quiet(w) \/ Wait(w) \/ Park(w) \/ Woken(w)
  \/ IsJobFinished(w) \/ TryRunOneJob(w)

MainStep == WakeAll \/ UnparkAll \/ Join

Done == At(Main, "joined") /\ UNCHANGED vars

Next ==
  \/ \E t \in Threads : Schedule(t) \/ CallStep(t)
  \/ \E w \in WorkerThreads : WorkerStep(w) \/ WaitForJob(w)
  \/ Destroy \/ MainStep \/ Done

Spec == Init /\ [][Next]_vars

\* A worker that is not parked keeps running, a call that was begun is finished,
\* and a job returns.  Nobody has to schedule a job or destroy the system.
FairSpec ==
  /\ Spec
  /\ \A t \in Threads : WF_vars(CallStep(t))
  /\ \A w \in WorkerThreads : WF_vars(WorkerStep(w))
  /\ WF_vars(MainStep)

-----------------------------------------------------------------------------
Counted == {w \in WorkerThreads : pc[w] \notin {"park", "parked", "woken"}}

\* The types; numActiveThreads_ is the number of workers outside wait, so that it
\* neither hides a worker that could be woken nor wraps below zero.
TypeOK ==
  /\ where \in [Jobs -> Queues \cup {"unmade", "taken", "done"}]
  /\ parent \in [Jobs -> 0 .. MaxJobs] /\ awaits \in [Jobs -> 0 .. MaxJobs]
  /\ epoch \in 0 .. MaxJobs + 1 /\ numActiveThreads = Cardinality(Counted)
  /\ parked \in Seq(WorkerThreads) /\ shutdown \in BOOLEAN /\ isOwnGroup \in BOOLEAN
  /\ ToSet(parked) = {w \in WorkerThreads : At(w, "parked")}
  /\ \A w \in WorkerThreads :
       /\ pc[w] \in {"epoch", "try", "run", "bump", "check", "unparkOne", "quiet", "waiting", "wait",
                    "park", "parked", "woken", "exited"}
       /\ stack[w] \in Seq(In("taken"))
       /\ \A i \in DOMAIN stack[w] : i < Len(stack[w]) => awaits[stack[w][i]] # 0
  /\ \A c \in Clients : pc[c] \in {"idle", "bump", "check", "unparkOne", "wakeAll", "unparkAll",
                                   "join", "joined"}
  /\ seen \in [WorkerThreads -> 0 .. MaxJobs + 1]
  /\ next \in [WorkerThreads -> 1 .. 2 + Cardinality(WorkerThreads)]

Queued == {j \in Jobs : where[j] \in Queues}

\* No wakeup is lost: a job in any queue is taken, although scheduling one wakes
\* nobody while a worker counts as active or the queue is local, and a worker
\* may be on its way to sleep.
JobsTaken == (Queued # {}) ~> (shutdown \/ Queued = {})

\* Jobs that wait for one they made go on, although they may wait on the only
\* worker that is awake, the child may be in the local queue of that worker, and
\* the jobs that were put on top of them may wait in their turn.
WaitsEnd == (\E j \in Jobs : awaits[j] # 0) ~> (\A j \in Jobs : awaits[j] = 0)

\* The destructor returns: every worker sees shutdown_, even one that read it just
\* before it was set and goes to sleep after wakeAll.
ShutdownEnds == shutdown ~> At(Main, "joined")
=============================================================================
