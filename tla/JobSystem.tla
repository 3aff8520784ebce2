------------------------------ MODULE JobSystem ------------------------------
(***************************************************************************)
(* The life of a job in mk::cc::JobSystem: allocated in a slot, made to    *)
(* wait for other jobs, scheduled, run by a worker, finished, and its slot *)
(* taken by another job while old handles are still in use.                *)
(*                                                                         *)
(* One action per access to shared state that another thread can tell      *)
(* apart.  allocJob is one action: until it returns, nobody else touches a *)
(* slot that came out of the pool.                                         *)
(*                                                                         *)
(* The pools are one pool, by its property OnePlace (LockFreeObjectPool);  *)
(* the queues are one set, by their abstraction WorkDeque; which worker    *)
(* takes a job, and that a worker is awake to take it, is left open.       *)
(***************************************************************************)
EXTENDS Naturals, Sequences, FiniteSets, SequencesExt

CONSTANTS Users,    \* threads that are not workers
          Workers,
          Slots,    \* indices of instances_
          Nil,      \* no thread
          Salts,    \* how many salts are valid
          MaxJobs   \* bound on the calls of allocJob

ASSUME ThreadAssumption == Users \cap Workers = {} /\ Nil \notin Users \cup Workers
ASSUME SaltAssumption == Salts \in Nat \ {0} /\ MaxJobs \in Nat

VARIABLES state, dependencyCount, salt, \* of each JobInstance
          dependers,   \* JobDepdencyNode::data of each slot
          nodeMutex,   \* the holder of JobDepdencyNode::mutex
          pool,        \* the slots without a job
          queue,       \* the slots in a work queue
          pc,          \* where each thread is
          slot,        \* the instance that each thread is scheduling or running
          target,      \* the instance it decrements
          edge,        \* the handles it passed to addJobDependency, or waits for
          jobs,        \* (history) the jobs allocated, each with its handle
          scheduled, done,  \* (history) those passed to scheduleJob, and those that ran
          waited,      \* (history) those that waitForJob reported as finished
          asked        \* (history) pairs of depender and job it was made to wait for

instances == <<state, dependencyCount, salt>>
graph == <<dependers, nodeMutex>>
locals == <<pc, slot, target, edge>>
history == <<jobs, scheduled, done, waited, asked>>
vars == <<instances, graph, pool, queue, locals, history>>

Threads == Users \cup Workers

kInvalidSalt == Salts

Jobs == 1 .. Len(jobs)

\* The job that is, or was last, in a slot.
JobIn(s) == CHOOSE j \in Jobs : jobs[j].id = s /\ \A k \in Jobs : jobs[k].id = s => k <= j

Init ==
  /\ state = [s \in Slots |-> "eAllocated"]
  /\ dependencyCount = [s \in Slots |-> 0]
  /\ salt = [s \in Slots |-> kInvalidSalt]
  /\ dependers = [s \in Slots |-> <<>>]
  /\ nodeMutex = [s \in Slots |-> Nil]
  /\ pool = Slots
  /\ queue = {}
  /\ pc = [t \in Threads |-> "idle"]
  /\ slot = [t \in Threads |-> Nil]
  /\ target = [t \in Threads |-> Nil]
  /\ edge = [t \in Threads |-> <<>>]
  /\ jobs = <<>>
  /\ scheduled = {} /\ done = {} /\ waited = {}
  /\ asked = {}

At(t, label) == pc[t] = label

Goto(t, label) == pc' = [pc EXCEPT ![t] = label]

Matches(handle) == handle.salt = salt[handle.id]

-----------------------------------------------------------------------------
(* allocJob *)

Alloc(u) ==
  /\ At(u, "idle") /\ Len(jobs) < MaxJobs
  /\ \E s \in pool :
       LET valid == IF salt[s] = kInvalidSalt THEN 0 ELSE salt[s]
       IN  /\ pool' = pool \ {s}
           /\ dependencyCount' = [dependencyCount EXCEPT ![s] = 1]
           /\ state' = [state EXCEPT ![s] = "eAllocated"]
           /\ salt' = [salt EXCEPT ![s] = valid]
           /\ jobs' = Append(jobs, [id |-> s, salt |-> valid, owner |-> u])
  /\ UNCHANGED <<graph, queue, locals, scheduled, done, waited, asked>>

\* The jobs this thread allocated and has not scheduled: the others it leaves
\* to their owners, which the asserts on eAllocated oblige it to.
Pending(u) == {j \in Jobs : jobs[j].owner = u /\ j \notin scheduled}

-----------------------------------------------------------------------------
(* addJobDependency: of a pending job, on an older one, so that no thread    *)
(* asks for a cycle.  The dependee may be finished, and its slot reused.     *)

AddDependency(u) ==
  /\ At(u, "idle")
  /\ \E d \in Pending(u), e \in Jobs :
       /\ e < d /\ <<d, e>> \notin asked
       /\ Matches(jobs[e])
       /\ edge' = [edge EXCEPT ![u] = <<d, e>>]
  /\ Goto(u, "addLock")
  /\ UNCHANGED <<instances, graph, pool, queue, slot, target, history>>

Dependee(u) == jobs[edge[u][2]]

AddLock(u) ==
  /\ At(u, "addLock")
  /\ nodeMutex[Dependee(u).id] = Nil
  /\ nodeMutex' = [nodeMutex EXCEPT ![Dependee(u).id] = u]
  /\ Goto(u, "addSalt")
  /\ UNCHANGED <<instances, dependers, pool, queue, slot, target, edge, history>>

AddReturn(u) ==
  /\ nodeMutex' = [nodeMutex EXCEPT ![Dependee(u).id] = Nil]
  /\ edge' = [edge EXCEPT ![u] = <<>>]
  /\ Goto(u, "idle")

AddSalt(u) ==
  /\ At(u, "addSalt")
  /\ IF Matches(Dependee(u))
     THEN Goto(u, "addState") /\ UNCHANGED <<nodeMutex, edge>>
     ELSE AddReturn(u)
  /\ UNCHANGED <<instances, dependers, pool, queue, slot, target, history>>

\* (mutant of AddState) The dependee is not asked again whether it finished.
AddStateUnchecked(u) ==
  LET d == jobs[edge[u][1]].id
  IN  /\ At(u, "addState")
      /\ dependers' = [dependers EXCEPT ![Dependee(u).id] = Append(@, d)]
      /\ dependencyCount' = [dependencyCount EXCEPT ![d] = @ + 1]
      /\ asked' = asked \cup {edge[u]}
      /\ AddReturn(u)
      /\ UNCHANGED <<state, salt, pool, queue, slot, target, jobs, scheduled, done, waited>>

\* The state that is read here may be that of the next job in the slot: the
\* thread that finished the dependee bumps the salt after it let go of the lock.
AddState(u) ==
  LET d == jobs[edge[u][1]].id
      e == Dependee(u).id
  IN  /\ At(u, "addState")
      /\ IF state[e] # "eFinished"
         THEN /\ dependers' = [dependers EXCEPT ![e] = Append(@, d)]
              /\ dependencyCount' = [dependencyCount EXCEPT ![d] = @ + 1]
              /\ asked' = asked \cup {edge[u]}
         ELSE UNCHANGED <<dependers, dependencyCount, asked>>
      /\ AddReturn(u)
      /\ UNCHANGED <<state, salt, pool, queue, slot, target, jobs, scheduled, done, waited>>

-----------------------------------------------------------------------------
(* scheduleJob and decrementJobDependencyCount *)

Schedule(u) ==
  /\ At(u, "idle")
  /\ \E j \in Pending(u) :
       /\ scheduled' = scheduled \cup {j}
       /\ target' = [target EXCEPT ![u] = jobs[j].id]
  /\ Goto(u, "decrement")
  /\ UNCHANGED <<instances, graph, pool, queue, slot, edge, jobs, done, waited, asked>>

\* Back in scheduleJob, which returns, or in the loop of finishJob.
DecrementReturn(t) ==
  /\ Goto(t, IF t \in Users THEN "idle" ELSE "finishLoop")
  /\ target' = [target EXCEPT ![t] = Nil]

\* (mutant of Decrement) What fetch_sub returns is taken for the new count.
DecrementNewCount(t) ==
  /\ At(t, "decrement")
  /\ dependencyCount' = [dependencyCount EXCEPT ![target[t]] = @ - 1]
  /\ IF dependencyCount[target[t]] = 2
     THEN Goto(t, "enqueue") /\ UNCHANGED target
     ELSE DecrementReturn(t)
  /\ UNCHANGED <<state, salt, graph, pool, queue, slot, edge, history>>

Decrement(t) ==
  /\ At(t, "decrement")
  /\ dependencyCount' = [dependencyCount EXCEPT ![target[t]] = @ - 1]
  /\ IF dependencyCount[target[t]] = 1
     THEN Goto(t, "enqueue") /\ UNCHANGED target
     ELSE DecrementReturn(t)
  /\ UNCHANGED <<state, salt, graph, pool, queue, slot, edge, history>>

Enqueue(t) ==
  /\ At(t, "enqueue")
  /\ state' = [state EXCEPT ![target[t]] = "eScheduled"]
  /\ queue' = queue \cup {target[t]}
  /\ DecrementReturn(t)
  /\ UNCHANGED <<dependencyCount, salt, graph, pool, slot, edge, history>>

-----------------------------------------------------------------------------
(* runJob and finishJob *)

Run(w) ==
  /\ At(w, "idle")
  /\ \E s \in queue :
       /\ queue' = queue \ {s}
       /\ slot' = [slot EXCEPT ![w] = s]
  /\ Goto(w, "running")
  /\ UNCHANGED <<instances, graph, pool, target, edge, history>>

RunReturns(w) ==
  /\ At(w, "running")
  /\ done' = done \cup {JobIn(slot[w])}
  /\ Goto(w, "finishLock")
  /\ UNCHANGED <<instances, graph, pool, queue, slot, target, edge, jobs, scheduled, waited, asked>>

FinishLock(w) ==
  /\ At(w, "finishLock")
  /\ nodeMutex[slot[w]] = Nil
  /\ nodeMutex' = [nodeMutex EXCEPT ![slot[w]] = w]
  /\ state' = [state EXCEPT ![slot[w]] = "eFinished"]
  /\ Goto(w, "finishLoop")
  /\ UNCHANGED <<dependencyCount, salt, dependers, pool, queue, slot, target, edge, history>>

\* Under the lock nobody sees that the entries go one by one.
FinishNext(w) ==
  LET s == slot[w]
  IN  /\ At(w, "finishLoop") /\ dependers[s] # <<>>
      /\ target' = [target EXCEPT ![w] = Head(dependers[s])]
      /\ dependers' = [dependers EXCEPT ![s] = Tail(@)]
      /\ Goto(w, "decrement")
      /\ UNCHANGED <<instances, nodeMutex, pool, queue, slot, edge, history>>

\* (mutant of FinishUnlock) The list is cleared before it was gone through.
FinishUnlockEarly(w) ==
  /\ At(w, "finishLoop")
  /\ dependers' = [dependers EXCEPT ![slot[w]] = <<>>]
  /\ nodeMutex' = [nodeMutex EXCEPT ![slot[w]] = Nil]
  /\ Goto(w, "bumpSalt")
  /\ UNCHANGED <<instances, pool, queue, slot, target, edge, history>>

FinishUnlock(w) ==
  /\ At(w, "finishLoop") /\ dependers[slot[w]] = <<>>
  /\ nodeMutex' = [nodeMutex EXCEPT ![slot[w]] = Nil]
  /\ Goto(w, "bumpSalt")
  /\ UNCHANGED <<instances, dependers, pool, queue, slot, target, edge, history>>

BumpSalt(w) ==
  /\ At(w, "bumpSalt")
  /\ salt' = [salt EXCEPT ![slot[w]] = (@ + 1) % (Salts + 1)]
  /\ Goto(w, IF salt[slot[w]] = kInvalidSalt - 1 THEN "resetSalt" ELSE "release")
  /\ UNCHANGED <<state, dependencyCount, graph, pool, queue, slot, target, edge, history>>

ResetSalt(w) ==
  /\ At(w, "resetSalt")
  /\ salt' = [salt EXCEPT ![slot[w]] = 0]
  /\ Goto(w, "release")
  /\ UNCHANGED <<state, dependencyCount, graph, pool, queue, slot, target, edge, history>>

Release(w) ==
  /\ At(w, "release")
  /\ pool' = pool \cup {slot[w]}
  /\ slot' = [slot EXCEPT ![w] = Nil]
  /\ Goto(w, "idle")
  /\ UNCHANGED <<instances, graph, queue, target, edge, history>>

-----------------------------------------------------------------------------
(* waitForJob, polling: executeJobWhileWaiting is for workers *)

WaitReturn(u, result) ==
  /\ waited' = waited \cup result
  /\ edge' = [edge EXCEPT ![u] = <<>>]
  /\ Goto(u, "idle")

Wait(u) ==
  /\ At(u, "idle")
  /\ \E j \in Jobs \ waited : edge' = [edge EXCEPT ![u] = <<j>>]
  /\ Goto(u, "waitSalt")
  /\ UNCHANGED <<instances, graph, pool, queue, slot, target, history>>

WaitSalt(u) ==
  /\ At(u, "waitSalt")
  /\ IF Matches(jobs[edge[u][1]])
     THEN Goto(u, "waitState") /\ UNCHANGED <<edge, waited>>
     ELSE WaitReturn(u, {edge[u][1]})
  /\ UNCHANGED <<instances, graph, pool, queue, slot, target, jobs, scheduled, done, asked>>

\* (mutant of WaitState) Anything but a job to be run counts as finished.
WaitStateNotScheduled(u) ==
  /\ At(u, "waitState")
  /\ IF state[jobs[edge[u][1]].id] # "eScheduled"
     THEN WaitReturn(u, {edge[u][1]})
     ELSE Goto(u, "waitSalt") /\ UNCHANGED <<edge, waited>>
  /\ UNCHANGED <<instances, graph, pool, queue, slot, target, jobs, scheduled, done, asked>>

WaitState(u) ==
  /\ At(u, "waitState")
  /\ \/ state[jobs[edge[u][1]].id] = "eFinished" /\ WaitReturn(u, {edge[u][1]})
     \/ state[jobs[edge[u][1]].id] # "eFinished" /\ WaitReturn(u, {})  \* eTimeout
     \/ /\ state[jobs[edge[u][1]].id] # "eFinished"
        /\ Goto(u, "waitSalt") /\ UNCHANGED <<edge, waited>>
  /\ UNCHANGED <<instances, graph, pool, queue, slot, target, jobs, scheduled, done, asked>>

-----------------------------------------------------------------------------
UserStep(u) ==
  AddLock(u) \/ AddSalt(u) \/ AddState(u) \/ Decrement(u) \/ Enqueue(u)

WorkerStep(w) ==
  \/ Run(w) \/ RunReturns(w) \/ FinishLock(w) \/ FinishNext(w) \/ FinishUnlock(w)
  \/ BumpSalt(w) \/ ResetSalt(w) \/ Release(w) \/ Decrement(w) \/ Enqueue(w)

UserCall(u) == Alloc(u) \/ AddDependency(u) \/ Schedule(u) \/ Wait(u)

Done == done = 1 .. MaxJobs /\ (\A t \in Threads : At(t, "idle")) /\ UNCHANGED vars

Next ==
  \/ \E u \in Users : UserCall(u) \/ UserStep(u) \/ WaitSalt(u) \/ WaitState(u)
  \/ \E w \in Workers : WorkerStep(w)
  \/ Done

Spec == Init /\ [][Next]_vars

-----------------------------------------------------------------------------
UserLabels == {"idle", "addLock", "addSalt", "addState", "decrement", "enqueue", "waitSalt",
               "waitState"}

WorkerLabels == {"idle", "running", "finishLock", "finishLoop", "decrement", "enqueue",
                 "bumpSalt", "resetSalt", "release"}

TypeOK ==
  /\ state \in [Slots -> {"eAllocated", "eScheduled", "eFinished"}]
  /\ dependencyCount \in [Slots -> Nat] /\ salt \in [Slots -> 0 .. kInvalidSalt]
  /\ dependers \in [Slots -> Seq(Slots)] /\ nodeMutex \in [Slots -> Threads \cup {Nil}]
  /\ pool \subseteq Slots /\ queue \subseteq Slots
  /\ pc \in [Threads -> UserLabels \cup WorkerLabels]
  /\ \A u \in Users : pc[u] \in UserLabels
  /\ \A w \in Workers : pc[w] \in WorkerLabels
  /\ slot \in [Threads -> Slots \cup {Nil}] /\ target \in [Threads -> Slots \cup {Nil}]
  /\ edge \in [Threads -> Seq(Jobs)]
  /\ \A j \in Jobs : jobs[j] \in [id : Slots, salt : 0 .. Salts - 1, owner : Users]
  /\ scheduled \cup done \cup waited \subseteq Jobs
  /\ asked \subseteq Jobs \X Jobs

\* The places in these lists where slot s is.
ListedIn(lists, s) ==
  UNION {{e} \X {i \in 1 .. Len(lists[e]) : lists[e][i] = s} : e \in Slots}

\* The jobs that list s as a depender, once for each time that they do.
Listings(s) == ListedIn(dependers, s)

\* The decrements of the count of s that are under way.
Decrementing(s) == {t \in Threads : At(t, "decrement") /\ target[t] = s}

\* dependencyCount is what the job in the slot still waits for: scheduleJob, the
\* jobs that list it as a depender, and decrements under way.  It is positive as
\* long as one of them is left, so the job is neither queued early nor forgotten,
\* whatever the order in which dependees finish and the owner schedules.
CountsExact ==
  \A s \in Slots \ pool :
    dependencyCount[s] =
      Cardinality({j \in Jobs \ scheduled : j = JobIn(s)})
        + Cardinality(Decrementing(s))
        + Cardinality(Listings(s))

\* The asserts of decrementJobDependencyCount (a count to take from, the CAS from
\* eAllocated) and of scheduleJob and addJobDependency (a valid handle of a job
\* in eAllocated); so no job is queued twice.
AssertsHold ==
  /\ \A t \in Threads : /\ At(t, "decrement") => dependencyCount[target[t]] > 0
                        /\ At(t, "enqueue") => state[target[t]] = "eAllocated"
  /\ \A j \in Jobs \ scheduled : Matches(jobs[j]) /\ state[jobs[j].id] = "eAllocated"

\* The types hold, dependencyCount is exact, and so do the asserts.
JobsCounted == TypeOK /\ CountsExact /\ AssertsHold

\* A job runs after every job it was made to wait for while that had not
\* finished: "Dependee must have run before depender" (JobSystemTest.cpp:237).
RunsAfterDependees ==
  \A w \in Workers : At(w, "running") =>
    \A e \in Jobs : <<JobIn(slot[w]), e>> \in asked => e \in done

\* waitForJob says eOk only of a job that ran, though it reads the salt and the
\* state of the slot apart and the slot may change hands in between.
WaitMeansDone == waited \subseteq done

\* The dependencies that the graph holds but nobody asked for: the depender is
\* listed with a job that took the slot of the dependee.
Misplaced ==
  {e \in Slots : e \notin pool /\ \E i \in DOMAIN dependers[e] :
                   <<JobIn(dependers[e][i]), JobIn(e)>> \notin asked}

\* Nobody is forgotten: when every thread is outside the system and the queues
\* are empty, a job that was scheduled, and with it all the older jobs that it
\* may have to wait for, has run; unless a dependency landed on the wrong job.
NoJobForgotten ==
  (queue = {} /\ \A t \in Threads : At(t, "idle")) =>
    \A j \in Jobs : 1 .. j \subseteq scheduled => j \in done \/ Misplaced # {}

\* "The dependee can be in any states, even pointing to a job that has already
\* finished" (IJobSystem.h:171): then there is nothing to wait for.
DependsOnDependee == Misplaced = {}
=============================================================================
