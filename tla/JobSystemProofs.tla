--------------------------- MODULE JobSystemProofs ---------------------------
(***************************************************************************)
(* Theorems about JobSystem for every set of users, workers and slots, any *)
(* number of salts and any number of jobs.                                 *)
(***************************************************************************)
EXTENDS JobSystem, ListFacts, FunctionTheorems

USE ThreadAssumption, SaltAssumption

Handles == [id : Slots, salt : 0 .. Salts - 1, owner : Users]

\* What the count of the job in a slot is made of: the call of scheduleJob that is
\* due, the decrements under way, and the places where the slot is listed.
Waits(s) == {j \in Jobs \ scheduled : jobs[j].id = s}

Counted(s) ==
  /\ IsFiniteSet(Waits(s)) /\ IsFiniteSet(Decrementing(s)) /\ IsFiniteSet(Listings(s))
  /\ dependencyCount[s] =
       Cardinality(Waits(s)) + Cardinality(Decrementing(s)) + Cardinality(Listings(s))

\* The job that has the slot, or had it last.
Latest(j) == \A k \in Jobs : jobs[k].id = jobs[j].id => k <= j

Holding(w) == pc[w] # "idle"

Finishing(w) == pc[w] \notin {"idle", "running"}

\* A slot has a job while it is out of the pool, and that job is waiting, about to be
\* queued, in a queue, or with a worker.
SlotKnown(s) ==
  /\ s \in pool => s \notin queue /\ dependencyCount[s] = 0 /\ dependers[s] = <<>>
  /\ s \in pool => \A j \in Jobs : jobs[j].id = s => state[s] = "eFinished"
  /\ dependencyCount[s] > 0 => state[s] = "eAllocated"
  /\ s \in queue => dependencyCount[s] = 0 /\ state[s] = "eScheduled"
  /\ s \notin pool => \E j \in Jobs : jobs[j].id = s /\ Latest(j)
  /\ s \notin pool => \/ dependencyCount[s] > 0 \/ s \in queue
                      \/ \E t \in Threads : At(t, "enqueue") /\ target[t] = s
                      \/ \E w \in Workers : Holding(w) /\ slot[w] = s

\* It is so with one thread only.
ThreadKnown(t) ==
  /\ pc[t] \in {"decrement", "enqueue"} => target[t] \in Slots
  /\ At(t, "enqueue") =>
       /\ target[t] \notin pool \cup queue
       /\ dependencyCount[target[t]] = 0 /\ state[target[t]] = "eAllocated"
       /\ \A r \in Threads : At(r, "enqueue") /\ target[r] = target[t] => r = t

UserKnown(u) ==
  /\ pc[u] \in {"addLock", "addSalt", "addState"} =>
       \E d \in Pending(u), e \in Jobs : e < d /\ edge[u] = <<d, e>>
  /\ pc[u] \in {"waitSalt", "waitState"} => \E j \in Jobs : edge[u] = <<j>>

WorkerKnown(w) ==
  /\ Holding(w) =>
       /\ slot[w] \in Slots \ (pool \cup queue) /\ dependencyCount[slot[w]] = 0
       /\ \A t \in Threads : At(t, "enqueue") => target[t] # slot[w]
       /\ \A v \in Workers : Holding(v) /\ slot[v] = slot[w] => v = w
  /\ Finishing(w) /\ ~At(w, "finishLock") => state[slot[w]] = "eFinished"
  /\ pc[w] \in {"bumpSalt", "resetSalt", "release"} => dependers[slot[w]] = <<>>

\* A job that has not run has its slot, and its handle is valid.
JobKnown(j) ==
  /\ j \notin done =>
       /\ Latest(j) /\ jobs[j].id \notin pool
       /\ salt[jobs[j].id] = jobs[j].salt /\ state[jobs[j].id] # "eFinished"
       /\ \A w \in Workers : Finishing(w) => slot[w] # jobs[j].id
  /\ j \in done /\ Latest(j) /\ jobs[j].id \notin pool =>
       \E w \in Workers : Finishing(w) /\ slot[w] = jobs[j].id

\* A job that was made to wait for one that has not run is listed with it.
AskedKnown(d, e) ==
  /\ d \in Jobs /\ e \in Jobs /\ e < d
  /\ e \notin done =>
       \E i \in 1 .. Len(dependers[jobs[e].id]) : dependers[jobs[e].id][i] = jobs[d].id

JobInv ==
  /\ TypeOK /\ jobs \in Seq(Handles) /\ done \subseteq scheduled /\ waited \subseteq done
  /\ \A s \in Slots : Counted(s) /\ SlotKnown(s)
  /\ \A t \in Threads : ThreadKnown(t)
  /\ \A u \in Users : UserKnown(u)
  /\ \A w \in Workers : WorkerKnown(w)
  /\ \A j \in Jobs : JobKnown(j)
  /\ \A p \in asked : AskedKnown(p[1], p[2])

-----------------------------------------------------------------------------
(* What the steps have in common *)

LEMMA Types ==
  ASSUME JobInv
  PROVE  /\ TypeOK /\ jobs \in Seq(Handles) /\ Len(jobs) \in Nat
         /\ \A j \in Jobs : /\ j \in Nat /\ jobs[j] \in Handles /\ jobs[j].id \in Slots
                            /\ JobKnown(j)
         /\ \A s \in Slots : Counted(s) /\ SlotKnown(s) /\ dependencyCount[s] \in Nat
         /\ \A t \in Threads : ThreadKnown(t)
         /\ \A u \in Users : UserKnown(u) /\ u \in Threads /\ u \notin Workers
         /\ \A w \in Workers : WorkerKnown(w) /\ w \in Threads /\ w \notin Users
         /\ \A d, e : <<d, e>> \in asked => AskedKnown(d, e)
         /\ state \in [Slots -> {"eAllocated", "eScheduled", "eFinished"}]
         /\ dependencyCount \in [Slots -> Nat] /\ salt \in [Slots -> 0 .. kInvalidSalt]
         /\ dependers \in [Slots -> Seq(Slots)]
         /\ pc \in [Threads -> UserLabels \cup WorkerLabels]
         /\ edge \in [Threads -> Seq(Jobs)] /\ nodeMutex \in [Slots -> Threads \cup {Nil}]
         /\ slot \in [Threads -> Slots \cup {Nil}] /\ target \in [Threads -> Slots \cup {Nil}]
  <1>1. TypeOK /\ jobs \in Seq(Handles)
    BY DEF JobInv
  <1>2. Len(jobs) \in Nat /\ \A j \in Jobs : j \in Nat /\ jobs[j] \in Handles
    BY <1>1, LenProperties, ElementOfSeq DEF Jobs
  <1>3. \A j \in Jobs : jobs[j].id \in Slots
    BY <1>2 DEF Handles
  <1>4. \A s \in Slots : dependencyCount[s] \in Nat
    BY <1>1 DEF TypeOK
  <1>5. (\A u \in Users : u \in Threads /\ u \notin Workers)
        /\ \A w \in Workers : w \in Threads /\ w \notin Users
    BY DEF Threads
  <1>6. \A d, e : <<d, e>> \in asked => AskedKnown(d, e)
    <2>1. \A p \in asked : AskedKnown(p[1], p[2])
      BY DEF JobInv
    <2>2. \A d, e : <<d, e>> \in asked => AskedKnown(<<d, e>>[1], <<d, e>>[2])
      BY <2>1
    <2> QED BY <2>2
  <1> QED BY <1>1, <1>2, <1>3, <1>4, <1>5, <1>6 DEF JobInv, TypeOK

\* The count stands while the sets that it counts do.
LEMMA CountedKept ==
  ASSUME NEW s \in Slots, Counted(s), dependencyCount'[s] = dependencyCount[s],
         jobs' = jobs, scheduled' = scheduled, dependers' = dependers,
         \A t \in Threads : (At(t, "decrement") /\ target[t] = s)'
                              <=> At(t, "decrement") /\ target[t] = s
  PROVE  Counted(s)'
  <1>1. Waits(s)' = Waits(s)
    BY DEF Waits, Jobs
  <1>2. Listings(s)' = Listings(s)
    BY DEF Listings
  <1>3. Decrementing(s)' = Decrementing(s)
    BY DEF Decrementing, At
  <1> QED BY <1>1, <1>2, <1>3 DEF Counted

LEMMA SlotKept ==
  ASSUME NEW s \in Slots, SlotKnown(s), state'[s] = state[s],
         dependencyCount'[s] = dependencyCount[s], s \in pool => dependers'[s] = dependers[s],
         s \in pool' <=> s \in pool, s \in queue' <=> s \in queue, jobs' = jobs,
         \A t \in Threads : At(t, "enqueue") /\ target[t] = s => (At(t, "enqueue") /\ target[t] = s)',
         \A w \in Workers : Holding(w) /\ slot[w] = s => (Holding(w) /\ slot[w] = s)'
  PROVE  SlotKnown(s)'
  <1>1. \A j \in Jobs : Latest(j)' <=> Latest(j)
    BY DEF Latest, Jobs
  <1>2. Jobs' = Jobs
    BY DEF Jobs
  <1> QED BY <1>1, <1>2 DEF SlotKnown

\* No thread takes a job up to queue it, and those that have one keep it.
LEMMA ThreadsKept ==
  ASSUME JobInv,
         \A t \in Threads : pc'[t] \in {"decrement", "enqueue"} =>
           target'[t] \in Slots /\ (pc'[t] = "enqueue" => pc[t] = "enqueue" /\ target'[t] = target[t]),
         \A t \in Threads : pc[t] = "enqueue" =>
           /\ target[t] \notin pool' \cup queue'
           /\ dependencyCount'[target[t]] = dependencyCount[target[t]]
           /\ state'[target[t]] = state[target[t]]
  PROVE  \A t \in Threads : ThreadKnown(t)'
  <1> SUFFICES ASSUME NEW t \in Threads PROVE ThreadKnown(t)'
    OBVIOUS
  <1>1. ThreadKnown(t)
    BY DEF JobInv
  <1>2. CASE pc'[t] # "enqueue"
    BY <1>2 DEF ThreadKnown, At
  <1>3. CASE pc'[t] = "enqueue"
    <2>1. PICK x : x = target[t] /\ x = target'[t] /\ x \in Slots
      BY <1>3
    <2>2. x \notin pool' \cup queue' /\ dependencyCount'[x] = 0 /\ state'[x] = "eAllocated"
      BY <1>1, <1>3, <2>1 DEF ThreadKnown, At
    <2>3. \A r \in Threads : At(r, "enqueue")' /\ target'[r] = x => r = t
      BY <1>1, <1>3, <2>1 DEF ThreadKnown, At
    <2> QED BY <2>1, <2>2, <2>3 DEF ThreadKnown, At
  <1> QED BY <1>2, <1>3

LEMMA UserKept ==
  ASSUME NEW u \in Users, UserKnown(u), pc'[u] = pc[u], edge'[u] = edge[u],
         Pending(u) \subseteq Pending(u)', Jobs \subseteq Jobs'
  PROVE  UserKnown(u)'
  BY DEF UserKnown

LEMMA WorkerKept ==
  ASSUME NEW w \in Workers, WorkerKnown(w), pc'[w] = pc[w], slot'[w] = slot[w],
         Holding(w) => /\ slot[w] \notin pool' \cup queue'
                       /\ dependencyCount'[slot[w]] = dependencyCount[slot[w]]
                       /\ state'[slot[w]] = state[slot[w]]
                       /\ \A t \in Threads : At(t, "enqueue")' => target'[t] # slot[w]
                       /\ \A v \in Workers : Holding(v)' /\ slot'[v] = slot[w] => v = w,
         pc[w] \in {"bumpSalt", "resetSalt", "release"} =>
           dependers'[slot[w]] = dependers[slot[w]]
  PROVE  WorkerKnown(w)'
  <1>1. PICK x : x = slot[w] /\ x = slot'[w]
    OBVIOUS
  <1>2. CASE ~Holding(w)
    BY <1>2 DEF WorkerKnown, Holding, Finishing, At
  <1>3. CASE Holding(w)
    <2>1. /\ x \in Slots \ (pool' \cup queue') /\ dependencyCount'[x] = 0
          /\ \A t \in Threads : At(t, "enqueue")' => target'[t] # x
          /\ \A v \in Workers : Holding(v)' /\ slot'[v] = x => v = w
      BY <1>1, <1>3 DEF WorkerKnown
    <2>2. Finishing(w) /\ ~At(w, "finishLock") => state'[x] = "eFinished"
      BY <1>1, <1>3 DEF WorkerKnown
    <2>3. pc[w] \in {"bumpSalt", "resetSalt", "release"} => dependers'[x] = <<>>
      BY <1>1, <1>3 DEF WorkerKnown
    <2> QED BY <1>1, <2>1, <2>2, <2>3 DEF WorkerKnown, Holding, Finishing, At
  <1> QED BY <1>2, <1>3

LEMMA JobKept ==
  ASSUME NEW j \in Jobs, JobKnown(j), jobs' = jobs, j \in done' <=> j \in done,
         jobs[j].id \in pool' <=> jobs[j].id \in pool,
         j \notin done => /\ salt'[jobs[j].id] = salt[jobs[j].id]
                          /\ state[jobs[j].id] # "eFinished" => state'[jobs[j].id] # "eFinished",
         \A w \in Workers : (Finishing(w) /\ slot[w] = jobs[j].id)'
                              <=> Finishing(w) /\ slot[w] = jobs[j].id
  PROVE  JobKnown(j)'
  <1>1. Latest(j)' <=> Latest(j)
    BY DEF Latest, Jobs
  <1> QED BY <1>1 DEF JobKnown

LEMMA AskedKept ==
  ASSUME JobInv, asked' = asked, jobs' = jobs, done \subseteq done', dependers' = dependers
  PROVE  \A p \in asked' : AskedKnown(p[1], p[2])'
  <1> SUFFICES ASSUME NEW p \in asked PROVE AskedKnown(p[1], p[2])'
    OBVIOUS
  <1>1. AskedKnown(p[1], p[2])
    BY DEF JobInv
  <1> QED BY <1>1 DEF AskedKnown, Jobs

core == <<instances, dependers, pool, queue, slot, target, jobs, scheduled, done, asked>>

\* A step of a user between the lines that change the graph.
LEMMA LocalKept ==
  ASSUME JobInv, NEW u \in Users, TypeOK', UNCHANGED core,
         \A t \in Threads \ {u} : pc'[t] = pc[t] /\ edge'[t] = edge[t],
         pc[u] \notin {"decrement", "enqueue"}, pc'[u] \notin {"decrement", "enqueue"},
         UserKnown(u)', waited' \subseteq done
  PROVE  JobInv'
  <1> USE Types DEF core, instances
  <1>1. Jobs' = Jobs /\ jobs' \in Seq(Handles)
    BY DEF Jobs
  <1>2. ASSUME NEW s \in Slots PROVE Counted(s)' /\ SlotKnown(s)'
    <2>1. \A t \in Threads : (At(t, "decrement") /\ target[t] = s)'
                               <=> At(t, "decrement") /\ target[t] = s
      BY DEF At
    <2>2. \A t \in Threads : At(t, "enqueue") /\ target[t] = s => (At(t, "enqueue") /\ target[t] = s)'
      BY DEF At
    <2>3. \A w \in Workers : Holding(w) /\ slot[w] = s => (Holding(w) /\ slot[w] = s)'
      BY DEF Holding
    <2>4. Counted(s)'
      BY <2>1, CountedKept
    <2>5. SlotKnown(s)'
      BY <2>2, <2>3, SlotKept
    <2> QED BY <2>4, <2>5
  <1>3. \A t \in Threads : ThreadKnown(t)'
    <2>1. \A t \in Threads : pc'[t] \in {"decrement", "enqueue"} =>
            target'[t] \in Slots /\ (pc'[t] = "enqueue" => pc[t] = "enqueue" /\ target'[t] = target[t])
      BY DEF ThreadKnown
    <2>2. \A t \in Threads : pc[t] = "enqueue" =>
            /\ target[t] \notin pool' \cup queue'
            /\ dependencyCount'[target[t]] = dependencyCount[target[t]]
            /\ state'[target[t]] = state[target[t]]
      BY DEF ThreadKnown, At
    <2> QED BY <2>1, <2>2, ThreadsKept
  <1>4. ASSUME NEW v \in Users PROVE UserKnown(v)'
    <2>1. Pending(v) \subseteq Pending(v)'
      BY <1>1 DEF Pending
    <2>2. v # u => UserKnown(v)'
      BY <1>1, <2>1, UserKept
    <2> QED BY <2>2
  <1>5. ASSUME NEW w \in Workers PROVE WorkerKnown(w)'
    <2>1. \A t \in Threads : At(t, "enqueue")' <=> At(t, "enqueue")
      BY DEF At
    <2>2. \A v \in Workers : Holding(v)' <=> Holding(v)
      BY DEF Holding
    <2>3. Holding(w) => /\ slot[w] \notin pool' \cup queue'
                        /\ dependencyCount'[slot[w]] = dependencyCount[slot[w]]
                        /\ state'[slot[w]] = state[slot[w]]
                        /\ \A t \in Threads : At(t, "enqueue")' => target'[t] # slot[w]
                        /\ \A v \in Workers : Holding(v)' /\ slot'[v] = slot[w] => v = w
      BY <2>1, <2>2 DEF WorkerKnown
    <2> QED BY <2>3, WorkerKept
  <1>6. ASSUME NEW j \in Jobs PROVE JobKnown(j)'
    <2>1. \A w \in Workers : Finishing(w)' <=> Finishing(w)
      BY DEF Finishing
    <2> QED BY <2>1, JobKept
  <1>7. \A p \in asked' : AskedKnown(p[1], p[2])'
    BY AskedKept
  <1>8. done' \subseteq scheduled' /\ waited' \subseteq done'
    BY DEF JobInv
  <1> QED BY <1>1, <1>2, <1>3, <1>4, <1>5, <1>6, <1>7, <1>8 DEF JobInv

\* A step of finishJob that changes nothing but the state and the salt of its slot.
LEMMA FinishKept ==
  ASSUME JobInv, NEW w \in Workers, NEW label \in WorkerLabels \ {"idle", "running", "finishLock"},
         TypeOK', Finishing(w), pc[w] \notin {"decrement", "enqueue"},
         label \notin {"decrement", "enqueue"}, pc' = [pc EXCEPT ![w] = label],
         UNCHANGED <<dependencyCount, dependers, pool, queue, slot, target, edge, history>>,
         \A s \in Slots \ {slot[w]} : state'[s] = state[s] /\ salt'[s] = salt[s],
         state'[slot[w]] = "eFinished",
         label \in {"bumpSalt", "resetSalt", "release"} => dependers[slot[w]] = <<>>
  PROVE  JobInv'
  <1> USE Types DEF history
  <1>1. Jobs' = Jobs /\ jobs' \in Seq(Handles)
    BY DEF Jobs
  <1>2. PICK x : x = slot[w]
    OBVIOUS
  <1>3. /\ Holding(w) /\ x \in Slots \ (pool \cup queue) /\ dependencyCount[x] = 0
        /\ \A t \in Threads : At(t, "enqueue") => target[t] # x
        /\ \A v \in Workers : Holding(v) /\ slot[v] = x => v = w
    BY <1>2 DEF WorkerKnown, Finishing, Holding
  <1>4. pc'[w] = label /\ \A t \in Threads \ {w} : pc'[t] = pc[t]
    OBVIOUS
  <1>5. /\ \A t \in Threads : At(t, "enqueue")' <=> At(t, "enqueue")
        /\ \A t \in Threads : At(t, "decrement")' <=> At(t, "decrement")
        /\ \A v \in Workers : (Holding(v)' <=> Holding(v)) /\ (Finishing(v)' <=> Finishing(v))
    BY <1>3, <1>4 DEF At, Holding, Finishing
  <1>6. ASSUME NEW s \in Slots PROVE Counted(s)' /\ SlotKnown(s)'
    <2>1. Counted(s)'
      BY <1>5, CountedKept
    <2>2. CASE s # x
      <3>1. SlotKnown(s)'
        BY <1>2, <1>5, <2>2, SlotKept
      <3> QED BY <2>1, <3>1
    <2>3. CASE s = x
      <3>1. \E v \in Workers : Holding(v)' /\ slot'[v] = s
        BY <1>2, <1>3, <1>5, <2>3
      <3>2. \A j \in Jobs : Latest(j)' <=> Latest(j)
        BY <1>1 DEF Latest
      <3>3. \E j \in Jobs : jobs[j].id = s /\ Latest(j)
        BY <1>3, <2>3 DEF SlotKnown
      <3>4. \E j \in Jobs' : jobs'[j].id = s /\ Latest(j)'
        BY <1>1, <3>2, <3>3
      <3>5. s \notin pool' /\ s \notin queue' /\ dependencyCount'[s] = 0
        BY <1>3, <2>3
      <3> QED BY <2>1, <3>1, <3>4, <3>5 DEF SlotKnown
    <2> QED BY <2>2, <2>3
  <1>7. \A t \in Threads : ThreadKnown(t)'
    <2>1. \A t \in Threads : pc'[t] \in {"decrement", "enqueue"} =>
            target'[t] \in Slots /\ (pc'[t] = "enqueue" => pc[t] = "enqueue" /\ target'[t] = target[t])
      BY <1>4 DEF ThreadKnown
    <2>2. \A t \in Threads : pc[t] = "enqueue" =>
            /\ target[t] \notin pool' \cup queue'
            /\ dependencyCount'[target[t]] = dependencyCount[target[t]]
            /\ state'[target[t]] = state[target[t]]
      BY <1>2, <1>3 DEF ThreadKnown, At
    <2> QED BY <2>1, <2>2, ThreadsKept
  <1>8. ASSUME NEW u \in Users PROVE UserKnown(u)'
    <2>1. Pending(u) \subseteq Pending(u)' /\ pc'[u] = pc[u]
      BY <1>1, <1>4 DEF Pending
    <2> QED BY <1>1, <2>1, UserKept
  <1>9. ASSUME NEW v \in Workers PROVE WorkerKnown(v)'
    <2>1. CASE v # w
      <3>1. Holding(v) => /\ slot[v] \notin pool' \cup queue'
                          /\ dependencyCount'[slot[v]] = dependencyCount[slot[v]]
                          /\ state'[slot[v]] = state[slot[v]]
                          /\ \A t \in Threads : At(t, "enqueue")' => target'[t] # slot[v]
                          /\ \A r \in Workers : Holding(r)' /\ slot'[r] = slot[v] => r = v
        BY <1>2, <1>3, <1>5, <2>1 DEF WorkerKnown
      <3> QED BY <1>4, <2>1, <3>1, WorkerKept
    <2>2. CASE v = w
      <3>1. Holding(w)' /\ slot'[w] = x /\ x \in Slots \ (pool' \cup queue')
            /\ dependencyCount'[x] = 0 /\ state'[x] = "eFinished"
        BY <1>2, <1>3, <1>5
      <3>2. /\ \A t \in Threads : At(t, "enqueue")' => target'[t] # x
            /\ \A r \in Workers : Holding(r)' /\ slot'[r] = x => r = w
        BY <1>3, <1>5
      <3>3. pc'[w] \in {"bumpSalt", "resetSalt", "release"} => dependers'[x] = <<>>
        BY <1>2, <1>4
      <3> QED BY <2>2, <3>1, <3>2, <3>3 DEF WorkerKnown
    <2> QED BY <2>1, <2>2
  <1>10. ASSUME NEW j \in Jobs PROVE JobKnown(j)'
    <2>1. CASE jobs[j].id # x
      BY <1>2, <1>5, <2>1, JobKept
    <2>2. CASE jobs[j].id = x
      <3>1. j \in done
        BY <1>2, <2>2 DEF JobKnown
      <3> QED BY <1>5, <3>1, JobKept
    <2> QED BY <2>1, <2>2
  <1>11. \A p \in asked' : AskedKnown(p[1], p[2])'
    BY AskedKept
  <1>12. done' \subseteq scheduled' /\ waited' \subseteq done'
    BY DEF JobInv
  <1> QED BY <1>1, <1>6, <1>7, <1>8, <1>9, <1>10, <1>11, <1>12 DEF JobInv

-----------------------------------------------------------------------------
(* addJobDependency and waitForJob, but for the lines that change the graph *)

LEMMA AddDependencyStep ==
  ASSUME JobInv, NEW u \in Users, AddDependency(u)
  PROVE  JobInv'
  <1> USE Types DEF AddDependency
  <1>1. PICK d \in Pending(u), e \in Jobs : e < d /\ edge' = [edge EXCEPT ![u] = <<d, e>>]
    OBVIOUS
  <1>2. Jobs' = Jobs /\ Pending(u)' = Pending(u) /\ d \in Jobs
    BY DEF history, Jobs, Pending
  <1>3. pc' = [pc EXCEPT ![u] = "addLock"] /\ pc[u] = "idle"
    BY DEF Goto, At
  <1>4. TypeOK'
    <2>1. <<d, e>> \in Seq(Jobs)
      BY <1>2
    <2> QED BY <1>1, <1>2, <1>3, <2>1 DEF TypeOK, instances, graph, history, UserLabels
  <1>5. UserKnown(u)'
    BY <1>1, <1>2, <1>3 DEF UserKnown
  <1> QED BY <1>1, <1>3, <1>4, <1>5, LocalKept DEF core, graph, history, JobInv

LEMMA AddLockStep ==
  ASSUME JobInv, NEW u \in Users, AddLock(u)
  PROVE  JobInv'
  <1> USE Types DEF AddLock
  <1>1. Jobs' = Jobs /\ Pending(u)' = Pending(u)
    BY DEF history, Jobs, Pending
  <1>2. pc' = [pc EXCEPT ![u] = "addSalt"] /\ pc[u] = "addLock"
    BY DEF Goto, At
  <1>3. TypeOK'
    BY <1>1, <1>2 DEF TypeOK, instances, history, UserLabels
  <1>4. UserKnown(u)'
    BY <1>1, <1>2 DEF UserKnown
  <1> QED BY <1>2, <1>3, <1>4, LocalKept DEF core, history, JobInv

LEMMA AddSaltStep ==
  ASSUME JobInv, NEW u \in Users, AddSalt(u)
  PROVE  JobInv'
  <1> USE Types DEF AddSalt, AddReturn
  <1>1. Jobs' = Jobs /\ Pending(u)' = Pending(u)
    BY DEF history, Jobs, Pending
  <1>2. pc[u] = "addSalt"
    BY DEF At
  <1>3. CASE Matches(Dependee(u))
    <2>1. pc' = [pc EXCEPT ![u] = "addState"] /\ UNCHANGED <<nodeMutex, edge>>
      BY <1>3 DEF Goto
    <2>2. TypeOK'
      BY <1>1, <2>1 DEF TypeOK, instances, history, UserLabels
    <2>3. UserKnown(u)'
      BY <1>1, <1>2, <2>1 DEF UserKnown
    <2> QED BY <1>2, <2>1, <2>2, <2>3, LocalKept DEF core, history, JobInv
  <1>4. CASE ~Matches(Dependee(u))
    <2>1. /\ pc' = [pc EXCEPT ![u] = "idle"] /\ edge' = [edge EXCEPT ![u] = <<>>]
          /\ nodeMutex' = [nodeMutex EXCEPT ![Dependee(u).id] = Nil]
      BY <1>4 DEF Goto
    <2>2. TypeOK'
      <3>1. edge' \in [Threads -> Seq(Jobs)]
        BY <2>1, EmptySeq
      <3> QED BY <1>1, <2>1, <3>1 DEF TypeOK, instances, history, UserLabels
    <2>3. UserKnown(u)'
      BY <2>1 DEF UserKnown
    <2> QED BY <1>2, <2>1, <2>2, <2>3, LocalKept DEF core, history, JobInv
  <1> QED BY <1>3, <1>4

LEMMA WaitStep ==
  ASSUME JobInv, NEW u \in Users, Wait(u)
  PROVE  JobInv'
  <1> USE Types DEF Wait
  <1>1. PICK j \in Jobs : edge' = [edge EXCEPT ![u] = <<j>>]
    OBVIOUS
  <1>2. Jobs' = Jobs
    BY DEF history, Jobs
  <1>3. pc' = [pc EXCEPT ![u] = "waitSalt"] /\ pc[u] = "idle"
    BY DEF Goto, At
  <1>4. TypeOK'
    <2>1. <<j>> \in Seq(Jobs)
      OBVIOUS
    <2> QED BY <1>1, <1>2, <1>3, <2>1 DEF TypeOK, instances, graph, history, UserLabels
  <1>5. UserKnown(u)'
    BY <1>1, <1>2, <1>3 DEF UserKnown
  <1> QED BY <1>1, <1>3, <1>4, <1>5, LocalKept DEF core, graph, history, JobInv

\* WaitSalt and WaitState, which return j only if its handle is stale or it finished.
LEMMA WaitGoes ==
  ASSUME JobInv, NEW u \in Users, NEW j \in Jobs, edge[u] = <<j>>, NEW result,
         UNCHANGED core, UNCHANGED nodeMutex, pc[u] \in {"waitSalt", "waitState"},
         result \subseteq {j}, result # {} => ~Matches(jobs[j]) \/ state[jobs[j].id] = "eFinished",
         \/ WaitReturn(u, result)
         \/ \E label \in {"waitSalt", "waitState"} : Goto(u, label) /\ UNCHANGED <<edge, waited>>
  PROVE  JobInv'
  <1> USE Types DEF WaitReturn, Goto
  <1>1. Jobs' = Jobs
    BY DEF core, Jobs
  <1>2. result \subseteq done
    BY DEF JobKnown, Matches
  <1>3. waited \subseteq done
    BY DEF JobInv
  <1>4. waited' \subseteq done /\ waited' \subseteq Jobs
    BY <1>2, <1>3 DEF TypeOK
  <1>5. CASE WaitReturn(u, result)
    <2>1. edge' \in [Threads -> Seq(Jobs)]
      BY <1>5, EmptySeq
    <2>2. TypeOK'
      BY <1>1, <1>4, <1>5, <2>1 DEF TypeOK, core, instances, UserLabels
    <2>3. UserKnown(u)'
      BY <1>5 DEF UserKnown
    <2> QED BY <1>4, <1>5, <2>2, <2>3, LocalKept
  <1>6. ASSUME NEW label \in {"waitSalt", "waitState"}, Goto(u, label), UNCHANGED <<edge, waited>>
        PROVE  JobInv'
    <2>1. TypeOK'
      BY <1>1, <1>6 DEF TypeOK, core, instances, UserLabels
    <2>2. UserKnown(u)'
      BY <1>1, <1>6 DEF UserKnown
    <2> QED BY <1>4, <1>6, <2>1, <2>2, LocalKept
  <1> QED BY <1>5, <1>6

LEMMA WaitSaltStep ==
  ASSUME JobInv, NEW u \in Users, WaitSalt(u)
  PROVE  JobInv'
  <1> USE Types DEF WaitSalt
  <1>1. pc[u] = "waitSalt"
    BY DEF At
  <1>2. PICK j \in Jobs : edge[u] = <<j>>
    BY <1>1 DEF UserKnown
  <1>3. UNCHANGED core /\ UNCHANGED nodeMutex
    BY DEF core, graph
  <1>4. CASE Matches(jobs[j])
    <2>1. Goto(u, "waitState") /\ UNCHANGED <<edge, waited>>
      BY <1>2, <1>4
    <2> QED BY <1>1, <1>2, <1>3, <2>1, WaitGoes
  <1>5. CASE ~Matches(jobs[j])
    <2>1. WaitReturn(u, {j})
      BY <1>2, <1>5
    <2> QED BY <1>1, <1>2, <1>3, <1>5, <2>1, WaitGoes
  <1> QED BY <1>4, <1>5

LEMMA WaitStateStep ==
  ASSUME JobInv, NEW u \in Users, WaitState(u)
  PROVE  JobInv'
  <1> USE Types DEF WaitState
  <1>1. pc[u] = "waitState"
    BY DEF At
  <1>2. PICK j \in Jobs : edge[u] = <<j>>
    BY <1>1 DEF UserKnown
  <1>3. UNCHANGED core /\ UNCHANGED nodeMutex
    BY DEF core, graph
  <1>4. \/ state[jobs[j].id] = "eFinished" /\ WaitReturn(u, {j})
        \/ WaitReturn(u, {})
        \/ Goto(u, "waitSalt") /\ UNCHANGED <<edge, waited>>
    BY <1>2
  <1>5. CASE state[jobs[j].id] = "eFinished" /\ WaitReturn(u, {j})
    BY <1>1, <1>2, <1>3, <1>5, WaitGoes
  <1>6. CASE WaitReturn(u, {}) \/ (Goto(u, "waitSalt") /\ UNCHANGED <<edge, waited>>)
    BY <1>1, <1>2, <1>3, <1>6, WaitGoes
  <1> QED BY <1>4, <1>5, <1>6

-----------------------------------------------------------------------------
(* finishJob, but for the loop *)

LEMMA FinishLockStep ==
  ASSUME JobInv, NEW w \in Workers, FinishLock(w)
  PROVE  JobInv'
  <1> USE Types DEF FinishLock
  <1>1. pc[w] = "finishLock" /\ pc' = [pc EXCEPT ![w] = "finishLoop"] /\ Finishing(w)
    BY DEF At, Goto, Finishing
  <1>2. slot[w] \in Slots
    BY <1>1 DEF WorkerKnown, Holding
  <1>3. TypeOK'
    <2>1. Jobs' = Jobs
      BY DEF history, Jobs
    <2> QED BY <1>1, <1>2, <2>1 DEF TypeOK, history, WorkerLabels
  <1>4. /\ \A s \in Slots \ {slot[w]} : state'[s] = state[s] /\ salt'[s] = salt[s]
        /\ state'[slot[w]] = "eFinished"
    BY <1>2
  <1>5. "finishLoop" \in WorkerLabels \ {"idle", "running", "finishLock"}
    BY DEF WorkerLabels
  <1> QED BY <1>1, <1>3, <1>4, <1>5, FinishKept

LEMMA FinishUnlockStep ==
  ASSUME JobInv, NEW w \in Workers, FinishUnlock(w)
  PROVE  JobInv'
  <1> USE Types DEF FinishUnlock
  <1>1. /\ pc[w] = "finishLoop" /\ pc' = [pc EXCEPT ![w] = "bumpSalt"] /\ Finishing(w)
        /\ UNCHANGED <<state, salt, dependencyCount>>
    BY DEF At, Goto, Finishing, instances
  <1>2. slot[w] \in Slots /\ state[slot[w]] = "eFinished"
    BY <1>1 DEF WorkerKnown, Holding, Finishing, At
  <1>3. TypeOK'
    <2>1. Jobs' = Jobs
      BY DEF history, Jobs
    <2> QED BY <1>1, <1>2, <2>1 DEF TypeOK, history, instances, WorkerLabels
  <1>4. "bumpSalt" \in WorkerLabels \ {"idle", "running", "finishLock"}
    BY DEF WorkerLabels
  <1>5. dependers[slot[w]] = <<>>
    OBVIOUS
  <1> QED BY <1>1, <1>2, <1>3, <1>4, <1>5, FinishKept

LEMMA SaltStep ==
  ASSUME JobInv, NEW w \in Workers, BumpSalt(w) \/ ResetSalt(w)
  PROVE  JobInv'
  <1> USE Types
  <1>1. PICK label \in {"resetSalt", "release"} : pc' = [pc EXCEPT ![w] = label]
    BY DEF BumpSalt, ResetSalt, Goto
  <1>2. /\ pc[w] \in {"bumpSalt", "resetSalt"} /\ Finishing(w)
        /\ UNCHANGED <<state, graph, dependencyCount, pool, queue, slot, target, edge, history>>
    BY DEF At, Finishing, BumpSalt, ResetSalt
  <1>3. slot[w] \in Slots /\ state[slot[w]] = "eFinished" /\ dependers[slot[w]] = <<>>
    BY <1>2 DEF WorkerKnown, Holding, Finishing, At
  <1>4. salt' \in [Slots -> 0 .. kInvalidSalt] /\ \A s \in Slots \ {slot[w]} : salt'[s] = salt[s]
    <2>1. (salt[slot[w]] + 1) % (Salts + 1) \in 0 .. kInvalidSalt
      <3>1. salt[slot[w]] + 1 \in Nat
        BY <1>3
      <3> QED BY <3>1 DEF kInvalidSalt
    <2>2. 0 \in 0 .. kInvalidSalt
      BY DEF kInvalidSalt
    <2>3. PICK v \in 0 .. kInvalidSalt : salt' = [salt EXCEPT ![slot[w]] = v]
      BY <2>1, <2>2 DEF BumpSalt, ResetSalt
    <2> QED BY <1>3, <2>3
  <1>5. TypeOK'
    <2>1. Jobs' = Jobs
      BY <1>2 DEF history, Jobs
    <2> QED BY <1>1, <1>2, <1>4, <2>1 DEF TypeOK, history, graph, WorkerLabels
  <1>6. label \in WorkerLabels \ {"idle", "running", "finishLock"}
    BY DEF WorkerLabels
  <1>7. pc[w] \notin {"decrement", "enqueue"} /\ label \notin {"decrement", "enqueue"}
    BY <1>2
  <1>8. state'[slot[w]] = "eFinished"
        /\ \A s \in Slots \ {slot[w]} : state'[s] = state[s] /\ salt'[s] = salt[s]
    BY <1>2, <1>3, <1>4
  <1>9. UNCHANGED <<dependencyCount, dependers, pool, queue, slot, target, edge, history>>
    BY <1>2 DEF graph
  <1> QED BY <1>1, <1>2, <1>3, <1>5, <1>6, <1>7, <1>8, <1>9, FinishKept

-----------------------------------------------------------------------------
(* runJob, and the slot goes back to the pool *)

LEMMA CountIs ==
  ASSUME NEW s \in Slots, Counted(s), dependencyCount[s] \in Nat
  PROVE  /\ dependencyCount[s] = 0 =>
              Waits(s) = {} /\ Decrementing(s) = {} /\ Listings(s) = {}
         /\ Waits(s) # {} \/ Decrementing(s) # {} \/ Listings(s) # {} => dependencyCount[s] > 0
         /\ Cardinality(Waits(s)) \in Nat /\ Cardinality(Decrementing(s)) \in Nat
         /\ Cardinality(Listings(s)) \in Nat
  <1>1. /\ Cardinality(Waits(s)) \in Nat /\ Cardinality(Decrementing(s)) \in Nat
        /\ Cardinality(Listings(s)) \in Nat
    BY FS_CardinalityType DEF Counted
  <1>2. /\ Waits(s) = {} <=> Cardinality(Waits(s)) = 0
        /\ Decrementing(s) = {} <=> Cardinality(Decrementing(s)) = 0
        /\ Listings(s) = {} <=> Cardinality(Listings(s)) = 0
    BY FS_EmptySet DEF Counted
  <1>3. dependencyCount[s] =
          Cardinality(Waits(s)) + Cardinality(Decrementing(s)) + Cardinality(Listings(s))
    BY DEF Counted
  <1> QED BY <1>1, <1>2, <1>3

LEMMA JobInIs ==
  ASSUME JobInv, NEW j \in Jobs, Latest(j)
  PROVE  JobIn(jobs[j].id) = j
  <1>1. \A k \in Jobs : k \in Nat
    BY Types
  <1>2. \A k \in Jobs : jobs[k].id = jobs[j].id => k <= j
    BY DEF Latest
  <1>3. \A k \in Jobs : /\ jobs[k].id = jobs[j].id
                        /\ \A i \in Jobs : jobs[i].id = jobs[j].id => i <= k
                        => k = j
    BY <1>1, <1>2
  <1> QED BY <1>2, <1>3 DEF JobIn

LEMMA RunStep ==
  ASSUME JobInv, NEW w \in Workers, Run(w)
  PROVE  JobInv'
  <1> USE Types DEF Run, instances, graph, history
  <1>1. PICK x \in queue : queue' = queue \ {x} /\ slot' = [slot EXCEPT ![w] = x]
    OBVIOUS
  <1>2. pc' = [pc EXCEPT ![w] = "running"] /\ pc[w] = "idle"
    BY DEF Goto, At
  <1>3. x \in Slots /\ x \notin pool /\ dependencyCount[x] = 0
    BY <1>1 DEF SlotKnown, TypeOK
  <1>4. Jobs' = Jobs /\ jobs' \in Seq(Handles)
    BY DEF Jobs
  <1>5. TypeOK'
    BY <1>1, <1>2, <1>3, <1>4 DEF TypeOK, WorkerLabels
  <1>6. /\ \A t \in Threads : At(t, "enqueue")' <=> At(t, "enqueue")
        /\ \A t \in Threads : At(t, "decrement")' <=> At(t, "decrement")
        /\ \A v \in Workers : Finishing(v)' <=> Finishing(v)
        /\ \A v \in Workers \ {w} : (Holding(v)' <=> Holding(v)) /\ slot'[v] = slot[v]
        /\ Holding(w)' /\ slot'[w] = x /\ ~Holding(w) /\ ~Finishing(w)
    BY <1>1, <1>2 DEF At, Finishing, Holding
  <1>7. ASSUME NEW s \in Slots PROVE Counted(s)' /\ SlotKnown(s)'
    <2>1. Counted(s)'
      BY <1>6, CountedKept
    <2>2. CASE s # x
      <3>1. SlotKnown(s)'
        BY <1>1, <1>6, <2>2, SlotKept
      <3> QED BY <2>1, <3>1
    <2>3. CASE s = x
      <3>1. \E v \in Workers : Holding(v)' /\ slot'[v] = s
        BY <1>6, <2>3
      <3>2. \A j \in Jobs : Latest(j)' <=> Latest(j)
        BY <1>4 DEF Latest
      <3>3. \E j \in Jobs : jobs[j].id = s /\ Latest(j)
        BY <1>3, <2>3 DEF SlotKnown
      <3>4. \E j \in Jobs' : jobs'[j].id = s /\ Latest(j)'
        BY <1>4, <3>2, <3>3
      <3>5. s \notin pool' /\ s \notin queue' /\ dependencyCount'[s] = 0
        BY <1>1, <1>3, <2>3
      <3> QED BY <2>1, <3>1, <3>4, <3>5 DEF SlotKnown
    <2> QED BY <2>2, <2>3
  <1>8. \A t \in Threads : ThreadKnown(t)'
    <2>1. \A t \in Threads : pc'[t] \in {"decrement", "enqueue"} =>
            target'[t] \in Slots /\ (pc'[t] = "enqueue" => pc[t] = "enqueue" /\ target'[t] = target[t])
      BY <1>2 DEF ThreadKnown
    <2>2. \A t \in Threads : pc[t] = "enqueue" =>
            /\ target[t] \notin pool' \cup queue'
            /\ dependencyCount'[target[t]] = dependencyCount[target[t]]
            /\ state'[target[t]] = state[target[t]]
      BY <1>1 DEF ThreadKnown, At
    <2> QED BY <2>1, <2>2, ThreadsKept
  <1>9. ASSUME NEW u \in Users PROVE UserKnown(u)'
    <2>1. Pending(u) \subseteq Pending(u)' /\ pc'[u] = pc[u]
      BY <1>2, <1>4 DEF Pending
    <2> QED BY <1>4, <2>1, UserKept
  <1>10. ASSUME NEW v \in Workers PROVE WorkerKnown(v)'
    <2>1. CASE v # w
      <3>1. Holding(v) => slot[v] \notin pool \cup queue
        BY DEF WorkerKnown
      <3>2. Holding(v) => /\ slot[v] \notin pool' \cup queue'
                          /\ dependencyCount'[slot[v]] = dependencyCount[slot[v]]
                          /\ state'[slot[v]] = state[slot[v]]
                          /\ \A t \in Threads : At(t, "enqueue")' => target'[t] # slot[v]
                          /\ \A r \in Workers : Holding(r)' /\ slot'[r] = slot[v] => r = v
        BY <1>1, <1>6, <3>1 DEF WorkerKnown
      <3> QED BY <1>2, <1>6, <2>1, <3>2, WorkerKept
    <2>2. CASE v = w
      <3>1. x \in Slots \ (pool' \cup queue') /\ dependencyCount'[x] = 0
        BY <1>1, <1>3
      <3>2. \A t \in Threads : At(t, "enqueue")' => target'[t] # x
        BY <1>1, <1>6 DEF ThreadKnown
      <3>3. \A r \in Workers : Holding(r)' /\ slot'[r] = x => r = w
        BY <1>1, <1>6 DEF WorkerKnown
      <3>4. pc'[w] = "running" /\ ~Finishing(w)'
        BY <1>2 DEF Finishing
      <3> QED BY <1>6, <2>2, <3>1, <3>2, <3>3, <3>4 DEF WorkerKnown
    <2> QED BY <2>1, <2>2
  <1>11. ASSUME NEW j \in Jobs PROVE JobKnown(j)'
    BY <1>6, JobKept
  <1>12. \A p \in asked' : AskedKnown(p[1], p[2])'
    BY AskedKept
  <1>13. done' \subseteq scheduled' /\ waited' \subseteq done'
    BY DEF JobInv
  <1> QED BY <1>4, <1>5, <1>7, <1>8, <1>9, <1>10, <1>11, <1>12, <1>13 DEF JobInv

LEMMA RunReturnsStep ==
  ASSUME JobInv, NEW w \in Workers, RunReturns(w)
  PROVE  JobInv'
  <1> USE Types DEF RunReturns, instances, graph
  <1>1. pc' = [pc EXCEPT ![w] = "finishLock"] /\ pc[w] = "running"
    BY DEF Goto, At
  <1>2. PICK x : x = slot[w]
    OBVIOUS
  <1>3. /\ Holding(w) /\ x \in Slots \ (pool \cup queue) /\ dependencyCount[x] = 0
        /\ \A t \in Threads : At(t, "enqueue") => target[t] # x
        /\ \A v \in Workers : Holding(v) /\ slot[v] = x => v = w
    BY <1>1, <1>2 DEF WorkerKnown, Holding
  <1>4. PICK i \in Jobs : jobs[i].id = x /\ Latest(i)
    BY <1>3 DEF SlotKnown
  <1>5. done' = done \cup {i}
    BY <1>2, <1>4, JobInIs
  <1>6. i \in scheduled
    <2>1. Waits(x) = {}
      BY <1>3, CountIs
    <2> QED BY <1>4, <2>1 DEF Waits
  <1>7. Jobs' = Jobs /\ jobs' \in Seq(Handles)
    BY DEF Jobs
  <1>8. TypeOK'
    BY <1>1, <1>4, <1>5, <1>7 DEF TypeOK, WorkerLabels
  <1>9. /\ \A t \in Threads : At(t, "enqueue")' <=> At(t, "enqueue")
        /\ \A t \in Threads : At(t, "decrement")' <=> At(t, "decrement")
        /\ \A v \in Workers : Holding(v)' <=> Holding(v)
        /\ \A v \in Workers \ {w} : Finishing(v)' <=> Finishing(v)
        /\ Finishing(w)' /\ ~Finishing(w)
    BY <1>1 DEF At, Finishing, Holding
  <1>10. ASSUME NEW s \in Slots PROVE Counted(s)' /\ SlotKnown(s)'
    <2>1. Counted(s)'
      BY <1>9, CountedKept
    <2>2. SlotKnown(s)'
      BY <1>9, SlotKept
    <2> QED BY <2>1, <2>2
  <1>11. \A t \in Threads : ThreadKnown(t)'
    <2>1. \A t \in Threads : pc'[t] \in {"decrement", "enqueue"} =>
            target'[t] \in Slots /\ (pc'[t] = "enqueue" => pc[t] = "enqueue" /\ target'[t] = target[t])
      BY <1>1 DEF ThreadKnown
    <2>2. \A t \in Threads : pc[t] = "enqueue" =>
            /\ target[t] \notin pool' \cup queue'
            /\ dependencyCount'[target[t]] = dependencyCount[target[t]]
            /\ state'[target[t]] = state[target[t]]
      BY DEF ThreadKnown, At
    <2> QED BY <2>1, <2>2, ThreadsKept
  <1>12. ASSUME NEW u \in Users PROVE UserKnown(u)'
    <2>1. Pending(u) \subseteq Pending(u)' /\ pc'[u] = pc[u]
      BY <1>1, <1>7 DEF Pending
    <2> QED BY <1>7, <2>1, UserKept
  <1>13. ASSUME NEW v \in Workers PROVE WorkerKnown(v)'
    <2>1. CASE v # w
      <3>1. Holding(v) => /\ slot[v] \notin pool' \cup queue'
                          /\ dependencyCount'[slot[v]] = dependencyCount[slot[v]]
                          /\ state'[slot[v]] = state[slot[v]]
                          /\ \A t \in Threads : At(t, "enqueue")' => target'[t] # slot[v]
                          /\ \A r \in Workers : Holding(r)' /\ slot'[r] = slot[v] => r = v
        BY <1>9 DEF WorkerKnown
      <3> QED BY <1>1, <2>1, <3>1, WorkerKept
    <2>2. CASE v = w
      <3>1. slot'[w] = x /\ x \in Slots \ (pool' \cup queue') /\ dependencyCount'[x] = 0
        BY <1>2, <1>3
      <3>2. /\ \A t \in Threads : At(t, "enqueue")' => target'[t] # x
            /\ \A r \in Workers : Holding(r)' /\ slot'[r] = x => r = w
        BY <1>3, <1>9
      <3>3. pc'[w] = "finishLock" /\ At(w, "finishLock")'
        BY <1>1 DEF At
      <3> QED BY <2>2, <3>1, <3>2, <3>3 DEF WorkerKnown
    <2> QED BY <2>1, <2>2
  <1>14. ASSUME NEW j \in Jobs PROVE JobKnown(j)'
    <2>1. CASE jobs[j].id # x
      <3>1. j # i
        BY <1>4, <2>1
      <3> QED BY <1>2, <1>5, <1>9, <2>1, <3>1, JobKept
    <2>2. CASE jobs[j].id = x
      <3>1. j \in done'
        <4>1. j \notin done => Latest(j)
          BY DEF JobKnown
        <4>2. Latest(j) => i <= j /\ j <= i
          BY <1>4, <2>2 DEF Latest
        <4>3. i \in Nat /\ j \in Nat
          OBVIOUS
        <4> QED BY <1>5, <4>1, <4>2, <4>3
      <3>2. \E v \in Workers : Finishing(v)' /\ slot'[v] = x
        BY <1>2, <1>9
      <3> QED BY <2>2, <3>1, <3>2 DEF JobKnown
    <2> QED BY <2>1, <2>2
  <1>15. \A p \in asked' : AskedKnown(p[1], p[2])'
    BY <1>5, AskedKept
  <1>16. done' \subseteq scheduled' /\ waited' \subseteq done'
    BY <1>5, <1>6 DEF JobInv
  <1> QED BY <1>7, <1>8, <1>10, <1>11, <1>12, <1>13, <1>14, <1>15, <1>16 DEF JobInv

LEMMA ReleaseStep ==
  ASSUME JobInv, NEW w \in Workers, Release(w)
  PROVE  JobInv'
  <1> USE Types DEF Release, instances, graph, history
  <1>1. /\ pc' = [pc EXCEPT ![w] = "idle"] /\ pc[w] = "release"
        /\ slot' = [slot EXCEPT ![w] = Nil]
    BY DEF Goto, At
  <1>2. PICK x : x = slot[w]
    OBVIOUS
  <1>3. /\ Holding(w) /\ x \in Slots \ (pool \cup queue) /\ dependencyCount[x] = 0
        /\ \A t \in Threads : At(t, "enqueue") => target[t] # x
        /\ \A v \in Workers : Holding(v) /\ slot[v] = x => v = w
        /\ state[x] = "eFinished" /\ dependers[x] = <<>> /\ Finishing(w)
    BY <1>1, <1>2 DEF WorkerKnown, Holding, Finishing, At
  <1>4. Jobs' = Jobs /\ jobs' \in Seq(Handles) /\ pool' = pool \cup {x}
    BY <1>2 DEF Jobs
  <1>5. TypeOK'
    BY <1>1, <1>3, <1>4 DEF TypeOK, WorkerLabels
  <1>6. /\ \A t \in Threads : At(t, "enqueue")' <=> At(t, "enqueue")
        /\ \A t \in Threads : At(t, "decrement")' <=> At(t, "decrement")
        /\ \A v \in Workers \ {w} : /\ Holding(v)' <=> Holding(v)
                                    /\ Finishing(v)' <=> Finishing(v)
                                    /\ slot'[v] = slot[v]
        /\ ~Holding(w)' /\ ~Finishing(w)'
    BY <1>1 DEF At, Finishing, Holding
  <1>7. ASSUME NEW s \in Slots PROVE Counted(s)' /\ SlotKnown(s)'
    <2>1. Counted(s)'
      BY <1>6, CountedKept
    <2>2. CASE s # x
      <3>1. \A v \in Workers : Holding(v) /\ slot[v] = s => (Holding(v) /\ slot[v] = s)'
        BY <1>2, <1>6, <2>2
      <3>2. \A t \in Threads : At(t, "enqueue") /\ target[t] = s
                                 => (At(t, "enqueue") /\ target[t] = s)'
        BY <1>6
      <3>3. SlotKnown(s)'
        BY <1>4, <2>2, <3>1, <3>2, SlotKept
      <3> QED BY <2>1, <3>3
    <2>3. CASE s = x
      <3>1. /\ s \in pool' /\ s \notin queue' /\ dependencyCount'[s] = 0
            /\ dependers'[s] = <<>> /\ state'[s] = "eFinished"
        BY <1>3, <1>4, <2>3
      <3> QED BY <2>1, <3>1 DEF SlotKnown
    <2> QED BY <2>2, <2>3
  <1>8. \A t \in Threads : ThreadKnown(t)'
    <2>1. \A t \in Threads : pc'[t] \in {"decrement", "enqueue"} =>
            target'[t] \in Slots /\ (pc'[t] = "enqueue" => pc[t] = "enqueue" /\ target'[t] = target[t])
      BY <1>1 DEF ThreadKnown
    <2>2. \A t \in Threads : pc[t] = "enqueue" =>
            /\ target[t] \notin pool' \cup queue'
            /\ dependencyCount'[target[t]] = dependencyCount[target[t]]
            /\ state'[target[t]] = state[target[t]]
      BY <1>3, <1>4 DEF ThreadKnown, At
    <2> QED BY <2>1, <2>2, ThreadsKept
  <1>9. ASSUME NEW u \in Users PROVE UserKnown(u)'
    <2>1. Pending(u) \subseteq Pending(u)' /\ pc'[u] = pc[u]
      BY <1>1, <1>4 DEF Pending
    <2> QED BY <1>4, <2>1, UserKept
  <1>10. ASSUME NEW v \in Workers PROVE WorkerKnown(v)'
    <2>1. CASE v # w
      <3>1. Holding(v) => slot[v] # x
        BY <1>3, <2>1
      <3>2. Holding(v) => /\ slot[v] \notin pool' \cup queue'
                          /\ dependencyCount'[slot[v]] = dependencyCount[slot[v]]
                          /\ state'[slot[v]] = state[slot[v]]
                          /\ \A t \in Threads : At(t, "enqueue")' => target'[t] # slot[v]
                          /\ \A r \in Workers : Holding(r)' /\ slot'[r] = slot[v] => r = v
        BY <1>4, <1>6, <3>1 DEF WorkerKnown
      <3> QED BY <1>1, <1>6, <2>1, <3>2, WorkerKept
    <2>2. CASE v = w
      <3>1. pc'[w] = "idle"
        BY <1>1
      <3> QED BY <1>6, <2>2, <3>1 DEF WorkerKnown
    <2> QED BY <2>1, <2>2
  <1>11. ASSUME NEW j \in Jobs PROVE JobKnown(j)'
    <2>1. CASE jobs[j].id # x
      <3>1. \A v \in Workers : (Finishing(v) /\ slot[v] = jobs[j].id)'
                                 <=> Finishing(v) /\ slot[v] = jobs[j].id
        BY <1>2, <1>6, <2>1
      <3> QED BY <1>4, <2>1, <3>1, JobKept
    <2>2. CASE jobs[j].id = x
      <3>1. j \in done
        BY <1>2, <1>3, <2>2 DEF JobKnown
      <3> QED BY <1>4, <2>2, <3>1 DEF JobKnown
    <2> QED BY <2>1, <2>2
  <1>12. \A p \in asked' : AskedKnown(p[1], p[2])'
    BY AskedKept
  <1>13. done' \subseteq scheduled' /\ waited' \subseteq done'
    BY DEF JobInv
  <1> QED BY <1>4, <1>5, <1>7, <1>8, <1>9, <1>10, <1>11, <1>12, <1>13 DEF JobInv

-----------------------------------------------------------------------------
(* decrementJobDependencyCount *)

LEMMA DecrementStep ==
  ASSUME JobInv, NEW t \in Threads, Decrement(t)
  PROVE  JobInv'
  <1> USE Types DEF Decrement, graph, history
  <1>1. pc[t] = "decrement" /\ target[t] \in Slots
    BY DEF At, ThreadKnown
  <1>2. PICK y \in Slots : y = target[t]
    BY <1>1
  <1>3. t \in Decrementing(y)
    BY <1>1, <1>2 DEF Decrementing, At
  <1>4. dependencyCount[y] > 0
    BY <1>3, CountIs
  <1>5. /\ state[y] = "eAllocated" /\ y \notin pool /\ y \notin queue
        /\ \A r \in Threads : At(r, "enqueue") => target[r] # y
        /\ \A v \in Workers : Holding(v) => slot[v] # y
    BY <1>4 DEF SlotKnown, ThreadKnown, WorkerKnown
  <1>6. /\ dependencyCount' = [dependencyCount EXCEPT ![y] = dependencyCount[y] - 1]
        /\ dependencyCount[y] - 1 \in Nat
    BY <1>2, <1>4
  <1>7. \/ /\ dependencyCount[y] = 1 /\ pc' = [pc EXCEPT ![t] = "enqueue"] /\ target' = target
        \/ /\ dependencyCount[y] # 1 /\ target' = [target EXCEPT ![t] = Nil]
           /\ pc' = [pc EXCEPT ![t] = IF t \in Users THEN "idle" ELSE "finishLoop"]
    BY <1>2 DEF DecrementReturn, Goto
  <1>8. /\ pc'[t] \in {"enqueue", "idle", "finishLoop"} /\ (t \in Workers => pc'[t] # "idle")
        /\ t \in Users => pc'[t] \in {"idle", "enqueue"}
        /\ \A r \in Threads \ {t} : pc'[r] = pc[r] /\ target'[r] = target[r]
    BY <1>7
  <1>9. Jobs' = Jobs /\ jobs' \in Seq(Handles)
    BY DEF Jobs
  <1>10. TypeOK'
    <2>1. /\ pc' \in [Threads -> UserLabels \cup WorkerLabels]
          /\ \A u \in Users : pc'[u] \in UserLabels
          /\ \A w \in Workers : pc'[w] \in WorkerLabels
      <3>1. PICK label \in {"enqueue", "idle", "finishLoop"} :
              /\ pc' = [pc EXCEPT ![t] = label]
              /\ t \in Users => label # "finishLoop"
        BY <1>7
      <3>2. t \in Workers => label # "idle"
        BY <1>8, <3>1
      <3> QED BY <3>1, <3>2 DEF TypeOK, WorkerLabels, UserLabels
    <2>2. target' \in [Threads -> Slots \cup {Nil}] /\ dependencyCount' \in [Slots -> Nat]
      BY <1>6, <1>7
    <2> QED BY <1>9, <2>1, <2>2 DEF TypeOK
  <1>11. /\ \A v \in Workers : Holding(v)' <=> Holding(v)
         /\ \A v \in Workers : Finishing(v)' <=> Finishing(v)
         /\ \A r \in Threads \ {t} : At(r, "enqueue")' <=> At(r, "enqueue")
         /\ ~At(t, "enqueue") /\ ~At(t, "decrement")'
    BY <1>1, <1>8 DEF At, Finishing, Holding
  <1>12. ASSUME NEW s \in Slots PROVE Counted(s)' /\ SlotKnown(s)'
    <2>1. CASE s # y
      <3>1. \A r \in Threads : (At(r, "decrement") /\ target[r] = s)'
                                 <=> At(r, "decrement") /\ target[r] = s
        BY <1>1, <1>2, <1>8, <1>11, <2>1 DEF At
      <3>2. \A r \in Threads : At(r, "enqueue") /\ target[r] = s
                                 => (At(r, "enqueue") /\ target[r] = s)'
        BY <1>8, <1>11
      <3>3. Counted(s)'
        BY <1>6, <2>1, <3>1, CountedKept
      <3>4. SlotKnown(s)'
        BY <1>6, <1>11, <2>1, <3>2, SlotKept
      <3> QED BY <3>3, <3>4
    <2>2. CASE s = y
      <3>1. Waits(y)' = Waits(y) /\ Listings(y)' = Listings(y)
        BY <1>9 DEF Waits, Listings
      <3>2. Decrementing(y)' = Decrementing(y) \ {t}
        BY <1>2, <1>8, <1>11 DEF Decrementing, At
      <3>3. /\ IsFiniteSet(Decrementing(y)')
            /\ Cardinality(Decrementing(y)') = Cardinality(Decrementing(y)) - 1
        <4>1. IsFiniteSet(Decrementing(y))
          BY DEF Counted
        <4>2. /\ IsFiniteSet(Decrementing(y) \ {t})
              /\ Cardinality(Decrementing(y) \ {t}) = Cardinality(Decrementing(y)) - 1
          BY <1>3, <4>1, FS_RemoveElement
        <4> QED BY <3>2, <4>2
      <3>4. /\ Cardinality(Waits(y)) \in Nat /\ Cardinality(Decrementing(y)) \in Nat
            /\ Cardinality(Listings(y)) \in Nat
        BY CountIs
      <3>5. dependencyCount[y] = Cardinality(Waits(y)) + Cardinality(Decrementing(y))
                                   + Cardinality(Listings(y))
        BY DEF Counted
      <3>6. dependencyCount'[y] = Cardinality(Waits(y)) + Cardinality(Decrementing(y)')
                                    + Cardinality(Listings(y))
        BY <1>6, <3>3, <3>4, <3>5
      <3>7. Counted(y)'
        <4>1. IsFiniteSet(Waits(y)) /\ IsFiniteSet(Listings(y))
          BY DEF Counted
        <4> QED BY <3>1, <3>3, <3>6, <4>1 DEF Counted
      <3>8. dependencyCount'[y] > 0 \/ (At(t, "enqueue") /\ target[t] = y)'
        BY <1>2, <1>4, <1>6, <1>7 DEF At
      <3>9. \E j \in Jobs' : jobs'[j].id = y /\ Latest(j)'
        <4>1. \E j \in Jobs : jobs[j].id = y /\ Latest(j)
          BY <1>5 DEF SlotKnown
        <4> QED BY <1>9, <4>1 DEF Latest
      <3>10. SlotKnown(y)'
        BY <1>5, <3>8, <3>9 DEF SlotKnown
      <3> QED BY <2>2, <3>7, <3>10
    <2> QED BY <2>1, <2>2
  <1>13. ASSUME NEW r \in Threads PROVE ThreadKnown(r)'
    <2>1. CASE r # t
      <3>1. pc'[r] = pc[r] /\ target'[r] = target[r]
        BY <1>8, <2>1
      <3>2. CASE ~At(r, "enqueue")
        BY <3>1, <3>2 DEF ThreadKnown, At
      <3>3. CASE At(r, "enqueue")
        <4>1. PICK z \in Slots : z = target[r] /\ z = target'[r]
          BY <3>1, <3>3 DEF ThreadKnown, At
        <4>2. z # y /\ z \notin pool \cup queue /\ dependencyCount[z] = 0 /\ state[z] = "eAllocated"
          BY <1>5, <3>3, <4>1 DEF ThreadKnown
        <4>3. \A q \in Threads : At(q, "enqueue") /\ target[q] = z => q = r
          BY <3>3, <4>1 DEF ThreadKnown
        <4>4. target'[t] # z \/ ~At(t, "enqueue")'
          BY <1>2, <1>7, <4>2 DEF At
        <4>5. \A q \in Threads : At(q, "enqueue")' /\ target'[q] = z => q = r
          BY <1>8, <1>11, <4>3, <4>4
        <4>6. dependencyCount'[z] = 0 /\ state'[z] = "eAllocated" /\ z \notin pool' \cup queue'
          BY <1>6, <4>2
        <4> QED BY <4>1, <4>5, <4>6 DEF ThreadKnown
      <3> QED BY <3>2, <3>3
    <2>2. CASE r = t
      <3>1. CASE dependencyCount[y] = 1
        <4>1. target'[t] = y /\ dependencyCount'[y] = 0
          BY <1>2, <1>6, <1>7, <3>1
        <4>2. \A q \in Threads : At(q, "enqueue")' /\ target'[q] = y => q = t
          BY <1>5, <1>8, <1>11
        <4> QED BY <1>5, <2>2, <4>1, <4>2 DEF ThreadKnown
      <3>2. CASE dependencyCount[y] # 1
        <4>1. pc'[t] \in {"idle", "finishLoop"}
          BY <1>7, <3>2
        <4> QED BY <2>2, <4>1 DEF ThreadKnown, At
      <3> QED BY <3>1, <3>2
    <2> QED BY <2>1, <2>2
  <1>14. ASSUME NEW u \in Users PROVE UserKnown(u)'
    <2>1. Pending(u)' = Pending(u)
      BY <1>9 DEF Pending
    <2>2. u # t => UserKnown(u)'
      BY <1>8, <1>9, <2>1, UserKept
    <2>3. u = t => UserKnown(u)'
      BY <1>8 DEF UserKnown
    <2> QED BY <2>2, <2>3
  <1>15. ASSUME NEW v \in Workers PROVE WorkerKnown(v)'
    <2>1. Holding(v) => /\ slot[v] # y /\ slot[v] \notin pool' \cup queue'
                        /\ dependencyCount'[slot[v]] = dependencyCount[slot[v]]
                        /\ state'[slot[v]] = state[slot[v]]
                        /\ \A r \in Threads : At(r, "enqueue")' => target'[r] # slot[v]
                        /\ \A r \in Workers : Holding(r)' /\ slot'[r] = slot[v] => r = v
      <3>1. Holding(v) => slot[v] # y /\ slot[v] \in Slots /\ slot[v] \notin pool' \cup queue'
        BY <1>5 DEF WorkerKnown
      <3>2. Holding(v) => \A r \in Workers : Holding(r)' /\ slot'[r] = slot[v] => r = v
        BY <1>11 DEF WorkerKnown
      <3>3. Holding(v) => \A r \in Threads : At(r, "enqueue") => target[r] # slot[v]
        BY DEF WorkerKnown
      <3>4. Holding(v) /\ At(t, "enqueue")' => target'[t] # slot[v]
        BY <1>2, <1>7, <3>1 DEF At
      <3>5. Holding(v) => \A r \in Threads : At(r, "enqueue")' => target'[r] # slot[v]
        BY <1>8, <1>11, <3>3, <3>4
      <3> QED BY <1>6, <3>1, <3>2, <3>5
    <2>2. v # t => WorkerKnown(v)'
      BY <1>8, <2>1, WorkerKept
    <2>3. CASE v = t
      <3>1. PICK x : x = slot[v] /\ x = slot'[v]
        OBVIOUS
      <3>2. Holding(v) /\ Holding(v)' /\ Finishing(v) /\ ~At(v, "finishLock")
        BY <1>1, <1>11, <2>3 DEF Holding, Finishing, At
      <3>3. /\ x \in Slots \ (pool' \cup queue') /\ dependencyCount'[x] = 0
            /\ \A r \in Threads : At(r, "enqueue")' => target'[r] # x
            /\ \A r \in Workers : Holding(r)' /\ slot'[r] = x => r = v
            /\ state'[x] = "eFinished"
        BY <2>1, <3>1, <3>2 DEF WorkerKnown
      <3>4. pc'[v] \notin {"bumpSalt", "resetSalt", "release"}
        BY <1>8, <2>3
      <3> QED BY <3>1, <3>3, <3>4 DEF WorkerKnown
    <2> QED BY <2>2, <2>3
  <1>16. ASSUME NEW j \in Jobs PROVE JobKnown(j)'
    BY <1>11, JobKept
  <1>17. \A p \in asked' : AskedKnown(p[1], p[2])'
    BY AskedKept
  <1>18. done' \subseteq scheduled' /\ waited' \subseteq done'
    BY DEF JobInv
  <1> QED BY <1>9, <1>10, <1>12, <1>13, <1>14, <1>15, <1>16, <1>17, <1>18 DEF JobInv

LEMMA EnqueueStep ==
  ASSUME JobInv, NEW t \in Threads, Enqueue(t)
  PROVE  JobInv'
  <1> USE Types DEF Enqueue, graph, history
  <1>1. pc[t] = "enqueue" /\ At(t, "enqueue") /\ target[t] \in Slots
    BY DEF At, ThreadKnown
  <1>2. PICK y \in Slots : y = target[t]
    BY <1>1
  <1>3. /\ y \notin pool /\ y \notin queue /\ dependencyCount[y] = 0 /\ state[y] = "eAllocated"
        /\ \A r \in Threads : At(r, "enqueue") /\ target[r] = y => r = t
        /\ \A v \in Workers : Holding(v) => slot[v] # y
    BY <1>1, <1>2 DEF ThreadKnown, WorkerKnown
  <1>4. /\ state' = [state EXCEPT ![y] = "eScheduled"] /\ queue' = queue \cup {y}
        /\ target' = [target EXCEPT ![t] = Nil]
        /\ pc' = [pc EXCEPT ![t] = IF t \in Users THEN "idle" ELSE "finishLoop"]
    BY <1>2 DEF DecrementReturn, Goto
  <1>5. /\ pc'[t] = (IF t \in Users THEN "idle" ELSE "finishLoop")
        /\ \A r \in Threads \ {t} : pc'[r] = pc[r] /\ target'[r] = target[r]
    BY <1>4
  <1>6. Jobs' = Jobs /\ jobs' \in Seq(Handles)
    BY DEF Jobs
  <1>7. TypeOK'
    BY <1>4, <1>5, <1>6 DEF TypeOK, WorkerLabels, UserLabels, Threads
  <1>8. /\ \A v \in Workers : Holding(v)' <=> Holding(v)
        /\ \A v \in Workers : Finishing(v)' <=> Finishing(v)
        /\ \A r \in Threads : At(r, "enqueue")' <=> At(r, "enqueue") /\ r # t
        /\ \A r \in Threads : At(r, "decrement")' <=> At(r, "decrement")
    BY <1>1, <1>5 DEF At, Finishing, Holding
  <1>9. ~At(t, "decrement")
    BY <1>1 DEF At
  <1>10. ASSUME NEW s \in Slots PROVE Counted(s)' /\ SlotKnown(s)'
    <2>1. Counted(s)'
      BY <1>5, <1>8, <1>9, CountedKept
    <2>2. CASE s # y
      <3>1. \A r \in Threads : At(r, "enqueue") /\ target[r] = s
                                 => (At(r, "enqueue") /\ target[r] = s)'
        BY <1>2, <1>5, <1>8, <2>2
      <3>2. SlotKnown(s)'
        BY <1>4, <1>8, <2>2, <3>1, SlotKept
      <3> QED BY <2>1, <3>2
    <2>3. CASE s = y
      <3>1. /\ s \notin pool' /\ s \in queue' /\ dependencyCount'[s] = 0
            /\ state'[s] = "eScheduled"
        BY <1>3, <1>4, <2>3
      <3>2. \E j \in Jobs' : jobs'[j].id = y /\ Latest(j)'
        <4>1. \E j \in Jobs : jobs[j].id = y /\ Latest(j)
          BY <1>3 DEF SlotKnown
        <4> QED BY <1>6, <4>1 DEF Latest
      <3> QED BY <2>1, <2>3, <3>1, <3>2 DEF SlotKnown
    <2> QED BY <2>2, <2>3
  <1>11. \A r \in Threads : ThreadKnown(r)'
    <2>1. ASSUME NEW r \in Threads PROVE ThreadKnown(r)'
      <3>1. CASE r = t
        BY <1>5, <3>1 DEF ThreadKnown, At
      <3>2. CASE r # t /\ ~At(r, "enqueue")
        BY <1>5, <3>2 DEF ThreadKnown, At
      <3>3. CASE r # t /\ At(r, "enqueue")
        <4>1. PICK z \in Slots : z = target[r] /\ z = target'[r]
          BY <1>5, <3>3 DEF ThreadKnown, At
        <4>2. z # y /\ z \notin pool \cup queue /\ dependencyCount[z] = 0 /\ state[z] = "eAllocated"
          BY <1>3, <3>3, <4>1 DEF ThreadKnown
        <4>3. \A q \in Threads : At(q, "enqueue") /\ target[q] = z => q = r
          BY <3>3, <4>1 DEF ThreadKnown
        <4>4. \A q \in Threads : At(q, "enqueue")' /\ target'[q] = z => q = r
          BY <1>5, <1>8, <4>3
        <4>5. dependencyCount'[z] = 0 /\ state'[z] = "eAllocated" /\ z \notin pool' \cup queue'
          BY <1>4, <4>2
        <4> QED BY <4>1, <4>4, <4>5 DEF ThreadKnown
      <3> QED BY <3>1, <3>2, <3>3
    <2> QED BY <2>1
  <1>12. ASSUME NEW u \in Users PROVE UserKnown(u)'
    <2>1. Pending(u)' = Pending(u)
      BY <1>6 DEF Pending
    <2>2. u # t => UserKnown(u)'
      BY <1>5, <1>6, <2>1, UserKept
    <2>3. u = t => UserKnown(u)'
      BY <1>5 DEF UserKnown
    <2> QED BY <2>2, <2>3
  <1>13. ASSUME NEW v \in Workers PROVE WorkerKnown(v)'
    <2>1. Holding(v) => slot[v] # y /\ slot[v] \in Slots /\ slot[v] \notin pool' \cup queue'
      BY <1>3, <1>4 DEF WorkerKnown
    <2>2. Holding(v) => \A r \in Threads : At(r, "enqueue")' => target'[r] # slot[v]
      BY <1>5, <1>8 DEF WorkerKnown
    <2>3. Holding(v) => \A r \in Workers : Holding(r)' /\ slot'[r] = slot[v] => r = v
      BY <1>8 DEF WorkerKnown
    <2>4. Holding(v) => dependencyCount'[slot[v]] = dependencyCount[slot[v]]
                        /\ state'[slot[v]] = state[slot[v]]
      BY <1>4, <2>1
    <2>5. v # t => WorkerKnown(v)'
      BY <1>5, <2>1, <2>2, <2>3, <2>4, WorkerKept
    <2>6. CASE v = t
      <3>1. PICK x : x = slot[v] /\ x = slot'[v]
        OBVIOUS
      <3>2. Holding(v) /\ Holding(v)' /\ Finishing(v) /\ ~At(v, "finishLock")
        BY <1>1, <1>8, <2>6 DEF Holding, Finishing, At
      <3>3. x \in Slots \ (pool' \cup queue') /\ dependencyCount'[x] = 0 /\ state'[x] = "eFinished"
        BY <2>1, <2>4, <3>1, <3>2 DEF WorkerKnown
      <3>4. pc'[v] \notin {"bumpSalt", "resetSalt", "release"}
        BY <1>5, <2>6
      <3> QED BY <2>2, <2>3, <3>1, <3>2, <3>3, <3>4 DEF WorkerKnown
    <2> QED BY <2>5, <2>6
  <1>14. ASSUME NEW j \in Jobs PROVE JobKnown(j)'
    BY <1>4, <1>8, JobKept
  <1>15. \A p \in asked' : AskedKnown(p[1], p[2])'
    BY AskedKept
  <1>16. done' \subseteq scheduled' /\ waited' \subseteq done'
    BY DEF JobInv
  <1> QED BY <1>6, <1>7, <1>10, <1>11, <1>12, <1>13, <1>14, <1>15, <1>16 DEF JobInv

-----------------------------------------------------------------------------
(* How often a slot is listed *)

LEMMA ListedMembers ==
  ASSUME NEW lists, NEW s
  PROVE  \A e, i : <<e, i>> \in ListedIn(lists, s)
                     <=> e \in Slots /\ i \in 1 .. Len(lists[e]) /\ lists[e][i] = s
  BY DEF ListedIn

LEMMA ListedPairs ==
  ASSUME NEW lists, NEW s, NEW p \in ListedIn(lists, s)
  PROVE  p = <<p[1], p[2]>>
  BY DEF ListedIn

\* One of the lists, that of x, has one more entry.
Lengthened(longer, lists, x, y) ==
  longer[x] = Append(lists[x], y) /\ \A e \in Slots \ {x} : longer[e] = lists[e]

LEMMA ListedAppend ==
  ASSUME NEW lists \in [Slots -> Seq(Slots)], NEW x \in Slots, NEW y \in Slots,
         NEW longer, Lengthened(longer, lists, x, y)
  PROVE  /\ \A s : s # y => ListedIn(longer, s) = ListedIn(lists, s)
         /\ IsFiniteSet(ListedIn(lists, y)) =>
              /\ IsFiniteSet(ListedIn(longer, y))
              /\ Cardinality(ListedIn(longer, y)) = Cardinality(ListedIn(lists, y)) + 1
  <1> DEFINE n == Len(lists[x])
             new == <<x, n + 1>>
  <1>1. /\ n \in Nat /\ Len(longer[x]) = n + 1 /\ longer[x][n + 1] = y
        /\ \A i \in 1 .. n : longer[x][i] = lists[x][i]
    BY LenProperties, AppendProperties DEF Lengthened
  <1>2. \A e \in Slots \ {x} : longer[e] = lists[e]
    BY DEF Lengthened
  <1> HIDE DEF n
  <1>3. \A i : i \in 1 .. n + 1 <=> i \in 1 .. n \/ i = n + 1
    BY <1>1
  <1>4. n + 1 \notin 1 .. n
    BY <1>1
  <1>5. ASSUME NEW s
        PROVE  /\ \A e, i : <<e, i>> \in ListedIn(lists, s)
                              <=> e \in Slots /\ i \in 1 .. Len(lists[e]) /\ lists[e][i] = s
               /\ \A e, i : <<e, i>> \in ListedIn(longer, s)
                              <=> e \in Slots /\ i \in 1 .. Len(longer[e]) /\ longer[e][i] = s
               /\ \A p \in ListedIn(lists, s) : p = <<p[1], p[2]>>
               /\ \A p \in ListedIn(longer, s) : p = <<p[1], p[2]>>
    BY ListedMembers, ListedPairs
  <1>6. ASSUME NEW s, NEW e, NEW i
        PROVE  <<e, i>> \in ListedIn(longer, s)
                 <=> <<e, i>> \in ListedIn(lists, s) \/ (y = s /\ <<e, i>> = new)
    <2>1. CASE e # x
      <3>1. <<e, i>> # new
        BY <2>1
      <3>2. e \in Slots => longer[e] = lists[e]
        BY <1>2, <2>1
      <3>3. (e \in Slots /\ i \in 1 .. Len(longer[e]) /\ longer[e][i] = s)
              <=> (e \in Slots /\ i \in 1 .. Len(lists[e]) /\ lists[e][i] = s)
        BY <3>2
      <3> QED BY <1>5, <3>1, <3>3
    <2>2. CASE e = x
      <3>1. <<x, i>> \in ListedIn(longer, s) <=> i \in 1 .. n + 1 /\ longer[x][i] = s
        BY <1>1, <1>5
      <3>2. <<x, i>> \in ListedIn(lists, s) <=> i \in 1 .. n /\ lists[x][i] = s
        BY <1>5 DEF n
      <3> QED BY <1>1, <1>3, <1>4, <2>2, <3>1, <3>2
    <2> QED BY <2>1, <2>2
  <1>7. ASSUME NEW s, s # y PROVE ListedIn(longer, s) = ListedIn(lists, s)
    <2>1. ASSUME NEW p PROVE p \in ListedIn(longer, s) <=> p \in ListedIn(lists, s)
      <3>1. <<p[1], p[2]>> \in ListedIn(longer, s) <=> <<p[1], p[2]>> \in ListedIn(lists, s)
        BY <1>6, <1>7
      <3> QED BY <1>5, <3>1
    <2> QED BY <2>1
  <1>8. ListedIn(longer, y) = ListedIn(lists, y) \cup {new}
    <2>1. ASSUME NEW p PROVE p \in ListedIn(longer, y) <=> p \in ListedIn(lists, y) \/ p = new
      <3>1. <<p[1], p[2]>> \in ListedIn(longer, y)
              <=> <<p[1], p[2]>> \in ListedIn(lists, y) \/ <<p[1], p[2]>> = new
        BY <1>6
      <3>2. p = new => p = <<p[1], p[2]>>
        OBVIOUS
      <3> QED BY <1>5, <3>1, <3>2
    <2> QED BY <2>1
  <1>9. new \notin ListedIn(lists, y)
    BY <1>4, <1>5 DEF n
  <1>10. ASSUME IsFiniteSet(ListedIn(lists, y))
         PROVE  /\ IsFiniteSet(ListedIn(longer, y))
                /\ Cardinality(ListedIn(longer, y)) = Cardinality(ListedIn(lists, y)) + 1
    <2>1. /\ IsFiniteSet(ListedIn(lists, y) \cup {new})
          /\ Cardinality(ListedIn(lists, y) \cup {new}) = Cardinality(ListedIn(lists, y)) + 1
      BY <1>9, <1>10, FS_AddElement
    <2> QED BY <1>8, <2>1
  <1> QED BY <1>7, <1>10

LEMMA ListedTail ==
  ASSUME NEW lists \in [Slots -> Seq(Slots)], NEW x \in Slots, lists[x] # <<>>, NEW s,
         NEW shorter, shorter[x] = Tail(lists[x]),
         \A e \in Slots \ {x} : shorter[e] = lists[e], IsFiniteSet(ListedIn(lists, s))
  PROVE  /\ IsFiniteSet(ListedIn(shorter, s))
         /\ Head(lists[x]) = s =>
              Cardinality(ListedIn(shorter, s)) = Cardinality(ListedIn(lists, s)) - 1
         /\ Head(lists[x]) # s =>
              Cardinality(ListedIn(shorter, s)) = Cardinality(ListedIn(lists, s))
  <1> DEFINE n == Len(lists[x])
             old == ListedIn(lists, s) \ {<<x, 1>>}
             down == [p \in old |-> IF p[1] = x THEN <<x, p[2] - 1>> ELSE p]
  <1>1. /\ n \in Nat \ {0} /\ Head(lists[x]) = lists[x][1]
        /\ Len(shorter[x]) = n - 1
        /\ \A i \in 1 .. n - 1 : shorter[x][i] = lists[x][i + 1]
    BY LenProperties, HeadTailProperties, EmptySeq
  <1>2. \A e \in Slots \ {x} : shorter[e] = lists[e]
    OBVIOUS
  <1>3. /\ \A e, i : <<e, i>> \in ListedIn(lists, s)
                        <=> e \in Slots /\ i \in 1 .. Len(lists[e]) /\ lists[e][i] = s
        /\ \A e, i : <<e, i>> \in ListedIn(shorter, s)
                        <=> e \in Slots /\ i \in 1 .. Len(shorter[e]) /\ shorter[e][i] = s
    BY ListedMembers
  <1>4. <<x, 1>> \in ListedIn(lists, s) <=> Head(lists[x]) = s
    <2>1. 1 \in 1 .. n
      BY <1>1
    <2> QED BY <1>1, <1>3, <2>1
  <1> HIDE DEF n
  <1>5. \A i : i \in 1 .. n /\ i # 1 => i - 1 \in 1 .. n - 1 /\ (i - 1) + 1 = i
    BY <1>1
  <1>6. \A i : i \in 1 .. n - 1 => i + 1 \in 1 .. n /\ i + 1 # 1 /\ (i + 1) - 1 = i
    BY <1>1
  <1>7. \A i : <<x, i>> \in old <=> i \in 1 .. n /\ i # 1 /\ lists[x][i] = s
    BY <1>3 DEF n
  <1>8. \A i : <<x, i>> \in ListedIn(shorter, s) <=> i \in 1 .. n - 1 /\ lists[x][i + 1] = s
    <2>1. \A i : <<x, i>> \in ListedIn(shorter, s) <=> i \in 1 .. n - 1 /\ shorter[x][i] = s
      BY <1>1, <1>3
    <2> QED BY <1>1, <2>1
  <1>9. \A e, i : e # x => (<<e, i>> \in old <=> <<e, i>> \in ListedIn(shorter, s))
    <2> SUFFICES ASSUME NEW e, NEW i, e # x
                 PROVE  <<e, i>> \in old <=> <<e, i>> \in ListedIn(shorter, s)
      OBVIOUS
    <2>1. <<e, i>> \in old <=> <<e, i>> \in ListedIn(lists, s)
      OBVIOUS
    <2>2. e \in Slots => shorter[e] = lists[e]
      BY <1>2
    <2>3. (e \in Slots /\ i \in 1 .. Len(shorter[e]) /\ shorter[e][i] = s)
            <=> (e \in Slots /\ i \in 1 .. Len(lists[e]) /\ lists[e][i] = s)
      BY <2>2
    <2> QED BY <1>3, <2>1, <2>3
  <1>10. \A p \in old : p = <<p[1], p[2]>> /\ p[1] = x => p[2] \in 1 .. n /\ p[2] # 1
    BY <1>7
  <1>11. \A p \in old : p = <<p[1], p[2]>>
    BY ListedPairs
  <1>12. \A q \in ListedIn(shorter, s) : q = <<q[1], q[2]>>
    BY ListedPairs
  <1>13. \A p \in old : down[p] = IF p[1] = x THEN <<x, p[2] - 1>> ELSE p
    OBVIOUS
  <1>14. down \in [old -> {down[p] : p \in old}]
    OBVIOUS
  <1> HIDE DEF old, down
  <1>15. \A p \in old : down[p] \in ListedIn(shorter, s)
    <2> SUFFICES ASSUME NEW p \in old PROVE down[p] \in ListedIn(shorter, s)
      OBVIOUS
    <2>1. CASE p[1] # x
      <3>1. <<p[1], p[2]>> \in ListedIn(shorter, s)
        BY <1>9, <1>11, <2>1
      <3> QED BY <1>11, <1>13, <2>1, <3>1
    <2>2. CASE p[1] = x
      <3>1. p[2] \in 1 .. n /\ p[2] # 1 /\ lists[x][p[2]] = s
        BY <1>7, <1>11, <2>2
      <3>2. <<x, p[2] - 1>> \in ListedIn(shorter, s)
        BY <1>5, <1>8, <3>1
      <3> QED BY <1>13, <2>2, <3>2
    <2> QED BY <2>1, <2>2
  <1>16. ASSUME NEW p \in old, NEW q \in old, down[p] = down[q] PROVE p = q
    <2>1. p = <<p[1], p[2]>> /\ q = <<q[1], q[2]>>
      BY <1>11
    <2>2. CASE p[1] = x /\ q[1] = x
      <3>1. p[2] - 1 = q[2] - 1
        <4>1. down[p] = <<x, p[2] - 1>> /\ down[q] = <<x, q[2] - 1>>
          BY <1>13, <2>2
        <4>2. <<x, p[2] - 1>> = <<x, q[2] - 1>>
          BY <1>16, <4>1
        <4>3. <<x, p[2] - 1>>[2] = <<x, q[2] - 1>>[2]
          BY ONLY <4>2
        <4> QED BY <4>3
      <3>2. p[2] \in Nat /\ q[2] \in Nat
        <4>1. p[2] \in 1 .. n /\ q[2] \in 1 .. n
          BY <1>10, <2>1, <2>2
        <4> QED BY <1>1, <4>1
      <3>3. \A a, b \in Nat : a - 1 = b - 1 => a = b
        OBVIOUS
      <3>4. p[2] = q[2]
        BY ONLY <3>1, <3>2, <3>3
      <3> QED BY <2>1, <2>2, <3>4
    <2>3. CASE p[1] = x /\ q[1] # x
      <3>1. q = <<x, p[2] - 1>>
        BY <1>16, <1>13, <2>3
      <3> QED BY <2>3, <3>1
    <2>4. CASE p[1] # x /\ q[1] = x
      <3>1. p = <<x, q[2] - 1>>
        BY <1>16, <1>13, <2>4
      <3> QED BY <2>4, <3>1
    <2>5. CASE p[1] # x /\ q[1] # x
      BY <1>16, <1>13, <2>5
    <2> QED BY <2>2, <2>3, <2>4, <2>5
  <1>17. ASSUME NEW q \in ListedIn(shorter, s) PROVE \E p \in old : down[p] = q
    <2>1. CASE q[1] # x
      <3>1. q \in old
        <4>1. <<q[1], q[2]>> \in old
          BY <1>9, <1>12, <2>1
        <4> QED BY <1>12, <4>1
      <3> QED BY <1>13, <2>1, <3>1
    <2>2. CASE q[1] = x
      <3>1. q = <<x, q[2]>> /\ q[2] \in 1 .. n - 1 /\ lists[x][q[2] + 1] = s
        BY <1>8, <1>12, <2>2
      <3>2. <<x, q[2] + 1>> \in old
        BY <1>6, <1>7, <3>1
      <3>3. down[<<x, q[2] + 1>>] = <<x, (q[2] + 1) - 1>>
        BY <1>13, <3>2
      <3>4. (q[2] + 1) - 1 = q[2]
        BY <1>6, <3>1
      <3> QED BY <3>1, <3>2, <3>3, <3>4
    <2> QED BY <2>1, <2>2
  <1>18. down \in Bijection(old, ListedIn(shorter, s))
    <2>1. down \in [old -> ListedIn(shorter, s)]
      BY <1>15, <1>14
    <2>2. \A p, q \in old : down[p] = down[q] => p = q
      BY <1>16
    <2>3. \A q \in ListedIn(shorter, s) : \E p \in old : down[p] = q
      BY <1>17
    <2> QED BY <2>1, <2>2, <2>3, Fun_IsBij
  <1>19. /\ IsFiniteSet(old)
         /\ Cardinality(old) = IF Head(lists[x]) = s THEN Cardinality(ListedIn(lists, s)) - 1
                                                     ELSE Cardinality(ListedIn(lists, s))
    BY <1>4, FS_RemoveElement DEF old
  <1>20. /\ IsFiniteSet(ListedIn(shorter, s))
         /\ Cardinality(ListedIn(shorter, s)) = Cardinality(old)
    <2>1. ExistsBijection(old, ListedIn(shorter, s))
      BY <1>18 DEF ExistsBijection
    <2> QED BY <1>19, <2>1, FS_Bijection
  <1> QED BY <1>4, <1>19, <1>20

-----------------------------------------------------------------------------
(* The loop of finishJob, scheduleJob, and the line that adds a dependency *)

LEMMA FinishNextStep ==
  ASSUME JobInv, NEW w \in Workers, FinishNext(w)
  PROVE  JobInv'
  <1> USE Types DEF FinishNext, instances, history
  <1>1. /\ pc' = [pc EXCEPT ![w] = "decrement"] /\ pc[w] = "finishLoop"
        /\ target' = [target EXCEPT ![w] = Head(dependers[slot[w]])]
    BY DEF Goto, At
  <1>2. PICK x : x = slot[w]
    OBVIOUS
  <1>3. /\ Holding(w) /\ x \in Slots \ (pool \cup queue) /\ dependencyCount[x] = 0
        /\ \A t \in Threads : At(t, "enqueue") => target[t] # x
        /\ \A v \in Workers : Holding(v) /\ slot[v] = x => v = w
        /\ state[x] = "eFinished" /\ Finishing(w)
    BY <1>1, <1>2 DEF WorkerKnown, Holding, Finishing, At
  <1>4. /\ dependers[x] # <<>> /\ Head(dependers[x]) \in Slots /\ Tail(dependers[x]) \in Seq(Slots)
        /\ dependers' = [dependers EXCEPT ![x] = Tail(dependers[x])]
    <2>1. dependers[x] \in Seq(Slots) /\ dependers[x] # <<>>
      BY <1>2, <1>3
    <2>2. Head(dependers[x]) \in Slots /\ Tail(dependers[x]) \in Seq(Slots)
      BY <2>1, HeadTailProperties
    <2> QED BY <1>2, <2>1, <2>2
  <1>5. PICK y \in Slots : y = Head(dependers[x]) /\ target'[w] = y
    BY <1>1, <1>2, <1>4
  <1>6. Jobs' = Jobs /\ jobs' \in Seq(Handles)
    BY DEF Jobs
  <1>7. TypeOK'
    <2>1. dependers' \in [Slots -> Seq(Slots)]
      BY <1>3, <1>4
    <2>2. target' \in [Threads -> Slots \cup {Nil}]
      BY <1>1, <1>2, <1>4
    <2>3. /\ pc' \in [Threads -> UserLabels \cup WorkerLabels]
          /\ \A u \in Users : pc'[u] \in UserLabels
          /\ \A v \in Workers : pc'[v] \in WorkerLabels
      BY <1>1 DEF TypeOK, WorkerLabels
    <2> QED BY <1>6, <2>1, <2>2, <2>3 DEF TypeOK
  <1>8. /\ \A t \in Threads : At(t, "enqueue")' <=> At(t, "enqueue")
        /\ \A t \in Threads \ {w} : At(t, "decrement")' <=> At(t, "decrement")
        /\ \A t \in Threads \ {w} : target'[t] = target[t] /\ pc'[t] = pc[t]
        /\ At(w, "decrement")' /\ ~At(w, "decrement") /\ ~At(w, "enqueue")
        /\ \A v \in Workers : (Holding(v)' <=> Holding(v)) /\ (Finishing(v)' <=> Finishing(v))
    BY <1>1 DEF At, Finishing, Holding
  <1>9. ASSUME NEW s \in Slots PROVE Counted(s)' /\ SlotKnown(s)'
    <2>1. Counted(s)'
      <3>1. Waits(s)' = Waits(s)
        BY <1>6 DEF Waits
      <3>2. /\ IsFiniteSet(Waits(s)) /\ IsFiniteSet(Decrementing(s)) /\ IsFiniteSet(Listings(s))
            /\ dependencyCount[s] = Cardinality(Waits(s)) + Cardinality(Decrementing(s))
                                      + Cardinality(Listings(s))
        BY DEF Counted
      <3>3. /\ Cardinality(Waits(s)) \in Nat /\ Cardinality(Decrementing(s)) \in Nat
            /\ Cardinality(Listings(s)) \in Nat
        BY CountIs
      <3>4. Listings(s)' = ListedIn(dependers', s)
        BY DEF Listings, ListedIn
      <3>5. /\ IsFiniteSet(Listings(s)')
            /\ Cardinality(Listings(s)') = IF y = s THEN Cardinality(Listings(s)) - 1
                                                    ELSE Cardinality(Listings(s))
        <4>1. IsFiniteSet(ListedIn(dependers, s)) /\ x \in Slots
          BY <1>3, <3>2 DEF Listings
        <4>2. /\ IsFiniteSet(ListedIn(dependers', s))
              /\ Head(dependers[x]) = s => Cardinality(ListedIn(dependers', s)) =
                                              Cardinality(ListedIn(dependers, s)) - 1
              /\ Head(dependers[x]) # s => Cardinality(ListedIn(dependers', s)) =
                                              Cardinality(ListedIn(dependers, s))
          <5>1. dependers'[x] = Tail(dependers[x])
            BY <1>4, <4>1
          <5>2. \A e \in Slots \ {x} : dependers'[e] = dependers[e]
            BY <1>4
          <5>3. dependers \in [Slots -> Seq(Slots)]
            OBVIOUS
          <5>4. dependers[x] # <<>>
            BY <1>4
          <5> QED BY ONLY <4>1, <5>1, <5>2, <5>3, <5>4, ListedTail
        <4> QED BY <1>5, <3>4, <4>2 DEF Listings
      <3>6. CASE s = y
        <4>1. Decrementing(s)' = Decrementing(s) \cup {w}
          BY <1>5, <1>8, <3>6 DEF Decrementing
        <4>2. w \notin Decrementing(s)
          BY <1>8 DEF Decrementing
        <4>3. /\ IsFiniteSet(Decrementing(s) \cup {w})
              /\ Cardinality(Decrementing(s) \cup {w}) = Cardinality(Decrementing(s)) + 1
          BY <3>2, <4>2, FS_AddElement
        <4>4. dependencyCount'[s] = Cardinality(Waits(s)) + Cardinality(Decrementing(s) \cup {w})
                                      + Cardinality(Listings(s)')
          BY <3>2, <3>3, <3>5, <3>6, <4>3
        <4> QED BY <3>1, <3>2, <3>5, <4>1, <4>3, <4>4 DEF Counted
      <3>7. CASE s # y
        <4>1. Decrementing(s)' = Decrementing(s)
          BY <1>5, <1>8, <3>7 DEF Decrementing
        <4>2. dependencyCount'[s] = Cardinality(Waits(s)) + Cardinality(Decrementing(s))
                                      + Cardinality(Listings(s)')
          BY <3>2, <3>5, <3>7
        <4> QED BY <3>1, <3>2, <3>5, <4>1, <4>2 DEF Counted
      <3> QED BY <3>6, <3>7
    <2>2. s \in pool => dependers'[s] = dependers[s]
      BY <1>3, <1>4
    <2>3. \A t \in Threads : At(t, "enqueue") /\ target[t] = s => (At(t, "enqueue") /\ target[t] = s)'
      BY <1>8
    <2>4. SlotKnown(s)'
      BY <1>8, <2>2, <2>3, SlotKept
    <2> QED BY <2>1, <2>4
  <1>10. \A t \in Threads : ThreadKnown(t)'
    <2>1. \A t \in Threads : pc'[t] \in {"decrement", "enqueue"} =>
            target'[t] \in Slots /\ (pc'[t] = "enqueue" => pc[t] = "enqueue" /\ target'[t] = target[t])
      <3>1. pc'[w] = "decrement" /\ target'[w] \in Slots
        BY <1>1, <1>5
      <3>2. \A t \in Threads \ {w} : pc'[t] \in {"decrement", "enqueue"} => target'[t] \in Slots
        BY <1>8 DEF ThreadKnown
      <3> QED BY <1>8, <3>1, <3>2
    <2>2. \A t \in Threads : pc[t] = "enqueue" =>
            /\ target[t] \notin pool' \cup queue'
            /\ dependencyCount'[target[t]] = dependencyCount[target[t]]
            /\ state'[target[t]] = state[target[t]]
      BY DEF ThreadKnown, At
    <2> QED BY <2>1, <2>2, ThreadsKept
  <1>11. ASSUME NEW u \in Users PROVE UserKnown(u)'
    <2>1. Pending(u) \subseteq Pending(u)' /\ pc'[u] = pc[u]
      BY <1>6, <1>8 DEF Pending
    <2> QED BY <1>6, <2>1, UserKept
  <1>12. ASSUME NEW v \in Workers PROVE WorkerKnown(v)'
    <2>1. CASE v # w
      <3>1. Holding(v) => slot[v] # x /\ slot[v] \in Slots
        BY <1>3, <2>1 DEF WorkerKnown
      <3>2. Holding(v) => dependers'[slot[v]] = dependers[slot[v]]
        BY <1>4, <3>1
      <3>3. Holding(v) => /\ slot[v] \notin pool' \cup queue'
                          /\ dependencyCount'[slot[v]] = dependencyCount[slot[v]]
                          /\ state'[slot[v]] = state[slot[v]]
        BY DEF WorkerKnown
      <3>4. Holding(v) => /\ \A t \in Threads : At(t, "enqueue")' => target'[t] # slot[v]
                          /\ \A r \in Workers : Holding(r)' /\ slot'[r] = slot[v] => r = v
        BY <1>8 DEF WorkerKnown
      <3>5. pc[v] \in {"bumpSalt", "resetSalt", "release"} => Holding(v)
        BY DEF Holding
      <3> QED BY <1>8, <2>1, <3>2, <3>3, <3>4, <3>5, WorkerKept
    <2>2. CASE v = w
      <3>1. /\ slot'[w] = x /\ x \in Slots \ (pool' \cup queue') /\ dependencyCount'[x] = 0
            /\ state'[x] = "eFinished"
        BY <1>2, <1>3
      <3>2. /\ \A t \in Threads : At(t, "enqueue")' => target'[t] # x
            /\ \A r \in Workers : Holding(r)' /\ slot'[r] = x => r = w
        BY <1>3, <1>8
      <3>3. pc'[w] = "decrement"
        BY <1>1
      <3> QED BY <2>2, <3>1, <3>2, <3>3 DEF WorkerKnown
    <2> QED BY <2>1, <2>2
  <1>13. ASSUME NEW j \in Jobs PROVE JobKnown(j)'
    BY <1>8, JobKept
  <1>14. \A p \in asked' : AskedKnown(p[1], p[2])'
    <2> SUFFICES ASSUME NEW p \in asked PROVE AskedKnown(p[1], p[2])'
      OBVIOUS
    <2>1. AskedKnown(p[1], p[2])
      BY DEF JobInv
    <2>2. p[2] \in Jobs /\ (p[2] \notin done => jobs[p[2]].id # x /\ jobs[p[2]].id \in Slots)
      <3>1. PICK e : e = p[2]
        OBVIOUS
      <3>2. e \in Jobs /\ JobKnown(e) /\ jobs[e].id \in Slots
        BY <2>1, <3>1 DEF AskedKnown
      <3>3. e \notin done => jobs[e].id # x
        BY <1>2, <1>3, <3>2 DEF JobKnown
      <3> QED BY <3>1, <3>2, <3>3
    <2>3. p[2] \notin done => dependers'[jobs[p[2]].id] = dependers[jobs[p[2]].id]
      BY <1>4, <2>2
    <2> QED BY <1>6, <2>1, <2>3 DEF AskedKnown
  <1>15. done' \subseteq scheduled' /\ waited' \subseteq done'
    BY DEF JobInv
  <1> QED BY <1>6, <1>7, <1>9, <1>10, <1>11, <1>12, <1>13, <1>14, <1>15 DEF JobInv

LEMMA ScheduleStep ==
  ASSUME JobInv, NEW u \in Users, Schedule(u)
  PROVE  JobInv'
  <1> USE Types DEF Schedule, instances, graph
  <1>1. PICK i \in Pending(u) : /\ scheduled' = scheduled \cup {i}
                                /\ target' = [target EXCEPT ![u] = jobs[i].id]
    OBVIOUS
  <1>2. i \in Jobs /\ i \notin scheduled /\ jobs[i].owner = u
    BY DEF Pending
  <1>3. PICK y \in Slots : y = jobs[i].id
    BY <1>2
  <1>4. pc' = [pc EXCEPT ![u] = "decrement"] /\ pc[u] = "idle"
    BY DEF Goto, At
  <1>5. Jobs' = Jobs /\ jobs' \in Seq(Handles)
    BY DEF Jobs
  <1>6. TypeOK'
    BY <1>1, <1>2, <1>3, <1>4, <1>5 DEF TypeOK, UserLabels
  <1>7. /\ \A t \in Threads : At(t, "enqueue")' <=> At(t, "enqueue")
        /\ \A t \in Threads \ {u} : At(t, "decrement")' <=> At(t, "decrement")
        /\ \A t \in Threads \ {u} : target'[t] = target[t] /\ pc'[t] = pc[t]
        /\ At(u, "decrement")' /\ ~At(u, "decrement") /\ ~At(u, "enqueue") /\ target'[u] = y
        /\ \A v \in Workers : (Holding(v)' <=> Holding(v)) /\ (Finishing(v)' <=> Finishing(v))
    BY <1>1, <1>3, <1>4 DEF At, Finishing, Holding
  <1>8. ASSUME NEW s \in Slots PROVE Counted(s)' /\ SlotKnown(s)'
    <2>1. ASSUME s # y PROVE Counted(s)'
      <3>1. Waits(s)' = Waits(s)
        BY <1>1, <1>3, <1>5, <1>7, <2>1 DEF Waits
      <3>2. Listings(s)' = Listings(s)
        BY DEF Listings, ListedIn
      <3>3. Decrementing(s)' = Decrementing(s)
        BY <1>3, <1>4, <1>7, <2>1 DEF Decrementing
      <3>4. Counted(s) /\ dependencyCount' = dependencyCount
        OBVIOUS
      <3> QED BY <3>1, <3>2, <3>3, <3>4 DEF Counted
    <2>2. ASSUME s = y PROVE Counted(s)'
      <3>1. /\ Waits(s)' = Waits(s) \ {i} /\ Listings(s)' = Listings(s)
            /\ Decrementing(s)' = Decrementing(s) \cup {u}
        BY <1>1, <1>3, <1>5, <1>7, <2>2 DEF Waits, Listings, ListedIn, Decrementing
      <3>2. i \in Waits(s) /\ u \notin Decrementing(s)
        BY <1>2, <1>3, <1>7, <2>2 DEF Waits, Decrementing
      <3>3. /\ IsFiniteSet(Waits(s)) /\ IsFiniteSet(Decrementing(s)) /\ IsFiniteSet(Listings(s))
            /\ dependencyCount[s] = Cardinality(Waits(s)) + Cardinality(Decrementing(s))
                                      + Cardinality(Listings(s))
        BY DEF Counted
      <3>4. /\ Cardinality(Waits(s)) \in Nat /\ Cardinality(Decrementing(s)) \in Nat
            /\ Cardinality(Listings(s)) \in Nat
        BY CountIs
      <3>5. /\ IsFiniteSet(Waits(s) \ {i})
            /\ Cardinality(Waits(s) \ {i}) = Cardinality(Waits(s)) - 1
        BY <3>2, <3>3, FS_RemoveElement
      <3>6. /\ IsFiniteSet(Decrementing(s) \cup {u})
            /\ Cardinality(Decrementing(s) \cup {u}) = Cardinality(Decrementing(s)) + 1
        BY <3>2, <3>3, FS_AddElement
      <3>7. dependencyCount'[s] = Cardinality(Waits(s) \ {i})
                                    + Cardinality(Decrementing(s) \cup {u})
                                    + Cardinality(Listings(s))
        BY <3>3, <3>4, <3>5, <3>6
      <3> QED BY <3>1, <3>3, <3>5, <3>6, <3>7 DEF Counted
    <2>3. \A t \in Threads : At(t, "enqueue") /\ target[t] = s => (At(t, "enqueue") /\ target[t] = s)'
      BY <1>7
    <2>4. SlotKnown(s)'
      BY <1>7, <2>3, SlotKept
    <2> QED BY <2>1, <2>2, <2>4
  <1>9. \A t \in Threads : ThreadKnown(t)'
    <2>1. \A t \in Threads : pc'[t] \in {"decrement", "enqueue"} =>
            target'[t] \in Slots /\ (pc'[t] = "enqueue" => pc[t] = "enqueue" /\ target'[t] = target[t])
      <3>1. pc'[u] = "decrement" /\ target'[u] \in Slots
        BY <1>4, <1>7
      <3>2. \A t \in Threads \ {u} : pc'[t] \in {"decrement", "enqueue"} => target'[t] \in Slots
        BY <1>7 DEF ThreadKnown
      <3> QED BY <1>7, <3>1, <3>2
    <2>2. \A t \in Threads : pc[t] = "enqueue" =>
            /\ target[t] \notin pool' \cup queue'
            /\ dependencyCount'[target[t]] = dependencyCount[target[t]]
            /\ state'[target[t]] = state[target[t]]
      BY DEF ThreadKnown, At
    <2> QED BY <2>1, <2>2, ThreadsKept
  <1>10. ASSUME NEW v \in Users PROVE UserKnown(v)'
    <2>1. CASE v # u
      <3>1. Pending(v) \subseteq Pending(v)' /\ pc'[v] = pc[v]
        BY <1>1, <1>2, <1>5, <1>7, <2>1 DEF Pending
      <3> QED BY <1>5, <3>1, UserKept
    <2>2. CASE v = u
      BY <1>4, <2>2 DEF UserKnown
    <2> QED BY <2>1, <2>2
  <1>11. ASSUME NEW v \in Workers PROVE WorkerKnown(v)'
    <2>1. Holding(v) => /\ slot[v] \notin pool' \cup queue'
                        /\ dependencyCount'[slot[v]] = dependencyCount[slot[v]]
                        /\ state'[slot[v]] = state[slot[v]]
      BY DEF WorkerKnown
    <2>2. Holding(v) => /\ \A t \in Threads : At(t, "enqueue")' => target'[t] # slot[v]
                        /\ \A r \in Workers : Holding(r)' /\ slot'[r] = slot[v] => r = v
      BY <1>7 DEF WorkerKnown
    <2> QED BY <1>7, <2>1, <2>2, WorkerKept
  <1>12. ASSUME NEW j \in Jobs PROVE JobKnown(j)'
    BY <1>7, JobKept
  <1>13. \A p \in asked' : AskedKnown(p[1], p[2])'
    BY AskedKept
  <1>14. done' \subseteq scheduled' /\ waited' \subseteq done'
    BY <1>1 DEF JobInv
  <1> QED BY <1>5, <1>6, <1>8, <1>9, <1>10, <1>11, <1>12, <1>13, <1>14 DEF JobInv

LEMMA AddStateStep ==
  ASSUME JobInv, NEW u \in Users, AddState(u)
  PROVE  JobInv'
  <1> USE Types
  <1>1. pc[u] = "addState" /\ pc' = [pc EXCEPT ![u] = "idle"] /\ edge' = [edge EXCEPT ![u] = <<>>]
    BY DEF AddState, AddReturn, At, Goto
  <1>2. PICK d \in Pending(u), e \in Jobs : e < d /\ edge[u] = <<d, e>>
    BY <1>1 DEF UserKnown
  <1>3. d \in Jobs /\ d \notin scheduled /\ jobs[d].owner = u
    BY <1>2 DEF Pending
  <1>4. PICK y, x \in Slots : y = jobs[d].id /\ x = jobs[e].id
    BY <1>2, <1>3
  <1>5. edge[u][1] = d /\ edge[u][2] = e /\ Dependee(u).id = x /\ jobs[edge[u][1]].id = y
    BY <1>2, <1>4 DEF Dependee
  <1>6. /\ nodeMutex' = [nodeMutex EXCEPT ![x] = Nil]
        /\ UNCHANGED <<state, salt, pool, queue, slot, target, jobs, scheduled, done, waited>>
    BY <1>5 DEF AddState, AddReturn
  <1>7. Jobs' = Jobs /\ jobs' \in Seq(Handles)
    BY <1>6 DEF Jobs
  <1>8. edge' \in [Threads -> Seq(Jobs)]
    BY <1>1, EmptySeq
  <1>9. UserKnown(u)'
    BY <1>1 DEF UserKnown
  <1>10. CASE state[x] = "eFinished"
    <2>1. UNCHANGED <<dependers, dependencyCount, asked>>
      BY <1>5, <1>10 DEF AddState
    <2>2. UNCHANGED core
      BY <1>6, <2>1 DEF core, instances
    <2>3. TypeOK'
      BY <1>1, <1>6, <1>7, <1>8, <2>1 DEF TypeOK, UserLabels
    <2>4. waited' \subseteq done
      BY <1>6 DEF JobInv
    <2> QED BY <1>1, <1>9, <2>2, <2>3, <2>4, LocalKept
  <1>11. CASE state[x] # "eFinished"
    <2>1. /\ dependers' = [dependers EXCEPT ![x] = Append(dependers[x], y)]
          /\ dependencyCount' = [dependencyCount EXCEPT ![y] = dependencyCount[y] + 1]
          /\ asked' = asked \cup {<<d, e>>}
      BY <1>2, <1>5, <1>11 DEF AddState
    <2>2. dependencyCount[y] > 0
      <3>1. d \in Waits(y)
        BY <1>3, <1>4 DEF Waits
      <3> QED BY <3>1, CountIs
    <2>3. /\ state[y] = "eAllocated" /\ y \notin pool /\ y \notin queue
          /\ \A r \in Threads : At(r, "enqueue") => target[r] # y
          /\ \A v \in Workers : Holding(v) => slot[v] # y
      BY <2>2 DEF SlotKnown, ThreadKnown, WorkerKnown
    <2>4. x \notin pool
      BY <1>2, <1>4, <1>11 DEF SlotKnown
    <2>5. TypeOK'
      <3>1. dependers' \in [Slots -> Seq(Slots)]
        BY <2>1, AppendProperties
      <3>2. dependencyCount' \in [Slots -> Nat]
        <4>1. dependencyCount \in [Slots -> Nat] /\ \A n \in Nat : n + 1 \in Nat
          BY DEF TypeOK
        <4> QED BY ONLY <2>1, <4>1
      <3>3. asked' \subseteq Jobs' \X Jobs'
        <4>1. asked \subseteq Jobs \X Jobs /\ Jobs' = Jobs /\ d \in Jobs /\ e \in Jobs
          BY <1>2, <1>3, <1>7 DEF TypeOK
        <4> QED BY ONLY <2>1, <4>1
      <3>4. /\ pc' \in [Threads -> UserLabels \cup WorkerLabels]
            /\ \A v \in Users : pc'[v] \in UserLabels
            /\ \A w \in Workers : pc'[w] \in WorkerLabels
        BY <1>1 DEF TypeOK, UserLabels
      <3>5. nodeMutex' \in [Slots -> Threads \cup {Nil}]
        BY <1>6 DEF TypeOK
      <3> QED BY <1>6, <1>7, <1>8, <3>1, <3>2, <3>3, <3>4, <3>5 DEF TypeOK
    <2>6. /\ \A t \in Threads : At(t, "enqueue")' <=> At(t, "enqueue")
          /\ \A t \in Threads : At(t, "decrement")' <=> At(t, "decrement")
          /\ \A t \in Threads \ {u} : pc'[t] = pc[t]
          /\ \A v \in Workers : (Holding(v)' <=> Holding(v)) /\ (Finishing(v)' <=> Finishing(v))
      BY <1>1 DEF At, Finishing, Holding
    <2>7. ASSUME NEW s \in Slots PROVE Counted(s)'
      <3>1. Waits(s)' = Waits(s) /\ Decrementing(s)' = Decrementing(s)
        BY <1>6, <1>7, <2>6 DEF Waits, Decrementing
      <3>2. /\ IsFiniteSet(Waits(s)) /\ IsFiniteSet(Decrementing(s)) /\ IsFiniteSet(Listings(s))
            /\ dependencyCount[s] = Cardinality(Waits(s)) + Cardinality(Decrementing(s))
                                      + Cardinality(Listings(s))
        BY DEF Counted
      <3>3. /\ Cardinality(Waits(s)) \in Nat /\ Cardinality(Decrementing(s)) \in Nat
            /\ Cardinality(Listings(s)) \in Nat
        BY CountIs
      <3>4. Listings(s)' = ListedIn(dependers', s) /\ Listings(s) = ListedIn(dependers, s)
        BY DEF Listings, ListedIn
      <3>5. /\ IsFiniteSet(ListedIn(dependers', s))
            /\ y = s => Cardinality(ListedIn(dependers', s)) = Cardinality(ListedIn(dependers, s)) + 1
            /\ y # s => Cardinality(ListedIn(dependers', s)) = Cardinality(ListedIn(dependers, s))
        <4>1. Lengthened(dependers', dependers, x, y)
          BY <2>1 DEF Lengthened
        <4>2. dependers \in [Slots -> Seq(Slots)] /\ x \in Slots /\ y \in Slots
          OBVIOUS
        <4>3. /\ \A r : r # y => ListedIn(dependers', r) = ListedIn(dependers, r)
              /\ IsFiniteSet(ListedIn(dependers, y)) =>
                   /\ IsFiniteSet(ListedIn(dependers', y))
                   /\ Cardinality(ListedIn(dependers', y)) = Cardinality(ListedIn(dependers, y)) + 1
          BY ONLY <4>1, <4>2, ListedAppend
        <4>4. IsFiniteSet(ListedIn(dependers, s))
          BY <3>2, <3>4
        <4>5. CASE s = y
          BY <4>3, <4>4, <4>5
        <4>6. CASE s # y
          <5>1. ListedIn(dependers', s) = ListedIn(dependers, s)
            BY <4>3, <4>6
          <5> QED BY <4>4, <4>6, <5>1
        <4> QED BY <4>5, <4>6
      <3>6. dependencyCount'[s] = Cardinality(Waits(s)) + Cardinality(Decrementing(s))
                                    + Cardinality(Listings(s)')
        <4>1. PICK a, b, n \in Nat : /\ a = Cardinality(Waits(s)) /\ b = Cardinality(Decrementing(s))
                                     /\ n = Cardinality(Listings(s))
          BY <3>3
        <4>2. dependencyCount[s] = a + b + n
          BY <3>2, <4>1
        <4>3. CASE s = y
          <5>1. dependencyCount'[s] = dependencyCount[s] + 1 /\ Cardinality(Listings(s)') = n + 1
            BY <2>1, <3>4, <3>5, <4>1, <4>3
          <5>2. (a + b + n) + 1 = a + b + (n + 1)
            OBVIOUS
          <5> QED BY <4>1, <4>2, <5>1, <5>2
        <4>4. CASE s # y
          <5>1. dependencyCount'[s] = dependencyCount[s] /\ Cardinality(Listings(s)') = n
            BY <2>1, <3>4, <3>5, <4>1, <4>4
          <5> QED BY <4>1, <4>2, <5>1
        <4> QED BY <4>3, <4>4
      <3> QED BY <3>1, <3>2, <3>4, <3>5, <3>6 DEF Counted
    <2>8. ASSUME NEW s \in Slots PROVE SlotKnown(s)'
      <3>1. CASE s # y
        <4>1. s \in pool => dependers'[s] = dependers[s]
          BY <2>1, <2>4
        <4>2. dependencyCount'[s] = dependencyCount[s]
          BY <2>1, <3>1
        <4>3. \A t \in Threads : At(t, "enqueue") /\ target[t] = s
                                   => (At(t, "enqueue") /\ target[t] = s)'
          BY <1>6, <2>6
        <4> QED BY <1>6, <2>6, <4>1, <4>2, <4>3, SlotKept
      <3>2. CASE s = y
        <4>1. /\ s \notin pool' /\ s \notin queue' /\ dependencyCount'[s] > 0
              /\ state'[s] = "eAllocated"
          BY <1>6, <2>1, <2>2, <2>3, <3>2
        <4>2. \E j \in Jobs' : jobs'[j].id = s /\ Latest(j)'
          <5>1. \E j \in Jobs : jobs[j].id = s /\ Latest(j)
            BY <2>3, <3>2 DEF SlotKnown
          <5> QED BY <1>6, <1>7, <5>1 DEF Latest
        <4> QED BY <4>1, <4>2 DEF SlotKnown
      <3> QED BY <3>1, <3>2
    <2>9. \A t \in Threads : ThreadKnown(t)'
      <3>1. \A t \in Threads : pc'[t] \in {"decrement", "enqueue"} =>
              /\ target'[t] \in Slots
              /\ pc'[t] = "enqueue" => pc[t] = "enqueue" /\ target'[t] = target[t]
        BY <1>1, <1>6, <2>6 DEF ThreadKnown
      <3>2. \A t \in Threads : pc[t] = "enqueue" =>
              /\ target[t] \notin pool' \cup queue'
              /\ dependencyCount'[target[t]] = dependencyCount[target[t]]
              /\ state'[target[t]] = state[target[t]]
        <4> SUFFICES ASSUME NEW t \in Threads, pc[t] = "enqueue"
                     PROVE  /\ target[t] \notin pool' \cup queue'
                            /\ dependencyCount'[target[t]] = dependencyCount[target[t]]
                            /\ state'[target[t]] = state[target[t]]
          OBVIOUS
        <4>1. target[t] \in Slots /\ target[t] # y /\ target[t] \notin pool \cup queue
          BY <2>3 DEF ThreadKnown, At
        <4> QED BY <1>6, <2>1, <4>1
      <3> QED BY <3>1, <3>2, ThreadsKept
    <2>10. ASSUME NEW v \in Users PROVE UserKnown(v)'
      <3>1. Pending(v) \subseteq Pending(v)'
        BY <1>6, <1>7 DEF Pending
      <3>2. v # u => pc'[v] = pc[v] /\ edge'[v] = edge[v]
        BY <1>1
      <3>3. v # u => UserKnown(v)'
        BY <1>7, <3>1, <3>2, UserKept
      <3> QED BY <1>9, <3>3
    <2>11. ASSUME NEW v \in Workers PROVE WorkerKnown(v)'
      <3>1. Holding(v) => slot[v] # y /\ slot[v] \in Slots /\ slot[v] \notin pool' \cup queue'
        BY <1>6, <2>3 DEF WorkerKnown
      <3>2. Holding(v) => /\ dependencyCount'[slot[v]] = dependencyCount[slot[v]]
                          /\ state'[slot[v]] = state[slot[v]]
        BY <1>6, <2>1, <3>1
      <3>3. Holding(v) => /\ \A t \in Threads : At(t, "enqueue")' => target'[t] # slot[v]
                          /\ \A r \in Workers : Holding(r)' /\ slot'[r] = slot[v] => r = v
        BY <1>6, <2>6 DEF WorkerKnown
      <3>4. pc[v] \in {"bumpSalt", "resetSalt", "release"} => dependers'[slot[v]] = dependers[slot[v]]
        <4>1. pc[v] \in {"bumpSalt", "resetSalt", "release"} =>
                Holding(v) /\ state[slot[v]] = "eFinished"
          BY DEF WorkerKnown, Holding, Finishing, At
        <4> QED BY <1>11, <2>1, <3>1, <4>1
      <3>5. v # u
        OBVIOUS
      <3> QED BY <1>6, <2>6, <3>1, <3>2, <3>3, <3>4, <3>5, WorkerKept
    <2>12. ASSUME NEW j \in Jobs PROVE JobKnown(j)'
      BY <1>6, <2>6, JobKept
    <2>13. \A p \in asked' : AskedKnown(p[1], p[2])'
      <3>1. PICK n \in Nat : n = Len(dependers[x])
        BY LenProperties
      <3>2. /\ Len(dependers'[x]) = n + 1 /\ dependers'[x][n + 1] = y
            /\ \A i \in 1 .. n : dependers'[x][i] = dependers[x][i]
        BY <2>1, <3>1, AppendProperties
      <3>3. \A i \in 1 .. n : i \in 1 .. n + 1
        BY <3>1
      <3>4. AskedKnown(d, e)'
        <4>1. n + 1 \in 1 .. Len(dependers'[x])
          BY <3>1, <3>2
        <4>2. \E i \in 1 .. Len(dependers'[jobs'[e].id]) : dependers'[jobs'[e].id][i] = jobs'[d].id
          BY <1>4, <1>6, <3>2, <4>1
        <4> QED BY <1>2, <1>3, <1>7, <4>2 DEF AskedKnown
      <3>5. ASSUME NEW b, NEW c, <<b, c>> \in asked PROVE AskedKnown(b, c)'
        <4>1. AskedKnown(b, c)
          BY <3>5
        <4>2. c \in Jobs /\ jobs[c].id \in Slots
          BY <4>1 DEF AskedKnown
        <4>3. CASE jobs[c].id = x
          <5>1. ASSUME c \notin done
                PROVE \E i \in 1 .. Len(dependers'[x]) : dependers'[x][i] = jobs[b].id
            <6>1. PICK i \in 1 .. n : dependers[x][i] = jobs[b].id
              BY <3>1, <4>1, <4>3, <5>1 DEF AskedKnown
            <6> QED BY <3>2, <3>3, <6>1
          <5> QED BY <1>6, <1>7, <4>1, <4>3, <5>1 DEF AskedKnown
        <4>4. CASE jobs[c].id # x
          <5>1. dependers'[jobs[c].id] = dependers[jobs[c].id]
            BY <2>1, <4>2, <4>4
          <5> QED BY <1>6, <1>7, <4>1, <5>1 DEF AskedKnown
        <4> QED BY <4>3, <4>4
      <3>6. asked \subseteq Jobs \X Jobs
        BY DEF TypeOK
      <3>7. \A p \in asked : p = <<p[1], p[2]>>
        BY <3>6
      <3>8. ASSUME NEW p \in asked' PROVE AskedKnown(p[1], p[2])'
        <4>1. CASE p \in asked
          <5>1. PICK b, c : p = <<b, c>>
            BY <3>7, <4>1
          <5>2. AskedKnown(b, c)'
            BY <3>5, <4>1, <5>1
          <5> QED BY <5>1, <5>2
        <4>2. CASE p = <<d, e>>
          BY <3>4, <4>2
        <4> QED BY <2>1, <4>1, <4>2
      <3> QED BY <3>8
    <2>14. done' \subseteq scheduled' /\ waited' \subseteq done'
      BY <1>6 DEF JobInv
    <2> QED BY <1>7, <2>5, <2>7, <2>8, <2>9, <2>10, <2>11, <2>12, <2>13, <2>14 DEF JobInv
  <1> QED BY <1>10, <1>11

-----------------------------------------------------------------------------
(* allocJob *)

LEMMA AllocStep ==
  ASSUME JobInv, NEW u \in Users, Alloc(u)
  PROVE  JobInv'
  <1> USE Types
  <1>1. PICK n \in Nat : n = Len(jobs)
    OBVIOUS
  <1>2. PICK s, valid :
          /\ s \in pool
          /\ valid = (IF salt[s] = kInvalidSalt THEN 0 ELSE salt[s])
          /\ pool' = pool \ {s}
          /\ dependencyCount' = [dependencyCount EXCEPT ![s] = 1]
          /\ state' = [state EXCEPT ![s] = "eAllocated"]
          /\ salt' = [salt EXCEPT ![s] = valid]
          /\ jobs' = Append(jobs, [id |-> s, salt |-> valid, owner |-> u])
    BY DEF Alloc
  <1>3. UNCHANGED <<dependers, nodeMutex, queue, pc, slot, target, edge>>
        /\ UNCHANGED <<scheduled, done, waited, asked>>
    BY DEF Alloc, graph, locals
  <1>4. s \in Slots /\ valid \in 0 .. Salts - 1
    <2>1. s \in Slots
      BY <1>2 DEF TypeOK
    <2>2. salt[s] \in 0 .. Salts
      BY <2>1 DEF kInvalidSalt
    <2>3. valid \in 0 .. Salts - 1
      BY <1>2, <2>2 DEF kInvalidSalt
    <2> QED BY <2>1, <2>3
  <1>5. PICK h \in Handles : h = [id |-> s, salt |-> valid, owner |-> u]
    BY <1>4 DEF Handles
  <1>6. /\ jobs' \in Seq(Handles) /\ Len(jobs') = n + 1 /\ jobs'[n + 1] = h
        /\ \A j \in 1 .. n : jobs'[j] = jobs[j]
    BY <1>2, <1>5, <1>1, AppendProperties
  <1>7. n \in Nat /\ Jobs = 1 .. n /\ Jobs' = 1 .. n + 1
    BY <1>6, <1>1 DEF Jobs
  <1>8. /\ Jobs \subseteq Jobs' /\ n + 1 \in Jobs' /\ n + 1 \notin Jobs
        /\ \A j \in Jobs' : j \in Jobs \/ j = n + 1
        /\ \A j \in Jobs : j <= n + 1 /\ ~(n + 1 <= j)
        /\ \A j \in Jobs : jobs'[j] = jobs[j]
        /\ n + 1 <= n + 1
    BY <1>6, <1>7
  <1>9. jobs'[n + 1].id = s /\ jobs'[n + 1].salt = valid /\ jobs'[n + 1].owner = u
    BY <1>5, <1>6
  <1>10. n + 1 \notin scheduled /\ n + 1 \notin done /\ scheduled \subseteq Jobs /\ done \subseteq scheduled
    BY <1>8 DEF TypeOK, JobInv
  <1>11. \A j \in Jobs : jobs[j].id = s => j \in done
    BY <1>2 DEF JobKnown
  <1>12. /\ s \notin queue /\ dependencyCount[s] = 0 /\ dependers[s] = <<>>
         /\ \A t \in Threads : At(t, "enqueue") => target[t] # s
         /\ \A w \in Workers : Holding(w) => slot[w] # s
    BY <1>2, <1>4 DEF SlotKnown, ThreadKnown, WorkerKnown
  <1>13. \A j \in Jobs : jobs[j].id # s => (Latest(j)' <=> Latest(j))
    BY <1>8, <1>9 DEF Latest
  <1>14. Latest(n + 1)'
    BY <1>8 DEF Latest
  <1>15. \A j \in Jobs : jobs[j].id = s => ~Latest(j)'
    BY <1>8, <1>9 DEF Latest
  <1>16. TypeOK'
    <2>1. \A j \in Jobs' : jobs'[j] \in Handles
      BY <1>5, <1>6, <1>8
    <2>2. edge' \in [Threads -> Seq(Jobs')]
      <3>1. \A q \in Seq(Jobs) : q \in Seq(Jobs')
        BY <1>8
      <3> QED BY <1>3, <3>1
    <2>3. salt' \in [Slots -> 0 .. kInvalidSalt]
      <3>1. valid \in 0 .. kInvalidSalt
        BY <1>4 DEF kInvalidSalt
      <3> QED BY <1>2, <3>1
    <2>4. asked' \subseteq Jobs' \X Jobs' /\ scheduled' \cup done' \cup waited' \subseteq Jobs'
      BY <1>3, <1>8 DEF TypeOK
    <2>5. /\ state' \in [Slots -> {"eAllocated", "eScheduled", "eFinished"}]
          /\ dependencyCount' \in [Slots -> Nat] /\ pool' \subseteq Slots
      BY <1>2 DEF TypeOK
    <2> QED BY <1>3, <2>1, <2>2, <2>3, <2>4, <2>5 DEF TypeOK, Handles
  <1>17. ASSUME NEW r \in Slots PROVE Counted(r)'
    <2>1. Decrementing(r)' = Decrementing(r) /\ Listings(r)' = Listings(r)
      BY <1>3 DEF Decrementing, Listings, ListedIn, At
    <2>2. /\ IsFiniteSet(Waits(r)) /\ IsFiniteSet(Decrementing(r)) /\ IsFiniteSet(Listings(r))
          /\ dependencyCount[r] = Cardinality(Waits(r)) + Cardinality(Decrementing(r))
                                    + Cardinality(Listings(r))
      BY DEF Counted
    <2>3. CASE r # s
      <3>1. Waits(r)' = Waits(r)
        BY <1>3, <1>8, <1>9, <2>3 DEF Waits
      <3>2. dependencyCount'[r] = dependencyCount[r]
        BY <1>2, <2>3
      <3> QED BY <2>1, <2>2, <3>1, <3>2 DEF Counted
    <2>4. CASE r = s
      <3>1. Waits(r) = {} /\ Decrementing(r) = {} /\ Listings(r) = {}
        BY <1>12, <2>4, CountIs
      <3>2. Waits(r)' = {n + 1}
        BY <1>3, <1>8, <1>9, <1>10, <1>11, <2>4 DEF Waits
      <3>3. IsFiniteSet({n + 1}) /\ Cardinality({n + 1}) = 1
        BY FS_Singleton
      <3>4. IsFiniteSet({}) /\ Cardinality({}) = 0
        BY FS_EmptySet
      <3>5. dependencyCount'[r] = 1
        BY <1>2, <1>4, <2>4
      <3> QED BY <2>1, <3>1, <3>2, <3>3, <3>4, <3>5 DEF Counted
    <2> QED BY <2>3, <2>4
  <1>18. ASSUME NEW r \in Slots PROVE SlotKnown(r)'
    <2>1. CASE r = s
      <3>1. /\ r \notin pool' /\ r \notin queue' /\ dependencyCount'[r] > 0
            /\ state'[r] = "eAllocated"
        BY <1>2, <1>3, <1>4, <1>12, <2>1
      <3>2. \E j \in Jobs' : jobs'[j].id = r /\ Latest(j)'
        BY <1>8, <1>9, <1>14, <2>1
      <3> QED BY <3>1, <3>2 DEF SlotKnown
    <2>2. CASE r # s
      <3>1. /\ state'[r] = state[r] /\ dependencyCount'[r] = dependencyCount[r]
            /\ dependers'[r] = dependers[r] /\ (r \in pool' <=> r \in pool)
            /\ (r \in queue' <=> r \in queue)
        BY <1>2, <1>3, <2>2
      <3>2. \A j \in Jobs' : jobs'[j].id = r => j \in Jobs /\ jobs[j].id = r
        BY <1>8, <1>9, <2>2
      <3>3. (\E j \in Jobs : jobs[j].id = r /\ Latest(j))
              => \E j \in Jobs' : jobs'[j].id = r /\ Latest(j)'
        BY <1>8, <1>13, <2>2
      <3>4. /\ \A t \in Threads : At(t, "enqueue") /\ target[t] = r
                                    => At(t, "enqueue")' /\ target'[t] = r
            /\ \A w \in Workers : Holding(w) /\ slot[w] = r => Holding(w)' /\ slot'[w] = r
        BY <1>3 DEF At, Holding
      <3>5. SlotKnown(r)
        OBVIOUS
      <3>6. r \in pool' => /\ r \notin queue' /\ dependencyCount'[r] = 0 /\ dependers'[r] = <<>>
                           /\ \A j \in Jobs' : jobs'[j].id = r => state'[r] = "eFinished"
        BY <3>1, <3>2, <3>5 DEF SlotKnown
      <3>7. /\ dependencyCount'[r] > 0 => state'[r] = "eAllocated"
            /\ r \in queue' => dependencyCount'[r] = 0 /\ state'[r] = "eScheduled"
        BY <3>1, <3>5 DEF SlotKnown
      <3>8. r \notin pool' => \E j \in Jobs' : jobs'[j].id = r /\ Latest(j)'
        BY <3>1, <3>3, <3>5 DEF SlotKnown
      <3>9. r \notin pool' => \/ dependencyCount'[r] > 0 \/ r \in queue'
                              \/ \E t \in Threads : At(t, "enqueue")' /\ target'[t] = r
                              \/ \E w \in Workers : Holding(w)' /\ slot'[w] = r
        BY <3>1, <3>4, <3>5 DEF SlotKnown
      <3> QED BY <3>6, <3>7, <3>8, <3>9 DEF SlotKnown
    <2> QED BY <2>1, <2>2
  <1>19. \A t \in Threads : ThreadKnown(t)'
    <2>1. \A t \in Threads : pc'[t] \in {"decrement", "enqueue"} =>
            target'[t] \in Slots /\ (pc'[t] = "enqueue" => pc[t] = "enqueue" /\ target'[t] = target[t])
      BY <1>3 DEF ThreadKnown
    <2>2. \A t \in Threads : pc[t] = "enqueue" =>
            /\ target[t] \notin pool' \cup queue'
            /\ dependencyCount'[target[t]] = dependencyCount[target[t]]
            /\ state'[target[t]] = state[target[t]]
      <3> SUFFICES ASSUME NEW t \in Threads, pc[t] = "enqueue"
                   PROVE  /\ target[t] \notin pool' \cup queue'
                          /\ dependencyCount'[target[t]] = dependencyCount[target[t]]
                          /\ state'[target[t]] = state[target[t]]
        OBVIOUS
      <3>1. target[t] \in Slots /\ target[t] # s /\ target[t] \notin pool \cup queue
        BY <1>12 DEF ThreadKnown, At
      <3> QED BY <1>2, <1>3, <3>1
    <2> QED BY <2>1, <2>2, ThreadsKept
  <1>20. ASSUME NEW v \in Users PROVE UserKnown(v)'
    <2>1. Pending(v) \subseteq Pending(v)'
      BY <1>3, <1>8 DEF Pending
    <2> QED BY <1>3, <1>8, <2>1, UserKept
  <1>21. ASSUME NEW w \in Workers PROVE WorkerKnown(w)'
    <2>1. Holding(w) => slot[w] # s /\ slot[w] \in Slots /\ slot[w] \notin pool' \cup queue'
      BY <1>2, <1>3, <1>12 DEF WorkerKnown
    <2>2. Holding(w) => /\ dependencyCount'[slot[w]] = dependencyCount[slot[w]]
                        /\ state'[slot[w]] = state[slot[w]]
      BY <1>2, <2>1
    <2>3. Holding(w) => /\ \A t \in Threads : At(t, "enqueue")' => target'[t] # slot[w]
                        /\ \A r \in Workers : Holding(r)' /\ slot'[r] = slot[w] => r = w
      BY <1>3 DEF WorkerKnown, At, Holding
    <2> QED BY <1>3, <2>1, <2>2, <2>3, WorkerKept
  <1>22. \A w \in Workers : Finishing(w)' <=> Finishing(w)
    BY <1>3 DEF Finishing
  <1>23. ASSUME NEW j \in Jobs' PROVE JobKnown(j)'
    <2>1. CASE j = n + 1
      <3>1. \A w \in Workers : Finishing(w)' => slot'[w] # s
        BY <1>3, <1>12, <1>22 DEF Finishing, Holding
      <3>2. s \notin pool' /\ salt'[s] = valid /\ state'[s] = "eAllocated"
        BY <1>2, <1>4
      <3>3. j \notin done'
        BY <1>3, <1>10, <2>1
      <3> QED BY <1>9, <1>14, <2>1, <3>1, <3>2, <3>3 DEF JobKnown
    <2>2. CASE j \in Jobs /\ jobs[j].id = s
      <3>1. j \in done' /\ ~Latest(j)'
        BY <1>3, <1>11, <1>15, <2>2
      <3> QED BY <3>1 DEF JobKnown
    <2>3. CASE j \in Jobs /\ jobs[j].id # s
      <3>1. JobKnown(j) /\ jobs'[j] = jobs[j] /\ (Latest(j)' <=> Latest(j))
        BY <1>8, <1>13, <2>3
      <3>2. /\ salt'[jobs[j].id] = salt[jobs[j].id] /\ state'[jobs[j].id] = state[jobs[j].id]
            /\ (jobs[j].id \in pool' <=> jobs[j].id \in pool) /\ done' = done /\ slot' = slot
        BY <1>2, <1>3, <2>3
      <3> QED BY <1>22, <3>1, <3>2 DEF JobKnown
    <2> QED BY <1>8, <2>1, <2>2, <2>3
  <1>24. \A p \in asked' : AskedKnown(p[1], p[2])'
    <2> SUFFICES ASSUME NEW p \in asked PROVE AskedKnown(p[1], p[2])'
      BY <1>3
    <2>1. AskedKnown(p[1], p[2])
      BY DEF JobInv
    <2> QED BY <1>3, <1>8, <2>1 DEF AskedKnown
  <1>25. done' \subseteq scheduled' /\ waited' \subseteq done'
    BY <1>3 DEF JobInv
  <1> QED BY <1>6, <1>16, <1>17, <1>18, <1>19, <1>20, <1>21, <1>23, <1>24, <1>25 DEF JobInv

-----------------------------------------------------------------------------
(* The invariant *)

LEMMA InitJob ==
  ASSUME Init
  PROVE  JobInv
  <1> USE DEF Init
  <1>1. Jobs = {} /\ Len(jobs) = 0 /\ jobs \in Seq(Handles)
    BY EmptySeq DEF Jobs
  <1>2. \A S : <<>> \in Seq(S)
    BY EmptySeq
  <1>3. TypeOK
    <2>1. edge \in [Threads -> Seq(Jobs)] /\ dependers \in [Slots -> Seq(Slots)]
      BY <1>2
    <2>2. salt \in [Slots -> 0 .. kInvalidSalt]
      BY DEF kInvalidSalt
    <2> QED BY <1>1, <2>1, <2>2 DEF TypeOK, UserLabels, WorkerLabels, Threads
  <1>4. ASSUME NEW s \in Slots PROVE Counted(s)
    <2>1. Waits(s) = {} /\ Decrementing(s) = {}
      BY <1>1 DEF Waits, Decrementing, At
    <2>2. Listings(s) = {}
      <3>1. \A e \in Slots : 1 .. Len(dependers[e]) = {}
        OBVIOUS
      <3> QED BY <3>1 DEF Listings, ListedIn
    <2>3. IsFiniteSet({}) /\ Cardinality({}) = 0
      BY FS_EmptySet
    <2> QED BY <2>1, <2>2, <2>3 DEF Counted
  <1>5. ASSUME NEW s \in Slots PROVE SlotKnown(s)
    BY <1>1 DEF SlotKnown
  <1>6. ASSUME NEW t \in Threads PROVE ThreadKnown(t)
    BY DEF ThreadKnown, At
  <1>7. ASSUME NEW u \in Users PROVE UserKnown(u)
    BY DEF UserKnown, Threads
  <1>8. ASSUME NEW w \in Workers PROVE WorkerKnown(w)
    BY DEF WorkerKnown, Holding, Finishing, Threads
  <1> QED BY <1>1, <1>3, <1>4, <1>5, <1>6, <1>7, <1>8 DEF JobInv

LEMMA StepJob ==
  ASSUME JobInv, [Next]_vars
  PROVE  JobInv'
  <1>1. ASSUME NEW u \in Users, UserCall(u) PROVE JobInv'
    BY <1>1, AllocStep, AddDependencyStep, ScheduleStep, WaitStep DEF UserCall
  <1>2. ASSUME NEW u \in Users, UserStep(u) PROVE JobInv'
    BY <1>2, AddLockStep, AddSaltStep, AddStateStep, DecrementStep, EnqueueStep
    DEF UserStep, Threads
  <1>3. ASSUME NEW u \in Users, WaitSalt(u) \/ WaitState(u) PROVE JobInv'
    BY <1>3, WaitSaltStep, WaitStateStep
  <1>4. ASSUME NEW w \in Workers, WorkerStep(w) PROVE JobInv'
    BY <1>4, RunStep, RunReturnsStep, FinishLockStep, FinishNextStep, FinishUnlockStep, SaltStep,
       ReleaseStep, DecrementStep, EnqueueStep
    DEF WorkerStep, Threads
  <1>5. ASSUME UNCHANGED vars PROVE JobInv'
    <2> USE <1>5, Types DEF vars, instances, graph, locals, history
    <2>1. Jobs' = Jobs /\ TypeOK' /\ jobs' \in Seq(Handles)
      BY DEF TypeOK, Jobs
    <2>2. ASSUME NEW s \in Slots PROVE Counted(s)' /\ SlotKnown(s)'
      <3>1. Counted(s)'
        BY CountedKept DEF At
      <3>2. SlotKnown(s)'
        BY SlotKept DEF At, Holding
      <3> QED BY <3>1, <3>2
    <2>3. \A t \in Threads : ThreadKnown(t)'
      BY DEF ThreadKnown, At
    <2>4. ASSUME NEW u \in Users PROVE UserKnown(u)'
      BY <2>1 DEF UserKnown, Pending
    <2>5. ASSUME NEW w \in Workers PROVE WorkerKnown(w)'
      BY DEF WorkerKnown, Holding, Finishing, At
    <2>6. ASSUME NEW j \in Jobs PROVE JobKnown(j)'
      BY JobKept DEF Finishing
    <2>7. \A p \in asked' : AskedKnown(p[1], p[2])'
      BY AskedKept
    <2>8. done' \subseteq scheduled' /\ waited' \subseteq done'
      BY DEF JobInv
    <2> QED BY <2>1, <2>2, <2>3, <2>4, <2>5, <2>6, <2>7, <2>8 DEF JobInv
  <1> QED BY <1>1, <1>2, <1>3, <1>4, <1>5 DEF Next, Done

\* In every reachable state, the books of the job system balance.
THEOREM Invariance == Spec => []JobInv
  BY InitJob, StepJob, PTL DEF Spec

\* A slot that is listed, at x, is counted.
LEMMA ListedCounts ==
  ASSUME JobInv, NEW s \in Slots, NEW x \in Slots, NEW i \in 1 .. Len(dependers[x]),
         dependers[x][i] = s
  PROVE  dependencyCount[s] > 0
  <1>1. <<x, i>> \in Listings(s)
    BY ListedMembers DEF Listings
  <1> QED BY <1>1, Types, CountIs

\* JobSystemTest.cpp:237: while the depender was queued or running its count was zero,
\* so it was not listed any more with a job that had not run.
THEOREM RunsInOrder == Spec => []RunsAfterDependees
  <1>1. ASSUME JobInv PROVE RunsAfterDependees
    <2> SUFFICES ASSUME NEW w \in Workers, At(w, "running"), NEW e \in Jobs,
                        <<JobIn(slot[w]), e>> \in asked, e \notin done
                 PROVE  FALSE
      BY DEF RunsAfterDependees
    <2>1. slot[w] \in Slots \ pool /\ dependencyCount[slot[w]] = 0
      BY <1>1, Types DEF At, WorkerKnown, Holding
    <2>2. PICK j \in Jobs : jobs[j].id = slot[w] /\ Latest(j)
      BY <1>1, <2>1, Types DEF SlotKnown
    <2>3. JobIn(slot[w]) = j
      BY <1>1, <2>2, JobInIs
    <2>4. AskedKnown(j, e) /\ jobs[e].id \in Slots
      BY <1>1, <2>3, Types
    <2>5. \E i \in 1 .. Len(dependers[jobs[e].id]) : dependers[jobs[e].id][i] = slot[w]
      BY <2>2, <2>4 DEF AskedKnown
    <2>6. dependencyCount[slot[w]] > 0
      BY <1>1, <2>1, <2>4, <2>5, ListedCounts
    <2> QED BY <2>1, <2>6
  <1> QED BY <1>1, Invariance, PTL

\* waitForJob: a stale salt and eFinished are both signs that the job has run.
THEOREM WaitIsSound == Spec => []WaitMeansDone
  <1>1. JobInv => WaitMeansDone
    BY DEF JobInv, WaitMeansDone
  <1> QED BY <1>1, Invariance, PTL

\* dependencyCount is what the job still waits for, in every slot that has a job, and the
\* asserts of decrementJobDependencyCount, scheduleJob and addJobDependency succeed.
THEOREM CountsAreExact == Spec => []JobsCounted
  <1>1. ASSUME JobInv PROVE AssertsHold
    <2>1. ASSUME NEW t \in Threads, At(t, "decrement") PROVE dependencyCount[target[t]] > 0
      <3>1. target[t] \in Slots
        BY <1>1, <2>1, Types DEF At, ThreadKnown
      <3>2. t \in Decrementing(target[t])
        BY <2>1 DEF Decrementing
      <3> QED BY <1>1, <3>1, <3>2, Types, CountIs
    <2>2. ASSUME NEW t \in Threads, At(t, "enqueue") PROVE state[target[t]] = "eAllocated"
      BY <1>1, <2>2, Types DEF ThreadKnown
    <2>3. ASSUME NEW j \in Jobs \ scheduled
          PROVE  Matches(jobs[j]) /\ state[jobs[j].id] = "eAllocated"
      <3>1. j \in Waits(jobs[j].id) /\ jobs[j].id \in Slots
        BY <1>1, Types DEF Waits
      <3>2. dependencyCount[jobs[j].id] > 0
        BY <1>1, <3>1, Types, CountIs
      <3>3. j \notin done
        BY <1>1 DEF JobInv
      <3> QED BY <1>1, <3>1, <3>2, <3>3, Types DEF SlotKnown, JobKnown, Matches
    <2> QED BY <2>1, <2>2, <2>3 DEF AssertsHold
  <1>2. ASSUME JobInv PROVE CountsExact
    <2> SUFFICES ASSUME NEW s \in Slots \ pool
                 PROVE  dependencyCount[s] =
                          Cardinality({j \in Jobs \ scheduled : j = JobIn(s)})
                            + Cardinality(Decrementing(s)) + Cardinality(Listings(s))
      BY DEF CountsExact
    <2>1. PICK k \in Jobs : jobs[k].id = s /\ Latest(k)
      BY <1>2, Types DEF SlotKnown
    <2>2. JobIn(s) = k
      BY <1>2, <2>1, JobInIs
    <2>3. \A j \in Jobs \ scheduled : jobs[j].id = s => j = k
      <3>1. \A j \in Jobs \ scheduled : Latest(j)
        BY <1>2, Types DEF JobInv, JobKnown
      <3>2. \A j \in Jobs \ scheduled : jobs[j].id = s => j <= k /\ k <= j
        BY <2>1, <3>1 DEF Latest
      <3> QED BY <1>2, <2>1, <3>2, Types
    <2>4. Waits(s) = {j \in Jobs \ scheduled : j = JobIn(s)}
      BY <2>1, <2>2, <2>3 DEF Waits
    <2> QED BY <1>2, <2>4, Types DEF Counted
  <1>3. JobInv => JobsCounted
    BY <1>1, <1>2, Types DEF JobsCounted
  <1> QED BY <1>3, Invariance, PTL

\* finishJob: of the jobs that are left when everybody rests, the oldest would have to
\* be listed with an older one.
THEOREM NobodyLeft == Spec => []NoJobForgotten
  <1>1. ASSUME JobInv PROVE NoJobForgotten
    <2> SUFFICES ASSUME queue = {}, \A t \in Threads : At(t, "idle"), NEW j \in Jobs,
                        1 .. j \subseteq scheduled, j \notin done, Misplaced = {}
                 PROVE  FALSE
      BY DEF NoJobForgotten
    <2> USE <1>1, Types
    <2>1. PICK k \in {i \in 1 .. j : i \notin done} : \A i \in 1 .. j : i \notin done => k <= i
      <3>1. j \in 1 .. j
        BY DEF Jobs
      <3>2. {i \in 1 .. j : i \notin done} \subseteq Nat
        OBVIOUS
      <3>3. {i \in 1 .. j : i \notin done} # {}
        BY <3>1
      <3> HIDE Types, <1>1
      <3> QED BY <3>2, <3>3, Least
    <2>2. k \in Jobs /\ k \in scheduled /\ k \notin done
      BY <2>1 DEF Jobs
    <2>3. PICK s \in Slots : s = jobs[k].id
      BY <2>2
    <2>4. Latest(k) /\ s \notin pool
      BY <2>2, <2>3 DEF JobKnown
    <2>5. /\ \A t \in Threads : ~At(t, "enqueue") /\ ~At(t, "decrement")
          /\ \A w \in Workers : ~Holding(w) /\ ~Finishing(w)
      BY DEF At, Holding, Finishing
    <2>6. dependencyCount[s] > 0
      <3>1. SlotKnown(s) /\ s \notin queue
        OBVIOUS
      <3> QED BY ONLY <2>4, <2>5, <3>1 DEF SlotKnown
    <2>7. Waits(s) = {}
      <3> SUFFICES ASSUME NEW i \in Jobs \ scheduled, jobs[i].id = s PROVE FALSE
        BY DEF Waits
      <3>1. i \notin done
        BY DEF JobInv
      <3>2. Latest(i)
        BY <3>1 DEF JobKnown
      <3>3. i <= k /\ k <= i
        BY <2>2, <2>3, <2>4, <3>2 DEF Latest
      <3>4. i = k
        BY <2>2, <3>3
      <3> QED BY <2>2, <3>4
    <2>8. Decrementing(s) = {}
      BY <2>5 DEF Decrementing
    <2>9. Listings(s) # {}
      <3> SUFFICES ASSUME Listings(s) = {} PROVE FALSE
        OBVIOUS
      <3>1. Cardinality({}) = 0
        BY FS_EmptySet
      <3>2. dependencyCount[s] = 0
        <4>1. dependencyCount[s] =
                Cardinality(Waits(s)) + Cardinality(Decrementing(s)) + Cardinality(Listings(s))
          BY DEF Counted
        <4>2. dependencyCount[s] = Cardinality({}) + Cardinality({}) + Cardinality({})
          BY <2>7, <2>8, <4>1
        <4> QED BY <3>1, <4>2
      <3> QED BY <2>6, <3>2
    <2>10. PICK e \in Slots : \E i \in 1 .. Len(dependers[e]) : dependers[e][i] = s
      <3>1. PICK p : p \in Listings(s)
        BY <2>9
      <3>2. p = <<p[1], p[2]>>
        BY <3>1, ListedPairs DEF Listings
      <3>3. <<p[1], p[2]>> \in ListedIn(dependers, s)
        BY <3>1, <3>2 DEF Listings
      <3>4. /\ p[1] \in Slots /\ p[2] \in 1 .. Len(dependers[p[1]])
            /\ dependers[p[1]][p[2]] = s
        <4>1. \A e, i : <<e, i>> \in ListedIn(dependers, s)
                           <=> e \in Slots /\ i \in 1 .. Len(dependers[e]) /\ dependers[e][i] = s
          BY ListedMembers
        <4>2. PICK e, i : e = p[1] /\ i = p[2]
          OBVIOUS
        <4>3. <<e, i>> \in ListedIn(dependers, s)
          BY <3>3, <4>2
        <4>4. e \in Slots /\ i \in 1 .. Len(dependers[e]) /\ dependers[e][i] = s
          BY ONLY <4>1, <4>3
        <4> QED BY <4>2, <4>4
      <3> QED BY <3>4
    <2>11. PICK i \in 1 .. Len(dependers[e]) : dependers[e][i] = s
      BY <2>10
    <2>12. e \notin pool
      BY <2>10 DEF SlotKnown
    <2>13. PICK m \in Jobs : jobs[m].id = e /\ Latest(m)
      BY <2>12 DEF SlotKnown
    <2>14. m \notin done
      BY <2>5, <2>12, <2>13 DEF JobKnown
    <2>15. JobIn(s) = k /\ JobIn(e) = m
      BY <2>2, <2>3, <2>4, <2>13, JobInIs
    <2>16. <<k, m>> \in asked
      <3>1. e \notin Misplaced
        OBVIOUS
      <3>2. i \in DOMAIN dependers[e]
        BY <2>11
      <3> QED BY <2>12, <2>15, <2>11, <3>1, <3>2 DEF Misplaced
    <2>17. m < k
      BY <2>16 DEF AskedKnown
    <2>18. m \in 1 .. j
      BY <2>1, <2>17 DEF Jobs
    <2> QED BY <2>1, <2>14, <2>17, <2>18
  <1> QED BY <1>1, Invariance, PTL
=============================================================================
