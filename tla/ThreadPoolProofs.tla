-------------------------- MODULE ThreadPoolProofs --------------------------
(* Safety of ThreadPool for any number of workers, producers and tasks. *)
EXTENDS ThreadPool, TLAPS, SequenceTheorems, FiniteSetTheorems

(***************************************************************************)
(* The inductive invariant: what the threads' places say about the queue   *)
(* and about the closing flag.                                             *)
(***************************************************************************)

\* A worker holds a task exactly while it runs it; only waiting workers are in
\* the wait set.
WorkersKeepTasks ==
  /\ \A w \in Workers : job[w] # NoTask <=> worker[w] = "running"
  /\ \A w \in ready : worker[w] = "waiting"

\* Two producers never offer the same task, and an offered task is offered.
OffersAreApart ==
  /\ \A p \in Producers : offer[p] # NoTask => state[offer[p]] = "offered"
  /\ \A p, r \in Producers : offer[p] = offer[r] /\ offer[p] # NoTask => p = r

\* Nothing is submitted before the constructor is done, and a worker leaves
\* only when the pool is closing and empty.
ThreadsBoundQueue ==
  /\ closing <=> closer \notin {"constructing", "open"}
  /\ \A w \in Workers : worker[w] = "unborn" =>
       queue = <<>> /\ \A p \in Producers : offer[p] = NoTask
  /\ \A w \in Workers : worker[w] = "exited" => closing /\ queue = <<>>
  /\ closer = "closed" => \A w \in Workers : worker[w] \in {"unborn", "exited"}

IInv ==
  /\ TypeOK
  /\ QueueWithinCapacity
  /\ TaskInOnePlace
  /\ WorkersKeepTasks
  /\ OffersAreApart
  /\ ThreadsBoundQueue

-----------------------------------------------------------------------------

(* Sequences: what Take and Accept do to the queue. *)

LEMMA PopFront ==
  ASSUME NEW S, NEW q \in Seq(S), q # <<>>
  PROVE  /\ Head(q) \in S /\ Head(q) = q[1] /\ 1 \in DOMAIN q
         /\ Tail(q) \in Seq(S)
         /\ Len(q) \in Nat \ {0} /\ Len(Tail(q)) = Len(q) - 1
         /\ DOMAIN q = 1..Len(q) /\ DOMAIN Tail(q) = 1..(Len(q) - 1)
         /\ \A i \in 1..(Len(q) - 1) : Tail(q)[i] = q[i + 1]
  BY HeadTailProperties, EmptySeq, LenProperties

LEMMA PushBack ==
  ASSUME NEW S, NEW q \in Seq(S), NEW x \in S
  PROVE  /\ Append(q, x) \in Seq(S)
         /\ Len(q) \in Nat /\ Len(Append(q, x)) = Len(q) + 1
         /\ DOMAIN q = 1..Len(q) /\ DOMAIN Append(q, x) = 1..(Len(q) + 1)
         /\ \A i \in 1..Len(q) : Append(q, x)[i] = q[i]
         /\ Append(q, x)[Len(q) + 1] = x
  BY LenProperties, AppendProperties

-----------------------------------------------------------------------------

LEMMA InitIInv == Init => IInv
  <1> SUFFICES ASSUME Init PROVE IInv
    OBVIOUS
  <1> USE ThreadPoolAssumption DEF Init
  <1>1. queue \in Seq(Tasks) /\ Len(queue) = 0 /\ DOMAIN queue = {}
    BY EmptySeq, LenProperties
  <1>2. TypeOK
    BY <1>1 DEF TypeOK, WorkerStates, TaskStates, CloserStates
  <1>3. QueueWithinCapacity
    BY <1>1 DEF QueueWithinCapacity
  <1>4. TaskInOnePlace
    BY <1>1 DEF TaskInOnePlace
  <1>5. WorkersKeepTasks /\ OffersAreApart /\ ThreadsBoundQueue
    BY DEF WorkersKeepTasks, OffersAreApart, ThreadsBoundQueue
  <1>6. QED
    BY <1>2, <1>3, <1>4, <1>5 DEF IInv

LEMMA NextIInv == IInv /\ [Next]_vars => IInv'
  <1> SUFFICES ASSUME IInv, [Next]_vars PROVE IInv'
    OBVIOUS
  <1> USE ThreadPoolAssumption DEF IInv, TypeOK, QueueWithinCapacity, TaskInOnePlace,
     WorkersKeepTasks, OffersAreApart, ThreadsBoundQueue, WorkerStates, TaskStates,
     CloserStates, Finished
  <1>1. CASE SetClosing BY <1>1 DEF SetClosing
  <1>2. CASE WakeWorkers BY <1>2 DEF WakeWorkers
  <1>3. CASE WakeProducers BY <1>3 DEF WakeProducers
  <1>4. CASE Joined BY <1>4 DEF Joined
  <1>5. ASSUME NEW w \in Workers, Spawn(w) PROVE IInv' BY <1>5 DEF Spawn
  <1>6. ASSUME NEW w \in Workers, Sleep(w) PROVE IInv' BY <1>6 DEF Sleep, Awake, CanTake
  <1>7. ASSUME NEW w \in Workers, Take(w) PROVE IInv'
    <2> DEFINE t == Head(queue)
    <2>1. /\ queue # <<>> /\ queue' = Tail(queue)
          /\ job' = [job EXCEPT ![w] = t] /\ state' = [state EXCEPT ![t] = "running"]
          /\ worker' = [worker EXCEPT ![w] = "running"]
          /\ worker[w] \in {"looping", "waiting"} /\ w \notin ready
          /\ space' \subseteq space
          /\ UNCHANGED <<closing, ready, offer, closer>>
      BY <1>7 DEF Take, Awake, NotifyOne
    <2>2. /\ t \in Tasks /\ t = queue[1] /\ 1 \in DOMAIN queue
          /\ queue' \in Seq(Tasks)
          /\ Len(queue) \in Nat \ {0} /\ Len(queue') = Len(queue) - 1
          /\ DOMAIN queue = 1..Len(queue) /\ DOMAIN queue' = 1..(Len(queue) - 1)
          /\ \A i \in 1..(Len(queue) - 1) : queue'[i] = queue[i + 1]
      BY <2>1, PopFront
    <2> HIDE DEF t
    <2>3. state[t] = "queued" /\ t # NoTask
      BY <2>2
    <2>4. TypeOK' /\ QueueWithinCapacity'
      BY <2>1, <2>2
    <2>5. \A i \in DOMAIN queue' : i \in Nat /\ i + 1 # 1 /\ i + 1 \in DOMAIN queue /\ queue'[i] = queue[i + 1]
      BY <2>2
    <2>6. \A i, j \in DOMAIN queue' : queue'[i] = queue'[j] => i = j
      <3> SUFFICES ASSUME NEW i \in DOMAIN queue', NEW j \in DOMAIN queue', queue'[i] = queue'[j]
                   PROVE  i = j
        OBVIOUS
      <3>1. i + 1 = j + 1 BY <2>5
      <3>2. QED BY <2>5, <3>1
    <2>7. \A i \in DOMAIN queue' : queue'[i] # t
      <3> SUFFICES ASSUME NEW i \in DOMAIN queue', queue'[i] = t PROVE FALSE
        OBVIOUS
      <3>1. queue[i + 1] = queue[1] /\ i + 1 \in DOMAIN queue /\ 1 \in DOMAIN queue
        BY <2>2, <2>5
      <3>2. QED BY <2>5, <3>1
    <2>8. \A u \in Tasks \ {t} :
            (\E i \in DOMAIN queue' : queue'[i] = u) <=> (\E i \in DOMAIN queue : queue[i] = u)
      <3> TAKE u \in Tasks \ {t}
      <3>1. ASSUME NEW i \in DOMAIN queue, queue[i] = u PROVE \E k \in DOMAIN queue' : queue'[k] = u
        <4>1. i # 1 /\ i - 1 \in DOMAIN queue' /\ queue'[i - 1] = u
          BY <2>2, <3>1
        <4>2. QED BY <4>1
      <3>2. ASSUME NEW i \in DOMAIN queue', queue'[i] = u PROVE \E k \in DOMAIN queue : queue[k] = u
        BY <2>5, <3>2
      <3>3. QED BY <3>1, <3>2
    <2>9. \A u \in Tasks : state'[u] = "queued" <=> \E i \in DOMAIN queue' : queue'[i] = u
      BY <2>1, <2>3, <2>7, <2>8
    <2>10. job[w] = NoTask /\ \A v \in Workers : job[v] # t
      BY <2>1, <2>2, <2>3
    <2>11. TaskInOnePlace'
      BY <2>1, <2>2, <2>6, <2>9, <2>10
    <2>12. WorkersKeepTasks' /\ OffersAreApart' /\ ThreadsBoundQueue'
      BY <2>1, <2>2, <2>3
    <2>13. QED
      BY <2>4, <2>11, <2>12
  <1>8. ASSUME NEW w \in Workers, Run(w) PROVE IInv' BY <1>8 DEF Run
  <1>9. ASSUME NEW w \in Workers, Exit(w) PROVE IInv' BY <1>9 DEF Exit, Awake, CanTake
  <1>10. ASSUME Spurious PROVE IInv' BY <1>10 DEF Spurious
  <1>11. ASSUME NEW p \in Producers, NEW t \in Tasks, Offer(p, t) PROVE IInv' BY <1>11 DEF Offer
  <1>12. ASSUME NEW p \in Producers, Block(p) PROVE IInv' BY <1>12 DEF Block, Submitting
  <1>13. ASSUME NEW p \in Producers, Accept(p) PROVE IInv'
    <2> DEFINE t == offer[p]
    <2>1. /\ t # NoTask /\ ~closing /\ Len(queue) < Capacity
          /\ queue' = Append(queue, t) /\ state' = [state EXCEPT ![t] = "queued"]
          /\ offer' = [offer EXCEPT ![p] = NoTask] /\ ready' \subseteq ready
          /\ UNCHANGED <<closing, space, worker, job, closer>>
      BY <1>13 DEF Accept, Submitting, CanSubmit, NotifyOne
    <2>2. t = offer[p] /\ t \in Tasks /\ state[t] = "offered"
      BY <2>1
    <2>3. /\ queue' \in Seq(Tasks)
          /\ Len(queue) \in Nat /\ Len(queue') = Len(queue) + 1
          /\ DOMAIN queue = 1..Len(queue) /\ DOMAIN queue' = 1..(Len(queue) + 1)
          /\ \A i \in 1..Len(queue) : queue'[i] = queue[i]
          /\ queue'[Len(queue) + 1] = t
      BY <2>1, <2>2, PushBack
    <2> HIDE DEF t
    <2>4. TypeOK' /\ QueueWithinCapacity'
      BY <2>1, <2>2, <2>3
    <2>5. \A i \in DOMAIN queue : queue[i] # t
      BY <2>2
    <2> DEFINE last == Len(queue) + 1
    <2>6. /\ last \in DOMAIN queue' /\ last \notin DOMAIN queue /\ queue'[last] = t
          /\ \A i \in DOMAIN queue' : i # last => i \in DOMAIN queue
          /\ \A i \in DOMAIN queue : i \in DOMAIN queue' /\ queue'[i] = queue[i]
      BY <2>3
    <2> HIDE DEF last
    <2>7. \A i, j \in DOMAIN queue' : queue'[i] = queue'[j] => i = j
      <3> SUFFICES ASSUME NEW i \in DOMAIN queue', NEW j \in DOMAIN queue', queue'[i] = queue'[j]
                   PROVE  i = j
        OBVIOUS
      <3>1. \A k \in DOMAIN queue' : k # last => queue'[k] # t
        BY <2>5, <2>6
      <3>2. CASE i = last \/ j = last BY <2>6, <3>1, <3>2
      <3>3. CASE i # last /\ j # last BY <2>6, <3>3
      <3>4. QED BY <3>2, <3>3
    <2>8. \A u \in Tasks : state'[u] = "queued" <=> \E i \in DOMAIN queue' : queue'[i] = u
      <3> TAKE u \in Tasks
      <3>1. CASE u = t BY <2>1, <2>6, <3>1
      <3>2. CASE u # t
        <4>1. state'[u] = state[u] BY <2>1, <3>2
        <4>2. (\E i \in DOMAIN queue' : queue'[i] = u) <=> (\E i \in DOMAIN queue : queue[i] = u)
          BY <2>6, <3>2
        <4>3. QED BY <4>1, <4>2
      <3>3. QED BY <3>1, <3>2
    <2>9. \A u \in Tasks : state'[u] = IF u = t THEN "queued" ELSE state[u]
      BY <2>1
    <2>10. \A u \in Tasks : state'[u] = "running" <=> \E w \in Workers : job'[w] = u
      BY <2>1, <2>2, <2>9
    <2>11. TaskInOnePlace'
      BY <2>1, <2>8, <2>7, <2>10
    <2>12. \A r \in Producers : r # p /\ offer[r] # NoTask => offer[r] # t
      BY <2>1, <2>2
    <2>13. OffersAreApart'
      <3>1. \A r \in Producers : offer'[r] = IF r = p THEN NoTask ELSE offer[r]
        BY <2>1
      <3>2. \A r \in Producers : offer'[r] # NoTask => state'[offer'[r]] = "offered"
        BY <2>12, <2>9, <3>1
      <3>3. \A r, q \in Producers : offer'[r] = offer'[q] /\ offer'[r] # NoTask => r = q
        BY <3>1
      <3>4. QED BY <3>2, <3>3
    <2>14. WorkersKeepTasks' /\ OffersAreApart'
      BY <2>1, <2>2, <2>13
    <2>15. ThreadsBoundQueue'
      BY <2>1, <2>2
    <2>16. QED
      BY <2>4, <2>11, <2>14, <2>15
  <1>14. ASSUME NEW p \in Producers, Reject(p) PROVE IInv' BY <1>14 DEF Reject, Submitting
  <1>15. CASE UNCHANGED vars BY <1>15 DEF vars
  <1>16. QED
    BY <1>1, <1>2, <1>3, <1>4, <1>5, <1>6, <1>7, <1>8, <1>9, <1>10, <1>11, <1>12, <1>13, <1>14, <1>15
       DEF Next, Closing, Loop, Submit

-----------------------------------------------------------------------------

\* The inductive invariant holds, and with it type correctness.
THEOREM PoolInvariant == Spec => []IInv
  BY InitIInv, NextIInv, PTL DEF Spec

\* thread_pool.hpp line 12, "bounded producer queue": whatever the number of
\* producers that are woken for one slot.
THEOREM PoolIsBounded == Spec => []QueueWithinCapacity
  <1>1. IInv => QueueWithinCapacity
    BY DEF IInv
  <1>2. QED
    BY <1>1, PoolInvariant, PTL

\* Every accepted task has one place: the queue or one worker.
THEOREM PoolKeepsTasks == Spec => []TaskInOnePlace
  <1>1. IInv => TaskInOnePlace
    BY DEF IInv
  <1>2. QED
    BY <1>1, PoolInvariant, PTL

\* thread_pool.hpp line 13, "destruction drains accepted work and joins every
\* worker": when close() has returned nothing is queued or running.
THEOREM PoolDrains == Spec => []CloseDrains
  <1>1. IInv => CloseDrains
    <2> SUFFICES ASSUME IInv, closer = "closed" PROVE
           /\ \A t \in Tasks : state[t] \notin {"queued", "running"}
           /\ \A w \in Workers : worker[w] \in {"unborn", "exited"}
      BY DEF CloseDrains
    <2>1. \A w \in Workers : worker[w] \in {"unborn", "exited"} /\ queue = <<>>
      BY DEF IInv, ThreadsBoundQueue
    <2>2. queue = <<>> /\ DOMAIN queue = {}
      BY <2>1, ThreadPoolAssumption, EmptySeq
    <2>3. \A w \in Workers : job[w] = NoTask
      BY <2>1 DEF IInv, WorkersKeepTasks
    <2>4. \A t \in Tasks : state[t] \notin {"queued", "running"}
      BY <2>2, <2>3, ThreadPoolAssumption DEF IInv, TaskInOnePlace
    <2>5. QED
      BY <2>1, <2>4
  <1>2. QED
    BY <1>1, PoolInvariant, PTL

\* Type correctness of the pool.
THEOREM PoolTypes == Spec => []TypeOK
  <1>1. IInv => TypeOK
    BY DEF IInv
  <1>2. QED
    BY <1>1, PoolInvariant, PTL

\* The three together: what was accepted is in the bounded queue or with one worker,
\* and is done when close() has returned.
THEOREM PoolKeepsAll == Spec => []TasksAreKept
  <1>1. QueueWithinCapacity /\ TaskInOnePlace /\ CloseDrains => TasksAreKept
    BY DEF TasksAreKept
  <1>2. QED
    BY <1>1, PoolIsBounded, PoolKeepsTasks, PoolDrains, PTL

-----------------------------------------------------------------------------
(* The pool implements the executor *)

RunningTasks  == {t \in Tasks : state[t] = "running"}
FinishedTasks == {t \in Tasks : state[t] \in Finished}

\* A worker that looks for a task leaves a thread of the pool idle.
LEMMA SomeWorkerIsIdle ==
  ASSUME IInv, NEW w \in Workers, job[w] = NoTask
  PROVE  Cardinality(RunningTasks) < Cardinality(Workers)
  <1> DEFINE others == Workers \ {w}
             holder == [t \in RunningTasks |-> CHOOSE v \in Workers : job[v] = t]
  <1>1. \A t \in RunningTasks : holder[t] \in Workers /\ job[holder[t]] = t
    BY DEF RunningTasks, IInv, TaskInOnePlace
  <1>2. holder \in Injection(RunningTasks, others)
    <2>1. \A t \in RunningTasks : t # NoTask
      BY ThreadPoolAssumption DEF RunningTasks
    <2>2. \A t \in RunningTasks : holder[t] \in others
      BY <1>1, <2>1
    <2>3. DOMAIN holder = RunningTasks /\ holder \in [RunningTasks -> others]
      BY <2>2
    <2> HIDE DEF holder
    <2>4. QED
      BY <1>1, <2>3 DEF Injection, IsInjective
  <1>3. /\ IsFiniteSet(others) /\ Cardinality(others) = Cardinality(Workers) - 1
        /\ Cardinality(Workers) \in Nat
    BY ThreadPoolAssumption, FS_RemoveElement, FS_CardinalityType
  <1> HIDE DEF holder, others
  <1>4. IsFiniteSet(RunningTasks) /\ Cardinality(RunningTasks) <= Cardinality(others)
    BY <1>2, <1>3, FS_Injection
  <1>5. QED
    BY <1>3, <1>4, FS_CardinalityType

\* The executor counts as the pool does.
LEMMA SameCount == ASSUME NEW S PROVE Executor!Cardinality(S) = Cardinality(S)
  BY Zenon DEF Executor!Cardinality, Cardinality

\* Every step of a thread is a step of the executor, or invisible.
LEMMA NextImplementsExecutor == IInv /\ [Next]_vars => [Executor!Next]_Executor!vars
  <1> SUFFICES ASSUME IInv, [Next]_vars PROVE [Executor!Next]_Executor!vars
    OBVIOUS
  <1> USE DEF Executor!vars
  <1>1. CASE SetClosing
    <2>1. closer # "closed" /\ closer' # "closed" /\ ~closing /\ closing'
      BY <1>1 DEF SetClosing, IInv, ThreadsBoundQueue
    <2>2. Executor!Shut
      BY <1>1, <2>1 DEF SetClosing, Executor!Shut
    <2>3. QED
      BY <2>2 DEF Executor!Next
  <1>2. CASE WakeWorkers
    BY <1>2 DEF WakeWorkers
  <1>3. CASE WakeProducers
    BY <1>3 DEF WakeProducers
  <1>4. CASE Joined
    <2>1. \A w \in Workers : worker[w] \in {"unborn", "exited"}
      BY <1>4 DEF Joined
    <2>2. queue = <<>>
      BY <2>1, ThreadPoolAssumption DEF IInv, ThreadsBoundQueue
    <2>3. RunningTasks = {}
      BY <2>1, ThreadPoolAssumption DEF RunningTasks, IInv, TaskInOnePlace, WorkersKeepTasks
    <2>4. closing
      BY <1>4 DEF Joined, IInv, ThreadsBoundQueue
    <2>5. Executor!Close
      BY <1>4, <2>2, <2>3, <2>4 DEF Joined, Executor!Close, RunningTasks
    <2>6. QED
      BY <2>5 DEF Executor!Next
  <1>5. ASSUME NEW w \in Workers, Spawn(w) PROVE [Executor!Next]_Executor!vars
    BY <1>5 DEF Spawn
  <1>6. ASSUME NEW w \in Workers, Sleep(w) PROVE [Executor!Next]_Executor!vars
    BY <1>6 DEF Sleep
  <1>7. ASSUME NEW w \in Workers, Take(w) PROVE [Executor!Next]_Executor!vars
    <2>1. /\ queue # <<>> /\ queue' = Tail(queue)
          /\ state' = [state EXCEPT ![Head(queue)] = "running"]
          /\ worker[w] \in {"looping", "waiting"}
          /\ UNCHANGED <<closing, closer>>
      BY <1>7 DEF Take, Awake
    <2>2. Head(queue) \in Tasks /\ Head(queue) = queue[1] /\ 1 \in DOMAIN queue
      BY <2>1, PopFront DEF IInv, TypeOK
    <2>3. state[Head(queue)] = "queued" /\ state \in [Tasks -> TaskStates]
      BY <2>2 DEF IInv, TypeOK, TaskInOnePlace
    <2>4. closer # "closed" /\ job[w] = NoTask
      BY <2>1 DEF IInv, ThreadsBoundQueue, WorkersKeepTasks
    <2>5. Cardinality(RunningTasks) < Cardinality(Workers)
      BY <2>4, SomeWorkerIsIdle
    <2>6. /\ RunningTasks' = RunningTasks \cup {Head(queue)}
          /\ FinishedTasks' = FinishedTasks
      BY <2>1, <2>2, <2>3 DEF RunningTasks, FinishedTasks, Finished
    <2>7. Executor!Begin
      BY <2>1, <2>4, <2>5, <2>6, SameCount DEF Executor!Begin, RunningTasks, FinishedTasks
    <2>8. QED
      BY <2>7 DEF Executor!Next
  <1>8. ASSUME NEW w \in Workers, Run(w) PROVE [Executor!Next]_Executor!vars
    <2>1. PICK answer \in Finished : state' = [state EXCEPT ![job[w]] = answer]
      BY <1>8 DEF Run
    <2>2. job[w] \in Tasks /\ state[job[w]] = "running" /\ state \in [Tasks -> TaskStates]
      BY <1>8, ThreadPoolAssumption DEF Run, IInv, TypeOK, TaskInOnePlace, WorkersKeepTasks
    <2>3. PICK t \in Tasks : t = job[w]
      BY <2>2
    <2>4. /\ RunningTasks' = RunningTasks \ {t}
          /\ FinishedTasks' = FinishedTasks \cup {t}
          /\ t \in RunningTasks
      BY <2>1, <2>2, <2>3 DEF RunningTasks, FinishedTasks, Finished
    <2>5. Executor!End(t)
      BY <1>8, <2>4 DEF Run, Executor!End, RunningTasks, FinishedTasks
    <2>6. QED
      BY <2>5 DEF Executor!Next
  <1>9. ASSUME NEW w \in Workers, Exit(w) PROVE [Executor!Next]_Executor!vars
    BY <1>9 DEF Exit
  <1>10. ASSUME Spurious PROVE [Executor!Next]_Executor!vars
    BY <1>10 DEF Spurious
  <1>11. ASSUME NEW p \in Producers, NEW t \in Tasks, Offer(p, t)
         PROVE  [Executor!Next]_Executor!vars
    <2>1. RunningTasks' = RunningTasks /\ FinishedTasks' = FinishedTasks
      BY <1>11 DEF Offer, IInv, TypeOK, RunningTasks, FinishedTasks, Finished
    <2>2. QED
      BY <1>11, <2>1 DEF Offer, RunningTasks, FinishedTasks
  <1>12. ASSUME NEW p \in Producers, Block(p) PROVE [Executor!Next]_Executor!vars
    BY <1>12 DEF Block
  <1>13. ASSUME NEW p \in Producers, Accept(p) PROVE [Executor!Next]_Executor!vars
    <2>1. /\ ~closing /\ Len(queue) < Capacity /\ queue' = Append(queue, offer[p])
          /\ state' = [state EXCEPT ![offer[p]] = "queued"] /\ offer[p] # NoTask
          /\ UNCHANGED <<closing, closer>>
      BY <1>13 DEF Accept, Submitting, CanSubmit
    <2>2. /\ offer[p] \in Tasks /\ state[offer[p]] = "offered"
          /\ state \in [Tasks -> TaskStates]
      BY <2>1 DEF IInv, TypeOK, OffersAreApart
    <2>3. closer # "closed"
      BY <2>1 DEF IInv, ThreadsBoundQueue
    <2>4. /\ RunningTasks' = RunningTasks /\ FinishedTasks' = FinishedTasks
          /\ offer[p] \notin RunningTasks \cup FinishedTasks
      BY <2>1, <2>2 DEF RunningTasks, FinishedTasks, Finished
    <2>5. offer[p] \notin Executor!InQueue
      BY <2>2 DEF Executor!InQueue, IInv, TaskInOnePlace
    <2>6. Executor!Admit(offer[p])
      BY <2>1, <2>3, <2>4, <2>5 DEF Executor!Admit, RunningTasks, FinishedTasks
    <2>7. QED
      BY <2>2, <2>6 DEF Executor!Next
  <1>14. ASSUME NEW p \in Producers, Reject(p) PROVE [Executor!Next]_Executor!vars
    <2>1. /\ offer[p] \in Tasks /\ state[offer[p]] = "offered"
          /\ state \in [Tasks -> TaskStates]
          /\ state' = [state EXCEPT ![offer[p]] = "rejected"]
      BY <1>14 DEF Reject, Submitting, IInv, TypeOK, OffersAreApart
    <2>2. RunningTasks' = RunningTasks /\ FinishedTasks' = FinishedTasks
      BY <2>1 DEF RunningTasks, FinishedTasks, Finished
    <2>3. QED
      BY <1>14, <2>2 DEF Reject, RunningTasks, FinishedTasks
  <1>15. CASE UNCHANGED vars
    BY <1>15 DEF vars
  <1>16. QED
    BY <1>1, <1>2, <1>3, <1>4, <1>5, <1>6, <1>7, <1>8, <1>9, <1>10, <1>11, <1>12, <1>13,
       <1>14, <1>15 DEF Next, Closing, Loop, Submit

\* thread_pool.hpp as its users see it: tasks start in the order of acceptance, one per
\* worker, none is accepted after closing began, and close() waits for them all.
THEOREM PoolImplementsExecutor == Spec => PoolIsExecutor
  <1>1. Init => Executor!Init
    BY DEF Init, Executor!Init, Finished
  <1>2. QED
    BY <1>1, NextImplementsExecutor, PoolInvariant, PTL DEF Spec, PoolIsExecutor, Executor!Spec
=============================================================================
