----------------------------- MODULE ThreadPool -----------------------------
(***************************************************************************)
(* core/include/codeguard/thread_pool.hpp: a bounded queue of tasks, a     *)
(* fixed set of worker threads, any number of submitting threads and one   *)
(* call of close() (the destructor's, or the constructor's own when a      *)
(* thread cannot be created).                                              *)
(*                                                                         *)
(* Everything done while holding mutex_ is one action.  A condition        *)
(* variable is the set of threads that wait on it: a thread that waits     *)
(* runs again after a notification (or spuriously) and then evaluates its  *)
(* predicate anew, with the mutex, which others may have taken before it.  *)
(***************************************************************************)
EXTENDS Naturals, Sequences, FiniteSets

CONSTANTS
  Workers,    (* the worker threads the constructor is asked for          *)
  Producers,  (* threads that call submit                                 *)
  Tasks,      (* the functions that may be submitted, each once           *)
  Capacity,   (* bound of the queue                                       *)
  NoTask      (* a worker without a task, a producer outside submit       *)

ASSUME ThreadPoolAssumption ==
  /\ Workers # {}
  /\ IsFiniteSet(Workers)
  /\ Cardinality(Workers) <= 64
  /\ Capacity \in Nat \ {0}
  /\ NoTask \notin Tasks

VARIABLES
  queue,     (* queue_: accepted tasks that no worker has taken           *)
  closing,   (* closing_                                                  *)
  ready,     (* workers that wait on ready_                               *)
  space,     (* producers that wait on space_                             *)
  worker,    (* worker -> where it is                                     *)
  job,       (* worker -> the task it holds                               *)
  offer,     (* producer -> the task it is submitting                     *)
  state,     (* task -> what its future and its caller know of it         *)
  closer     (* where the thread that owns the pool is                    *)

vars == <<queue, closing, ready, space, worker, job, offer, state, closer>>

\* unborn: not created yet; looping: about to lock the mutex and look.
WorkerStates == {"unborn", "looping", "waiting", "running", "exited"}

\* done: the task returned; failed: it threw, and its future carries the
\* exception; rejected: submit threw "thread pool closed".
TaskStates == {"new", "offered", "queued", "running", "done", "failed", "rejected"}
Finished   == {"done", "failed"}
Accepted   == {"queued", "running"} \cup Finished

CloserStates == {"constructing", "open", "flagged", "woke_workers", "joining", "closed"}

-----------------------------------------------------------------------------
(* Condition variables *)

\* notify_one: one waiting thread leaves the set, if there is one.
NotifyOne(waiting, after) ==
  IF waiting = {} THEN after = waiting ELSE \E t \in waiting : after = waiting \ {t}

CanSubmit == closing \/ Len(queue) < Capacity   \* the predicate of space_
CanTake   == closing \/ queue # <<>>            \* the predicate of ready_

-----------------------------------------------------------------------------
(* The constructor and close() *)

Spawn(w) ==
  /\ closer = "constructing"
  /\ worker[w] = "unborn"
  /\ worker' = [worker EXCEPT ![w] = "looping"]
  /\ closer' = IF \A v \in Workers \ {w} : worker[v] # "unborn" THEN "open" ELSE closer
  /\ UNCHANGED <<queue, closing, ready, space, job, offer, state>>

\* close() sets the flag.  The constructor calls it when a thread cannot be
\* created, the destructor when the pool is complete.
SetClosing ==
  /\ closer \in {"constructing", "open"}
  /\ closing' = TRUE
  /\ closer'  = "flagged"
  /\ UNCHANGED <<queue, ready, space, worker, job, offer, state>>

\* Mutant: notify_one where notify_all is needed.
WakeWorkers_One ==
  /\ closer = "flagged"
  /\ NotifyOne(ready, ready')
  /\ closer' = "woke_workers"
  /\ UNCHANGED <<queue, closing, space, worker, job, offer, state>>

WakeWorkers ==
  /\ closer = "flagged"
  /\ ready'  = {}
  /\ closer' = "woke_workers"
  /\ UNCHANGED <<queue, closing, space, worker, job, offer, state>>

WakeProducers ==
  /\ closer = "woke_workers"
  /\ space'  = {}
  /\ closer' = "joining"
  /\ UNCHANGED <<queue, closing, ready, worker, job, offer, state>>

\* The last join returns.
Joined ==
  /\ closer = "joining"
  /\ \A w \in Workers : worker[w] \in {"unborn", "exited"}
  /\ closer' = "closed"
  /\ UNCHANGED <<queue, closing, ready, space, worker, job, offer, state>>

-----------------------------------------------------------------------------
(* The workers *)

\* A worker may look at the queue when it is looping, or once it has left the
\* wait set.
Awake(w) == worker[w] = "looping" \/ (worker[w] = "waiting" /\ w \notin ready)

Sleep(w) ==
  /\ Awake(w)
  /\ ~CanTake
  /\ ready'  = ready \cup {w}
  /\ worker' = [worker EXCEPT ![w] = "waiting"]
  /\ UNCHANGED <<queue, closing, space, job, offer, state, closer>>

\* Mutant: the front of the queue is copied, not removed.
Take_NoPop(w) ==
  /\ Awake(w)
  /\ queue # <<>>
  /\ job'    = [job EXCEPT ![w] = Head(queue)]
  /\ state'  = [state EXCEPT ![Head(queue)] = "running"]
  /\ queue'  = queue
  /\ worker' = [worker EXCEPT ![w] = "running"]
  /\ NotifyOne(space, space')
  /\ UNCHANGED <<closing, ready, offer, closer>>

\* Mutant: the last task is taken first.
Take_Last(w) ==
  /\ Awake(w)
  /\ queue # <<>>
  /\ job'    = [job EXCEPT ![w] = queue[Len(queue)]]
  /\ state'  = [state EXCEPT ![queue[Len(queue)]] = "running"]
  /\ queue'  = SubSeq(queue, 1, Len(queue) - 1)
  /\ worker' = [worker EXCEPT ![w] = "running"]
  /\ NotifyOne(space, space')
  /\ UNCHANGED <<closing, ready, offer, closer>>

Take(w) ==
  /\ Awake(w)
  /\ queue # <<>>
  /\ job'    = [job EXCEPT ![w] = Head(queue)]
  /\ state'  = [state EXCEPT ![Head(queue)] = "running"]
  /\ queue'  = Tail(queue)
  /\ worker' = [worker EXCEPT ![w] = "running"]
  /\ NotifyOne(space, space')
  /\ UNCHANGED <<closing, ready, offer, closer>>

\* The task runs without the mutex; the packaged_task keeps its exception.
Run(w) ==
  /\ worker[w] = "running"
  /\ \E end \in Finished : state' = [state EXCEPT ![job[w]] = end]
  /\ job'    = [job EXCEPT ![w] = NoTask]
  /\ worker' = [worker EXCEPT ![w] = "looping"]
  /\ UNCHANGED <<queue, closing, ready, space, offer, closer>>

Exit(w) ==
  /\ Awake(w)
  /\ CanTake
  /\ queue = <<>>
  /\ worker' = [worker EXCEPT ![w] = "exited"]
  /\ UNCHANGED <<queue, closing, ready, space, job, offer, state, closer>>

\* wait() may return without a notification.
Spurious ==
  /\ \/ \E w \in ready : ready' = ready \ {w} /\ UNCHANGED space
     \/ \E p \in space : space' = space \ {p} /\ UNCHANGED ready
  /\ UNCHANGED <<queue, closing, worker, job, offer, state, closer>>

-----------------------------------------------------------------------------
(* The producers: submit *)

\* Only a pool whose constructor returned can be called.
Offer(p, t) ==
  /\ \A w \in Workers : worker[w] # "unborn"
  /\ offer[p] = NoTask
  /\ state[t] = "new"
  /\ offer' = [offer EXCEPT ![p] = t]
  /\ state' = [state EXCEPT ![t] = "offered"]
  /\ UNCHANGED <<queue, closing, ready, space, worker, job, closer>>

Submitting(p) == offer[p] # NoTask /\ p \notin space

Block(p) ==
  /\ Submitting(p)
  /\ ~CanSubmit
  /\ space' = space \cup {p}
  /\ UNCHANGED <<queue, closing, ready, worker, job, offer, state, closer>>

\* Mutant: no worker is told about the task.
Accept_NoNotify(p) ==
  /\ Submitting(p)
  /\ CanSubmit
  /\ ~closing
  /\ queue' = Append(queue, offer[p])
  /\ state' = [state EXCEPT ![offer[p]] = "queued"]
  /\ offer' = [offer EXCEPT ![p] = NoTask]
  /\ UNCHANGED ready
  /\ UNCHANGED <<closing, space, worker, job, closer>>

Accept(p) ==
  /\ Submitting(p)
  /\ CanSubmit
  /\ ~closing
  /\ queue' = Append(queue, offer[p])
  /\ state' = [state EXCEPT ![offer[p]] = "queued"]
  /\ offer' = [offer EXCEPT ![p] = NoTask]
  /\ NotifyOne(ready, ready')
  /\ UNCHANGED <<closing, space, worker, job, closer>>

Reject(p) ==
  /\ Submitting(p)
  /\ closing
  /\ state' = [state EXCEPT ![offer[p]] = "rejected"]
  /\ offer' = [offer EXCEPT ![p] = NoTask]
  /\ UNCHANGED <<queue, closing, ready, space, worker, job, closer>>

-----------------------------------------------------------------------------
(* The specification *)

Init ==
  /\ queue   = <<>>
  /\ closing = FALSE
  /\ ready   = {}
  /\ space   = {}
  /\ worker  = [w \in Workers |-> "unborn"]
  /\ job     = [w \in Workers |-> NoTask]
  /\ offer   = [p \in Producers |-> NoTask]
  /\ state   = [t \in Tasks |-> "new"]
  /\ closer  = "constructing"

Closing   == WakeWorkers \/ WakeProducers \/ Joined
Loop(w)   == Sleep(w) \/ Take(w) \/ Run(w) \/ Exit(w)
Submit(p) == Block(p) \/ Accept(p) \/ Reject(p)

Next ==
  \/ SetClosing \/ Closing \/ Spurious
  \/ \E w \in Workers : Spawn(w) \/ Loop(w)
  \/ \E p \in Producers : Submit(p) \/ \E t \in Tasks : Offer(p, t)

Spec == Init /\ [][Next]_vars

\* Every thread that can run does.  Nobody has to submit or to call close(),
\* and no thread can count on a spurious wake-up.
Fairness ==
  /\ WF_vars(Closing)
  /\ \A w \in Workers : WF_vars(Loop(w))
  /\ \A p \in Producers : WF_vars(Submit(p))

FairSpec == Spec /\ Fairness

-----------------------------------------------------------------------------
(* Properties *)

\* Every variable holds a value of its type.
TypeOK ==
  /\ queue   \in Seq(Tasks)
  /\ closing \in BOOLEAN
  /\ ready   \subseteq Workers
  /\ space   \subseteq Producers
  /\ worker  \in [Workers -> WorkerStates]
  /\ job     \in [Workers -> Tasks \cup {NoTask}]
  /\ offer   \in [Producers -> Tasks \cup {NoTask}]
  /\ state   \in [Tasks -> TaskStates]
  /\ closer  \in CloserStates

\* The queue is bounded although several producers are woken for one slot.
QueueWithinCapacity == Len(queue) <= Capacity

\* No accepted task is lost or run twice: a queued task is in the queue at one
\* place, a running one belongs to one worker, and nothing else is there.
TaskInOnePlace ==
  /\ \A i, j \in DOMAIN queue : queue[i] = queue[j] => i = j
  /\ \A t \in Tasks : state[t] = "queued" <=> \E i \in DOMAIN queue : queue[i] = t
  /\ \A v, w \in Workers : job[v] = job[w] /\ job[v] # NoTask => v = w
  /\ \A t \in Tasks : state[t] = "running" <=> \E w \in Workers : job[w] = t

\* "Destruction drains accepted work and joins every worker": when close()
\* returns, no accepted task is left over.
CloseDrains ==
  closer = "closed" =>
    /\ \A t \in Tasks : state[t] \notin {"queued", "running"}
    /\ \A w \in Workers : worker[w] \in {"unborn", "exited"}

\* What was accepted is kept: in the queue, which is bounded, or with one worker, until
\* it has run, and close() does not leave any of it behind.
TasksAreKept == QueueWithinCapacity /\ TaskInOnePlace /\ CloseDrains

\* No wake-up is lost between the two condition variables: an accepted task
\* is run although nobody ever closes the pool.
AcceptedTaskRuns == \A t \in Tasks : state[t] = "queued" ~> state[t] \in Finished

\* A producer blocked on a full queue gets its answer, and close() wakes and
\* joins every worker, wherever it was caught.
CallsReturn ==
  /\ \A t \in Tasks : state[t] = "offered" ~> state[t] # "offered"
  /\ closer = "flagged" ~> closer = "closed"

-----------------------------------------------------------------------------
(* Refinement: the pool is a first-in first-out executor *)

Executor == INSTANCE TaskExecutor WITH
  Width    <- Cardinality(Workers),
  waiting  <- queue,
  running  <- {t \in Tasks : state[t] = "running"},
  finished <- {t \in Tasks : state[t] \in Finished},
  phase    <- IF closer = "closed" THEN "closed" ELSE IF closing THEN "draining" ELSE "open"

\* Threads, mutex and condition variables implement the plain executor: tasks
\* start in the order of acceptance, at most one per worker, none is accepted
\* after closing began, and closing ends when all accepted work is done.
PoolIsExecutor == Executor!Spec
=============================================================================
