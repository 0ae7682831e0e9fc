------------------------------ MODULE ThreadPool ------------------------------
(***************************************************************************)
(* The pthread pool of utils/ThreadPool.cpp: a ring buffer of tasks under  *)
(* one mutex and one condition variable, worker threads that wait for      *)
(* tasks, callers of threadpool_add, and callers of threadpool_destroy.    *)
(*                                                                         *)
(* All shared state is read and written with the mutex held, so a critical *)
(* section is one action; what the model keeps of the mutex is who, if     *)
(* anyone, still holds it between two actions.                             *)
(***************************************************************************)
EXTENDS Integers, Sequences

CONSTANTS
  MaxThreads,   \* _thread_count, after the range check of threadpool_create
  QueueSize,    \* queue_size, after the same check
  Clients,      \* threads that call threadpool_add
  Destroyers,   \* threads that call threadpool_destroy, each at most once
  Tasks,        \* bound: the tasks submitted, each once
  Nobody,       \* holds the mutex when nobody does
  NoTask        \* an empty slot

ASSUME PoolAssumption ==
  /\ MaxThreads \in Nat \ {0}
  /\ QueueSize \in Nat \ {0}
  /\ NoTask \notin Tasks
  /\ Nobody \notin Destroyers \cup {"destroyed"}

Threads == 1..MaxThreads
Slots == 0..(QueueSize - 1)
Options == {"immediate", "graceful"}

VARIABLES
  phase,         \* threadpool_create: "creating", "ready"
  thread_count,  \* threads created so far
  started,       \* threads created and not yet ended
  lock,          \* Nobody, a destroyer, or "destroyed"
  queue,         \* [Slots -> task or NoTask]
  head, tail, count,
  shutdown,      \* "no" (0), "immediate" or "graceful"
  thread,        \* [at, task] of each pool thread
  client,        \* [at, task] of each caller of threadpool_add
  destroyer,     \* [at, opt] of each caller of threadpool_destroy
  result,        \* what threadpool_add returned for each task
  handed         \* history: the tasks taken off the queue, in order

ring == <<queue, head, tail, count>>
vars == <<phase, thread_count, started, lock, ring, shutdown, thread, client,
          destroyer, result, handed>>

\* Seeded fault: the ring wraps one slot too early.
NextTooShort(n) == (n + 1) % (QueueSize - 1)

\* The slot after n.
NextSlot(n) == (n + 1) % QueueSize

\* Seeded fault: the last thread is not joined.
CreatedButLast == 1..(thread_count - 1)

\* The threads threadpool_destroy joins.
Created == 1..thread_count
Waiting == {i \in Threads : thread[i].at = "waiting"}
Resting(at) == [at |-> at, task |-> NoTask]

-----------------------------------------------------------------------------
(* threadpool_create *)

CreateThread ==
  /\ phase = "creating"
  /\ thread_count < MaxThreads
  /\ thread_count' = thread_count + 1
  /\ started' = started + 1
  /\ thread' = [thread EXCEPT ![thread_count + 1] = Resting("ready")]
  /\ phase' = IF thread_count + 1 = MaxThreads THEN "ready" ELSE "creating"
  /\ UNCHANGED <<lock, ring, shutdown, client, destroyer, result, handed>>

\* pthread_create fails: threadpool_create returns -1 with the threads it has.
CreateFails ==
  /\ phase = "creating"
  /\ phase' = "ready"
  /\ UNCHANGED <<thread_count, started, lock, ring, shutdown, thread, client,
                 destroyer, result, handed>>

-----------------------------------------------------------------------------
(* threadpool_add *)

Call(c, t) ==
  /\ phase = "ready"
  /\ client[c].at = "idle"
  /\ result[t] = "none"
  /\ \A d \in Clients : client[d].task # t
  /\ client' = [client EXCEPT ![c] = [at |-> "lock", task |-> t]]
  /\ UNCHANGED <<phase, thread_count, started, lock, ring, shutdown, thread,
                 destroyer, result, handed>>

Return(c, r) ==
  /\ client' = [client EXCEPT ![c] = Resting("idle")]
  /\ result' = [result EXCEPT ![client[c].task] = r]

\* Seeded fault: the task is queued and nobody is told.
SignalForgotten == UNCHANGED thread

\* pthread_cond_signal wakes one of the waiting threads, if there is one.
Signal ==
  IF Waiting = {} THEN UNCHANGED thread
  ELSE \E i \in Waiting : thread' = [thread EXCEPT ![i] = Resting("ready")]

\* Seeded fault: a full queue is noticed one task too late.
FullTooLate == count > QueueSize

Full == count = QueueSize

threadpool_add(c) ==
  /\ client[c].at = "lock"
  /\ lock = Nobody
  /\ \/ Full /\ Return(c, "THREADPOOL_QUEUE_FULL") /\ UNCHANGED <<ring, thread>>
     \/ /\ ~Full /\ shutdown # "no"
        /\ Return(c, "THREADPOOL_SHUTDOWN") /\ UNCHANGED <<ring, thread>>
     \/ /\ ~Full /\ shutdown = "no"
        /\ queue' = [queue EXCEPT ![tail] = client[c].task]
        /\ tail' = NextSlot(tail)
        /\ count' = count + 1
        /\ Signal
        /\ Return(c, "ok")
        /\ UNCHANGED head
  /\ UNCHANGED <<phase, thread_count, started, lock, shutdown, destroyer, handed>>

-----------------------------------------------------------------------------
(* threadpool_thread *)

\* Seeded faults: a graceful shutdown does not wait for the queue to drain, and
\* an immediate one does.
LeavesEarly == shutdown # "no"
LeavesLate == shutdown # "no" /\ count = 0

Leaves == shutdown = "immediate" \/ (shutdown = "graceful" /\ count = 0)

\* The body of the loop from the lock to cond_wait, to the end of the thread,
\* or to the unlock with a task in hand.
threadpool_thread(i) ==
  /\ thread[i].at = "ready"
  /\ lock = Nobody
  /\ \/ /\ count = 0 /\ shutdown = "no"
        /\ thread' = [thread EXCEPT ![i] = Resting("waiting")]
        /\ UNCHANGED <<started, ring, handed>>
     \/ /\ Leaves
        /\ started' = started - 1
        /\ thread' = [thread EXCEPT ![i] = Resting("ended")]
        /\ UNCHANGED <<ring, handed>>
     \/ /\ ~(count = 0 /\ shutdown = "no") /\ ~Leaves
        /\ thread' = [thread EXCEPT ![i] = [at |-> "running", task |-> queue[head]]]
        /\ handed' = Append(handed, queue[head])
        /\ queue' = [queue EXCEPT ![head] = NoTask]
        /\ head' = NextSlot(head)
        /\ count' = count - 1
        /\ UNCHANGED <<started, tail>>
  /\ UNCHANGED <<phase, thread_count, lock, shutdown, client, destroyer, result>>

\* (task.fun)(task.args) returns.
TaskReturns(i) ==
  /\ thread[i].at = "running"
  /\ thread' = [thread EXCEPT ![i] = Resting("ready")]
  /\ UNCHANGED <<phase, thread_count, started, lock, ring, shutdown, client,
                 destroyer, result, handed>>

\* pthread_cond_wait may return without a signal.
SpuriousWakeup(i) ==
  /\ thread[i].at = "waiting"
  /\ thread' = [thread EXCEPT ![i] = Resting("ready")]
  /\ UNCHANGED <<phase, thread_count, started, lock, ring, shutdown, client,
                 destroyer, result, handed>>

-----------------------------------------------------------------------------
(* threadpool_destroy *)

CallDestroy(d, opt) ==
  /\ phase = "ready"
  /\ destroyer[d].at = "idle"
  /\ destroyer' = [destroyer EXCEPT ![d] = [at |-> "lock", opt |-> opt]]
  /\ UNCHANGED <<phase, thread_count, started, lock, ring, shutdown, thread,
                 client, result, handed>>

Goto(d, place) == destroyer' = [destroyer EXCEPT ![d] = [at |-> place, opt |-> @.opt]]

\* Seeded fault: one thread is woken instead of all.
WakeOne == Signal

\* pthread_cond_broadcast
WakeAll ==
  thread' = [i \in Threads |-> IF i \in Waiting THEN Resting("ready") ELSE thread[i]]

\* The second caller leaves the do-while loop by `break`, which skips the only
\* pthread_mutex_unlock of the function.
threadpool_destroy(d) ==
  /\ destroyer[d].at = "lock"
  /\ lock = Nobody
  /\ \/ /\ shutdown # "no"
        /\ lock' = d
        /\ Goto(d, "THREADPOOL_SHUTDOWN")
        /\ UNCHANGED <<shutdown, thread>>
     \/ /\ shutdown = "no"
        /\ shutdown' = destroyer[d].opt
        /\ WakeAll
        /\ Goto(d, "join")
        /\ UNCHANGED lock
  /\ UNCHANGED <<phase, thread_count, started, ring, client, result, handed>>

\* pthread_join of every thread created.
JoinAll(d) ==
  /\ destroyer[d].at = "join"
  /\ \A i \in Created : thread[i].at = "ended"
  /\ Goto(d, "free")
  /\ UNCHANGED <<phase, thread_count, started, lock, ring, shutdown, thread,
                 client, result, handed>>

\* threadpool_free gives up while threads are left; otherwise it locks the mutex
\* and destroys it locked, and nobody can lock it again.
threadpool_free(d) ==
  /\ destroyer[d].at = "free"
  /\ started = 0 => lock = Nobody
  /\ lock' = IF started > 0 THEN lock ELSE "destroyed"
  /\ Goto(d, "ok")
  /\ UNCHANGED <<phase, thread_count, started, ring, shutdown, thread, client,
                 result, handed>>

-----------------------------------------------------------------------------
Init ==
  /\ phase = "creating"
  /\ thread_count = 0 /\ started = 0
  /\ lock = Nobody
  /\ queue = [n \in Slots |-> NoTask]
  /\ head = 0 /\ tail = 0 /\ count = 0
  /\ shutdown = "no"
  /\ thread = [i \in Threads |-> Resting("none")]
  /\ client = [c \in Clients |-> Resting("idle")]
  /\ destroyer = [d \in Destroyers |-> [at |-> "idle", opt |-> "graceful"]]
  /\ result = [t \in Tasks |-> "none"]
  /\ handed = <<>>

ThreadStep(i) == threadpool_thread(i) \/ TaskReturns(i)
DestroyStep(d) == threadpool_destroy(d) \/ JoinAll(d) \/ threadpool_free(d)

Next ==
  \/ CreateThread \/ CreateFails
  \/ \E c \in Clients : threadpool_add(c) \/ \E t \in Tasks : Call(c, t)
  \/ \E i \in Threads : ThreadStep(i) \/ SpuriousWakeup(i)
  \/ \E d \in Destroyers : DestroyStep(d) \/ \E opt \in Options : CallDestroy(d, opt)

Spec == Init /\ [][Next]_vars

\* Threads run, tasks return, and the mutex, which no thread holds across two
\* actions unless for ever, is obtained by those who wait for it.  Nobody is
\* obliged to call the pool, and no spurious wake-up may be relied upon.
Fairness ==
  /\ \A c \in Clients : WF_vars(threadpool_add(c))
  /\ \A i \in Threads : WF_vars(ThreadStep(i))
  /\ \A d \in Destroyers : WF_vars(DestroyStep(d))

FairSpec == Spec /\ Fairness
-----------------------------------------------------------------------------
(* Properties *)

ThreadAt == {"none", "ready", "waiting", "running", "ended"}
DestroyAt == {"idle", "lock", "join", "free", "ok", "THREADPOOL_SHUTDOWN"}
ThreadRec == [at : ThreadAt, task : Tasks \cup {NoTask}]
ClientRec == {r \in [at : {"idle", "lock"}, task : Tasks \cup {NoTask}] :
                r.at = "lock" => r.task \in Tasks}
Results == {"none", "ok", "THREADPOOL_QUEUE_FULL", "THREADPOOL_SHUTDOWN"}

\* Every variable has its type; the counters of threads and of tasks stay
\* within the arrays they index.
TypeOK ==
  /\ phase \in {"creating", "ready"}
  /\ thread_count \in 0..MaxThreads
  /\ started \in 0..MaxThreads
  /\ lock \in Destroyers \cup {Nobody, "destroyed"}
  /\ queue \in [Slots -> Tasks \cup {NoTask}]
  /\ head \in Slots /\ tail \in Slots /\ count \in 0..QueueSize
  /\ shutdown \in Options \cup {"no"}
  /\ thread \in [Threads -> ThreadRec]
  /\ client \in [Clients -> ClientRec]
  /\ destroyer \in [Destroyers -> [at : DestroyAt, opt : Options]]
  /\ result \in [Tasks -> Results]
  /\ handed \in Seq(Tasks)

\* The slot of the n-th task, counted from 0, in a ring that starts at h.
Slot(h, n) == (h + n) % QueueSize

Ring(q, h, t, c) ==
  /\ t = Slot(h, c)
  /\ \A m \in Slots : (q[m] # NoTask) <=> (\E n \in 0..(c - 1) : m = Slot(h, n))

\* head, tail and count describe the same ring: tail is count slots after head,
\* and exactly the slots between them hold a task.
RingConsistent == Ring(queue, head, tail, count)

\* The abstract queue: the ring read from head to tail.
ReadRing(q, h, c) == [n \in 1..c |-> q[Slot(h, n - 1)]]
Contents == ReadRing(queue, head, count)
Mode == IF shutdown = "no" THEN "open" ELSE shutdown
Abstract == INSTANCE TaskQueue
              WITH Capacity <- QueueSize, pending <- Contents, mode <- Mode

\* The pool is a bounded first-in first-out queue: tasks leave the ring in the
\* order threadpool_add accepted them, each once, none after an immediate
\* shutdown, and none enters a full or a closed pool.
IsTaskQueue == Abstract!Spec

\* threadpool_destroy(graceful_shutdown) with at least one thread: when its
\* threads have ended, every task threadpool_add accepted was handed out.
GracefulDrains ==
  (shutdown = "graceful" /\ thread_count > 0 /\ \A i \in Created : thread[i].at = "ended")
    => \A t \in Tasks : result[t] = "ok" => \E n \in 1..Len(handed) : handed[n] = t

\* When threadpool_destroy has joined the threads, none of them is left, and
\* threadpool_free does not give up on a positive `started`.
FreedPoolIsQuiet ==
  \A d \in Destroyers : destroyer[d].at \in {"free", "ok"} =>
    /\ started = 0
    /\ \A i \in Threads : thread[i].at \in {"none", "ended"}

\* A second caller of threadpool_destroy has left with the mutex locked.
MutexLeft == \E d \in Destroyers : destroyer[d].at = "THREADPOOL_SHUTDOWN"

\* No wake-up is lost: an accepted task is taken by a thread unless the pool is
\* shut down at once, has no thread, or has lost its mutex.
AcceptedRuns ==
  \A t \in Tasks :
    (result[t] = "ok") ~> \/ \E n \in 1..Len(handed) : handed[n] = t
                          \/ shutdown = "immediate" \/ thread_count = 0 \/ MutexLeft

\* The broadcast reaches every thread that waits, and each ends: a call of
\* threadpool_destroy that nobody repeats joins them all and frees the pool.
DestroyOnceEnds ==
  \A d \in Destroyers :
    (destroyer[d].at = "join") ~> (destroyer[d].at = "ok" \/ MutexLeft)

=============================================================================
