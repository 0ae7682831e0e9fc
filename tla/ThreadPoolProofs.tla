--------------------------- MODULE ThreadPoolProofs ---------------------------
(***************************************************************************)
(* Proofs about ThreadPool for every queue size and every number of pool   *)
(* threads, callers and tasks.                                             *)
(***************************************************************************)
EXTENDS ThreadPool, FiniteSetTheorems, TLAPS

-----------------------------------------------------------------------------
(* Arithmetic of the ring. *)

\* The index computation `% queue_size` on what the pool applies it to.
LEMMA ModOnce ==
  ASSUME NEW a \in 0..(2 * QueueSize - 1)
  PROVE  a % QueueSize = IF a < QueueSize THEN a ELSE a - QueueSize
<1> USE PoolAssumption
<1>1. CASE a < QueueSize
  BY <1>1, SMT
<1>2. CASE ~(a < QueueSize)
  BY <1>2, SMT
<1> QED
  BY <1>1, <1>2

\* The slot of the n-th task, for a head within the array.
LEMMA SlotValue ==
  ASSUME NEW h \in Slots, NEW n \in 0..QueueSize
  PROVE  /\ Slot(h, n) \in Slots
         /\ Slot(h, n) = IF h + n < QueueSize THEN h + n ELSE h + n - QueueSize
<1>1. h + n \in 0..(2 * QueueSize - 1)
  BY PoolAssumption DEF Slots
<1>2. Slot(h, n) = IF h + n < QueueSize THEN h + n ELSE h + n - QueueSize
  BY <1>1, ModOnce, PoolAssumption DEF Slot, Slots
<1> QED
  BY <1>1, <1>2, PoolAssumption DEF Slots

LEMMA NextSlotValue ==
  ASSUME NEW m \in Slots
  PROVE  /\ NextSlot(m) \in Slots
         /\ NextSlot(m) = IF m = QueueSize - 1 THEN 0 ELSE m + 1
<1>1. m + 1 \in 0..(2 * QueueSize - 1)
  BY PoolAssumption DEF Slots
<1>2. NextSlot(m) = IF m + 1 < QueueSize THEN m + 1 ELSE m + 1 - QueueSize
  BY <1>1, ModOnce, PoolAssumption DEF NextSlot, Slots
<1> QED
  BY <1>2, PoolAssumption DEF Slots

\* How far slot m is behind a head h.
Offset(h, m) == IF m >= h THEN m - h ELSE m + QueueSize - h

LEMMA SlotOccupied ==
  ASSUME NEW h \in Slots, NEW c \in 0..QueueSize, NEW m \in Slots
  PROVE  (\E n \in 0..(c - 1) : m = Slot(h, n)) <=> Offset(h, m) < c
<1> USE PoolAssumption DEF Slots
<1>1. ASSUME NEW n \in 0..(c - 1), m = Slot(h, n) PROVE Offset(h, m) < c
  <2>1. n \in 0..QueueSize
    OBVIOUS
  <2>2. m = IF h + n < QueueSize THEN h + n ELSE h + n - QueueSize
    BY <1>1, <2>1, SlotValue
  <2> QED
    BY <2>2 DEF Offset
<1>2. ASSUME Offset(h, m) < c PROVE \E n \in 0..(c - 1) : m = Slot(h, n)
  <2> DEFINE n == Offset(h, m)
  <2>1. n \in 0..(c - 1) /\ n \in 0..QueueSize
    BY <1>2 DEF Offset
  <2>2. m = IF h + n < QueueSize THEN h + n ELSE h + n - QueueSize
    BY DEF Offset
  <2> HIDE DEF n
  <2>3. m = Slot(h, n)
    BY <2>1, <2>2, SlotValue
  <2> QED
    BY <2>1, <2>3
<1> QED
  BY <1>1, <1>2

\* Ring without the modulus.
LEMMA RingArith ==
  ASSUME NEW q, NEW h \in Slots, NEW t, NEW c \in 0..QueueSize
  PROVE  Ring(q, h, t, c) <=>
           /\ t = IF h + c < QueueSize THEN h + c ELSE h + c - QueueSize
           /\ \A m \in Slots : (q[m] # NoTask) <=> Offset(h, m) < c
<1>1. Slot(h, c) = IF h + c < QueueSize THEN h + c ELSE h + c - QueueSize
  BY SlotValue
<1> QED
  BY <1>1, SlotOccupied DEF Ring

\* threadpool_add fills the slot behind the last one.
LEMMA RingAdd ==
  ASSUME NEW q \in [Slots -> Tasks \cup {NoTask}], NEW h \in Slots, NEW t \in Slots,
         NEW c \in 0..QueueSize, c # QueueSize, NEW task \in Tasks, Ring(q, h, t, c)
  PROVE  Ring([q EXCEPT ![t] = task], h, NextSlot(t), c + 1)
<1> USE PoolAssumption DEF Slots
<1> DEFINE p == [q EXCEPT ![t] = task]
           u == NextSlot(t)
<1>1. c + 1 \in 0..QueueSize
  OBVIOUS
<1>2. /\ t = IF h + c < QueueSize THEN h + c ELSE h + c - QueueSize
      /\ \A m \in Slots : (q[m] # NoTask) <=> Offset(h, m) < c
  BY RingArith
<1>3. u = IF t = QueueSize - 1 THEN 0 ELSE t + 1
  BY NextSlotValue
<1>4. u = IF h + (c + 1) < QueueSize THEN h + (c + 1) ELSE h + (c + 1) - QueueSize
  BY <1>2, <1>3
<1>5. ASSUME NEW m \in Slots PROVE (p[m] # NoTask) <=> Offset(h, m) < c + 1
  <2>1. Offset(h, m) \in Int /\ (m = t <=> Offset(h, m) = c)
    BY <1>2 DEF Offset
  <2>2. p[m] = IF m = t THEN task ELSE q[m]
    OBVIOUS
  <2> QED
    BY <1>2, <2>1, <2>2
<1> HIDE DEF p, u
<1>6. Ring(p, h, u, c + 1)
  BY <1>1, <1>4, <1>5, RingArith
<1> QED
  BY <1>6 DEF p, u

\* threadpool_thread empties the slot at the head, which holds a task.
LEMMA RingTake ==
  ASSUME NEW q \in [Slots -> Tasks \cup {NoTask}], NEW h \in Slots, NEW t \in Slots,
         NEW c \in 0..QueueSize, c # 0, Ring(q, h, t, c)
  PROVE  /\ Ring([q EXCEPT ![h] = NoTask], NextSlot(h), t, c - 1)
         /\ q[h] \in Tasks
<1> USE PoolAssumption DEF Slots
<1> DEFINE p == [q EXCEPT ![h] = NoTask]
           g == NextSlot(h)
<1>1. c - 1 \in 0..QueueSize
  OBVIOUS
<1>2. /\ t = IF h + c < QueueSize THEN h + c ELSE h + c - QueueSize
      /\ \A m \in Slots : (q[m] # NoTask) <=> Offset(h, m) < c
  BY RingArith
<1>3. g \in Slots /\ g = IF h = QueueSize - 1 THEN 0 ELSE h + 1
  BY NextSlotValue
<1>4. t = IF g + (c - 1) < QueueSize THEN g + (c - 1) ELSE g + (c - 1) - QueueSize
  BY <1>2, <1>3
<1>5. ASSUME NEW m \in Slots PROVE (p[m] # NoTask) <=> Offset(g, m) < c - 1
  <2>1. p[m] = IF m = h THEN NoTask ELSE q[m]
    OBVIOUS
  <2>2. CASE m = h
    <3>1. Offset(g, m) = QueueSize - 1
      BY <1>3, <2>2 DEF Offset
    <3> QED
      BY <2>1, <2>2, <3>1
  <2>3. CASE m # h
    <3>1. Offset(h, m) \in Int /\ Offset(g, m) = Offset(h, m) - 1
      BY <1>3, <2>3 DEF Offset
    <3> QED
      BY <1>2, <2>1, <2>3, <3>1
  <2> QED
    BY <2>2, <2>3
<1>6. q[h] # NoTask
  BY <1>2 DEF Offset
<1> HIDE DEF p, g
<1>7. Ring(p, g, t, c - 1)
  BY <1>1, <1>3, <1>4, <1>5, RingArith
<1> QED
  BY <1>6, <1>7 DEF p, g

-----------------------------------------------------------------------------
(* The inductive invariant. *)

Alive == {i \in Threads : thread[i].at \notin {"none", "ended"}}

\* TypeOK is not inductive by itself: that `started` never drops below zero needs
\* the threads it counts, that a thread never takes an empty slot needs the ring.
PoolInv ==
  /\ TypeOK
  /\ RingConsistent
  /\ started = Cardinality(Alive)
  /\ \A i \in Threads : thread[i].at = "none" <=> thread_count < i
  /\ \A d \in Destroyers : destroyer[d].at # "idle" => phase = "ready"
  /\ FreedPoolIsQuiet

\* Any set of pool threads is finite and counted by a number of at most MaxThreads.
LEMMA AliveFinite ==
  ASSUME NEW A \in SUBSET Threads
  PROVE  IsFiniteSet(A) /\ Cardinality(A) \in 0..MaxThreads
<1>1. MaxThreads \in Nat /\ MaxThreads >= 1
  BY PoolAssumption
<1>2. IsFiniteSet(Threads) /\ Cardinality(Threads) = MaxThreads
  BY <1>1, FS_Interval DEF Threads
<1>3. IsFiniteSet(A) /\ Cardinality(A) <= MaxThreads
  BY <1>2, FS_Subset
<1>4. Cardinality(A) \in Nat
  BY <1>3, FS_CardinalityType
<1> QED
  BY <1>1, <1>3, <1>4

LEMMA PoolInit == Init => PoolInv
<1> SUFFICES ASSUME Init PROVE PoolInv
  OBVIOUS
<1> USE PoolAssumption
<1>1. TypeOK
  BY DEF Init, TypeOK, Slots, Threads, ThreadRec, ClientRec, ThreadAt, DestroyAt, Options,
         Results, Resting
<1>2. RingConsistent
  <2>1. 0 \in Slots /\ 0 \in 0..QueueSize
    BY DEF Slots
  <2>2. \A m \in Slots : (queue[m] # NoTask) <=> Offset(0, m) < 0
    BY DEF Init, Offset, Slots
  <2> QED
    BY <2>1, <2>2, RingArith DEF Init, RingConsistent
<1>3. Alive = {} /\ started = Cardinality(Alive)
  <2>1. Alive = {}
    BY DEF Init, Alive, Resting
  <2> QED
    BY <2>1, FS_EmptySet DEF Init
<1> QED
  BY <1>1, <1>2, <1>3 DEF PoolInv, Init, FreedPoolIsQuiet, Threads, Resting

\* A step that moves one live thread to another live place, or none, keeps the
\* number of live threads.
LEMMA AliveFrame ==
  ASSUME PoolInv,
         \A i \in Threads : thread'[i].at = thread[i].at
                            \/ {thread[i].at, thread'[i].at} \cap {"none", "ended"} = {},
         UNCHANGED <<started, thread_count>>
  PROVE  /\ started' = Cardinality(Alive')
         /\ \A i \in Threads : thread'[i].at = "none" <=> thread_count' < i
<1>1. Alive' = Alive
  BY DEF Alive
<1>2. \A i \in Threads : thread'[i].at = "none" <=> thread[i].at = "none"
  OBVIOUS
<1> QED
  BY <1>1, <1>2 DEF PoolInv

\* The same step keeps a freed pool quiet.
LEMMA QuietFrame ==
  ASSUME PoolInv, destroyer' = destroyer, started' = started,
         \A i \in Threads : thread'[i].at = thread[i].at
                            \/ thread[i].at \notin {"none", "ended"}
  PROVE  FreedPoolIsQuiet'
BY DEF PoolInv, FreedPoolIsQuiet

\* A thread that is taken from one place to another.
LEMMA MoveThread ==
  ASSUME TypeOK, NEW i \in Threads, NEW at \in ThreadAt, NEW task \in Tasks \cup {NoTask},
         thread' = [thread EXCEPT ![i] = [at |-> at, task |-> task]]
  PROVE  /\ thread' \in [Threads -> ThreadRec]
         /\ thread'[i].at = at
         /\ \A k \in Threads : k # i => thread'[k] = thread[k]
BY DEF TypeOK, ThreadRec

\* Signal and broadcast move waiting threads to the lock, and nothing else.
LEMMA Wakes ==
  ASSUME TypeOK, Signal \/ WakeAll
  PROVE  /\ thread' \in [Threads -> ThreadRec]
         /\ \A i \in Threads : \/ thread'[i] = thread[i]
                               \/ thread[i].at = "waiting" /\ thread'[i].at = "ready"
<1>1. CASE Signal
  <2>1. CASE Waiting = {}
    BY <1>1, <2>1 DEF Signal, TypeOK
  <2>2. CASE Waiting # {}
    <3>1. PICK i \in Waiting : thread' = [thread EXCEPT ![i] = Resting("ready")]
      BY <1>1, <2>2 DEF Signal
    <3>2. i \in Threads /\ thread[i].at = "waiting"
      BY DEF Waiting
    <3> QED
      BY <3>1, <3>2, MoveThread DEF Resting, ThreadAt
  <2> QED
    BY <2>1, <2>2
<1>2. CASE WakeAll
  <2>1. Resting("ready") \in ThreadRec /\ Resting("ready").at = "ready"
    BY DEF Resting, ThreadRec, ThreadAt
  <2> QED
    BY <1>2, <2>1 DEF WakeAll, Waiting, TypeOK
<1> QED
  BY <1>1, <1>2

\* Every step of the pool keeps the invariant.
LEMMA PoolStep == PoolInv /\ [Next]_vars => PoolInv'
<1> SUFFICES ASSUME PoolInv, [Next]_vars PROVE PoolInv'
  OBVIOUS
<1>t. TypeOK /\ RingConsistent /\ FreedPoolIsQuiet
  BY DEF PoolInv
<1>r. UNCHANGED ring => RingConsistent'
  BY <1>t DEF ring, RingConsistent, Ring
<1>d. ASSUME UNCHANGED <<phase, destroyer>>
      PROVE  \A d \in Destroyers : destroyer'[d].at # "idle" => phase' = "ready"
  BY <1>d DEF PoolInv
<1> USE DEF ring
<1>1. CASE CreateThread
  <2> DEFINE n == thread_count + 1
  <2>1. n \in Threads /\ phase' \in {"creating", "ready"}
    BY <1>1, <1>t, PoolAssumption DEF CreateThread, TypeOK, Threads
  <2>2. thread' = [thread EXCEPT ![n] = [at |-> "ready", task |-> NoTask]]
    BY <1>1 DEF CreateThread, Resting
  <2>3. /\ thread' \in [Threads -> ThreadRec]
        /\ thread'[n].at = "ready"
        /\ \A k \in Threads : k # n => thread'[k] = thread[k]
    BY <1>t, <2>1, <2>2, MoveThread DEF ThreadAt
  <2>4. n \notin Alive /\ Alive' = Alive \cup {n}
    <3>1. thread[n].at = "none"
      BY <1>1, <1>t, <2>1 DEF PoolInv, TypeOK, CreateThread
    <3> QED
      BY <2>1, <2>3, <3>1 DEF Alive
  <2>5. started' = Cardinality(Alive')
    <3>1. IsFiniteSet(Alive)
      BY AliveFinite DEF Alive
    <3> QED
      BY <1>1, <2>4, <3>1, FS_AddElement DEF CreateThread, PoolInv
  <2>6. started' \in 0..MaxThreads
    BY <2>5, AliveFinite DEF Alive
  <2>7. \A i \in Threads : thread'[i].at = "none" <=> thread_count' < i
    BY <1>1, <1>t, <2>1, <2>3 DEF CreateThread, PoolInv, TypeOK, Threads
  <2>8. \A d \in Destroyers : destroyer'[d].at = "idle"
    BY <1>1 DEF CreateThread, PoolInv
  <2>9. TypeOK'
    BY <1>1, <1>t, <2>1, <2>3, <2>6, PoolAssumption DEF CreateThread, TypeOK, Threads
  <2> QED
    BY <1>1, <1>r, <2>5, <2>7, <2>8, <2>9 DEF CreateThread, PoolInv, FreedPoolIsQuiet
<1>2. CASE CreateFails
  <2>1. TypeOK' /\ RingConsistent'
    BY <1>2, <1>t, <1>r DEF CreateFails, TypeOK
  <2> QED
    BY <1>2, <1>t, <2>1, AliveFrame, QuietFrame DEF CreateFails, PoolInv
<1>3. ASSUME NEW c \in Clients, NEW t \in Tasks, Call(c, t) PROVE PoolInv'
  <2>1. [at |-> "lock", task |-> t] \in ClientRec
    BY DEF ClientRec
  <2>2. TypeOK' /\ RingConsistent'
    BY <1>3, <1>t, <1>r, <2>1 DEF Call, TypeOK
  <2> QED
    BY <1>3, <1>d, <1>t, <2>2, AliveFrame, QuietFrame DEF Call, PoolInv
<1>4. ASSUME NEW c \in Clients, threadpool_add(c) PROVE PoolInv'
  <2>1. client[c].task \in Tasks
    BY <1>4, <1>t DEF threadpool_add, TypeOK, ClientRec
  <2>2. ASSUME NEW r \in Results, Return(c, r)
        PROVE  client' \in [Clients -> ClientRec] /\ result' \in [Tasks -> Results]
    <3>1. Resting("idle") \in ClientRec
      BY DEF Resting, ClientRec
    <3> QED
      BY <1>t, <2>1, <2>2, <3>1 DEF Return, TypeOK
  <2>3. client' \in [Clients -> ClientRec] /\ result' \in [Tasks -> Results]
    BY <1>4, <2>2 DEF threadpool_add, Results
  <2>4. UNCHANGED <<phase, thread_count, started, lock, shutdown, destroyer, handed>>
    BY <1>4 DEF threadpool_add
  <2>5. CASE UNCHANGED <<ring, thread>>
    <3>1. TypeOK' /\ RingConsistent'
      BY <1>t, <1>r, <2>3, <2>4, <2>5 DEF TypeOK
    <3> QED
      BY <1>d, <1>t, <2>4, <2>5, <3>1, AliveFrame, QuietFrame DEF PoolInv
  <2>6. CASE /\ ~Full
             /\ queue' = [queue EXCEPT ![tail] = client[c].task]
             /\ tail' = NextSlot(tail) /\ count' = count + 1 /\ head' = head
             /\ Signal
    <3>1. RingConsistent'
      BY <1>t, <2>1, <2>6, RingAdd DEF RingConsistent, TypeOK, Full
    <3>2. tail' \in Slots
      BY <1>t, <2>6, NextSlotValue DEF TypeOK
    <3>3. /\ thread' \in [Threads -> ThreadRec]
          /\ \A i \in Threads : \/ thread'[i] = thread[i]
                                \/ thread[i].at = "waiting" /\ thread'[i].at = "ready"
      BY <1>t, <2>6, Wakes
    <3>4. queue' \in [Slots -> Tasks \cup {NoTask}] /\ count' \in 0..QueueSize
      BY <1>t, <2>1, <2>6, PoolAssumption DEF TypeOK, Full
    <3>5. TypeOK'
      BY <1>t, <2>3, <2>4, <2>6, <3>2, <3>3, <3>4 DEF TypeOK
    <3>6. /\ started' = Cardinality(Alive')
          /\ \A i \in Threads : thread'[i].at = "none" <=> thread_count' < i
      BY <2>4, <3>3, AliveFrame
    <3>7. FreedPoolIsQuiet'
      BY <2>4, <3>3, QuietFrame
    <3> QED
      BY <1>d, <2>4, <3>1, <3>5, <3>6, <3>7 DEF PoolInv
  <2> QED
    BY <1>4, <2>5, <2>6 DEF threadpool_add
<1>5. ASSUME NEW i \in Threads, threadpool_thread(i) PROVE PoolInv'
  <2>1. UNCHANGED <<phase, thread_count, lock, shutdown, client, destroyer, result>>
        /\ thread[i].at = "ready"
    BY <1>5 DEF threadpool_thread
  <2>2. CASE /\ thread' = [thread EXCEPT ![i] = Resting("waiting")]
             /\ UNCHANGED <<started, ring, handed>>
    <3>1. /\ thread' \in [Threads -> ThreadRec]
          /\ thread'[i].at = "waiting"
          /\ \A k \in Threads : k # i => thread'[k] = thread[k]
      BY <1>t, <2>2, MoveThread DEF Resting, ThreadAt
    <3>2. TypeOK' /\ RingConsistent'
      BY <1>t, <1>r, <2>1, <2>2, <3>1 DEF TypeOK
    <3>3. /\ started' = Cardinality(Alive')
          /\ \A k \in Threads : thread'[k].at = "none" <=> thread_count' < k
      BY <2>1, <2>2, <3>1, AliveFrame
    <3>4. FreedPoolIsQuiet'
      BY <2>1, <2>2, <3>1, QuietFrame
    <3> QED
      BY <1>d, <2>1, <3>2, <3>3, <3>4 DEF PoolInv
  <2>3. CASE /\ started' = started - 1
             /\ thread' = [thread EXCEPT ![i] = Resting("ended")]
             /\ UNCHANGED <<ring, handed>>
    <3>1. /\ thread' \in [Threads -> ThreadRec]
          /\ thread'[i].at = "ended"
          /\ \A k \in Threads : k # i => thread'[k] = thread[k]
      BY <1>t, <2>3, MoveThread DEF Resting, ThreadAt
    <3>2. i \in Alive /\ Alive' = Alive \ {i}
      BY <2>1, <3>1 DEF Alive
    <3>3. started' = Cardinality(Alive')
      <4>1. IsFiniteSet(Alive)
        BY AliveFinite DEF Alive
      <4> QED
        BY <2>3, <3>2, <4>1, FS_RemoveElement DEF PoolInv
    <3>4. started' \in 0..MaxThreads
      BY <3>3, AliveFinite DEF Alive
    <3>5. TypeOK' /\ RingConsistent'
      BY <1>t, <1>r, <2>1, <2>3, <3>1, <3>4 DEF TypeOK
    <3>6. \A k \in Threads : thread'[k].at = "none" <=> thread_count' < k
      BY <2>1, <3>1 DEF PoolInv
    <3>7. FreedPoolIsQuiet'
      BY <1>t, <2>1, <3>1 DEF FreedPoolIsQuiet
    <3> QED
      BY <1>d, <2>1, <3>3, <3>5, <3>6, <3>7 DEF PoolInv
  <2>4. CASE /\ ~(count = 0 /\ shutdown = "no") /\ ~Leaves
             /\ thread' = [thread EXCEPT ![i] = [at |-> "running", task |-> queue[head]]]
             /\ handed' = Append(handed, queue[head])
             /\ queue' = [queue EXCEPT ![head] = NoTask]
             /\ head' = NextSlot(head)
             /\ count' = count - 1
             /\ UNCHANGED <<started, tail>>
    <3>1. count # 0
      BY <1>t, <2>4 DEF Leaves, TypeOK, Options
    <3>2. RingConsistent' /\ queue[head] \in Tasks
      BY <1>t, <2>4, <3>1, RingTake DEF RingConsistent, TypeOK
    <3>3. /\ thread' \in [Threads -> ThreadRec]
          /\ thread'[i].at = "running"
          /\ \A k \in Threads : k # i => thread'[k] = thread[k]
      BY <1>t, <2>4, <3>2, MoveThread DEF ThreadAt
    <3>4. head' \in Slots
      BY <1>t, <2>4, NextSlotValue DEF TypeOK
    <3>5. queue' \in [Slots -> Tasks \cup {NoTask}] /\ count' \in 0..QueueSize
      BY <1>t, <2>4, <3>1, PoolAssumption DEF TypeOK
    <3>6. handed' \in Seq(Tasks)
      BY <1>t, <2>4, <3>2 DEF TypeOK
    <3>7. TypeOK'
      BY <1>t, <2>1, <2>4, <3>3, <3>4, <3>5, <3>6 DEF TypeOK
    <3>8. /\ started' = Cardinality(Alive')
          /\ \A k \in Threads : thread'[k].at = "none" <=> thread_count' < k
      BY <2>1, <2>4, <3>3, AliveFrame
    <3>9. FreedPoolIsQuiet'
      BY <2>1, <2>4, <3>3, QuietFrame
    <3> QED
      BY <1>d, <2>1, <3>2, <3>7, <3>8, <3>9 DEF PoolInv
  <2> QED
    BY <1>5, <2>2, <2>3, <2>4 DEF threadpool_thread
<1>6. ASSUME NEW i \in Threads, TaskReturns(i) \/ SpuriousWakeup(i) PROVE PoolInv'
  <2>1. /\ UNCHANGED <<phase, thread_count, started, lock, ring, shutdown, client,
                       destroyer, result, handed>>
        /\ thread' = [thread EXCEPT ![i] = Resting("ready")]
        /\ thread[i].at \in {"running", "waiting"}
    BY <1>6 DEF TaskReturns, SpuriousWakeup
  <2>2. /\ thread' \in [Threads -> ThreadRec]
        /\ thread'[i].at = "ready"
        /\ \A k \in Threads : k # i => thread'[k] = thread[k]
    BY <1>t, <2>1, MoveThread DEF Resting, ThreadAt
  <2>3. TypeOK' /\ RingConsistent'
    BY <1>t, <1>r, <2>1, <2>2 DEF TypeOK
  <2>4. /\ started' = Cardinality(Alive')
        /\ \A k \in Threads : thread'[k].at = "none" <=> thread_count' < k
    BY <2>1, <2>2, AliveFrame
  <2>5. FreedPoolIsQuiet'
    BY <2>1, <2>2, QuietFrame
  <2> QED
    BY <1>d, <2>1, <2>3, <2>4, <2>5 DEF PoolInv
<1>g. ASSUME NEW d \in Destroyers, NEW place \in DestroyAt, Goto(d, place)
      PROVE  /\ destroyer' \in [Destroyers -> [at : DestroyAt, opt : Options]]
             /\ destroyer'[d].at = place
             /\ \A e \in Destroyers : e # d => destroyer'[e] = destroyer[e]
  BY <1>g, <1>t DEF Goto, TypeOK
<1>7. ASSUME NEW d \in Destroyers, NEW opt \in Options, CallDestroy(d, opt) PROVE PoolInv'
  <2>1. /\ destroyer' \in [Destroyers -> [at : DestroyAt, opt : Options]]
        /\ destroyer'[d].at = "lock"
        /\ \A e \in Destroyers : e # d => destroyer'[e] = destroyer[e]
    BY <1>7, <1>t DEF CallDestroy, TypeOK, DestroyAt
  <2>2. TypeOK' /\ RingConsistent'
    BY <1>7, <1>t, <1>r, <2>1 DEF CallDestroy, TypeOK
  <2>3. FreedPoolIsQuiet'
    BY <1>7, <1>t, <2>1 DEF CallDestroy, FreedPoolIsQuiet
  <2> QED
    BY <1>7, <2>1, <2>2, <2>3, AliveFrame DEF CallDestroy, PoolInv
<1>8. ASSUME NEW d \in Destroyers, threadpool_destroy(d) PROVE PoolInv'
  <2>1. UNCHANGED <<phase, thread_count, started, ring, client, result, handed>>
        /\ destroyer[d].at = "lock"
    BY <1>8 DEF threadpool_destroy
  <2>2. PICK place \in {"THREADPOOL_SHUTDOWN", "join"} : Goto(d, place)
    BY <1>8 DEF threadpool_destroy
  <2>3. /\ destroyer' \in [Destroyers -> [at : DestroyAt, opt : Options]]
        /\ destroyer'[d].at = place
        /\ \A e \in Destroyers : e # d => destroyer'[e] = destroyer[e]
    BY <2>2, <1>g DEF DestroyAt
  <2>4. lock' \in Destroyers \cup {Nobody, "destroyed"} /\ shutdown' \in Options \cup {"no"}
    BY <1>8, <1>t DEF threadpool_destroy, TypeOK
  <2>5. /\ thread' \in [Threads -> ThreadRec]
        /\ \A i \in Threads : \/ thread'[i] = thread[i]
                              \/ thread[i].at = "waiting" /\ thread'[i].at = "ready"
    <3>1. CASE UNCHANGED thread
      BY <1>t, <3>1 DEF TypeOK
    <3>2. CASE WakeAll
      BY <1>t, <3>2, Wakes
    <3> QED
      BY <1>8, <3>1, <3>2 DEF threadpool_destroy
  <2>6. TypeOK' /\ RingConsistent'
    BY <1>t, <1>r, <2>1, <2>3, <2>4, <2>5 DEF TypeOK
  <2>7. /\ started' = Cardinality(Alive')
        /\ \A i \in Threads : thread'[i].at = "none" <=> thread_count' < i
    BY <2>1, <2>5, AliveFrame
  <2>8. FreedPoolIsQuiet'
    BY <1>t, <2>1, <2>2, <2>3, <2>5 DEF FreedPoolIsQuiet
  <2>9. \A e \in Destroyers : destroyer'[e].at # "idle" => phase' = "ready"
    BY <2>1, <2>3 DEF PoolInv
  <2> QED
    BY <2>6, <2>7, <2>8, <2>9 DEF PoolInv
<1>9. ASSUME NEW d \in Destroyers, JoinAll(d) PROVE PoolInv'
  <2>1. /\ destroyer' \in [Destroyers -> [at : DestroyAt, opt : Options]]
        /\ destroyer'[d].at = "free"
        /\ \A e \in Destroyers : e # d => destroyer'[e] = destroyer[e]
    BY <1>9, <1>g DEF JoinAll, DestroyAt
  <2>2. \A i \in Threads : thread[i].at \in {"none", "ended"}
    BY <1>9, <1>t, PoolAssumption DEF JoinAll, Created, PoolInv, TypeOK, Threads
  <2>3. started = 0
    <3>1. Alive = {}
      BY <2>2 DEF Alive
    <3> QED
      BY <3>1, FS_EmptySet DEF PoolInv
  <2>4. FreedPoolIsQuiet'
    BY <1>9, <2>2, <2>3 DEF JoinAll, FreedPoolIsQuiet
  <2>5. TypeOK' /\ RingConsistent'
    BY <1>9, <1>t, <1>r, <2>1 DEF JoinAll, TypeOK
  <2>6. \A e \in Destroyers : destroyer'[e].at # "idle" => phase' = "ready"
    BY <1>9, <2>1 DEF JoinAll, PoolInv
  <2> QED
    BY <1>9, <2>4, <2>5, <2>6, AliveFrame DEF JoinAll, PoolInv
<1>10. ASSUME NEW d \in Destroyers, threadpool_free(d) PROVE PoolInv'
  <2>1. /\ destroyer' \in [Destroyers -> [at : DestroyAt, opt : Options]]
        /\ destroyer'[d].at = "ok"
        /\ \A e \in Destroyers : e # d => destroyer'[e] = destroyer[e]
    BY <1>10, <1>g DEF threadpool_free, DestroyAt
  <2>2. TypeOK' /\ RingConsistent'
    BY <1>10, <1>t, <1>r, <2>1 DEF threadpool_free, TypeOK
  <2>3. FreedPoolIsQuiet'
    BY <1>10, <1>t, <2>1 DEF threadpool_free, FreedPoolIsQuiet
  <2>4. \A e \in Destroyers : destroyer'[e].at # "idle" => phase' = "ready"
    BY <1>10, <2>1 DEF threadpool_free, PoolInv
  <2> QED
    BY <1>10, <2>2, <2>3, <2>4, AliveFrame DEF threadpool_free, PoolInv
<1>11. CASE UNCHANGED vars
  <2>1. TypeOK' /\ RingConsistent'
    BY <1>11, <1>t, <1>r DEF vars, TypeOK
  <2> QED
    BY <1>11, <1>d, <2>1, AliveFrame, QuietFrame DEF vars, PoolInv
<1> QED
  BY <1>1, <1>2, <1>3, <1>4, <1>5, <1>6, <1>7, <1>8, <1>9, <1>10, <1>11
     DEF Next, ThreadStep, DestroyStep

\* The pool keeps PoolInv for every queue size and number of threads.
THEOREM PoolInvariant == Spec => []PoolInv
BY PoolInit, PoolStep, PTL DEF Spec

\* Every index and counter of the pool stays within its array or bound (TypeOK).
THEOREM PoolTypeCorrect == Spec => []TypeOK
<1>1. PoolInv => TypeOK
  BY DEF PoolInv
<1> QED
  BY <1>1, PoolInvariant, PTL

\* head, tail and count of threadpool_add and threadpool_thread describe one ring
\* for every queue size.
THEOREM RingIsConsistent == Spec => []RingConsistent
<1>1. PoolInv => RingConsistent
  BY DEF PoolInv
<1> QED
  BY <1>1, PoolInvariant, PTL

\* threadpool_free is reached with no thread left, so it never gives up.
THEOREM FreeFindsNoThread == Spec => []FreedPoolIsQuiet
<1>1. PoolInv => FreedPoolIsQuiet
  BY DEF PoolInv
<1> QED
  BY <1>1, PoolInvariant, PTL

-----------------------------------------------------------------------------
(* The pool implements TaskQueue. *)

\* The ring read as a sequence.
LEMMA ReadRingSeq ==
  ASSUME NEW q \in [Slots -> Tasks \cup {NoTask}], NEW h \in Slots, NEW c \in 0..QueueSize
  PROVE  /\ ReadRing(q, h, c) \in Seq(Tasks \cup {NoTask})
         /\ Len(ReadRing(q, h, c)) = c
         /\ \A n \in 1..c : ReadRing(q, h, c)[n] = q[Slot(h, n - 1)]
<1>1. \A n \in 1..c : Slot(h, n - 1) \in Slots
  BY SlotValue, PoolAssumption
<1>2. c \in Nat
  BY PoolAssumption
<1> QED
  BY <1>1, <1>2 DEF ReadRing

\* Different positions of the ring are different slots.
LEMMA SlotsDiffer ==
  ASSUME NEW h \in Slots, NEW m \in 0..(QueueSize - 1), NEW n \in 0..(QueueSize - 1),
         Slot(h, m) = Slot(h, n)
  PROVE  m = n
<1>1. /\ Slot(h, m) = IF h + m < QueueSize THEN h + m ELSE h + m - QueueSize
      /\ Slot(h, n) = IF h + n < QueueSize THEN h + n ELSE h + n - QueueSize
  BY SlotValue, PoolAssumption
<1>2. h \in Int /\ 0 <= h /\ h < QueueSize /\ QueueSize \in Int /\ m \in Int /\ n \in Int
      /\ 0 <= m /\ m < QueueSize /\ 0 <= n /\ n < QueueSize
  BY PoolAssumption DEF Slots
<1>3. (IF h + m < QueueSize THEN h + m ELSE h + m - QueueSize)
        = (IF h + n < QueueSize THEN h + n ELSE h + n - QueueSize)
  BY <1>1, Zenon
<1> QED
  BY <1>2, <1>3

LEMMA ReadAdd ==
  ASSUME NEW q \in [Slots -> Tasks \cup {NoTask}], NEW h \in Slots, NEW t \in Slots,
         NEW c \in 0..QueueSize, c # QueueSize, NEW task \in Tasks, Ring(q, h, t, c)
  PROVE  ReadRing([q EXCEPT ![t] = task], h, c + 1) = Append(ReadRing(q, h, c), task)
<1> DEFINE p == [q EXCEPT ![t] = task]
           R == ReadRing(p, h, c + 1)
           A == Append(ReadRing(q, h, c), task)
<1>1. c + 1 \in 0..QueueSize /\ c \in Nat /\ p \in [Slots -> Tasks \cup {NoTask}]
  BY PoolAssumption
<1>2. /\ R \in Seq(Tasks \cup {NoTask}) /\ Len(R) = c + 1
      /\ \A n \in 1..(c + 1) : R[n] = p[Slot(h, n - 1)]
  BY <1>1, ReadRingSeq
<1>3. /\ ReadRing(q, h, c) \in Seq(Tasks \cup {NoTask}) /\ Len(ReadRing(q, h, c)) = c
      /\ \A n \in 1..c : ReadRing(q, h, c)[n] = q[Slot(h, n - 1)]
  BY ReadRingSeq
<1>4. /\ A \in Seq(Tasks \cup {NoTask}) /\ Len(A) = c + 1 /\ A[c + 1] = task
      /\ \A n \in 1..c : A[n] = ReadRing(q, h, c)[n]
  BY <1>1, <1>3
<1>5. t = Slot(h, c)
  BY DEF Ring
<1>6. ASSUME NEW n \in 1..(c + 1) PROVE R[n] = A[n]
  <2>1. CASE n = c + 1
    <3>1. (c + 1) - 1 = c /\ p[t] = task /\ c + 1 \in 1..(c + 1)
      BY <1>1
    <3>2. R[c + 1] = p[Slot(h, c)]
      BY <1>2, <3>1
    <3> QED
      BY <1>4, <1>5, <2>1, <3>1, <3>2
  <2>2. CASE n # c + 1
    <3>1. n \in 1..c /\ n - 1 \in 0..(QueueSize - 1) /\ c \in 0..(QueueSize - 1)
          /\ n - 1 # c /\ n - 1 \in 0..QueueSize
      BY <1>1, <2>2, PoolAssumption
    <3>2. Slot(h, n - 1) # t /\ Slot(h, n - 1) \in Slots
      BY <1>5, <3>1, SlotsDiffer, SlotValue
    <3> QED
      BY <1>2, <1>3, <1>4, <3>1, <3>2
  <2> QED
    BY <2>1, <2>2
<1> HIDE DEF R, A
<1>7. R = A
  BY <1>1, <1>2, <1>4, <1>6
<1> QED
  BY <1>7 DEF R, A

LEMMA ReadTake ==
  ASSUME NEW q \in [Slots -> Tasks \cup {NoTask}], NEW h \in Slots, NEW t \in Slots,
         NEW c \in 0..QueueSize, c # 0, Ring(q, h, t, c)
  PROVE  /\ ReadRing(q, h, c) # <<>>
         /\ Head(ReadRing(q, h, c)) = q[h]
         /\ ReadRing([q EXCEPT ![h] = NoTask], NextSlot(h), c - 1) = Tail(ReadRing(q, h, c))
<1> DEFINE p == [q EXCEPT ![h] = NoTask]
           g == NextSlot(h)
           R == ReadRing(p, g, c - 1)
           S == ReadRing(q, h, c)
<1>1. c - 1 \in 0..QueueSize /\ c \in Nat /\ p \in [Slots -> Tasks \cup {NoTask}]
  BY PoolAssumption
<1>2. g \in Slots /\ g = IF h = QueueSize - 1 THEN 0 ELSE h + 1
  BY NextSlotValue
<1>3. /\ R \in Seq(Tasks \cup {NoTask}) /\ Len(R) = c - 1
      /\ \A n \in 1..(c - 1) : R[n] = p[Slot(g, n - 1)]
  <2> HIDE DEF p, g
  <2> QED
    BY <1>1, <1>2, ReadRingSeq
<1>4. /\ S \in Seq(Tasks \cup {NoTask}) /\ Len(S) = c
      /\ \A n \in 1..c : S[n] = q[Slot(h, n - 1)]
  BY ReadRingSeq
<1>5. Slot(h, 0) = h
  BY SlotValue, PoolAssumption DEF Slots
<1>6. S # <<>> /\ Head(S) = q[h]
  <2> HIDE DEF S
  <2>1. S[1] = q[h]
    BY <1>1, <1>4, <1>5
  <2> QED
    BY <1>1, <1>4, <2>1
<1>7. /\ Tail(S) \in Seq(Tasks \cup {NoTask}) /\ Len(Tail(S)) = c - 1
      /\ \A n \in 1..(c - 1) : Tail(S)[n] = S[n + 1]
  <2> HIDE DEF S
  <2> QED
    BY <1>1, <1>4, <1>6
<1>8. ASSUME NEW n \in 1..(c - 1) PROVE R[n] = Tail(S)[n]
  <2>1. n \in 0..(QueueSize - 1) /\ 0 \in 0..(QueueSize - 1) /\ n - 1 \in 0..QueueSize
        /\ n \in 0..QueueSize /\ n + 1 \in 1..c /\ n # 0 /\ (n + 1) - 1 = n
    BY <1>1, PoolAssumption
  <2>2. Slot(g, n - 1) = Slot(h, n)
    <3>1. /\ Slot(g, n - 1) = IF g + (n - 1) < QueueSize THEN g + (n - 1)
                                                       ELSE g + (n - 1) - QueueSize
          /\ Slot(h, n) = IF h + n < QueueSize THEN h + n ELSE h + n - QueueSize
      <4> HIDE DEF g
      <4> QED
        BY <1>2, <2>1, SlotValue
    <3> QED
      BY <1>2, <2>1, <3>1, PoolAssumption DEF Slots
  <2>3. Slot(h, n) # h /\ Slot(h, n) \in Slots
    BY <1>5, <2>1, SlotsDiffer, SlotValue
  <2>4. R[n] = q[Slot(h, n)]
    BY <1>3, <2>2, <2>3
  <2>5. Tail(S)[n] = q[Slot(h, n)]
    <3> HIDE DEF S
    <3> QED
      BY <1>4, <1>7, <2>1
  <2> QED
    BY <2>4, <2>5
<1> HIDE DEF R, S
<1>9. R = Tail(S)
  BY <1>1, <1>3, <1>7, <1>8
<1> QED
  BY <1>6, <1>9 DEF R, S

\* threadpool_add and threadpool_thread are Accept and HandOut of the abstract
\* queue, the first threadpool_destroy is Close, and no other step changes it.
LEMMA StepRefines == PoolInv /\ [Next]_vars => [Abstract!Next]_(Abstract!qvars)
<1> SUFFICES ASSUME PoolInv, [Next]_vars PROVE [Abstract!Next]_(Abstract!qvars)
  OBVIOUS
<1>t. TypeOK /\ RingConsistent
  BY DEF PoolInv
<1>s. ASSUME UNCHANGED <<ring, handed, shutdown>> PROVE UNCHANGED Abstract!qvars
  BY <1>s DEF Abstract!qvars, Contents, Mode, ring
<1>c. Len(Contents) = count
  BY <1>t, ReadRingSeq DEF TypeOK, Contents
<1>1. ASSUME NEW c \in Clients, threadpool_add(c) PROVE [Abstract!Next]_(Abstract!qvars)
  <2>1. client[c].task \in Tasks
    BY <1>1, <1>t DEF threadpool_add, TypeOK, ClientRec
  <2>2. CASE UNCHANGED ring
    BY <1>1, <1>s, <2>2 DEF threadpool_add
  <2>3. CASE /\ ~Full /\ shutdown = "no"
             /\ queue' = [queue EXCEPT ![tail] = client[c].task]
             /\ count' = count + 1 /\ head' = head
    <3>1. Contents' = Append(Contents, client[c].task)
      <4>1. /\ queue \in [Slots -> Tasks \cup {NoTask}] /\ head \in Slots /\ tail \in Slots
            /\ count \in 0..QueueSize /\ count # QueueSize
            /\ Ring(queue, head, tail, count)
        BY <1>t, <2>3 DEF TypeOK, RingConsistent, Full
      <4>2. Contents' = ReadRing([queue EXCEPT ![tail] = client[c].task], head, count + 1)
        BY <2>3 DEF Contents
      <4> QED
        BY <2>1, <4>1, <4>2, ReadAdd DEF Contents
    <3>2. Len(Contents) < QueueSize
      BY <1>t, <1>c, <2>3, PoolAssumption DEF TypeOK, Full
    <3>3. UNCHANGED <<handed, Mode>> /\ Mode = "open"
      BY <1>1, <2>3 DEF threadpool_add, Mode
    <3>4. Abstract!Accept(client[c].task)
      BY <3>1, <3>2, <3>3 DEF Abstract!Accept
    <3> QED
      BY <2>1, <3>4 DEF Abstract!Next
  <2> QED
    BY <1>1, <2>2, <2>3 DEF threadpool_add
<1>2. ASSUME NEW i \in Threads, threadpool_thread(i) PROVE [Abstract!Next]_(Abstract!qvars)
  <2>1. CASE UNCHANGED <<ring, handed>>
    BY <1>2, <1>s, <2>1 DEF threadpool_thread
  <2>2. CASE /\ ~(count = 0 /\ shutdown = "no") /\ ~Leaves
             /\ handed' = Append(handed, queue[head])
             /\ queue' = [queue EXCEPT ![head] = NoTask]
             /\ head' = NextSlot(head)
             /\ count' = count - 1
    <3>1. count # 0 /\ Mode # "immediate" /\ Mode' = Mode
      BY <1>2, <1>t, <2>2 DEF Leaves, TypeOK, Options, Mode, threadpool_thread
    <3>2. /\ Contents # <<>> /\ Head(Contents) = queue[head]
          /\ Contents' = Tail(Contents)
      BY <1>t, <2>2, <3>1, ReadTake DEF TypeOK, RingConsistent, Contents
    <3>3. Abstract!HandOut
      BY <2>2, <3>1, <3>2 DEF Abstract!HandOut
    <3> QED
      BY <3>3 DEF Abstract!Next
  <2> QED
    BY <1>2, <2>1, <2>2 DEF threadpool_thread
<1>3. ASSUME NEW d \in Destroyers, threadpool_destroy(d)
      PROVE  [Abstract!Next]_(Abstract!qvars)
  <2>1. CASE UNCHANGED shutdown
    BY <1>3, <1>s, <2>1 DEF threadpool_destroy
  <2>2. CASE shutdown = "no" /\ shutdown' = destroyer[d].opt
    <3>1. destroyer[d].opt \in {"graceful", "immediate"}
      BY <1>t DEF TypeOK, Options
    <3>2. UNCHANGED <<Contents, handed>>
      BY <1>3 DEF threadpool_destroy, Contents, ring
    <3>3. Mode = "open" /\ Mode' = destroyer[d].opt
      BY <2>2, <3>1 DEF Mode
    <3>4. Abstract!Close(destroyer[d].opt)
      BY <3>2, <3>3 DEF Abstract!Close
    <3> QED
      BY <3>1, <3>4 DEF Abstract!Next
  <2> QED
    BY <1>3, <2>1, <2>2 DEF threadpool_destroy
<1>4. CASE \/ CreateThread \/ CreateFails
           \/ \E c \in Clients, t \in Tasks : Call(c, t)
           \/ \E i \in Threads : TaskReturns(i) \/ SpuriousWakeup(i)
           \/ \E d \in Destroyers : JoinAll(d) \/ threadpool_free(d)
           \/ \E d \in Destroyers, opt \in Options : CallDestroy(d, opt)
  <2>1. UNCHANGED <<ring, handed, shutdown>>
    BY <1>4 DEF CreateThread, CreateFails, Call, TaskReturns, SpuriousWakeup, JoinAll,
                threadpool_free, CallDestroy
  <2> QED
    BY <1>s, <2>1
<1>5. CASE UNCHANGED vars
  BY <1>5, <1>s DEF vars
<1> QED
  BY <1>1, <1>2, <1>3, <1>4, <1>5 DEF Next, ThreadStep, DestroyStep

\* For every queue size and number of threads the pool is the bounded first-in
\* first-out queue of TaskQueue (IsTaskQueue).
THEOREM PoolImplementsQueue == Spec => IsTaskQueue
<1>1. Init => Abstract!Init
  <2> SUFFICES ASSUME Init PROVE Abstract!Init
    OBVIOUS
  <2>1. Contents \in Seq(Tasks \cup {NoTask}) /\ Len(Contents) = 0
    BY PoolInit, ReadRingSeq DEF Init, PoolInv, TypeOK, Contents
  <2>2. Contents = <<>>
    BY <2>1
  <2> QED
    BY <2>2 DEF Init, Abstract!Init, Mode
<1> QED
  BY <1>1, PoolInvariant, StepRefines, PTL DEF Spec, IsTaskQueue, Abstract!Spec

-----------------------------------------------------------------------------
(* A graceful shutdown drains the queue. *)

WasHanded(t) == \E n \in 1..Len(handed) : handed[n] = t
IsQueued(t) == \E m \in Slots : queue[m] = t

\* No accepted task is dropped: it waits in the ring or was handed out.  A thread has
\* ended only because of an immediate shutdown, or after the ring was empty for good.
DrainInv ==
  /\ \A t \in Tasks : result[t] = "ok" => WasHanded(t) \/ IsQueued(t)
  /\ \A i \in Threads : thread[i].at = "ended" => Leaves

\* The slot threadpool_add writes to is empty.
LEMMA TailIsFree ==
  ASSUME PoolInv, count # QueueSize
  PROVE  queue[tail] = NoTask
<1>1. /\ head \in Slots /\ tail \in Slots /\ count \in 0..(QueueSize - 1)
      /\ Ring(queue, head, tail, count)
  BY PoolAssumption DEF PoolInv, TypeOK, RingConsistent
<1>2. ASSUME NEW n \in 0..(count - 1) PROVE tail # Slot(head, n)
  <2>1. n \in 0..(QueueSize - 1) /\ n # count
    BY <1>1, PoolAssumption
  <2> QED
    BY <1>1, <2>1, SlotsDiffer DEF Ring
<1> QED
  BY <1>1, <1>2 DEF Ring

\* A step that touches neither the ring nor the results, and ends no thread.
LEMMA DrainFrame ==
  ASSUME DrainInv, UNCHANGED <<ring, result, handed>>,
         \/ UNCHANGED shutdown
         \/ shutdown = "no",
         \A i \in Threads : thread'[i].at = "ended" => thread[i].at = "ended"
  PROVE  DrainInv'
<1>1. \A t \in Tasks : WasHanded(t)' = WasHanded(t) /\ IsQueued(t)' = IsQueued(t)
  BY DEF WasHanded, IsQueued, ring
<1>2. ASSUME NEW i \in Threads, thread'[i].at = "ended" PROVE Leaves'
  BY <1>2 DEF DrainInv, Leaves, ring
<1> QED
  BY <1>1, <1>2 DEF DrainInv

LEMMA DrainAdd ==
  ASSUME PoolInv, DrainInv, NEW c \in Clients, threadpool_add(c)
  PROVE  DrainInv'
<1>t. TypeOK /\ client[c].task \in Tasks
  BY DEF PoolInv, TypeOK, ClientRec, threadpool_add
<1>1. UNCHANGED <<handed, shutdown>>
  BY DEF threadpool_add
<1>2. CASE \E r \in Results \ {"ok"} : Return(c, r) /\ UNCHANGED <<ring, thread>>
  <2>1. \A t \in Tasks : result'[t] = "ok" => result[t] = "ok"
    BY <1>t, <1>2 DEF Return, TypeOK
  <2>2. \A t \in Tasks : WasHanded(t)' = WasHanded(t) /\ IsQueued(t)' = IsQueued(t)
    BY <1>1, <1>2 DEF WasHanded, IsQueued, ring
  <2> QED
    BY <1>1, <1>2, <2>1, <2>2 DEF DrainInv, Leaves, ring
<1>3. CASE /\ ~Full /\ shutdown = "no" /\ Signal /\ Return(c, "ok")
           /\ queue' = [queue EXCEPT ![tail] = client[c].task]
  <2>1. queue[tail] = NoTask /\ tail \in Slots /\ queue \in [Slots -> Tasks \cup {NoTask}]
    BY <1>t, <1>3, TailIsFree DEF Full, TypeOK
  <2>2. \A t \in Tasks : WasHanded(t)' = WasHanded(t)
    BY <1>1 DEF WasHanded
  <2>3. \A t \in Tasks : IsQueued(t) => IsQueued(t)'
    BY <1>3, <2>1, PoolAssumption DEF IsQueued
  <2>4. \A t \in Tasks : t = client[c].task => IsQueued(t)'
    BY <1>3, <2>1 DEF IsQueued
  <2>5. \A t \in Tasks : result'[t] = "ok" => result[t] = "ok" \/ t = client[c].task
    BY <1>t, <1>3 DEF Return, TypeOK
  <2>6. \A i \in Threads : thread'[i].at = "ended" => thread[i].at = "ended"
    BY <1>t, <1>3 DEF Signal, Waiting, TypeOK, Resting
  <2>7. \A i \in Threads : thread[i].at # "ended"
    BY <1>3 DEF DrainInv, Leaves
  <2> QED
    BY <2>2, <2>3, <2>4, <2>5, <2>6, <2>7 DEF DrainInv
<1> QED
  BY <1>2, <1>3 DEF threadpool_add, Results

LEMMA DrainThread ==
  ASSUME PoolInv, DrainInv, NEW i \in Threads, threadpool_thread(i)
  PROVE  DrainInv'
<1>t. TypeOK
  BY DEF PoolInv
<1>1. UNCHANGED <<shutdown, result>>
  BY DEF threadpool_thread
<1>2. CASE thread' = [thread EXCEPT ![i] = Resting("waiting")] /\ UNCHANGED <<ring, handed>>
  BY <1>t, <1>1, <1>2, DrainFrame DEF TypeOK, Resting
<1>3. CASE /\ Leaves /\ UNCHANGED <<ring, handed>>
           /\ thread' = [thread EXCEPT ![i] = Resting("ended")]
  <2>1. Leaves'
    BY <1>1, <1>3 DEF Leaves, ring
  <2>2. \A t \in Tasks : WasHanded(t)' = WasHanded(t) /\ IsQueued(t)' = IsQueued(t)
    BY <1>3 DEF WasHanded, IsQueued, ring
  <2> QED
    BY <1>1, <2>1, <2>2 DEF DrainInv
<1>4. CASE /\ ~Leaves
           /\ thread' = [thread EXCEPT ![i] = [at |-> "running", task |-> queue[head]]]
           /\ handed' = Append(handed, queue[head])
           /\ queue' = [queue EXCEPT ![head] = NoTask]
  <2>1. handed \in Seq(Tasks) /\ head \in Slots /\ queue \in [Slots -> Tasks \cup {NoTask}]
    BY <1>t DEF TypeOK
  <2>2. /\ Len(handed') = Len(handed) + 1 /\ handed'[Len(handed) + 1] = queue[head]
        /\ \A n \in 1..Len(handed) : handed'[n] = handed[n]
        /\ Len(handed) \in Nat
    BY <1>4, <2>1
  <2>3. \A t \in Tasks : WasHanded(t) => WasHanded(t)'
    BY <2>2 DEF WasHanded
  <2>4. \A t \in Tasks : t = queue[head] => WasHanded(t)'
    <3>1. Len(handed) + 1 \in 1..Len(handed')
      BY <2>2
    <3> QED
      BY <2>2, <3>1 DEF WasHanded
  <2>5. \A t \in Tasks : IsQueued(t) => IsQueued(t)' \/ t = queue[head]
    BY <1>4, <2>1 DEF IsQueued
  <2>6. \A k \in Threads : thread'[k].at # "ended"
    BY <1>t, <1>4 DEF DrainInv, TypeOK
  <2> QED
    BY <1>1, <2>3, <2>4, <2>5, <2>6 DEF DrainInv
<1> QED
  BY <1>2, <1>3, <1>4 DEF threadpool_thread

LEMMA DrainStep == PoolInv /\ DrainInv /\ [Next]_vars => DrainInv'
<1> SUFFICES ASSUME PoolInv, DrainInv, [Next]_vars PROVE DrainInv'
  OBVIOUS
<1>t. TypeOK
  BY DEF PoolInv
<1>1. CASE CreateThread
  <2>1. \A i \in Threads : thread'[i].at = "ended" => thread[i].at = "ended"
    BY <1>1, <1>t DEF CreateThread, TypeOK, Resting
  <2> QED
    BY <1>1, <2>1, DrainFrame DEF CreateThread
<1>2. CASE CreateFails \/ (\E c \in Clients, t \in Tasks : Call(c, t))
           \/ (\E d \in Destroyers : JoinAll(d) \/ threadpool_free(d))
           \/ (\E d \in Destroyers, opt \in Options : CallDestroy(d, opt))
           \/ UNCHANGED vars
  <2>1. UNCHANGED <<ring, result, handed, shutdown, thread>>
    BY <1>2 DEF CreateFails, Call, JoinAll, threadpool_free, CallDestroy, vars
  <2> QED
    BY <2>1, DrainFrame
<1>3. ASSUME NEW i \in Threads, TaskReturns(i) \/ SpuriousWakeup(i) PROVE DrainInv'
  <2>1. /\ UNCHANGED <<ring, result, handed, shutdown>>
        /\ thread' = [thread EXCEPT ![i] = Resting("ready")]
    BY <1>3 DEF TaskReturns, SpuriousWakeup
  <2>2. \A k \in Threads : thread'[k].at = "ended" => thread[k].at = "ended"
    BY <1>t, <2>1 DEF TypeOK, Resting
  <2> QED
    BY <2>1, <2>2, DrainFrame
<1>4. ASSUME NEW d \in Destroyers, threadpool_destroy(d) PROVE DrainInv'
  <2>1. /\ UNCHANGED <<ring, result, handed>>
        /\ shutdown' = shutdown \/ shutdown = "no"
        /\ UNCHANGED thread \/ WakeAll
    BY <1>4 DEF threadpool_destroy
  <2>2. \A k \in Threads : thread'[k].at = "ended" => thread[k].at = "ended"
    BY <1>t, <2>1 DEF TypeOK, WakeAll, Resting
  <2> QED
    BY <2>1, <2>2, DrainFrame
<1> QED
  BY <1>1, <1>2, <1>3, <1>4, DrainAdd, DrainThread DEF Next, ThreadStep, DestroyStep

\* threadpool_destroy(graceful_shutdown), for every queue size and number of threads:
\* once the threads it joins have ended, every task threadpool_add accepted was taken.
THEOREM GracefulShutdownDrains == Spec => []GracefulDrains
<1>1. Init => DrainInv
  BY DEF Init, DrainInv, Resting
<1>2. PoolInv /\ DrainInv => GracefulDrains
  <2> SUFFICES ASSUME PoolInv, DrainInv, shutdown = "graceful", thread_count > 0,
                      \A i \in Created : thread[i].at = "ended",
                      NEW t \in Tasks, result[t] = "ok"
               PROVE  WasHanded(t)
    BY DEF GracefulDrains, WasHanded
  <2>1. 1 \in Created /\ 1 \in Threads
    BY PoolAssumption DEF Created, Threads, PoolInv, TypeOK
  <2>2. count = 0
    BY <2>1 DEF DrainInv, Leaves
  <2>3. \A m \in Slots : queue[m] = NoTask
    BY <2>2 DEF PoolInv, RingConsistent, Ring
  <2>4. ~IsQueued(t)
    BY <2>3, PoolAssumption DEF IsQueued
  <2> QED
    BY <2>4 DEF DrainInv
<1> QED
  BY <1>1, <1>2, PoolInvariant, DrainStep, PTL DEF Spec

=============================================================================
