----------------------------- MODULE PoolProofs -----------------------------
(***************************************************************************)
(* Proofs about Pool, for any number of threads, slots, clients and jobs.  *)
(***************************************************************************)
EXTENDS Pool, FiniteSetTheorems, SequenceTheorems, TLAPS

Elements(s) == {s[i] : i \in 1 .. Len(s)}

(* The number of jobs that were added and have not started.                *)
Pending == Len(added) - Len(started)

(* What % does to an index that exceeds the buffer by less than its size.  *)
Wrap(i) == IF i < queueSize THEN i ELSE i - queueSize

(* queueHead, queueTail and queueEmpty determine the jobs that wait: those *)
(* added last, of which a buffer of more than one slot is never full.      *)
RingInv ==
    /\ Len(started) <= Len(added)
    /\ \A i \in 1 .. Len(started) : started[i] = added[i]
    /\ Pending <= IF queueSize > 1 THEN queueSize - 1 ELSE 1
    /\ queueEmpty <=> Pending = 0
    /\ queueTail = Wrap(queueHead + Pending)
    /\ \A i \in 0 .. Pending - 1 :
         queue[Wrap(queueHead + i)] = added[Len(started) + 1 + i]

(* No job is added twice, and those which clients wait to add are new.     *)
FreshInv ==
    /\ \A i, j \in 1 .. Len(added) : i # j => added[i] # added[j]
    /\ \A c \in Clients :
         /\ adding[c] # NoJob <=> client[c] \in {"add", "addWait"}
         /\ adding[c] \notin Elements(added)
    /\ \A c, d \in Clients : c # d /\ adding[c] # NoJob => adding[c] # adding[d]

(* A job that started has finished or runs in one thread, and              *)
(* numThreadsBusy counts the threads that run one.                         *)
WorkInv ==
    /\ numThreadsBusy = Cardinality(Busy)
    /\ \A t \in Busy : running[t] \in Elements(started)
    /\ \A t, u \in Busy : t # u => running[t] # running[u]
    /\ \A i \in 1 .. Len(started) :
         started[i] \in finished \/ \E t \in Busy : running[t] = started[i]
    /\ finished \subseteq Elements(started)

(* Threads exit only after the shutdown, and not all of them while a job   *)
(* is left in the queue.                                                   *)
ThreadInv ==
    /\ \A t \in Threads : thread[t] = "none" <=> t > threadCapacity
    /\ ~shutdown => \A t \in Threads : thread[t] # "exited"
    /\ ~queueEmpty => \E t \in Threads : thread[t] \notin {"none", "exited"}

PoolInv == PoolTypeOK /\ RingInv /\ FreshInv /\ WorkInv /\ ThreadInv

-----------------------------------------------------------------------------
USE PoolConstants DEF queueSize

(* The wrapping of an index at the end of the buffer.                      *)
LEMMA WrapIsMod ==
    ASSUME NEW i \in 0 .. 2 * queueSize - 1
    PROVE  i % queueSize = Wrap(i)
  BY DEF Wrap

(* The histories start empty.                                              *)
LEMMA EmptyIsSeq ==
    ASSUME NEW S, NEW s, s = <<>>
    PROVE  s \in Seq(S) /\ Len(s) = 0
  OBVIOUS

(* Appending one element adds it to the elements.                          *)
LEMMA AppendElements ==
    ASSUME NEW S, NEW s \in Seq(S), NEW e \in S
    PROVE  /\ Append(s, e) \in Seq(S)
           /\ Len(Append(s, e)) = Len(s) + 1
           /\ \A i \in 1 .. Len(s) : Append(s, e)[i] = s[i]
           /\ Append(s, e)[Len(s) + 1] = e
           /\ Elements(Append(s, e)) = Elements(s) \cup {e}
  <1>1. /\ Append(s, e) \in Seq(S)
        /\ Len(Append(s, e)) = Len(s) + 1
        /\ \A i \in 1 .. Len(s) : Append(s, e)[i] = s[i]
        /\ Append(s, e)[Len(s) + 1] = e
        /\ Len(s) \in Nat
    BY AppendProperties, LenProperties
  <1>2. 1 .. Len(s) + 1 = (1 .. Len(s)) \cup {Len(s) + 1}
    BY <1>1
  <1> QED BY <1>1, <1>2 DEF Elements

(* The threads that run a job are finitely many.                           *)
LEMMA BusyFinite == IsFiniteSet(Threads) /\ IsFiniteSet(Busy) /\ Cardinality(Busy) \in 0 .. MaxThreads
  <1>1. IsFiniteSet(Threads) /\ Cardinality(Threads) = MaxThreads
    BY FS_Interval DEF Threads
  <1>2. Busy \in SUBSET Threads
    BY DEF Busy
  <1>3. IsFiniteSet(Busy) /\ Cardinality(Busy) <= MaxThreads
    BY <1>1, <1>2, FS_Subset
  <1> QED BY <1>1, <1>3, FS_CardinalityType

-----------------------------------------------------------------------------
(* What POOL_create builds satisfies the invariant.                        *)
LEMMA InitPoolInv == Init => PoolInv
  <1> SUFFICES ASSUME Init PROVE PoolInv
    OBVIOUS
  <1>1. Busy = {}
    BY DEF Init, PoolInit, Busy, Threads
  <1>2. added = <<>> /\ started = <<>>
    BY DEF Init, PoolInit
  <1>3. /\ added \in Seq(Jobs) /\ Len(added) = 0
        /\ started \in Seq(Jobs) /\ Len(started) = 0
    BY <1>2, EmptyIsSeq
  <1>4. PoolTypeOK
    <2>1. thread \in [Threads -> {"none", "lock", "waiting", "run", "exited"}]
      BY DEF Init, PoolInit
    <2>2. /\ queue \in [0 .. QueueSlots -> Jobs \cup {NoJob}]
          /\ running \in [Threads -> Jobs \cup {NoJob}]
          /\ adding \in [Clients -> Jobs \cup {NoJob}]
      BY DEF Init, PoolInit
    <2>3. client \in [Clients -> {"idle", "add", "addWait", "join", "joinWait",
                                  "broadcast", "freeing", "freed"}]
      BY DEF Init
    <2>4. queueHead \in 0 .. QueueSlots /\ queueTail \in 0 .. QueueSlots
      BY DEF Init, PoolInit
    <2>5. queueEmpty \in BOOLEAN /\ shutdown \in BOOLEAN /\ finished \subseteq Jobs
      BY DEF Init, PoolInit
    <2>6. numThreadsBusy \in 0 .. MaxThreads /\ resizes \in 0 .. MaxResizes
      BY DEF Init, PoolInit
    <2>7. threadCapacity \in 1 .. MaxThreads /\ threadLimit \in 1 .. threadCapacity
      BY DEF Init, PoolInit
    <2> QED BY <1>3, <2>1, <2>2, <2>3, <2>4, <2>5, <2>6, <2>7 DEF PoolTypeOK
  <1>5. RingInv
    <2>1. queueHead = 0 /\ queueTail = 0 /\ queueEmpty = TRUE
      BY DEF Init, PoolInit
    <2> QED BY <1>3, <2>1 DEF RingInv, Pending, Wrap
  <1>6. FreshInv
    BY <1>3 DEF Init, FreshInv, Elements, NoJob
  <1>7. WorkInv
    BY <1>1, <1>3, FS_EmptySet DEF Init, PoolInit, WorkInv, Elements
  <1>8. ThreadInv
    BY DEF Init, PoolInit, ThreadInv, Threads
  <1> QED BY <1>4, <1>5, <1>6, <1>7, <1>8 DEF PoolInv

(* The signal of either condition variable changes the control of at most  *)
(* one thread that waits for it.                                           *)
LEMMA SignalTypes ==
    ASSUME PoolTypeOK
    PROVE  /\ SignalPush => client' \in [Clients -> {"idle", "add", "addWait",
                 "join", "joinWait", "broadcast", "freeing", "freed"}]
           /\ SignalPop => thread' \in [Threads -> {"none", "lock", "waiting", "run", "exited"}]
  BY DEF PoolTypeOK, SignalPush, SignalPop, PushWaiters, PopWaiters, Woken

(* The slot at queueHead holds the first job that has not started.          *)
LEMMA FirstPending ==
    ASSUME PoolTypeOK, RingInv, ~queueEmpty
    PROVE  /\ Len(started) + 1 \in 1 .. Len(added)
           /\ queue[queueHead] = added[Len(started) + 1]
           /\ queue[queueHead] \in Jobs
  <1>1. Len(started) \in Nat /\ Len(added) \in Nat
    BY LenProperties DEF PoolTypeOK
  <1>2. Pending > 0 /\ Len(started) + 1 \in 1 .. Len(added)
    BY <1>1 DEF RingInv, Pending
  <1>3. queueHead \in Nat /\ Wrap(queueHead + 0) = queueHead
    BY DEF Wrap, PoolTypeOK
  <1>4. queue[Wrap(queueHead + 0)] = added[Len(started) + 1 + 0]
    BY <1>1, <1>2 DEF RingInv, Pending
  <1>5. added[Len(started) + 1] \in Jobs
    BY <1>2, ElementOfSeq DEF PoolTypeOK
  <1> QED BY <1>1, <1>2, <1>3, <1>4, <1>5

(* The jobs that started are jobs.                                          *)
LEMMA StartedJobs == PoolTypeOK => Elements(started) \subseteq Jobs
  BY ElementOfSeq DEF PoolTypeOK, Elements

(* Adding a job keeps the types of what it changes.                         *)
LEMMA EnqueueTypes ==
    ASSUME PoolTypeOK, NEW j \in Jobs, Enqueue(j)
    PROVE  /\ queue' \in [0 .. QueueSlots -> Jobs \cup {NoJob}]
           /\ queueHead' \in 0 .. QueueSlots /\ queueTail' \in 0 .. QueueSlots
           /\ queueEmpty' \in BOOLEAN
           /\ thread' \in [Threads -> {"none", "lock", "waiting", "run", "exited"}]
           /\ added' \in Seq(Jobs)
  <1>1. (queueTail + 1) % queueSize \in 0 .. QueueSlots
    BY DEF PoolTypeOK
  <1>2. Append(added, j) \in Seq(Jobs)
    BY AppendElements DEF PoolTypeOK
  <1> QED BY <1>1, <1>2, SignalTypes DEF Enqueue, queueVars, PoolTypeOK

(* A thread that takes a job becomes busy, ...                              *)
LEMMA PopBusy ==
    ASSUME PoolTypeOK, WorkInv, NEW t \in Threads, ThreadPops(t)
    PROVE  /\ t \notin Busy /\ Busy' = Busy \cup {t}
           /\ numThreadsBusy' = Cardinality(Busy')
           /\ numThreadsBusy' \in 0 .. MaxThreads
  <1>1. t \notin Busy /\ Busy' = Busy \cup {t}
    BY DEF PoolTypeOK, ThreadPops, Busy
  <1>2. Cardinality(Busy') = Cardinality(Busy) + 1
    BY <1>1, BusyFinite, FS_AddElement
  <1>3. Busy' \in SUBSET Threads
    BY DEF Busy
  <1>4. Cardinality(Threads) = MaxThreads
    BY FS_Interval DEF Threads
  <1>5. Cardinality(Busy') <= MaxThreads
    BY <1>3, <1>4, BusyFinite, FS_Subset
  <1> QED BY <1>1, <1>2, <1>5, BusyFinite DEF WorkInv, ThreadPops

(* ... and one that has finished it does not stay so.                       *)
LEMMA FinishBusy ==
    ASSUME PoolTypeOK, WorkInv, NEW t \in Threads, ThreadFinishes(t)
    PROVE  /\ t \in Busy /\ Busy' = Busy \ {t}
           /\ numThreadsBusy' = Cardinality(Busy')
           /\ numThreadsBusy' \in 0 .. MaxThreads
  <1>1. t \in Busy /\ Busy' = Busy \ {t}
    BY DEF PoolTypeOK, ThreadFinishes, Busy
  <1>2. Cardinality(Busy') = Cardinality(Busy) - 1
    BY <1>1, BusyFinite, FS_RemoveElement
  <1>3. Cardinality(Busy) # 0
    BY <1>1, BusyFinite, FS_EmptySet
  <1> QED BY <1>1, <1>2, <1>3, BusyFinite DEF WorkInv, ThreadFinishes

(* Type correctness, step by step.                                         *)
LEMMA StepPoolType == PoolInv /\ [Next]_vars => PoolTypeOK'
  <1> SUFFICES ASSUME PoolInv, [Next]_vars
               PROVE  PoolTypeOK'
    OBVIOUS
  <1>0. PoolTypeOK /\ WorkInv /\ Cardinality(Busy) \in 0 .. MaxThreads
    BY BusyFinite DEF PoolInv
  <1> USE <1>0 DEF PoolTypeOK, poolVars, queueVars, sizeVars, clientVars
  <1>1. ASSUME NEW t \in Threads, ThreadExits(t) \/ ThreadWaits(t)
        PROVE  PoolTypeOK'
    BY <1>1 DEF ThreadExits, ThreadWaits
  <1>2. ASSUME NEW t \in Threads, ThreadPops(t)
        PROVE  PoolTypeOK'
    <2>1. ~queueEmpty
      BY <1>2 DEF ThreadPops, NothingToTake
    <2>2. queue[queueHead] \in Jobs
      BY <2>1, FirstPending DEF PoolInv
    <2>3. Append(started, queue[queueHead]) \in Seq(Jobs)
      BY <2>2, AppendElements
    <2>4. (queueHead + 1) % queueSize \in 0 .. QueueSlots
      OBVIOUS
    <2>5. numThreadsBusy' \in 0 .. MaxThreads
      BY <1>2, PopBusy
    <2> QED BY <1>2, <2>2, <2>3, <2>4, <2>5, SignalTypes DEF ThreadPops
  <1>3. ASSUME NEW t \in Threads, ThreadFinishes(t)
        PROVE  PoolTypeOK'
    <2>1. numThreadsBusy' \in 0 .. MaxThreads /\ running[t] \in Jobs
      BY <1>3, FinishBusy, StartedJobs DEF PoolInv, WorkInv
    <2> QED BY <1>3, <2>1, SignalTypes DEF ThreadFinishes
  <1>4. ASSUME NEW c \in Clients, NEW j \in Jobs, AddCall(c, j)
        PROVE  PoolTypeOK'
    BY <1>4 DEF AddCall
  <1>5. ASSUME NEW c \in Clients, NEW j \in Jobs, TryAddCall(c, j)
        PROVE  PoolTypeOK'
    BY <1>5, EnqueueTypes DEF TryAddCall, TryAdd
  <1>6. ASSUME NEW c \in Clients, AddReturns(c)
        PROVE  PoolTypeOK'
    <2>1. adding[c] \in Jobs
      BY <1>6 DEF AddReturns, PoolInv, FreshInv
    <2> QED BY <1>6, <2>1, EnqueueTypes DEF AddReturns
  <1>7. ASSUME NEW c \in Clients, AddWaits(c) \/ JoinJobsCall(c) \/ JoinJobsWaits(c)
                                   \/ JoinJobsReturns(c) \/ FreeJoined(c)
        PROVE  PoolTypeOK'
    BY <1>7 DEF AddWaits, JoinJobsCall, JoinJobsWaits, JoinJobsReturns, FreeJoined
  <1>8. ASSUME NEW c \in Clients, FreeShutsDown(c)
        PROVE  PoolTypeOK'
    BY <1>8 DEF FreeShutsDown
  <1>9. ASSUME NEW c \in Clients, FreeBroadcasts(c)
        PROVE  PoolTypeOK'
    BY <1>9 DEF FreeBroadcasts, Woken, Awake
  <1>10. ASSUME NEW c \in Clients, ResizeCall(c)
         PROVE  PoolTypeOK'
    BY <1>10 DEF ResizeCall, Resize, Awake
  <1>11. CASE UNCHANGED vars
    BY <1>11 DEF vars
  <1> QED
    BY <1>1, <1>2, <1>3, <1>4, <1>5, <1>6, <1>7, <1>8, <1>9, <1>10, <1>11
    DEF Next, Worker, InCall, Begin, Freed
-----------------------------------------------------------------------------
(* A queue that is not full has a free slot at queueTail, whatever its size. *)
LEMMA FreeSlot ==
    ASSUME PoolTypeOK, RingInv, ~isQueueFull
    PROVE  /\ Pending \in Nat
           /\ Pending + 1 <= IF queueSize > 1 THEN queueSize - 1 ELSE 1
           /\ \A i \in 0 .. Pending - 1 : Wrap(queueHead + i) # queueTail
           /\ (queueTail + 1) % queueSize = Wrap(queueHead + Pending + 1)
  <1>1. Len(started) \in Nat /\ Len(added) \in Nat /\ Pending \in Nat
    BY LenProperties DEF PoolTypeOK, RingInv, Pending
  <1>2. queueHead \in 0 .. QueueSlots /\ queueTail \in 0 .. QueueSlots
    BY DEF PoolTypeOK
  <1>3. (queueTail + 1) % queueSize = Wrap(queueTail + 1)
    BY <1>2, WrapIsMod
  <1>4. queueTail = Wrap(queueHead + Pending)
    BY DEF RingInv
  <1>5. Pending + 1 <= IF queueSize > 1 THEN queueSize - 1 ELSE 1
    <2>1. CASE queueSize > 1
      <3>1. Pending <= queueSize - 1 /\ queueHead # Wrap(queueTail + 1)
        BY <1>3, <2>1 DEF RingInv, isQueueFull
      <3> QED BY <1>1, <1>2, <1>4, <2>1, <3>1 DEF Wrap
    <2>2. CASE ~(queueSize > 1)
      BY <2>2, <1>1 DEF RingInv, isQueueFull
    <2> QED BY <2>1, <2>2
  <1>6. Pending < queueSize
    BY <1>1, <1>5
  <1>7. \A i \in 0 .. Pending - 1 : Wrap(queueHead + i) # queueTail
    BY <1>1, <1>2, <1>4, <1>6 DEF Wrap
  <1>8. Wrap(queueTail + 1) = Wrap(queueHead + Pending + 1)
    BY <1>1, <1>2, <1>4, <1>6 DEF Wrap
  <1> QED BY <1>1, <1>3, <1>5, <1>7, <1>8

(* Adding a job puts it behind those that wait.                            *)
LEMMA EnqueueRing ==
    ASSUME PoolTypeOK, RingInv, NEW j \in Jobs, ~isQueueFull \/ shutdown,
           Enqueue(j), UNCHANGED started
    PROVE  RingInv'
  <1>1. CASE shutdown
    BY <1>1 DEF Enqueue, RingInv, Pending, queueVars, Wrap
  <1>2. CASE ~shutdown
    <2>1. /\ Pending \in Nat
          /\ Pending + 1 <= IF queueSize > 1 THEN queueSize - 1 ELSE 1
          /\ \A i \in 0 .. Pending - 1 : Wrap(queueHead + i) # queueTail
          /\ (queueTail + 1) % queueSize = Wrap(queueHead + Pending + 1)
      BY <1>2, FreeSlot
    <2>2. /\ queueEmpty' = FALSE /\ queueHead' = queueHead
          /\ queueTail' = (queueTail + 1) % queueSize
          /\ queue' = [queue EXCEPT ![queueTail] = j]
          /\ added' = Append(added, j) /\ started' = started
      BY <1>2 DEF Enqueue
    <2>3. Len(started) \in Nat /\ Len(added) \in Nat
      BY LenProperties DEF PoolTypeOK
    <2>4. /\ Len(added') = Len(added) + 1
          /\ \A i \in 1 .. Len(added) : added'[i] = added[i]
          /\ added'[Len(added) + 1] = j
      BY <2>2, AppendElements DEF PoolTypeOK
    <2>5. Pending' = Pending + 1
      BY <2>2, <2>3, <2>4 DEF Pending
    <2>6. queueHead \in 0 .. QueueSlots /\ queueTail \in 0 .. QueueSlots
      BY DEF PoolTypeOK
    <2>7. \A i \in 0 .. Pending' - 1 :
            queue'[Wrap(queueHead' + i)] = added'[Len(started') + 1 + i]
      <3>1. 0 .. Pending' - 1 = 0 .. Pending
        BY <2>1, <2>5
      <3>2. queueHead' = queueHead /\ Len(started') = Len(started)
        BY <2>2
      <3> SUFFICES ASSUME NEW i \in 0 .. Pending
                   PROVE  queue'[Wrap(queueHead + i)] = added'[Len(started) + 1 + i]
        BY <3>1, <3>2, Zenon
      <3>3. CASE i = Pending
        <4>1. Wrap(queueHead + i) = queueTail /\ Len(started) + 1 + i = Len(added) + 1
          BY <3>3, <2>3 DEF RingInv, Pending
        <4> QED BY <4>1, <2>2, <2>4, <2>6 DEF PoolTypeOK
      <3>4. CASE i \in 0 .. Pending - 1
        <4>1. queue[Wrap(queueHead + i)] = added[Len(started) + 1 + i]
          BY <3>4 DEF RingInv
        <4>2. Len(started) + 1 + i \in 1 .. Len(added)
          BY <3>4, <2>3 DEF Pending
        <4>3. Wrap(queueHead + i) \in 0 .. QueueSlots
          BY <2>1, <2>6 DEF Wrap
        <4> QED BY <4>1, <4>2, <4>3, <2>1, <2>2, <2>4, <3>4 DEF PoolTypeOK
      <3> QED BY <3>3, <3>4, <2>1
    <2>8. queueTail' = Wrap(queueHead' + Pending')
      BY <2>1, <2>2, <2>5, <2>6
    <2>9. \A i \in 1 .. Len(started') : started'[i] = added'[i]
      BY <2>2, <2>3, <2>4 DEF RingInv
    <2>10. Len(started') <= Len(added') /\ Pending' # 0
      BY <2>1, <2>2, <2>3, <2>4, <2>5 DEF RingInv
    <2>11. Pending' <= (IF queueSize > 1 THEN queueSize - 1 ELSE 1)
      BY <2>1, <2>5
    <2> QED BY <2>2, <2>7, <2>8, <2>9, <2>10, <2>11 DEF RingInv, Wrap
  <1> QED BY <1>1, <1>2

(* Taking a job takes the one that waited longest.                         *)
LEMMA PopRing ==
    ASSUME PoolTypeOK, RingInv, NEW t \in Threads, ThreadPops(t)
    PROVE  RingInv'
  <1>1. /\ queue[queueHead] = added[Len(started) + 1] /\ queue[queueHead] \in Jobs
        /\ Len(started) + 1 \in 1 .. Len(added)
    BY FirstPending DEF ThreadPops, NothingToTake
  <1>2. Len(started) \in Nat /\ Len(added) \in Nat
    BY LenProperties DEF PoolTypeOK
  <1>3. /\ Len(started') = Len(started) + 1
        /\ \A i \in 1 .. Len(started) : started'[i] = started[i]
        /\ started'[Len(started) + 1] = added[Len(started) + 1]
    BY <1>1, AppendElements DEF PoolTypeOK, ThreadPops
  <1>4. /\ queue' = queue /\ queueTail' = queueTail /\ added' = added
        /\ queueHead' = (queueHead + 1) % queueSize
        /\ queueEmpty' <=> queueHead' = queueTail
    BY DEF ThreadPops
  <1>5. queueHead \in 0 .. QueueSlots /\ queueTail \in 0 .. QueueSlots
    BY DEF PoolTypeOK
  <1>6. queueHead' = Wrap(queueHead + 1)
    BY <1>4, <1>5, WrapIsMod
  <1>7. Pending' = Pending - 1 /\ Pending \in Nat \ {0}
    BY <1>1, <1>2, <1>3, <1>4 DEF Pending
  <1>8. Pending <= queueSize
    BY <1>7 DEF RingInv
  <1>9. queueTail = Wrap(queueHead + Pending)
    BY DEF RingInv
  <1>10. queueTail = Wrap(queueHead' + Pending')
    BY <1>5, <1>6, <1>7, <1>8, <1>9 DEF Wrap
  <1>11. queueEmpty' <=> Pending' = 0
    <2>1. Pending <= IF queueSize > 1 THEN queueSize - 1 ELSE 1
      BY DEF RingInv
    <2> QED BY <1>4, <1>5, <1>6, <1>7, <1>9, <2>1 DEF Wrap
  <1>12. \A i \in 0 .. Pending' - 1 :
           queue'[Wrap(queueHead' + i)] = added'[Len(started') + 1 + i]
    <2> SUFFICES ASSUME NEW i \in 0 .. Pending - 2
                 PROVE  queue[Wrap(queueHead' + i)] = added[Len(started) + 2 + i]
      BY <1>2, <1>3, <1>4, <1>7
    <2>1. Wrap(queueHead' + i) = Wrap(queueHead + (i + 1))
      BY <1>5, <1>6, <1>7, <1>8 DEF Wrap
    <2>2. queue[Wrap(queueHead + (i + 1))] = added[Len(started) + 1 + (i + 1)]
      <3>1. i + 1 \in 0 .. Pending - 1
        BY <1>7
      <3> QED BY <3>1 DEF RingInv
    <2> QED BY <2>1, <2>2, <1>2
  <1>13. \A i \in 1 .. Len(started') : started'[i] = added'[i]
    BY <1>2, <1>3, <1>4 DEF RingInv
  <1>14. Pending' <= (IF queueSize > 1 THEN queueSize - 1 ELSE 1)
    BY <1>7 DEF RingInv
  <1>15. Len(started') <= Len(added')
    BY <1>1, <1>2, <1>3, <1>4
  <1> QED BY <1>4, <1>10, <1>11, <1>12, <1>13, <1>14, <1>15 DEF RingInv, Wrap

(* Only adding a job and taking one touch the queue and the histories.     *)
LEMMA StepRing == PoolInv /\ [Next]_vars => RingInv'
  <1> SUFFICES ASSUME PoolInv, [Next]_vars
               PROVE  RingInv'
    OBVIOUS
  <1> USE DEF PoolInv
  <1>1. ASSUME NEW t \in Threads, ThreadPops(t)
        PROVE  RingInv'
    BY <1>1, PopRing
  <1>2. ASSUME NEW c \in Clients, NEW j \in Jobs, TryAddCall(c, j)
        PROVE  RingInv'
    BY <1>2, EnqueueRing DEF TryAddCall, TryAdd
  <1>3. ASSUME NEW c \in Clients, AddReturns(c)
        PROVE  RingInv'
    <2>1. adding[c] \in Jobs
      BY <1>3 DEF AddReturns, FreshInv, PoolTypeOK
    <2> QED BY <1>3, <2>1, EnqueueRing DEF AddReturns
  <1>4. ASSUME UNCHANGED <<queueVars, added, started>>
        PROVE  RingInv'
    BY <1>4 DEF RingInv, Pending, Wrap, queueVars
  <1>5. ASSUME NEW t \in Threads,
               ThreadExits(t) \/ ThreadWaits(t) \/ ThreadFinishes(t)
        PROVE  RingInv'
    BY <1>4, <1>5 DEF ThreadExits, ThreadWaits, ThreadFinishes
  <1>6. ASSUME NEW c \in Clients,
               \/ AddWaits(c) \/ JoinJobsCall(c) \/ JoinJobsWaits(c) \/ JoinJobsReturns(c)
               \/ FreeJoined(c) \/ \E j \in Jobs : AddCall(c, j)
        PROVE  RingInv'
    BY <1>4, <1>6 DEF AddWaits, JoinJobsCall, JoinJobsWaits, JoinJobsReturns,
                      FreeJoined, AddCall, poolVars
  <1>7. ASSUME NEW c \in Clients,
               ResizeCall(c) \/ FreeShutsDown(c) \/ FreeBroadcasts(c)
        PROVE  RingInv'
    BY <1>4, <1>7 DEF ResizeCall, Resize, FreeShutsDown, FreeBroadcasts
  <1>8. CASE UNCHANGED vars
    BY <1>4, <1>8 DEF vars, poolVars
  <1> QED
    BY <1>1, <1>2, <1>3, <1>5, <1>6, <1>7, <1>8
    DEF Next, Worker, InCall, Begin, Freed

-----------------------------------------------------------------------------
(* A job that is not in use is neither added nor waited for.               *)
LEMMA FreshIsNew ==
    ASSUME PoolTypeOK, NEW j \in Jobs, FreshJob(j)
    PROVE  j # NoJob /\ j \notin Elements(added) /\ \A c \in Clients : adding[c] # j
  <1>1. j \notin UsedJobs
    BY DEF FreshJob
  <1>2. DOMAIN added = 1 .. Len(added)
    BY LenProperties DEF PoolTypeOK
  <1> QED BY <1>1, <1>2 DEF UsedJobs, Elements, Jobs, NoJob

(* Jobs stay distinct when a new one is added.                             *)
LEMMA DistinctAppend ==
    ASSUME PoolTypeOK, FreshInv, NEW j \in Jobs, j \notin Elements(added)
    PROVE  LET more == Append(added, j)
           IN  \A m, n \in 1 .. Len(more) : m # n => more[m] # more[n]
  <1>1. /\ Len(Append(added, j)) = Len(added) + 1 /\ Len(added) \in Nat
        /\ \A i \in 1 .. Len(added) : Append(added, j)[i] = added[i]
        /\ Append(added, j)[Len(added) + 1] = j
    BY AppendElements, LenProperties DEF PoolTypeOK
  <1>2. \A i \in 1 .. Len(added) : added[i] # j
    BY DEF Elements
  <1> QED BY <1>1, <1>2 DEF FreshInv

(* What the calls of POOL_add and POOL_tryAdd do to the jobs in use.       *)
LEMMA StepFresh == PoolInv /\ [Next]_vars => FreshInv'
  <1> SUFFICES ASSUME PoolInv, [Next]_vars
               PROVE  FreshInv'
    OBVIOUS
  <1>0. PoolTypeOK /\ FreshInv
    BY DEF PoolInv
  <1> USE <1>0
  <1>1. ASSUME UNCHANGED <<added, adding>>,
               \A c \in Clients : client'[c] \in {"add", "addWait"}
                                  <=> client[c] \in {"add", "addWait"}
        PROVE  FreshInv'
    BY <1>1 DEF FreshInv, Elements
  <1>2. SignalPush => \A c \in Clients : client'[c] \in {"add", "addWait"}
                                         <=> client[c] \in {"add", "addWait"}
    BY DEF SignalPush, PushWaiters, Woken, PoolTypeOK
  <1>3. ASSUME NEW t \in Threads, Worker(t)
        PROVE  FreshInv'
    BY <1>1, <1>2, <1>3
    DEF Worker, ThreadExits, ThreadWaits, ThreadPops, ThreadFinishes, clientVars
  <1>4. ASSUME NEW c \in Clients, NEW j \in Jobs, FreshJob(j), AddCall(c, j)
        PROVE  FreshInv'
    BY <1>4, FreshIsNew
    DEF AddCall, Calling, FreshInv, Elements, PoolTypeOK, poolVars
  <1>5. ASSUME NEW c \in Clients, NEW j \in Jobs, FreshJob(j), TryAddCall(c, j)
        PROVE  FreshInv'
    <2>1. CASE shutdown
      BY <1>1, <1>5, <2>1 DEF TryAddCall, TryAdd, Enqueue, clientVars
    <2>2. CASE ~shutdown
      <3>1. added' = Append(added, j) /\ UNCHANGED <<client, adding>>
        BY <1>5, <2>2 DEF TryAddCall, TryAdd, Enqueue, clientVars
      <3>2. j \notin Elements(added) /\ \A d \in Clients : adding[d] # j
        BY <1>5, FreshIsNew
      <3>3. Elements(Append(added, j)) = Elements(added) \cup {j}
        BY AppendElements DEF PoolTypeOK
      <3>4. Elements(added)' = Elements(added) \cup {j}
        BY <3>1, <3>3 DEF Elements
      <3>5. \A m, n \in 1 .. Len(added') : m # n => added'[m] # added'[n]
        BY <3>1, <3>2, DistinctAppend
      <3> QED BY <3>1, <3>2, <3>4, <3>5 DEF FreshInv
    <2> QED BY <2>1, <2>2
  <1>6. ASSUME NEW c \in Clients, AddReturns(c)
        PROVE  FreshInv'
    <2>1. /\ adding' = [adding EXCEPT ![c] = NoJob]
          /\ client' = [client EXCEPT ![c] = "idle"]
          /\ client[c] = "add"
      BY <1>6 DEF AddReturns
    <2>2. adding[c] \in Jobs /\ adding[c] \notin Elements(added)
      BY <2>1 DEF FreshInv, PoolTypeOK
    <2>3. NoJob \notin Jobs /\ Elements(added) \subseteq Jobs
      BY ElementOfSeq DEF PoolTypeOK, Elements, Jobs, NoJob
    <2>4. CASE shutdown
      <3>1. added' = added
        BY <1>6, <2>4 DEF AddReturns, Enqueue
      <3> QED BY <2>1, <2>2, <2>3, <3>1 DEF FreshInv, Elements, PoolTypeOK
    <2>5. CASE ~shutdown
      <3>1. added' = Append(added, adding[c])
        BY <1>6, <2>5 DEF AddReturns, Enqueue
      <3>2. Elements(Append(added, adding[c])) = Elements(added) \cup {adding[c]}
        BY <2>2, AppendElements DEF PoolTypeOK
      <3>3. Elements(added)' = Elements(added) \cup {adding[c]}
        BY <3>1, <3>2 DEF Elements
      <3>4. \A m, n \in 1 .. Len(added') : m # n => added'[m] # added'[n]
        BY <2>2, <3>1, DistinctAppend
      <3> QED BY <2>1, <2>2, <2>3, <3>3, <3>4 DEF FreshInv, PoolTypeOK
    <2> QED BY <2>4, <2>5
  <1>7. ASSUME NEW c \in Clients,
               \/ AddWaits(c) \/ JoinJobsCall(c) \/ JoinJobsWaits(c)
               \/ JoinJobsReturns(c) \/ FreeJoined(c)
        PROVE  FreshInv'
    BY <1>1, <1>7 DEF AddWaits, JoinJobsCall, Calling, JoinJobsWaits, JoinJobsReturns,
                      FreeJoined, poolVars, PoolTypeOK
  <1>8. ASSUME NEW c \in Clients, ResizeCall(c)
        PROVE  FreshInv'
    BY <1>1, <1>8 DEF ResizeCall, Resize
  <1>9. ASSUME NEW c \in Clients, FreeShutsDown(c)
        PROVE  FreshInv'
    BY <1>1, <1>9 DEF FreeShutsDown, Calling, PoolTypeOK
  <1>10. ASSUME NEW c \in Clients, FreeBroadcasts(c)
         PROVE  FreshInv'
    BY <1>1, <1>10 DEF FreeBroadcasts, PushWaiters, Woken, PoolTypeOK
  <1>11. CASE UNCHANGED vars
    BY <1>1, <1>11 DEF vars, poolVars, clientVars
  <1> QED
    BY <1>3, <1>4, <1>5, <1>6, <1>7, <1>8, <1>9, <1>10, <1>11
    DEF Next, InCall, Begin, Freed

-----------------------------------------------------------------------------
(* Signals and broadcasts wake threads and make none busy.                 *)
LEMMA SignalBusy == PoolTypeOK /\ SignalPop => Busy' = Busy
  BY DEF PoolTypeOK, SignalPop, PopWaiters, Busy

(* Adding a job lets no thread become busy.                                *)
LEMMA EnqueueBusy == ASSUME PoolTypeOK, NEW j, Enqueue(j)
                     PROVE  Busy' = Busy
  BY SignalBusy DEF Enqueue, Busy

(* Who works on what, step by step.                                        *)
LEMMA StepWork == PoolInv /\ [Next]_vars => WorkInv'
  <1> SUFFICES ASSUME PoolInv, [Next]_vars
               PROVE  WorkInv'
    OBVIOUS
  <1>0. PoolTypeOK /\ RingInv /\ FreshInv /\ WorkInv /\ ThreadInv
    BY DEF PoolInv
  <1> USE <1>0
  <1>1. ASSUME UNCHANGED <<numThreadsBusy, running, started, finished>>, Busy' = Busy
        PROVE  WorkInv'
    BY <1>1 DEF WorkInv, Elements
  <1>2. ASSUME NEW t \in Threads, ThreadExits(t) \/ ThreadWaits(t)
        PROVE  WorkInv'
    <2>1. Busy' = Busy
      BY <1>2 DEF ThreadExits, ThreadWaits, PoolTypeOK, Busy
    <2> QED BY <1>1, <1>2, <2>1 DEF ThreadExits, ThreadWaits
  <1>3. ASSUME NEW t \in Threads, ThreadPops(t)
        PROVE  WorkInv'
    <2>1. t \notin Busy /\ Busy' = Busy \cup {t} /\ numThreadsBusy' = Cardinality(Busy')
      BY <1>3, PopBusy
    <2> DEFINE j == queue[queueHead]
    <2>2. j = added[Len(started) + 1] /\ j \in Jobs /\ Len(started) + 1 \in 1 .. Len(added)
      BY <1>3, FirstPending DEF ThreadPops, NothingToTake
    <2>3. /\ running' = [running EXCEPT ![t] = j]
          /\ started' = Append(started, j) /\ finished' = finished
      BY <1>3 DEF ThreadPops
    <2>4. Len(started) \in Nat /\ Len(added) \in Nat
      BY LenProperties DEF PoolTypeOK
    <2>5. j \notin Elements(started)
      BY <2>2, <2>4 DEF RingInv, FreshInv, Elements
    <2> HIDE DEF j
    <2>6. /\ Elements(started)' = Elements(started) \cup {j}
          /\ Len(started') = Len(started) + 1
          /\ \A i \in 1 .. Len(started) : started'[i] = started[i]
          /\ started'[Len(started) + 1] = j
      BY <2>2, <2>3, AppendElements DEF PoolTypeOK, Elements
    <2>7. running'[t] = j /\ \A u \in Busy : running'[u] = running[u]
      BY <2>1, <2>3 DEF PoolTypeOK, Busy
    <2>8. \A u \in Busy' : running'[u] \in Elements(started)'
      BY <2>1, <2>6, <2>7 DEF WorkInv
    <2>9. \A u, v \in Busy' : u # v => running'[u] # running'[v]
      BY <2>1, <2>5, <2>7 DEF WorkInv
    <2>10. \A i \in 1 .. Len(started') :
             started'[i] \in finished' \/ \E u \in Busy' : running'[u] = started'[i]
      BY <2>1, <2>3, <2>4, <2>6, <2>7 DEF WorkInv
    <2> QED BY <2>1, <2>3, <2>6, <2>8, <2>9, <2>10 DEF WorkInv
  <1>4. ASSUME NEW t \in Threads, ThreadFinishes(t)
        PROVE  WorkInv'
    <2>1. t \in Busy /\ Busy' = Busy \ {t} /\ numThreadsBusy' = Cardinality(Busy')
      BY <1>4, FinishBusy
    <2>2. /\ finished' = finished \cup {running[t]} /\ started' = started
          /\ \A u \in Busy' : running'[u] = running[u]
      BY <1>4, <2>1 DEF ThreadFinishes, queueVars, PoolTypeOK, Busy
    <2>3. Elements(started)' = Elements(started)
      BY <2>2 DEF Elements
    <2>4. \A i \in 1 .. Len(started') :
            started'[i] \in finished' \/ \E u \in Busy' : running'[u] = started'[i]
      BY <2>1, <2>2 DEF WorkInv
    <2> QED BY <2>1, <2>2, <2>3, <2>4 DEF WorkInv
  <1>5. ASSUME NEW c \in Clients, NEW j \in Jobs, TryAddCall(c, j)
        PROVE  WorkInv'
    BY <1>1, <1>5, EnqueueBusy DEF TryAddCall, TryAdd
  <1>6. ASSUME NEW c \in Clients, AddReturns(c)
        PROVE  WorkInv'
    BY <1>1, <1>6, EnqueueBusy DEF AddReturns
  <1>7. ASSUME NEW c \in Clients,
               \/ AddWaits(c) \/ JoinJobsCall(c) \/ JoinJobsWaits(c) \/ JoinJobsReturns(c)
               \/ FreeJoined(c) \/ \E j \in Jobs : AddCall(c, j)
        PROVE  WorkInv'
    BY <1>1, <1>7 DEF AddWaits, JoinJobsCall, JoinJobsWaits, JoinJobsReturns,
                      FreeJoined, AddCall, poolVars, Busy
  <1>8. ASSUME NEW c \in Clients, FreeShutsDown(c)
        PROVE  WorkInv'
    BY <1>1, <1>8 DEF FreeShutsDown, Busy
  <1>9. ASSUME NEW c \in Clients, FreeBroadcasts(c)
        PROVE  WorkInv'
    <2>1. Busy' = Busy
      BY <1>9 DEF FreeBroadcasts, Awake, Busy, PoolTypeOK
    <2> QED BY <1>1, <1>9, <2>1 DEF FreeBroadcasts
  <1>10. ASSUME NEW c \in Clients, ResizeCall(c)
         PROVE  WorkInv'
    <2>1. \A t \in Busy : t <= threadCapacity
      BY DEF Busy, ThreadInv, Threads, PoolTypeOK
    <2>2. Busy' = Busy
      BY <1>10, <2>1 DEF ResizeCall, Resize, Awake, Busy, PoolTypeOK, Threads
    <2> QED BY <1>1, <1>10, <2>2 DEF ResizeCall, Resize
  <1>11. CASE UNCHANGED vars
    BY <1>1, <1>11 DEF vars, poolVars, Busy
  <1> QED
    BY <1>2, <1>3, <1>4, <1>5, <1>6, <1>7, <1>8, <1>9, <1>10, <1>11
    DEF Next, Worker, InCall, Begin, Freed

(* What keeps a thread alive that will take the jobs left in the queue.    *)
LEMMA StepThread == PoolInv /\ [Next]_vars => ThreadInv'
  <1> SUFFICES ASSUME PoolInv, [Next]_vars
               PROVE  ThreadInv'
    OBVIOUS
  <1>0. PoolTypeOK /\ WorkInv /\ ThreadInv
    BY DEF PoolInv
  <1> USE <1>0
  <1>1. ASSUME UNCHANGED <<queueVars, sizeVars, thread>>
        PROVE  ThreadInv'
    BY <1>1 DEF ThreadInv, queueVars, sizeVars
  <1>2. ASSUME NEW t \in Threads, ThreadExits(t)
        PROVE  ThreadInv'
    <2>1. ASSUME ~queueEmpty
          PROVE  \E u \in Threads : thread'[u] \notin {"none", "exited"}
      <3>1. numThreadsBusy >= 1
        BY <1>2, <2>1 DEF ThreadExits, NothingToTake, PoolTypeOK
      <3>2. Cardinality(Busy) # 0
        BY <3>1 DEF WorkInv, PoolTypeOK
      <3>3. Busy # {}
        BY <3>2, FS_EmptySet
      <3>4. PICK u \in Threads : thread[u] = "run"
        BY <3>3 DEF Busy
      <3> QED BY <1>2, <3>4 DEF ThreadExits, PoolTypeOK
    <2> QED BY <1>2, <2>1 DEF ThreadExits, ThreadInv, PoolTypeOK, queueVars, sizeVars
  <1>3. ASSUME NEW t \in Threads, ThreadWaits(t) \/ ThreadFinishes(t) \/ ThreadPops(t)
        PROVE  ThreadInv'
    BY ZenonT(60), <1>3 DEF ThreadWaits, ThreadFinishes, ThreadPops, ThreadInv, PoolTypeOK,
                queueVars, sizeVars
  <1>4. ASSUME NEW j, Enqueue(j), UNCHANGED sizeVars
        PROVE  ThreadInv'
    <2>1. CASE shutdown
      BY <1>1, <1>4, <2>1 DEF Enqueue
    <2>2. CASE ~shutdown
      <3>1. SignalPop
        BY <1>4, <2>2 DEF Enqueue
      <3>2. \A t \in Threads : /\ thread'[t] = "none" <=> thread[t] = "none"
                               /\ thread'[t] = "exited" <=> thread[t] = "exited"
        BY <3>1 DEF SignalPop, PopWaiters, PoolTypeOK
      <3>3. 1 \in Threads /\ thread[1] # "none"
        BY DEF ThreadInv, PoolTypeOK, Threads
      <3> QED BY <1>4, <2>2, <3>2, <3>3 DEF ThreadInv, sizeVars
    <2> QED BY <2>1, <2>2
  <1>5. ASSUME NEW c \in Clients, AddReturns(c) \/ \E j \in Jobs : TryAddCall(c, j)
        PROVE  ThreadInv'
    BY <1>4, <1>5 DEF AddReturns, TryAddCall, TryAdd
  <1>6. ASSUME NEW c \in Clients,
               \/ AddWaits(c) \/ JoinJobsCall(c) \/ JoinJobsWaits(c) \/ JoinJobsReturns(c)
               \/ FreeJoined(c) \/ \E j \in Jobs : AddCall(c, j)
        PROVE  ThreadInv'
    BY <1>1, <1>6 DEF AddWaits, JoinJobsCall, JoinJobsWaits, JoinJobsReturns,
                      FreeJoined, AddCall, poolVars
  <1>7. ASSUME NEW c \in Clients, FreeShutsDown(c)
        PROVE  ThreadInv'
    BY <1>7 DEF FreeShutsDown, ThreadInv, queueVars
  <1>8. ASSUME NEW c \in Clients, FreeBroadcasts(c)
        PROVE  ThreadInv'
    BY <1>8 DEF FreeBroadcasts, Awake, ThreadInv, PoolTypeOK, queueVars, sizeVars
  <1>9. ASSUME NEW c \in Clients, ResizeCall(c)
        PROVE  ThreadInv'
    <2>1. /\ threadCapacity' \in threadCapacity .. MaxThreads
          /\ thread' = [t \in Threads |->
               IF t \in threadCapacity + 1 .. threadCapacity' THEN "lock" ELSE Awake(t)]
          /\ UNCHANGED <<queueEmpty, shutdown>>
      BY <1>9 DEF ResizeCall, Resize, PoolTypeOK, queueVars
    <2>2. \A t \in Threads : /\ thread'[t] = "none" <=> t > threadCapacity'
                             /\ thread'[t] = "exited" => thread[t] = "exited"
                             /\ thread[t] \notin {"none", "exited"}
                                => thread'[t] \notin {"none", "exited"}
      BY <2>1 DEF Awake, ThreadInv, PoolTypeOK, Threads
    <2> QED BY <2>1, <2>2 DEF ThreadInv
  <1>10. CASE UNCHANGED vars
    BY <1>1, <1>10 DEF vars, poolVars
  <1> QED
    BY <1>2, <1>3, <1>5, <1>6, <1>7, <1>8, <1>9, <1>10
    DEF Next, Worker, InCall, Begin, Freed

-----------------------------------------------------------------------------
(* Every step keeps the invariant.                                         *)
LEMMA StepPoolInv == PoolInv /\ [Next]_vars => PoolInv'
  BY StepPoolType, StepRing, StepFresh, StepWork, StepThread DEF PoolInv

(* The pool's invariant, for every number of threads, slots, clients,      *)
(* jobs and resizes, with or without a thread that could not be created.   *)
THEOREM PoolInvariant == Spec => []PoolInv
  BY InitPoolInv, StepPoolInv, PTL DEF Spec

(* Jobs start in the order in which they were added and each of them once, *)
(* the slots from queueHead on hold those that have not started, and       *)
(* numThreadsBusy counts the threads inside a job.                         *)
THEOREM FifoSafe == Spec => []QueueIsFifo
  <1>1. PoolInv => QueueIsFifo
    <2> SUFFICES ASSUME PoolInv PROVE QueueIsFifo
      OBVIOUS
    <2>0. PoolTypeOK /\ RingInv /\ WorkInv
      BY DEF PoolInv
    <2> DEFINE m == Len(started) + 1
               n == Len(added)
    <2>1. Len(started) \in Nat /\ n \in Nat /\ Len(started) <= n
      BY <2>0, LenProperties DEF PoolTypeOK, RingInv
    <2>2. \A i \in 1 .. n : added[i] \in Jobs
      BY <2>0, ElementOfSeq DEF PoolTypeOK
    <2>3. /\ SubSeq(added, 1, Len(started)) \in Seq(Jobs)
          /\ Len(SubSeq(added, 1, Len(started))) = Len(started)
          /\ \A i \in 1 .. Len(started) : SubSeq(added, 1, Len(started))[i] = added[i]
      BY <2>1, <2>2, SubSeqProperties
    <2>4. started = SubSeq(added, 1, Len(started))
      BY <2>0, <2>3, SeqEqual DEF PoolTypeOK, RingInv
    <2>5. /\ Queued \in Seq(Jobs)
          /\ Len(Queued) = Pending
          /\ \A i \in 1 .. Pending : Queued[i] = added[m + i - 1]
      BY <2>1, <2>2, SubSeqProperties DEF Queued, Pending
    <2>6. Pending \in 0 .. queueSize
      BY <2>0, <2>1 DEF RingInv, Pending
    <2>7. queueEmpty <=> Queued = <<>>
      BY <2>0, <2>5, EmptySeq DEF RingInv
    <2>8. \A i \in DOMAIN Queued : queue[(queueHead + i - 1) % queueSize] = Queued[i]
      <3> SUFFICES ASSUME NEW i \in 1 .. Pending
                   PROVE  queue[(queueHead + i - 1) % queueSize] = Queued[i]
        BY <2>5, LenProperties
      <3>1. queueHead \in 0 .. QueueSlots
        BY <2>0 DEF PoolTypeOK
      <3>2. (queueHead + i - 1) % queueSize = Wrap(queueHead + (i - 1))
        BY <2>6, <3>1, WrapIsMod
      <3>3. queue[Wrap(queueHead + (i - 1))] = added[m + (i - 1)]
        <4>1. i - 1 \in 0 .. Pending - 1
          BY <2>6
        <4> QED BY <2>0, <4>1 DEF RingInv
      <3> QED BY <2>1, <2>5, <3>2, <3>3
    <2>9. queueEmpty \in BOOLEAN
      BY <2>0 DEF PoolTypeOK
    <2> QED BY <2>0, <2>4, <2>5, <2>6, <2>7, <2>8, <2>9 DEF QueueIsFifo, WorkInv
  <1> QED BY <1>1, PoolInvariant, PTL

(* Once nothing is queued and nobody is busy, all that was added is done.  *)
LEMMA RestIsDone ==
    ASSUME PoolInv, queueEmpty, Busy = {}
    PROVE  finished = {added[i] : i \in DOMAIN added}
  <1>1. Len(started) = Len(added) /\ Len(added) \in Nat /\ DOMAIN added = 1 .. Len(added)
    BY LenProperties DEF PoolInv, PoolTypeOK, RingInv, Pending
  <1>2. \A i \in 1 .. Len(added) : added[i] = started[i]
    BY <1>1 DEF PoolInv, RingInv
  <1>3. Elements(started) = {added[i] : i \in DOMAIN added}
    BY <1>1, <1>2 DEF Elements
  <1>4. Elements(started) \subseteq finished
    BY DEF PoolInv, WorkInv, Elements
  <1>5. finished \subseteq Elements(started)
    BY DEF PoolInv, WorkInv
  <1> QED BY <1>3, <1>4, <1>5

(* POOL_joinJobs returns, and POOL_free joins the last thread, only when   *)
(* every job that was added has finished: threads leave the pool only when *)
(* others remain for the jobs that are left.                               *)
THEOREM WaitersSafe == Spec => WaitersSeeAllDone
  <1> DEFINE Ends(c) == \/ client[c] = "join" /\ client'[c] = "idle"
                        \/ client[c] = "freeing" /\ client'[c] = "freed"
             AllDone == finished' = {added'[i] : i \in DOMAIN added'}
  <1>1. ASSUME PoolInv, Next, NEW c \in Clients, Ends(c)
        PROVE  AllDone
    <2>0. PoolTypeOK /\ RingInv /\ WorkInv /\ ThreadInv
      BY <1>1 DEF PoolInv
    <2> USE <1>1, <2>0 DEF PoolTypeOK
    <2>1. CASE JoinJobsReturns(c)
      <3>1. queueEmpty /\ numThreadsBusy = 0
        BY <2>1 DEF JoinJobsReturns, JobsPending
      <3>2. Busy = {}
        BY <3>1, BusyFinite, FS_EmptySet DEF WorkInv
      <3> QED BY <3>1, <3>2, <2>1, RestIsDone DEF JoinJobsReturns, poolVars
    <2>2. CASE FreeJoined(c)
      <3>1. \A t \in Threads : thread[t] \in {"none", "exited"}
        BY <2>2 DEF FreeJoined, ThreadInv, Threads
      <3>2. queueEmpty /\ Busy = {}
        BY <3>1 DEF ThreadInv, Busy
      <3> QED BY <3>2, <2>2, RestIsDone DEF FreeJoined, poolVars
    <2>3. ASSUME NEW t \in Threads, Worker(t)
          PROVE  FALSE
      BY <2>3 DEF Worker, ThreadExits, ThreadWaits, ThreadPops, ThreadFinishes,
                  SignalPush, PushWaiters, Woken, clientVars
    <2>4. ASSUME NEW d \in Clients,
                 \/ AddWaits(d) \/ AddReturns(d) \/ JoinJobsWaits(d) \/ JoinJobsCall(d)
                 \/ FreeShutsDown(d) \/ \E j \in Jobs : AddCall(d, j)
          PROVE  FALSE
      BY <2>4 DEF AddWaits, AddReturns, JoinJobsWaits, JoinJobsCall, FreeShutsDown,
                  AddCall, Calling
    <2>5. ASSUME NEW d \in Clients, ResizeCall(d) \/ \E j \in Jobs : TryAddCall(d, j)
          PROVE  FALSE
      BY <2>5 DEF ResizeCall, TryAddCall, clientVars
    <2>6. ASSUME NEW d \in Clients, FreeBroadcasts(d)
          PROVE  FALSE
      BY <2>6 DEF FreeBroadcasts, PushWaiters, Woken
    <2>7. ASSUME NEW d \in Clients, d # c, JoinJobsReturns(d) \/ FreeJoined(d)
          PROVE  FALSE
      BY <2>7 DEF JoinJobsReturns, FreeJoined
    <2>8. CASE UNCHANGED vars
      BY <2>8 DEF vars, clientVars
    <2> QED BY <2>1, <2>2, <2>3, <2>4, <2>5, <2>6, <2>7, <2>8
            DEF Next, InCall, Begin, Freed
  <1>2. PoolInv /\ [Next]_vars => [\A c \in Clients : Ends(c) => AllDone]_vars
    BY <1>1
  <1> QED BY <1>2, PoolInvariant, PTL DEF Spec, WaitersSeeAllDone

=============================================================================
