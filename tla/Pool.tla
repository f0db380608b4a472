-------------------------------- MODULE Pool --------------------------------
(***************************************************************************)
(* The thread pool of common/pool.c (built with ZSTD_MULTITHREAD): a       *)
(* circular queue of jobs, worker threads that take jobs from it, and      *)
(* clients that add jobs, wait for them, resize the pool and free it.      *)
(*                                                                         *)
(* One mutex protects the whole context and every function holds it from   *)
(* its first to its last access, except while it waits on one of the two   *)
(* condition variables.  So each critical section is one action, and a     *)
(* thread that waits is in one of two wait sets, from which it is only     *)
(* taken by a signal (one thread, any) or a broadcast (all of them).       *)
(***************************************************************************)
EXTENDS Integers, Sequences, FiniteSets

CONSTANTS
  MaxThreads,     \* bound on the size of the pool
  InitThreads,    \* numThreads of POOL_create
  QueueSlots,     \* queueSize of POOL_create: 0 means "no job waits"
  Clients,        \* the threads that call the pool
  Calls,          \* what each client calls: [Clients -> SUBSET CallNames]
  Sizes,          \* the sizes POOL_resize is called with
  MaxJobs,        \* bound on the jobs added
  MaxResizes      \* bound on the calls of POOL_resize

CallNames == {"add", "tryAdd", "joinJobs", "resize", "free"}

ASSUME PoolConstants ==
  /\ MaxThreads \in Nat \ {0}
  /\ InitThreads \in 1 .. MaxThreads
  /\ QueueSlots \in Nat
  /\ Calls \in [Clients -> SUBSET CallNames]
  /\ Sizes \subseteq 1 .. MaxThreads
  /\ MaxJobs \in Nat
  /\ MaxResizes \in Nat

VARIABLES
  queue,           \* the circular buffer of jobs
  queueHead,
  queueTail,
  queueEmpty,
  numThreadsBusy,
  threadCapacity,
  threadLimit,
  shutdown,
  thread,          \* control of each worker thread
  running,         \* the job a worker thread runs
  client,          \* control of each client
  adding,          \* the job a client waits to add
  added,           \* history: jobs put in the queue, in order
  started,         \* history: jobs taken from the queue, in order
  finished,        \* history: jobs whose function returned
  resizes          \* calls of POOL_resize so far

queueVars  == <<queue, queueHead, queueTail, queueEmpty>>
sizeVars   == <<threadCapacity, threadLimit, shutdown>>
poolVars   == <<queueVars, numThreadsBusy, sizeVars, thread, running,
                added, started, finished>>
clientVars == <<client, adding, resizes>>
vars == <<poolVars, clientVars>>

Threads   == 1 .. MaxThreads
Jobs      == 1 .. MaxJobs
NoJob     == 0
queueSize == QueueSlots + 1       \* one slot tells a full queue from an empty one

-----------------------------------------------------------------------------
(* Condition variables.  A thread waiting on queuePopCond is "waiting", one  *)
(* woken (or new, or done with a job) is at the "lock".  A client waiting on *)
(* queuePushCond is in state "addWait" or "joinWait", woken: "add", "join".  *)

Woken(c) == IF client[c] = "addWait" THEN "add" ELSE "join"
PushWaiters == {c \in Clients : client[c] \in {"addWait", "joinWait"}}
PopWaiters  == {t \in Threads : thread[t] = "waiting"}

SignalPush ==
  \/ PushWaiters = {} /\ UNCHANGED client
  \/ \E c \in PushWaiters : client' = [client EXCEPT ![c] = Woken(c)]

\* Mutant: nobody is told of the new job.
SignalPopNot == UNCHANGED thread
SignalPop ==
  \/ PopWaiters = {} /\ UNCHANGED thread
  \/ \E t \in PopWaiters : thread' = [thread EXCEPT ![t] = "lock"]

\* Mutant: POOL_free and POOL_resize do not broadcast queuePopCond.
AwakeNot(t) == thread[t]
Awake(t) == IF thread[t] = "waiting" THEN "lock" ELSE thread[t]

-----------------------------------------------------------------------------
(* Worker threads.                                                          *)

NothingToTake == queueEmpty \/ numThreadsBusy >= threadLimit

ThreadExits(t) ==
  /\ thread[t] = "lock"
  /\ NothingToTake
  /\ shutdown
  /\ thread' = [thread EXCEPT ![t] = "exited"]
  /\ UNCHANGED <<queueVars, numThreadsBusy, sizeVars, running,
                 added, started, finished, clientVars>>

ThreadWaits(t) ==
  /\ thread[t] = "lock"
  /\ NothingToTake
  /\ ~shutdown
  /\ thread' = [thread EXCEPT ![t] = "waiting"]
  /\ UNCHANGED <<queueVars, numThreadsBusy, sizeVars, running,
                 added, started, finished, clientVars>>

ThreadPops(t) ==
  /\ thread[t] = "lock"
  /\ ~NothingToTake
  /\ running' = [running EXCEPT ![t] = queue[queueHead]]
  /\ queueHead' = (queueHead + 1) % queueSize
  /\ numThreadsBusy' = numThreadsBusy + 1
  /\ queueEmpty' = (queueHead' = queueTail)
  /\ thread' = [thread EXCEPT ![t] = "run"]
  /\ started' = Append(started, queue[queueHead])
  /\ SignalPush
  /\ UNCHANGED <<queue, queueTail, sizeVars, added, finished, adding, resizes>>

ThreadFinishes(t) ==
  /\ thread[t] = "run"
  /\ numThreadsBusy' = numThreadsBusy - 1
  /\ finished' = finished \cup {running[t]}
  /\ running' = [running EXCEPT ![t] = NoJob]
  /\ thread' = [thread EXCEPT ![t] = "lock"]
  /\ SignalPush
  /\ UNCHANGED <<queueVars, sizeVars, added, started, adding, resizes>>

-----------------------------------------------------------------------------
(* POOL_add, POOL_tryAdd.                                                   *)

\* Mutant: the comparison does not wrap.
IsQueueFullNoWrap ==
  IF queueSize > 1 THEN queueHead = queueTail + 1
                   ELSE numThreadsBusy = threadLimit \/ ~queueEmpty
isQueueFull ==
  IF queueSize > 1 THEN queueHead = (queueTail + 1) % queueSize
                   ELSE numThreadsBusy = threadLimit \/ ~queueEmpty

Enqueue(job) ==                                       \* POOL_add_internal
  IF shutdown
  THEN UNCHANGED <<queueVars, thread, added>>
  ELSE /\ queueEmpty' = FALSE
       /\ queue' = [queue EXCEPT ![queueTail] = job]
       /\ queueTail' = (queueTail + 1) % queueSize
       /\ SignalPop
       /\ added' = Append(added, job)
       /\ UNCHANGED queueHead

UsedJobs == {added[i] : i \in DOMAIN added} \cup {adding[c] : c \in Clients}
FreshJob(j) == j \in Jobs \ UsedJobs /\ \A k \in Jobs \ UsedJobs : j <= k

Calling(c, name) ==
  /\ client[c] = "idle"
  /\ name \in Calls[c]
  /\ \A d \in Clients : client[d] \notin {"freeing", "broadcast", "freed"}

AddCall(c, j) ==
  /\ Calling(c, "add")
  /\ client' = [client EXCEPT ![c] = "add"]
  /\ adding' = [adding EXCEPT ![c] = j]
  /\ UNCHANGED <<poolVars, resizes>>

AddWaits(c) ==
  /\ client[c] = "add"
  /\ isQueueFull /\ ~shutdown
  /\ client' = [client EXCEPT ![c] = "addWait"]
  /\ UNCHANGED <<poolVars, adding, resizes>>

AddReturns(c) ==
  /\ client[c] = "add"
  /\ ~isQueueFull \/ shutdown
  /\ Enqueue(adding[c])
  /\ client' = [client EXCEPT ![c] = "idle"]
  /\ adding' = [adding EXCEPT ![c] = NoJob]
  /\ UNCHANGED <<numThreadsBusy, sizeVars, running, started, finished, resizes>>

\* POOL_tryAdd as another module calls it: one critical section.
TryAdd(j) ==
  /\ ~isQueueFull
  /\ Enqueue(j)
  /\ UNCHANGED <<numThreadsBusy, sizeVars, running, started, finished>>

TryAddFails == isQueueFull /\ UNCHANGED poolVars

TryAddCall(c, j) ==
  /\ Calling(c, "tryAdd")
  /\ TryAdd(j)
  /\ UNCHANGED clientVars

-----------------------------------------------------------------------------
(* POOL_joinJobs, POOL_resize, POOL_free.                                   *)

\* Mutant: jobs that run already are forgotten.
JobsPendingQueued == ~queueEmpty
JobsPending == ~queueEmpty \/ numThreadsBusy > 0

JoinJobsCall(c) ==
  /\ Calling(c, "joinJobs")
  /\ client' = [client EXCEPT ![c] = "join"]
  /\ UNCHANGED <<poolVars, adding, resizes>>

JoinJobsWaits(c) ==
  /\ client[c] = "join"
  /\ JobsPending
  /\ client' = [client EXCEPT ![c] = "joinWait"]
  /\ UNCHANGED <<poolVars, adding, resizes>>

JoinJobsReturns(c) ==
  /\ client[c] = "join"
  /\ ~JobsPending
  /\ client' = [client EXCEPT ![c] = "idle"]
  /\ UNCHANGED <<poolVars, adding, resizes>>

\* POOL_resize_internal and the broadcast of POOL_resize.  When a thread cannot
\* be created the threads created before it stay, the limit does not move.
Resize(numThreads, created) ==
  /\ created \in threadCapacity .. numThreads \/ numThreads <= threadCapacity
  /\ threadCapacity' = IF numThreads <= threadCapacity THEN threadCapacity ELSE created
  /\ threadLimit' = IF numThreads <= threadCapacity \/ created = numThreads
                    THEN numThreads ELSE threadLimit
  /\ thread' = [t \in Threads |->
       IF t \in threadCapacity + 1 .. threadCapacity' THEN "lock" ELSE Awake(t)]
  /\ UNCHANGED <<queueVars, numThreadsBusy, shutdown, running,
                 added, started, finished>>

ResizeCall(c) ==
  /\ Calling(c, "resize")
  /\ resizes < MaxResizes
  /\ resizes' = resizes + 1
  /\ \E n \in Sizes : \E k \in n - 1 .. n : Resize(n, k)
  /\ UNCHANGED <<client, adding>>

FreeShutsDown(c) ==
  /\ Calling(c, "free")
  /\ shutdown' = TRUE
  /\ client' = [client EXCEPT ![c] = "broadcast"]
  /\ UNCHANGED <<queueVars, numThreadsBusy, threadCapacity, threadLimit,
                 thread, running, added, started, finished, adding, resizes>>

FreeBroadcasts(c) ==
  /\ client[c] = "broadcast"
  /\ client' = [d \in Clients |-> IF d = c THEN "freeing"
                                  ELSE IF d \in PushWaiters THEN Woken(d) ELSE client[d]]
  /\ thread' = [t \in Threads |-> Awake(t)]
  /\ UNCHANGED <<queueVars, numThreadsBusy, sizeVars, running,
                 added, started, finished, adding, resizes>>

FreeJoined(c) ==
  /\ client[c] = "freeing"
  /\ \A t \in 1 .. threadCapacity : thread[t] = "exited"
  /\ client' = [client EXCEPT ![c] = "freed"]
  /\ UNCHANGED <<poolVars, adding, resizes>>

-----------------------------------------------------------------------------
PoolInit(numThreads) ==                                       \* POOL_create
  /\ queue = [i \in 0 .. QueueSlots |-> NoJob]
  /\ queueHead = 0 /\ queueTail = 0 /\ queueEmpty = TRUE
  /\ numThreadsBusy = 0
  /\ threadCapacity = numThreads /\ threadLimit = numThreads
  /\ shutdown = FALSE
  /\ thread = [t \in Threads |-> IF t <= numThreads THEN "lock" ELSE "none"]
  /\ running = [t \in Threads |-> NoJob]
  /\ added = <<>> /\ started = <<>> /\ finished = {}

Init ==
  /\ PoolInit(InitThreads)
  /\ client = [c \in Clients |-> "idle"]
  /\ adding = [c \in Clients |-> NoJob]
  /\ resizes = 0

Worker(t) == ThreadExits(t) \/ ThreadWaits(t) \/ ThreadPops(t) \/ ThreadFinishes(t)

\* The steps of a call that has begun.
InCall(c) ==
  \/ AddWaits(c) \/ AddReturns(c)
  \/ JoinJobsWaits(c) \/ JoinJobsReturns(c)
  \/ FreeBroadcasts(c) \/ FreeJoined(c)

Begin(c) ==
  \/ \E j \in Jobs : FreshJob(j) /\ (AddCall(c, j) \/ TryAddCall(c, j))
  \/ JoinJobsCall(c) \/ ResizeCall(c) \/ FreeShutsDown(c)

\* The pool is freed and nobody is in a call.
Freed ==
  /\ \E c \in Clients : client[c] = "freed"
  /\ \A c \in Clients : client[c] \in {"freed", "idle"}
  /\ UNCHANGED vars

Next == (\E t \in Threads : Worker(t)) \/ (\E c \in Clients : InCall(c) \/ Begin(c)) \/ Freed

\* Threads run and a job's function returns; a client inside a call goes on.
Fairness == /\ \A t \in Threads : WF_vars(Worker(t))
            /\ \A c \in Clients : WF_vars(InCall(c))

Spec == Init /\ [][Next]_vars /\ Fairness

-----------------------------------------------------------------------------
Busy == {t \in Threads : thread[t] = "run"}
Queued == SubSeq(added, Len(started) + 1, Len(added))

PoolTypeOK ==
  /\ queue \in [0 .. QueueSlots -> Jobs \cup {NoJob}]
  /\ queueHead \in 0 .. QueueSlots /\ queueTail \in 0 .. QueueSlots
  /\ queueEmpty \in BOOLEAN /\ shutdown \in BOOLEAN
  /\ numThreadsBusy \in 0 .. MaxThreads
  /\ threadCapacity \in 1 .. MaxThreads /\ threadLimit \in 1 .. threadCapacity
  /\ thread \in [Threads -> {"none", "lock", "waiting", "run", "exited"}]
  /\ running \in [Threads -> Jobs \cup {NoJob}]
  /\ client \in [Clients -> {"idle", "add", "addWait", "join", "joinWait",
                             "broadcast", "freeing", "freed"}]
  /\ adding \in [Clients -> Jobs \cup {NoJob}]
  /\ added \in Seq(Jobs) /\ started \in Seq(Jobs) /\ finished \subseteq Jobs
  /\ resizes \in 0 .. MaxResizes

\* Jobs start in the order in which they were added, each once; the slots from
\* queueHead on hold exactly the jobs that have not started (the circular queue
\* with its queueEmpty flag, which a queue of one slot depends on); and
\* numThreadsBusy, on which the limit, isQueueFull and POOL_joinJobs depend, is
\* the number of threads inside a job.
QueueIsFifo ==
  /\ started = SubSeq(added, 1, Len(started))
  /\ Len(Queued) <= queueSize
  /\ queueEmpty = (Queued = <<>>)
  /\ \A i \in DOMAIN Queued : queue[(queueHead + i - 1) % queueSize] = Queued[i]
  /\ numThreadsBusy = Cardinality(Busy)
  /\ \A t, u \in Busy : t # u => running[t] # running[u]

\* POOL_joinJobs returns only when every job added so far has finished, and
\* POOL_free joins the threads only after the queue was worked off: threads
\* that exit early because of threadLimit leave enough others behind.
WaitersSeeAllDone ==
  [][\A c \in Clients :
       \/ client[c] = "join" /\ client'[c] = "idle"
       \/ client[c] = "freeing" /\ client'[c] = "freed"
       => finished' = {added'[i] : i \in DOMAIN added'}]_vars

\* Every job that was added runs, also after POOL_free was called and while
\* threadLimit shrinks below the number of busy threads.
EveryJobRuns == \A j \in Jobs :
  (\E i \in DOMAIN added : added[i] = j) ~> (j \in finished)

\* Every call of the pool returns: no signal of a worker, of POOL_resize or of
\* POOL_free is lost for those who wait.
EveryCallReturns == \A c \in Clients :
  (client[c] \notin {"idle", "freed"}) ~> (client[c] \in {"idle", "freed"})
=============================================================================
