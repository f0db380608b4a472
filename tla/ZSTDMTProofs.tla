---------------------------- MODULE ZSTDMTProofs ----------------------------
(****************************************************************************)
(* Proofs about ZSTDMT, for any number of workers, size of sections, prefix *)
(* and window, and every plan of frames the application runs to their end.  *)
(****************************************************************************)
EXTENDS ZSTDMTInvariant, FiniteSetTheorems, SequenceTheorems, WellFoundedInduction, TLAPS

-----------------------------------------------------------------------------
(* ------------------------------ the job table --------------------------- *)
TableLen == Cardinality(DOMAIN jobs)

\* The table of ZSTDMT_createJobsTable holds a power of two of jobs, and every
\* job ID has its place in it.
LEMMA TableShape ==
  ASSUME JobTypes
  PROVE  /\ TableLen \in TableSizes /\ TableLen \in Nat \ {0}
         /\ DOMAIN jobs = 0 .. TableLen - 1
         /\ jobs \in [0 .. TableLen - 1 -> JobType]
         /\ \A i \in Nat : Slot(i) \in DOMAIN jobs /\ J(i) \in JobType
<1>1. PICK size \in TableSizes : jobs \in [0 .. size - 1 -> JobType]
  BY DEF JobTypes
<1>2. size \in Nat \ {0}
  BY DEF TableSizes
<1>3. DOMAIN jobs = 0 .. size - 1
  BY <1>1
<1>4. Cardinality(0 .. size - 1) = size
  BY <1>2, FS_Interval
<1>5. TableLen = size
  BY <1>3, <1>4 DEF TableLen
<1>6. ASSUME NEW i \in Nat
      PROVE  Slot(i) \in 0 .. size - 1
  <2>1. Slot(i) = i % size
    BY <1>5 DEF Slot, TableLen
  <2> QED
    BY <2>1, <1>2
<1> QED
  BY <1>1, <1>2, <1>3, <1>5, <1>6 DEF J

\* Two jobs less than a table apart have different places.
LEMMA SlotsDiffer ==
  ASSUME JobTypes, NEW i \in Nat, NEW k \in Nat,
         i < k + TableLen, k < i + TableLen, Slot(i) = Slot(k)
  PROVE  i = k
<1>1. TableLen \in TableSizes
  BY TableShape
<1>2. i % TableLen = k % TableLen
  BY DEF Slot, TableLen
<1>3. ASSUME NEW n \in TableSizes, i < k + n, k < i + n, i % n = k % n
      PROVE  i = k
  <2>1. n \in {4, 8, 16, 32, 64, 128, 256, 512}
    BY DEF TableSizes
  <2> QED
    BY <2>1, <1>3, SMTT(60)
<1> QED
  BY <1>1, <1>2, <1>3

\* Writing the job with ID b leaves the other jobs of the window alone.
LEMMA JobWritten ==
  ASSUME JobTypes, NEW b \in Nat, NEW r \in JobType,
         jobs' = [jobs EXCEPT ![Slot(b)] = r]
  PROVE  /\ TableLen' = TableLen /\ DOMAIN jobs' = DOMAIN jobs
         /\ \E size \in TableSizes : jobs' \in [0 .. size - 1 -> JobType]
         /\ \A i \in Nat : Slot(i)' = Slot(i)
         /\ J(b)' = r
         /\ \A i \in Nat : i < b + TableLen /\ b < i + TableLen /\ i # b => J(i)' = J(i)
<1>1. /\ TableLen \in TableSizes /\ DOMAIN jobs = 0 .. TableLen - 1
      /\ jobs \in [0 .. TableLen - 1 -> JobType]
      /\ \A i \in Nat : Slot(i) \in DOMAIN jobs /\ J(i) \in JobType
  BY TableShape
<1>2. DOMAIN jobs' = DOMAIN jobs
  OBVIOUS
<1>3. TableLen' = TableLen
  BY <1>2 DEF TableLen
<1>4. \A i \in Nat : Slot(i)' = Slot(i)
  BY <1>2 DEF Slot
<1>5. jobs' \in [0 .. TableLen - 1 -> JobType]
  BY <1>1
<1>6. J(b)' = r
  BY <1>1, <1>4 DEF J
<1>7. ASSUME NEW i \in Nat, i < b + TableLen, b < i + TableLen, i # b
      PROVE  J(i)' = J(i)
  <2>1. Slot(i) # Slot(b)
    BY <1>7, SlotsDiffer
  <2> QED
    BY <2>1, <1>1, <1>4 DEF J
<1> QED
  BY <1>1, <1>2, <1>3, <1>4, <1>5, <1>6, <1>7

\* A table that is not written keeps its jobs.
LEMMA JobsKept ==
  ASSUME JobTypes, jobs' = jobs
  PROVE  /\ TableLen' = TableLen /\ \A i \in Nat : Slot(i)' = Slot(i) /\ J(i)' = J(i)
         /\ \E size \in TableSizes : jobs' \in [0 .. size - 1 -> JobType]
BY DEF TableLen, Slot, J, JobTypes

\* What Types says of the variables that are not functions.
LEMMA Scalars ==
  ASSUME Types
  PROVE  /\ JobTypes /\ doneJobID \in Nat /\ nextJobID \in Nat /\ fails \in Nat
         /\ jobReady \in BOOLEAN /\ frameEnded \in BOOLEAN /\ sumFlag \in BOOLEAN
         /\ frames \in Plans /\ frame \in 1 .. Len(frames) /\ Len(frames) \in Nat
         /\ inBuff \in [start : Int, filled : Nat, prefix : RangeType]
         /\ inBuff.start \in Int /\ inBuff.filled \in Nat /\ inBuff.prefix \in RangeType
         /\ inBuff.prefix.start \in Int /\ inBuff.prefix.size \in Nat
         /\ roundBuff \in [capacity : Nat, pos : Nat]
         /\ roundBuff.capacity \in Nat /\ roundBuff.pos \in Nat
         /\ mem \in [0 .. roundBuff.capacity - 1 -> Int]
         /\ inPos \in Nat /\ inPos <= FrameLen
         /\ FrameLen \in Nat /\ Section \in Nat \ {0} /\ Sync \subseteq Nat
         /\ frames[frame].workers \in 1 .. MaxThreads
         /\ ret \in {None, 0, 1, Error}
         /\ call \in CallType /\ call.end \in Nat /\ call.room \in Nat
         /\ serial \in SerialType /\ serial.nextJobID \in Nat
<1>1. /\ JobTypes /\ doneJobID \in Nat /\ nextJobID \in Nat /\ fails \in Nat
      /\ jobReady \in BOOLEAN /\ frameEnded \in BOOLEAN /\ sumFlag \in BOOLEAN
  BY DEF Types, JobTypes
<1>2. /\ frames \in Plans /\ frame \in 1 .. Len(frames)
      /\ inBuff \in [start : Int, filled : Nat, prefix : RangeType]
      /\ roundBuff \in [capacity : Nat, pos : Nat]
      /\ mem \in [0 .. roundBuff.capacity - 1 -> Int]
      /\ inPos \in 0 .. FrameLen
      /\ ret \in {None, 0, 1, Error} /\ call \in CallType /\ serial \in SerialType
  BY DEF Types, InputTypes
<1>3. frames \in Seq(FrameType) /\ Len(frames) \in Nat
  BY <1>2, PlansAssumption
<1>4. frames[frame] \in FrameType
  BY <1>2, <1>3
<1>5. /\ FrameLen \in Nat /\ Section \in Nat \ {0} /\ Sync \subseteq Nat
      /\ frames[frame].workers \in 1 .. MaxThreads
  BY <1>4 DEF FrameLen, Section, Sync, FrameType
<1>6. /\ inBuff.start \in Int /\ inBuff.filled \in Nat /\ inBuff.prefix \in RangeType
      /\ roundBuff.capacity \in Nat /\ roundBuff.pos \in Nat
  BY <1>2
<1>7. inBuff.prefix.start \in Int /\ inBuff.prefix.size \in Nat
  BY <1>6 DEF RangeType
<1>8. call.end \in Nat /\ call.room \in Nat /\ serial.nextJobID \in Nat
  BY <1>2 DEF CallType, SerialType
<1> QED
  BY <1>1, <1>2, <1>3, <1>5, <1>6, <1>7, <1>8

(* ------------------------------- the pool ------------------------------- *)
(* What the actions of module Pool do here, where no job waits in the queue *)
(* of one slot and the only client is the caller.                           *)

\* POOL_thread takes the job that was posted.
LEMMA Pops ==
  ASSUME PoolTypes, NEW t \in 1 .. MaxThreads, POOL!ThreadPops(t)
  PROVE  /\ thread[t] = "lock" /\ ~queueEmpty
         /\ queue[0] \in Nat /\ running' = [running EXCEPT ![t] = queue[0]]
         /\ thread' = [thread EXCEPT ![t] = "run"]
         /\ queueEmpty' = TRUE /\ queueHead' = 0
         /\ UNCHANGED <<queue, queueTail, threadCapacity, threadLimit, shutdown, client>>
<1>1. POOL!PushWaiters = {}
  BY DEF POOL!PushWaiters, PoolTypes
<1>2. client' = client
  BY <1>1 DEF POOL!ThreadPops, POOL!SignalPush
<1>3. queueHead = 0 /\ queueTail = 0 /\ POOL!queueSize = 1
  BY DEF PoolTypes, POOL!queueSize
<1>4. queueHead' = 0
  BY <1>3 DEF POOL!ThreadPops
<1> QED
  BY <1>2, <1>3, <1>4 DEF POOL!ThreadPops, PoolTypes, POOL!NothingToTake, POOL!sizeVars

\* POOL_thread is done with its job.
LEMMA Finishes ==
  ASSUME PoolTypes, NEW t \in 1 .. MaxThreads, POOL!ThreadFinishes(t)
  PROVE  /\ thread[t] = "run" /\ running' = [running EXCEPT ![t] = 0]
         /\ thread' = [thread EXCEPT ![t] = "lock"]
         /\ UNCHANGED <<queue, queueHead, queueTail, queueEmpty, threadCapacity,
                        threadLimit, shutdown, client>>
<1>1. POOL!PushWaiters = {}
  BY DEF POOL!PushWaiters, PoolTypes
<1>2. client' = client
  BY <1>1 DEF POOL!ThreadFinishes, POOL!SignalPush
<1> QED
  BY <1>2 DEF POOL!ThreadFinishes, POOL!sizeVars, POOL!queueVars, POOL!NoJob

\* POOL_thread goes to sleep or exits.
LEMMA ThreadSteps ==
  ASSUME PoolTypes, NEW t \in 1 .. MaxThreads,
         POOL!ThreadWaits(t) \/ POOL!ThreadExits(t)
  PROVE  /\ thread[t] = "lock"
         /\ \E s \in {"waiting", "exited"} : thread' = [thread EXCEPT ![t] = s]
         /\ UNCHANGED <<queue, queueHead, queueTail, queueEmpty, threadCapacity,
                        threadLimit, shutdown, running, client>>
BY DEF POOL!ThreadWaits, POOL!ThreadExits, POOL!sizeVars, POOL!queueVars,
       POOL!clientVars, PoolTypes

\* POOL_tryAdd puts a job in the queue when it is empty and wakes a thread.
LEMMA Posts ==
  ASSUME PoolTypes, NEW s \in Nat, POOL!TryAdd(s), ~shutdown
  PROVE  /\ queueEmpty /\ queueEmpty' = FALSE
         /\ queue' = [queue EXCEPT ![0] = s] /\ queueHead' = 0 /\ queueTail' = 0
         /\ \/ thread' = thread
            \/ \E t \in 1 .. MaxThreads : /\ thread[t] = "waiting"
                                          /\ thread' = [thread EXCEPT ![t] = "lock"]
         /\ UNCHANGED <<threadCapacity, threadLimit, shutdown, running>>
<1>1. queueHead = 0 /\ queueTail = 0 /\ POOL!queueSize = 1
  BY DEF PoolTypes, POOL!queueSize
<1>2. queueEmpty
  BY <1>1 DEF POOL!TryAdd, POOL!isQueueFull, PoolTypes
<1>3. /\ queueEmpty' = FALSE /\ queue' = [queue EXCEPT ![0] = s]
      /\ queueTail' = (0 + 1) % 1 /\ queueHead' = 0 /\ POOL!SignalPop
  BY <1>1 DEF POOL!TryAdd, POOL!Enqueue
<1>4. \/ thread' = thread
      \/ \E t \in 1 .. MaxThreads : /\ thread[t] = "waiting"
                                    /\ thread' = [thread EXCEPT ![t] = "lock"]
  BY <1>3 DEF POOL!SignalPop, POOL!PopWaiters, POOL!Threads
<1>5. UNCHANGED <<threadCapacity, threadLimit, shutdown, running>>
  BY DEF POOL!TryAdd, POOL!sizeVars
<1>6. queueTail' = 0
  BY <1>3
<1> QED
  BY <1>2, <1>3, <1>4, <1>5, <1>6

\* POOL_resize_internal changes no thread that runs.
LEMMA Resizes ==
  ASSUME PoolTypes, NEW n \in 1 .. MaxThreads, POOL!Resize(n, n)
  PROVE  /\ threadCapacity' \in 1 .. MaxThreads /\ threadCapacity <= threadCapacity'
         /\ thread' \in [1 .. MaxThreads -> ThreadStates]
         /\ \A t \in 1 .. MaxThreads : thread'[t] = "run" <=>
              thread[t] = "run" /\ t \notin threadCapacity + 1 .. threadCapacity'
         /\ \A t \in 1 .. MaxThreads : thread'[t] # "none" =>
              thread[t] # "none" \/ t \in threadCapacity + 1 .. threadCapacity'
         /\ UNCHANGED <<queue, queueHead, queueTail, queueEmpty, shutdown, running>>
<1> USE SizesAssumption
<1>1. threadCapacity' = IF n <= threadCapacity THEN threadCapacity ELSE n
  BY DEF POOL!Resize
<1>2. thread' = [t \in 1 .. MaxThreads |->
                   IF t \in threadCapacity + 1 .. threadCapacity' THEN "lock"
                   ELSE IF thread[t] = "waiting" THEN "lock" ELSE thread[t]]
  BY DEF POOL!Resize, POOL!Awake, POOL!Threads
<1>3. UNCHANGED <<queue, queueHead, queueTail, queueEmpty, shutdown, running>>
  BY DEF POOL!Resize, POOL!queueVars
<1> QED
  BY <1>1, <1>2, <1>3 DEF PoolTypes, ThreadStates

-----------------------------------------------------------------------------
(* ------------------------- steps of the workers ------------------------- *)
\* A worker leaves the state of the caller alone.
CallerKept ==
  UNCHANGED <<inBuff, roundBuff, mem, inPos, doneJobID, nextJobID, jobReady, frameEnded,
              allJobsCompleted, sumFlag, nbWorkers, frames, frame, delivered, ret, call>>

\* What a worker may do to its job: produce output and consume input.
Grows(j, r) ==
  /\ r.src = j.src /\ r.prefix = j.prefix /\ r.at = j.at /\ r.jobID = j.jobID
  /\ r.last = j.last /\ r.sum = j.sum /\ r.flushed = j.flushed
  /\ j.consumed <= r.consumed

\* The jobs whose places have not been given to others.
Held == {i \in Nat : nextJobID - TableLen <= i /\ i <= LastID}

\* Terms that depend on the caller's state only.
LEMMA KeptTerms ==
  ASSUME CallerKept
  PROVE  /\ LastID' = LastID /\ Ids' = Ids /\ Cut' = Cut /\ InFrame' = InFrame
         /\ Section' = Section /\ FrameLen' = FrameLen /\ Sync' = Sync /\ Units' = Units
         /\ Room' = Room /\ \A k : Unit(k)' = Unit(k) /\ Posted(k)' = Posted(k)
BY DEF CallerKept, LastID, Ids, Ready, Cut, InFrame, Section, FrameLen, Sync, Units,
       Room, Unit, Posted

\* The jobs of the frame that are not flushed have a place each.
LEMMA IdsHeld ==
  ASSUME JobTypes, ControlInv
  PROVE  /\ TableLen \in Nat /\ LastID \in Int /\ Ids \subseteq Held /\ Held \subseteq Nat
         /\ LastID \in {nextJobID, nextJobID - 1}
         /\ \A i \in Ids : i < LastID => i + 1 \in Ids
         /\ \A i \in Nat : Posted(i) => i \in Ids
<1>1. TableLen \in Nat
  BY TableShape
<1>2. doneJobID \in Nat /\ nextJobID \in Nat /\ LastID \in {nextJobID, nextJobID - 1}
  BY DEF JobTypes, LastID
<1>3. LastID < doneJobID + TableLen
  BY DEF ControlInv, TableLen
<1> QED
  BY <1>1, <1>2, <1>3 DEF Ids, Held, Posted

\* Before the first error every turn of the serial state has been taken in order.
LEMMA UnbrokenInv ==
  ASSUME JobsInv, SerialInv, fails = 0, InFrame, ~(frameEnded /\ doneJobID > LastID)
  PROVE  /\ ~Broken
         /\ doneJobID <= serial.nextJobID /\ serial.nextJobID <= nextJobID
         /\ Checksum => serial.hashed = CutAt(serial.nextJobID)
<1>1. ~Broken
  BY DEF Broken, JobsInv
<1> QED
  BY <1>1 DEF SerialInv

\* The round buffer, the cuts and the output that was delivered only depend on
\* what a worker leaves alone.
LEMMA SteadyRing ==
  ASSUME JobTypes, CallerKept, RingInv,
         \A i \in Ids : /\ J(i)' = J(i) \/ Grows(J(i), J(i)')
                        /\ Active(J(i))' => Active(J(i))
  PROVE  RingInv'
<1>1. /\ LastID' = LastID /\ Ids' = Ids /\ Cut' = Cut /\ InFrame' = InFrame
      /\ Section' = Section /\ Room' = Room
  BY KeptTerms
<1>2. \A i \in Ids : /\ J(i)'.src = J(i).src /\ J(i)'.prefix = J(i).prefix
                     /\ J(i)'.at = J(i).at /\ (Active(J(i))' => Active(J(i)))
  BY DEF Grows
<1>3. \A i \in Ids : Lo(J(i))' = Lo(J(i)) /\ Hi(J(i))' = Hi(J(i))
  BY <1>2 DEF Lo, Hi
<1>4. roundBuff' = roundBuff /\ mem' = mem /\ inBuff' = inBuff /\ call' = call
      /\ nextJobID' = nextJobID
  BY DEF CallerKept
<1>5. \A i \in Ids : Placed(J(i)) => Placed(J(i))'
  BY <1>1, <1>2, <1>3, <1>4 DEF Placed
<1>6. \A i \in Ids : /\ ThisLap(J(i))' = ThisLap(J(i))
                     /\ LastLap(J(i))' = LastLap(J(i))
  BY <1>1, <1>3, <1>4 DEF ThisLap, LastLap
<1>7. LapsInv => LapsInv'
  BY <1>1, <1>2, <1>3, <1>4, <1>6 DEF LapsInv
<1>8. FirstLap => FirstLap'
  BY <1>1, <1>2, <1>4, <1>6 DEF FirstLap
<1>9. InBuffInv => InBuffInv'
  BY <1>1, <1>4, <1>8 DEF InBuffInv
<1>10. RangeInv => RangeInv'
  BY <1>1, <1>2, <1>3, <1>4, <1>6 DEF RangeInv
<1> QED
  BY <1>1, <1>2, <1>5, <1>7, <1>9, <1>10 DEF RingInv

\* Jobs stay cut where they are cut.
LEMMA SteadyCuts ==
  ASSUME JobTypes, ControlInv, CallerKept, CutsInv, TableLen' = TableLen,
         \A i \in Held : J(i)' = J(i) \/ (Active(J(i)) /\ Grows(J(i), J(i)'))
  PROVE  CutsInv'
<1>1. /\ LastID' = LastID /\ Cut' = Cut /\ InFrame' = InFrame /\ Section' = Section
      /\ Sync' = Sync
  BY KeptTerms
<1>2. /\ inBuff' = inBuff /\ call' = call /\ nextJobID' = nextJobID /\ frames' = frames
      /\ frame' = frame /\ inPos' = inPos
  BY DEF CallerKept
<1>3. \A i \in Held : (J(i) = NullJob \/ CutWell(J(i))) => (J(i)' = NullJob \/ CutWell(J(i))')
  <2> SUFFICES ASSUME NEW i \in Held, J(i) = NullJob \/ CutWell(J(i)), J(i)' # J(i)
               PROVE  CutWell(J(i))'
    BY <1>1 DEF CutWell
  <2>1. Active(J(i)) /\ Grows(J(i), J(i)')
    OBVIOUS
  <2>2. J(i) # NullJob
    BY <2>1 DEF Active, NullJob, NullRange
  <2> QED
    BY <2>1, <2>2, <1>1 DEF CutWell, Grows
<1>4. \A i \in Larger(0, nextJobID - Cardinality(DOMAIN jobs)) .. LastID : i \in Held
  <2>1. nextJobID \in Nat /\ TableLen \in Nat /\ LastID \in Int
    BY IdsHeld DEF JobTypes
  <2> QED
    BY <2>1 DEF Larger, Held, TableLen
<1> QED
  BY <1>1, <1>2, <1>3, <1>4 DEF CutsInv, TableLen

\* What a worker does delivers nothing.
LEMMA SteadyDelivery ==
  ASSUME JobTypes, ControlInv, CallerKept, DeliveryInv,
         \A i \in Ids : J(i)' = J(i) \/ Grows(J(i), J(i)')
  PROVE  DeliveryInv'
<1>1. /\ LastID' = LastID /\ Cut' = Cut /\ InFrame' = InFrame /\ Units' = Units
      /\ \A k : Unit(k)' = Unit(k)
  BY KeptTerms
<1>2. /\ delivered' = delivered /\ doneJobID' = doneJobID /\ nextJobID' = nextJobID
      /\ frameEnded' = frameEnded
  BY DEF CallerKept
<1>3. doneJobID <= LastID => /\ J(doneJobID)'.at = J(doneJobID).at
                             /\ J(doneJobID)'.jobID = J(doneJobID).jobID
                             /\ J(doneJobID)'.flushed = J(doneJobID).flushed
  <2>1. doneJobID <= LastID => doneJobID \in Ids
    BY IdsHeld DEF Ids, JobTypes
  <2> QED
    BY <2>1, <1>2 DEF Grows
<1>4. Flushed' = Flushed
  BY <1>1, <1>2, <1>3 DEF Flushed, Begin
<1>5. Ids' = Ids /\ \A i \in Ids : J(i)'.flushed = J(i).flushed
  BY KeptTerms DEF Grows
<1>6. \A i \in Ids' : doneJobID' < i => J(i)'.flushed = 0
  BY <1>2, <1>5 DEF DeliveryInv
<1> QED
  BY <1>1, <1>2, <1>4, <1>6 DEF DeliveryInv

\* The windows stay as long as neither they nor the input change.
LEMMA SteadyWindow ==
  ASSUME Types, ControlInv, JobsInv, SerialInv, CallerKept, WindowInv,
         serial' = serial, fails' = fails,
         \A i \in Ids : J(i)' = J(i) \/ Grows(J(i), J(i)')
  PROVE  WindowInv'
<1>1. /\ LastID' = LastID /\ Cut' = Cut /\ InFrame' = InFrame /\ Section' = Section
  BY KeptTerms
<1>2. /\ doneJobID' = doneJobID /\ frameEnded' = frameEnded /\ roundBuff' = roundBuff
      /\ mem' = mem /\ inBuff' = inBuff
  BY DEF CallerKept
<1>3. InFrame /\ fails = 0 /\ ~(frameEnded /\ doneJobID > LastID) =>
        CutAt(serial.nextJobID)' = CutAt(serial.nextJobID)
  <2> SUFFICES ASSUME InFrame, fails = 0, ~(frameEnded /\ doneJobID > LastID)
               PROVE  CutAt(serial.nextJobID)' = CutAt(serial.nextJobID)
    OBVIOUS
  <2>1. doneJobID <= serial.nextJobID /\ serial.nextJobID \in Nat /\ LastID \in Int
        /\ doneJobID \in Nat
    BY UnbrokenInv, IdsHeld DEF Types, InputTypes, JobTypes, SerialType
  <2>2. ASSUME serial.nextJobID <= LastID
        PROVE  J(serial.nextJobID)'.at = J(serial.nextJobID).at
    <3>1. serial.nextJobID \in Ids
      BY <2>1, <2>2 DEF Ids
    <3> QED
      BY <3>1 DEF Grows
  <2> QED
    BY <2>2, <1>1 DEF CutAt
<1> QED
  BY <1>1, <1>2, <1>3 DEF WindowInv


\* Everything but the pool, the jobs and the serial state keeps its type.
LEMMA WorkerTypes ==
  ASSUME Types, CallerKept, fails' \in Nat, serial' \in SerialType,
         \E size \in TableSizes : jobs' \in [0 .. size - 1 -> JobType],
         UNCHANGED <<queue, queueHead, queueTail, shutdown, threadCapacity, client>>,
         queueEmpty' \in BOOLEAN, thread' \in [1 .. MaxThreads -> ThreadStates],
         running' \in [1 .. MaxThreads -> Nat], job' \in [1 .. MaxThreads -> Places]
  PROVE  Types'
<1>1. PoolTypes'
  BY DEF Types, PoolTypes
<1>2. JobTypes'
  BY DEF Types, JobTypes, CallerKept
<1>3. InputTypes'
  BY KeptTerms DEF Types, InputTypes, CallerKept
<1> QED
  BY <1>1, <1>2, <1>3 DEF Types

\* What may fail does so in the last frame.
LEMMA FailsLast ==
  ASSUME CleanPlans, Types, MayFail
  PROVE  frame = Len(frames) /\ fails + 1 \in Nat
<1>1. frames \in Plans /\ frame \in 1 .. Len(frames) /\ fails \in Nat
  BY DEF Types, InputTypes, JobTypes
<1>2. Len(frames) \in Nat
  BY <1>1, PlansAssumption
<1>3. frame < Len(frames) => frames[frame].fails = 0
  BY <1>1 DEF CleanPlans
<1> QED
  BY <1>1, <1>2, <1>3 DEF MayFail

\* A worker that fails does so in the last frame of the plan.
LEMMA SteadyControl ==
  ASSUME Types, CallerKept, TableLen' = TableLen, ControlInv, CallInv,
         client' = client, shutdown' = shutdown,
         \/ fails' = fails
         \/ fails' = fails + 1 /\ frame = Len(frames) /\ doneJobID < nextJobID
  PROVE  ControlInv' /\ CallInv'
<1>1. /\ LastID' = LastID /\ Cut' = Cut /\ InFrame' = InFrame /\ FrameLen' = FrameLen
  BY KeptTerms
<1>2. fails \in Nat /\ doneJobID \in Nat /\ nextJobID \in Nat
  BY DEF Types, JobTypes
<1>3. ControlInv'
  BY <1>1, <1>2 DEF ControlInv, CallerKept, TableLen
<1>4. CallInv'
  BY <1>1 DEF CallInv, CallerKept
<1> QED
  BY <1>3, <1>4

\* The job of a thread that is busy.
LEMMA MyJobIs ==
  ASSUME Types, ControlInv, WorkerInv, JobsInv, NEW t \in 1 .. MaxThreads, Busy(t)
  PROVE  \E b \in Ids :
           /\ b \in Nat /\ Posted(b) /\ doneJobID <= b /\ b < nextJobID
           /\ Mine(t) = Slot(b) /\ Mine(t) \in DOMAIN jobs
           /\ MyJob(t) = J(b) /\ J(b).jobID = b /\ J(b) \in JobType
           /\ Active(J(b)) /\ Stage(job[t], J(b))
<1> DEFINE b == MyJob(t).jobID
<1>1. Owned(Mine(t)) /\ Stage(job[t], MyJob(t))
  BY DEF WorkerInv
<1>2. Posted(b) /\ Mine(t) = Slot(b) /\ Active(MyJob(t))
  BY <1>1 DEF Owned, MyJob
<1>3. MyJob(t) = J(b)
  BY <1>2 DEF MyJob, J
<1>4. doneJobID \in Nat /\ nextJobID \in Nat /\ JobTypes
  BY DEF Types, JobTypes
<1>5. b \in Nat
  <2>1. Mine(t) \in DOMAIN jobs
    BY <1>1 DEF Owned
  <2> QED
    BY <2>1, <1>4, TableShape DEF MyJob, JobType
<1>6. b \in Ids
  BY <1>2, <1>4, <1>5, IdsHeld
<1>7. Slot(b) \in DOMAIN jobs /\ J(b) \in JobType
  BY <1>4, <1>5, TableShape
<1> QED
  BY <1>1, <1>2, <1>3, <1>5, <1>6, <1>7 DEF Posted


\* A worker writes its job: the other jobs of the window stay.
LEMMA MyJobWritten ==
  ASSUME Types, ControlInv, CallerKept, NEW b \in Ids, Posted(b), Active(J(b)),
         NEW r \in JobType, Grows(J(b), r), jobs' = [jobs EXCEPT ![Slot(b)] = r]
  PROVE  /\ TableLen' = TableLen /\ \A i \in Nat : Slot(i)' = Slot(i)
         /\ \E size \in TableSizes : jobs' \in [0 .. size - 1 -> JobType]
         /\ J(b)' = r /\ \A i \in Held : i # b => J(i)' = J(i)
         /\ \A i \in Held : J(i)' = J(i) \/ (Active(J(i)) /\ Grows(J(i), J(i)'))
         /\ \A i \in Ids : J(i)' = J(i) \/ Grows(J(i), J(i)')
         /\ \A i \in Ids : Active(J(i))' => Active(J(i))
         /\ \A s \in DOMAIN jobs : jobs'[s].jobID = jobs[s].jobID
<1> USE DEF Types
<1>1. /\ Ids \subseteq Held /\ Held \subseteq Nat /\ b \in Nat
      /\ LastID \in {nextJobID, nextJobID - 1} /\ TableLen \in Nat \ {0}
  BY IdsHeld, TableShape
<1>2. /\ TableLen' = TableLen
      /\ \E size \in TableSizes : jobs' \in [0 .. size - 1 -> JobType]
      /\ \A i \in Nat : Slot(i)' = Slot(i)
      /\ J(b)' = r
      /\ \A i \in Nat : i < b + TableLen /\ b < i + TableLen /\ i # b => J(i)' = J(i)
  BY <1>1, JobWritten
<1>3. ASSUME NEW i \in Held, i # b
      PROVE  J(i)' = J(i)
  <2>1. /\ i \in Nat /\ nextJobID - TableLen <= i /\ i <= LastID
        /\ doneJobID <= b /\ b < nextJobID /\ LastID < doneJobID + TableLen
        /\ doneJobID \in Nat /\ nextJobID \in Nat
    BY <1>3 DEF Held, Posted, ControlInv, TableLen, JobTypes
  <2> QED
    BY <1>1, <1>2, <1>3, <2>1
<1>4. \A s \in DOMAIN jobs : jobs'[s].jobID = jobs[s].jobID
  BY DEF J, Grows
<1>5. \A i \in Held : J(i)' = J(i) \/ (Active(J(i)) /\ Grows(J(i), J(i)'))
  BY <1>2, <1>3
<1>6. \A i \in Ids : Active(J(i))' => Active(J(i))
  <2> SUFFICES ASSUME NEW i \in Ids PROVE Active(J(i))' => Active(J(i))
    OBVIOUS
  <2>1. CASE i = b
    BY <2>1
  <2>2. CASE i # b
    BY <2>2, <1>1, <1>3 DEF Active
  <2> QED
    BY <2>1, <2>2
<1> QED
  BY <1>1, <1>2, <1>3, <1>4, <1>5, <1>6

\* What the workers know of their jobs and of the queue survives it.
LEMMA WorkerWrote ==
  ASSUME Types, ControlInv, JobsInv, WorkerInv, CallerKept,
         NEW t \in 1 .. MaxThreads, Busy(t), NEW b \in Ids, MyJob(t) = J(b),
         Mine(t) = Slot(b), Posted(b), Active(J(b)),
         NEW r \in JobType, Grows(J(b), r), jobs' = [jobs EXCEPT ![Slot(b)] = r],
         NEW pc \in Places \ {"none"}, job' = [job EXCEPT ![t] = pc],
         UNCHANGED <<thread, running, queue, queueEmpty, threadCapacity>>,
         pc # "return" => Active(r) /\ Stage(pc, r)',
         serial.nextJobID <= serial'.nextJobID, serial' \in SerialType
  PROVE  WorkerInv'
<1>1. /\ \A i \in Nat : Slot(i)' = Slot(i)
      /\ \A s \in DOMAIN jobs : jobs'[s].jobID = jobs[s].jobID
      /\ TableLen' = TableLen
  BY MyJobWritten
<1>2. /\ DOMAIN jobs' = DOMAIN jobs /\ jobs'[Slot(b)] = r
      /\ \A s \in DOMAIN jobs : s # Slot(b) => jobs'[s] = jobs[s]
  <2>1. b \in Nat
    BY IdsHeld DEF Types
  <2> QED
    BY <2>1, TableShape DEF Types
<1>3. \A s : Mine(s)' = Mine(s)
  BY DEF Mine
<1>4. \A id : Posted(id)' = Posted(id)
  BY KeptTerms
<1>5. job \in [1 .. MaxThreads -> Places] /\ serial \in SerialType
  BY DEF Types, PoolTypes, InputTypes
<1>6. ASSUME NEW s \in DOMAIN jobs, Owned(s), s # Slot(b) \/ Active(r)
      PROVE  Owned(s)'
  <2>1. Slot(jobs[s].jobID)' = Slot(jobs[s].jobID)
    BY <1>1, <1>2, TableShape DEF Types, JobType, Slot, TableLen
  <2>2. Active(jobs[s])'
    BY <1>2, <1>6 DEF Owned, Active
  <2> QED
    BY <1>1, <1>2, <1>4, <1>6, <2>1, <2>2 DEF Owned
<1>7. ASSUME NEW u \in 1 .. MaxThreads, Busy(u)'
      PROVE  running'[u] > 0 /\ Owned(Mine(u))' /\ Stage(job[u], MyJob(u))'
  <2>1. Busy(u) /\ running[u] > 0 /\ Owned(Mine(u)) /\ Stage(job[u], MyJob(u))
    BY <1>5, <1>7 DEF Busy, WorkerInv
  <2>2. Mine(u) \in DOMAIN jobs
    BY <2>1 DEF Owned
  <2>3. CASE u = t
    <3>1. job'[u] = pc /\ pc # "return"
      BY <1>5, <1>7, <2>3 DEF Busy
    <3>2. MyJob(u)' = r
      BY <1>2, <1>3, <2>3 DEF MyJob
    <3> QED
      BY <1>3, <1>6, <2>1, <2>2, <2>3, <3>1, <3>2
  <2>4. CASE u # t
    <3>1. running[u] # running[t] /\ running[u] \in Nat /\ running[t] \in Nat
      BY <2>1, <2>4 DEF WorkerInv, Types, PoolTypes
    <3>2. Mine(u) # Slot(b)
      BY <3>1 DEF Mine
    <3>3. MyJob(u)' = MyJob(u)
      BY <1>2, <1>3, <2>2, <3>2 DEF MyJob
    <3>4. job'[u] = job[u]
      BY <1>5, <2>4
    <3>5. Stage(job[u], MyJob(u))'
      <4>1. MyJob(u).jobID \in Nat
        BY <2>2, TableShape DEF Types, JobType, MyJob
      <4> QED
        BY <1>5, <2>1, <3>3, <3>4, <4>1 DEF Stage, Pristine, SerialType
    <3> QED
      BY <1>3, <1>6, <2>1, <2>2, <3>2, <3>5
  <2> QED
    BY <2>3, <2>4
<1>8. ASSUME ~queueEmpty'
      PROVE  /\ queue'[0] > 0 /\ Owned(queue[0] - 1)' /\ Pristine(jobs[queue[0] - 1])'
             /\ \A u \in 1 .. MaxThreads : Busy(u)' => running'[u] # queue'[0]
  <2>1. /\ queue[0] > 0 /\ Owned(queue[0] - 1) /\ Pristine(jobs[queue[0] - 1])
        /\ \A u \in 1 .. MaxThreads : Busy(u) => running[u] # queue[0]
    BY <1>8 DEF WorkerInv
  <2>2. queue[0] - 1 \in DOMAIN jobs
    BY <2>1 DEF Owned
  <2>3. queue[0] - 1 # Slot(b)
    BY <2>1 DEF Mine, Types, PoolTypes
  <2>4. \A u \in 1 .. MaxThreads : Busy(u)' => Busy(u)
    BY <1>5 DEF Busy
  <2>5. jobs'[queue[0] - 1] = jobs[queue[0] - 1]
    BY <1>2, <2>2, <2>3
  <2>6. Pristine(jobs[queue[0] - 1])'
    BY <2>1, <2>5 DEF Pristine
  <2> QED
    BY <1>6, <2>1, <2>2, <2>3, <2>4, <2>6
<1>9. \A u \in 1 .. MaxThreads : /\ thread'[u] = "run" <=> job'[u] # "none"
                                 /\ thread'[u] # "none" => u <= threadCapacity'
  BY <1>5 DEF WorkerInv, Busy
<1>10. \A u, v \in 1 .. MaxThreads :
         Busy(u)' /\ Busy(v)' /\ u # v => running'[u] # running'[v]
  BY <1>5 DEF WorkerInv, Busy
<1> QED
  BY <1>7, <1>8, <1>9, <1>10 DEF WorkerInv


\* The jobs still divide the input and hold their part of the output.
LEMMA JobsWrote ==
  ASSUME Types, ControlInv, JobsInv, CallerKept, NEW b \in Ids, Posted(b), Active(J(b)),
         NEW r \in JobType, Grows(J(b), r), jobs' = [jobs EXCEPT ![Slot(b)] = r],
         r.consumed <= r.src.size,
         Active(r) /\ r.last /\ Checksum /\ b > 0 => r.sum,
         r.cSize # Error => OutputInv(r), r.cSize = Error => fails' > 0,
         fails' \in Nat, fails <= fails'
  PROVE  JobsInv'
<1>1. /\ J(b)' = r /\ \A i \in Held : i # b => J(i)' = J(i)
      /\ \A i \in Ids : J(i)' = J(i) \/ Grows(J(i), J(i)')
  BY MyJobWritten
<1>2. /\ LastID' = LastID /\ Ids' = Ids /\ Cut' = Cut /\ FrameLen' = FrameLen
      /\ \A k : Unit(k)' = Unit(k)
  BY KeptTerms
<1>3. Ids \subseteq Held /\ \A i \in Ids : i # LastID => i + 1 \in Ids
  <2>1. Ids \subseteq Nat /\ LastID \in Int /\ \A i \in Ids : i <= LastID
    BY IdsHeld DEF Types, Ids, JobTypes
  <2> QED
    BY <2>1, IdsHeld DEF Types
<1>4. \A i \in Ids : J(i)'.at = J(i).at /\ J(i)'.src = J(i).src
  BY <1>1 DEF Grows
<1>5. \A i \in Ids : i # LastID => J(i + 1)'.at = J(i + 1).at
  BY <1>3, <1>4
<1>6. \A j : OutputInv(j)' <=> OutputInv(j)
  BY <1>2 DEF OutputInv
<1>7. frameEnded' = frameEnded /\ nextJobID' = nextJobID
  BY DEF CallerKept
<1> SUFFICES ASSUME NEW i \in Ids
             PROVE  /\ J(i)'.jobID = i /\ J(i)'.consumed <= J(i)'.src.size
                    /\ i = 0 => J(i)'.at = 0
                    /\ J(i)'.at + J(i)'.src.size <= Cut
                    /\ J(i)'.at + J(i)'.src.size = IF i = LastID THEN Cut ELSE J(i + 1)'.at
                    /\ J(i)'.last <=> i = LastID /\ frameEnded
                    /\ J(i)'.last => J(i)'.at + J(i)'.src.size = FrameLen
                    /\ J(i)'.src.size = 0 => i > 0 /\ J(i)'.last
                    /\ J(i)'.sum => J(i)'.last /\ Checksum /\ i > 0
                    /\ Active(J(i)') /\ J(i)'.last /\ Checksum /\ i > 0 => J(i)'.sum
                    /\ J(i)'.cSize # Error => OutputInv(J(i)')
                    /\ J(i)'.cSize = Error => fails' > 0
                    /\ i = nextJobID =>
                         Active(J(i)') /\ Pristine(J(i)') /\ J(i)'.flushed = 0
  BY <1>2, <1>6, <1>7 DEF JobsInv
<1>8. CASE i # b
  <2>1. J(i)' = J(i)
    BY <1>1, <1>3, <1>8
  <2>2. fails > 0 => fails' > 0
    BY DEF Types, JobTypes
  <2> QED
    BY <1>5, <2>1, <2>2 DEF JobsInv
<1>9. CASE i = b
  <2>1. i # nextJobID
    BY <1>9 DEF Posted, Types, JobTypes
  <2> QED
    BY <1>1, <1>5, <1>9, <2>1 DEF JobsInv, Grows
<1> QED
  BY <1>8, <1>9

\* The turns of the serial state are not disturbed by who has had his.
LEMMA SerialWrote ==
  ASSUME Types, ControlInv, JobsInv, WorkerInv, SerialInv, CallerKept,
         NEW t \in 1 .. MaxThreads, NEW b \in Ids, Posted(b), Active(J(b)),
         NEW r \in JobType, Grows(J(b), r), jobs' = [jobs EXCEPT ![Slot(b)] = r],
         NEW pc \in Places \ {"resources"}, job' = [job EXCEPT ![t] = pc],
         pc = "serial" => job[t] = "resources",
         UNCHANGED <<thread, running, queue, queueEmpty, serial>>,
         J(b).cSize = Error => r.cSize = Error,
         r.src.size > 0 /\ ~Active(r) /\ r.cSize # Error => b < serial.nextJobID
  PROVE  SerialInv'
<1>1. /\ J(b)' = r /\ \A i \in Held : i # b => J(i)' = J(i)
      /\ \A i \in Ids : J(i)' = J(i) \/ Grows(J(i), J(i)')
      /\ \A s \in DOMAIN jobs : jobs'[s].jobID = jobs[s].jobID
  BY MyJobWritten
<1>2. /\ LastID' = LastID /\ Ids' = Ids /\ Cut' = Cut /\ InFrame' = InFrame
  BY KeptTerms
<1>3. /\ frameEnded' = frameEnded /\ doneJobID' = doneJobID /\ nextJobID' = nextJobID
  BY DEF CallerKept
<1>4. Ids \subseteq Held /\ Held \subseteq Nat /\ LastID \in Int /\ doneJobID \in Nat
  BY IdsHeld DEF Types, JobTypes
<1>5. \A i \in Ids : (J(i).cSize = Error => J(i)'.cSize = Error)
  BY <1>1, <1>4
<1>6. Broken => Broken'
  BY <1>2, <1>5 DEF Broken
<1>7. \A i \in Ids : J(i)'.src.size > 0 /\ ~Active(J(i)') /\ J(i)'.cSize # Error =>
        i < serial.nextJobID
  <2> SUFFICES ASSUME NEW i \in Ids, J(i)'.src.size > 0, ~Active(J(i)'), J(i)'.cSize # Error
               PROVE  i < serial.nextJobID
    OBVIOUS
  <2> QED
    BY <1>1, <1>4 DEF SerialInv
<1>8. doneJobID <= serial.nextJobID => CutAt(serial.nextJobID)' = CutAt(serial.nextJobID)
  <2>1. serial.nextJobID \in Nat
    BY DEF Types, InputTypes, SerialType
  <2>2. doneJobID <= serial.nextJobID /\ serial.nextJobID <= LastID =>
          serial.nextJobID \in Ids
    BY <2>1, <1>4 DEF Ids
  <2>3. doneJobID <= serial.nextJobID /\ serial.nextJobID <= LastID =>
          J(serial.nextJobID)'.at = J(serial.nextJobID).at
    BY <2>2, <1>1 DEF Grows
  <2> QED
    BY <2>3, <1>2 DEF CutAt
<1>9. ASSUME NEW u \in 1 .. MaxThreads, thread'[u] = "run", job'[u] \in {"resources", "serial"}
      PROVE  /\ thread[u] = "run" /\ job[u] \in {"resources", "serial"}
             /\ MyJob(u)'.jobID = MyJob(u).jobID
  <2>1. thread[u] = "run" /\ job[u] \in {"resources", "serial"}
    BY <1>9 DEF Types, PoolTypes
  <2>2. Mine(u) \in DOMAIN jobs
    BY <2>1 DEF WorkerInv, Owned, Busy
  <2> QED
    BY <1>1, <2>1, <2>2 DEF MyJob, Mine
<1>10. ~queueEmpty' => jobs'[queue'[0] - 1].jobID = jobs[queue[0] - 1].jobID
  BY <1>1 DEF WorkerInv, Owned
<1> QED
  BY <1>2, <1>3, <1>6, <1>7, <1>8, <1>9, <1>10 DEF SerialInv


\* A worker produces, consumes or fails: all of the invariant survives it.
LEMMA WorkerJobStep ==
  ASSUME MTInv, CallerKept,
         NEW t \in 1 .. MaxThreads, Busy(t), NEW b \in Ids, Posted(b), Active(J(b)),
         MyJob(t) = J(b), Mine(t) = Slot(b),
         NEW r \in JobType, Grows(J(b), r), jobs' = [jobs EXCEPT ![Slot(b)] = r],
         r.consumed <= r.src.size,
         Active(r) /\ r.last /\ Checksum /\ b > 0 => r.sum,
         NEW pc \in Places \ {"none", "resources"}, job' = [job EXCEPT ![t] = pc],
         pc = "serial" => job[t] = "resources",
         UNCHANGED <<thread, running, queue, queueHead, queueTail, queueEmpty,
                     threadCapacity, shutdown, client, serial>>,
         fails' = fails \/ (fails' = fails + 1 /\ frame = Len(frames)),
         r.cSize # Error => OutputInv(r), r.cSize = Error => fails' > 0,
         J(b).cSize = Error => r.cSize = Error,
         pc # "return" => Active(r) /\ Stage(pc, r),
         ~Active(r) /\ r.cSize # Error => b < serial.nextJobID
  PROVE  MTInv'
<1>1. /\ Types /\ ControlInv /\ CallInv /\ WorkerInv /\ JobsInv /\ DeliveryInv
      /\ SerialInv /\ RingInv /\ WindowInv /\ CutsInv /\ JobTypes
  BY DEF MTInv, Types
<1>2. /\ TableLen' = TableLen
      /\ \E size \in TableSizes : jobs' \in [0 .. size - 1 -> JobType]
      /\ \A i \in Held : J(i)' = J(i) \/ (Active(J(i)) /\ Grows(J(i), J(i)'))
      /\ \A i \in Ids : J(i)' = J(i) \/ Grows(J(i), J(i)')
      /\ \A i \in Ids : Active(J(i))' => Active(J(i))
  BY <1>1, MyJobWritten
<1>3. /\ fails \in Nat /\ fails' \in Nat /\ fails <= fails' /\ doneJobID < nextJobID
      /\ (fails' = fails \/ fails' > 0) /\ serial \in SerialType /\ serial' \in SerialType
      /\ serial.nextJobID <= serial'.nextJobID
  <2>1. /\ fails \in Nat /\ serial \in SerialType /\ serial.nextJobID \in Nat
        /\ doneJobID \in Nat /\ nextJobID \in Nat /\ b \in Nat
    BY <1>1, Scalars, IdsHeld
  <2> QED
    BY <2>1 DEF Posted
<1>4. Types'
  <2>1. /\ job' \in [1 .. MaxThreads -> Places] /\ thread' \in [1 .. MaxThreads -> ThreadStates]
        /\ running' \in [1 .. MaxThreads -> Nat] /\ queueEmpty' \in BOOLEAN
    BY <1>1 DEF Types, PoolTypes
  <2> QED
    BY <1>1, <1>2, <1>3, <2>1, WorkerTypes
<1>5. ControlInv' /\ CallInv'
  BY <1>1, <1>2, <1>3, SteadyControl
<1>6. WorkerInv'
  <2>1. pc # "return" => Active(r) /\ Stage(pc, r)'
    BY DEF Stage
  <2> QED
    BY <1>1, <1>3, <2>1, WorkerWrote
<1>7. JobsInv'
  BY <1>1, <1>3, JobsWrote
<1>8. SerialInv'
  BY <1>1, SerialWrote
<1>9. RingInv'
  BY <1>1, <1>2, SteadyRing
<1>10. CutsInv'
  BY <1>1, <1>2, SteadyCuts
<1>11. DeliveryInv'
  BY <1>1, <1>2, SteadyDelivery
<1>12. WindowInv'
  <2>1. CASE fails' = fails
    BY <1>1, <1>2, <2>1, SteadyWindow
  <2>2. CASE fails' > 0
    BY <2>2 DEF WindowInv
  <2> QED
    BY <1>3, <2>1, <2>2
<1>13. StaleInv'
  <2>1. /\ DOMAIN jobs' = DOMAIN jobs /\ Ids' = Ids /\ call' = call
        /\ \A s \in DOMAIN jobs : s # Slot(b) => jobs'[s] = jobs[s]
    BY KeptTerms DEF CallerKept
  <2>2. \A i : Slot(i)' = Slot(i)
    BY <2>1 DEF Slot
  <2>3. StaleInv
    BY DEF MTInv
  <2> QED
    BY <2>1, <2>2, <2>3 DEF StaleInv, Stale
<1> QED
  BY <1>4, <1>5, <1>6, <1>7, <1>8, <1>9, <1>10, <1>11, <1>12, <1>13 DEF MTInv

\* What the steps of a worker share.
LEMMA WorkerKeeps ==
  ASSUME UNCHANGED <<inputVars, orderVars, callerVars, call>>
  PROVE  CallerKept
BY DEF inputVars, orderVars, callerVars, CallerKept

\* What poolState says of the variables the invariant speaks of.
LEMMA PoolKept ==
  ASSUME UNCHANGED poolState
  PROVE  UNCHANGED <<thread, running, queue, queueHead, queueTail, queueEmpty,
                     threadCapacity, shutdown, client>>
BY DEF poolState

\* The records a job becomes.
LEMMA WithDst ==
  ASSUME NEW j \in JobType, NEW d \in Seq(Int), NEW r, r = [j EXCEPT !.dst = d]
  PROVE  r \in JobType /\ Grows(j, r) /\ r.dst = d
<1>1. r \in JobType /\ r.dst = d
  BY DEF JobType
<1>2. r.consumed = j.consumed /\ j.consumed \in Nat
  BY DEF JobType
<1> QED
  BY <1>1, <1>2 DEF JobType, Grows

Grown(j, d, c, n) == [j EXCEPT !.dst = d, !.cSize = c, !.consumed = n]

\* The fields of a job that got more output.
LEMMA WithOutput ==
  ASSUME NEW j \in JobType, NEW d \in Seq(Int), NEW c \in Nat \cup {Error}, NEW n \in Nat,
         j.consumed <= n, NEW r, r = Grown(j, d, c, n)
  PROVE  /\ r \in JobType /\ Grows(j, r)
         /\ r.dst = d /\ r.cSize = c /\ r.consumed = n /\ r.src = j.src /\ r.at = j.at
         /\ r.last = j.last /\ r.sum = j.sum /\ r.flushed = j.flushed /\ r.jobID = j.jobID
BY DEF JobType, Grows, Grown

\* A worker gets its context and its buffers, or fails to.
LEMMA JobResourcesStep ==
  ASSUME CleanPlans, MTInv, NEW t \in 1 .. MaxThreads, JobResources(t)
  PROVE  MTInv'
<1>1. /\ CallerKept /\ serial' = serial
      /\ UNCHANGED <<thread, running, queue, queueHead, queueTail, queueEmpty,
                     threadCapacity, shutdown, client>>
  BY WorkerKeeps, PoolKept DEF JobResources
<1>2. Types /\ ControlInv /\ WorkerInv /\ JobsInv
  BY DEF MTInv
<1>3. Busy(t) /\ job[t] = "resources"
  BY DEF JobResources, At, Busy
<1>4. PICK b \in Ids : /\ b \in Nat /\ Posted(b) /\ Mine(t) = Slot(b) /\ Slot(b) \in DOMAIN jobs
                       /\ MyJob(t) = J(b) /\ J(b) \in JobType /\ J(b).jobID = b
                       /\ Active(J(b)) /\ Stage(job[t], J(b))
  BY <1>2, <1>3, MyJobIs
<1>5. J(b) = jobs[Slot(b)] /\ Pristine(J(b))
  BY <1>3, <1>4 DEF J, Stage
<1>6. J(b).flushed = 0 /\ (J(b).last /\ Checksum /\ b > 0 => J(b).sum)
      /\ J(b).consumed <= J(b).src.size
  <2>1. /\ J(b).last /\ Checksum /\ b > 0 => J(b).sum
        /\ J(b).consumed <= J(b).src.size /\ (J(b).cSize # Error => OutputInv(J(b)))
    BY <1>2, <1>4 DEF JobsInv
  <2>2. J(b).cSize = 0 /\ J(b).flushed \in Nat
    BY <1>4, <1>5 DEF Pristine, JobType
  <2> QED
    BY <2>1, <2>2 DEF OutputInv, Error
<1>7. CASE /\ jobs' = [jobs EXCEPT ![Mine(t)].dst = <<>>] /\ job' = [job EXCEPT ![t] = "serial"]
           /\ fails' = fails
  <2> DEFINE r == [J(b) EXCEPT !.dst = <<>>]
  <2>1. r \in JobType /\ Grows(J(b), r)
    <3>1. <<>> \in Seq(Int)
      OBVIOUS
    <3> QED
      BY <1>4, <3>1, WithDst
  <2>0. jobs' = [jobs EXCEPT ![Slot(b)] = r]
    BY <1>4, <1>5, <1>7
  <2>2. r.consumed = 0 /\ r.cSize = 0 /\ r.dst = <<>> /\ r.src = J(b).src /\ r.last = J(b).last
        /\ r.sum = J(b).sum /\ r.flushed = 0 /\ Active(r) /\ r.jobID = b /\ r.cSize # Error
    BY <1>4, <1>5, <1>6, <2>1 DEF JobType, Pristine, Active, Error
  <2>3. OutputInv(r)
    BY <2>2 DEF OutputInv, Made
  <2>4. Stage("serial", r)
    BY <2>2 DEF Stage
  <2>5. r.consumed <= r.src.size
    BY <1>5, <1>6, <2>2 DEF Pristine
  <2>6. J(b).cSize # Error /\ "serial" \in Places \ {"none", "resources"}
    BY <1>5 DEF Pristine, Error, Places
  <2> HIDE DEF r
  <2> QED
    BY <1>1, <1>3, <1>4, <1>6, <1>7, <2>0, <2>1, <2>2, <2>3, <2>4, <2>5, <2>6, WorkerJobStep, ZenonT(60)
<1>8. ASSUME MayFail, fails' = fails + 1, JobError(t), NEW pc \in {"finish", "noCCtx"},
             job' = [job EXCEPT ![t] = pc]
      PROVE  MTInv'
  <2> DEFINE r == [J(b) EXCEPT !.cSize = Error]
  <2>1. r \in JobType /\ Grows(J(b), r)
    BY <1>4 DEF JobType, Grows
  <2>0. jobs' = [jobs EXCEPT ![Slot(b)] = r]
    BY <1>4, <1>5, <1>8 DEF JobError
  <2>2. r.consumed = 0 /\ r.cSize = Error /\ r.src = J(b).src /\ r.last = J(b).last
        /\ r.sum = J(b).sum /\ Active(r) /\ r.jobID = b
    BY <1>4, <1>5, <2>1 DEF JobType, Pristine, Active
  <2>3. Stage(pc, r)
    BY <1>8, <2>2 DEF Stage
  <2>4. r.consumed <= r.src.size
    BY <1>5, <1>6, <2>2 DEF Pristine
  <2>5. frame = Len(frames) /\ fails' > 0
    BY <1>2, <1>8, FailsLast, Scalars
  <2>6. pc \in Places \ {"none", "resources"} /\ pc # "serial"
    BY <1>8 DEF Places
  <2> HIDE DEF r
  <2> QED
    BY <1>1, <1>3, <1>4, <1>6, <1>8, <2>0, <2>1, <2>2, <2>3, <2>4, <2>5, <2>6, WorkerJobStep
<1> QED
  BY <1>7, <1>8 DEF JobResources, GoTo


(* --------------------------- what a job produces ------------------------ *)
\* The sequence s is the part of the output that begins after m units.
Follows(m, s) == \A k \in 1 .. Len(s) : s[k] = Unit(m + k)

\* A sequence of units that is continued by the units that follow it.
LEMMA Extend ==
  ASSUME NEW m \in Nat, NEW s \in Seq(Int), NEW u \in Seq(Int),
         Follows(m, s), Follows(m + Len(s), u)
  PROVE  s \o u \in Seq(Int) /\ Len(s \o u) = Len(s) + Len(u) /\ Follows(m, s \o u)
<1>1. /\ s \o u \in Seq(Int) /\ Len(s \o u) = Len(s) + Len(u)
      /\ \A k \in 1 .. Len(s) + Len(u) :
           (s \o u)[k] = IF k <= Len(s) THEN s[k] ELSE u[k - Len(s)]
  BY ConcatProperties
<1>2. Len(s) \in Nat /\ Len(u) \in Nat
  OBVIOUS
<1>3. ASSUME NEW k \in 1 .. Len(s) + Len(u)
      PROVE  (s \o u)[k] = Unit(m + k)
  <2>1. CASE k <= Len(s)
    BY <1>1, <1>2, <1>3, <2>1 DEF Follows
  <2>2. CASE k > Len(s)
    <3>1. k - Len(s) \in 1 .. Len(u) /\ m + Len(s) + (k - Len(s)) = m + k
      BY <1>2, <1>3, <2>2
    <3>2. u[k - Len(s)] = Unit(m + Len(s) + (k - Len(s)))
      BY <3>1 DEF Follows
    <3> QED
      BY <1>1, <1>2, <1>3, <2>2, <3>1, <3>2
  <2> QED
    BY <1>2, <2>1, <2>2
<1> QED
  BY <1>1, <1>3 DEF Follows

\* The empty sequence follows any place.
LEMMA NoUnit ==
  ASSUME NEW m \in Nat
  PROVE  <<>> \in Seq(Int) /\ Len(<<>>) = 0 /\ Follows(m, <<>>)
BY DEF Follows

\* One unit at its place.
LEMMA OneUnit ==
  ASSUME NEW m \in Nat, NEW x \in Int, Unit(m + 1) = x
  PROVE  <<x>> \in Seq(Int) /\ Len(<<x>>) = 1 /\ Follows(m, <<x>>)
BY DEF Follows

\* What a job has in its buffer are units of the output, in their places.
LEMMA DstFollows ==
  ASSUME NEW j \in JobType, OutputInv(j), ~Pristine(j)
  PROVE  /\ Len(j.dst) = j.cSize /\ j.cSize = Made(j) /\ j.flushed <= j.cSize
         /\ j.cSize \in Nat /\ Follows(Begin(j), j.dst) /\ Begin(j) \in Nat
<1>1. /\ Len(j.dst) = j.cSize /\ j.cSize = Made(j) /\ j.flushed <= j.cSize
      /\ \A k \in 1 .. j.cSize : j.dst[k] = Unit(Begin(j) + k)
  BY DEF OutputInv
<1>2. j.dst \in Seq(Int) /\ j.at \in Nat
  BY DEF JobType
<1>3. Len(j.dst) \in Nat
  BY <1>2
<1> QED
  BY <1>1, <1>2, <1>3 DEF Follows, Begin

\* The place of a position of the input in the output.
LEMMA UnitOf ==
  ASSUME FrameLen \in Nat, NEW j, j.at \in Nat, NEW n \in Nat,
         j.jobID = 0 => j.at = 0, j.at + n < FrameLen
  PROVE  Unit(Begin(j) + Hdr(j) + n + 1) = j.at + n
<1>1. CASE j.jobID = 0
  <2>1. Begin(j) = 0 /\ Hdr(j) = 1 /\ j.at = 0
    BY <1>1 DEF Begin, Hdr
  <2>2. Begin(j) + Hdr(j) + n + 1 = n + 2
    BY <2>1
  <2>3. n + 2 # 1 /\ n + 2 <= FrameLen + 1
    BY <2>1
  <2>4. Unit(n + 2) = n
    BY <2>3 DEF Unit
  <2> QED
    BY <2>1, <2>2, <2>4
<1>2. CASE j.jobID # 0
  <2>1. Begin(j) = j.at + 1 /\ Hdr(j) = 0
    BY <1>2 DEF Begin, Hdr
  <2>2. Begin(j) + Hdr(j) + n + 1 = j.at + n + 2
    BY <2>1
  <2>3. j.at + n + 2 # 1 /\ j.at + n + 2 <= FrameLen + 1
    OBVIOUS
  <2>4. Unit(j.at + n + 2) = j.at + n
    BY <2>3 DEF Unit
  <2> QED
    BY <2>1, <2>2, <2>4
<1> QED
  BY <1>1, <1>2

\* The input of a job is input of the frame.
Fits(j) == j.at + j.src.size <= FrameLen

\* A chunk follows what the job has produced, after the frame header if it is
\* the first of the frame.
ChunkOut(j) == FirstOutput(j) \o <<j.at + j.consumed>>

\* The output of a chunk continues that of the chunks before it.
LEMMA ChunkFollows ==
  ASSUME FrameLen \in Nat, NEW j \in JobType, OutputInv(j), ~Pristine(j), Active(j),
         j.jobID = 0 => j.at = 0, Fits(j)
  PROVE  /\ ChunkOut(j) \in Seq(Int) /\ Len(ChunkOut(j)) \in Nat
         /\ Follows(Begin(j) + j.cSize, ChunkOut(j))
         /\ j.cSize + Len(ChunkOut(j)) = Hdr(j) + (j.consumed + 1)
<1>1. /\ Len(j.dst) = j.cSize /\ j.cSize = Made(j) /\ j.cSize \in Nat
      /\ Begin(j) \in Nat /\ j.at \in Nat /\ j.consumed \in Nat /\ j.src.size \in Nat
      /\ j.jobID \in Nat /\ j.consumed < j.src.size
  BY DstFollows DEF JobType, RangeType, Active
<1>2. j.cSize = IF j.consumed = 0 THEN 0 ELSE Hdr(j) + j.consumed
  BY <1>1 DEF Made, Active
<1> DEFINE m == Begin(j) + j.cSize
           f == FirstOutput(j)
           x == <<j.at + j.consumed>>
<1>3. f \in Seq(Int) /\ Follows(m, f) /\ j.cSize + Len(f) = Hdr(j) + j.consumed /\ m \in Nat
  <2>1. CASE j.jobID = 0 /\ j.cSize = 0
    <3>1. Begin(j) = 0 /\ Hdr(j) = 1 /\ f = <<HdrMark>> /\ j.consumed = 0
      BY <1>1, <1>2, <2>1 DEF Begin, Hdr, FirstOutput
    <3>2. Unit(0 + 1) = HdrMark /\ HdrMark \in Int
      BY DEF Unit, HdrMark
    <3> QED
      BY <2>1, <3>1, <3>2, OneUnit
  <2>2. CASE ~(j.jobID = 0 /\ j.cSize = 0)
    <3>1. f = <<>> /\ j.cSize = Hdr(j) + j.consumed
      BY <1>1, <1>2, <2>2 DEF FirstOutput, Hdr
    <3>2. m \in Nat
      BY <1>1
    <3> QED
      BY <1>1, <3>1, <3>2, NoUnit
  <2> QED
    BY <2>1, <2>2
<1>4. Len(f) \in Nat /\ Hdr(j) \in Nat
  BY <1>3 DEF Hdr
<1> HIDE DEF f
<1>5. m + Len(f) = Begin(j) + Hdr(j) + j.consumed /\ m + Len(f) \in Nat
  BY <1>1, <1>3, <1>4, SMTT(30)
<1>6. Unit(m + Len(f) + 1) = j.at + j.consumed /\ j.at + j.consumed \in Int
  <2>1. j.at + j.consumed < FrameLen
    BY <1>1 DEF Fits
  <2>2. Unit(Begin(j) + Hdr(j) + j.consumed + 1) = j.at + j.consumed
    BY <1>1, <2>1, UnitOf
  <2> QED
    BY <1>1, <1>5, <2>2
<1> HIDE DEF m
<1>7. x \in Seq(Int) /\ Len(x) = 1 /\ Follows(m + Len(f), x)
  BY <1>5, <1>6, OneUnit
<1>8. ChunkOut(j) = f \o x
  BY DEF ChunkOut, f
<1> HIDE DEF x
<1>9. ChunkOut(j) \in Seq(Int) /\ Len(ChunkOut(j)) = Len(f) + 1 /\ Follows(m, ChunkOut(j))
  BY <1>3, <1>7, <1>8, Extend, ZenonT(60)
<1>10. j.cSize + Len(ChunkOut(j)) = Hdr(j) + (j.consumed + 1)
  <2>1. j.cSize + Len(ChunkOut(j)) = (j.cSize + Len(f)) + 1
    BY <1>1, <1>4, <1>9
  <2>2. Hdr(j) + j.consumed + 1 = Hdr(j) + (j.consumed + 1)
    BY <1>1, <1>4
  <2> QED
    BY <1>3, <2>1, <2>2
<1> QED
  BY <1>4, <1>9, <1>10 DEF m


\* The compression of a chunk returns an error.
LEMMA JobFailsStep ==
  ASSUME CleanPlans, MTInv, NEW t \in 1 .. MaxThreads, JobFails(t)
  PROVE  MTInv'
<1>1. /\ CallerKept /\ serial' = serial
      /\ UNCHANGED <<thread, running, queue, queueHead, queueTail, queueEmpty,
                     threadCapacity, shutdown, client>>
  BY WorkerKeeps, PoolKept DEF JobFails
<1>2. Types /\ ControlInv /\ WorkerInv /\ JobsInv
  BY DEF MTInv
<1>3. Busy(t) /\ job[t] = "compress" /\ MayFail /\ fails' = fails + 1
  BY DEF JobFails, At, Busy
<1>4. PICK b \in Ids : /\ b \in Nat /\ Posted(b) /\ Mine(t) = Slot(b) /\ Slot(b) \in DOMAIN jobs
                       /\ MyJob(t) = J(b) /\ J(b) \in JobType /\ J(b).jobID = b
                       /\ Active(J(b)) /\ Stage(job[t], J(b))
  BY <1>2, <1>3, MyJobIs
<1>5. J(b) = jobs[Slot(b)]
  BY DEF J
<1>6. (J(b).last /\ Checksum /\ b > 0 => J(b).sum) /\ J(b).consumed <= J(b).src.size
  BY <1>2, <1>4 DEF JobsInv
<1> DEFINE r == [J(b) EXCEPT !.cSize = Error]
<1>7. r \in JobType /\ Grows(J(b), r) /\ r.cSize = Error /\ r.consumed = J(b).consumed
  BY <1>4 DEF JobType, Grows
<1>8. jobs' = [jobs EXCEPT ![Slot(b)] = r] /\ job' = [job EXCEPT ![t] = "finish"]
  BY <1>4, <1>5 DEF JobError, JobFails, GoTo
<1>9. Active(r) /\ r.src = J(b).src /\ r.last = J(b).last /\ r.sum = J(b).sum
  BY <1>4, <1>7 DEF Active, Grows
<1>10. Stage("finish", r) /\ "finish" \in Places \ {"none", "resources"}
  BY <1>7 DEF Stage, Places
<1>11. frame = Len(frames) /\ fails' > 0
  BY <1>2, <1>3, FailsLast, Scalars
<1> HIDE DEF r
<1> QED
  BY <1>1, <1>3, <1>4, <1>6, <1>7, <1>8, <1>9, <1>10, <1>11, WorkerJobStep

\* A job with more than the last chunk to do, and the job after one more chunk.
Chunks(j) == j.consumed + 1 < j.src.size
ChunkedJob(j) == [j EXCEPT !.dst = @ \o ChunkOut(j), !.cSize = @ + Len(ChunkOut(j)),
                           !.consumed = @ + 1]

\* A job that compressed one chunk more holds the units of its part so far.
LEMMA ChunkResult ==
  ASSUME FrameLen \in Nat, NEW j \in JobType, OutputInv(j), ~Pristine(j),
         Chunks(j), j.jobID = 0 => j.at = 0, Fits(j),
         NEW r, r = ChunkedJob(j)
  PROVE  /\ r \in JobType /\ Grows(j, r) /\ Active(r) /\ r.consumed <= r.src.size
         /\ r.cSize \in Nat /\ r.cSize > 0 /\ OutputInv(r)
         /\ r.src = j.src /\ r.last = j.last /\ r.sum = j.sum /\ r.jobID = j.jobID
<1>1. /\ j.dst \in Seq(Int) /\ j.consumed \in Nat /\ j.flushed \in Nat /\ j.src.size \in Nat
      /\ Active(j) /\ j.consumed + 1 < j.src.size
  BY DEF JobType, RangeType, Active, Chunks
<1>2. /\ Len(j.dst) = j.cSize /\ j.flushed <= j.cSize /\ j.cSize \in Nat
      /\ Follows(Begin(j), j.dst) /\ Begin(j) \in Nat
  BY DstFollows
<1>3. /\ ChunkOut(j) \in Seq(Int) /\ Len(ChunkOut(j)) \in Nat
      /\ Follows(Begin(j) + j.cSize, ChunkOut(j))
      /\ j.cSize + Len(ChunkOut(j)) = Hdr(j) + (j.consumed + 1)
  BY <1>1, ChunkFollows
<1> DEFINE d == j.dst \o ChunkOut(j)
           n == j.cSize + Len(ChunkOut(j))
<1>4. d \in Seq(Int) /\ Len(d) = n /\ Follows(Begin(j), d)
  <2>1. Follows(Begin(j) + Len(j.dst), ChunkOut(j))
    BY <1>2, <1>3
  <2>2. j.dst \in Seq(Int) /\ ChunkOut(j) \in Seq(Int) /\ Begin(j) \in Nat
        /\ Follows(Begin(j), j.dst)
    BY <1>1, <1>2, <1>3
  <2>3. /\ d \in Seq(Int) /\ Len(d) = Len(j.dst) + Len(ChunkOut(j)) /\ Follows(Begin(j), d)
    BY <2>1, <2>2, Extend
  <2> QED
    BY <1>2, <2>3
<1>5. r = Grown(j, d, n, j.consumed + 1)
  BY DEF ChunkedJob, Grown, JobType
<1> HIDE DEF d
<1>6. n \in Nat \cup {Error} /\ n \in Nat /\ j.consumed + 1 \in Nat
      /\ j.consumed <= j.consumed + 1
  BY <1>1, <1>2, <1>3, SMTT(30)
<1>15. n = Hdr(j) + (j.consumed + 1) /\ j.cSize <= n
  BY <1>2, <1>3
<1> HIDE DEF n
<1>7. /\ r \in JobType /\ Grows(j, r)
      /\ r.dst = d /\ r.cSize = n /\ r.consumed = j.consumed + 1 /\ r.src = j.src
      /\ r.at = j.at /\ r.last = j.last /\ r.sum = j.sum /\ r.flushed = j.flushed
      /\ r.jobID = j.jobID
  BY <1>4, <1>5, <1>6, WithOutput
<1>8. Active(r) /\ r.consumed # 0 /\ r.consumed <= r.src.size
  BY <1>1, <1>7 DEF Active
<1>9. Hdr(r) = Hdr(j) /\ Begin(r) = Begin(j) /\ Hdr(j) \in Nat
  BY <1>7 DEF Hdr, Begin
<1>10. r.cSize = Hdr(r) + r.consumed
  BY <1>1, <1>15, <1>7, <1>9
<1>11. r.cSize = Made(r)
  BY <1>8, <1>10 DEF Made
<1>12. r.cSize \in Nat /\ r.cSize > 0 /\ r.flushed <= r.cSize
  BY <1>1, <1>2, <1>6, <1>7, <1>9, <1>10, <1>15
<1>13. \A k \in 1 .. r.cSize : r.dst[k] = Unit(Begin(r) + k)
  BY <1>4, <1>7, <1>9 DEF Follows
<1>14. OutputInv(r)
  BY <1>4, <1>7, <1>11, <1>12, <1>13 DEF OutputInv
<1> QED
  BY <1>7, <1>8, <1>12, <1>14

\* ZSTDMT_compressionJob hands over a chunk that is not the last one.
LEMMA JobChunkStep ==
  ASSUME MTInv, NEW t \in 1 .. MaxThreads, JobChunk(t)
  PROVE  MTInv'
<1>1. /\ CallerKept /\ serial' = serial /\ job' = job /\ fails' = fails
      /\ UNCHANGED <<thread, running, queue, queueHead, queueTail, queueEmpty,
                     threadCapacity, shutdown, client>>
  BY WorkerKeeps, PoolKept DEF JobChunk
<1>2. Types /\ ControlInv /\ WorkerInv /\ JobsInv
  BY DEF MTInv
<1>3. Busy(t) /\ job[t] = "compress"
  BY DEF JobChunk, At, Busy
<1>4. PICK b \in Ids : /\ b \in Nat /\ Posted(b) /\ Mine(t) = Slot(b) /\ Slot(b) \in DOMAIN jobs
                       /\ MyJob(t) = J(b) /\ J(b) \in JobType /\ J(b).jobID = b
                       /\ Active(J(b)) /\ Stage(job[t], J(b))
  BY <1>2, <1>3, MyJobIs
<1>5. /\ J(b).last /\ Checksum /\ b > 0 => J(b).sum
      /\ J(b).jobID = 0 => J(b).at = 0
      /\ J(b).at + J(b).src.size <= Cut /\ (J(b).cSize # Error => OutputInv(J(b)))
  BY <1>2, <1>4 DEF JobsInv
<1>6. J(b).cSize # Error /\ ~Pristine(J(b)) /\ J(b).jobID < serial.nextJobID
  BY <1>3, <1>4 DEF Stage
<1>7. FrameLen \in Nat /\ Fits(J(b))
  <2>1. /\ inPos \in Nat /\ inPos <= FrameLen /\ inBuff.filled \in Nat /\ FrameLen \in Nat
    BY <1>2, Scalars
  <2>2. J(b).at \in Nat /\ J(b).src.size \in Nat
    BY <1>4 DEF JobType, RangeType
  <2> QED
    BY <1>5, <2>1, <2>2 DEF Cut, Fits
<1>8. PICK r : r = ChunkedJob(J(b))
  OBVIOUS
<1>9. jobs' = [jobs EXCEPT ![Slot(b)] = r]
  BY <1>4, <1>8 DEF JobChunk, ChunkedJob, ChunkOut
<1>15. Chunks(J(b))
  BY <1>4 DEF JobChunk, Chunks
<1>10. OutputInv(J(b))
  BY <1>5, <1>6
<1>11. /\ r \in JobType /\ Grows(J(b), r) /\ Active(r) /\ r.consumed <= r.src.size
       /\ r.cSize \in Nat /\ r.cSize > 0 /\ OutputInv(r)
       /\ r.src = J(b).src /\ r.last = J(b).last /\ r.sum = J(b).sum /\ r.jobID = J(b).jobID
  BY <1>4, <1>5, <1>6, <1>7, <1>8, <1>10, <1>15, ChunkResult
<1>12. job' = [job EXCEPT ![t] = "compress"]
  BY <1>1, <1>2, <1>3 DEF Types, PoolTypes
<1>13. r.cSize # Error
  BY <1>11 DEF Error
<1>14. Stage("compress", r) /\ "compress" \in Places \ {"none", "resources"}
  BY <1>6, <1>11, <1>13 DEF Stage, Pristine, Places
<1>16. r.last /\ Checksum /\ b > 0 => r.sum
  BY <1>5, <1>11
<1>17. J(b).cSize # Error
  BY <1>6
<1>18. /\ Busy(t) /\ Posted(b) /\ Active(J(b)) /\ MyJob(t) = J(b) /\ Mine(t) = Slot(b)
       /\ r \in JobType /\ Grows(J(b), r) /\ Active(r) /\ r.consumed <= r.src.size /\ OutputInv(r)
  BY <1>3, <1>4, <1>11
<1> QED
  BY <1>1, <1>9, <1>12, <1>13, <1>14, <1>16, <1>17, <1>18, WorkerJobStep

\* A job with the last chunk to do; what it writes then ends the frame, if it is
\* the last one; and the job after it.
LastChunk(j) == j.consumed + 1 = j.src.size
Ends(j) == j.last => j.at + j.src.size = FrameLen
EndOut(j) == IF j.last THEN <<EndMark>> ELSE <<>>
SumOut(j) == IF j.last /\ j.jobID = 0 /\ Checksum THEN <<SumMark>> ELSE <<>>
ReportedJob(j) == Grown(j, j.dst \o LastOutput(j), j.cSize + Len(LastOutput(j)), j.src.size)

\* The marks at the end of the frame follow its last position.
LEMMA EndFollows ==
  ASSUME FrameLen \in Nat, NEW j \in JobType, Ends(j), j.jobID = 0 => j.at = 0,
         NEW m, m = Begin(j) + Hdr(j) + j.src.size
  PROVE  /\ m \in Nat
         /\ EndOut(j) \in Seq(Int) /\ Len(EndOut(j)) = (IF j.last THEN 1 ELSE 0)
         /\ Follows(m, EndOut(j))
         /\ SumOut(j) \in Seq(Int)
         /\ Len(SumOut(j)) = (IF j.last /\ j.jobID = 0 /\ Checksum THEN 1 ELSE 0)
         /\ Follows(m + Len(EndOut(j)), SumOut(j))
<1>1. j.at \in Nat /\ j.src.size \in Nat /\ j.jobID \in Nat /\ j.last \in BOOLEAN
  BY DEF JobType, RangeType
<1>2. m \in Nat
  BY <1>1 DEF Begin, Hdr
<1>3. CASE ~j.last
  <2>1. EndOut(j) = <<>> /\ SumOut(j) = <<>>
    BY <1>3 DEF EndOut, SumOut
  <2>2. m + Len(EndOut(j)) = m
    BY <1>2, <2>1
  <2> QED
    BY <1>2, <1>3, <2>1, <2>2, NoUnit
<1>4. CASE j.last
  <2>1. m = FrameLen + 1
    BY <1>1, <1>4 DEF Ends, Begin, Hdr
  <2>2. Unit(m + 1) = EndMark /\ Unit(m + 2) = SumMark /\ EndMark \in Int /\ SumMark \in Int
    <3>1. m + 1 # 1 /\ ~(m + 1 <= FrameLen + 1) /\ m + 1 = FrameLen + 2
          /\ m + 2 # 1 /\ ~(m + 2 <= FrameLen + 1) /\ m + 2 # FrameLen + 2
      BY <2>1
    <3> QED
      BY <3>1 DEF Unit, EndMark, SumMark
  <2>3. EndOut(j) = <<EndMark>>
    BY <1>4 DEF EndOut
  <2>4. EndOut(j) \in Seq(Int) /\ Len(EndOut(j)) = 1 /\ Follows(m, EndOut(j))
    BY <1>2, <2>2, <2>3, OneUnit
  <2>5. CASE j.jobID = 0 /\ Checksum
    <3>1. SumOut(j) = <<SumMark>>
      BY <1>4, <2>5 DEF SumOut
    <3>2. m + 1 \in Nat /\ Unit((m + 1) + 1) = SumMark
      BY <1>2, <2>2
    <3>3. SumOut(j) \in Seq(Int) /\ Len(SumOut(j)) = 1 /\ Follows(m + 1, SumOut(j))
      BY <2>2, <3>1, <3>2, OneUnit
    <3> QED
      BY <1>2, <1>4, <2>4, <2>5, <3>3
  <2>6. CASE ~(j.jobID = 0 /\ Checksum)
    <3>1. SumOut(j) = <<>>
      BY <2>6 DEF SumOut
    <3>2. m + 1 \in Nat
      BY <1>2
    <3>3. SumOut(j) \in Seq(Int) /\ Len(SumOut(j)) = 0 /\ Follows(m + 1, SumOut(j))
      BY <3>1, <3>2, NoUnit
    <3> QED
      BY <1>2, <1>4, <2>4, <2>6, <3>3
  <2> QED
    BY <2>5, <2>6
<1> QED
  BY <1>3, <1>4

\* The output of the last chunk completes the part of the job.
LEMMA LastFollows ==
  ASSUME FrameLen \in Nat, NEW j \in JobType, OutputInv(j), ~Pristine(j), LastChunk(j),
         j.jobID = 0 => j.at = 0, Fits(j), Ends(j)
  PROVE  /\ LastOutput(j) \in Seq(Int) /\ Len(LastOutput(j)) \in Nat
         /\ Follows(Begin(j) + j.cSize, LastOutput(j))
         /\ j.cSize + Len(LastOutput(j)) =
              Hdr(j) + j.src.size + (IF j.last THEN 1 ELSE 0)
              + (IF j.last /\ j.jobID = 0 /\ Checksum THEN 1 ELSE 0)
<1> DEFINE m == Begin(j) + j.cSize
           c == ChunkOut(j)
           e == EndOut(j)
           s == SumOut(j)
<1>1. /\ j.consumed \in Nat /\ j.src.size \in Nat /\ j.at \in Nat /\ Active(j)
      /\ j.src.size > 0 /\ j.at + j.src.size - 1 = j.at + j.consumed
      /\ j.consumed + 1 = j.src.size
  BY DEF JobType, RangeType, LastChunk, Active
<1>2. j.cSize \in Nat /\ Begin(j) \in Nat /\ m \in Nat /\ Hdr(j) \in Nat
  BY DstFollows DEF Hdr
<1>3. LastOutput(j) = (c \o e) \o s
  BY <1>1 DEF LastOutput, ChunkOut, EndOut, SumOut
<1> HIDE DEF m, c, e, s
<1>4. /\ c \in Seq(Int) /\ Len(c) \in Nat /\ Follows(m, c)
      /\ j.cSize + Len(c) = Hdr(j) + (j.consumed + 1)
  BY <1>1, ChunkFollows DEF c, m
<1>5. m + Len(c) = Begin(j) + Hdr(j) + j.src.size
  <2>1. j.cSize + Len(c) = Hdr(j) + j.src.size
    BY <1>1, <1>2, <1>4
  <2>2. m + Len(c) = Begin(j) + (j.cSize + Len(c))
    BY <1>2, <1>4 DEF m
  <2>3. Begin(j) + (Hdr(j) + j.src.size) = Begin(j) + Hdr(j) + j.src.size
    BY <1>1, <1>2
  <2> QED
    BY <2>1, <2>2, <2>3
<1>6. /\ m + Len(c) \in Nat
      /\ e \in Seq(Int) /\ Len(e) = (IF j.last THEN 1 ELSE 0) /\ Follows(m + Len(c), e)
      /\ s \in Seq(Int) /\ Len(s) = (IF j.last /\ j.jobID = 0 /\ Checksum THEN 1 ELSE 0)
      /\ Follows(m + Len(c) + Len(e), s)
  BY <1>5, EndFollows DEF e, s
<1>7. c \o e \in Seq(Int) /\ Len(c \o e) = Len(c) + Len(e) /\ Follows(m, c \o e)
  BY <1>2, <1>4, <1>6, Extend
<1>8. m + Len(c \o e) = m + Len(c) + Len(e)
  BY <1>2, <1>4, <1>6, <1>7, SMTT(30)
<1>9. /\ LastOutput(j) \in Seq(Int) /\ Len(LastOutput(j)) = Len(c \o e) + Len(s)
      /\ Follows(m, LastOutput(j))
  <2>1. Follows(m + Len(c \o e), s)
    BY <1>6, <1>8
  <2>2. m \in Nat /\ s \in Seq(Int)
    BY <1>2, <1>6
  <2> QED
    BY <1>3, <1>7, <2>1, <2>2, Extend
<1>10. j.cSize + Len(LastOutput(j)) = Hdr(j) + j.src.size + Len(e) + Len(s)
       /\ Len(LastOutput(j)) \in Nat
  <2>1. Len(e) \in Nat /\ Len(s) \in Nat
    BY <1>6
  <2>2. Len(LastOutput(j)) = Len(c) + Len(e) + Len(s)
    BY <1>7, <1>9
  <2>3. j.cSize + Len(c) = Hdr(j) + j.src.size
    BY <1>1, <1>2, <1>4
  <2>4. j.cSize + Len(LastOutput(j)) = (j.cSize + Len(c)) + Len(e) + Len(s)
    BY <1>2, <1>4, <2>1, <2>2
  <2> QED
    BY <1>4, <2>1, <2>2, <2>3, <2>4
<1> QED
  BY <1>6, <1>9, <1>10 DEF m

\* A job that reported holds all units of its part, but a checksum to come.
LEMMA ReportResult ==
  ASSUME FrameLen \in Nat, NEW j \in JobType, OutputInv(j), ~Pristine(j), LastChunk(j),
         j.jobID = 0 => j.at = 0, Fits(j), Ends(j),
         j.last /\ Checksum => (j.sum <=> j.jobID # 0),
         NEW r, r = ReportedJob(j)
  PROVE  /\ r \in JobType /\ Grows(j, r) /\ ~Active(r) /\ r.consumed <= r.src.size
         /\ r.cSize # Error /\ OutputInv(r)
<1>1. /\ j.dst \in Seq(Int) /\ j.consumed \in Nat /\ j.flushed \in Nat /\ j.src.size \in Nat
      /\ j.consumed <= j.src.size /\ j.last \in BOOLEAN
  BY DEF JobType, RangeType, LastChunk
<1>2. /\ Len(j.dst) = j.cSize /\ j.flushed <= j.cSize /\ j.cSize \in Nat
      /\ Follows(Begin(j), j.dst) /\ Begin(j) \in Nat /\ Hdr(j) \in Nat
  BY DstFollows DEF Hdr
<1>3. /\ LastOutput(j) \in Seq(Int) /\ Len(LastOutput(j)) \in Nat
      /\ Follows(Begin(j) + j.cSize, LastOutput(j))
      /\ j.cSize + Len(LastOutput(j)) =
           Hdr(j) + j.src.size + (IF j.last THEN 1 ELSE 0)
           + (IF j.last /\ j.jobID = 0 /\ Checksum THEN 1 ELSE 0)
  BY LastFollows
<1> DEFINE d == j.dst \o LastOutput(j)
           n == j.cSize + Len(LastOutput(j))
<1>4. d \in Seq(Int) /\ Len(d) = n /\ Follows(Begin(j), d)
  <2>1. Follows(Begin(j) + Len(j.dst), LastOutput(j))
    BY <1>2, <1>3
  <2>2. j.dst \in Seq(Int) /\ LastOutput(j) \in Seq(Int) /\ Begin(j) \in Nat
        /\ Follows(Begin(j), j.dst)
    BY <1>1, <1>2, <1>3
  <2>3. d \in Seq(Int) /\ Len(d) = Len(j.dst) + Len(LastOutput(j)) /\ Follows(Begin(j), d)
    BY <2>1, <2>2, Extend
  <2> QED
    BY <1>2, <2>3
<1>5. r = Grown(j, d, n, j.src.size)
  BY DEF ReportedJob
<1>6. n \in Nat \cup {Error} /\ n \in Nat /\ n # Error /\ j.cSize <= n
  BY <1>2, <1>3 DEF Error
<1>7. n = Hdr(j) + j.src.size + (IF j.last THEN 1 ELSE 0)
          + (IF j.last /\ j.jobID = 0 /\ Checksum THEN 1 ELSE 0)
  BY <1>3
<1> HIDE DEF d, n
<1>8. /\ r \in JobType /\ Grows(j, r)
      /\ r.dst = d /\ r.cSize = n /\ r.consumed = j.src.size /\ r.src = j.src
      /\ r.at = j.at /\ r.last = j.last /\ r.sum = j.sum /\ r.flushed = j.flushed
      /\ r.jobID = j.jobID
  BY <1>1, <1>4, <1>5, <1>6, WithOutput
<1>9. ~Active(r) /\ r.consumed <= r.src.size
  BY <1>1, <1>8 DEF Active
<1>10. Hdr(r) = Hdr(j) /\ Begin(r) = Begin(j)
  BY <1>8 DEF Hdr, Begin
<1>11. r.cSize = Made(r)
  <2>1. r.last /\ Checksum /\ ~r.sum <=> j.last /\ j.jobID = 0 /\ Checksum
    BY <1>8
  <2>2. Made(r) = Hdr(r) + r.src.size + (IF r.last THEN 1 ELSE 0)
                  + (IF r.last /\ Checksum /\ ~r.sum THEN 1 ELSE 0)
    BY <1>9 DEF Made
  <2> QED
    BY <1>7, <1>8, <1>10, <2>1, <2>2
<1>12. r.flushed <= r.cSize /\ Len(r.dst) = r.cSize
  BY <1>1, <1>2, <1>4, <1>6, <1>8
<1>13. \A k \in 1 .. r.cSize : r.dst[k] = Unit(Begin(r) + k)
  BY <1>4, <1>8, <1>10 DEF Follows
<1> QED
  BY <1>6, <1>8, <1>9, <1>11, <1>12, <1>13 DEF OutputInv


\* ZSTDMT_compressionJob reports that it has consumed its input.
LEMMA JobReportsStep ==
  ASSUME MTInv, NEW t \in 1 .. MaxThreads, JobReports(t)
  PROVE  MTInv'
<1>1. /\ CallerKept /\ serial' = serial /\ fails' = fails
      /\ UNCHANGED <<thread, running, queue, queueHead, queueTail, queueEmpty,
                     threadCapacity, shutdown, client>>
  BY WorkerKeeps, PoolKept DEF JobReports
<1>2. Types /\ ControlInv /\ CallInv /\ WorkerInv /\ JobsInv
  BY DEF MTInv
<1>3. Busy(t) /\ job[t] = "report"
  BY DEF JobReports, At, Busy
<1>4. PICK b \in Ids : /\ b \in Nat /\ Posted(b) /\ Mine(t) = Slot(b) /\ Slot(b) \in DOMAIN jobs
                       /\ MyJob(t) = J(b) /\ J(b) \in JobType /\ J(b).jobID = b
                       /\ Active(J(b)) /\ Stage(job[t], J(b))
  BY <1>2, <1>3, MyJobIs
<1>5. /\ J(b).last /\ Checksum /\ b > 0 => J(b).sum
      /\ J(b).sum => b > 0 /\ J(b).last
      /\ J(b).jobID = 0 => J(b).at = 0
      /\ J(b).at + J(b).src.size <= Cut /\ (J(b).cSize # Error => OutputInv(J(b)))
      /\ (J(b).cSize = Error => fails > 0)
      /\ J(b).consumed <= J(b).src.size
  BY <1>2, <1>4 DEF JobsInv
<1>6. /\ J(b).cSize = Error \/ J(b).consumed + 1 = J(b).src.size
      /\ ~Pristine(J(b)) /\ b < serial.nextJobID
  BY <1>3, <1>4 DEF Stage
<1>7. FrameLen \in Nat /\ Fits(J(b)) /\ Ends(J(b))
  <2>1. /\ inPos \in Nat /\ inPos <= FrameLen /\ inBuff.filled \in Nat /\ FrameLen \in Nat
    BY <1>2, Scalars
  <2>2. J(b).at \in Nat /\ J(b).src.size \in Nat
    BY <1>4 DEF JobType, RangeType
  <2>3. Fits(J(b))
    BY <1>5, <2>1, <2>2 DEF Cut, Fits
  <2>4. Ends(J(b))
    BY <1>2, <1>4 DEF JobsInv, Ends
  <2> QED
    BY <2>1, <2>3, <2>4
<1>8. jobs' = [jobs EXCEPT ![Slot(b)] =
                 IF J(b).cSize = Error THEN [J(b) EXCEPT !.consumed = J(b).src.size]
                 ELSE ReportedJob(J(b))]
  BY <1>4 DEF JobReports, ReportedJob, Grown, JobType
<1>9. job' = [job EXCEPT ![t] = "return"] /\ "return" \in Places \ {"none", "resources"}
  BY DEF JobReports, GoTo, Places
<1>10. /\ Busy(t) /\ Posted(b) /\ Active(J(b)) /\ MyJob(t) = J(b) /\ Mine(t) = Slot(b)
  BY <1>3, <1>4
<1>11. CASE J(b).cSize = Error
  <2> DEFINE r == [J(b) EXCEPT !.consumed = J(b).src.size]
  <2>1. /\ r \in JobType /\ Grows(J(b), r) /\ r.cSize = Error /\ r.consumed = J(b).src.size
        /\ r.src = J(b).src
    BY <1>4, <1>5, <1>11 DEF JobType, RangeType, Grows
  <2>2. J(b).src.size \in Nat
    BY <1>4 DEF JobType, RangeType
  <2>3. jobs' = [jobs EXCEPT ![Slot(b)] = r]
    BY <1>8, <1>11
  <2> HIDE DEF r
  <2>4. ~Active(r) /\ r.consumed <= r.src.size
    BY <2>1, <2>2 DEF Active
  <2>5. r.cSize = Error => fails' > 0
    BY <1>1, <1>5, <1>11
  <2> QED
    BY <1>1, <1>9, <1>10, <2>1, <2>3, <2>4, <2>5, WorkerJobStep
<1>12. CASE J(b).cSize # Error
  <2>1. PICK r : r = ReportedJob(J(b))
    OBVIOUS
  <2>2. J(b).last /\ Checksum => (J(b).sum <=> J(b).jobID # 0)
    BY <1>4, <1>5
  <2>3. LastChunk(J(b)) /\ OutputInv(J(b))
    BY <1>5, <1>6, <1>12 DEF LastChunk
  <2>4. /\ r \in JobType /\ Grows(J(b), r) /\ ~Active(r) /\ r.consumed <= r.src.size
        /\ r.cSize # Error /\ OutputInv(r)
    BY <1>4, <1>5, <1>6, <1>7, <2>1, <2>2, <2>3, ReportResult
  <2>5. jobs' = [jobs EXCEPT ![Slot(b)] = r]
    BY <1>8, <1>12, <2>1
  <2>6. b < serial.nextJobID
    BY <1>6
  <2> QED
    BY <1>1, <1>9, <1>10, <1>12, <2>4, <2>5, <2>6, WorkerJobStep
<1> QED
  BY <1>11, <1>12

(* ------------------------ the window of the matcher --------------------- *)
\* The window v names what w names, less what was lost, and n bytes at src.
Slides(w, v, src, n) ==
  /\ v.lowLimit <= v.dictLimit /\ v.dictLimit <= WIN!EndIndex(v)
  /\ WIN!EndIndex(v) = WIN!EndIndex(w) + n
  /\ \A i \in v.lowLimit .. WIN!EndIndex(v) - 1 :
       \/ i \in w.lowLimit .. WIN!EndIndex(w) - 1 /\ WIN!Address(v, i) = WIN!Address(w, i)
       \/ i >= WIN!EndIndex(w) /\ WIN!Address(v, i) = src + (i - WIN!EndIndex(w))

WindowOrdered(w) == w.lowLimit <= w.dictLimit /\ w.dictLimit <= WIN!EndIndex(w)

\* The fields of a window are integers.
LEMMA WindowFields ==
  ASSUME NEW w \in WindowType
  PROVE  /\ w.base \in Int /\ w.dictBase \in Int /\ w.lowLimit \in Int
         /\ w.dictLimit \in Int /\ w.nextSrc \in Int /\ WIN!EndIndex(w) \in Int
BY DEF WindowType, WIN!EndIndex

\* A window from which the lowest indices are dropped names the rest as before.
LEMMA Raised ==
  ASSUME NEW w \in WindowType, NEW v \in WindowType, WindowOrdered(v),
         NEW u \in WindowType, NEW src \in Int, NEW n \in Nat, Slides(w, v, src, n),
         u.base = v.base, u.dictBase = v.dictBase, u.nextSrc = v.nextSrc,
         v.lowLimit <= u.lowLimit, u.lowLimit <= u.dictLimit, u.dictLimit <= WIN!EndIndex(u),
         u.dictLimit = v.dictLimit \/ (u.dictLimit = u.lowLimit /\ v.dictLimit <= u.dictLimit)
  PROVE  Slides(w, u, src, n) /\ WindowOrdered(u)
<1>1. /\ WIN!EndIndex(u) = WIN!EndIndex(v) /\ WIN!EndIndex(u) \in Int
      /\ v.lowLimit \in Int /\ u.lowLimit \in Int /\ v.dictLimit \in Int /\ u.dictLimit \in Int
  BY WindowFields DEF WIN!EndIndex
<1>2. ASSUME NEW i \in u.lowLimit .. WIN!EndIndex(u) - 1
      PROVE  i \in v.lowLimit .. WIN!EndIndex(v) - 1 /\ WIN!Address(u, i) = WIN!Address(v, i)
  <2>1. i \in Int /\ u.lowLimit <= i
    BY <1>1, <1>2
  <2>2. i >= u.dictLimit <=> i >= v.dictLimit
    BY <1>1, <2>1
  <2> QED
    BY <1>1, <1>2, <2>2 DEF WIN!Address
<1> QED
  BY <1>1, <1>2 DEF Slides, WindowOrdered

\* Input behind the end of the window is added to it.
LEMMA Contiguous ==
  ASSUME NEW w \in WindowType, WindowOrdered(w), NEW src \in Int, NEW n \in Nat \ {0},
         src = w.nextSrc, NEW v, v = [w EXCEPT !.nextSrc = src + n]
  PROVE  v \in WindowType /\ Slides(w, v, src, n) /\ WindowOrdered(v)
<1>1. /\ v \in WindowType /\ v.base = w.base /\ v.dictBase = w.dictBase
      /\ v.lowLimit = w.lowLimit /\ v.dictLimit = w.dictLimit /\ v.nextSrc = src + n
  BY DEF WindowType
<1>2. /\ w.base \in Int /\ w.dictBase \in Int /\ w.lowLimit \in Int
      /\ w.dictLimit \in Int /\ WIN!EndIndex(w) \in Int
      /\ w.lowLimit <= w.dictLimit /\ w.dictLimit <= WIN!EndIndex(w)
      /\ WIN!EndIndex(w) = src - w.base
  BY WindowFields DEF WindowOrdered, WIN!EndIndex
<1>3. WIN!EndIndex(v) = WIN!EndIndex(w) + n
  BY <1>1, <1>2 DEF WIN!EndIndex
<1>4. ASSUME NEW i \in v.lowLimit .. WIN!EndIndex(v) - 1
      PROVE  \/ i \in w.lowLimit .. WIN!EndIndex(w) - 1 /\ WIN!Address(v, i) = WIN!Address(w, i)
             \/ i >= WIN!EndIndex(w) /\ WIN!Address(v, i) = src + (i - WIN!EndIndex(w))
  <2>1. CASE i < WIN!EndIndex(w)
    BY <1>1, <1>2, <1>4, <2>1 DEF WIN!Address
  <2>2. CASE i >= WIN!EndIndex(w)
    <3>1. i \in Int /\ i >= v.dictLimit
      BY <1>1, <1>2, <1>3, <1>4, <2>2
    <3>2. WIN!Address(v, i) = w.base + i
      BY <1>1, <3>1 DEF WIN!Address
    <3> QED
      BY <1>2, <2>2, <3>1, <3>2
  <2> QED
    BY <1>1, <1>2, <1>3, <1>4, <2>1, <2>2
<1>5. v.dictLimit <= WIN!EndIndex(v) /\ v.lowLimit <= v.dictLimit
  BY <1>1, <1>2, <1>3
<1> QED
  BY <1>1, <1>3, <1>4, <1>5 DEF Slides, WindowOrdered

Segmented(w, low, limit, dictBase, base) ==
  [w EXCEPT !.lowLimit = low, !.dictLimit = limit, !.dictBase = dictBase, !.base = base]
WithNext(w, next) == [w EXCEPT !.nextSrc = next]

\* The fields of the window that begins a new segment.
LEMMA SegmentFields ==
  ASSUME NEW w \in WindowType, NEW low \in Int, NEW limit \in Int, NEW dictBase \in Int,
         NEW base \in Int, NEW next \in Int,
         NEW v, v = WithNext(Segmented(w, low, limit, dictBase, base), next)
  PROVE  /\ v \in WindowType /\ v.base = base /\ v.dictBase = dictBase
         /\ v.lowLimit = low /\ v.dictLimit = limit /\ v.nextSrc = next
BY DEF Segmented, WithNext, WindowType

\* Input elsewhere begins a new segment; the old one becomes extDict.
LEMMA Segment ==
  ASSUME NEW w \in WindowType, WindowOrdered(w), NEW src \in Int, NEW n \in Nat \ {0},
         NEW next \in Int, next = src + n, NEW v, v = WithNext(WIN!NewSegment(w, src), next)
  PROVE  v \in WindowType /\ Slides(w, v, src, n) /\ WindowOrdered(v)
<1> DEFINE end == WIN!EndIndex(w)
           low == IF end - w.dictLimit < 1 THEN end ELSE w.dictLimit
<1>1. /\ w.base \in Int /\ w.dictBase \in Int /\ w.lowLimit \in Int
      /\ w.dictLimit \in Int /\ end \in Int
      /\ w.lowLimit <= w.dictLimit /\ w.dictLimit <= end
  BY WindowFields DEF WindowOrdered
<1>2. low \in Int /\ low <= end /\ w.dictLimit <= low
  BY <1>1
<1> HIDE DEF end
<1>3. WIN!NewSegment(w, src) = Segmented(w, low, end, w.base, src - end)
  BY DEF WIN!NewSegment, Segmented, end
<1> HIDE DEF low
<1>4. /\ v \in WindowType /\ v.base = src - end /\ v.dictBase = w.base
      /\ v.lowLimit = low /\ v.dictLimit = end /\ v.nextSrc = src + n
  <2>1. PICK base : base = src - end
    OBVIOUS
  <2>2. base \in Int
    BY <1>1, <2>1
  <2>3. v = WithNext(Segmented(w, low, end, w.base, base), next)
    BY <1>3, <2>1
  <2>4. /\ v \in WindowType /\ v.base = base /\ v.dictBase = w.base
        /\ v.lowLimit = low /\ v.dictLimit = end /\ v.nextSrc = next
    BY <1>1, <1>2, <2>2, <2>3, SegmentFields
  <2> QED
    BY <2>1, <2>4
<1>5. WIN!EndIndex(v) = end + n
  BY <1>1, <1>4 DEF WIN!EndIndex
<1>6. ASSUME NEW i \in v.lowLimit .. WIN!EndIndex(v) - 1
      PROVE  \/ i \in w.lowLimit .. end - 1 /\ WIN!Address(v, i) = WIN!Address(w, i)
             \/ i >= end /\ WIN!Address(v, i) = src + (i - end)
  <2>0. i \in Int /\ low <= i
    BY <1>1, <1>2, <1>4, <1>5, <1>6
  <2>1. CASE i < end
    <3>1. WIN!Address(v, i) = w.base + i
      BY <1>1, <1>4, <2>0, <2>1 DEF WIN!Address
    <3>2. i >= w.dictLimit /\ i \in w.lowLimit .. end - 1
      BY <1>1, <1>2, <2>0, <2>1
    <3>3. WIN!Address(w, i) = w.base + i
      BY <3>2 DEF WIN!Address
    <3> QED
      BY <3>1, <3>2, <3>3
  <2>2. CASE i >= end
    <3>1. WIN!Address(v, i) = (src - end) + i
      BY <1>4, <2>2 DEF WIN!Address
    <3> QED
      BY <1>1, <2>0, <2>2, <3>1
  <2> QED
    BY <1>1, <2>0, <2>1, <2>2
<1>7. v.dictLimit <= WIN!EndIndex(v) /\ v.lowLimit <= v.dictLimit
  BY <1>1, <1>2, <1>4, <1>5
<1> QED
  BY <1>4, <1>5, <1>6, <1>7 DEF Slides, WindowOrdered, end

\* ZSTD_window_update and ZSTD_window_enforceMaxDist only forget.
LEMMA Updated ==
  ASSUME NEW w \in WindowType, WindowOrdered(w), NEW src \in Int, NEW n \in Nat \ {0},
         NEW u, u = WIN!WindowUpdate(w, src, n, FALSE)
  PROVE  u \in WindowType /\ Slides(w, u, src, n) /\ WindowOrdered(u) /\ u.nextSrc = src + n
<1> DEFINE moved == IF WIN!Contiguous(w, src, n, FALSE) THEN w ELSE WIN!NewSegment(w, src)
           v == [moved EXCEPT !.nextSrc = src + n]
<1>1. v \in WindowType /\ Slides(w, v, src, n) /\ WindowOrdered(v)
  <2>1. CASE moved = w /\ src = w.nextSrc
    BY <2>1, Contiguous
  <2>2. CASE moved = WIN!NewSegment(w, src)
    <3>1. PICK next : next = src + n
      OBVIOUS
    <3>2. v = WithNext(WIN!NewSegment(w, src), next)
      BY <2>2, <3>1 DEF WithNext
    <3>3. next \in Int
      BY <3>1
    <3> QED
      BY <3>1, <3>2, <3>3, Segment
  <2> QED
    BY <2>1, <2>2 DEF WIN!Contiguous
<1>2. u = WIN!DropOverlap(v, src, n)
  BY DEF WIN!WindowUpdate
<1>3. v.nextSrc = src + n
  BY DEF WIN!NewSegment, WindowType
<1> HIDE DEF v
<1>4. /\ v.base \in Int /\ v.dictBase \in Int /\ v.lowLimit \in Int
      /\ v.dictLimit \in Int /\ v.nextSrc \in Int /\ WIN!EndIndex(v) \in Int
      /\ v.lowLimit <= v.dictLimit /\ v.dictLimit <= WIN!EndIndex(v)
  BY <1>1, WindowFields DEF WindowOrdered
<1>5. CASE u = v
  BY <1>1, <1>3, <1>5
<1>6. CASE u # v
  <2> DEFINE low == WIN!LimitMin(src + n - v.dictBase, v.dictLimit)
  <2>1. u = [v EXCEPT !.lowLimit = low] /\ src + n > v.dictBase + v.lowLimit
    BY <1>2, <1>6 DEF WIN!DropOverlap
  <2>2. low \in Int /\ v.lowLimit <= low /\ low <= v.dictLimit
    BY <1>4, <2>1 DEF WIN!LimitMin
  <2> HIDE DEF low
  <2>3. /\ u \in WindowType /\ u.base = v.base /\ u.dictBase = v.dictBase
        /\ u.lowLimit = low /\ u.dictLimit = v.dictLimit /\ u.nextSrc = v.nextSrc
    BY <1>1, <2>1, <2>2 DEF WindowType
  <2>4. u.dictLimit <= WIN!EndIndex(u)
    BY <1>4, <2>3 DEF WIN!EndIndex
  <2>5. v.lowLimit <= u.lowLimit /\ u.lowLimit <= u.dictLimit
    BY <2>2, <2>3
  <2> QED
    BY <1>1, <1>3, <2>3, <2>4, <2>5, Raised
<1> QED
  BY <1>5, <1>6

\* ZSTD_window_enforceMaxDist only raises the limits.
LEMMA Enforced ==
  ASSUME NEW w \in WindowType, NEW v \in WindowType, NEW src \in Int, NEW n \in Nat,
         Slides(w, v, src, n), WindowOrdered(v), NEW end \in Int, end = v.nextSrc,
         NEW u, u = WIN!EnforceMaxDist(v, end, WindowSize, 0)
  PROVE  u \in WindowType /\ Slides(w, u, src, n) /\ WindowOrdered(u)
<1>3. /\ v.base \in Int /\ v.dictBase \in Int /\ v.lowLimit \in Int
      /\ v.dictLimit \in Int /\ v.nextSrc \in Int /\ WIN!EndIndex(v) \in Int
      /\ v.lowLimit <= v.dictLimit /\ v.dictLimit <= WIN!EndIndex(v)
      /\ WIN!EndIndex(v) = end - v.base
  BY WindowFields DEF WindowOrdered, WIN!EndIndex
<1>4. WindowSize \in Nat
  BY SizesAssumption
<1>5. CASE u = v
  BY <1>5
<1>6. CASE u # v
  <2> DEFINE low == WIN!LimitMax(v.lowLimit, end - v.base - WindowSize)
             limit == WIN!LimitMax(v.dictLimit, low)
  <2>1. u = [v EXCEPT !.lowLimit = low, !.dictLimit = limit]
    BY <1>6 DEF WIN!EnforceMaxDist
  <2>3. low \in Int /\ v.lowLimit <= low /\ low <= WIN!EndIndex(v)
    BY <1>3, <1>4 DEF WIN!LimitMax
  <2>4. /\ limit \in Int /\ low <= limit /\ limit <= WIN!EndIndex(v)
        /\ limit = v.dictLimit \/ (limit = low /\ v.dictLimit <= limit)
    BY <1>3, <2>3 DEF WIN!LimitMax
  <2> HIDE DEF low, limit
  <2>5. /\ u \in WindowType /\ u.base = v.base /\ u.dictBase = v.dictBase
        /\ u.lowLimit = low /\ u.dictLimit = limit /\ u.nextSrc = v.nextSrc
    BY <2>1, <2>3, <2>4 DEF WindowType
  <2>6. u.dictLimit <= WIN!EndIndex(u)
    BY <1>3, <2>4, <2>5 DEF WIN!EndIndex
  <2>7. /\ v.lowLimit <= u.lowLimit /\ u.lowLimit <= u.dictLimit
        /\ u.dictLimit = v.dictLimit \/ (u.dictLimit = u.lowLimit /\ v.dictLimit <= u.dictLimit)
    BY <2>3, <2>4, <2>5
  <2> QED
    BY <2>5, <2>6, <2>7, Raised
<1> QED
  BY <1>5, <1>6

\* The window after a turn ends with the input of the job.
LEMMA LdmSlides ==
  ASSUME NEW w \in WindowType, WindowOrdered(w), NEW src \in Int, NEW n \in Nat \ {0},
         NEW u, u = WIN!EnforceMaxDist(WIN!WindowUpdate(w, src, n, FALSE), src + n, WindowSize, 0)
  PROVE  u \in WindowType /\ Slides(w, u, src, n) /\ WindowOrdered(u)
<1>1. PICK v : v = WIN!WindowUpdate(w, src, n, FALSE)
  OBVIOUS
<1>2. PICK end : end = src + n
  OBVIOUS
<1>3. /\ v \in WindowType /\ Slides(w, v, src, n) /\ WindowOrdered(v)
      /\ end = v.nextSrc /\ end \in Int /\ n \in Nat
  <2>1. v \in WindowType /\ Slides(w, v, src, n) /\ WindowOrdered(v) /\ v.nextSrc = src + n
    BY <1>1, Updated
  <2>2. end \in Int /\ n \in Nat
    BY <1>2
  <2> QED
    BY <1>2, <2>1, <2>2
<1>4. u = WIN!EnforceMaxDist(v, end, WindowSize, 0)
  BY <1>1, <1>2
<1> QED
  BY <1>3, <1>4, Enforced

Lowered(w, low, limit) == [w EXCEPT !.lowLimit = low, !.dictLimit = limit]

\* The windows that are built here are windows.
LEMMA WindowRecords ==
  ASSUME NEW w \in WindowType, NEW low \in Int, NEW limit \in Int, NEW next \in Int
  PROVE  /\ Lowered(w, low, limit) \in WindowType
         /\ WithNext(w, next) \in WindowType
         /\ [w EXCEPT !.lowLimit = low] \in WindowType
BY DEF Lowered, WithNext, WindowType

\* ZSTD_window_enforceMaxDist returns a window.
LEMMA EnforceTyped ==
  ASSUME NEW v \in WindowType, NEW end \in Int
  PROVE  WIN!EnforceMaxDist(v, end, WindowSize, 0) \in WindowType
<1> DEFINE low == WIN!LimitMax(v.lowLimit, end - v.base - WindowSize)
           limit == WIN!LimitMax(v.dictLimit, low)
<1>1. \/ WIN!EnforceMaxDist(v, end, WindowSize, 0) = v
      \/ WIN!EnforceMaxDist(v, end, WindowSize, 0) = Lowered(v, low, limit)
  BY DEF WIN!EnforceMaxDist, Lowered
<1>2. low \in Int
  BY WindowFields, SizesAssumption DEF WIN!LimitMax
<1> HIDE DEF low
<1>3. limit \in Int
  BY <1>2, WindowFields DEF WIN!LimitMax
<1> HIDE DEF limit
<1> QED
  BY <1>1, <1>2, <1>3, WindowRecords

\* The window after a turn is one.
LEMMA LdmTyped ==
  ASSUME NEW w \in WindowType, NEW src \in Int, NEW n \in Nat \ {0}
  PROVE  WIN!EnforceMaxDist(WIN!WindowUpdate(w, src, n, FALSE), src + n, WindowSize, 0)
           \in WindowType
<1>1. PICK next : next = src + n
  OBVIOUS
<1>2. next \in Int
  BY <1>1
<1>3. WIN!NewSegment(w, src) \in WindowType
  <2> DEFINE end == WIN!EndIndex(w)
             low == IF end - w.dictLimit < 1 THEN end ELSE w.dictLimit
  <2>1. end \in Int /\ low \in Int /\ w.base \in Int /\ src - end \in Int
    BY WindowFields
  <2> HIDE DEF end
  <2>2. WIN!NewSegment(w, src) = Segmented(w, low, end, w.base, src - end)
    BY DEF WIN!NewSegment, Segmented, end
  <2> HIDE DEF low
  <2> QED
    BY <2>1, <2>2 DEF Segmented, WindowType
<1>4. \A m \in WindowType : WithNext(m, next) \in WindowType
  BY <1>2, WindowRecords
<1>5. ASSUME NEW v \in WindowType
      PROVE  WIN!DropOverlap(v, src, n) \in WindowType
  <2> DEFINE low == WIN!LimitMin(src + n - v.dictBase, v.dictLimit)
  <2>1. low \in Int
    BY WindowFields DEF WIN!LimitMin
  <2> HIDE DEF low
  <2>2. WIN!DropOverlap(v, src, n) \in {v, [v EXCEPT !.lowLimit = low]}
    BY DEF WIN!DropOverlap, low
  <2> QED
    BY <2>1, <2>2, WindowRecords
<1>6. \A v \in WindowType : WIN!EnforceMaxDist(v, next, WindowSize, 0) \in WindowType
  BY <1>2, EnforceTyped
<1>7. WIN!WindowUpdate(w, src, n, FALSE) \in WindowType
  <2>1. PICK m \in WindowType : WIN!WindowUpdate(w, src, n, FALSE) =
                                   WIN!DropOverlap(WithNext(m, next), src, n)
    <3>1. \E m \in {w, WIN!NewSegment(w, src)} :
            WIN!WindowUpdate(w, src, n, FALSE) = WIN!DropOverlap(WithNext(m, next), src, n)
      BY <1>1 DEF WIN!WindowUpdate, WithNext
    <3> QED
      BY <1>3, <3>1
  <2> QED
    BY <1>4, <1>5, <2>1
<1> QED
  BY <1>1, <1>6, <1>7

(* ------------------- steps that leave the jobs as they are -------------- *)
\* What such a step of a worker keeps.
LEMMA QuietJobs ==
  ASSUME MTInv, CallerKept, jobs' = jobs, client' = client, shutdown' = shutdown,
         fails' = fails
  PROVE  /\ ControlInv' /\ CallInv' /\ JobsInv' /\ DeliveryInv' /\ RingInv' /\ CutsInv'
         /\ StaleInv' /\ (serial' = serial => WindowInv')
<1>1. /\ Types /\ ControlInv /\ CallInv /\ JobsInv /\ DeliveryInv /\ SerialInv /\ RingInv
      /\ WindowInv /\ CutsInv /\ JobTypes
  BY DEF MTInv, Types
<1>2. TableLen' = TableLen /\ \A i \in Nat : J(i)' = J(i)
  BY <1>1, JobsKept
<1>3. Ids \subseteq Held /\ Held \subseteq Nat
  BY <1>1, IdsHeld
<1>4. /\ \A i \in Held : J(i)' = J(i)
      /\ \A i \in Ids : J(i)' = J(i)
      /\ \A i \in Ids : Active(J(i))' => Active(J(i))
  <2>1. \A i \in Ids : J(i)' = J(i)
    BY <1>2, <1>3
  <2>2. \A i \in Ids : Active(J(i))' => Active(J(i))
    BY <2>1 DEF Active
  <2> QED
    BY <1>2, <1>3, <2>1, <2>2
<1>5. ControlInv' /\ CallInv'
  BY <1>1, <1>2, SteadyControl
<1>6. JobsInv'
  <2>1. /\ LastID' = LastID /\ Ids' = Ids /\ Cut' = Cut /\ FrameLen' = FrameLen
        /\ \A k : Unit(k)' = Unit(k)
    BY KeptTerms
  <2>2. frameEnded' = frameEnded /\ nextJobID' = nextJobID
    BY DEF CallerKept
  <2>3. \A j : OutputInv(j)' <=> OutputInv(j)
    BY <2>1 DEF OutputInv
  <2>4. \A i : J(i)' = J(i)
    BY DEF J, Slot
  <2> QED
    BY <1>1, <2>1, <2>2, <2>3, <2>4 DEF JobsInv
<1>11. \A i \in Ids : J(i)' = J(i) \/ Grows(J(i), J(i)')
  BY <1>4
<1>12. \A i \in Ids : /\ J(i)' = J(i) \/ Grows(J(i), J(i)')
                      /\ Active(J(i))' => Active(J(i))
  BY <1>4
<1>7. DeliveryInv'
  BY <1>1, <1>11, SteadyDelivery
<1>8. RingInv'
  BY <1>1, <1>12, SteadyRing
<1>9. CutsInv'
  BY <1>1, <1>2, <1>4, SteadyCuts
<1>10. ASSUME serial' = serial PROVE WindowInv'
  BY <1>1, <1>10, <1>11, SteadyWindow
<1>13. StaleInv'
  <2>1. StaleInv /\ Ids' = Ids /\ call' = call
    BY KeptTerms DEF MTInv, CallerKept
  <2>2. \A i : Slot(i)' = Slot(i)
    BY DEF Slot
  <2> QED
    BY <2>1, <2>2 DEF StaleInv
<1> QED
  BY <1>5, <1>6, <1>7, <1>8, <1>9, <1>10, <1>13

\* A step in which a thread takes up a job, leaves one, or sleeps.
LEMMA QuietStep ==
  ASSUME MTInv, CallerKept, jobs' = jobs, fails' = fails, serial' = serial,
         UNCHANGED <<queue, queueHead, queueTail, threadCapacity, shutdown, client>>,
         queueEmpty' \in BOOLEAN, thread' \in [1 .. MaxThreads -> ThreadStates],
         running' \in [1 .. MaxThreads -> Nat], job' \in [1 .. MaxThreads -> Places],
         WorkerInv', queueEmpty => queueEmpty',
         \A u \in 1 .. MaxThreads :
           thread'[u] = "run" /\ job'[u] \in {"resources", "serial"} =>
             \/ thread[u] = "run" /\ job[u] \in {"resources", "serial"} /\ running'[u] = running[u]
             \/ ~queueEmpty /\ running'[u] = queue[0]
  PROVE  MTInv'
<1>1. Types /\ JobTypes /\ SerialInv
  BY DEF MTInv, Types
<1>2. Types'
  <2>1. fails' \in Nat /\ serial' \in SerialType
    BY <1>1, Scalars
  <2>2. \E size \in TableSizes : jobs' \in [0 .. size - 1 -> JobType]
    BY <1>1, JobsKept
  <2> QED
    BY <1>1, <2>1, <2>2, WorkerTypes
<1>3. SerialInv'
  <2>1. LastID' = LastID /\ Ids' = Ids /\ Cut' = Cut /\ InFrame' = InFrame
    BY KeptTerms
  <2>2. frameEnded' = frameEnded /\ doneJobID' = doneJobID /\ nextJobID' = nextJobID
    BY DEF CallerKept
  <2>3. \A i : J(i)' = J(i)
    BY DEF J, Slot
  <2>4. Broken' = Broken
    BY <2>1, <2>3 DEF Broken
  <2>5. CutAt(serial.nextJobID)' = CutAt(serial.nextJobID)
    BY <2>1, <2>3 DEF CutAt
  <2>6. ASSUME NEW n \in Nat, ~queueEmpty => jobs[queue[0] - 1].jobID >= n,
               \A u \in 1 .. MaxThreads : thread[u] = "run" /\ job[u] \in {"resources", "serial"} =>
                 MyJob(u).jobID >= n
        PROVE  /\ ~queueEmpty' => jobs'[queue'[0] - 1].jobID >= n
               /\ \A u \in 1 .. MaxThreads :
                    thread'[u] = "run" /\ job'[u] \in {"resources", "serial"} =>
                      MyJob(u)'.jobID >= n
    BY <2>6 DEF MyJob, Mine
  <2>7. serial.nextJobID \in Nat
    BY <1>1, Scalars
  <2>8. InFrame /\ ~Broken /\ ~(frameEnded /\ doneJobID > LastID) =>
          /\ ~queueEmpty' => jobs'[queue'[0] - 1].jobID >= serial.nextJobID
          /\ \A u \in 1 .. MaxThreads :
               thread'[u] = "run" /\ job'[u] \in {"resources", "serial"} =>
                 MyJob(u)'.jobID >= serial.nextJobID
    BY <1>1, <2>6, <2>7 DEF SerialInv
  <2> QED
    BY <1>1, <2>1, <2>2, <2>3, <2>4, <2>5, <2>8 DEF SerialInv, Active
<1> QED
  BY <1>2, <1>3, QuietJobs DEF MTInv

\* What a step that takes up no new job leaves true of the workers.
LEMMA QuietWorkers ==
  ASSUME WorkerInv, CallerKept, jobs' = jobs, serial' = serial,
         UNCHANGED <<queue, queueEmpty, threadCapacity>>,
         \A u \in 1 .. MaxThreads :
           /\ thread'[u] = "run" <=> job'[u] # "none"
           /\ thread'[u] # "none" => thread[u] # "none"
           /\ Busy(u)' => Busy(u) /\ job'[u] = job[u] /\ running'[u] = running[u]
  PROVE  WorkerInv'
<1>1. \A s : Owned(s)' <=> Owned(s)
  BY DEF Owned, Posted, Slot, Active, CallerKept
<1>2. \A pc, j : Stage(pc, j)' <=> Stage(pc, j)
  BY DEF Stage
<1>3. \A u \in 1 .. MaxThreads : Busy(u)' => Mine(u)' = Mine(u) /\ MyJob(u)' = MyJob(u)
  BY DEF Mine, MyJob
<1>4. \A u \in 1 .. MaxThreads : Busy(u)' =>
        running'[u] > 0 /\ Owned(Mine(u))' /\ Stage(job[u], MyJob(u))'
  <2> SUFFICES ASSUME NEW u \in 1 .. MaxThreads, Busy(u)'
               PROVE  running'[u] > 0 /\ Owned(Mine(u))' /\ Stage(job[u], MyJob(u))'
    OBVIOUS
  <2>1. running[u] > 0 /\ Owned(Mine(u)) /\ Stage(job[u], MyJob(u))
    BY DEF WorkerInv
  <2>2. Owned(Mine(u))'
    BY <1>1, <1>3, <2>1
  <2>3. Stage(job[u], MyJob(u))'
    BY <1>2, <1>3, <2>1
  <2> QED
    BY <2>1, <2>2, <2>3
<1>5. ~queueEmpty' => /\ queue'[0] > 0 /\ Owned(queue[0] - 1)' /\ Pristine(jobs[queue[0] - 1])'
                      /\ \A u \in 1 .. MaxThreads : Busy(u)' => running'[u] # queue'[0]
  BY <1>1 DEF WorkerInv, Pristine
<1> QED
  BY <1>4, <1>5 DEF WorkerInv

\* What Types says of the pool.
LEMMA PoolShape ==
  ASSUME Types
  PROVE  /\ PoolTypes /\ queueEmpty \in BOOLEAN /\ thread \in [1 .. MaxThreads -> ThreadStates]
         /\ running \in [1 .. MaxThreads -> Nat] /\ job \in [1 .. MaxThreads -> Places]
         /\ queue[0] \in Nat /\ threadCapacity \in Nat
BY SizesAssumption DEF Types, PoolTypes

\* A worker waits for its turn.
LEMMA JobWaitsStep ==
  ASSUME MTInv, NEW t \in 1 .. MaxThreads, JobWaits(t)
  PROVE  MTInv'
<1>1. CallerKept /\ jobs' = jobs /\ serial' = serial /\ job' = job /\ fails' = fails
  BY WorkerKeeps DEF JobWaits, tableVars
<1>2. UNCHANGED <<thread, running, queue, queueHead, queueTail, queueEmpty,
                  threadCapacity, shutdown, client>>
  BY PoolKept DEF JobWaits
<1>3. Types /\ WorkerInv
  BY DEF MTInv
<1>4. WorkerInv'
  BY <1>1, <1>2, <1>3, QuietWorkers DEF Busy, WorkerInv
<1> QED
  BY <1>1, <1>2, <1>3, <1>4, PoolShape, QuietStep

\* A thread of the pool goes to sleep or exits.
LEMMA PoolThreadsStep ==
  ASSUME MTInv, NEW t \in 1 .. MaxThreads, PoolThreadStep(t)
  PROVE  MTInv'
<1>1. CallerKept /\ jobs' = jobs /\ serial' = serial /\ job' = job /\ fails' = fails
  BY WorkerKeeps DEF PoolThreadStep, tableVars, workVars
<1>2. Types /\ WorkerInv
  BY DEF MTInv
<1>3. PoolTypes /\ thread \in [1 .. MaxThreads -> ThreadStates] /\ job \in [1 .. MaxThreads -> Places]
      /\ queueEmpty \in BOOLEAN /\ running \in [1 .. MaxThreads -> Nat]
  BY <1>2, PoolShape
<1>4. /\ thread[t] = "lock"
      /\ \E s \in {"waiting", "exited"} : thread' = [thread EXCEPT ![t] = s]
      /\ UNCHANGED <<queue, queueHead, queueTail, queueEmpty, threadCapacity,
                     threadLimit, shutdown, running, client>>
  BY <1>3, ThreadSteps DEF PoolThreadStep
<1>5. PICK s \in {"waiting", "exited"} : thread' = [thread EXCEPT ![t] = s]
  BY <1>4
<1>6. thread' \in [1 .. MaxThreads -> ThreadStates]
  BY <1>3, <1>5 DEF ThreadStates
<1>7. job[t] = "none"
  BY <1>2, <1>4 DEF WorkerInv
<1>8. \A u \in 1 .. MaxThreads :
           /\ thread'[u] = "run" <=> job'[u] # "none"
           /\ thread'[u] # "none" => thread[u] # "none"
           /\ thread'[u] = "run" => thread[u] = "run"
           /\ Busy(u)' => Busy(u) /\ job'[u] = job[u] /\ running'[u] = running[u]
  BY <1>1, <1>2, <1>3, <1>4, <1>5, <1>7 DEF Busy, WorkerInv
<1>9. WorkerInv'
  BY <1>1, <1>2, <1>4, <1>8, QuietWorkers
<1> QED
  BY <1>1, <1>3, <1>4, <1>6, <1>8, <1>9, QuietStep

\* A worker is done with its job.
LEMMA JobReturnsStep ==
  ASSUME MTInv, NEW t \in 1 .. MaxThreads, JobReturns(t)
  PROVE  MTInv'
<1>1. CallerKept /\ jobs' = jobs /\ serial' = serial /\ fails' = fails
      /\ job' = [job EXCEPT ![t] = "none"]
  BY WorkerKeeps DEF JobReturns, tableVars, GoTo
<1>2. Types /\ WorkerInv
  BY DEF MTInv
<1>3. PoolTypes /\ thread \in [1 .. MaxThreads -> ThreadStates] /\ job \in [1 .. MaxThreads -> Places]
      /\ queueEmpty \in BOOLEAN /\ running \in [1 .. MaxThreads -> Nat]
  BY <1>2, PoolShape
<1>4. /\ thread[t] = "run" /\ running' = [running EXCEPT ![t] = 0]
      /\ thread' = [thread EXCEPT ![t] = "lock"]
      /\ UNCHANGED <<queue, queueHead, queueTail, queueEmpty, threadCapacity,
                     threadLimit, shutdown, client>>
  BY <1>3, Finishes DEF JobReturns
<1>5. /\ thread' \in [1 .. MaxThreads -> ThreadStates] /\ job' \in [1 .. MaxThreads -> Places]
      /\ running' \in [1 .. MaxThreads -> Nat]
  BY <1>1, <1>3, <1>4 DEF ThreadStates, Places
<1>6. \A u \in 1 .. MaxThreads :
           /\ thread'[u] = "run" <=> job'[u] # "none"
           /\ thread'[u] # "none" => thread[u] # "none"
           /\ thread'[u] = "run" => thread[u] = "run" /\ u # t
           /\ Busy(u)' => Busy(u) /\ job'[u] = job[u] /\ running'[u] = running[u]
  BY <1>1, <1>2, <1>3, <1>4 DEF Busy, WorkerInv
<1>7. \A u \in 1 .. MaxThreads : u # t => job'[u] = job[u] /\ running'[u] = running[u]
  BY <1>1, <1>3, <1>4
<1>8. WorkerInv'
  BY <1>1, <1>2, <1>4, <1>6, QuietWorkers
<1> QED
  BY <1>1, <1>3, <1>4, <1>5, <1>6, <1>7, <1>8, QuietStep

\* A thread takes the job that was posted.
LEMMA PopsJobStep ==
  ASSUME MTInv, NEW t \in 1 .. MaxThreads, PopsJob(t)
  PROVE  MTInv'
<1>1. CallerKept /\ jobs' = jobs /\ serial' = serial /\ fails' = fails
      /\ job' = [job EXCEPT ![t] = "resources"]
  BY WorkerKeeps DEF PopsJob, tableVars, GoTo
<1>2. Types /\ WorkerInv
  BY DEF MTInv
<1>3. PoolTypes /\ thread \in [1 .. MaxThreads -> ThreadStates] /\ job \in [1 .. MaxThreads -> Places]
      /\ queueEmpty \in BOOLEAN /\ running \in [1 .. MaxThreads -> Nat]
  BY <1>2, PoolShape
<1>4. /\ thread[t] = "lock" /\ ~queueEmpty
      /\ queue[0] \in Nat /\ running' = [running EXCEPT ![t] = queue[0]]
      /\ thread' = [thread EXCEPT ![t] = "run"]
      /\ queueEmpty' = TRUE /\ queueHead' = 0 /\ queueHead = 0
      /\ UNCHANGED <<queue, queueTail, threadCapacity, threadLimit, shutdown, client>>
  BY <1>3, Pops DEF PopsJob, PoolTypes
<1>5. /\ thread' \in [1 .. MaxThreads -> ThreadStates] /\ job' \in [1 .. MaxThreads -> Places]
      /\ running' \in [1 .. MaxThreads -> Nat]
  BY <1>1, <1>3, <1>4 DEF ThreadStates, Places
<1>6. \A u \in 1 .. MaxThreads : u # t =>
        job'[u] = job[u] /\ running'[u] = running[u] /\ thread'[u] = thread[u]
  BY <1>1, <1>3, <1>4
<1>7. job'[t] = "resources" /\ running'[t] = queue[0] /\ thread'[t] = "run"
  BY <1>1, <1>3, <1>4
<1>8. /\ queue[0] > 0 /\ Owned(queue[0] - 1) /\ Pristine(jobs[queue[0] - 1])
      /\ \A u \in 1 .. MaxThreads : Busy(u) => running[u] # queue[0]
  BY <1>2, <1>4 DEF WorkerInv
<1>9. \A s : Owned(s)' <=> Owned(s)
  BY <1>1 DEF Owned, Posted, Slot, Active, CallerKept
<1>10. \A pc, j : Stage(pc, j)' <=> Stage(pc, j)
  BY <1>1 DEF Stage
<1>11. ASSUME NEW u \in 1 .. MaxThreads, Busy(u)'
       PROVE  running'[u] > 0 /\ Owned(Mine(u))' /\ Stage(job[u], MyJob(u))'
  <2>1. CASE u = t
    <3>1. Mine(u)' = queue[0] - 1 /\ MyJob(u)' = jobs[queue[0] - 1]
      BY <1>1, <1>7, <2>1 DEF Mine, MyJob
    <3>2. Stage("resources", jobs[queue[0] - 1])
      BY <1>8 DEF Stage
    <3> QED
      BY <1>7, <1>8, <1>9, <1>10, <2>1, <3>1, <3>2
  <2>2. CASE u # t
    <3>1. Busy(u)
      BY <1>6, <1>11, <2>2 DEF Busy
    <3>2. running[u] > 0 /\ Owned(Mine(u)) /\ Stage(job[u], MyJob(u))
      BY <1>2, <3>1 DEF WorkerInv
    <3>3. Mine(u)' = Mine(u) /\ MyJob(u)' = MyJob(u)
      BY <1>1, <1>6, <2>2 DEF Mine, MyJob
    <3> QED
      BY <1>6, <1>9, <1>10, <2>2, <3>2, <3>3
  <2> QED
    BY <2>1, <2>2
<1>12. \A u, v \in 1 .. MaxThreads :
         Busy(u)' /\ Busy(v)' /\ u # v => running'[u] # running'[v]
  BY <1>2, <1>6, <1>7, <1>8 DEF WorkerInv, Busy
<1>13. \A u \in 1 .. MaxThreads : /\ thread'[u] = "run" <=> job'[u] # "none"
                                  /\ thread'[u] # "none" => u <= threadCapacity'
  BY <1>2, <1>4, <1>6, <1>7 DEF WorkerInv
<1>14. WorkerInv'
  BY <1>4, <1>11, <1>12, <1>13 DEF WorkerInv
<1> QED
  BY <1>1, <1>3, <1>4, <1>5, <1>6, <1>7, <1>14, QuietStep


(* --------------------------- turns of the workers ----------------------- *)
\* A turn changes the serial state and where the worker is; its job stays.
LEMMA TurnKeeps ==
  ASSUME MTInv, CallerKept, jobs' = jobs, fails' = fails,
         NEW t \in 1 .. MaxThreads, Busy(t), NEW b \in Ids, b \in Nat, MyJob(t) = J(b),
         Mine(t) = Slot(b), Slot(b) \in DOMAIN jobs, J(b) \in JobType,
         Posted(b), Active(J(b)), NEW pc \in Places \ {"none", "return"},
         job' = [job EXCEPT ![t] = pc],
         UNCHANGED <<thread, running, queue, queueHead, queueTail, queueEmpty,
                     threadCapacity, shutdown, client>>,
         Stage(pc, J(b))',
         serial.nextJobID <= serial'.nextJobID, serial' \in SerialType
  PROVE  /\ Types' /\ ControlInv' /\ CallInv' /\ WorkerInv' /\ JobsInv' /\ DeliveryInv'
         /\ RingInv' /\ CutsInv' /\ StaleInv'
<1>1. /\ Types /\ ControlInv /\ JobsInv /\ WorkerInv /\ JobTypes
      /\ job \in [1 .. MaxThreads -> Places] /\ thread \in [1 .. MaxThreads -> ThreadStates]
      /\ running \in [1 .. MaxThreads -> Nat] /\ queueEmpty \in BOOLEAN /\ fails \in Nat
  BY PoolShape, Scalars DEF MTInv
<1>2. /\ ControlInv' /\ CallInv' /\ JobsInv' /\ DeliveryInv' /\ RingInv' /\ CutsInv' /\ StaleInv'
  BY QuietJobs
<1>3. Types'
  <2>1. \E size \in TableSizes : jobs' \in [0 .. size - 1 -> JobType]
    BY <1>1, JobsKept
  <2>2. job' \in [1 .. MaxThreads -> Places]
    BY <1>1
  <2> QED
    BY <1>1, <2>1, <2>2, WorkerTypes
<1>4. WorkerInv'
  <2>1. PICK r : r = J(b)
    OBVIOUS
  <2>2. jobs' = [jobs EXCEPT ![Slot(b)] = r]
    BY <2>1, TableShape, <1>1 DEF J
  <2>3. Grows(J(b), r) /\ r \in JobType /\ Active(r)
    BY <2>1 DEF Grows, JobType
  <2>4. J(b)' = J(b)
    BY <1>1, JobsKept
  <2>5. Stage(pc, r)'
    BY <2>1, <2>4 DEF Stage, Pristine
  <2> QED
    BY <1>1, <2>2, <2>3, <2>5, WorkerWrote
<1> QED
  BY <1>2, <1>3, <1>4

\* ZSTDMT_serialState_ensureFinished.
TurnSet(s, n, w) == [s EXCEPT !.nextJobID = n, !.ldmWindow = w]

\* A serial state whose turn was moved on is one.
LEMMA TurnSetSerial ==
  ASSUME NEW s \in SerialType, NEW n \in Nat, NEW w \in WindowType,
         NEW r, r = TurnSet(s, n, w)
  PROVE  r \in SerialType /\ r.nextJobID = n
BY DEF SerialType, TurnSet

\* ZSTDMT_serialState_ensureFinished moves the turn past a job that failed.
LEMMA JobEnsureFinishedStep ==
  ASSUME MTInv, NEW t \in 1 .. MaxThreads, JobEnsureFinished(t)
  PROVE  MTInv'
<1>1. /\ CallerKept /\ jobs' = jobs /\ fails' = fails
      /\ UNCHANGED <<thread, running, queue, queueHead, queueTail, queueEmpty,
                     threadCapacity, shutdown, client>>
      /\ job' = [job EXCEPT ![t] = "report"]
  BY WorkerKeeps, PoolKept DEF JobEnsureFinished, tableVars, GoTo
<1>2. Types /\ ControlInv /\ WorkerInv /\ JobsInv /\ SerialInv
  BY DEF MTInv
<1>3. Busy(t) /\ job[t] \in {"finish", "noCCtx", "compress"}
  BY DEF JobEnsureFinished, At, Busy
<1>4. PICK b \in Ids : /\ b \in Nat /\ Posted(b) /\ Mine(t) = Slot(b) /\ Slot(b) \in DOMAIN jobs
                       /\ MyJob(t) = J(b) /\ J(b) \in JobType /\ J(b).jobID = b
                       /\ Active(J(b)) /\ Stage(job[t], J(b))
  BY <1>2, <1>3, MyJobIs
<1>5. J(b)' = J(b)
  BY <1>1, <1>2, <1>4, JobsKept DEF Types
<1>6. /\ serial \in SerialType /\ serial.nextJobID \in Nat
      /\ "report" \in Places \ {"none", "return"}
  BY <1>2, Scalars DEF Places
<1>7. CASE serial.nextJobID > b
  <2>1. serial' = serial
    BY <1>4, <1>6, <1>7 DEF JobEnsureFinished
  <2>2. J(b).cSize = Error \/ J(b).consumed + 1 = J(b).src.size
    <3>1. CASE job[t] # "compress"
      BY <1>3, <1>4, <3>1 DEF Stage
    <3>2. CASE job[t] = "compress"
      <4>1. J(b).consumed + 1 >= J(b).src.size
        BY <1>4, <3>2 DEF JobEnsureFinished, At
      <4>2. J(b).consumed \in Nat /\ J(b).src.size \in Nat /\ J(b).consumed < J(b).src.size
        BY <1>4 DEF JobType, RangeType, Active
      <4> QED
        BY <4>1, <4>2
    <3> QED
      BY <3>1, <3>2
  <2>3. ~Pristine(J(b))
    BY <1>3, <1>4 DEF Stage, Pristine, Error
  <2>4. Stage("report", J(b))
    BY <1>4, <1>7, <2>2, <2>3 DEF Stage
  <2>5. /\ J(b).last /\ Checksum /\ b > 0 => J(b).sum
        /\ J(b).consumed <= J(b).src.size /\ (J(b).cSize # Error => OutputInv(J(b)))
        /\ (J(b).cSize = Error => fails > 0)
    BY <1>2, <1>4 DEF JobsInv
  <2>6. PICK r : r = J(b)
    OBVIOUS
  <2>7. jobs' = [jobs EXCEPT ![Slot(b)] = r]
    BY <1>1, <1>2, <2>6, TableShape DEF J, Types
  <2>8. /\ Grows(J(b), r) /\ r \in JobType /\ Active(r) /\ Stage("report", r)
        /\ r.consumed <= r.src.size /\ (r.cSize # Error => OutputInv(r))
        /\ (r.cSize = Error => fails' > 0) /\ (J(b).cSize = Error => r.cSize = Error)
        /\ (r.last /\ Checksum /\ b > 0 => r.sum)
    BY <1>1, <1>4, <2>4, <2>5, <2>6 DEF Grows, JobType
  <2>9. "report" \in Places \ {"none", "resources"}
    BY DEF Places
  <2> QED
    BY <1>1, <1>3, <1>4, <2>1, <2>7, <2>8, <2>9, WorkerJobStep
<1>8. CASE ~(serial.nextJobID > b)
  <2>1. job[t] \in {"finish", "noCCtx"} /\ J(b).cSize = Error
    BY <1>3, <1>4, <1>6, <1>8 DEF Stage
  <2>2. serial' = [serial EXCEPT !.nextJobID = b + 1, !.ldmWindow = WIN!WindowClear(@)]
    BY <1>4, <1>6, <1>8 DEF JobEnsureFinished
  <2>3. serial.ldmWindow \in WindowType
    BY <1>6 DEF SerialType
  <2>4. WIN!WindowClear(serial.ldmWindow) \in WindowType
    BY <2>3, WindowFields DEF WIN!WindowClear, WindowType
  <2>5. /\ serial' \in SerialType /\ serial'.nextJobID = b + 1
        /\ serial.nextJobID <= serial'.nextJobID
    <3>1. PICK w : w = WIN!WindowClear(serial.ldmWindow)
      OBVIOUS
    <3>2. PICK n : n = b + 1
      OBVIOUS
    <3>3. n \in Nat /\ serial.nextJobID <= n
      BY <1>4, <1>6, <1>8, <3>2
    <3>4. serial' = TurnSet(serial, n, w) /\ w \in WindowType
      BY <2>2, <2>4, <3>1, <3>2 DEF TurnSet
    <3>5. serial' \in SerialType /\ serial'.nextJobID = n
      BY <1>6, <3>3, <3>4, TurnSetSerial
    <3> QED
      BY <3>2, <3>3, <3>5
  <2>6. Stage("report", J(b))'
    <3>1. ~Pristine(J(b))
      BY <2>1 DEF Pristine, Error
    <3>2. b < serial'.nextJobID
      BY <1>4, <2>5
    <3> QED
      BY <1>4, <1>5, <2>1, <3>1, <3>2 DEF Stage, Pristine
  <2>7. /\ Types' /\ ControlInv' /\ CallInv' /\ WorkerInv' /\ JobsInv' /\ DeliveryInv'
        /\ RingInv' /\ CutsInv' /\ StaleInv'
    BY <1>1, <1>3, <1>4, <1>6, <2>5, <2>6, TurnKeeps
  <2>8. fails' > 0
    BY <1>1, <1>2, <2>1 DEF JobsInv
  <2>9. WindowInv'
    BY <2>8 DEF WindowInv
  <2>10. Ids' = Ids /\ \A i : J(i)' = J(i)
    BY <1>1, KeptTerms DEF J, Slot
  <2>11. Broken'
    <3>1. b < serial'.nextJobID
      BY <1>4, <2>5
    <3> QED
      BY <2>1, <2>10, <3>1 DEF Broken
  <2>12. SerialInv'
    <3>1. \A i \in Ids : J(i).src.size > 0 /\ ~Active(J(i)) /\ J(i).cSize # Error =>
            i < serial'.nextJobID
      <4>1. Ids \subseteq Nat /\ serial'.nextJobID \in Nat
        BY <1>2, <1>4, <2>5, IdsHeld DEF Types
      <4>2. \A i \in Ids : J(i).src.size > 0 /\ ~Active(J(i)) /\ J(i).cSize # Error =>
              i < serial.nextJobID
        BY <1>2 DEF SerialInv
      <4>3. \A i \in Nat : i < serial.nextJobID => i < serial'.nextJobID
        BY <1>6, <2>5, <4>1
      <4> QED
        BY <4>1, <4>2, <4>3
    <3> QED
      BY <2>10, <2>11, <3>1 DEF SerialInv, Active
  <2> QED
    BY <2>7, <2>9, <2>12 DEF MTInv
<1> QED
  BY <1>7, <1>8

\* A worker takes its turn before the first error: it is the one that is next.
LEMMA TurnInOrder ==
  ASSUME Types, ControlInv, WorkerInv, JobsInv, SerialInv,
         InFrame, ~Broken, NEW b \in Ids, b \in Nat, Posted(b),
         NEW t \in 1 .. MaxThreads, Busy(t), job[t] = "serial", MyJob(t) = J(b),
         Mine(t) = Slot(b), J(b).jobID = b, serial.nextJobID >= b
  PROVE  /\ serial.nextJobID = b /\ (Checksum => serial.hashed = CutAt(b))
         /\ \A u \in 1 .. MaxThreads \ {t} :
              thread[u] = "run" /\ job[u] \in {"resources", "serial"} => MyJob(u).jobID >= b + 1
         /\ ~queueEmpty => jobs[queue[0] - 1].jobID >= b + 1
<1>1. /\ serial.nextJobID \in Nat /\ doneJobID \in Nat /\ nextJobID \in Nat /\ LastID \in Int
      /\ JobTypes /\ running \in [1 .. MaxThreads -> Nat] /\ queue[0] \in Nat
  BY Scalars, IdsHeld, PoolShape
<1>2. doneJobID <= LastID
  BY <1>1 DEF Ids
<1>3. /\ Checksum => serial.hashed = CutAt(serial.nextJobID)
      /\ \A u \in 1 .. MaxThreads : thread[u] = "run" /\ job[u] \in {"resources", "serial"} =>
           MyJob(u).jobID >= serial.nextJobID
      /\ ~queueEmpty => jobs[queue[0] - 1].jobID >= serial.nextJobID
  BY <1>1, <1>2 DEF SerialInv
<1>4. serial.nextJobID = b
  <2>1. MyJob(t).jobID >= serial.nextJobID
    BY <1>3 DEF Busy
  <2> QED
    BY <1>1, <2>1
<1>5. ASSUME NEW s \in DOMAIN jobs, Owned(s), s # Slot(b), jobs[s].jobID >= b
      PROVE  jobs[s].jobID >= b + 1
  <2>1. jobs[s].jobID \in Nat
    BY <1>1, TableShape DEF JobType
  <2>2. jobs[s].jobID # b
    BY <1>5 DEF Owned
  <2> QED
    BY <1>5, <2>1, <2>2
<1>6. ASSUME NEW u \in 1 .. MaxThreads \ {t}, thread[u] = "run",
             job[u] \in {"resources", "serial"}
      PROVE  MyJob(u).jobID >= b + 1
  <2>1. Busy(u) /\ Owned(Mine(u)) /\ running[u] # running[t]
    BY <1>6 DEF Busy, WorkerInv
  <2>2. Mine(u) # Slot(b)
    BY <1>1, <2>1 DEF Mine
  <2>3. Mine(u) \in DOMAIN jobs /\ jobs[Mine(u)].jobID >= b
    BY <1>3, <1>4, <1>6, <2>1 DEF Owned, MyJob
  <2> QED
    BY <1>5, <2>1, <2>2, <2>3 DEF MyJob
<1>7. ASSUME ~queueEmpty
      PROVE  jobs[queue[0] - 1].jobID >= b + 1
  <2>1. Owned(queue[0] - 1) /\ running[t] # queue[0]
    BY <1>7 DEF WorkerInv
  <2>2. queue[0] - 1 # Slot(b)
    BY <1>1, <2>1 DEF Mine
  <2>3. queue[0] - 1 \in DOMAIN jobs /\ jobs[queue[0] - 1].jobID >= b
    BY <1>3, <1>4, <1>7, <2>1 DEF Owned
  <2> QED
    BY <1>5, <2>1, <2>2, <2>3
<1> QED
  BY <1>3, <1>4, <1>6, <1>7


\* The input of a job is in the round buffer, and not where the caller writes.
LEMMA InputInPlace ==
  ASSUME Types, RingInv, NEW b \in Ids, J(b) \in JobType, Active(J(b)),
         NEW k \in Nat, k < J(b).src.size, NEW a, a = J(b).src.start + k
  PROVE  /\ a \in 0 .. roundBuff.capacity - 1 /\ mem[a] = J(b).at + k
         /\ InFrame /\ inBuff.start # None => a \notin roundBuff.pos .. roundBuff.pos + Section - 1
<1>1. /\ Placed(J(b)) /\ (InFrame => ThisLap(J(b)) \/ LastLap(J(b)))
  BY DEF RingInv, LapsInv
<1>2. /\ J(b).at \in Nat /\ J(b).src.size \in Nat /\ J(b).src.start \in Int
      /\ J(b).prefix.size \in Nat /\ roundBuff.capacity \in Nat /\ roundBuff.pos \in Nat
      /\ Section \in Nat
  BY Scalars DEF JobType, RangeType
<1>3. a \in Int /\ J(b).src.start <= a /\ a < J(b).src.start + J(b).src.size
  BY <1>2
<1>4. /\ Lo(J(b)) \in Int /\ Hi(J(b)) = J(b).src.start + J(b).src.size
      /\ Lo(J(b)) <= J(b).src.start
  BY <1>2 DEF Lo, Hi
<1>5. /\ Lo(J(b)) >= 0 /\ J(b).src.start + Section <= roundBuff.capacity
      /\ J(b).src.size <= Section
      /\ \A m \in Lo(J(b)) .. Hi(J(b)) - 1 : mem[m] = J(b).at + (m - J(b).src.start)
  BY <1>1 DEF Placed
<1>6. a \in Lo(J(b)) .. Hi(J(b)) - 1 /\ a - J(b).src.start = k
  BY <1>2, <1>3, <1>4
<1>7. a \in 0 .. roundBuff.capacity - 1
  BY <1>2, <1>3, <1>4, <1>5
<1>8. mem[a] = J(b).at + k
  BY <1>5, <1>6
<1>9. ASSUME InFrame, inBuff.start # None
      PROVE  a \notin roundBuff.pos .. roundBuff.pos + Section - 1
  <2>1. CASE ThisLap(J(b))
    BY <1>2, <1>3, <1>4, <2>1 DEF ThisLap
  <2>2. CASE LastLap(J(b))
    BY <1>2, <1>3, <1>4, <1>9, <2>2 DEF LastLap, Room
  <2> QED
    BY <1>1, <1>9, <2>1, <2>2
<1> QED
  BY <1>7, <1>8, <1>9

\* ZSTDMT_serialState_genSequences.
LEMMA JobSerialStep ==
  ASSUME MTInv, NEW t \in 1 .. MaxThreads, JobSerial(t)
  PROVE  MTInv'
<1>1. /\ CallerKept /\ jobs' = jobs /\ fails' = fails
      /\ UNCHANGED <<thread, running, queue, queueHead, queueTail, queueEmpty,
                     threadCapacity, shutdown, client>>
      /\ job' = [job EXCEPT ![t] = "compress"]
  BY WorkerKeeps, PoolKept DEF JobSerial, tableVars, GoTo
<1>2. /\ Types /\ ControlInv /\ WorkerInv /\ JobsInv /\ SerialInv /\ RingInv /\ WindowInv
      /\ CallInv /\ JobTypes
  BY DEF MTInv, Types
<1>3. Busy(t) /\ job[t] = "serial"
  BY DEF JobSerial, At, Busy
<1>4. PICK b \in Ids : /\ b \in Nat /\ Posted(b) /\ Mine(t) = Slot(b) /\ Slot(b) \in DOMAIN jobs
                       /\ MyJob(t) = J(b) /\ J(b) \in JobType /\ J(b).jobID = b
                       /\ Active(J(b)) /\ Stage(job[t], J(b))
  BY <1>2, <1>3, MyJobIs
<1>5. J(b)' = J(b) /\ Ids' = Ids /\ LastID' = LastID /\ Cut' = Cut /\ InFrame' = InFrame
  BY <1>1, <1>2, <1>4, JobsKept, KeptTerms DEF Types
<1>6. /\ serial \in SerialType /\ serial.nextJobID \in Nat /\ serial.window \in WindowType
      /\ serial.ldmWindow \in WindowType /\ serial.hashed \in Int
      /\ "compress" \in Places \ {"none", "return"}
      /\ doneJobID \in Nat /\ nextJobID \in Nat /\ LastID \in Int /\ Ids \subseteq Nat
  BY <1>2, Scalars, IdsHeld DEF SerialType, Places, Held
<1>7. /\ J(b).at \in Nat /\ J(b).src.size \in Nat \ {0} /\ J(b).src.start \in Int
      /\ J(b).consumed = 0 /\ J(b).cSize = 0 /\ J(b).dst = <<>>
  BY <1>3, <1>4 DEF JobType, RangeType, Active, Stage
<1> DEFINE myTurn == serial.nextJobID = b
           window == IF Ldm THEN LdmUpdated(J(b)) ELSE serial.window
           turn == [nextJobID |-> serial.nextJobID + 1,
                    hashed |-> IF myTurn /\ Checksum THEN Hashed(J(b)) ELSE serial.hashed,
                    window |-> IF myTurn THEN window ELSE serial.window,
                    ldmWindow |-> IF myTurn /\ Ldm THEN window ELSE serial.ldmWindow]
<1>8. serial' = turn /\ serial.nextJobID >= b
  BY <1>4, <1>7 DEF JobSerial
<1>9. LdmUpdated(J(b)) \in WindowType
  BY <1>6, <1>7, LdmTyped DEF LdmUpdated
<1>10. serial' \in SerialType /\ serial'.nextJobID = serial.nextJobID + 1
  <2>1. window \in WindowType
    BY <1>6, <1>9
  <2>2. Hashed(J(b)) \in Int
    BY <1>7 DEF Hashed, None
  <2> HIDE DEF window
  <2>3. serial.nextJobID + 1 \in Nat
    BY <1>6
  <2> QED
    BY <1>6, <1>8, <2>1, <2>2, <2>3 DEF SerialType
<1>11. serial.nextJobID <= serial'.nextJobID /\ b < serial'.nextJobID
  BY <1>4, <1>6, <1>8, <1>10
<1>12. Stage("compress", J(b))'
  <2>1. ~Pristine(J(b))
    BY <1>7 DEF Pristine, NoBuffer
  <2> QED
    BY <1>4, <1>5, <1>7, <1>11, <2>1 DEF Stage, Pristine, Error
<1>13. /\ Types' /\ ControlInv' /\ CallInv' /\ WorkerInv' /\ JobsInv' /\ DeliveryInv'
       /\ RingInv' /\ CutsInv' /\ StaleInv'
  BY <1>1, <1>3, <1>4, <1>6, <1>10, <1>11, <1>12, TurnKeeps
<1> HIDE DEF turn
<1>14. \A i : J(i)' = J(i)
  BY <1>1 DEF J, Slot
<1>15. Broken => Broken'
  <2>1. ASSUME NEW k \in Ids, J(k).cSize = Error, k < serial.nextJobID
        PROVE  k < serial'.nextJobID
    BY <1>6, <1>10, <2>1
  <2> QED
    BY <1>5, <1>14, <2>1 DEF Broken
<1>16. InFrame /\ ~Broken =>
         /\ serial.nextJobID = b /\ (Checksum => serial.hashed = CutAt(b))
         /\ \A u \in 1 .. MaxThreads \ {t} :
              thread[u] = "run" /\ job[u] \in {"resources", "serial"} => MyJob(u).jobID >= b + 1
         /\ ~queueEmpty => jobs[queue[0] - 1].jobID >= b + 1
  BY <1>2, <1>3, <1>4, <1>8, TurnInOrder
<1>17. CutAt(b) = J(b).at /\ CutAt(b + 1)' = J(b).at + J(b).src.size
  <2>1. b <= LastID
    BY <1>4, <1>6 DEF Ids
  <2>2. J(b).at + J(b).src.size = IF b = LastID THEN Cut ELSE J(b + 1).at
    BY <1>2, <1>4 DEF JobsInv
  <2>3. b + 1 <= LastID <=> b # LastID
    BY <1>4, <1>6, <2>1
  <2> QED
    BY <1>5, <1>14, <2>1, <2>2, <2>3 DEF CutAt
<1>18. SerialInv'
  <2>1. \A i \in Ids : J(i).src.size > 0 /\ ~Active(J(i)) /\ J(i).cSize # Error =>
          i < serial'.nextJobID
    BY <1>2, <1>6, <1>10 DEF SerialInv
  <2>2. ASSUME InFrame, ~Broken
        PROVE  /\ doneJobID <= serial'.nextJobID /\ serial'.nextJobID <= nextJobID
               /\ Checksum => serial'.hashed = CutAt(serial.nextJobID)'
               /\ \A u \in 1 .. MaxThreads :
                    thread[u] = "run" /\ job'[u] \in {"resources", "serial"} =>
                      MyJob(u).jobID >= serial'.nextJobID
               /\ ~queueEmpty => jobs[queue[0] - 1].jobID >= serial'.nextJobID
    <3>1. /\ serial.nextJobID = b /\ (Checksum => serial.hashed = CutAt(b))
          /\ \A u \in 1 .. MaxThreads \ {t} :
               thread[u] = "run" /\ job[u] \in {"resources", "serial"} => MyJob(u).jobID >= b + 1
          /\ ~queueEmpty => jobs[queue[0] - 1].jobID >= b + 1
      BY <1>16, <2>2
    <3>2. serial'.nextJobID = b + 1
      BY <1>10, <3>1
    <3>3. doneJobID <= b + 1 /\ b + 1 <= nextJobID
      BY <1>4, <1>6 DEF Posted
    <3>4. Checksum => serial'.hashed = J(b).at + J(b).src.size
      BY <1>8, <1>17, <3>1 DEF turn, Hashed
    <3>5. Checksum => serial'.hashed = CutAt(serial.nextJobID)'
      BY <1>17, <3>2, <3>4 DEF CutAt
    <3>6. \A u \in 1 .. MaxThreads :
            thread[u] = "run" /\ job'[u] \in {"resources", "serial"} =>
              MyJob(u).jobID >= b + 1
      <4>1. job \in [1 .. MaxThreads -> Places]
        BY <1>2, PoolShape
      <4> QED
        BY <1>1, <3>1, <4>1
    <3> QED
      BY <3>1, <3>2, <3>3, <3>5, <3>6
  <2>3. /\ frameEnded' = frameEnded /\ doneJobID' = doneJobID /\ nextJobID' = nextJobID
    BY <1>1 DEF CallerKept
  <2>4. \A u : MyJob(u)' = MyJob(u)
    BY <1>1 DEF MyJob, Mine
  <2> QED
    BY <1>1, <1>5, <1>14, <1>15, <2>1, <2>2, <2>3, <2>4 DEF SerialInv, Active
<1>19. WindowInv'
  <2> SUFFICES ASSUME Ldm, fails = 0
               PROVE  WindowInv'
    BY <1>1 DEF WindowInv
  <2>1. InFrame
    <3>1. doneJobID # nextJobID
      BY <1>4, <1>6 DEF Posted
    <3>2. call.pc \notin {"init", "free", "freed", "waitAll"} /\ ret # Error
      BY <1>2, <3>1 DEF ControlInv
    <3>3. call.pc \in {"init", "idle", "range", "wrap", "take", "load", "create", "flush",
                      "waitAll", "free", "freed"}
      <4>1. call \in CallType
        BY <1>2, Scalars
      <4> QED
        BY <4>1 DEF CallType
    <3> QED
      BY <3>2, <3>3 DEF InFrame
  <2>2. ~Broken
    BY <1>2 DEF JobsInv, Broken
  <2>3. serial.nextJobID = b
    BY <1>16, <2>1, <2>2
  <2>4. ~(frameEnded /\ doneJobID > LastID)
    BY <1>6 DEF Ids
  <2> DEFINE w == serial.window
             n == J(b).src.size
             src == J(b).src.start
  <2>5. /\ WindowOrdered(w) /\ WIN!EndIndex(w) = J(b).at + 2
        /\ \A i \in w.lowLimit .. WIN!EndIndex(w) - 1 :
             /\ WIN!Address(w, i) \in 0 .. roundBuff.capacity - 1
             /\ mem[WIN!Address(w, i)] = i - 2
             /\ InFrame /\ inBuff.start # None =>
                  WIN!Address(w, i) \notin roundBuff.pos .. roundBuff.pos + Section - 1
    BY <1>2, <1>17, <2>1, <2>3, <2>4 DEF WindowInv, WindowOrdered
  <2>6. PICK u : u = LdmUpdated(J(b))
    OBVIOUS
  <2>7. u \in WindowType /\ WindowOrdered(u) /\ Slides(w, u, src, n)
    BY <1>6, <1>7, <2>5, <2>6, LdmSlides DEF LdmUpdated
  <2>8. serial'.window = u /\ serial'.ldmWindow = u
    BY <1>8, <2>3, <2>6 DEF turn
  <2> HIDE DEF w, n, src
  <2>9. u.lowLimit \in Int /\ WIN!EndIndex(u) \in Int /\ WIN!EndIndex(w) \in Int
        /\ n \in Nat /\ src \in Int
    BY <1>6, <1>7, <2>7, WindowFields DEF w, n, src
  <2>10. WIN!EndIndex(u) = CutAt(b + 1)' + 2
    <3>1. WIN!EndIndex(u) = WIN!EndIndex(w) + n
      BY <2>7 DEF Slides
    <3>2. J(b).at \in Nat /\ n = J(b).src.size
      BY <1>7 DEF n
    <3> QED
      BY <1>17, <2>5, <2>9, <3>1, <3>2
  <2>11. ASSUME NEW i \in u.lowLimit .. WIN!EndIndex(u) - 1
         PROVE  /\ WIN!Address(u, i) \in 0 .. roundBuff.capacity - 1
                /\ mem[WIN!Address(u, i)] = i - 2
                /\ InFrame /\ inBuff.start # None =>
                     WIN!Address(u, i) \notin roundBuff.pos .. roundBuff.pos + Section - 1
    <3>1. CASE i \in w.lowLimit .. WIN!EndIndex(w) - 1 /\ WIN!Address(u, i) = WIN!Address(w, i)
      BY <2>5, <3>1
    <3>2. CASE i >= WIN!EndIndex(w) /\ WIN!Address(u, i) = src + (i - WIN!EndIndex(w))
      <4>1. PICK k : k = i - WIN!EndIndex(w)
        OBVIOUS
      <4>2. WIN!EndIndex(u) = WIN!EndIndex(w) + n
        BY <2>7 DEF Slides
      <4>3. k \in Nat /\ k < n
        BY <2>9, <2>11, <3>2, <4>1, <4>2
      <4>4. PICK a : a = src + k
        OBVIOUS
      <4>5. /\ a \in 0 .. roundBuff.capacity - 1 /\ mem[a] = J(b).at + k
            /\ InFrame /\ inBuff.start # None => a \notin roundBuff.pos .. roundBuff.pos + Section - 1
        BY <1>2, <1>4, <4>3, <4>4, InputInPlace DEF n, src
      <4>6. J(b).at + k = i - 2
        BY <1>7, <2>5, <2>9, <2>11, <4>1, SMTT(30)
      <4> QED
        BY <3>2, <4>1, <4>4, <4>5, <4>6
    <3> QED
      BY <2>7, <3>1, <3>2 DEF Slides
  <2>12. serial'.nextJobID = b + 1
    BY <1>10, <2>3
  <2>13. WIN!EndIndex(u) = CutAt(serial.nextJobID)' + 2
    BY <2>10, <2>12 DEF CutAt
  <2>14. roundBuff' = roundBuff /\ mem' = mem /\ inBuff' = inBuff /\ Section' = Section
    BY <1>1, KeptTerms DEF CallerKept
  <2>15. u.lowLimit <= u.dictLimit /\ u.dictLimit <= WIN!EndIndex(u)
    BY <2>7 DEF WindowOrdered
  <2> QED
    BY <1>5, <2>8, <2>11, <2>13, <2>14, <2>15 DEF WindowInv
<1> QED
  BY <1>13, <1>18, <1>19 DEF MTInv

-----------------------------------------------------------------------------
(* ------------------------- steps of the caller -------------------------- *)
\* The workers, their jobs and the order of the jobs stay as they are.
WorkersKept ==
  UNCHANGED <<queue, queueHead, queueTail, queueEmpty, threadCapacity, shutdown, thread,
              running, client, serial, job, fails, jobs>>
OrderKept ==
  UNCHANGED <<doneJobID, nextJobID, jobReady, frameEnded, allJobsCompleted, sumFlag,
              nbWorkers, frames, frame, delivered>>

\* Steps that leave the pool and the jobs alone.
LEMMA KeepsWorkers ==
  ASSUME UNCHANGED <<poolState, jobs, serial, job, fails>>
  PROVE  WorkersKept
BY DEF poolState, WorkersKept

\* Steps that neither create nor flush a job.
LEMMA KeepsOrder ==
  ASSUME UNCHANGED <<orderVars, nbWorkers, frames, frame, delivered>>
  PROVE  OrderKept
BY DEF orderVars, OrderKept

\* What the order of the jobs and the frame say does not change.
LEMMA OrderTerms ==
  ASSUME WorkersKept, OrderKept
  PROVE  /\ Section' = Section /\ FrameLen' = FrameLen /\ Sync' = Sync /\ Units' = Units
         /\ \A k : Unit(k)' = Unit(k) /\ Posted(k)' = Posted(k) /\ J(k)' = J(k) /\ Slot(k)' = Slot(k)
         /\ TableLen' = TableLen
BY DEF WorkersKept, OrderKept, Section, FrameLen, Sync, Units, Unit, Posted, J, Slot, TableLen

\* Posting nothing and taking nothing, the caller does not disturb the workers.
LEMMA WorkersStay ==
  ASSUME WorkerInv, WorkersKept, UNCHANGED <<doneJobID, nextJobID>>
  PROVE  WorkerInv'
<1>1. \A s : Owned(s)' <=> Owned(s)
  BY DEF Owned, Posted, Slot, Active, WorkersKept
<1>2. \A pc, j : Stage(pc, j)' <=> Stage(pc, j)
  BY DEF Stage, WorkersKept
<1>3. \A u : Mine(u)' = Mine(u) /\ MyJob(u)' = MyJob(u) /\ Busy(u)' = Busy(u)
  BY DEF Mine, MyJob, Busy, WorkersKept
<1>4. \A u \in 1 .. MaxThreads : Busy(u)' =>
        running'[u] > 0 /\ Owned(Mine(u))' /\ Stage(job[u], MyJob(u))'
  <2> SUFFICES ASSUME NEW u \in 1 .. MaxThreads, Busy(u)'
               PROVE  running'[u] > 0 /\ Owned(Mine(u))' /\ Stage(job[u], MyJob(u))'
    OBVIOUS
  <2>1. running[u] > 0 /\ Owned(Mine(u)) /\ Stage(job[u], MyJob(u)) /\ running' = running
        /\ job' = job
    BY <1>3 DEF WorkerInv, WorkersKept
  <2>2. Owned(Mine(u))'
    BY <1>1, <1>3, <2>1
  <2>3. Stage(job[u], MyJob(u))'
    BY <1>2, <1>3, <2>1
  <2> QED
    BY <2>1, <2>2, <2>3
<1>5. ~queueEmpty' => /\ queue'[0] > 0 /\ Owned(queue[0] - 1)' /\ Pristine(jobs[queue[0] - 1])'
                      /\ \A u \in 1 .. MaxThreads : Busy(u)' => running'[u] # queue'[0]
  <2>1. queueEmpty' = queueEmpty /\ queue' = queue /\ running' = running /\ jobs' = jobs
    BY DEF WorkersKept
  <2> QED
    BY <1>1, <1>3, <2>1 DEF WorkerInv, Pristine
<1>6. \A u, v \in 1 .. MaxThreads :
        Busy(u)' /\ Busy(v)' /\ u # v => running'[u] # running'[v]
  BY <1>3 DEF WorkerInv, WorkersKept
<1>7. \A u \in 1 .. MaxThreads : /\ thread'[u] = "run" <=> job'[u] # "none"
                                 /\ thread'[u] # "none" => u <= threadCapacity'
  BY DEF WorkerInv, WorkersKept
<1> QED
  BY <1>4, <1>5, <1>6, <1>7 DEF WorkerInv

\* The jobs, when nobody writes them and no input is cut.
LEMMA JobsStay ==
  ASSUME JobsInv, WorkersKept, OrderKept, LastID' = LastID, Cut' = Cut
  PROVE  JobsInv'
<1>1. Ids' = Ids
  BY DEF Ids, OrderKept
<1>2. \A j : OutputInv(j)' <=> OutputInv(j)
  BY OrderTerms DEF OutputInv
<1>3. FrameLen' = FrameLen /\ \A k : J(k)' = J(k)
  BY OrderTerms
<1> QED
  BY <1>1, <1>2, <1>3 DEF JobsInv, WorkersKept, OrderKept

\* The output, when nothing is flushed.
LEMMA DeliveryStays ==
  ASSUME DeliveryInv, WorkersKept, OrderKept, LastID' = LastID, Cut' = Cut, InFrame' => InFrame
  PROVE  DeliveryInv'
<1>1. Units' = Units /\ \A k : Unit(k)' = Unit(k) /\ J(k)' = J(k)
  BY OrderTerms
<1>2. Flushed' = Flushed
  BY <1>1 DEF Flushed, Begin, OrderKept
<1>3. Ids' = Ids
  BY DEF Ids, OrderKept
<1> QED
  BY <1>1, <1>2, <1>3 DEF DeliveryInv, OrderKept

\* The turns, when the jobs stay.
LEMMA SerialStays ==
  ASSUME SerialInv, WorkersKept, OrderKept, LastID' = LastID, Cut' = Cut, InFrame' => InFrame
  PROVE  SerialInv'
<1>1. Ids' = Ids /\ \A k : J(k)' = J(k)
  BY OrderTerms DEF Ids, OrderKept
<1>2. Broken' = Broken
  BY <1>1 DEF Broken, WorkersKept
<1>3. serial' = serial /\ CutAt(serial.nextJobID)' = CutAt(serial.nextJobID)
  BY <1>1 DEF CutAt, WorkersKept
<1>4. \A u : MyJob(u)' = MyJob(u)
  BY DEF MyJob, Mine, WorkersKept
<1>5. UNCHANGED <<frameEnded, doneJobID, nextJobID, thread, job, queue, queueEmpty, jobs>>
  BY DEF WorkersKept, OrderKept
<1> QED
  BY <1>1, <1>2, <1>3, <1>4, <1>5 DEF SerialInv, Active

\* The places of no job, when the jobs stay.
LEMMA StaleStays ==
  ASSUME StaleInv, WorkersKept, OrderKept, LastID' = LastID,
         call'.pc # "waitAll" => call.pc # "waitAll"
  PROVE  StaleInv'
<1>1. Ids' = Ids /\ jobs' = jobs
  BY DEF Ids, OrderKept, WorkersKept
<1>2. \A i : Slot(i)' = Slot(i)
  BY OrderTerms
<1> QED
  BY <1>1, <1>2 DEF StaleInv

\* The input side stays as it is, too.
InputKept == UNCHANGED <<inBuff, roundBuff, mem, inPos>>

\* Steps that leave the input side alone.
LEMMA KeepsInput ==
  ASSUME UNCHANGED inputVars
  PROVE  InputKept
BY DEF inputVars, InputKept

\* The window, when the input side stays.
LEMMA WindowStays ==
  ASSUME WindowInv, WorkersKept, OrderKept, InputKept, LastID' = LastID, InFrame' => InFrame
  PROVE  WindowInv'
<1>1. /\ Section' = Section /\ \A k : J(k)' = J(k)
      /\ Cut' = Cut
  BY OrderTerms DEF Cut, InputKept
<1>2. serial' = serial /\ CutAt(serial.nextJobID)' = CutAt(serial.nextJobID) /\ fails' = fails
  BY <1>1 DEF CutAt, WorkersKept
<1> QED
  BY <1>1, <1>2 DEF WindowInv, OrderKept, InputKept

\* The round buffer, when the input side stays.
LEMMA RingStays ==
  ASSUME RingInv, WorkersKept, OrderKept, InputKept, LastID' = LastID, InFrame' => InFrame,
         InFrame' => RangeInv'
  PROVE  RingInv'
<1>1. Section' = Section /\ Cut' = Cut /\ Room' = Room /\ Ids' = Ids
      /\ \A k : J(k)' = J(k)
  BY OrderTerms DEF Cut, Room, Ids, InputKept, OrderKept
<1>2. roundBuff' = roundBuff /\ inBuff' = inBuff /\ mem' = mem /\ nextJobID' = nextJobID
  BY DEF InputKept, OrderKept
<1>3. \A j : Placed(j)' = Placed(j) /\ Active(j)' = Active(j) /\ Lo(j)' = Lo(j) /\ Hi(j)' = Hi(j)
  BY <1>1, <1>2 DEF Placed, Active, Lo, Hi
<1>4. \A j : ThisLap(j)' = ThisLap(j) /\ LastLap(j)' = LastLap(j)
  BY <1>1, <1>2, <1>3 DEF ThisLap, LastLap
<1>5. \A i : /\ Active(J(i))' = Active(J(i)) /\ Placed(J(i))' = Placed(J(i))
             /\ Lo(J(i))' = Lo(J(i)) /\ ThisLap(J(i))' = ThisLap(J(i))
             /\ LastLap(J(i))' = LastLap(J(i))
  BY <1>1, <1>2, <1>3, <1>4 DEF Active, Placed, Lo, Hi, ThisLap, LastLap
<1>6. LapsInv => LapsInv'
  BY <1>1, <1>2, <1>5 DEF LapsInv
<1>7. FirstLap => FirstLap'
  BY <1>1, <1>2, <1>5 DEF FirstLap
<1>8. InBuffInv => InBuffInv'
  BY <1>1, <1>2, <1>7 DEF InBuffInv
<1> QED
  BY <1>1, <1>5, <1>6, <1>8 DEF RingInv

\* Types, when only the caller moves.
LEMMA CallerTypes ==
  ASSUME Types, WorkersKept, OrderKept,
         inBuff' \in [start : Int, filled : Nat, prefix : RangeType],
         roundBuff' \in [capacity : Nat, pos : Nat],
         mem' \in [0 .. roundBuff'.capacity - 1 -> Int], inPos' \in 0 .. FrameLen,
         ret' \in {None, 0, 1, Error}, call' \in CallType
  PROVE  Types'
<1>1. PoolTypes'
  BY DEF Types, PoolTypes, WorkersKept
<1>2. JobTypes'
  BY DEF Types, JobTypes, WorkersKept, OrderKept
<1>3. InputTypes'
  BY OrderTerms DEF Types, InputTypes, WorkersKept, OrderKept
<1> QED
  BY <1>1, <1>2, <1>3 DEF Types

\* A step of the caller inside a call that only moves its control.
LEMMA CallOnly ==
  ASSUME MTInv, WorkersKept, OrderKept, InputKept, LastID' = LastID, InFrame' => InFrame,
         InFrame' => RangeInv', ret' \in {None, 0, 1, Error}, call' \in CallType,
         ControlInv', CallInv', CutsInv', call'.pc # "waitAll" => call.pc # "waitAll"
  PROVE  MTInv'
<1>1. /\ Types /\ WorkerInv /\ JobsInv /\ DeliveryInv /\ SerialInv /\ RingInv /\ WindowInv
  BY DEF MTInv
<1>2. Cut' = Cut
  BY DEF Cut, InputKept
<1>3. Types'
  <2>1. /\ inBuff \in [start : Int, filled : Nat, prefix : RangeType]
        /\ roundBuff \in [capacity : Nat, pos : Nat]
        /\ mem \in [0 .. roundBuff.capacity - 1 -> Int] /\ inPos \in 0 .. FrameLen
    BY <1>1 DEF Types, InputTypes
  <2> QED
    BY <1>1, <2>1, CallerTypes DEF InputKept
<1>4. WorkerInv'
  BY <1>1, WorkersStay DEF OrderKept
<1>5. JobsInv' /\ DeliveryInv' /\ SerialInv' /\ WindowInv' /\ RingInv'
  BY <1>1, <1>2, JobsStay, DeliveryStays, SerialStays, WindowStays, RingStays
<1>6. StaleInv'
  BY StaleStays DEF MTInv
<1> QED
  BY <1>3, <1>4, <1>5, <1>6 DEF MTInv

(* ----------------------- control of the caller -------------------------- *)
\* A thread or the caller falls asleep: nothing else changes.
LEMMA AsleepOnly ==
  ASSUME MTInv, CallerKept, WorkersKept
  PROVE  MTInv'
<1>1. Types /\ WorkerInv /\ PoolTypes
  BY DEF MTInv, Types
<1>2. WorkerInv'
  BY <1>1, WorkersStay DEF CallerKept
<1>3. /\ queueEmpty' \in BOOLEAN /\ thread' \in [1 .. MaxThreads -> ThreadStates]
      /\ running' \in [1 .. MaxThreads -> Nat] /\ job' \in [1 .. MaxThreads -> Places]
  BY <1>1 DEF PoolTypes, WorkersKept
<1> QED
  BY <1>2, <1>3, QuietStep DEF WorkersKept

\* The caller sleeps on ldmWindowCond or on job_cond.
LEMMA CallerSleepsSteps ==
  ASSUME MTInv, WaitForLdm \/ WaitForOutput
  PROVE  MTInv'
<1>1. CallerKept
  BY DEF WaitForLdm, WaitForOutput, inputVars, orderVars, callerVars, CallerKept
<1>2. WorkersKept
  BY KeepsWorkers DEF WaitForLdm, WaitForOutput, tableVars
<1> QED
  BY <1>1, <1>2, AsleepOnly

\* The frame is one of the plan.
LEMMA FrameTyped ==
  ASSUME Types
  PROVE  /\ frames[frame] \in FrameType
         /\ frames[frame].ops \subseteq {"continue", "flush", "end"}
         /\ CleanPlans => FrameLen > 0 /\ ~frames[frame].abandon
<1>1. frames \in Plans /\ frame \in 1 .. Len(frames)
  BY Scalars
<1>2. frames \in Seq(FrameType)
  BY <1>1, PlansAssumption
<1>3. frames[frame] \in FrameType
  BY <1>1, <1>2
<1>4. CleanPlans => frames[frame].len > 0 /\ ~frames[frame].abandon
  BY <1>1 DEF CleanPlans
<1> QED
  BY <1>3, <1>4 DEF FrameType, FrameLen

\* The cuts, when the input stays as it is.
LEMMA CutsStay ==
  ASSUME CutsInv, WorkersKept, OrderKept, LastID' = LastID, InFrame' => InFrame,
         Cut' = Cut, inPos' = inPos, inBuff'.filled = inBuff.filled, call.pc # "init",
         "flush" \notin frames[frame].ops /\ InFrame' =>
           ((call'.pc = "create" /\ inBuff.filled > 0
              /\ (call'.op = "flush" \/ (call'.op = "end" /\ inPos < call'.end))) =>
              inBuff.filled = Section \/ inPos \in Sync)
  PROVE  CutsInv'
<1>1. /\ Section' = Section /\ Sync' = Sync /\ \A k : J(k)' = J(k)
      /\ TableLen' = TableLen
  BY OrderTerms
<1>2. \A j : CutWell(j)' <=> CutWell(j)
  BY <1>1 DEF CutWell
<1> QED
  BY <1>1, <1>2 DEF CutsInv, TableLen, OrderKept

\* A job that is active comes from input that was taken.
LEMMA ActiveTaken ==
  ASSUME MTInv, NEW i \in Ids, Active(J(i))
  PROVE  inPos > 0
<1>1. Types /\ JobTypes /\ ControlInv /\ JobsInv
  BY DEF MTInv, Types
<1>2. i \in Nat /\ J(i) \in JobType
  BY <1>1, IdsHeld, TableShape
<1>3. J(i).consumed \in Nat /\ J(i).src.size \in Nat /\ J(i).at \in Nat
  BY <1>2 DEF JobType, RangeType
<1>4. inPos \in Nat /\ inBuff.filled \in Nat
  BY <1>1, Scalars
<1>5. J(i).at + J(i).src.size <= Cut
  BY <1>1 DEF JobsInv
<1> QED
  BY <1>3, <1>4, <1>5 DEF Cut, Active

\* ZSTD_compressStream2 is called.
LEMMA CallStep ==
  ASSUME CleanPlans, MTInv, Application
  PROVE  MTInv'
<1>1. PICK room \in Rooms, op \in frames[frame].ops, end \in {inPos, inPos + 1, FrameLen} :
        /\ end <= FrameLen
        /\ op = "end" => end = FrameLen
        /\ op = "continue" => end > inPos
        /\ op = "flush" => end > inPos \/ ret = 1
        /\ Call(op, end, room)
  BY DEF Application
<1>2. /\ Types /\ ControlInv /\ CallInv /\ JobsInv /\ CutsInv /\ JobTypes
  BY DEF MTInv, Types
<1>3. /\ call.pc = "idle" /\ ret' = None /\ ~(ret = Error)
      /\ call' = [pc |-> IF jobReady \/ end = inPos THEN "create"
                         ELSE IF inBuff.start = None THEN "range" ELSE "load",
                  op |-> op, end |-> end, room |-> room, fwd |-> FALSE,
                  inUse |-> NullRange, after |-> "none"]
  BY <1>1 DEF Application, Call, CallerAt, FrameEnds
<1>4. WorkersKept /\ OrderKept /\ InputKept
  BY <1>1, KeepsWorkers, KeepsOrder, KeepsInput DEF Call, workVars, tableVars
<1>5. jobReady' = jobReady /\ nextJobID' = nextJobID /\ doneJobID' = doneJobID
  BY <1>4 DEF OrderKept
<1>6. LastID' = LastID /\ InFrame
  BY <1>3, <1>5 DEF LastID, Ready, None, Error, InFrame
<1>7. op \in {"continue", "flush", "end"} /\ FrameLen > 0
  BY <1>2, FrameTyped
<1>8. inPos \in Nat /\ inPos <= FrameLen /\ FrameLen \in Nat /\ end \in Nat /\ room \in Nat
      /\ inPos <= end
  <2>1. inPos \in Nat /\ inPos <= FrameLen /\ FrameLen \in Nat
    BY <1>2, Scalars
  <2>2. end = inPos \/ end = inPos + 1 \/ end = FrameLen
    OBVIOUS
  <2>3. room \in Nat
    BY SizesAssumption
  <2> QED
    BY <2>1, <2>2, <2>3
<1>9. NullRange \in RangeType
  BY DEF NullRange, RangeType, None
<1>10. call' \in CallType
  BY <1>3, <1>7, <1>8, <1>9 DEF CallType
<1>11. /\ call'.pc \in {"create", "range", "load"}
       /\ call'.pc = "create" <=> jobReady \/ end = inPos
       /\ call'.pc = "range" => inBuff.start = None
       /\ call'.pc = "load" => inBuff.start # None
       /\ call'.op = op /\ call'.end = end
  BY <1>3
<1>12. InFrame' /\ RangeInv'
  BY <1>3, <1>11 DEF InFrame, RangeInv, None, Error
<1>13. jobReady \/ end = inPos => inPos > 0
  <2>1. CASE jobReady
    <3>1. LastID = nextJobID /\ nextJobID \in Ids
      BY <1>2, <1>3, <2>1, Scalars DEF LastID, Ready, Ids, ControlInv
    <3>2. Active(J(nextJobID))
      BY <1>2, <3>1 DEF JobsInv
    <3> QED
      BY <3>1, <3>2, ActiveTaken
  <2>2. CASE end = inPos
    <3>1. CASE ret = 1
      BY <1>2, <1>6, <3>1 DEF CallInv
    <3> QED
      BY <1>1, <1>7, <1>8, <2>2, <3>1
  <2> QED
    BY <2>1, <2>2
<1>14. ControlInv'
  BY <1>2, <1>3, <1>4, <1>6, <1>11 DEF ControlInv, WorkersKept, OrderKept, InputKept, None, Error
<1>15. CallInv'
  <2>1. FrameLen' = FrameLen /\ Cut' = Cut
    BY <1>4, OrderTerms DEF Cut, InputKept
  <2> QED
    BY <1>2, <1>1, <1>3, <1>4, <1>6, <1>8, <1>11, <1>13, <2>1
    DEF CallInv, WorkersKept, OrderKept, InputKept, None, Error
<1>16. CutsInv'
  <2>1. jobReady => inBuff.filled = 0
    BY <1>2, <1>6 DEF CallInv
  <2>2. call'.pc = "create" /\ inBuff.filled > 0 /\ op = "end" => ~(inPos < end)
    BY <1>8, <1>11, <2>1
  <2> QED
    BY <1>2, <1>3, <1>4, <1>6, <1>11, <2>2, CutsStay DEF Cut, InputKept
<1> QED
  BY <1>4, <1>3, <1>6, <1>10, <1>11, <1>12, <1>14, <1>15, <1>16, CallOnly

\* ZSTDMT_compressStream_generic goes on to flush, and nothing was created.
LEMMA FlushBegins ==
  ASSUME MTInv, call.pc = "create", call' = [call EXCEPT !.pc = "flush", !.op = EndOp],
         WorkersKept, OrderKept, InputKept, ret' = ret
  PROVE  MTInv'
<1>1. /\ Types /\ ControlInv /\ CallInv /\ CutsInv
  BY DEF MTInv
<1>2. call.pc = "create" /\ call' = [call EXCEPT !.pc = "flush", !.op = EndOp]
  OBVIOUS
<1>3. WorkersKept /\ OrderKept /\ InputKept
  OBVIOUS
<1>4. ret' = ret
  OBVIOUS
<1>5. jobReady' = jobReady /\ nextJobID' = nextJobID /\ doneJobID' = doneJobID
  BY <1>3 DEF OrderKept
<1>6. LastID' = LastID
  BY <1>4, <1>5 DEF LastID, Ready
<1>7. call \in CallType /\ ret \in {None, 0, 1, Error}
  BY <1>1, Scalars
<1>8. call.op \in {"continue", "flush", "end"} /\ EndOp \in {"flush", call.op}
  BY <1>7 DEF CallType, EndOp
<1>9. call' \in CallType
  BY <1>2, <1>7, <1>8 DEF CallType
<1>10. call'.pc = "flush" /\ call'.op = EndOp /\ call'.end = call.end /\ call'.after = call.after
  BY <1>2, <1>7 DEF CallType
<1>11. InFrame' => InFrame /\ RangeInv'
  BY <1>2, <1>4, <1>10 DEF InFrame, RangeInv
<1>12. ControlInv'
  BY <1>1, <1>2, <1>3, <1>4, <1>6, <1>10 DEF ControlInv, WorkersKept, OrderKept, InputKept
<1>13. CallInv'
  <2>1. FrameLen' = FrameLen /\ Cut' = Cut
    BY <1>3, OrderTerms DEF Cut, InputKept
  <2>2. EndOp = "end" => call.op = "end"
    BY DEF EndOp
  <2> QED
    BY <1>1, <1>2, <1>3, <1>4, <1>6, <1>10, <1>11, <2>1, <2>2
    DEF CallInv, WorkersKept, OrderKept, InputKept
<1>14. CutsInv'
  BY <1>1, <1>2, <1>3, <1>6, <1>10, <1>11, CutsStay DEF Cut, InputKept
<1> QED
  BY <1>2, <1>3, <1>4, <1>6, <1>7, <1>9, <1>10, <1>11, <1>12, <1>13, <1>14, CallOnly

\* No job is wanted, or the table is full.
LEMMA NoNewJobStep ==
  ASSUME MTInv, NoNewJob
  PROVE  MTInv'
<1>1. call.pc = "create" /\ call' = [call EXCEPT !.pc = "flush", !.op = EndOp] /\ ret' = ret
  BY DEF NoNewJob, CallerAt, callerVars
<1>2. WorkersKept /\ OrderKept /\ InputKept
  BY KeepsWorkers, KeepsOrder, KeepsInput DEF NoNewJob, workVars, tableVars, callerVars
<1> QED
  BY <1>1, <1>2, FlushBegins

\* A set of numbers that is not empty has a least member.
LEMMA LeastOf ==
  ASSUME NEW S \in SUBSET Nat, S # {}
  PROVE  \E f \in S : \A k \in S : f <= k
<1> DEFINE R == OpToRel(<, Nat)
<1>1. IsWellFoundedOn(R, Nat)
  BY NatLessThanWellFounded
<1> HIDE DEF R
<1>2. PICK f \in S : \A k \in S : ~ (<<k, f>> \in R)
  BY <1>1, WFMin
<1>3. ASSUME NEW k \in S PROVE f <= k
  <2>1. f \in Nat /\ k \in Nat
    OBVIOUS
  <2>2. k < f => <<k, f>> \in R
    BY <2>1 DEF R, OpToRel
  <2> QED
    BY <1>2, <2>1, <2>2
<1> QED
  BY <1>3

\* As many sections as the quotient says lie in the buffer.
LEMMA SectionsFit ==
  ASSUME NEW c \in Nat, NEW s \in Nat \ {0}, NEW n \in Nat, n < c \div s
  PROVE  n * s + s <= c
<1>1. PICK d : d = c \div s
  OBVIOUS
<1>2. d \in Nat /\ d * s <= c
  BY <1>1
<1>3. n + 1 <= d
  BY <1>1, <1>2
<1>4. (n + 1) * s <= d * s
  BY <1>2, <1>3
<1>5. (n + 1) * s = n * s + s
  OBVIOUS
<1>6. n * s \in Nat /\ d * s \in Nat
  BY <1>2
<1> QED
  BY <1>2, <1>4, <1>5, <1>6

\* ZSTDMT_getInputDataInUse: nothing, or the input of the first active job.
FirstActive(f) == /\ f \in Ids /\ Active(J(f))
                  /\ \A k \in Ids : Active(J(k)) => f <= k

\* ZSTDMT_getInputDataInUse finds the earliest unfinished job, once a lap is possible.
LEMMA InUseIs ==
  ASSUME MTInv, InFrame, ~jobReady
  PROVE  \/ /\ InputDataInUse = NullRange
            /\ \/ \A i \in Ids : ~Active(J(i))
               \/ nextJobID < roundBuff.capacity \div Section
         \/ \E f \in Ids : /\ FirstActive(f) /\ InputDataInUse \in RangeType
                           /\ InputDataInUse.start = Lo(J(f)) /\ InputDataInUse.size > 0
<1>1. Types /\ JobTypes /\ ControlInv /\ RingInv
  BY DEF MTInv, Types
<1>2. LastID = nextJobID - 1 /\ Ids \subseteq Nat
  BY <1>1, IdsHeld DEF LastID, Ready
<1> DEFINE active == {i \in doneJobID .. nextJobID - 1 :
                        jobs[Slot(i)].consumed < jobs[Slot(i)].src.size}
           least == CHOOSE i \in active : \A k \in active : i <= k
<1>3. active = {i \in Ids : Active(J(i))}
  BY <1>2 DEF Ids, J, Active
<1> SUFFICES ASSUME active # {}, ~(nextJobID < roundBuff.capacity \div Section)
             PROVE  \E f \in Ids : /\ FirstActive(f) /\ InputDataInUse \in RangeType
                                   /\ InputDataInUse.start = Lo(J(f)) /\ InputDataInUse.size > 0
  BY <1>3 DEF InputDataInUse
<1>4. least \in active /\ \A k \in active : least <= k
  <2>1. active \in SUBSET Nat
    BY <1>2, <1>3
  <2> HIDE DEF active
  <2>2. \E f \in active : \A k \in active : f <= k
    BY <2>1, LeastOf
  <2> QED
    BY <2>2
<1>5. InputDataInUse = IF J(least).prefix.size = 0 THEN J(least).src ELSE J(least).prefix
  BY DEF InputDataInUse, J
<1> HIDE DEF active, least
<1>6. FirstActive(least)
  BY <1>3, <1>4 DEF FirstActive
<1>7. J(least) \in JobType /\ Placed(J(least))
  BY <1>1, <1>2, <1>6, TableShape DEF FirstActive, RingInv
<1>8. /\ J(least).prefix \in RangeType /\ J(least).src \in RangeType
      /\ J(least).consumed \in Nat
  BY <1>7 DEF JobType
<1>9. /\ J(least).prefix.size \in Nat /\ J(least).src.size \in Nat /\ J(least).src.start \in Int
  BY <1>8 DEF RangeType
<1>10. J(least).src.size > 0
  BY <1>6, <1>8, <1>9 DEF FirstActive, Active
<1>11. CASE J(least).prefix.size = 0
  <2>1. Lo(J(least)) = J(least).src.start
    BY <1>9, <1>11 DEF Lo
  <2> QED
    BY <1>5, <1>6, <1>8, <1>10, <1>11, <2>1 DEF FirstActive
<1>12. CASE J(least).prefix.size > 0
  BY <1>5, <1>6, <1>7, <1>8, <1>12 DEF Placed, FirstActive
<1> QED
  BY <1>9, <1>11, <1>12

\* ZSTDMT_tryGetInputRange: what it finds free is free.
LEMMA RangeFound ==
  ASSUME MTInv, TryGetInputRange
  PROVE  /\ InFrame /\ call.pc = "range"
         /\ InputDataInUse \in RangeType
         /\ call' = [call EXCEPT !.inUse = InputDataInUse, !.pc = call'.pc]
         /\ \/ call'.pc = "create" /\ \E f \in Ids : Active(J(f))
            \/ /\ call'.pc = "wrap" /\ roundBuff.capacity - roundBuff.pos < Section
               /\ \A i \in Ids : Active(J(i)) =>
                    /\ InputDataInUse.start # None /\ InputDataInUse.size > 0
                    /\ inBuff.prefix.size <= InputDataInUse.start
                    /\ InputDataInUse.start <= Lo(J(i))
            \/ /\ call'.pc = "take" /\ roundBuff.pos + Section <= roundBuff.capacity
               /\ \A i \in Ids : Active(J(i)) =>
                    ThisLap(J(i)) \/ roundBuff.pos + Section <= Lo(J(i))
<1>1. Types /\ JobTypes /\ ControlInv /\ RingInv /\ CallInv
  BY DEF MTInv, Types
<1>2. call.pc = "range" /\ call \in CallType
  BY <1>1, Scalars DEF TryGetInputRange, CallerAt
<1>3. InFrame
  BY <1>1, <1>2 DEF InFrame, ControlInv
<1>4. ~jobReady /\ inBuff.start = None
  BY <1>1, <1>2, <1>3 DEF CallInv
<1>5. LapsInv /\ InBuffInv /\ Room = 0
  BY <1>1, <1>3, <1>4 DEF RingInv, Room
<1>6. /\ roundBuff.capacity \in Nat /\ roundBuff.pos \in Nat /\ Section \in Nat \ {0}
      /\ inBuff.prefix.size \in Nat /\ nextJobID \in Nat
  BY <1>1, Scalars
<1> DEFINE wrap == roundBuff.capacity - roundBuff.pos < Section
           taken == IF wrap THEN Overlaps(0, inBuff.prefix.size, InputDataInUse)
                    ELSE Overlaps(roundBuff.pos, Section, InputDataInUse)
           pc == IF taken THEN "create" ELSE IF wrap THEN "wrap" ELSE "take"
<1>7. call' = [call EXCEPT !.inUse = InputDataInUse, !.pc = pc]
  BY DEF TryGetInputRange
<1>8. call'.pc = pc
  BY <1>2, <1>7 DEF CallType
<1>9. ~wrap => roundBuff.pos + Section <= roundBuff.capacity
  BY <1>6
<1>10. \A i \in Ids : Active(J(i)) => /\ Lo(J(i)) \in Int /\ Lo(J(i)) >= 0
                                      /\ Lo(J(i)) + Section <= roundBuff.capacity
  <2> SUFFICES ASSUME NEW i \in Ids, Active(J(i))
               PROVE  /\ Lo(J(i)) \in Int /\ Lo(J(i)) >= 0
                      /\ Lo(J(i)) + Section <= roundBuff.capacity
    OBVIOUS
  <2>1. J(i) \in JobType /\ Placed(J(i))
    BY <1>1, IdsHeld, TableShape DEF RingInv
  <2>2. J(i).src.start \in Int /\ J(i).prefix.size \in Nat
    BY <2>1 DEF JobType, RangeType
  <2> QED
    BY <1>6, <2>1, <2>2 DEF Placed, Lo
<1>11. CASE InputDataInUse = NullRange
  <2>1. ~taken /\ InputDataInUse \in RangeType
    BY <1>11 DEF Overlaps, NullRange, RangeType, None
  <2>2. CASE \A i \in Ids : ~Active(J(i))
    BY <1>2, <1>3, <1>7, <1>8, <1>9, <2>1, <2>2
  <2>3. CASE nextJobID < roundBuff.capacity \div Section
    <3>1. LastID = nextJobID - 1
      BY <1>4 DEF LastID, Ready
    <3>2. FirstLap
      <4>1. roundBuff.capacity \div Section \in Int
        BY <1>6
      <4> QED
        BY <1>5, <1>6, <2>3, <4>1 DEF InBuffInv
    <3>3. roundBuff.pos <= nextJobID * Section
      BY <1>6, <3>1, <3>2 DEF FirstLap
    <3>4. nextJobID * Section + Section <= roundBuff.capacity
      BY <1>6, <2>3, SectionsFit
    <3>5. nextJobID * Section \in Nat
      BY <1>6
    <3>6. ~wrap
      BY <1>6, <3>3, <3>4, <3>5
    <3>7. \A i \in Ids : Active(J(i)) => ThisLap(J(i))
      BY <3>2 DEF FirstLap
    <3> QED
      BY <1>2, <1>3, <1>7, <1>8, <1>9, <2>1, <3>6, <3>7
  <2> QED
    BY <1>3, <1>4, <1>11, <2>2, <2>3, InUseIs DEF FirstActive, NullRange
<1>12. CASE \E f \in Ids : /\ FirstActive(f) /\ InputDataInUse \in RangeType
                           /\ InputDataInUse.start = Lo(J(f)) /\ InputDataInUse.size > 0
  <2>1. PICK f \in Ids : /\ FirstActive(f) /\ InputDataInUse \in RangeType
                         /\ InputDataInUse.start = Lo(J(f)) /\ InputDataInUse.size > 0
    BY <1>12
  <2>2. PICK use : use = InputDataInUse
    OBVIOUS
  <2>3. /\ use.start \in Int /\ use.size \in Nat \ {0} /\ use.start >= 0 /\ use.start # None
        /\ use.start + Section <= roundBuff.capacity /\ use.start = Lo(J(f))
    BY <1>10, <2>1, <2>2 DEF RangeType, FirstActive, None
  <2>4. \A i \in Ids : Active(J(i)) =>
          \/ ThisLap(J(f)) /\ ThisLap(J(i)) /\ Lo(J(f)) <= Lo(J(i))
          \/ LastLap(J(f)) /\ ThisLap(J(i))
          \/ LastLap(J(f)) /\ LastLap(J(i)) /\ Lo(J(f)) <= Lo(J(i))
    <3> SUFFICES ASSUME NEW i \in Ids, Active(J(i))
                 PROVE  \/ ThisLap(J(f)) /\ ThisLap(J(i)) /\ Lo(J(f)) <= Lo(J(i))
                        \/ LastLap(J(f)) /\ ThisLap(J(i))
                        \/ LastLap(J(f)) /\ LastLap(J(i)) /\ Lo(J(f)) <= Lo(J(i))
      OBVIOUS
    <3>1. f <= i /\ f \in Nat /\ i \in Nat
      BY <1>1, <2>1, IdsHeld DEF FirstActive
    <3>2. CASE f = i
      BY <1>5, <1>10, <3>2 DEF LapsInv
    <3>3. CASE f < i
      BY <1>5, <2>1, <3>3 DEF LapsInv, FirstActive
    <3> QED
      BY <3>1, <3>2, <3>3
  <2>5. CASE taken
    BY <1>2, <1>3, <1>7, <1>8, <2>1, <2>5 DEF FirstActive
  <2>6. CASE wrap /\ ~taken
    <3>1. ~LastLap(J(f))
      BY <1>5, <1>6, <2>3, <2>6 DEF LastLap
    <3>2. inBuff.prefix.size <= use.start
      BY <1>6, <2>2, <2>3, <2>6 DEF Overlaps, None
    <3>3. \A i \in Ids : Active(J(i)) => use.start <= Lo(J(i))
      BY <2>3, <2>4, <3>1
    <3> QED
      BY <1>2, <1>3, <1>7, <1>8, <2>1, <2>2, <2>3, <2>6, <3>2, <3>3
  <2>7. CASE ~wrap /\ ~taken
    <3>1. roundBuff.pos < use.start + use.size => roundBuff.pos + Section <= use.start
      BY <1>6, <2>2, <2>3, <2>7 DEF Overlaps, None
    <3>2. LastLap(J(f)) => roundBuff.pos + Section <= use.start
      BY <1>5, <1>6, <2>3, <3>1 DEF LastLap
    <3>3. ASSUME NEW i \in Ids, Active(J(i)), ~ThisLap(J(i))
          PROVE  roundBuff.pos + Section <= Lo(J(i))
      <4>1. LastLap(J(f)) /\ Lo(J(f)) <= Lo(J(i))
        BY <2>4, <3>3
      <4>2. Lo(J(i)) \in Int
        BY <1>10, <3>3
      <4> QED
        BY <1>6, <2>3, <3>2, <4>1, <4>2
    <3> QED
      BY <1>2, <1>3, <1>7, <1>8, <1>9, <2>1, <2>7, <3>3
  <2> QED
    BY <2>5, <2>6, <2>7
<1> QED
  BY <1>3, <1>4, <1>11, <1>12, InUseIs

\* ZSTDMT_tryGetInputRange looks for room, up to its first wait.
LEMMA TryGetInputRangeStep ==
  ASSUME MTInv, TryGetInputRange
  PROVE  MTInv'
<1>1. /\ Types /\ ControlInv /\ CallInv /\ CutsInv
  BY DEF MTInv
<1>2. WorkersKept /\ OrderKept /\ InputKept /\ ret' = ret
  BY KeepsWorkers, KeepsOrder, KeepsInput DEF TryGetInputRange, workVars, tableVars, callerVars
<1>3. /\ InFrame /\ call.pc = "range" /\ InputDataInUse \in RangeType
      /\ call' = [call EXCEPT !.inUse = InputDataInUse, !.pc = call'.pc]
      /\ call'.pc \in {"create", "wrap", "take"}
      /\ call'.pc = "create" => \E f \in Ids : Active(J(f))
  BY RangeFound
<1>4. jobReady' = jobReady /\ nextJobID' = nextJobID /\ doneJobID' = doneJobID
  BY <1>2 DEF OrderKept
<1>5. LastID' = LastID /\ InFrame'
  BY <1>2, <1>3, <1>4 DEF LastID, Ready, InFrame
<1>6. call \in CallType /\ ret \in {None, 0, 1, Error}
  BY <1>1, Scalars
<1>7. /\ call' \in CallType /\ call'.op = call.op /\ call'.end = call.end
      /\ call'.after = call.after /\ call'.inUse = InputDataInUse
  BY <1>3, <1>6 DEF CallType
<1>8. RangeInv'
  <2>1. Ids' = Ids /\ Section' = Section /\ \A k : J(k)' = J(k)
    BY <1>2, <1>4, <1>5, OrderTerms DEF Ids
  <2>2. inBuff' = inBuff /\ roundBuff' = roundBuff
    BY <1>2 DEF InputKept
  <2>3. \A i : /\ Active(J(i))' = Active(J(i)) /\ Lo(J(i))' = Lo(J(i))
               /\ ThisLap(J(i))' = ThisLap(J(i))
    BY <2>1, <2>2 DEF Active, Lo, ThisLap, Hi
  <2> QED
    BY <1>3, <1>7, <2>1, <2>2, <2>3, RangeFound DEF RangeInv
<1>9. inBuff.filled = 0 /\ inPos \in Nat
  BY <1>1, <1>3, Scalars DEF CallInv
<1>10. call'.pc = "create" => inPos > 0
  BY <1>3, ActiveTaken
<1>11. ControlInv'
  BY <1>1, <1>2, <1>3, <1>5, <1>7 DEF ControlInv, WorkersKept, OrderKept, InputKept
<1>12. CallInv'
  <2>1. FrameLen' = FrameLen /\ Cut' = Cut
    BY <1>2, OrderTerms DEF Cut, InputKept
  <2> QED
    BY <1>1, <1>2, <1>3, <1>5, <1>7, <1>10, <2>1
    DEF CallInv, WorkersKept, OrderKept, InputKept
<1>13. CutsInv'
  BY <1>1, <1>2, <1>3, <1>5, <1>9, CutsStay DEF Cut, InputKept
<1> QED
  BY <1>2, <1>3, <1>5, <1>6, <1>7, <1>8, <1>11, <1>12, <1>13, CallOnly

\* ZSTDMT_flushProduced finds that the oldest job failed: there was a failure.
LEMMA FlushFindsErrorStep ==
  ASSUME MTInv, FlushFindsError
  PROVE  MTInv'
<1>1. /\ Types /\ ControlInv /\ CallInv /\ CutsInv /\ JobsInv /\ StaleInv /\ JobTypes
  BY DEF MTInv, Types
<1>2. /\ call.pc = "flush" /\ call' = [call EXCEPT !.pc = "waitAll", !.after = "error"]
      /\ Oldest.cSize = Error
  BY DEF FlushFindsError, MayFlush, CallerAt
<1>3. WorkersKept /\ OrderKept /\ InputKept /\ ret' = ret
  BY KeepsWorkers, KeepsOrder, KeepsInput DEF FlushFindsError, workVars, tableVars, callerVars
<1>4. jobReady' = jobReady /\ nextJobID' = nextJobID /\ doneJobID' = doneJobID
  BY <1>3 DEF OrderKept
<1>5. LastID' = LastID
  BY <1>3, <1>4 DEF LastID, Ready
<1>6. call \in CallType /\ ret \in {None, 0, 1, Error} /\ doneJobID \in Nat
  BY <1>1, Scalars
<1>7. call' \in CallType /\ call'.pc = "waitAll" /\ call'.after = "error"
  BY <1>2, <1>6 DEF CallType
<1>8. ret = None
  BY <1>1, <1>2 DEF ControlInv, CallInv, InFrame
<1>9. fails > 0
  <2>1. Oldest = J(doneJobID) /\ Slot(doneJobID) \in DOMAIN jobs /\ LastID \in Int
    BY <1>1, <1>6, TableShape, IdsHeld DEF Oldest, J
  <2>2. CASE doneJobID <= LastID
    BY <1>1, <1>2, <1>6, <2>1, <2>2 DEF JobsInv, Ids
  <2>3. CASE ~(doneJobID <= LastID)
    <3>1. Ids = {}
      BY <1>6, <2>1, <2>3 DEF Ids
    <3>2. Stale(jobs[Slot(doneJobID)])
      BY <1>1, <1>2, <2>1, <3>1 DEF StaleInv
    <3> QED
      BY <1>2, <2>1, <3>2 DEF Stale, J, Error
  <2> QED
    BY <2>2, <2>3
<1>10. ~InFrame'
  BY <1>7 DEF InFrame
<1>11. ControlInv'
  BY <1>1, <1>2, <1>3, <1>5, <1>7, <1>8, <1>9
  DEF ControlInv, WorkersKept, OrderKept, InputKept, None, Error
<1>12. CallInv'
  BY <1>10 DEF CallInv
<1>13. CutsInv'
  BY <1>1, <1>2, <1>3, <1>5, <1>10, CutsStay DEF Cut, InputKept
<1> QED
  BY <1>2, <1>3, <1>5, <1>6, <1>7, <1>10, <1>11, <1>12, <1>13, CallOnly

(* --------------------- the caller fills the buffer ---------------------- *)
\* ZSTDMT_doesOverlapWindow: where it finds no overlap, nothing of the window lies.
LEMMA ClearOfWindow ==
  ASSUME NEW w \in WindowType, serial.ldmWindow = w, WindowOrdered(w),
         NEW c \in Nat, NEW start \in Nat, NEW size \in Nat,
         \A i \in w.lowLimit .. WIN!EndIndex(w) - 1 : WIN!Address(w, i) \in 0 .. c - 1,
         ~OverlapsWindow(start, size)
  PROVE  \A i \in w.lowLimit .. WIN!EndIndex(w) - 1 :
           WIN!Address(w, i) \notin start .. start + size - 1
<1> SUFFICES ASSUME NEW i \in w.lowLimit .. WIN!EndIndex(w) - 1, size > 0
             PROVE  WIN!Address(w, i) \notin start .. start + size - 1
  OBVIOUS
<1>1. /\ w.base \in Int /\ w.dictBase \in Int /\ w.lowLimit \in Int /\ w.dictLimit \in Int
      /\ w.nextSrc \in Int
  BY DEF WindowType
<1>2. WIN!EndIndex(w) = w.nextSrc - w.base /\ w.lowLimit <= w.dictLimit
      /\ w.dictLimit <= WIN!EndIndex(w)
  BY DEF WIN!EndIndex, WindowOrdered
<1>3. CASE i < w.dictLimit
  <2>1. WIN!Address(w, i) = w.dictBase + i
    BY <1>1, <1>2, <1>3 DEF WIN!Address
  <2>2. WIN!Address(w, w.lowLimit) = w.dictBase + w.lowLimit
    BY <1>1, <1>3 DEF WIN!Address
  <2>3. w.dictBase + w.lowLimit >= 0
    BY <1>1, <1>2, <1>3, <2>2
  <2>4. ~Overlaps(start, size, [start |-> w.dictBase + w.lowLimit,
                                size |-> w.dictLimit - w.lowLimit])
    BY DEF OverlapsWindow
  <2>5. ~(/\ start < (w.dictBase + w.lowLimit) + (w.dictLimit - w.lowLimit)
          /\ w.dictBase + w.lowLimit < start + size)
    BY <1>1, <1>3, <2>3, <2>4 DEF Overlaps, None
  <2> QED
    BY <1>1, <1>3, <2>1, <2>5
<1>4. CASE ~(i < w.dictLimit)
  <2>1. WIN!Address(w, i) = w.base + i
    BY <1>1, <1>2, <1>4 DEF WIN!Address
  <2>2. WIN!Address(w, w.dictLimit) = w.base + w.dictLimit
    BY <1>1 DEF WIN!Address
  <2>3. w.dictLimit \in w.lowLimit .. WIN!EndIndex(w) - 1
    BY <1>1, <1>2, <1>4
  <2>4. w.base + w.dictLimit >= 0
    BY <1>1, <2>2, <2>3
  <2>5. ~Overlaps(start, size, [start |-> w.base + w.dictLimit,
                                size |-> w.nextSrc - (w.base + w.dictLimit)])
    BY DEF OverlapsWindow
  <2>6. ~(/\ start < (w.base + w.dictLimit) + (w.nextSrc - (w.base + w.dictLimit))
          /\ w.base + w.dictLimit < start + size)
    BY <1>1, <1>2, <1>4, <2>4, <2>5 DEF Overlaps, None
  <2> QED
    BY <1>1, <1>2, <1>4, <2>1, <2>6
<1> QED
  BY <1>3, <1>4

\* What is left to show of a step that moves or fills the input.
LEMMA InputStep ==
  ASSUME MTInv, WorkersKept, OrderKept, LastID' = LastID, Cut' = Cut, InFrame,
         inBuff' \in [start : Int, filled : Nat, prefix : RangeType],
         roundBuff' \in [capacity : Nat, pos : Nat],
         mem' \in [0 .. roundBuff'.capacity - 1 -> Int], inPos' \in 0 .. FrameLen,
         ret' = ret, call' \in CallType, call.pc # "waitAll",
         ControlInv', CallInv', CutsInv', RingInv', WindowInv'
  PROVE  MTInv'
<1>1. /\ Types /\ WorkerInv /\ JobsInv /\ DeliveryInv /\ SerialInv /\ StaleInv
  BY DEF MTInv
<1>2. ret' \in {None, 0, 1, Error}
  BY <1>1, Scalars
<1>3. Types'
  BY <1>1, <1>2, CallerTypes
<1>4. WorkerInv' /\ JobsInv' /\ DeliveryInv' /\ SerialInv' /\ StaleInv'
  BY <1>1, WorkersStay, JobsStay, DeliveryStays, SerialStays, StaleStays DEF OrderKept
<1> QED
  BY <1>3, <1>4 DEF MTInv

\* The window of the long distance matcher stays, and its bytes.
LEMMA WindowKept ==
  ASSUME Types, WindowInv, WorkersKept, OrderKept, LastID' = LastID, Cut' = Cut, InFrame,
         roundBuff'.capacity = roundBuff.capacity,
         Ldm /\ fails = 0 =>
           \A i \in serial.window.lowLimit .. WIN!EndIndex(serial.window) - 1 :
             /\ mem'[WIN!Address(serial.window, i)] = mem[WIN!Address(serial.window, i)]
             /\ InFrame' /\ inBuff'.start # None =>
                  WIN!Address(serial.window, i)
                    \notin roundBuff'.pos .. roundBuff'.pos + Section - 1
  PROVE  WindowInv'
<1>1. Section' = Section /\ \A k : J(k)' = J(k)
  BY OrderTerms
<1>2. serial' = serial /\ CutAt(serial.nextJobID)' = CutAt(serial.nextJobID) /\ fails' = fails
  BY <1>1 DEF CutAt, WorkersKept
<1> QED
  BY <1>1, <1>2 DEF WindowInv, OrderKept

\* The jobs, and where they lie.
LEMMA PlacesKept ==
  ASSUME WorkersKept, OrderKept, LastID' = LastID, Cut' = Cut
  PROVE  /\ Ids' = Ids /\ Section' = Section /\ FrameLen' = FrameLen /\ Sync' = Sync
         /\ \A i : /\ J(i)' = J(i) /\ Active(J(i))' = Active(J(i))
                   /\ Lo(J(i))' = Lo(J(i)) /\ Hi(J(i))' = Hi(J(i))
<1>1. \A i : J(i)' = J(i)
  BY OrderTerms
<1> QED
  BY <1>1, OrderTerms DEF Ids, OrderKept, Active, Lo, Hi

\* Where the input of a job lies, in numbers.
LEMMA PlacedJob ==
  ASSUME Types, ControlInv, RingInv, NEW i \in Ids, Active(J(i))
  PROVE  /\ J(i) \in JobType /\ Lo(J(i)) \in Nat /\ Hi(J(i)) \in Nat
         /\ Lo(J(i)) < Hi(J(i)) /\ Hi(J(i)) <= roundBuff.capacity
         /\ J(i).src.start \in Int /\ J(i).src.size \in Nat /\ J(i).at \in Nat
         /\ Lo(J(i)) + Section <= roundBuff.capacity
<1>1. J(i) \in JobType /\ Placed(J(i))
  BY IdsHeld, TableShape DEF RingInv, Types
<1>2. /\ J(i).src.start \in Int /\ J(i).src.size \in Nat /\ J(i).prefix.size \in Nat
      /\ J(i).consumed \in Nat /\ J(i).at \in Nat
  BY <1>1 DEF JobType, RangeType
<1>3. roundBuff.capacity \in Nat /\ Section \in Nat
  BY Scalars
<1>4. J(i).src.size > 0
  BY <1>2 DEF Active
<1> QED
  BY <1>1, <1>2, <1>3, <1>4 DEF Placed, Lo, Hi

\* A job that is read stays in place when the bytes below it or above it change.
LEMMA PlacedStays ==
  ASSUME Types, ControlInv, RingInv, NEW i \in Ids, Active(J(i)), WorkersKept, OrderKept,
         LastID' = LastID, Cut' = Cut, roundBuff'.capacity = roundBuff.capacity,
         \A a \in Lo(J(i)) .. Hi(J(i)) - 1 : mem'[a] = mem[a]
  PROVE  Placed(J(i))'
<1>1. Placed(J(i))
  BY DEF RingInv
<1> QED
  BY <1>1, PlacesKept DEF Placed

\* There is place for a section.
LEMMA OneSection ==
  ASSUME NEW c \in Nat, NEW s \in Nat \ {0}, 2 * s <= c
  PROVE  0 < c \div s
<1>1. PICK q : q = c \div s
  OBVIOUS
<1>2. q \in Int /\ c < q * s + s
  BY <1>1
<1>3. CASE q >= 1
  BY <1>1, <1>3
<1>4. CASE q <= 0
  <2>1. q * s <= 0
    BY <1>2, <1>4
  <2>2. q * s \in Int
    BY <1>2
  <2> QED
    BY <1>2, <2>1, <2>2
<1> QED
  BY <1>2, <1>3, <1>4

\* The prefix moves to the start of the round buffer.
LEMMA MovePrefixStep ==
  ASSUME MTInv, MovePrefix
  PROVE  MTInv'
<1>1. /\ Types /\ ControlInv /\ CallInv /\ CutsInv /\ RingInv /\ WindowInv /\ JobTypes
  BY DEF MTInv, Types
<1> DEFINE size == inBuff.prefix.size
           pc == IF Overlaps(size, Section, call.inUse) THEN "create" ELSE "take"
<1>2. /\ call.pc = "wrap" /\ ~MustWaitForLdm
      /\ mem' = [a \in DOMAIN mem |->
                   IF a < size THEN mem[inBuff.prefix.start + a] ELSE mem[a]]
      /\ inBuff' = [inBuff EXCEPT !.prefix.start = 0]
      /\ roundBuff' = [roundBuff EXCEPT !.pos = size]
      /\ call' = [call EXCEPT !.pc = pc]
      /\ inPos' = inPos /\ ret' = ret
  BY DEF MovePrefix, CallerAt, Step, callerVars
<1>3. WorkersKept /\ OrderKept
  BY KeepsWorkers, KeepsOrder DEF MovePrefix, workVars, tableVars, callerVars
<1>4. jobReady' = jobReady /\ nextJobID' = nextJobID /\ doneJobID' = doneJobID
  BY <1>3 DEF OrderKept
<1>5. LastID' = LastID /\ InFrame
  BY <1>1, <1>2, <1>4 DEF LastID, Ready, InFrame, ControlInv
<1>6. /\ call \in CallType /\ roundBuff.capacity \in Nat /\ roundBuff.pos \in Nat
      /\ Section \in Nat \ {0} /\ size \in Nat /\ nextJobID \in Nat /\ inPos \in 0 .. FrameLen
      /\ inBuff \in [start : Int, filled : Nat, prefix : RangeType]
      /\ roundBuff \in [capacity : Nat, pos : Nat]
      /\ mem \in [0 .. roundBuff.capacity - 1 -> Int]
  BY <1>1, Scalars
<1>7. /\ inBuff.start = None /\ inBuff.filled = 0 /\ ~jobReady /\ LapsInv /\ InBuffInv /\ RangeInv
      /\ Room = 0
  BY <1>1, <1>2, <1>5 DEF CallInv, RingInv, Room
<1>8. /\ inBuff'.start = None /\ inBuff'.filled = 0
      /\ inBuff'.prefix.size = size /\ inBuff'.prefix.start = 0
      /\ inBuff' \in [start : Int, filled : Nat, prefix : RangeType]
  BY <1>2, <1>6, <1>7 DEF RangeType
<1>9. roundBuff'.capacity = roundBuff.capacity /\ roundBuff'.pos = size
      /\ roundBuff' \in [capacity : Nat, pos : Nat]
  BY <1>2, <1>6
<1>10. /\ call' \in CallType /\ call'.pc = pc /\ call'.end = call.end /\ call'.op = call.op
       /\ call'.after = call.after
  BY <1>2, <1>6 DEF CallType
<1>11. Cut' = Cut
  BY <1>2, <1>7, <1>8 DEF Cut
<1>12. /\ 2 * Section <= roundBuff.capacity /\ roundBuff.pos <= roundBuff.capacity
       /\ size <= Section /\ size <= roundBuff.pos
       /\ size > 0 => inBuff.prefix.start = roundBuff.pos - size
       /\ \A a \in roundBuff.pos - size .. roundBuff.pos - 1 : mem[a] = Cut + (a - roundBuff.pos)
  <2>1. roundBuff.pos + inBuff.filled - 1 = roundBuff.pos - 1
    BY <1>6, <1>7
  <2> QED
    BY <1>7, <2>1 DEF InBuffInv
<1>13. roundBuff.capacity - roundBuff.pos < Section
  BY <1>2, <1>7 DEF RangeInv
<1>14. LastID = nextJobID - 1
  BY <1>7 DEF LastID, Ready
<1>15. roundBuff.capacity \div Section <= nextJobID
  <2> SUFFICES ASSUME FirstLap, nextJobID < roundBuff.capacity \div Section
               PROVE  FALSE
    <3>1. roundBuff.capacity \div Section \in Int
      BY <1>6
    <3> QED
      BY <1>6, <1>7, <3>1 DEF InBuffInv
  <2>1. nextJobID * Section + Section <= roundBuff.capacity
    BY <1>6, SectionsFit
  <2>2. roundBuff.pos <= nextJobID * Section
    BY <1>6, <1>14 DEF FirstLap
  <2>3. nextJobID * Section \in Nat
    BY <1>6
  <2> QED
    BY <1>6, <1>13, <2>1, <2>2, <2>3
<1>16. inPos > 0
  <2>1. nextJobID # 0
    <3>1. PICK q : q = roundBuff.capacity \div Section
      OBVIOUS
    <3>2. 0 < q
      BY <1>6, <1>12, <3>1, OneSection
    <3> QED
      BY <1>6, <1>15, <3>1, <3>2
  <2>2. Cut # 0 /\ Cut >= 0 /\ Cut = inPos
    BY <1>1, <1>5, <1>6, <1>7, <1>14, <2>1 DEF CallInv, Cut
  <2> QED
    BY <1>6, <2>2
<1> HIDE DEF size, pc
<1>17. \A a \in 0 .. roundBuff.capacity - 1 : a >= size => mem'[a] = mem[a]
  BY <1>2, <1>6
<1>18. \A a \in 0 .. size - 1 : mem'[a] = Cut + (a - size)
  <2> SUFFICES ASSUME NEW a \in 0 .. size - 1
               PROVE  mem'[a] = Cut + (a - size)
    OBVIOUS
  <2>1. inBuff.prefix.start = roundBuff.pos - size /\ a \in 0 .. roundBuff.capacity - 1
    BY <1>6, <1>12
  <2>2. PICK b : b = inBuff.prefix.start + a
    OBVIOUS
  <2>3. mem'[a] = mem[b]
    BY <1>2, <1>6, <2>1, <2>2
  <2>4. b \in roundBuff.pos - size .. roundBuff.pos - 1 /\ b - roundBuff.pos = a - size
    BY <1>6, <2>1, <2>2
  <2> QED
    BY <1>12, <2>3, <2>4
<1>19. mem' \in [0 .. roundBuff'.capacity - 1 -> Int]
  <2>1. \A a \in 0 .. roundBuff.capacity - 1 : mem'[a] \in Int
    <3> SUFFICES ASSUME NEW a \in 0 .. roundBuff.capacity - 1 PROVE mem'[a] \in Int
      OBVIOUS
    <3>1. CASE a >= size
      BY <1>6, <1>17, <3>1
    <3>2. CASE a < size
      <4>1. Cut \in Int
        BY <1>6, <1>7 DEF Cut
      <4> QED
        BY <1>6, <1>18, <3>2, <4>1
    <3> QED
      BY <1>6, <3>1, <3>2
  <2>2. mem' = [a \in 0 .. roundBuff.capacity - 1 |-> mem'[a]]
    BY <1>2, <1>6
  <2> QED
    BY <1>9, <2>1, <2>2
<1>20. \A i \in Ids : Active(J(i)) =>
         /\ J(i) \in JobType /\ Lo(J(i)) \in Nat /\ Hi(J(i)) \in Nat
         /\ Lo(J(i)) < Hi(J(i)) /\ Hi(J(i)) <= roundBuff.capacity
         /\ Lo(J(i)) + Section <= roundBuff.capacity
         /\ size <= Lo(J(i))
         /\ pc = "take" => size + Section <= Lo(J(i))
  <2> SUFFICES ASSUME NEW i \in Ids, Active(J(i))
               PROVE  /\ J(i) \in JobType /\ Lo(J(i)) \in Nat /\ Hi(J(i)) \in Nat
                      /\ Lo(J(i)) < Hi(J(i)) /\ Hi(J(i)) <= roundBuff.capacity
                      /\ Lo(J(i)) + Section <= roundBuff.capacity
                      /\ size <= Lo(J(i))
                      /\ pc = "take" => size + Section <= Lo(J(i))
    OBVIOUS
  <2>1. /\ J(i) \in JobType /\ Lo(J(i)) \in Nat /\ Hi(J(i)) \in Nat
        /\ Lo(J(i)) < Hi(J(i)) /\ Hi(J(i)) <= roundBuff.capacity
        /\ Lo(J(i)) + Section <= roundBuff.capacity
    BY <1>1, PlacedJob
  <2>2. PICK use : use = call.inUse
    OBVIOUS
  <2>3. /\ use.start # None /\ use.size > 0 /\ size <= use.start /\ use.start <= Lo(J(i))
    BY <1>2, <1>7, <2>2 DEF RangeInv, size
  <2>4. use.start \in Int /\ use.size \in Nat
    BY <1>6, <2>2 DEF CallType, RangeType
  <2>5. pc = "take" => ~Overlaps(size, Section, use)
    BY <2>2 DEF pc
  <2>6. pc = "take" => size + Section <= use.start
    BY <1>6, <2>3, <2>4, <2>5 DEF Overlaps, None
  <2> QED
    BY <1>6, <2>1, <2>3, <2>4, <2>6
<1>21. \A i \in Ids : Active(J(i)) => ~LastLap(J(i))
  BY <1>6, <1>7, <1>13, <1>20 DEF LastLap
<1>22. /\ Ids' = Ids /\ Section' = Section /\ FrameLen' = FrameLen
       /\ \A i : /\ J(i)' = J(i) /\ Active(J(i))' = Active(J(i))
                 /\ Lo(J(i))' = Lo(J(i)) /\ Hi(J(i))' = Hi(J(i))
  BY <1>3, <1>5, <1>11, PlacesKept
<1>23. ASSUME NEW i \in Ids, Active(J(i))
       PROVE  Placed(J(i))'
  <2>1. \A a \in Lo(J(i)) .. Hi(J(i)) - 1 : mem'[a] = mem[a]
    BY <1>6, <1>17, <1>20, <1>23
  <2> QED
    BY <1>1, <1>3, <1>5, <1>9, <1>11, <1>23, <2>1, PlacedStays
<1>24. Room' = 0
  BY <1>8 DEF Room
<1>25. LapsInv'
  <2>1. \A i \in Ids : Active(J(i)) => LastLap(J(i))'
    BY <1>6, <1>9, <1>20, <1>22, <1>24 DEF LastLap
  <2>2. \A i, k \in Ids : i < k /\ Active(J(i)) /\ Active(J(k)) => Lo(J(i)) <= Lo(J(k))
    BY <1>7, <1>21 DEF LapsInv
  <2>3. \A i \in Ids : Active(J(i)) => ~ThisLap(J(i))'
    BY <1>6, <1>9, <1>20, <1>22 DEF ThisLap
  <2> QED
    BY <1>22, <2>1, <2>2, <2>3 DEF LapsInv
<1>26. InBuffInv'
  <2>1. inBuff'.prefix.size > 0 => inBuff'.prefix.start = roundBuff'.pos - inBuff'.prefix.size
    BY <1>6, <1>8, <1>9
  <2>2. \A a \in roundBuff'.pos - inBuff'.prefix.size .. roundBuff'.pos + inBuff'.filled - 1 :
          mem'[a] = Cut' + (a - roundBuff'.pos)
    BY <1>6, <1>8, <1>9, <1>11, <1>18
  <2>3. roundBuff'.capacity \div Section' <= nextJobID'
    BY <1>4, <1>9, <1>15, <1>22
  <2>4. /\ 2 * Section' <= roundBuff'.capacity /\ roundBuff'.pos <= roundBuff'.capacity
        /\ inBuff'.filled <= Section' /\ inBuff'.prefix.size <= Section'
        /\ inBuff'.prefix.size <= roundBuff'.pos
    BY <1>6, <1>8, <1>9, <1>12, <1>22
  <2> QED
    BY <1>8, <2>1, <2>2, <2>3, <2>4 DEF InBuffInv
<1>27. RangeInv'
  <2>1. call'.pc = "take" => pc = "take"
    BY <1>10
  <2>2. size + Section <= roundBuff.capacity
    BY <1>6, <1>12
  <2>3. call'.pc # "wrap"
    BY <1>10 DEF pc
  <2> QED
    BY <1>9, <1>20, <1>22, <2>1, <2>2, <2>3 DEF RangeInv
<1>28. RingInv'
  BY <1>22, <1>23, <1>25, <1>26, <1>27 DEF RingInv
<1>29. WindowInv'
  <2> SUFFICES ASSUME Ldm, fails = 0
               PROVE  \A i \in serial.window.lowLimit .. WIN!EndIndex(serial.window) - 1 :
                        mem'[WIN!Address(serial.window, i)] = mem[WIN!Address(serial.window, i)]
    BY <1>1, <1>3, <1>5, <1>8, <1>9, <1>11, WindowKept
  <2>1. PICK w : w = serial.window
    OBVIOUS
  <2>2. /\ w \in WindowType /\ serial.ldmWindow = w /\ WindowOrdered(w)
        /\ \A i \in w.lowLimit .. WIN!EndIndex(w) - 1 :
             WIN!Address(w, i) \in 0 .. roundBuff.capacity - 1
    <3>1. serial \in SerialType
      BY <1>1, Scalars
    <3> QED
      BY <1>1, <2>1, <3>1 DEF WindowInv, WindowOrdered, SerialType
  <2>3. ~OverlapsWindow(0, size)
    BY <1>2 DEF MustWaitForLdm, size
  <2>4. \A i \in w.lowLimit .. WIN!EndIndex(w) - 1 : WIN!Address(w, i) \notin 0 .. 0 + size - 1
    BY <1>6, <2>2, <2>3, ClearOfWindow
  <2>5. \A i \in w.lowLimit .. WIN!EndIndex(w) - 1 : WIN!Address(w, i) >= size
    BY <1>6, <2>2, <2>4
  <2> QED
    BY <1>17, <2>1, <2>2, <2>5
<1>30. call'.pc \in {"create", "take"}
  BY <1>10 DEF pc
<1>31. ControlInv'
  BY <1>1, <1>2, <1>3, <1>5, <1>10, <1>30 DEF ControlInv, WorkersKept, OrderKept
<1>32. CallInv'
  BY <1>1, <1>2, <1>3, <1>4, <1>5, <1>7, <1>8, <1>10, <1>11, <1>16, <1>22, <1>30
  DEF CallInv, WorkersKept, OrderKept
<1>33. CutsInv'
  BY <1>1, <1>2, <1>3, <1>5, <1>7, <1>8, <1>11, <1>22, CutsStay
<1> QED
  BY <1>2, <1>3, <1>5, <1>6, <1>8, <1>9, <1>10, <1>11, <1>19, <1>28, <1>29, <1>31, <1>32,
     <1>33, InputStep

\* The section behind pos becomes the place of the next job.
LEMMA TakeRangeStep ==
  ASSUME MTInv, TakeRange
  PROVE  MTInv'
<1>1. /\ Types /\ ControlInv /\ CallInv /\ CutsInv /\ RingInv /\ WindowInv /\ JobTypes
  BY DEF MTInv, Types
<1>2. /\ call.pc = "take" /\ ~MustWaitForLdm
      /\ inBuff' = [inBuff EXCEPT !.start = roundBuff.pos, !.filled = 0]
      /\ call' = [call EXCEPT !.pc = "load"]
      /\ roundBuff' = roundBuff /\ mem' = mem /\ inPos' = inPos /\ ret' = ret
  BY DEF TakeRange, CallerAt, Step, callerVars
<1>3. WorkersKept /\ OrderKept
  BY KeepsWorkers, KeepsOrder DEF TakeRange, workVars, tableVars, callerVars
<1>4. jobReady' = jobReady /\ nextJobID' = nextJobID /\ doneJobID' = doneJobID
  BY <1>3 DEF OrderKept
<1>5. LastID' = LastID /\ InFrame
  BY <1>1, <1>2, <1>4 DEF LastID, Ready, InFrame, ControlInv
<1>6. /\ call \in CallType /\ roundBuff.capacity \in Nat /\ roundBuff.pos \in Nat
      /\ Section \in Nat \ {0} /\ inPos \in 0 .. FrameLen
      /\ inBuff \in [start : Int, filled : Nat, prefix : RangeType]
      /\ roundBuff \in [capacity : Nat, pos : Nat]
      /\ mem \in [0 .. roundBuff.capacity - 1 -> Int]
  BY <1>1, Scalars
<1>7. /\ inBuff.start = None /\ inBuff.filled = 0 /\ LapsInv /\ InBuffInv /\ RangeInv
      /\ Room = 0
  BY <1>1, <1>2, <1>5 DEF CallInv, RingInv, Room
<1>8. /\ inBuff'.start = roundBuff.pos /\ inBuff'.filled = 0
      /\ inBuff'.prefix = inBuff.prefix /\ inBuff'.start # None
      /\ inBuff' \in [start : Int, filled : Nat, prefix : RangeType]
  <2>1. PICK p : p = roundBuff.pos
    OBVIOUS
  <2>2. inBuff' = [inBuff EXCEPT !.start = p, !.filled = 0] /\ p \in Int /\ p # None
    BY <1>2, <1>6, <2>1 DEF None
  <2> QED
    BY <1>6, <2>1, <2>2
<1>9. /\ call' \in CallType /\ call'.pc = "load" /\ call'.end = call.end /\ call'.op = call.op
      /\ call'.after = call.after
  BY <1>2, <1>6 DEF CallType
<1>10. Cut' = Cut
  BY <1>2, <1>7, <1>8 DEF Cut
<1>11. /\ roundBuff.pos + Section <= roundBuff.capacity
       /\ \A i \in Ids : Active(J(i)) =>
            ThisLap(J(i)) \/ roundBuff.pos + Section <= Lo(J(i))
  BY <1>2, <1>7 DEF RangeInv
<1>12. /\ Ids' = Ids /\ Section' = Section /\ FrameLen' = FrameLen
       /\ \A i : /\ J(i)' = J(i) /\ Active(J(i))' = Active(J(i))
                 /\ Lo(J(i))' = Lo(J(i)) /\ Hi(J(i))' = Hi(J(i))
  BY <1>3, <1>5, <1>10, PlacesKept
<1>13. \A i \in Ids : Active(J(i)) => Placed(J(i))'
  BY <1>1, <1>2, <1>3, <1>5, <1>10, PlacedStays
<1>14. Room' = Section
  BY <1>8, <1>12 DEF Room
<1>15. \A i \in Ids : /\ ThisLap(J(i))' = ThisLap(J(i))
                      /\ LastLap(J(i))' <=> roundBuff.pos + Section <= Lo(J(i))
  BY <1>2, <1>12, <1>14 DEF ThisLap, LastLap
<1>16. LapsInv'
  <2>1. \A i \in Ids : Active(J(i)) => ThisLap(J(i)) \/ LastLap(J(i))'
    BY <1>11, <1>15
  <2>2. \A i \in Ids : Active(J(i)) => ~(ThisLap(J(i)) /\ LastLap(J(i)))
    <3> SUFFICES ASSUME NEW i \in Ids, Active(J(i))
                 PROVE  ~(ThisLap(J(i)) /\ LastLap(J(i)))
      OBVIOUS
    <3>1. Lo(J(i)) \in Nat /\ Hi(J(i)) \in Nat /\ Lo(J(i)) < Hi(J(i))
      BY <1>1, PlacedJob
    <3> QED
      BY <1>6, <1>7, <3>1 DEF ThisLap, LastLap
  <2>3. ASSUME NEW i \in Ids, NEW k \in Ids, i < k, Active(J(i)), Active(J(k))
        PROVE  \/ ThisLap(J(i)) /\ ThisLap(J(k)) /\ Lo(J(i)) <= Lo(J(k))
               \/ LastLap(J(i))' /\ ThisLap(J(k))
               \/ LastLap(J(i))' /\ LastLap(J(k))' /\ Lo(J(i)) <= Lo(J(k))
    <3>1. \/ ThisLap(J(i)) /\ ThisLap(J(k)) /\ Lo(J(i)) <= Lo(J(k))
          \/ LastLap(J(i)) /\ ThisLap(J(k))
          \/ LastLap(J(i)) /\ LastLap(J(k)) /\ Lo(J(i)) <= Lo(J(k))
      BY <1>7, <2>3 DEF LapsInv
    <3> QED
      BY <2>1, <2>2, <2>3, <3>1
  <2>4. \A i \in Ids : Active(J(i)) /\ ThisLap(J(i)) =>
          Lo(J(i)) <= roundBuff'.pos - inBuff'.prefix.size
    BY <1>2, <1>7, <1>8 DEF LapsInv
  <2> QED
    BY <1>12, <1>15, <2>1, <2>3, <2>4 DEF LapsInv
<1>17. InBuffInv'
  <2>1. FirstLap => FirstLap'
    BY <1>2, <1>5, <1>12, <1>15 DEF FirstLap
  <2>2. \A a \in roundBuff'.pos - inBuff'.prefix.size .. roundBuff'.pos + inBuff'.filled - 1 :
          mem'[a] = Cut' + (a - roundBuff'.pos)
    BY <1>2, <1>7, <1>8, <1>10 DEF InBuffInv
  <2>3. FirstLap' \/ roundBuff'.capacity \div Section' <= nextJobID'
    BY <1>2, <1>4, <1>7, <1>12, <2>1 DEF InBuffInv
  <2>4. /\ inBuff'.filled <= Section' /\ inBuff'.prefix.size <= Section'
        /\ inBuff'.prefix.size <= roundBuff'.pos
        /\ inBuff'.prefix.size > 0 => inBuff'.prefix.start = roundBuff'.pos - inBuff'.prefix.size
        /\ 2 * Section' <= roundBuff'.capacity /\ roundBuff'.pos <= roundBuff'.capacity
    BY <1>2, <1>6, <1>7, <1>8, <1>12 DEF InBuffInv
  <2>5. roundBuff'.pos + Section' <= roundBuff'.capacity /\ inBuff'.start = roundBuff'.pos
    BY <1>2, <1>8, <1>11, <1>12
  <2> QED
    BY <2>2, <2>3, <2>4, <2>5 DEF InBuffInv
<1>18. RingInv'
  <2>1. RangeInv'
    BY <1>9 DEF RangeInv
  <2> QED
    BY <1>12, <1>13, <1>16, <1>17, <2>1 DEF RingInv
<1>19. WindowInv'
  <2> SUFFICES ASSUME Ldm, fails = 0
               PROVE  \A i \in serial.window.lowLimit .. WIN!EndIndex(serial.window) - 1 :
                        WIN!Address(serial.window, i)
                          \notin roundBuff.pos .. roundBuff.pos + Section - 1
    BY <1>1, <1>2, <1>3, <1>5, <1>10, WindowKept
  <2>1. PICK w : w = serial.window
    OBVIOUS
  <2>2. /\ w \in WindowType /\ serial.ldmWindow = w /\ WindowOrdered(w)
        /\ \A i \in w.lowLimit .. WIN!EndIndex(w) - 1 :
             WIN!Address(w, i) \in 0 .. roundBuff.capacity - 1
    <3>1. serial \in SerialType
      BY <1>1, Scalars
    <3> QED
      BY <1>1, <2>1, <3>1 DEF WindowInv, WindowOrdered, SerialType
  <2>3. ~OverlapsWindow(roundBuff.pos, Section)
    BY <1>2 DEF MustWaitForLdm
  <2>4. \A i \in w.lowLimit .. WIN!EndIndex(w) - 1 :
          WIN!Address(w, i) \notin roundBuff.pos .. roundBuff.pos + Section - 1
    BY <1>6, <2>2, <2>3, ClearOfWindow
  <2> QED
    BY <2>1, <2>4
<1>20. ControlInv'
  BY <1>1, <1>2, <1>3, <1>5, <1>9 DEF ControlInv, WorkersKept, OrderKept
<1>21. CallInv'
  BY <1>1, <1>2, <1>3, <1>4, <1>5, <1>7, <1>8, <1>9, <1>10, <1>12
  DEF CallInv, WorkersKept, OrderKept
<1>22. CutsInv'
  BY <1>1, <1>2, <1>3, <1>5, <1>7, <1>8, <1>9, <1>10, CutsStay
<1> QED
  BY <1>2, <1>3, <1>5, <1>6, <1>8, <1>9, <1>10, <1>18, <1>19, <1>20, <1>21, <1>22, InputStep

\* findSynchronizationPoint: what is loaded fits, and passes no cut that it
\* does not take.
LEMMA LoadsToCut ==
  ASSUME NEW filled \in Nat, inBuff.filled = filled, filled <= Section, Section \in Nat,
         inPos \in Nat, call.end \in Nat, inPos < call.end, Sync \subseteq Nat,
         NEW n, n = SyncPoint.toLoad
  PROVE  /\ n \in Nat /\ n <= call.end - inPos /\ n <= Section - filled
         /\ SyncPoint.flush \in BOOLEAN
         /\ SyncPoint.flush => inPos + n \in Sync
         /\ ~SyncPoint.flush => n = call.end - inPos \/ n = Section - filled
         /\ Sync # {} =>
              \A m \in 0 .. n - 1 : filled + m >= RsyncMin + 1 => inPos + m \notin Sync
         /\ n = 0 => filled = Section \/ filled >= RsyncMin
<1> DEFINE loadable == Loadable
           skipped == Skipped
           hits == {m \in skipped + 1 .. loadable : inPos + m \in Sync}
           least == CHOOSE m \in hits : \A k \in hits : m <= k
<1>1. /\ loadable \in Nat /\ loadable <= call.end - inPos /\ loadable <= Section - filled
      /\ loadable = call.end - inPos \/ loadable = Section - filled
  BY DEF Loadable, Smaller
<1>2. /\ skipped \in Nat /\ RsyncMin \in Nat \ {0}
      /\ (skipped = 0 /\ filled >= RsyncMin) \/ skipped = RsyncMin - filled
  BY SizesAssumption DEF Skipped, Larger
<1>3. SyncPoint =
        IF Sync = {} \/ filled + call.end - inPos < RsyncMin
        THEN [toLoad |-> loadable, flush |-> FALSE]
        ELSE IF filled >= RsyncMin /\ inPos \in Sync
        THEN [toLoad |-> 0, flush |-> TRUE]
        ELSE IF hits # {}
        THEN [toLoad |-> least, flush |-> TRUE]
        ELSE [toLoad |-> loadable, flush |-> FALSE]
  BY DEF SyncPoint
<1> HIDE DEF loadable, skipped
<1>4. CASE Sync = {} \/ filled + call.end - inPos < RsyncMin
  <2>1. SyncPoint.toLoad = loadable /\ SyncPoint.flush = FALSE
    BY <1>3, <1>4
  <2>2. ASSUME NEW m \in 0 .. n - 1, Sync # {}
        PROVE  ~(filled + m >= RsyncMin + 1)
    <3>1. PICK left : left = call.end - inPos
      OBVIOUS
    <3>2. left \in Nat /\ n \in Nat /\ n <= left
      BY <1>1, <2>1, <3>1
    <3>3. filled + left < RsyncMin
      BY <1>2, <1>4, <2>2, <3>1
    <3> QED
      BY <1>2, <2>2, <3>2, <3>3
  <2>3. n = 0 => filled = Section
    BY <1>1, <2>1
  <2> QED
    BY <1>1, <2>1, <2>2, <2>3
<1>5. CASE /\ ~(Sync = {} \/ filled + call.end - inPos < RsyncMin)
           /\ filled >= RsyncMin /\ inPos \in Sync
  <2>1. SyncPoint.toLoad = 0 /\ SyncPoint.flush = TRUE
    BY <1>3, <1>5
  <2>2. n = 0 /\ 0 <= call.end - inPos /\ 0 <= Section - filled /\ inPos + 0 = inPos
    BY <2>1
  <2>3. 0 .. n - 1 = {}
    BY <2>2
  <2>4. n \in Nat /\ n <= call.end - inPos /\ n <= Section - filled
    BY <2>2
  <2>5. inPos + n \in Sync
    BY <1>5, <2>2
  <2>6. filled >= RsyncMin
    BY <1>5
  <2> QED
    BY <2>1, <2>3, <2>4, <2>5, <2>6
<1>6. CASE /\ ~(Sync = {} \/ filled + call.end - inPos < RsyncMin)
           /\ ~(filled >= RsyncMin /\ inPos \in Sync) /\ hits # {}
  <2>1. SyncPoint.toLoad = least /\ SyncPoint.flush = TRUE
    BY <1>3, <1>6
  <2>2. hits \in SUBSET Nat
    BY <1>1, <1>2
  <2>3. least \in hits /\ \A k \in hits : least <= k
    <3> HIDE DEF hits
    <3>1. \E f \in hits : \A k \in hits : f <= k
      BY <1>6, <2>2, LeastOf
    <3> QED
      BY <3>1
  <2>4. n \in skipped + 1 .. loadable /\ inPos + n \in Sync
    BY <2>1, <2>3
  <2>5. ASSUME NEW m \in 0 .. n - 1, filled + m >= RsyncMin + 1, inPos + m \in Sync
        PROVE  FALSE
    <3>1. m \notin hits
      BY <2>1, <2>2, <2>3, <2>5, <2>4
    <3>2. m <= skipped
      BY <1>1, <1>2, <2>4, <2>5, <3>1
    <3>3. m = 0 /\ filled >= RsyncMin
      BY <1>2, <2>5, <3>2
    <3> QED
      BY <1>6, <2>5, <3>3
  <2> HIDE DEF hits, least
  <2>6. n \in Nat /\ n > 0 /\ n <= loadable
    BY <1>1, <1>2, <2>4
  <2>7. n <= call.end - inPos /\ n <= Section - filled
    BY <1>1, <2>6
  <2>8. SyncPoint.flush \in BOOLEAN /\ (SyncPoint.flush => inPos + n \in Sync)
    BY <2>1, <2>4
  <2>9. /\ ~SyncPoint.flush => n = call.end - inPos \/ n = Section - filled
        /\ n = 0 => filled = Section \/ filled >= RsyncMin
    BY <2>1, <2>6
  <2> QED
    BY <2>5, <2>6, <2>7, <2>8, <2>9
<1>7. CASE /\ ~(Sync = {} \/ filled + call.end - inPos < RsyncMin)
           /\ ~(filled >= RsyncMin /\ inPos \in Sync) /\ hits = {}
  <2>1. SyncPoint.toLoad = loadable /\ SyncPoint.flush = FALSE
    BY <1>3, <1>7
  <2>2. ASSUME NEW m \in 0 .. n - 1, filled + m >= RsyncMin + 1, inPos + m \in Sync
        PROVE  FALSE
    <3>1. m \notin hits
      BY <1>7
    <3>2. m <= skipped
      BY <1>1, <1>2, <2>1, <2>2, <3>1
    <3>3. m = 0 /\ filled >= RsyncMin
      BY <1>2, <2>2, <3>2
    <3> QED
      BY <1>7, <2>2, <3>3
  <2>3. n = 0 => filled = Section
    BY <1>1, <2>1
  <2> QED
    BY <1>1, <2>1, <2>2, <2>3
<1> QED
  BY <1>4, <1>5, <1>6, <1>7

\* The input is copied into the section that was taken.
LEMMA LoadInputStep ==
  ASSUME CleanPlans, MTInv, LoadInput
  PROVE  MTInv'
<1>1. /\ Types /\ ControlInv /\ CallInv /\ CutsInv /\ RingInv /\ WindowInv /\ JobTypes
  BY DEF MTInv, Types
<1> DEFINE n == SyncPoint.toLoad
           filled == inBuff.filled
           start == inBuff.start
           to == start + filled
           op == IF SyncPoint.flush /\ call.op = "continue" THEN "flush" ELSE call.op
<1>2. /\ call.pc = "load"
      /\ mem' = [a \in DOMAIN mem |->
                   IF a \in to .. to + n - 1 THEN inPos + (a - to) ELSE mem[a]]
      /\ inPos' = inPos + n
      /\ inBuff' = [inBuff EXCEPT !.filled = @ + n]
      /\ call' = [call EXCEPT !.pc = "create", !.fwd = n > 0,
                    !.op = IF SyncPoint.flush /\ @ = "continue" THEN "flush" ELSE @]
      /\ roundBuff' = roundBuff /\ ret' = ret
  BY DEF LoadInput, CallerAt, callerVars
<1>3. WorkersKept /\ OrderKept
  BY KeepsWorkers, KeepsOrder DEF LoadInput, workVars, tableVars, callerVars
<1>4. jobReady' = jobReady /\ nextJobID' = nextJobID /\ doneJobID' = doneJobID
  BY <1>3 DEF OrderKept
<1>5. LastID' = LastID /\ InFrame
  BY <1>1, <1>2, <1>4 DEF LastID, Ready, InFrame, ControlInv
<1>6. /\ call \in CallType /\ roundBuff.capacity \in Nat /\ roundBuff.pos \in Nat
      /\ Section \in Nat \ {0} /\ inPos \in Nat /\ inPos <= FrameLen /\ FrameLen \in Nat
      /\ inBuff \in [start : Int, filled : Nat, prefix : RangeType]
      /\ roundBuff \in [capacity : Nat, pos : Nat]
      /\ mem \in [0 .. roundBuff.capacity - 1 -> Int]
      /\ filled \in Nat /\ start \in Int /\ inBuff.prefix.size \in Nat
      /\ call.end \in Nat /\ Sync \subseteq Nat
  BY <1>1, Scalars
<1>7. /\ LapsInv /\ InBuffInv /\ start # None /\ Room = Section
      /\ ~jobReady /\ inPos < call.end /\ call.end <= FrameLen
      /\ call.op \in frames[frame].ops /\ ret = None
      /\ call.op = "end" => call.end = FrameLen
  BY <1>1, <1>2, <1>5 DEF CallInv, RingInv, Room
<1>8. /\ start = roundBuff.pos /\ roundBuff.pos + Section <= roundBuff.capacity
      /\ filled <= Section
  BY <1>7 DEF InBuffInv
<1>9. /\ n \in Nat /\ n <= call.end - inPos /\ n <= Section - filled
      /\ SyncPoint.flush \in BOOLEAN
      /\ SyncPoint.flush => inPos + n \in Sync
      /\ ~SyncPoint.flush => n = call.end - inPos \/ n = Section - filled
      /\ Sync # {} =>
           \A m \in 0 .. n - 1 : filled + m >= RsyncMin + 1 => inPos + m \notin Sync
      /\ n = 0 => filled = Section \/ filled >= RsyncMin
  BY <1>6, <1>7, <1>8, LoadsToCut
<1> HIDE DEF n
<1>31. n \in Nat /\ n <= call.end - inPos /\ n <= Section - filled
  BY <1>9
<1>32. /\ roundBuff.capacity \in Nat /\ roundBuff.pos \in Nat /\ Section \in Nat
       /\ inPos \in Nat /\ FrameLen \in Nat /\ filled \in Nat
       /\ inBuff.prefix.size \in Nat /\ call.end \in Nat
  BY <1>6
<1>33. inBuff.prefix.size <= roundBuff.pos
  BY <1>7 DEF InBuffInv
<1>10. /\ inBuff'.start = start /\ inBuff'.filled = filled + n
       /\ inBuff'.prefix = inBuff.prefix
       /\ inBuff' \in [start : Int, filled : Nat, prefix : RangeType]
  <2>1. PICK f : f = filled + n
    OBVIOUS
  <2>2. f \in Nat /\ inBuff' = [inBuff EXCEPT !.filled = f]
    BY <1>2, <1>6, <1>9, <2>1
  <2> QED
    BY <1>6, <2>1, <2>2
<1>11. op \in {"continue", "flush", "end"} /\ (op = "end" => call.op = "end")
  BY <1>6, <1>9 DEF CallType
<1>12. /\ call' \in CallType /\ call'.pc = "create" /\ call'.end = call.end /\ call'.op = op
       /\ call'.after = call.after
  <2>1. call' = [call EXCEPT !.pc = "create", !.fwd = n > 0, !.op = op]
    BY <1>2, <1>6 DEF CallType
  <2>2. (n > 0) \in BOOLEAN
    OBVIOUS
  <2> HIDE DEF op
  <2> QED
    BY <1>6, <1>11, <2>1, <2>2 DEF CallType
<1>13. Cut' = Cut /\ Cut + filled = inPos /\ Cut \in Int
  <2>1. inPos' = inPos + n /\ inBuff'.filled = filled + n
    BY <1>2, <1>10
  <2> QED
    BY <1>31, <1>32, <2>1 DEF Cut
<1>14. /\ Ids' = Ids /\ Section' = Section /\ FrameLen' = FrameLen /\ Sync' = Sync
       /\ \A i : /\ J(i)' = J(i) /\ Active(J(i))' = Active(J(i))
                 /\ Lo(J(i))' = Lo(J(i)) /\ Hi(J(i))' = Hi(J(i))
  BY <1>3, <1>5, <1>13, PlacesKept
<1>15. InFrame' /\ inPos' \in 0 .. FrameLen /\ inPos' \in Nat /\ inPos' <= call.end
  <2>1. InFrame'
    BY <1>2, <1>5, <1>12 DEF InFrame
  <2>2. inPos' = inPos + n /\ inPos < call.end /\ call.end <= FrameLen
    BY <1>2, <1>7
  <2> QED
    BY <1>31, <1>32, <2>1, <2>2
<1>16. inPos' > 0
  <2>1. CASE inPos > 0
    BY <1>2, <1>6, <1>9, <2>1
  <2>2. CASE inPos = 0
    <3>1. filled = 0
      BY <1>1, <1>5, <1>6, <1>13, <2>2 DEF CallInv
    <3>2. n > 0
      BY <1>6, <1>9, <3>1, SizesAssumption
    <3> QED
      BY <1>2, <1>6, <1>9, <3>2
  <2> QED
    BY <1>6, <2>1, <2>2
<1>17. to \in Nat /\ to = roundBuff.pos + filled /\ to + n <= roundBuff.pos + Section
  BY <1>6, <1>8, <1>9
<1> HIDE DEF to, op
<1>18. /\ mem' \in [0 .. roundBuff'.capacity - 1 -> Int]
       /\ \A a \in 0 .. roundBuff.capacity - 1 :
            mem'[a] = IF a \in to .. to + n - 1 THEN inPos + (a - to) ELSE mem[a]
  <2>1. \A a \in to .. to + n - 1 : inPos + (a - to) \in Int
    BY <1>6, <1>17
  <2> QED
    BY <1>2, <1>6, <2>1
<1>19. \A a \in 0 .. roundBuff.capacity - 1 :
         a < to \/ a >= roundBuff.pos + Section => mem'[a] = mem[a]
  <2>1. \A a \in 0 .. roundBuff.capacity - 1 :
          a < to \/ a >= roundBuff.pos + Section => a \notin to .. to + n - 1
    BY <1>31, <1>32, <1>17
  <2> QED
    BY <1>18, <2>1
<1>20. ASSUME NEW i \in Ids, Active(J(i))
       PROVE  Placed(J(i))'
  <2>1. /\ Lo(J(i)) \in Nat /\ Hi(J(i)) \in Nat /\ Hi(J(i)) <= roundBuff.capacity
    BY <1>1, <1>20, PlacedJob
  <2>2. ThisLap(J(i)) \/ LastLap(J(i))
    BY <1>7, <1>20 DEF LapsInv
  <2>3. \A a \in Lo(J(i)) .. Hi(J(i)) - 1 : a < to \/ a >= roundBuff.pos + Section
    BY <1>6, <1>7, <1>17, <2>1, <2>2, SMTT(30) DEF ThisLap, LastLap
  <2>4. \A a \in Lo(J(i)) .. Hi(J(i)) - 1 : mem'[a] = mem[a]
    BY <1>6, <1>19, <2>1, <2>3
  <2> QED
    BY <1>1, <1>2, <1>3, <1>5, <1>13, <1>20, <2>4, PlacedStays
<1>21. Room' = Room
  BY <1>10, <1>14 DEF Room
<1>22. \A i : ThisLap(J(i))' = ThisLap(J(i)) /\ LastLap(J(i))' = LastLap(J(i))
  BY <1>2, <1>14, <1>21 DEF ThisLap, LastLap
<1>23. LapsInv'
  BY <1>2, <1>7, <1>10, <1>14, <1>22 DEF LapsInv
<1>24. InBuffInv'
  <2>1. FirstLap => FirstLap'
    BY <1>2, <1>5, <1>14, <1>22 DEF FirstLap
  <2>2. ASSUME NEW a \in roundBuff.pos - inBuff.prefix.size .. roundBuff.pos + (filled + n) - 1
        PROVE  mem'[a] = Cut + (a - roundBuff.pos)
    <3>1. a \in 0 .. roundBuff.capacity - 1
      BY <1>8, <1>31, <1>32, <1>33, <2>2
    <3>2. CASE a \in to .. to + n - 1
      BY <1>6, <1>13, <1>17, <1>18, <3>1, <3>2, SMTT(30)
    <3>3. CASE a \notin to .. to + n - 1
      <4>1. a \in roundBuff.pos - inBuff.prefix.size .. roundBuff.pos + filled - 1
        BY <1>31, <1>32, <1>17, <2>2, <3>3
      <4>2. mem[a] = Cut + (a - roundBuff.pos)
        BY <1>7, <4>1 DEF InBuffInv
      <4> QED
        BY <1>18, <3>1, <3>3, <4>2
    <3> QED
      BY <3>2, <3>3
  <2>3. \A a \in roundBuff'.pos - inBuff'.prefix.size .. roundBuff'.pos + inBuff'.filled - 1 :
          mem'[a] = Cut' + (a - roundBuff'.pos)
    BY <1>2, <1>10, <1>13, <2>2
  <2>4. FirstLap' \/ roundBuff'.capacity \div Section' <= nextJobID'
    BY <1>2, <1>4, <1>7, <1>14, <2>1 DEF InBuffInv
  <2>5. inBuff'.filled <= Section'
    BY <1>6, <1>9, <1>10, <1>14
  <2>6. /\ inBuff'.prefix.size <= Section'
        /\ inBuff'.prefix.size <= roundBuff'.pos
        /\ inBuff'.prefix.size > 0 => inBuff'.prefix.start = roundBuff'.pos - inBuff'.prefix.size
        /\ 2 * Section' <= roundBuff'.capacity /\ roundBuff'.pos <= roundBuff'.capacity
    BY <1>2, <1>7, <1>10, <1>14 DEF InBuffInv
  <2>7. roundBuff'.pos + Section' <= roundBuff'.capacity /\ inBuff'.start = roundBuff'.pos
    BY <1>2, <1>8, <1>10, <1>14
  <2> QED
    BY <2>3, <2>4, <2>5, <2>6, <2>7 DEF InBuffInv
<1>25. RingInv'
  <2>1. RangeInv'
    BY <1>12 DEF RangeInv
  <2> QED
    BY <1>14, <1>20, <1>23, <1>24, <2>1 DEF RingInv
<1>26. WindowInv'
  <2> SUFFICES ASSUME Ldm, fails = 0
               PROVE  \A i \in serial.window.lowLimit .. WIN!EndIndex(serial.window) - 1 :
                        /\ mem'[WIN!Address(serial.window, i)] = mem[WIN!Address(serial.window, i)]
                        /\ WIN!Address(serial.window, i)
                             \notin roundBuff.pos .. roundBuff.pos + Section - 1
    BY <1>1, <1>2, <1>3, <1>5, <1>13, WindowKept
  <2>1. \A i \in serial.window.lowLimit .. WIN!EndIndex(serial.window) - 1 :
          /\ WIN!Address(serial.window, i) \in 0 .. roundBuff.capacity - 1
          /\ WIN!Address(serial.window, i) \notin roundBuff.pos .. roundBuff.pos + Section - 1
    BY <1>1, <1>5, <1>7 DEF WindowInv
  <2>2. \A a \in 0 .. roundBuff.capacity - 1 :
          a \notin roundBuff.pos .. roundBuff.pos + Section - 1 =>
            a < to \/ a >= roundBuff.pos + Section
    BY <1>6, <1>17
  <2> QED
    BY <1>19, <2>1, <2>2
<1>27. ControlInv'
  BY <1>1, <1>2, <1>3, <1>5, <1>12 DEF ControlInv, WorkersKept, OrderKept
<1>28. ~frameEnded
  BY <1>1, <1>5, <1>6, <1>7 DEF CallInv
<1>29. CallInv'
  BY <1>1, <1>2, <1>3, <1>4, <1>5, <1>7, <1>10, <1>11, <1>12, <1>13, <1>14, <1>15, <1>16, <1>28
  DEF CallInv, WorkersKept, OrderKept
<1>30. CutsInv'
  <2> SUFFICES ASSUME Sync # {}, "flush" \notin frames[frame].ops
               PROVE  CutsInv'
    BY <1>3, <1>14 DEF CutsInv, OrderKept
  <2>1. /\ \A i \in Larger(0, nextJobID - Cardinality(DOMAIN jobs)) .. LastID :
             J(i) = NullJob \/ CutWell(J(i))
        /\ Sync \cap (Cut + RsyncMin + 1 .. inPos - 1) = {}
    BY <1>1, <1>2, <1>5 DEF CutsInv
  <2>2. \A i \in Larger(0, nextJobID - Cardinality(DOMAIN jobs))' .. LastID' :
             J(i)' = NullJob \/ CutWell(J(i))'
    <3>1. \A j : CutWell(j)' <=> CutWell(j)
      BY <1>14 DEF CutWell
    <3>2. jobs' = jobs
      BY <1>3 DEF WorkersKept
    <3> QED
      BY <1>4, <1>5, <1>14, <2>1, <3>1, <3>2 DEF CutWell
  <2>3. ASSUME NEW p \in Sync, p \in Cut + RsyncMin + 1 .. inPos' - 1
        PROVE  FALSE
    <3>1. p \in Nat /\ RsyncMin \in Nat
      BY <1>6, SizesAssumption
    <3>2. p >= inPos
      BY <1>6, <1>13, <2>1, <2>3, <3>1
    <3>3. PICK m : m = p - inPos
      OBVIOUS
    <3>4. m \in 0 .. n - 1 /\ filled + m >= RsyncMin + 1 /\ inPos + m = p
      <4>1. p <= inPos + n - 1
        BY <1>2, <1>31, <1>32, <2>3, <3>1
      <4>2. p >= Cut + RsyncMin + 1 /\ Cut + filled = inPos /\ Cut \in Int
        BY <1>13, <2>3, <3>1
      <4> QED
        BY <1>31, <1>32, <3>1, <3>2, <3>3, <4>1, <4>2
    <3> QED
      BY <1>9, <2>3, <3>4
  <2>4. ASSUME op = "flush" \/ (op = "end" /\ inPos' < call.end)
        PROVE  inBuff'.filled = Section \/ inPos' \in Sync
    <3>1. CASE SyncPoint.flush
      BY <1>2, <1>9, <3>1
    <3>2. CASE ~SyncPoint.flush
      <4>1. op = call.op
        BY <3>2 DEF op
      <4>2. inPos' < call.end
        BY <1>7, <2>4, <4>1
      <4>3. n = Section - filled
        BY <1>2, <1>6, <1>9, <3>2, <4>2
      <4> QED
        BY <1>6, <1>10, <4>3
    <3> QED
      BY <1>9, <3>1, <3>2
  <2>5. Sync \cap (Cut' + RsyncMin + 1 .. inPos' - 1) = {}
    BY <1>13, <2>3
  <2> QED
    BY <1>12, <1>14, <2>2, <2>4, <2>5 DEF CutsInv
<1> QED
  <2>1. /\ inBuff' \in [start : Int, filled : Nat, prefix : RangeType]
        /\ roundBuff' \in [capacity : Nat, pos : Nat]
        /\ mem' \in [0 .. roundBuff'.capacity - 1 -> Int] /\ inPos' \in 0 .. FrameLen
        /\ ret' = ret /\ call' \in CallType /\ call.pc # "waitAll"
    BY <1>2, <1>6, <1>10, <1>12, <1>15, <1>18
  <2> QED
    BY <1>3, <1>5, <1>13, <1>25, <1>26, <1>27, <1>29, <1>30, <2>1, InputStep

(* --------------------------- a job is created --------------------------- *)
\* What a new job is before it is posted: a piece of the input, untouched, or
\* the last empty block, written or not.
Fresh(r) ==
  /\ r \in JobType /\ r.jobID = nextJobID /\ r.at = Cut /\ r.flushed = 0 /\ r.consumed = 0
  /\ r.last <=> EndOp = "end"
  /\ r.sum <=> r.last /\ Checksum /\ nextJobID > 0
  /\ r.src.size = inBuff.filled
  /\ \/ /\ r.src.size > 0 /\ r.src.start = inBuff.start /\ r.prefix = inBuff.prefix
        /\ Pristine(r)
     \/ /\ r.src.size = 0 /\ nextJobID > 0 /\ r.last
        /\ r.cSize = Error \/ (r.cSize = 1 /\ r.dst = <<EndMark>>)

JobAdded(r) ==
  /\ call.pc = "create" /\ WantsJob /\ ~TableFull /\ ~jobReady
  /\ jobs' = [jobs EXCEPT ![Slot(nextJobID)] = r] /\ Fresh(r)
  /\ InputHandedOver
  /\ \/ nextJobID' = nextJobID + 1 /\ jobReady' = FALSE
     \/ nextJobID' = nextJobID /\ jobReady' = TRUE /\ r.src.size > 0
  /\ call' = [call EXCEPT !.pc = "flush", !.op = EndOp]
  /\ UNCHANGED <<serial, job, mem, inPos, doneJobID, allJobsCompleted, nbWorkers, frames,
                 frame, delivered, ret>>
  /\ \/ fails' = fails /\ r.cSize # Error
     \/ fails' = fails + 1 /\ frame = Len(frames)

\* When ZSTDMT_createCompressionJob prepares a job.
LEMMA Creates ==
  ASSUME MTInv, call.pc = "create", WantsJob, ~jobReady
  PROVE  /\ InFrame /\ ret = None /\ ~frameEnded /\ sumFlag = Checksum
         /\ LastID = nextJobID - 1 /\ Cut \in Nat /\ Cut + inBuff.filled = inPos /\ inPos > 0
         /\ EndOp \in {"continue", "flush", "end"}
         /\ EndOp = "end" => inPos = FrameLen /\ inPos = call.end /\ call.op = "end"
         /\ inBuff.filled = 0 => EndOp = "end" /\ nextJobID > 0
         /\ inBuff.filled > 0 => /\ inBuff.start = roundBuff.pos
                                 /\ roundBuff.pos + Section <= roundBuff.capacity
                                 /\ Room = Section
         /\ inBuff.filled <= Section
<1>1. /\ Types /\ ControlInv /\ CallInv /\ RingInv
  BY DEF MTInv
<1>2. InFrame /\ ret = None
  BY <1>1 DEF InFrame, ControlInv, CallInv
<1>3. LastID = nextJobID - 1
  BY DEF LastID, Ready
<1>4. /\ inPos \in Nat /\ inBuff.filled \in Nat /\ call.end \in Nat /\ Section \in Nat \ {0}
      /\ call \in CallType /\ nextJobID \in Nat /\ roundBuff.pos \in Nat
  BY <1>1, Scalars
<1>5. ~frameEnded
  BY <1>1, <1>2, <1>4 DEF CallInv, WantsJob
<1>6. Cut \in Nat /\ Cut + inBuff.filled = inPos
  BY <1>1, <1>2, <1>4 DEF CallInv, Cut
<1>7. EndOp \in {"continue", "flush", "end"}
  BY <1>4 DEF CallType, EndOp
<1>8. inPos <= call.end /\ (call.op = "end" => call.end = FrameLen) /\ inPos > 0
      /\ sumFlag = Checksum
  BY <1>1, <1>2, <1>5 DEF CallInv
<1>9. EndOp = "end" => inPos = FrameLen /\ inPos = call.end /\ call.op = "end"
  BY <1>4, <1>8 DEF EndOp
<1>10. ASSUME inBuff.filled = 0
       PROVE  EndOp = "end" /\ nextJobID > 0
  <2>1. EndOp = "end"
    BY <1>4, <1>10 DEF WantsJob
  <2>2. Cut > 0
    BY <1>6, <1>8, <1>10
  <2> QED
    BY <1>1, <1>2, <1>3, <1>4, <2>1, <2>2 DEF CallInv
<1>11. ASSUME inBuff.filled > 0
       PROVE  inBuff.start = roundBuff.pos /\ roundBuff.pos + Section <= roundBuff.capacity
              /\ Room = Section
  <2>1. inBuff.start # None
    BY <1>1, <1>2, <1>4, <1>11 DEF CallInv
  <2> QED
    BY <1>1, <1>2, <2>1 DEF RingInv, InBuffInv, Room
<1>12. inBuff.filled <= Section
  BY <1>1, <1>2 DEF RingInv, InBuffInv
<1> QED
  BY <1>2, <1>3, <1>5, <1>6, <1>7, <1>8, <1>9, <1>10, <1>11, <1>12

\* The input side after that.
LEMMA HandedOver ==
  ASSUME MTInv, call.pc = "create", WantsJob, ~jobReady, InputHandedOver, inPos' = inPos
  PROVE  /\ roundBuff'.pos = roundBuff.pos + inBuff.filled
         /\ roundBuff'.capacity = roundBuff.capacity
         /\ roundBuff' \in [capacity : Nat, pos : Nat]
         /\ inBuff' \in [start : Int, filled : Nat, prefix : RangeType]
         /\ inBuff'.start = None /\ inBuff'.filled = 0
         /\ inBuff'.prefix.size \in Nat /\ inBuff'.prefix.size <= inBuff.filled
         /\ inBuff'.prefix.size > 0 =>
              inBuff'.prefix.start = roundBuff'.pos - inBuff'.prefix.size
         /\ frameEnded' \in BOOLEAN /\ (frameEnded' <=> EndOp = "end")
         /\ sumFlag' \in BOOLEAN /\ (~frameEnded' => sumFlag' = Checksum)
         /\ Cut' = inPos /\ Room' = 0
<1>1. Types
  BY DEF MTInv
<1>2. /\ ~frameEnded /\ sumFlag = Checksum
      /\ inBuff.filled > 0 => inBuff.start = roundBuff.pos
  BY Creates
<1>3. /\ inBuff.filled \in Nat /\ inBuff.start \in Int /\ roundBuff.pos \in Nat
      /\ roundBuff \in [capacity : Nat, pos : Nat] /\ inPos \in Nat
  BY <1>1, Scalars
<1>4. /\ roundBuff' = [roundBuff EXCEPT !.pos = roundBuff.pos + inBuff.filled]
      /\ inBuff' = [start |-> None, filled |-> 0, prefix |-> NextPrefix]
      /\ frameEnded' = (frameEnded \/ EndOp = "end")
      /\ sumFlag' = (sumFlag /\ ~(EndOp = "end" /\ nextJobID = 0))
  BY DEF InputHandedOver
<1>5. /\ NextPrefix \in RangeType /\ NextPrefix.size \in Nat /\ NextPrefix.size <= inBuff.filled
      /\ NextPrefix.size > 0 =>
           NextPrefix.start = inBuff.start + inBuff.filled - NextPrefix.size
  <2>1. CASE EndOp = "end"
    BY <1>3, <2>1 DEF NextPrefix, NullRange, RangeType, None
  <2>2. CASE EndOp # "end"
    <3>1. PICK s : s = Smaller(inBuff.filled, PrefixSize)
      OBVIOUS
    <3>2. s \in Nat /\ s <= inBuff.filled
      BY <1>3, <3>1, SizesAssumption DEF Smaller
    <3>3. NextPrefix = [start |-> inBuff.start + inBuff.filled - s, size |-> s]
      BY <2>2, <3>1 DEF NextPrefix
    <3>4. inBuff.start + inBuff.filled - s \in Int
      BY <1>3, <3>2
    <3> QED
      BY <3>2, <3>3, <3>4 DEF RangeType
  <2> QED
    BY <2>1, <2>2
<1>6. roundBuff'.pos = roundBuff.pos + inBuff.filled /\ roundBuff'.capacity = roundBuff.capacity
      /\ roundBuff' \in [capacity : Nat, pos : Nat]
  BY <1>3, <1>4
<1>7. /\ inBuff'.start = None /\ inBuff'.filled = 0 /\ inBuff'.prefix = NextPrefix
      /\ inBuff' \in [start : Int, filled : Nat, prefix : RangeType]
  BY <1>4, <1>5 DEF None
<1>8. NextPrefix.size > 0 => NextPrefix.start = roundBuff'.pos - NextPrefix.size
  <2> SUFFICES ASSUME NextPrefix.size > 0
               PROVE  NextPrefix.start = roundBuff'.pos - NextPrefix.size
    OBVIOUS
  <2>1. inBuff.start = roundBuff.pos
    BY <1>2, <1>3, <1>5
  <2> QED
    BY <1>3, <1>5, <1>6, <2>1
<1>9. Cut' = inPos /\ Room' = 0
  BY <1>3, <1>7 DEF Cut, Room
<1>10. /\ frameEnded' \in BOOLEAN /\ (frameEnded' <=> EndOp = "end")
       /\ sumFlag' \in BOOLEAN /\ (~frameEnded' => sumFlag' = Checksum)
  BY <1>2, <1>4, SizesAssumption
<1> QED
  BY <1>5, <1>6, <1>7, <1>8, <1>9, <1>10

\* The jobs after that.
LEMMA AddedTerms ==
  ASSUME MTInv, NEW r, JobAdded(r)
  PROVE  /\ LastID' = nextJobID /\ Ids' = Ids \cup {nextJobID} /\ nextJobID \notin Ids
         /\ nextJobID \in Nat /\ Ids \subseteq Nat
         /\ \A i : i = nextJobID => J(i)' = r
         /\ \A i \in Ids : J(i)' = J(i) /\ Slot(i) # Slot(nextJobID) /\ i < nextJobID
         /\ \A i \in Nat : J(i)' = J(i) \/ J(i)' = r
         /\ DOMAIN jobs' = DOMAIN jobs /\ TableLen' = TableLen
         /\ \E size \in TableSizes : jobs' \in [0 .. size - 1 -> JobType]
         /\ \A i : Slot(i)' = Slot(i)
         /\ Section' = Section /\ FrameLen' = FrameLen /\ Sync' = Sync /\ Units' = Units
         /\ \A k : Unit(k)' = Unit(k)
<1>1. Types /\ JobTypes /\ ControlInv
  BY DEF MTInv, Types
<1>2. /\ nextJobID \in Nat /\ doneJobID \in Nat /\ doneJobID <= nextJobID
  BY <1>1, Scalars DEF ControlInv
<1>3. /\ r \in JobType /\ jobs' = [jobs EXCEPT ![Slot(nextJobID)] = r]
      /\ ~TableFull /\ ret' = ret /\ doneJobID' = doneJobID
      /\ frames' = frames /\ frame' = frame
  BY DEF JobAdded, Fresh
<1>4. ret = None /\ LastID = nextJobID - 1
  BY Creates DEF JobAdded
<1>5. LastID' = nextJobID
  BY <1>2, <1>3, <1>4 DEF JobAdded, LastID, Ready, None, Error
<1>6. Ids = doneJobID .. nextJobID - 1 /\ Ids' = doneJobID .. nextJobID
  BY <1>3, <1>4, <1>5 DEF Ids
<1>7. TableLen \in Nat /\ nextJobID < doneJobID + TableLen
  BY <1>1, <1>2, <1>3, TableShape DEF TableFull, TableLen
<1>8. /\ TableLen' = TableLen /\ DOMAIN jobs' = DOMAIN jobs
      /\ \E size \in TableSizes : jobs' \in [0 .. size - 1 -> JobType]
      /\ \A i : i = nextJobID => J(i)' = r
      /\ \A i \in Nat : i < nextJobID + TableLen /\ nextJobID < i + TableLen /\ i # nextJobID =>
           J(i)' = J(i)
  <2>1. JobTypes /\ nextJobID \in Nat /\ r \in JobType
        /\ jobs' = [jobs EXCEPT ![Slot(nextJobID)] = r]
    BY <1>1, <1>2, <1>3
  <2>2. PICK b \in Nat : b = nextJobID
    BY <1>2
  <2>3. jobs' = [jobs EXCEPT ![Slot(b)] = r]
    BY <2>1, <2>2
  <2>4. /\ TableLen' = TableLen /\ DOMAIN jobs' = DOMAIN jobs
        /\ \E size \in TableSizes : jobs' \in [0 .. size - 1 -> JobType]
        /\ \A i \in Nat : Slot(i)' = Slot(i)
        /\ J(b)' = r
        /\ \A i \in Nat : i < b + TableLen /\ b < i + TableLen /\ i # b => J(i)' = J(i)
    BY <2>1, <2>3, JobWritten
  <2>5. \A i : i = nextJobID => J(i)' = r
    BY <2>2, <2>4
  <2> QED
    BY <2>2, <2>4, <2>5
<1>9. \A i : Slot(i)' = Slot(i)
  BY <1>8 DEF Slot, TableLen
<1>10. ASSUME NEW i \in Ids
       PROVE  J(i)' = J(i) /\ Slot(i) # Slot(nextJobID) /\ i < nextJobID
  <2>1. i \in Nat /\ i < nextJobID /\ nextJobID < i + TableLen /\ i < nextJobID + TableLen
    BY <1>2, <1>6, <1>7
  <2> QED
    BY <1>1, <1>2, <1>8, <2>1, SlotsDiffer
<1>11. \A i \in Nat : J(i)' = J(i) \/ J(i)' = r
  <2>1. \A i \in Nat : Slot(i) \in DOMAIN jobs
    BY <1>1, TableShape
  <2> QED
    BY <1>3, <1>9, <2>1 DEF J
<1>12. /\ Section' = Section /\ FrameLen' = FrameLen /\ Sync' = Sync /\ Units' = Units
       /\ \A k : Unit(k)' = Unit(k)
  BY <1>3 DEF Section, FrameLen, Sync, Units, Unit
<1> QED
  BY <1>2, <1>5, <1>6, <1>8, <1>9, <1>10, <1>11, <1>12


\* What the creation of a job keeps of the types and of the control.
LEMMA AddedTypes ==
  ASSUME MTInv, NEW r, JobAdded(r), PoolTypes'
  PROVE  Types'
<1>1. Types
  BY DEF MTInv
<1>2. /\ call.pc = "create" /\ WantsJob /\ ~jobReady /\ InputHandedOver /\ inPos' = inPos
      /\ UNCHANGED <<serial, mem, doneJobID, allJobsCompleted, nbWorkers, frames, frame,
                     delivered, ret>>
      /\ call' = [call EXCEPT !.pc = "flush", !.op = EndOp]
      /\ jobReady' \in BOOLEAN /\ nextJobID' \in {nextJobID, nextJobID + 1}
      /\ fails' \in {fails, fails + 1}
  BY DEF JobAdded
<1>3. /\ \E size \in TableSizes : jobs' \in [0 .. size - 1 -> JobType]
      /\ FrameLen' = FrameLen
  BY AddedTerms
<1>4. /\ roundBuff'.capacity = roundBuff.capacity
      /\ roundBuff' \in [capacity : Nat, pos : Nat]
      /\ inBuff' \in [start : Int, filled : Nat, prefix : RangeType]
      /\ frameEnded' \in BOOLEAN /\ sumFlag' \in BOOLEAN
  BY <1>2, HandedOver
<1>5. JobTypes'
  <2>1. nextJobID \in Nat /\ fails \in Nat
    BY <1>1, Scalars
  <2>2. nextJobID' \in {nextJobID, nextJobID + 1} /\ fails' \in {fails, fails + 1}
    BY <1>2
  <2>3. nextJobID' \in Nat /\ fails' \in Nat
    BY <2>1, <2>2
  <2> QED
    BY <1>1, <1>2, <1>3, <1>4, <2>3 DEF Types, JobTypes
<1>6. call' \in CallType
  <2>1. EndOp \in {"continue", "flush", "end"}
    BY <1>2, Creates
  <2>2. call \in CallType
    BY <1>1, Scalars
  <2> QED
    BY <1>2, <2>1, <2>2 DEF CallType
<1>7. InputTypes'
  BY <1>1, <1>2, <1>3, <1>4, <1>6 DEF Types, InputTypes
<1> QED
  BY <1>5, <1>7 DEF Types

\* The frame goes on, and the new job is the last one.
LEMMA AddedControl ==
  ASSUME MTInv, NEW r, JobAdded(r), UNCHANGED <<shutdown, client>>
  PROVE  ControlInv' /\ CallInv' /\ InFrame'
<1>1. Types /\ ControlInv /\ CallInv /\ JobTypes
  BY DEF MTInv, Types
<1>2. /\ call.pc = "create" /\ WantsJob /\ ~jobReady /\ InputHandedOver /\ inPos' = inPos
      /\ UNCHANGED <<doneJobID, allJobsCompleted, frames, frame, delivered, ret>>
      /\ call' = [call EXCEPT !.pc = "flush", !.op = EndOp]
      /\ nextJobID' = nextJobID \/ nextJobID' = nextJobID + 1
      /\ fails' = fails \/ (fails' = fails + 1 /\ frame = Len(frames))
      /\ ~TableFull
  BY DEF JobAdded
<1>3. /\ InFrame /\ ret = None /\ ~frameEnded /\ LastID = nextJobID - 1 /\ inPos > 0
      /\ EndOp \in {"continue", "flush", "end"}
      /\ EndOp = "end" => inPos = FrameLen /\ inPos = call.end /\ call.op = "end"
  BY <1>2, Creates
<1>4. /\ LastID' = nextJobID /\ DOMAIN jobs' = DOMAIN jobs /\ TableLen' = TableLen
      /\ FrameLen' = FrameLen
  BY AddedTerms
<1>5. /\ inBuff'.start = None /\ inBuff'.filled = 0 /\ Cut' = inPos
      /\ frameEnded' \in BOOLEAN /\ (frameEnded' <=> EndOp = "end")
      /\ ~frameEnded' => sumFlag' = Checksum
  BY <1>2, HandedOver
<1>6. /\ nextJobID \in Nat /\ doneJobID \in Nat /\ inPos \in Nat /\ call \in CallType
      /\ fails \in Nat
  BY <1>1, Scalars
<1>7. /\ call'.pc = "flush" /\ call'.op = EndOp /\ call'.end = call.end
  BY <1>2, <1>6 DEF CallType
<1>8. InFrame'
  BY <1>2, <1>3, <1>7 DEF InFrame, None, Error
<1>9. LastID' < doneJobID' + Cardinality(DOMAIN jobs')
  <2>1. TableLen \in Nat
    BY <1>1, TableShape
  <2> QED
    BY <1>2, <1>4, <1>6, <2>1 DEF TableFull, TableLen
<1>10. ~shutdown' /\ client'[mt] = "idle"
  BY <1>1, <1>2 DEF ControlInv
<1>11. ControlInv'
  <2>1. doneJobID' <= nextJobID'
    BY <1>1, <1>2, <1>6 DEF ControlInv
  <2>2. fails' > 0 => frame' = Len(frames)'
    BY <1>1, <1>2, <1>6 DEF ControlInv
  <2>3. ret' = None
    BY <1>2, <1>3
  <2> QED
    BY <1>7, <1>9, <1>10, <2>1, <2>2, <2>3 DEF ControlInv, None, Error
<1>12. CallInv'
  <2>1. /\ inPos' <= call'.end /\ call'.end <= FrameLen'
        /\ call'.op = "end" => call'.end = FrameLen'
        /\ ret' = None
    BY <1>1, <1>2, <1>3, <1>4, <1>7 DEF CallInv
  <2>2. frameEnded' => inPos' = FrameLen'
    BY <1>2, <1>3, <1>4, <1>5
  <2>3. Cut' >= 0 /\ Cut' # 0 /\ LastID' >= 0 /\ inPos' > 0 /\ ~(LastID' < 0)
    BY <1>2, <1>3, <1>4, <1>5, <1>6
  <2> QED
    BY <1>5, <1>7, <2>1, <2>2, <2>3 DEF CallInv
<1> QED
  BY <1>8, <1>11, <1>12

\* The new job continues the partition of the input.
LEMMA AddedJobs ==
  ASSUME MTInv, NEW r, JobAdded(r)
  PROVE  JobsInv'
<1>1. Types /\ ControlInv /\ CallInv /\ JobsInv
  BY DEF MTInv
<1>2. /\ call.pc = "create" /\ WantsJob /\ ~jobReady /\ InputHandedOver /\ inPos' = inPos
      /\ Fresh(r)
      /\ \/ nextJobID' = nextJobID + 1
         \/ nextJobID' = nextJobID /\ r.src.size > 0
      /\ (fails' = fails /\ r.cSize # Error) \/ fails' = fails + 1
  BY DEF JobAdded
<1>3. /\ InFrame /\ ~frameEnded /\ LastID = nextJobID - 1 /\ Cut \in Nat
      /\ Cut + inBuff.filled = inPos
      /\ EndOp = "end" => inPos = FrameLen
  BY <1>2, Creates
<1>4. /\ LastID' = nextJobID /\ Ids' = Ids \cup {nextJobID} /\ nextJobID \notin Ids
      /\ \A i : i = nextJobID => J(i)' = r
      /\ \A i \in Ids : J(i)' = J(i) /\ i < nextJobID
      /\ FrameLen' = FrameLen
      /\ \A k : Unit(k)' = Unit(k)
      /\ nextJobID \in Nat /\ Ids \subseteq Nat
  BY AddedTerms
<1>5. /\ frameEnded' <=> EndOp = "end"
      /\ Cut' = inPos
  BY <1>2, HandedOver
<1>6. /\ inBuff.filled \in Nat /\ inPos \in Nat /\ fails \in Nat
  BY <1>1, Scalars
<1>7. \A j : OutputInv(j)' <=> OutputInv(j)
  BY <1>4 DEF OutputInv
<1>8. r \in JobType /\ r.src.size \in Nat /\ r.at \in Nat
  BY <1>2 DEF Fresh, JobType, RangeType
<1>9. ASSUME r.cSize # Error
      PROVE  OutputInv(r)
  <2>1. CASE r.src.size > 0
    BY <1>2, <1>8, <2>1 DEF Fresh, OutputInv, Active
  <2>2. CASE r.src.size = 0
    <3>1. /\ nextJobID > 0 /\ r.last /\ r.cSize = 1 /\ r.dst = <<EndMark>>
          /\ r.jobID # 0 /\ r.consumed = 0 /\ r.flushed = 0 /\ (Checksum => r.sum)
      BY <1>2, <1>9, <2>2 DEF Fresh
    <3>2. r.at = FrameLen
      BY <1>2, <1>3, <2>2, <1>6 DEF Fresh
    <3>3. Made(r) = 1
      BY <2>2, <3>1 DEF Made, Active, Hdr
    <3>4. Begin(r) + 1 = FrameLen + 2
      BY <1>8, <3>1, <3>2 DEF Begin
    <3>5. Unit(FrameLen + 2) = EndMark
      BY <1>8, <3>2 DEF Unit
    <3>6. \A k \in 1 .. r.cSize : r.dst[k] = Unit(Begin(r) + k)
      BY <3>1, <3>4, <3>5
    <3>7. Len(r.dst) = r.cSize
      BY <3>1
    <3> QED
      BY <3>1, <3>3, <3>6, <3>7 DEF OutputInv
  <2> QED
    BY <1>8, <2>1, <2>2
<1>10. ASSUME NEW i \in Ids
       PROVE  /\ J(i)'.jobID = i /\ J(i)'.consumed <= J(i)'.src.size
              /\ i = 0 => J(i)'.at = 0
              /\ J(i)'.at + J(i)'.src.size <= Cut'
              /\ J(i)'.at + J(i)'.src.size = IF i = LastID' THEN Cut' ELSE J(i + 1)'.at
              /\ J(i)'.last <=> i = LastID' /\ frameEnded'
              /\ J(i)'.last => J(i)'.at + J(i)'.src.size = FrameLen'
              /\ J(i)'.src.size = 0 => i > 0 /\ J(i)'.last
              /\ J(i)'.sum => J(i)'.last /\ Checksum /\ i > 0
              /\ Active(J(i))' /\ J(i)'.last /\ Checksum /\ i > 0 => J(i)'.sum
              /\ J(i)'.cSize # Error => OutputInv(J(i))'
              /\ J(i)'.cSize = Error => fails' > 0
              /\ i = nextJobID' => Active(J(i))' /\ Pristine(J(i))' /\ J(i)'.flushed = 0
  <2>1. J(i)' = J(i) /\ i < nextJobID /\ i \in Nat /\ i # LastID' /\ i # nextJobID'
    BY <1>2, <1>4
  <2>2. J(i) \in JobType /\ J(i).at \in Nat /\ J(i).src.size \in Nat
    BY <1>1, <2>1, TableShape DEF Types, JobType, RangeType
  <2>3. J(i).at + J(i).src.size = J(i + 1)'.at
    <3>1. CASE i = LastID
      <4>1. i + 1 = nextJobID
        BY <1>3, <1>4, <3>1
      <4> QED
        BY <1>1, <1>2, <1>4, <3>1, <4>1 DEF JobsInv, Fresh
    <3>2. CASE i # LastID
      <4>1. i + 1 \in Ids
        BY <1>1, <2>1, <3>2, <1>3, <1>4 DEF Ids, Types, JobTypes
      <4> QED
        BY <1>1, <1>4, <3>2, <4>1 DEF JobsInv
    <3> QED
      BY <3>1, <3>2
  <2>4. J(i).at + J(i).src.size <= Cut'
    BY <1>1, <1>3, <1>5, <1>6, <2>2 DEF JobsInv
  <2>5. ~J(i).last
    BY <1>1, <1>3 DEF JobsInv
  <2>6. fails > 0 => fails' > 0
    BY <1>2, <1>6
  <2>7. J(i).cSize # Error => OutputInv(J(i))'
    BY <1>1, <1>7, <2>1 DEF JobsInv
  <2>8. J(i)'.cSize # Error => OutputInv(J(i))'
    BY <2>1, <2>7
  <2>9. /\ J(i).jobID = i /\ J(i).consumed <= J(i).src.size
        /\ i = 0 => J(i).at = 0
        /\ J(i).src.size = 0 => i > 0 /\ J(i).last
        /\ J(i).sum => J(i).last /\ Checksum /\ i > 0
        /\ J(i).cSize = Error => fails > 0
    BY <1>1 DEF JobsInv
  <2> QED
    BY <2>1, <2>3, <2>4, <2>5, <2>6, <2>8, <2>9
<1>11. ASSUME NEW i, i = nextJobID
       PROVE  /\ J(i)'.jobID = i /\ J(i)'.consumed <= J(i)'.src.size
              /\ i = 0 => J(i)'.at = 0
              /\ J(i)'.at + J(i)'.src.size <= Cut'
              /\ J(i)'.at + J(i)'.src.size = IF i = LastID' THEN Cut' ELSE J(i + 1)'.at
              /\ J(i)'.last <=> i = LastID' /\ frameEnded'
              /\ J(i)'.last => J(i)'.at + J(i)'.src.size = FrameLen'
              /\ J(i)'.src.size = 0 => i > 0 /\ J(i)'.last
              /\ J(i)'.sum => J(i)'.last /\ Checksum /\ i > 0
              /\ Active(J(i))' /\ J(i)'.last /\ Checksum /\ i > 0 => J(i)'.sum
              /\ J(i)'.cSize # Error => OutputInv(J(i))'
              /\ J(i)'.cSize = Error => fails' > 0
              /\ i = nextJobID' => Active(J(i))' /\ Pristine(J(i))' /\ J(i)'.flushed = 0
  <2>1. J(i)' = r /\ LastID' = i /\ i \in Nat
    BY <1>4, <1>11
  <2>2. /\ r.jobID = i /\ r.consumed <= r.src.size /\ r.at + r.src.size = inPos
        /\ r.last <=> EndOp = "end"
    BY <1>2, <1>3, <1>6, <1>8, <1>11 DEF Fresh
  <2>3. i = 0 => r.at = 0
    BY <1>1, <1>2, <1>3, <1>4, <1>11 DEF CallInv, Fresh
  <2>4. /\ r.src.size = 0 => i > 0 /\ r.last
        /\ r.sum => r.last /\ Checksum /\ i > 0
        /\ r.last /\ Checksum /\ i > 0 => r.sum
    BY <1>2, <1>8, <1>11 DEF Fresh
  <2>5. r.cSize = Error => fails' > 0
    BY <1>2, <1>6
  <2>6. i = nextJobID' => Active(r) /\ Pristine(r) /\ r.flushed = 0
    BY <1>2, <1>4, <1>8, <1>11 DEF Fresh, Active
  <2>7. J(i)'.cSize # Error => OutputInv(J(i))'
    BY <1>7, <1>9, <2>1
  <2>8. Active(J(i))' = Active(r) /\ Pristine(J(i))' = Pristine(r)
    BY <2>1 DEF Active, Pristine
  <2> QED
    BY <1>3, <1>4, <1>5, <1>6, <2>1, <2>2, <2>3, <2>4, <2>5, <2>6, <2>7, <2>8
<1>12. \A i \in Ids' : i \in Ids \/ i = nextJobID
  BY <1>4
<1> QED
  BY <1>10, <1>11, <1>12 DEF JobsInv


\* What was delivered is still what the oldest job has flushed.
LEMMA AddedDelivery ==
  ASSUME MTInv, NEW r, JobAdded(r)
  PROVE  DeliveryInv'
<1>1. Types /\ ControlInv /\ DeliveryInv
  BY DEF MTInv
<1>2. /\ call.pc = "create" /\ WantsJob /\ ~jobReady /\ Fresh(r)
      /\ delivered' = delivered /\ doneJobID' = doneJobID
  BY DEF JobAdded
<1>3. InFrame /\ ~frameEnded /\ LastID = nextJobID - 1
  BY <1>2, Creates
<1>4. /\ LastID' = nextJobID /\ Units' = Units /\ \A k : Unit(k)' = Unit(k)
      /\ \A i : i = nextJobID => J(i)' = r
      /\ \A i \in Ids : J(i)' = J(i)
  BY AddedTerms
<1>5. doneJobID \in Nat /\ nextJobID \in Nat /\ doneJobID <= nextJobID
  BY <1>1, Scalars DEF ControlInv
<1>6. PICK d : d = doneJobID
  OBVIOUS
<1>7. J(doneJobID)' = J(d)'
  BY <1>2, <1>6 DEF J, Slot
<1>8. Flushed' = Begin(J(doneJobID))' + J(doneJobID)'.flushed
  BY <1>2, <1>4, <1>5 DEF Flushed
<1>9. Flushed' = Flushed
  <2>1. CASE doneJobID < nextJobID
    <3>1. d \in Ids
      BY <1>3, <1>5, <1>6, <2>1 DEF Ids
    <3>2. J(doneJobID)' = J(doneJobID)
      BY <1>4, <1>6, <1>7, <3>1
    <3>3. Begin(J(doneJobID))' = Begin(J(doneJobID))
      BY <3>2 DEF Begin
    <3>4. doneJobID <= LastID
      BY <1>3, <1>5, <2>1
    <3> QED
      BY <1>8, <3>2, <3>3, <3>4 DEF Flushed
  <2>2. CASE doneJobID = nextJobID
    <3>1. J(doneJobID)' = r
      BY <1>4, <1>6, <1>7, <2>2
    <3>2. r.jobID = nextJobID /\ r.at = Cut /\ r.flushed = 0
      BY <1>2 DEF Fresh
    <3>3. Begin(J(doneJobID))' = IF nextJobID = 0 THEN 0 ELSE Cut + 1
      BY <3>1, <3>2 DEF Begin
    <3>4. Cut \in Nat
      BY <1>2, Creates
    <3>5. Flushed' = IF nextJobID = 0 THEN 0 ELSE Cut + 1
      BY <1>8, <3>1, <3>2, <3>3, <3>4
    <3>6. ~(doneJobID <= LastID)
      BY <1>3, <1>5, <2>2
    <3> QED
      BY <1>3, <3>5, <3>6 DEF Flushed
  <2> QED
    BY <1>5, <2>1, <2>2
<1>10. \A i \in Ids' : doneJobID' < i => J(i)'.flushed = 0
  <2>1. Ids' = Ids \cup {nextJobID} /\ r.flushed = 0
    BY <1>2, AddedTerms DEF Fresh
  <2> QED
    BY <1>1, <1>2, <1>4, <2>1 DEF DeliveryInv
<1> QED
  BY <1>1, <1>2, <1>3, <1>4, <1>9, <1>10 DEF DeliveryInv

\* The other places of the table hold what they held.
LEMMA AddedStale ==
  ASSUME MTInv, NEW r, JobAdded(r)
  PROVE  StaleInv'
<1>1. StaleInv /\ call.pc = "create"
  BY DEF MTInv, JobAdded
<1>2. /\ Ids' = Ids \cup {nextJobID} /\ DOMAIN jobs' = DOMAIN jobs
      /\ \A i : Slot(i)' = Slot(i)
  BY AddedTerms
<1>3. \A s \in DOMAIN jobs : s # Slot(nextJobID) => jobs'[s] = jobs[s]
  BY DEF JobAdded
<1>4. ASSUME NEW s \in DOMAIN jobs, \A i \in Ids' : Slot(i)' # s
      PROVE  Stale(jobs[s])'
  <2>1. \A i \in Ids : Slot(i) # s
    BY <1>2, <1>4
  <2>2. s # Slot(nextJobID)
    <3>1. PICK n : n = nextJobID
      OBVIOUS
    <3>2. n \in Ids'
      BY <1>2, <3>1
    <3> QED
      BY <1>2, <1>4, <3>1, <3>2
  <2>3. jobs'[s] = jobs[s] /\ Stale(jobs[s])
    BY <1>1, <1>3, <2>1, <2>2 DEF StaleInv
  <2> QED
    BY <2>3 DEF Stale
<1> QED
  BY <1>2, <1>4 DEF StaleInv

\* The turn of the serial state is at the same position of the input.
LEMMA AddedTurn ==
  ASSUME MTInv, NEW r, JobAdded(r), doneJobID <= serial.nextJobID,
         serial.nextJobID <= nextJobID
  PROVE  CutAt(serial.nextJobID)' = CutAt(serial.nextJobID)
<1>1. Types /\ ControlInv
  BY DEF MTInv
<1>2. /\ call.pc = "create" /\ WantsJob /\ ~jobReady /\ Fresh(r) /\ serial' = serial
  BY DEF JobAdded
<1>3. LastID = nextJobID - 1
  BY <1>2, Creates
<1>4. /\ LastID' = nextJobID
      /\ \A i : i = nextJobID => J(i)' = r
      /\ \A i \in Ids : J(i)' = J(i)
  BY AddedTerms
<1>5. PICK n : n = serial.nextJobID
  OBVIOUS
<1>6. n \in Nat /\ nextJobID \in Nat /\ doneJobID \in Nat /\ doneJobID <= n /\ n <= nextJobID
  BY <1>1, <1>5, Scalars
<1>7. J(serial.nextJobID)' = J(n)' /\ J(serial.nextJobID) = J(n)
  BY <1>2, <1>5 DEF J, Slot
<1>8. CutAt(serial.nextJobID)' = J(n)'.at
  BY <1>2, <1>4, <1>5, <1>6, <1>7 DEF CutAt
<1>9. CASE n < nextJobID
  <2>1. n \in Ids /\ n <= LastID
    BY <1>3, <1>6, <1>9 DEF Ids
  <2> QED
    BY <1>4, <1>5, <1>7, <1>8, <2>1 DEF CutAt
<1>10. CASE n = nextJobID
  <2>1. ~(n <= LastID)
    BY <1>3, <1>6, <1>10
  <2>2. J(n)' = r /\ r.at = Cut
    BY <1>2, <1>4, <1>10 DEF Fresh
  <2> QED
    BY <1>5, <1>8, <2>1, <2>2 DEF CutAt
<1> QED
  BY <1>6, <1>9, <1>10

\* The window of the long distance matcher and its bytes stay.
LEMMA AddedWindow ==
  ASSUME MTInv, NEW r, JobAdded(r)
  PROVE  WindowInv'
<1>1. Types /\ WindowInv /\ JobsInv /\ SerialInv
  BY DEF MTInv
<1>2. /\ call.pc = "create" /\ WantsJob /\ ~jobReady /\ InputHandedOver /\ inPos' = inPos
      /\ serial' = serial /\ mem' = mem
      /\ fails' = fails \/ fails' = fails + 1
  BY DEF JobAdded
<1>3. InFrame /\ ~frameEnded /\ fails \in Nat
  BY <1>1, <1>2, Creates, Scalars
<1>4. inBuff'.start = None /\ roundBuff'.capacity = roundBuff.capacity
  BY <1>2, HandedOver
<1> SUFFICES ASSUME Ldm, fails' = 0
             PROVE  WindowInv'
  BY DEF WindowInv
<1>5. fails = 0
  BY <1>2, <1>3
<1>6. doneJobID <= serial.nextJobID /\ serial.nextJobID <= nextJobID
  BY <1>1, <1>3, <1>5, UnbrokenInv
<1>7. CutAt(serial.nextJobID)' = CutAt(serial.nextJobID)
  BY <1>6, AddedTurn
<1> QED
  BY <1>1, <1>2, <1>3, <1>4, <1>5, <1>7 DEF WindowInv

\* The new job is cut where it may be.
LEMMA AddedCuts ==
  ASSUME MTInv, NEW r, JobAdded(r)
  PROVE  CutsInv'
<1>1. Types /\ ControlInv /\ CutsInv
  BY DEF MTInv
<1>2. /\ call.pc = "create" /\ WantsJob /\ ~jobReady /\ InputHandedOver /\ inPos' = inPos
      /\ Fresh(r) /\ frames' = frames /\ frame' = frame
      /\ call' = [call EXCEPT !.pc = "flush", !.op = EndOp]
      /\ nextJobID' = nextJobID \/ nextJobID' = nextJobID + 1
  BY DEF JobAdded
<1>3. /\ InFrame /\ LastID = nextJobID - 1 /\ Cut + inBuff.filled = inPos
      /\ EndOp \in {"continue", "flush", "end"} /\ inBuff.filled <= Section /\ Cut \in Nat
  BY <1>2, Creates
<1>4. /\ LastID' = nextJobID /\ DOMAIN jobs' = DOMAIN jobs
      /\ \A i \in Nat : J(i)' = J(i) \/ J(i)' = r
      /\ \A i : i = nextJobID => J(i)' = r
      /\ Section' = Section /\ Sync' = Sync
  BY AddedTerms
<1>5. Cut' = inPos
  BY <1>2, HandedOver
<1>6. /\ nextJobID \in Nat /\ Section \in Nat /\ inPos \in Nat /\ inBuff.filled \in Nat
      /\ Sync \subseteq Nat /\ RsyncMin \in Nat /\ TableLen \in Nat /\ call \in CallType
  BY <1>1, Scalars, TableShape, SizesAssumption
<1>7. call'.pc = "flush"
  BY <1>2, <1>6 DEF CallType
<1> SUFFICES ASSUME Sync # {}, "flush" \notin frames[frame].ops
             PROVE  CutsInv'
  BY <1>2, <1>4 DEF CutsInv
<1>8. /\ \A i \in Larger(0, nextJobID - TableLen) .. LastID : J(i) = NullJob \/ CutWell(J(i))
      /\ Sync \cap (Cut + RsyncMin + 1 .. inPos - 1) = {}
      /\ (inBuff.filled > 0
              /\ (call.op = "flush" \/ (call.op = "end" /\ inPos < call.end))) =>
              inBuff.filled = Section \/ inPos \in Sync
  BY <1>1, <1>2, <1>3 DEF CutsInv, TableLen
<1>9. CutWell(r)
  <2>1. r.at = Cut /\ r.src.size = inBuff.filled /\ (r.last <=> EndOp = "end")
    BY <1>2 DEF Fresh
  <2>2. r.at + r.src.size = inPos
    BY <1>3, <2>1
  <2>5. Sync \cap (r.at + RsyncMin + 1 .. r.at + r.src.size - 1) = {}
    <3>1. Sync \cap (Cut + RsyncMin + 1 .. inPos - 1) = {}
      BY <1>8
    <3>2. PICK top : top = inPos - 1
      OBVIOUS
    <3>3. Cut \in Nat /\ inBuff.filled \in Nat /\ inPos \in Nat
          /\ Cut + inBuff.filled = inPos
      BY <1>3, <1>6
    <3>4. top = Cut + inBuff.filled - 1
      BY <3>2, <3>3
    <3>5. Sync \cap (Cut + RsyncMin + 1 .. top) = {}
      BY <3>1, <3>2
    <3>6. r.at = Cut /\ r.src.size = inBuff.filled
      BY <2>1
    <3> QED
      BY <3>4, <3>5, <3>6
  <2>3. CASE EndOp # "end"
    <3>1. inBuff.filled >= Section \/ (EndOp = "flush" /\ inBuff.filled > 0)
      BY <1>2, <1>3, <2>3 DEF WantsJob
    <3>2. EndOp = "flush" => call.op = "flush" \/ (call.op = "end" /\ inPos < call.end)
      BY DEF EndOp
    <3>3. inBuff.filled = Section \/ inPos \in Sync
      BY <1>3, <1>6, <1>8, <3>1, <3>2
    <3> QED
      BY <2>1, <2>2, <2>5, <3>3 DEF CutWell
  <2>4. CASE EndOp = "end"
    BY <2>1, <2>4, <2>5 DEF CutWell
  <2> QED
    BY <2>3, <2>4
<1>10. CutWell(r)' /\ \A i : CutWell(J(i)) /\ J(i)' = J(i) => CutWell(J(i))'
  BY <1>4, <1>9 DEF CutWell
<1>11. ASSUME NEW i \in Larger(0, nextJobID' - TableLen) .. LastID'
       PROVE  J(i)' = NullJob \/ CutWell(J(i))'
  <2>1. i \in Nat /\ (i \in Larger(0, nextJobID - TableLen) .. LastID \/ i = nextJobID)
    BY <1>2, <1>3, <1>4, <1>6 DEF Larger
  <2>2. CASE J(i)' = r
    BY <1>9, <1>4, <2>2 DEF CutWell
  <2>3. CASE J(i)' = J(i) /\ i # nextJobID
    BY <1>8, <1>10, <2>1, <2>3
  <2> QED
    BY <1>4, <2>1, <2>2, <2>3
<1>12. Sync' \cap (Cut' + RsyncMin + 1 .. inPos' - 1) = {}
  <2>1. \A p \in Nat : ~(p \in inPos + RsyncMin + 1 .. inPos - 1)
    BY <1>6
  <2> QED
    BY <1>2, <1>4, <1>5, <1>6, <2>1
<1> QED
  BY <1>4, <1>7, <1>11, <1>12 DEF CutsInv, TableLen


\* The pool after a job was posted, or could not be.
PoolAfter(posts) ==
  /\ job' = job /\ running' = running /\ threadCapacity' = threadCapacity
  /\ \/ thread' = thread
     \/ \E t \in 1 .. MaxThreads : /\ thread[t] = "waiting"
                                   /\ thread' = [thread EXCEPT ![t] = "lock"]
  /\ IF posts THEN /\ queueEmpty' = FALSE /\ queue' = [queue EXCEPT ![0] = Slot(nextJobID) + 1]
                   /\ nextJobID' = nextJobID + 1
     ELSE queueEmpty' = queueEmpty /\ queue' = queue

\* A thread that was woken does not run yet.
LEMMA ThreadsAfter ==
  ASSUME PoolTypes, NEW posts, PoolAfter(posts)
  PROVE  /\ thread' \in [1 .. MaxThreads -> ThreadStates]
         /\ \A t \in 1 .. MaxThreads : /\ (thread'[t] = "run") = (thread[t] = "run")
                                       /\ (thread'[t] = "none") = (thread[t] = "none")
<1>1. thread \in [1 .. MaxThreads -> ThreadStates]
  BY DEF PoolTypes
<1>2. CASE thread' = thread
  BY <1>1, <1>2
<1>3. ASSUME NEW u \in 1 .. MaxThreads, thread[u] = "waiting",
             thread' = [thread EXCEPT ![u] = "lock"]
      PROVE  /\ thread' \in [1 .. MaxThreads -> ThreadStates]
             /\ \A t \in 1 .. MaxThreads : /\ (thread'[t] = "run") = (thread[t] = "run")
                                           /\ (thread'[t] = "none") = (thread[t] = "none")
  <2>1. thread' \in [1 .. MaxThreads -> ThreadStates]
    BY <1>1, <1>3 DEF ThreadStates
  <2>2. ASSUME NEW t \in 1 .. MaxThreads
        PROVE  /\ (thread'[t] = "run") = (thread[t] = "run")
               /\ (thread'[t] = "none") = (thread[t] = "none")
    <3>1. CASE t = u
      BY <1>1, <1>3, <3>1
    <3>2. CASE t # u
      BY <1>1, <1>3, <3>2
    <3> QED
      BY <3>1, <3>2
  <2> QED
    BY <2>1, <2>2
<1> QED
  BY <1>2, <1>3 DEF PoolAfter

\* The pool keeps its types.
LEMMA PoolAfterTypes ==
  ASSUME Types, NEW posts, PoolAfter(posts), UNCHANGED <<queueHead, queueTail, shutdown>>,
         client' = client
  PROVE  PoolTypes'
<1>1. PoolTypes /\ JobTypes /\ nextJobID \in Nat
  BY Scalars DEF Types
<1>2. Slot(nextJobID) \in Nat
  <2>1. Slot(nextJobID) \in 0 .. TableLen - 1 /\ TableLen \in Nat
    BY <1>1, TableShape
  <2> QED
    BY <2>1
<1>3. PICK s \in Nat : s = Slot(nextJobID) + 1
  BY <1>2
<1>4. queue' \in [{0} -> Nat] /\ queueEmpty' \in BOOLEAN
  BY <1>1, <1>3 DEF PoolAfter, PoolTypes
<1>5. thread' \in [1 .. MaxThreads -> ThreadStates]
  BY <1>1, ThreadsAfter
<1>6. job' = job /\ running' = running /\ threadCapacity' = threadCapacity
  BY DEF PoolAfter
<1> QED
  BY <1>1, <1>4, <1>5, <1>6 DEF PoolTypes

\* Those who have a job keep it, and the job that was posted is nobody's.
LEMMA WorkersAfter ==
  ASSUME Types, ControlInv, WorkerInv, NEW posts \in BOOLEAN, PoolAfter(posts),
         serial' = serial, doneJobID' = doneJobID, nextJobID' \in {nextJobID, nextJobID + 1},
         DOMAIN jobs' = DOMAIN jobs, \A i : Slot(i)' = Slot(i),
         \A i \in Nat : Posted(i) => J(i)' = J(i) /\ Slot(i) # Slot(nextJobID),
         posts => /\ jobs'[Slot(nextJobID)].jobID = nextJobID
                  /\ Active(jobs'[Slot(nextJobID)]) /\ Pristine(jobs'[Slot(nextJobID)])
  PROVE  WorkerInv'
<1>1. /\ PoolTypes /\ JobTypes /\ doneJobID \in Nat /\ nextJobID \in Nat
      /\ doneJobID <= nextJobID
  BY Scalars DEF Types, ControlInv
<1>2. /\ job' = job /\ running' = running /\ threadCapacity' = threadCapacity
      /\ \A t \in 1 .. MaxThreads : /\ (thread'[t] = "run") = (thread[t] = "run")
                                    /\ (thread'[t] = "none") = (thread[t] = "none")
  BY <1>1, ThreadsAfter DEF PoolAfter
<1>3. \A i \in Nat : Posted(i) => Posted(i)'
  BY <1>1 DEF Posted
<1>4. \A s \in DOMAIN jobs : jobs[s] \in JobType
  BY <1>1, TableShape
<1>5. ASSUME NEW s, Owned(s)
      PROVE  Owned(s)' /\ jobs'[s] = jobs[s] /\ s # Slot(nextJobID)
  <2>1. /\ s \in DOMAIN jobs /\ Posted(jobs[s].jobID) /\ s = Slot(jobs[s].jobID)
        /\ Active(jobs[s])
    BY <1>5 DEF Owned
  <2>2. PICK i \in Nat : i = jobs[s].jobID
    BY <1>4, <2>1 DEF JobType
  <2>3. J(i)' = J(i) /\ s = Slot(i) /\ Slot(i)' = Slot(i) /\ Slot(i) # Slot(nextJobID)
    BY <2>1, <2>2
  <2>4. jobs'[s] = jobs[s]
    BY <2>3 DEF J
  <2>5. Posted(i)' /\ jobs'[s].jobID = i
    BY <1>3, <2>1, <2>2, <2>4
  <2>6. Posted(jobs[s].jobID)' /\ s = Slot(jobs[s].jobID)' /\ Active(jobs[s])'
    BY <2>1, <2>3, <2>4, <2>5 DEF Active, Posted, Slot
  <2> QED
    BY <2>1, <2>3, <2>4, <2>6 DEF Owned
<1>6. ASSUME NEW t \in 1 .. MaxThreads
      PROVE  /\ Busy(t)' = Busy(t)
             /\ Busy(t) => /\ running[t] > 0 /\ Owned(Mine(t)) /\ Mine(t)' = Mine(t)
                           /\ Owned(Mine(t))' /\ Stage(job[t], MyJob(t))'
                           /\ Mine(t) # Slot(nextJobID)
  <2>1. Busy(t)' = Busy(t)
    BY <1>2 DEF Busy
  <2>2. ASSUME Busy(t)
        PROVE  /\ running[t] > 0 /\ Owned(Mine(t)) /\ Mine(t)' = Mine(t)
               /\ Owned(Mine(t))' /\ Stage(job[t], MyJob(t))'
               /\ Mine(t) # Slot(nextJobID)
    <3>1. running[t] > 0 /\ Owned(Mine(t)) /\ Stage(job[t], MyJob(t))
      BY <2>2 DEF WorkerInv
    <3>2. PICK s : s = Mine(t)
      OBVIOUS
    <3>3. s = Mine(t)'
      BY <1>2, <3>2 DEF Mine
    <3>4. Owned(s)' /\ jobs'[s] = jobs[s] /\ s # Slot(nextJobID)
      BY <1>5, <3>1, <3>2
    <3>5. MyJob(t)' = MyJob(t)
      BY <3>2, <3>3, <3>4 DEF MyJob
    <3>6. Stage(job[t], MyJob(t))'
      BY <1>2, <3>1, <3>5 DEF Stage, Pristine
    <3>7. Owned(Mine(t))'
      BY <3>3, <3>4 DEF Owned
    <3> QED
      BY <3>1, <3>2, <3>3, <3>4, <3>6, <3>7
  <2> QED
    BY <2>1, <2>2
<1>7. \A t \in 1 .. MaxThreads :
        /\ thread'[t] = "run" <=> job'[t] # "none"
        /\ thread'[t] # "none" => t <= threadCapacity'
        /\ Busy(t)' => running'[t] > 0 /\ Owned(Mine(t))' /\ Stage(job[t], MyJob(t))'
  BY <1>2, <1>6 DEF WorkerInv
<1>8. \A t, u \in 1 .. MaxThreads : Busy(t)' /\ Busy(u)' /\ t # u => running'[t] # running'[u]
  BY <1>2, <1>6 DEF WorkerInv
<1>9. ~queueEmpty' =>
        /\ queue'[0] > 0 /\ Owned(queue[0] - 1)' /\ Pristine(jobs[queue[0] - 1])'
        /\ \A t \in 1 .. MaxThreads : Busy(t)' => running'[t] # queue'[0]
  <2>1. CASE ~posts
    <3> SUFFICES ASSUME ~queueEmpty
                 PROVE  /\ queue'[0] > 0 /\ Owned(queue[0] - 1)' /\ Pristine(jobs[queue[0] - 1])'
                        /\ \A t \in 1 .. MaxThreads : Busy(t)' => running'[t] # queue'[0]
      BY <2>1 DEF PoolAfter
    <3>1. queue' = queue
      BY <2>1 DEF PoolAfter
    <3>2. /\ queue[0] > 0 /\ Owned(queue[0] - 1) /\ Pristine(jobs[queue[0] - 1])
          /\ \A t \in 1 .. MaxThreads : Busy(t) => running[t] # queue[0]
      BY DEF WorkerInv
    <3>3. PICK s : s = queue[0] - 1
      OBVIOUS
    <3>4. Owned(s)' /\ jobs'[s] = jobs[s] /\ s = queue'[0] - 1
      BY <1>5, <3>1, <3>2, <3>3
    <3>5. Owned(queue[0] - 1)'
      BY <3>4 DEF Owned
    <3>6. Pristine(jobs[queue[0] - 1])'
      BY <3>2, <3>3, <3>4 DEF Pristine
    <3> QED
      BY <1>2, <1>6, <3>1, <3>2, <3>5, <3>6
  <2>2. CASE posts
    <3>1. PICK s : s = Slot(nextJobID)
      OBVIOUS
    <3>2. s \in DOMAIN jobs /\ s \in Nat
      BY <1>1, <3>1, TableShape
    <3>3. queue'[0] = s + 1 /\ nextJobID' = nextJobID + 1
      BY <1>1, <2>2, <3>1 DEF PoolAfter, PoolTypes
    <3>4. queue'[0] > 0 /\ queue'[0] - 1 = s
      BY <3>2, <3>3
    <3>5. jobs'[s].jobID = nextJobID /\ Active(jobs'[s]) /\ Pristine(jobs'[s])
      BY <2>2, <3>1
    <3>6. Owned(queue[0] - 1)'
      <4>1. PICK n \in Nat : n = nextJobID
        BY <1>1
      <4>2. jobs'[s].jobID = n /\ s = Slot(n)'
        BY <3>1, <3>5, <4>1
      <4>3. s = Slot(jobs[queue[0] - 1].jobID)'
        BY <3>4, <4>2 DEF Slot
      <4>4. Posted(n)'
        BY <1>1, <3>3, <4>1 DEF Posted
      <4>5. Posted(jobs[queue[0] - 1].jobID)'
        BY <3>4, <4>2, <4>4 DEF Posted
      <4> QED
        BY <3>2, <3>4, <3>5, <4>3, <4>5 DEF Owned, Active
    <3>7. \A t \in 1 .. MaxThreads : Busy(t)' => running'[t] # queue'[0]
      <4>1. ASSUME NEW t \in 1 .. MaxThreads, Busy(t)
            PROVE  running[t] # s + 1
        <5>1. running[t] \in Nat /\ running[t] - 1 # s
          BY <1>1, <1>6, <3>1, <4>1 DEF Mine, PoolTypes
        <5> QED
          BY <3>2, <5>1
      <4> QED
        BY <1>2, <1>6, <3>3, <4>1
    <3> QED
      BY <3>4, <3>5, <3>6, <3>7 DEF Pristine
  <2> QED
    BY <2>1, <2>2
<1> QED
  BY <1>2, <1>7, <1>8, <1>9 DEF WorkerInv


\* The turns of the serial state wait for the new job.
LEMMA AddedSerial ==
  ASSUME MTInv, NEW r, JobAdded(r), NEW posts \in BOOLEAN, PoolAfter(posts)
  PROVE  SerialInv'
<1>1. Types /\ ControlInv /\ SerialInv /\ WorkerInv /\ JobsInv /\ JobTypes /\ PoolTypes
  BY DEF MTInv, Types
<1>2. /\ call.pc = "create" /\ WantsJob /\ ~jobReady /\ Fresh(r) /\ serial' = serial
      /\ nextJobID' = nextJobID \/ nextJobID' = nextJobID + 1
      /\ doneJobID' = doneJobID /\ job' = job /\ InputHandedOver /\ inPos' = inPos
  BY DEF JobAdded
<1>3. InFrame /\ ~frameEnded /\ LastID = nextJobID - 1
  BY <1>2, Creates
<1>4. /\ LastID' = nextJobID /\ Ids' = Ids \cup {nextJobID} /\ Ids \subseteq Nat
      /\ \A i : i = nextJobID => J(i)' = r
      /\ \A i \in Ids : J(i)' = J(i) /\ Slot(i) # Slot(nextJobID)
      /\ \A i : Slot(i)' = Slot(i)
  BY AddedTerms
<1>5. /\ doneJobID \in Nat /\ nextJobID \in Nat /\ doneJobID <= nextJobID
      /\ serial.nextJobID \in Nat
  BY <1>1, Scalars DEF ControlInv
<1>6. ASSUME NEW i \in Ids', J(i)'.src.size > 0, ~Active(J(i))', J(i)'.cSize # Error
      PROVE  i < serial'.nextJobID
  <2>1. CASE i \in Ids
    BY <1>1, <1>2, <1>4, <1>6, <2>1 DEF SerialInv, Active
  <2>2. CASE i = nextJobID
    <3>1. J(i)' = r /\ r.consumed = 0
      BY <1>2, <1>4, <2>2 DEF Fresh
    <3> QED
      BY <1>6, <3>1 DEF Active
  <2> QED
    BY <1>4, <2>1, <2>2
<1> SUFFICES ASSUME ~Broken'
             PROVE  /\ doneJobID' <= serial'.nextJobID /\ serial'.nextJobID <= nextJobID'
                    /\ Checksum => serial'.hashed = CutAt(serial.nextJobID)'
                    /\ \A t \in 1 .. MaxThreads :
                         thread'[t] = "run" /\ job'[t] \in {"resources", "serial"} =>
                           MyJob(t)'.jobID >= serial'.nextJobID
                    /\ ~queueEmpty' => jobs'[queue'[0] - 1].jobID >= serial'.nextJobID
  BY <1>6 DEF SerialInv
<1>7. ~Broken
  <2> SUFFICES ASSUME NEW k \in Ids, J(k).cSize = Error, k < serial.nextJobID
               PROVE  FALSE
    BY DEF Broken
  <2>1. k \in Ids' /\ J(k)' = J(k) /\ serial' = serial
    BY <1>2, <1>4
  <2> QED
    BY <2>1 DEF Broken
<1>8. /\ doneJobID <= serial.nextJobID /\ serial.nextJobID <= nextJobID
      /\ Checksum => serial.hashed = CutAt(serial.nextJobID)
      /\ \A t \in 1 .. MaxThreads :
            thread[t] = "run" /\ job[t] \in {"resources", "serial"} =>
              MyJob(t).jobID >= serial.nextJobID
      /\ ~queueEmpty => jobs[queue[0] - 1].jobID >= serial.nextJobID
  BY <1>1, <1>3, <1>7 DEF SerialInv
<1>9. CutAt(serial.nextJobID)' = CutAt(serial.nextJobID)
  BY <1>8, AddedTurn
<1>10. \A s : Owned(s) => jobs'[s] = jobs[s]
  <2> SUFFICES ASSUME NEW s, Owned(s)
               PROVE  jobs'[s] = jobs[s]
    OBVIOUS
  <2>1. s \in DOMAIN jobs /\ Posted(jobs[s].jobID) /\ s = Slot(jobs[s].jobID)
    BY DEF Owned
  <2>2. jobs[s] \in JobType
    BY <1>1, <2>1, TableShape
  <2>3. PICK i \in Nat : i = jobs[s].jobID
    BY <2>2 DEF JobType
  <2>4. i \in Ids
    BY <1>1, <2>1, <2>3, IdsHeld
  <2> QED
    BY <1>4, <2>1, <2>3, <2>4 DEF J
<1>11. ASSUME NEW t \in 1 .. MaxThreads, thread'[t] = "run", job'[t] \in {"resources", "serial"}
       PROVE  MyJob(t)'.jobID >= serial'.nextJobID
  <2>1. thread[t] = "run" /\ job[t] \in {"resources", "serial"}
    BY <1>1, <1>2, <1>11, ThreadsAfter
  <2>2. Owned(Mine(t))
    BY <1>1, <2>1 DEF WorkerInv, Busy
  <2>3. running' = running
    BY DEF PoolAfter
  <2>4. MyJob(t)' = MyJob(t)
    BY <1>10, <2>2, <2>3 DEF MyJob, Mine
  <2> QED
    BY <1>2, <1>8, <2>1, <2>4
<1>12. ASSUME ~queueEmpty'
       PROVE  jobs'[queue'[0] - 1].jobID >= serial'.nextJobID
  <2>1. CASE ~posts
    <3>1. queue' = queue /\ ~queueEmpty
      BY <1>12, <2>1 DEF PoolAfter
    <3>2. Owned(queue[0] - 1)
      BY <1>1, <3>1 DEF WorkerInv
    <3>3. jobs'[queue'[0] - 1] = jobs[queue[0] - 1]
      BY <1>10, <3>1, <3>2
    <3> QED
      BY <1>2, <1>8, <3>1, <3>3
  <2>2. CASE posts
    <3>1. PICK s : s = Slot(nextJobID)
      OBVIOUS
    <3>2. s \in Nat
      <4>1. Slot(nextJobID) \in 0 .. TableLen - 1 /\ TableLen \in Nat
        BY <1>1, <1>5, TableShape
      <4> QED
        BY <3>1, <4>1
    <3>3. queue'[0] = s + 1
      BY <1>1, <2>2, <3>1 DEF PoolAfter, PoolTypes
    <3>4. queue'[0] - 1 = s
      BY <3>2, <3>3
    <3>5. jobs'[s] = r
      <4>1. PICK n : n = nextJobID
        OBVIOUS
      <4>2. J(n)' = r /\ Slot(n)' = s
        BY <1>4, <3>1, <4>1
      <4> QED
        BY <4>2 DEF J
    <3>6. r.jobID = nextJobID
      BY <1>2 DEF Fresh
    <3> QED
      BY <1>2, <1>5, <1>8, <3>4, <3>5, <3>6
  <2> QED
    BY <2>1, <2>2
<1>13. doneJobID' <= serial'.nextJobID /\ serial'.nextJobID <= nextJobID'
  BY <1>2, <1>5, <1>8
<1>14. Checksum => serial'.hashed = CutAt(serial.nextJobID)'
  BY <1>2, <1>8, <1>9
<1> QED
  BY <1>11, <1>12, <1>13, <1>14

\* The workers keep their jobs.
LEMMA AddedWorkers ==
  ASSUME MTInv, NEW r, JobAdded(r), NEW posts \in BOOLEAN, PoolAfter(posts),
         posts => r.src.size > 0
  PROVE  WorkerInv'
<1>1. Types /\ ControlInv /\ WorkerInv /\ JobTypes
  BY DEF MTInv, Types
<1>2. /\ Fresh(r) /\ serial' = serial
      /\ nextJobID' \in {nextJobID, nextJobID + 1} /\ doneJobID' = doneJobID
  BY DEF JobAdded
<1>4. /\ DOMAIN jobs' = DOMAIN jobs
      /\ \A i : i = nextJobID => J(i)' = r
      /\ \A i \in Ids : J(i)' = J(i) /\ Slot(i) # Slot(nextJobID)
      /\ \A i : Slot(i)' = Slot(i)
  BY AddedTerms
<1>5. \A i \in Nat : Posted(i) => J(i)' = J(i) /\ Slot(i) # Slot(nextJobID)
  BY <1>1, <1>4, IdsHeld
<1>6. jobs'[Slot(nextJobID)] = r
  <2>1. PICK n : n = nextJobID
    OBVIOUS
  <2>2. J(n)' = r /\ Slot(n)' = Slot(n)
    BY <1>4, <2>1
  <2> QED
    BY <2>1, <2>2 DEF J
<1>7. r.jobID = nextJobID
  BY <1>2 DEF Fresh
<1>8. ASSUME posts
      PROVE  Active(r) /\ Pristine(r)
  BY <1>2, <1>8 DEF Fresh, Active
<1> QED
  BY <1>1, <1>2, <1>4, <1>5, <1>6, <1>7, <1>8, WorkersAfter


\* The input of the new job lies behind pos, after all that is read there.
LEMMA AddedRing ==
  ASSUME MTInv, NEW r, JobAdded(r)
  PROVE  RingInv'
<1>1. Types /\ ControlInv /\ RingInv /\ JobTypes
  BY DEF MTInv, Types
<1>2. /\ call.pc = "create" /\ WantsJob /\ ~jobReady /\ InputHandedOver /\ inPos' = inPos
      /\ Fresh(r) /\ mem' = mem
      /\ nextJobID' = nextJobID \/ nextJobID' = nextJobID + 1
      /\ call' = [call EXCEPT !.pc = "flush", !.op = EndOp]
  BY DEF JobAdded
<1>3. /\ InFrame /\ LastID = nextJobID - 1 /\ Cut \in Nat /\ Cut + inBuff.filled = inPos
      /\ inBuff.filled > 0 => /\ inBuff.start = roundBuff.pos
                              /\ roundBuff.pos + Section <= roundBuff.capacity
                              /\ Room = Section
      /\ inBuff.filled <= Section
  BY <1>2, Creates
<1>4. /\ LastID' = nextJobID /\ Ids' = Ids \cup {nextJobID} /\ nextJobID \notin Ids
      /\ Ids \subseteq Nat
      /\ \A i : i = nextJobID => J(i)' = r
      /\ \A i \in Ids : J(i)' = J(i) /\ i < nextJobID
      /\ Section' = Section
  BY AddedTerms
<1>5. /\ roundBuff'.pos = roundBuff.pos + inBuff.filled
      /\ roundBuff'.capacity = roundBuff.capacity
      /\ inBuff'.start = None /\ inBuff'.filled = 0
      /\ inBuff'.prefix.size \in Nat /\ inBuff'.prefix.size <= inBuff.filled
      /\ inBuff'.prefix.size > 0 => inBuff'.prefix.start = roundBuff'.pos - inBuff'.prefix.size
      /\ Cut' = inPos /\ Room' = 0
  BY <1>2, HandedOver
<1>6. /\ LapsInv /\ InBuffInv /\ \A i \in Ids : Active(J(i)) => Placed(J(i))
  BY <1>1, <1>3 DEF RingInv
<1>7. /\ nextJobID \in Nat /\ Section \in Nat \ {0} /\ inPos \in Nat /\ inBuff.filled \in Nat
      /\ roundBuff.pos \in Nat /\ roundBuff.capacity \in Nat /\ inBuff.prefix.size \in Nat
      /\ call \in CallType
  BY <1>1, Scalars
<1> DEFINE pos == roundBuff.pos
           filled == inBuff.filled
           cap == roundBuff.capacity
           ps == inBuff.prefix.size
           newPs == inBuff'.prefix.size
<1>8. /\ 2 * Section <= cap /\ pos <= cap /\ ps <= pos /\ ps <= Section
      /\ ps > 0 => inBuff.prefix.start = pos - ps
      /\ \A a \in pos - ps .. pos + filled - 1 : mem[a] = Cut + (a - pos)
      /\ FirstLap \/ cap \div Section <= nextJobID
  BY <1>6 DEF InBuffInv
<1>9. ASSUME Active(r)
      PROVE  /\ r.src.start = pos /\ r.src.size = filled /\ filled > 0 /\ r.prefix = inBuff.prefix
             /\ r.at = Cut /\ Lo(r) = pos - ps /\ Hi(r) = pos + filled
  <2>1. /\ r \in JobType /\ r.consumed = 0 /\ r.src.size = filled /\ r.at = Cut
        /\ (r.src.start = inBuff.start /\ r.prefix = inBuff.prefix) \/ r.src.size = 0
    BY <1>2 DEF Fresh
  <2>2. r.src.size > 0
    BY <1>9, <2>1 DEF Active
  <2>3. r.src.start = pos /\ r.prefix = inBuff.prefix
    BY <1>3, <2>1, <2>2
  <2> QED
    BY <2>1, <2>2, <2>3 DEF Lo, Hi
<1>10. ASSUME Active(r)
       PROVE  Placed(r)'
  <2>1. Lo(r) >= 0 /\ r.src.size <= Section
    BY <1>3, <1>7, <1>8, <1>9, <1>10
  <2>2. r.src.start + Section <= roundBuff.capacity
    BY <1>3, <1>9, <1>10
  <2>3. r.prefix.size > 0 => r.prefix.start = Lo(r)
    BY <1>8, <1>9, <1>10
  <2>4. \A a \in Lo(r) .. Hi(r) - 1 : mem[a] = r.at + (a - r.src.start)
    <3>1. Lo(r) = pos - ps /\ Hi(r) = pos + filled /\ r.at = Cut /\ r.src.start = pos
      BY <1>9, <1>10
    <3>2. PICK hi : hi = pos + filled - 1
      OBVIOUS
    <3>3. \A a \in pos - ps .. hi : mem[a] = Cut + (a - pos)
      BY <1>8, <3>2
    <3>4. Hi(r) - 1 = hi
      <4>1. pos \in Nat /\ filled \in Nat
        BY <1>7
      <4> QED
        BY <3>1, <3>2, <4>1
    <3> QED
      BY <3>1, <3>3, <3>4
  <2>5. Placed(r)
    BY <2>1, <2>2, <2>3, <2>4 DEF Placed
  <2> QED
    BY <1>2, <1>4, <1>5, <2>5 DEF Placed, Lo, Hi
<1>11. ASSUME NEW i \in Ids, Active(J(i))
       PROVE  Placed(J(i))'
  <2>1. Placed(J(i)) /\ J(i)' = J(i)
    BY <1>4, <1>6, <1>11
  <2> QED
    BY <1>2, <1>4, <1>5, <2>1 DEF Placed, Lo, Hi
<1>12. \A i \in Ids' : Active(J(i))' => Placed(J(i))'
  <2>1. ASSUME NEW i \in Ids, Active(J(i))'
        PROVE  Placed(J(i))'
    <3>1. J(i)' = J(i)
      BY <1>4
    <3>2. Active(J(i))
      BY <2>1, <3>1 DEF Active
    <3> QED
      BY <1>11, <3>2
  <2>2. ASSUME NEW i, i = nextJobID, Active(J(i))'
        PROVE  Placed(J(i))'
    <3>1. J(i)' = r
      BY <1>4, <2>2
    <3>2. Active(r)
      BY <2>2, <3>1 DEF Active
    <3>3. Placed(r)'
      BY <1>10, <3>2
    <3> QED
      BY <3>1, <3>3 DEF Placed, Lo, Hi
  <2> QED
    BY <1>4, <2>1, <2>2
<1>13. ASSUME NEW i \in Ids, Active(J(i))
       PROVE  /\ ThisLap(J(i)) \/ LastLap(J(i))
              /\ ThisLap(J(i)) => ThisLap(J(i))' /\ Lo(J(i)) <= pos - ps
              /\ LastLap(J(i)) => LastLap(J(i))' /\ ~ThisLap(J(i))'
              /\ Lo(J(i))' = Lo(J(i)) /\ Lo(J(i)) \in Nat
  <2>1. J(i)' = J(i)
    BY <1>4
  <2>2. /\ Lo(J(i)) \in Nat /\ Hi(J(i)) \in Nat /\ Lo(J(i)) < Hi(J(i))
    BY <1>1, <1>13, PlacedJob
  <2>3. /\ ThisLap(J(i)) \/ LastLap(J(i))
        /\ ThisLap(J(i)) => Lo(J(i)) <= pos - ps
    BY <1>6, <1>13 DEF LapsInv
  <2>4. Lo(J(i))' = Lo(J(i)) /\ Hi(J(i))' = Hi(J(i))
    BY <2>1 DEF Lo, Hi
  <2>5. ThisLap(J(i)) => ThisLap(J(i))'
    <3>1. Hi(J(i)) <= pos => Hi(J(i)) <= pos + filled
      BY <1>7, <2>2
    <3> QED
      BY <1>5, <2>4, <3>1 DEF ThisLap
  <2>6. LastLap(J(i)) => pos + filled <= Lo(J(i))
    <3>1. CASE filled > 0
      BY <1>3, <1>7, <2>2, <3>1 DEF LastLap
    <3>2. CASE filled = 0
      <4>1. Room \in Nat
        BY <1>7 DEF Room
      <4> QED
        BY <1>7, <2>2, <3>2, <4>1 DEF LastLap
    <3> QED
      BY <1>7, <3>1, <3>2
  <2>7. LastLap(J(i)) => LastLap(J(i))' /\ ~ThisLap(J(i))'
    <3> SUFFICES ASSUME LastLap(J(i))
                 PROVE  LastLap(J(i))' /\ ~ThisLap(J(i))'
      OBVIOUS
    <3>1. pos + filled + 0 <= Lo(J(i)) /\ ~(Hi(J(i)) <= pos + filled)
      BY <1>7, <2>2, <2>6
    <3> QED
      BY <1>5, <2>4, <3>1 DEF LastLap, ThisLap
  <2> QED
    BY <2>2, <2>3, <2>4, <2>5, <2>7
<1>14. ASSUME Active(r)
       PROVE  ThisLap(r)' /\ Lo(r)' = Lo(r) /\ Lo(r) = pos - ps
  <2>1. Lo(r) = pos - ps /\ Hi(r) = roundBuff'.pos
    BY <1>5, <1>9, <1>14
  <2>2. Lo(r)' = Lo(r) /\ Hi(r)' = Hi(r)
    BY DEF Lo, Hi
  <2>3. roundBuff'.pos \in Nat
    BY <1>5, <1>7
  <2> QED
    BY <2>1, <2>2, <2>3 DEF ThisLap
<1>15. pos - ps <= roundBuff'.pos - newPs
  BY <1>5, <1>7
<1> HIDE DEF pos, ps, filled, cap
<1>16. ASSUME NEW i \in Ids', Active(J(i))'
       PROVE  /\ ThisLap(J(i))' \/ LastLap(J(i))'
              /\ ThisLap(J(i))' => Lo(J(i))' <= roundBuff'.pos - newPs
              /\ \A k \in Ids' : i < k /\ Active(J(k))' =>
                   \/ ThisLap(J(i))' /\ ThisLap(J(k))' /\ Lo(J(i))' <= Lo(J(k))'
                   \/ LastLap(J(i))' /\ ThisLap(J(k))'
                   \/ LastLap(J(i))' /\ LastLap(J(k))' /\ Lo(J(i))' <= Lo(J(k))'
  <2>0. pos - ps \in Int /\ roundBuff'.pos - newPs \in Int
    BY <1>5, <1>7 DEF pos, ps
  <2>1. CASE i \in Ids
    <3>1. J(i)' = J(i) /\ Active(J(i)) /\ i < nextJobID
      BY <1>4, <1>16, <2>1 DEF Active
    <3>2. /\ ThisLap(J(i)) \/ LastLap(J(i))
          /\ ThisLap(J(i)) => ThisLap(J(i))' /\ Lo(J(i)) <= pos - ps
          /\ LastLap(J(i)) => LastLap(J(i))' /\ ~ThisLap(J(i))'
          /\ Lo(J(i))' = Lo(J(i)) /\ Lo(J(i)) \in Nat
      BY <1>13, <2>1, <3>1
    <3>3. ThisLap(J(i))' => Lo(J(i))' <= roundBuff'.pos - newPs
      BY <1>15, <2>0, <3>2
    <3>4. ASSUME NEW k \in Ids, i < k, Active(J(k))'
          PROVE  \/ ThisLap(J(i))' /\ ThisLap(J(k))' /\ Lo(J(i))' <= Lo(J(k))'
                 \/ LastLap(J(i))' /\ ThisLap(J(k))'
                 \/ LastLap(J(i))' /\ LastLap(J(k))' /\ Lo(J(i))' <= Lo(J(k))'
      <4>1. Active(J(k))
        BY <1>4, <3>4 DEF Active
      <4>2. \/ ThisLap(J(i)) /\ ThisLap(J(k)) /\ Lo(J(i)) <= Lo(J(k))
            \/ LastLap(J(i)) /\ ThisLap(J(k))
            \/ LastLap(J(i)) /\ LastLap(J(k)) /\ Lo(J(i)) <= Lo(J(k))
        BY <1>6, <2>1, <3>1, <3>4, <4>1 DEF LapsInv
      <4>3. /\ ThisLap(J(k)) => ThisLap(J(k))'
            /\ LastLap(J(k)) => LastLap(J(k))'
            /\ Lo(J(k))' = Lo(J(k))
        BY <1>13, <4>1
      <4> QED
        BY <3>2, <4>2, <4>3
    <3>5. ASSUME NEW k, k = nextJobID, Active(J(k))'
          PROVE  \/ ThisLap(J(i))' /\ ThisLap(J(k))' /\ Lo(J(i))' <= Lo(J(k))'
                 \/ LastLap(J(i))' /\ ThisLap(J(k))'
      <4>1. J(k)' = r
        BY <1>4, <3>5
      <4>2. Active(r)
        BY <3>5, <4>1 DEF Active
      <4>3. ThisLap(r)' /\ Lo(r)' = pos - ps
        BY <1>14, <4>2
      <4>4. ThisLap(J(k))' /\ Lo(J(k))' = pos - ps
        BY <4>1, <4>3 DEF ThisLap, Lo, Hi
      <4> QED
        BY <3>2, <4>4
    <3> QED
      BY <1>4, <3>2, <3>3, <3>4, <3>5
  <2>2. CASE i = nextJobID
    <3>1. J(i)' = r
      BY <1>4, <2>2
    <3>2. Active(r)
      BY <1>16, <3>1 DEF Active
    <3>3. ThisLap(r)' /\ Lo(r)' = pos - ps
      BY <1>14, <3>2
    <3>4. ThisLap(J(i))' /\ Lo(J(i))' = pos - ps
      BY <3>1, <3>3 DEF ThisLap, Lo, Hi
    <3>5. \A k \in Ids' : ~(i < k)
      <4>1. \A k \in Ids : k \in Nat /\ k < nextJobID
        BY <1>4
      <4> QED
        BY <1>4, <1>7, <2>2, <4>1
    <3> QED
      BY <1>15, <3>4, <3>5
  <2> QED
    BY <1>4, <2>1, <2>2
<1>17. LapsInv'
  BY <1>16 DEF LapsInv
<1>18. InBuffInv'
  <2>1. \A a \in roundBuff'.pos - newPs .. roundBuff'.pos + inBuff'.filled - 1 :
          mem'[a] = Cut' + (a - roundBuff'.pos)
    <3> SUFFICES ASSUME NEW a \in roundBuff'.pos - newPs .. roundBuff'.pos + inBuff'.filled - 1
                 PROVE  mem'[a] = Cut' + (a - roundBuff'.pos)
      OBVIOUS
    <3>1. /\ roundBuff'.pos = pos + filled /\ newPs \in Nat /\ newPs <= filled
          /\ inBuff'.filled = 0 /\ pos \in Nat /\ filled \in Nat /\ ps \in Nat
          /\ Cut \in Nat /\ Cut + filled = inPos
      BY <1>3, <1>5, <1>7 DEF pos, filled, ps
    <3>2. a \in pos - ps .. pos + filled - 1
      BY <3>1
    <3>3. mem[a] = Cut + (a - pos)
      BY <1>8, <3>2 DEF pos, ps, filled
    <3>4. Cut + (a - pos) = inPos + (a - roundBuff'.pos)
      BY <3>1
    <3> QED
      BY <1>2, <1>5, <3>3, <3>4
  <2>2. /\ 2 * Section <= roundBuff'.capacity /\ roundBuff'.pos <= roundBuff'.capacity
        /\ inBuff'.filled <= Section /\ newPs <= Section /\ newPs <= roundBuff'.pos
    <3>1. /\ roundBuff'.pos = pos + filled /\ newPs \in Nat /\ newPs <= filled
          /\ inBuff'.filled = 0 /\ pos \in Nat /\ filled \in Nat /\ Section \in Nat
          /\ filled <= Section /\ cap \in Nat /\ roundBuff'.capacity = cap
      BY <1>3, <1>5, <1>7 DEF pos, filled, cap
    <3>2. 2 * Section <= cap /\ pos <= cap /\ (filled > 0 => pos + Section <= cap)
      BY <1>3, <1>8 DEF pos, filled, cap
    <3>3. pos + filled <= cap
      BY <3>1, <3>2
    <3> QED
      BY <3>1, <3>2, <3>3
  <2>3. ASSUME FirstLap
        PROVE  FirstLap'
    <3>1. roundBuff'.pos <= (LastID' + 1) * Section'
      <4>1. pos <= nextJobID * Section
        <5>1. LastID + 1 = nextJobID
          BY <1>3, <1>7
        <5> QED
          BY <2>3, <5>1 DEF FirstLap, pos
      <4>2. roundBuff'.pos = pos + filled /\ filled <= Section
            /\ pos \in Nat /\ filled \in Nat /\ Section \in Nat /\ nextJobID \in Nat
        BY <1>3, <1>5, <1>7 DEF pos, filled
      <4>3. (nextJobID + 1) * Section = nextJobID * Section + Section
        BY <4>2
      <4>4. PICK m \in Nat : m = nextJobID * Section
        BY <4>2
      <4>5. roundBuff'.pos <= (nextJobID + 1) * Section
        BY <4>1, <4>2, <4>3, <4>4
      <4> QED
        BY <1>4, <4>5
    <3>2. \A i \in Ids' : Active(J(i))' => ThisLap(J(i))'
      <4>1. ASSUME NEW i \in Ids, Active(J(i))'
            PROVE  ThisLap(J(i))'
        <5>1. Active(J(i))
          BY <1>4, <4>1 DEF Active
        <5>2. ThisLap(J(i))
          BY <2>3, <5>1 DEF FirstLap
        <5> QED
          BY <1>13, <5>1, <5>2
      <4>2. ASSUME NEW i, i = nextJobID, Active(J(i))'
            PROVE  ThisLap(J(i))'
        <5>1. J(i)' = r
          BY <1>4, <4>2
        <5>2. ThisLap(r)'
          BY <1>14, <4>2, <5>1 DEF Active
        <5> QED
          BY <5>1, <5>2 DEF ThisLap, Hi
      <4> QED
        BY <1>4, <4>1, <4>2
    <3> QED
      BY <3>1, <3>2 DEF FirstLap
  <2>4. ASSUME cap \div Section <= nextJobID
        PROVE  roundBuff'.capacity \div Section' <= nextJobID'
    <3>1. PICK q \in Int : q = cap \div Section
      BY <1>7 DEF cap
    <3>2. q <= nextJobID'
      BY <1>2, <1>7, <2>4, <3>1
    <3>3. roundBuff'.capacity \div Section' <= nextJobID'
      BY <1>4, <1>5, <3>1, <3>2 DEF cap
    <3> QED
      BY <3>3
  <2>5. FirstLap' \/ roundBuff'.capacity \div Section' <= nextJobID'
    BY <1>8, <2>3, <2>4 DEF cap
  <2> QED
    BY <1>4, <1>5, <2>1, <2>2, <2>5 DEF InBuffInv
<1>19. RangeInv'
  BY <1>2, <1>7 DEF RangeInv, CallType
<1> QED
  BY <1>12, <1>17, <1>18, <1>19 DEF RingInv


\* Everything, after a job was created.
LEMMA AddedStep ==
  ASSUME MTInv, NEW r, JobAdded(r), NEW posts \in BOOLEAN, PoolAfter(posts),
         posts => r.src.size > 0, UNCHANGED <<queueHead, queueTail, shutdown, client>>
  PROVE  MTInv'
<1>1. PoolTypes'
  BY PoolAfterTypes DEF MTInv
<1>2. Types'
  BY <1>1, AddedTypes
<1>3. ControlInv' /\ CallInv'
  BY AddedControl
<1>4. JobsInv' /\ DeliveryInv' /\ StaleInv'
  BY AddedJobs, AddedDelivery, AddedStale
<1>5. WindowInv' /\ CutsInv' /\ RingInv'
  BY AddedWindow, AddedCuts, AddedRing
<1>6. SerialInv' /\ WorkerInv'
  BY AddedSerial, AddedWorkers
<1> QED
  BY <1>2, <1>3, <1>4, <1>5, <1>6 DEF MTInv

\* The job that ZSTDMT_createCompressionJob describes.
LEMMA NewJobIs ==
  ASSUME NEW r, r = NewJob
  PROVE  r = [consumed |-> 0, cSize |-> 0, dst |-> NoBuffer, prefix |-> inBuff.prefix,
              src |-> [start |-> inBuff.start, size |-> inBuff.filled],
              at |-> inPos - inBuff.filled, jobID |-> nextJobID, last |-> (EndOp = "end"),
              sum |-> (sumFlag /\ EndOp = "end" /\ nextJobID > 0), flushed |-> 0]
BY DEF NewJob, NullJob

\* ZSTDMT_writeLastEmptyBlock, or its failure to get a buffer.
LEMMA LastEmptyBlockStep ==
  ASSUME CleanPlans, MTInv, LastEmptyBlock
  PROVE  MTInv'
<1>1. Types
  BY DEF MTInv
<1>2. /\ call.pc = "create" /\ WantsJob /\ ~TableFull /\ ~jobReady /\ inBuff.filled = 0
      /\ nextJobID > 0 /\ InputHandedOver
      /\ nextJobID' = nextJobID + 1
      /\ call' = [call EXCEPT !.pc = "flush", !.op = EndOp]
      /\ UNCHANGED <<poolState, serial, asleep, job, cctxAvail, mem, inPos, doneJobID,
                     jobReady, allJobsCompleted, callerVars>>
  BY DEF LastEmptyBlock, CallerAt, WritesLastEmptyBlock
<1>3. PICK ok \in BOOLEAN :
        IF ok THEN /\ jobs' = [jobs EXCEPT ![Slot(nextJobID)] =
                        [NewJob EXCEPT !.src = NullRange, !.dst = <<EndMark>>, !.cSize = 1]]
                   /\ fails' = fails
        ELSE /\ MayFail /\ fails' = fails + 1
             /\ jobs' = [jobs EXCEPT ![Slot(nextJobID)] =
                  [NewJob EXCEPT !.src = NullRange, !.cSize = Error]]
  BY DEF LastEmptyBlock
<1>4. Cut \in Nat /\ EndOp = "end" /\ sumFlag = Checksum /\ Cut = inPos - inBuff.filled
  BY <1>2, Creates DEF Cut
<1>5. nextJobID \in Nat /\ inBuff.prefix \in RangeType /\ Checksum \in BOOLEAN
  BY <1>1, Scalars, SizesAssumption
<1>6. NullRange \in RangeType /\ NoBuffer \in Seq(Int) /\ <<EndMark>> \in Seq(Int)
      /\ NullRange.size = 0
  BY DEF NullRange, RangeType, None, NoBuffer, EndMark
<1>7. PICK r : r = IF ok THEN [NewJob EXCEPT !.src = NullRange, !.dst = <<EndMark>>, !.cSize = 1]
                   ELSE [NewJob EXCEPT !.src = NullRange, !.cSize = Error]
  OBVIOUS
<1>8. r = [consumed |-> 0, cSize |-> IF ok THEN 1 ELSE Error,
           dst |-> IF ok THEN <<EndMark>> ELSE NoBuffer, prefix |-> inBuff.prefix,
           src |-> NullRange, at |-> Cut, jobID |-> nextJobID, last |-> TRUE,
           sum |-> Checksum, flushed |-> 0]
  <2>1. NewJob = [consumed |-> 0, cSize |-> 0, dst |-> NoBuffer, prefix |-> inBuff.prefix,
                  src |-> [start |-> inBuff.start, size |-> inBuff.filled],
                  at |-> Cut, jobID |-> nextJobID, last |-> TRUE, sum |-> Checksum,
                  flushed |-> 0]
    <3>1. NewJob = [consumed |-> 0, cSize |-> 0, dst |-> NoBuffer, prefix |-> inBuff.prefix,
                    src |-> [start |-> inBuff.start, size |-> inBuff.filled],
                    at |-> inPos - inBuff.filled, jobID |-> nextJobID, last |-> (EndOp = "end"),
                    sum |-> (sumFlag /\ EndOp = "end" /\ nextJobID > 0), flushed |-> 0]
      <4>1. PICK n : n = NewJob
        OBVIOUS
      <4> QED
        BY <4>1, NewJobIs
    <3>2. (EndOp = "end") = TRUE
      BY <1>4
    <3>3. (sumFlag /\ EndOp = "end" /\ nextJobID > 0) = Checksum
      BY <1>2, <1>4, <1>5
    <3> QED
      BY <1>4, <3>1, <3>2, <3>3
  <2>2. CASE ok
    BY <1>7, <2>1, <2>2
  <2>3. CASE ~ok
    BY <1>7, <2>1, <2>3
  <2> QED
    BY <2>2, <2>3
<1>9. r \in JobType
  BY <1>4, <1>5, <1>6, <1>8 DEF JobType
<1>10. Fresh(r)
  BY <1>2, <1>4, <1>5, <1>6, <1>8, <1>9 DEF Fresh
<1>11. (fails' = fails /\ r.cSize # Error) \/ (fails' = fails + 1 /\ frame = Len(frames))
  BY <1>1, <1>3, <1>8, FailsLast DEF Error
<1>12. jobs' = [jobs EXCEPT ![Slot(nextJobID)] = r]
  BY <1>3, <1>7
<1>13. JobAdded(r)
  BY <1>2, <1>10, <1>11, <1>12 DEF JobAdded, callerVars
<1>14. PoolAfter(FALSE) /\ UNCHANGED <<queueHead, queueTail, shutdown, client>>
  BY <1>2 DEF PoolAfter, poolState
<1> QED
  BY <1>13, <1>14, AddedStep

\* POOL_tryAdd takes the job, or leaves everything as it is.
LEMMA PostedOrNot ==
  ASSUME PoolTypes, JobTypes, nextJobID \in Nat, ControlInv, call.pc = "create",
         job' = job, client' = client, NEW posts \in BOOLEAN,
         IF posts THEN POOL!TryAdd(Slot(nextJobID) + 1) /\ nextJobID' = nextJobID + 1
         ELSE POOL!TryAddFails
  PROVE  PoolAfter(posts) /\ UNCHANGED <<queueHead, queueTail, shutdown, client>>
<1>1. CASE posts
  <2>1. Slot(nextJobID) \in 0 .. TableLen - 1 /\ TableLen \in Nat
    BY TableShape
  <2>2. PICK s \in Nat : s = Slot(nextJobID) + 1
    BY <2>1
  <2>3. ~shutdown
    BY DEF ControlInv
  <2>4. POOL!TryAdd(s)
    BY <1>1, <2>2
  <2>5. /\ queueEmpty' = FALSE
        /\ queue' = [queue EXCEPT ![0] = s] /\ queueHead' = 0 /\ queueTail' = 0
        /\ \/ thread' = thread
           \/ \E t \in 1 .. MaxThreads : /\ thread[t] = "waiting"
                                         /\ thread' = [thread EXCEPT ![t] = "lock"]
        /\ UNCHANGED <<threadCapacity, threadLimit, shutdown, running>>
    BY <2>3, <2>4, Posts
  <2>6. queueHead = 0 /\ queueTail = 0
    BY DEF PoolTypes
  <2> QED
    BY <1>1, <2>2, <2>5, <2>6 DEF PoolAfter
<1>2. CASE ~posts
  <2>1. UNCHANGED POOL!poolVars
    BY <1>2 DEF POOL!TryAddFails
  <2> QED
    BY <1>2, <2>1 DEF PoolAfter, POOL!poolVars, POOL!queueVars, POOL!sizeVars
<1> QED
  BY <1>1, <1>2

\* ZSTDMT_createCompressionJob prepares a job and posts it, if it can.
LEMMA PrepareStep ==
  ASSUME MTInv, CreateCompressionJob, ~jobReady
  PROVE  MTInv'
<1>1. Types /\ PoolTypes /\ JobTypes /\ ControlInv
  BY DEF MTInv, Types
<1>2. /\ call.pc = "create" /\ WantsJob /\ ~TableFull
      /\ ~(inBuff.filled = 0 /\ nextJobID > 0)
      /\ jobs' = [jobs EXCEPT ![Slot(nextJobID)] = NewJob]
      /\ InputHandedOver
      /\ call' = [call EXCEPT !.pc = "flush", !.op = EndOp]
      /\ UNCHANGED <<workVars, nbBuffers, mem, inPos, doneJobID, allJobsCompleted, callerVars>>
  BY DEF CreateCompressionJob, CallerAt, WritesLastEmptyBlock
<1>3. /\ Cut \in Nat /\ EndOp \in {"continue", "flush", "end"} /\ sumFlag = Checksum
      /\ Cut = inPos - inBuff.filled
      /\ inBuff.filled = 0 => nextJobID > 0
  BY <1>2, Creates DEF Cut
<1>4. nextJobID \in Nat /\ inBuff.prefix \in RangeType /\ Checksum \in BOOLEAN
      /\ inBuff.filled \in Nat /\ inBuff.start \in Int
  BY <1>1, Scalars, SizesAssumption
<1>5. inBuff.filled > 0
  BY <1>2, <1>3, <1>4
<1>6. PICK r : r = NewJob
  OBVIOUS
<1>7. r = [consumed |-> 0, cSize |-> 0, dst |-> NoBuffer, prefix |-> inBuff.prefix,
           src |-> [start |-> inBuff.start, size |-> inBuff.filled],
           at |-> Cut, jobID |-> nextJobID, last |-> (EndOp = "end"),
           sum |-> (Checksum /\ EndOp = "end" /\ nextJobID > 0), flushed |-> 0]
  BY <1>3, <1>6 DEF NewJob, NullJob, Cut
<1>8. NoBuffer \in Seq(Int)
  BY DEF NoBuffer
<1>9. r \in JobType
  <2>1. [start |-> inBuff.start, size |-> inBuff.filled] \in RangeType
    BY <1>4 DEF RangeType
  <2>2. (EndOp = "end") \in BOOLEAN /\ (Checksum /\ EndOp = "end" /\ nextJobID > 0) \in BOOLEAN
    BY <1>4
  <2> QED
    BY <1>3, <1>4, <1>7, <1>8, <2>1, <2>2 DEF JobType
<1>10. /\ r.jobID = nextJobID /\ r.at = Cut /\ r.flushed = 0 /\ r.consumed = 0
       /\ r.cSize = 0 /\ r.dst = NoBuffer
       /\ r.last <=> EndOp = "end"
       /\ r.sum <=> Checksum /\ EndOp = "end" /\ nextJobID > 0
       /\ r.src.size = inBuff.filled /\ r.src.start = inBuff.start /\ r.prefix = inBuff.prefix
  BY <1>7
<1>11. Fresh(r)
  BY <1>5, <1>9, <1>10 DEF Fresh, Pristine
<1>12. r.cSize # Error /\ r.src.size > 0
  BY <1>5, <1>10 DEF Error
<1>13. PICK posts \in BOOLEAN :
         IF posts THEN /\ POOL!TryAdd(Slot(nextJobID) + 1)
                       /\ nextJobID' = nextJobID + 1 /\ jobReady' = FALSE /\ client' = client
         ELSE POOL!TryAddFails /\ jobReady' = TRUE /\ nextJobID' = nextJobID /\ client' = client
  BY DEF CreateCompressionJob
<1>14. JobAdded(r)
  BY <1>2, <1>6, <1>11, <1>12, <1>13 DEF JobAdded, workVars, callerVars
<1>15. PoolAfter(posts) /\ UNCHANGED <<queueHead, queueTail, shutdown, client>>
  <2>1. job' = job
    BY <1>2 DEF workVars
  <2>2. client' = client
    BY <1>13
  <2>3. IF posts THEN POOL!TryAdd(Slot(nextJobID) + 1) /\ nextJobID' = nextJobID + 1
        ELSE POOL!TryAddFails
    BY <1>13
  <2> QED
    BY <1>1, <1>2, <1>4, <2>1, <2>2, <2>3, PostedOrNot
<1> QED
  BY <1>12, <1>14, <1>15, AddedStep


\* A job that was ready is posted: it was one of the jobs already.
LEMMA ReadyPostedStep ==
  ASSUME MTInv, jobReady, call.pc = "create", jobs' = jobs,
         PoolAfter(TRUE), UNCHANGED <<queueHead, queueTail, shutdown, client>>,
         nextJobID' = nextJobID + 1, jobReady' = FALSE,
         call' = [call EXCEPT !.pc = "flush", !.op = EndOp],
         UNCHANGED <<inBuff, roundBuff, frameEnded, sumFlag, serial, job, fails, mem, inPos,
                     doneJobID, allJobsCompleted, nbWorkers, frames, frame, delivered, ret>>
  PROVE  MTInv'
<1>1. /\ Types /\ PoolTypes /\ JobTypes /\ ControlInv /\ CallInv /\ WorkerInv /\ JobsInv
      /\ SerialInv /\ RingInv /\ DeliveryInv /\ WindowInv /\ CutsInv /\ StaleInv
  BY DEF MTInv, Types
<1>2. InFrame /\ ret = None
  BY <1>1 DEF InFrame, ControlInv, CallInv
<1>3. /\ nextJobID \in Nat /\ doneJobID \in Nat /\ doneJobID <= nextJobID /\ call \in CallType
      /\ serial.nextJobID \in Nat
  BY <1>1, Scalars DEF ControlInv
<1>4. LastID = nextJobID /\ LastID' = nextJobID /\ Ids' = Ids
  BY <1>2, <1>3 DEF LastID, Ready, None, Error, Ids
<1>5. /\ Section' = Section /\ FrameLen' = FrameLen /\ Sync' = Sync /\ Units' = Units
      /\ Cut' = Cut /\ Room' = Room
      /\ \A k : Unit(k)' = Unit(k) /\ Slot(k)' = Slot(k) /\ J(k)' = J(k)
      /\ TableLen' = TableLen
  BY DEF Section, FrameLen, Sync, Units, Unit, J, Slot, TableLen, Cut, Room
<1>6. EndOp \in {"continue", "flush", "end"} /\ (EndOp = "end" => call.op = "end")
  BY <1>3 DEF EndOp, CallType
<1>7. call' \in CallType /\ call'.pc = "flush" /\ call'.op = EndOp /\ call'.end = call.end
  BY <1>3, <1>6 DEF CallType
<1>8. InFrame'
  BY <1>2, <1>7 DEF InFrame
<1>9. Types'
  <2>1. PoolTypes'
    BY <1>1, PoolAfterTypes
  <2>2. JobTypes'
    <3>1. nextJobID' \in Nat /\ jobReady' \in BOOLEAN
      <4>1. PICK m \in Nat : m = nextJobID + 1
        BY <1>3
      <4>2. nextJobID' = m
        BY <4>1
      <4> QED
        BY <4>1, <4>2
    <3>2. \E size \in TableSizes : jobs' \in [0 .. size - 1 -> JobType]
      BY <1>1 DEF JobTypes
    <3> QED
      BY <1>1, <3>1, <3>2 DEF JobTypes
  <2>3. InputTypes'
    BY <1>1, <1>5, <1>7 DEF Types, InputTypes
  <2> QED
    BY <2>1, <2>2, <2>3 DEF Types
<1>10. ControlInv'
  <2>1. doneJobID' <= nextJobID' /\ LastID' < doneJobID' + Cardinality(DOMAIN jobs')
    <3>1. LastID < doneJobID + Cardinality(DOMAIN jobs) /\ LastID' = LastID
      BY <1>1, <1>4 DEF ControlInv
    <3> QED
      BY <1>3, <3>1
  <2> QED
    BY <1>1, <1>2, <1>7, <2>1 DEF ControlInv, None, Error
<1>11. CallInv'
  <2>1. /\ inPos <= call.end /\ call.end <= FrameLen /\ (call.op = "end" => call.end = FrameLen)
        /\ inBuff.start = None => inBuff.filled = 0
        /\ inBuff.filled = 0
        /\ frameEnded => inPos = FrameLen
        /\ Cut >= 0 /\ (LastID < 0 <=> Cut = 0)
        /\ inPos > 0
        /\ ~frameEnded => sumFlag = Checksum
    BY <1>1, <1>2 DEF CallInv
  <2>2. /\ inPos' = inPos /\ inBuff' = inBuff /\ frameEnded' = frameEnded /\ sumFlag' = sumFlag
        /\ LastID' = LastID /\ ret' = None /\ FrameLen' = FrameLen /\ Cut' = Cut
    BY <1>2, <1>4, <1>5
  <2> QED
    BY <1>6, <1>7, <2>1, <2>2 DEF CallInv
<1>12. PICK n \in Nat : n = nextJobID
  BY <1>3
<1>13. /\ n \in Ids /\ J(n).jobID = n /\ Active(J(n)) /\ Pristine(J(n))
       /\ jobs'[Slot(nextJobID)] = J(n)
  <2>1. n \in Ids
    BY <1>3, <1>4, <1>12 DEF Ids
  <2>2. jobs'[Slot(nextJobID)] = J(n)
    BY <1>12 DEF J
  <2> QED
    BY <1>1, <1>12, <2>1, <2>2 DEF JobsInv
<1>14. ASSUME NEW i \in Nat, Posted(i)
       PROVE  J(i)' = J(i) /\ Slot(i) # Slot(nextJobID)
  <2>1. i \in Ids /\ i < nextJobID
    BY <1>1, <1>14, IdsHeld DEF Posted
  <2>2. LastID < doneJobID + TableLen /\ doneJobID <= i /\ TableLen \in Nat
    BY <1>1, <1>14, TableShape DEF ControlInv, TableLen, Posted
  <2>3. nextJobID < i + TableLen /\ i < nextJobID + TableLen
    BY <1>3, <1>4, <2>1, <2>2
  <2> QED
    BY <1>1, <1>3, <1>5, <2>1, <2>3, SlotsDiffer
<1>15. WorkerInv'
  <2>1. nextJobID' \in {nextJobID, nextJobID + 1} /\ TRUE \in BOOLEAN
    OBVIOUS
  <2>2. /\ jobs'[Slot(nextJobID)].jobID = nextJobID
        /\ Active(jobs'[Slot(nextJobID)]) /\ Pristine(jobs'[Slot(nextJobID)])
    BY <1>12, <1>13
  <2>3. /\ \A i : Slot(i)' = Slot(i)
        /\ \A i \in Nat : Posted(i) => J(i)' = J(i) /\ Slot(i) # Slot(nextJobID)
    BY <1>5, <1>14
  <2> QED
    BY <1>1, <2>1, <2>2, <2>3, WorkersAfter
<1>16. JobsInv'
  <2>1. \A j : OutputInv(j)' <=> OutputInv(j)
    BY <1>5 DEF OutputInv
  <2>2. \A i \in Ids : i # nextJobID'
    BY <1>3, <1>4 DEF Ids
  <2> QED
    BY <1>1, <1>4, <1>5, <2>1, <2>2 DEF JobsInv
<1>17. DeliveryInv'
  <2>1. Flushed' = Flushed
    BY <1>3, <1>4, <1>5 DEF Flushed, Begin
  <2> QED
    BY <1>1, <1>2, <1>4, <1>5, <2>1 DEF DeliveryInv
<1>18. SerialInv'
  <2>1. Broken' = Broken
    BY <1>4, <1>5 DEF Broken
  <2>2. CutAt(serial.nextJobID)' = CutAt(serial.nextJobID)
    BY <1>4, <1>5 DEF CutAt
  <2>3. \A i \in Ids' : J(i)'.src.size > 0 /\ ~Active(J(i))' /\ J(i)'.cSize # Error =>
           i < serial'.nextJobID
    BY <1>1, <1>4, <1>5 DEF SerialInv, Active
  <2> SUFFICES ASSUME ~Broken
               PROVE  /\ doneJobID' <= serial'.nextJobID /\ serial'.nextJobID <= nextJobID'
                      /\ Checksum => serial'.hashed = CutAt(serial.nextJobID)'
                      /\ \A t \in 1 .. MaxThreads :
                           thread'[t] = "run" /\ job'[t] \in {"resources", "serial"} =>
                             MyJob(t)'.jobID >= serial'.nextJobID
                      /\ ~queueEmpty' => jobs'[queue'[0] - 1].jobID >= serial'.nextJobID
    BY <2>1, <2>3 DEF SerialInv
  <2>4. /\ doneJobID <= serial.nextJobID /\ serial.nextJobID <= nextJobID
        /\ Checksum => serial.hashed = CutAt(serial.nextJobID)
        /\ \A t \in 1 .. MaxThreads :
              thread[t] = "run" /\ job[t] \in {"resources", "serial"} =>
                MyJob(t).jobID >= serial.nextJobID
    BY <1>1, <1>2, <1>3, <1>4 DEF SerialInv
  <2>5. doneJobID' <= serial'.nextJobID /\ serial'.nextJobID <= nextJobID'
    BY <1>3, <2>4
  <2>6. \A t \in 1 .. MaxThreads : MyJob(t)' = MyJob(t) /\ (thread'[t] = "run") = (thread[t] = "run")
    BY <1>1, ThreadsAfter DEF MyJob, Mine, PoolAfter
  <2>7. jobs'[queue'[0] - 1].jobID >= serial'.nextJobID
    <3>1. PICK s : s = Slot(nextJobID)
      OBVIOUS
    <3>2. s \in Nat
      <4>1. Slot(nextJobID) \in 0 .. TableLen - 1 /\ TableLen \in Nat
        BY <1>1, <1>3, TableShape
      <4> QED
        BY <3>1, <4>1
    <3>3. queue'[0] = s + 1
      BY <1>1, <3>1 DEF PoolAfter, PoolTypes
    <3>4. queue'[0] - 1 = s
      BY <3>2, <3>3
    <3>5. jobs'[s].jobID = nextJobID
      BY <1>12, <1>13, <3>1
    <3> QED
      BY <1>3, <2>4, <3>4, <3>5
  <2> QED
    BY <2>2, <2>4, <2>5, <2>6, <2>7
<1>19. RingInv'
  <2>1. LapsInv /\ InBuffInv /\ \A i \in Ids : Active(J(i)) => Placed(J(i))
    BY <1>1, <1>2 DEF RingInv
  <2>2. \A i : /\ Active(J(i))' = Active(J(i)) /\ Placed(J(i))' = Placed(J(i))
               /\ Lo(J(i))' = Lo(J(i)) /\ ThisLap(J(i))' = ThisLap(J(i))
               /\ LastLap(J(i))' = LastLap(J(i))
    BY <1>5 DEF Active, Placed, Lo, Hi, ThisLap, LastLap
  <2>3. LapsInv'
    BY <1>4, <1>5, <2>1, <2>2 DEF LapsInv
  <2>4. FirstLap => FirstLap'
    BY <1>4, <1>5, <2>2 DEF FirstLap
  <2>5. roundBuff.capacity \div Section <= nextJobID =>
          roundBuff.capacity \div Section <= nextJobID'
    <3>1. roundBuff.capacity \in Nat /\ Section \in Nat \ {0}
      BY <1>1, Scalars
    <3>2. PICK q \in Int : q = roundBuff.capacity \div Section
      BY <3>1
    <3> QED
      BY <1>3, <3>2
  <2>6. InBuffInv'
    BY <1>5, <2>1, <2>4, <2>5 DEF InBuffInv
  <2>7. RangeInv'
    BY <1>7 DEF RangeInv
  <2> QED
    BY <1>4, <2>1, <2>2, <2>3, <2>6, <2>7 DEF RingInv
<1>20. WindowInv'
  <2>1. CutAt(serial.nextJobID)' = CutAt(serial.nextJobID)
    BY <1>4, <1>5 DEF CutAt
  <2> QED
    BY <1>1, <1>2, <1>4, <1>5, <2>1 DEF WindowInv
<1>21. CutsInv'
  <2>1. \A j : CutWell(j)' <=> CutWell(j)
    BY <1>5 DEF CutWell
  <2>2. TableLen \in Nat
    BY <1>1, TableShape
  <2>3. \A i \in Larger(0, nextJobID' - TableLen) .. LastID' :
          i \in Larger(0, nextJobID - TableLen) .. LastID
    BY <1>3, <1>4, <2>2 DEF Larger
  <2> QED
    BY <1>1, <1>2, <1>5, <1>7, <2>1, <2>3 DEF CutsInv, TableLen, CutWell
<1>22. StaleInv'
  BY <1>1, <1>4, <1>5 DEF StaleInv
<1> QED
  BY <1>9, <1>10, <1>11, <1>15, <1>16, <1>17, <1>18, <1>19, <1>20, <1>21, <1>22 DEF MTInv

\* ZSTDMT_createCompressionJob, with a job that was ready or without.
LEMMA CreateCompressionJobStep ==
  ASSUME MTInv, CreateCompressionJob
  PROVE  MTInv'
<1>1. CASE ~jobReady
  BY <1>1, PrepareStep
<1>2. CASE jobReady
  <2>1. /\ call.pc = "create" /\ jobs' = jobs
        /\ call' = [call EXCEPT !.pc = "flush", !.op = EndOp]
        /\ UNCHANGED <<inBuff, roundBuff, frameEnded, sumFlag>>
        /\ UNCHANGED <<workVars, nbBuffers, mem, inPos, doneJobID, allJobsCompleted, callerVars>>
    BY <1>2 DEF CreateCompressionJob, CallerAt, InputHandedOver
  <2>2. UNCHANGED <<serial, job, fails, mem, inPos, doneJobID, allJobsCompleted, nbWorkers,
                    frames, frame, delivered, ret>>
    BY <2>1 DEF workVars, callerVars
  <2>3. PICK posts \in BOOLEAN :
         IF posts THEN /\ POOL!TryAdd(Slot(nextJobID) + 1)
                       /\ nextJobID' = nextJobID + 1 /\ jobReady' = FALSE /\ client' = client
         ELSE POOL!TryAddFails /\ jobReady' = TRUE /\ nextJobID' = nextJobID /\ client' = client
    BY DEF CreateCompressionJob
  <2>4. /\ PoolTypes /\ JobTypes /\ nextJobID \in Nat /\ ControlInv
    BY Scalars DEF MTInv, Types
  <2>5. PoolAfter(posts) /\ UNCHANGED <<queueHead, queueTail, shutdown, client>>
    <3>1. job' = job /\ client' = client
      BY <2>2, <2>3
    <3>2. IF posts THEN POOL!TryAdd(Slot(nextJobID) + 1) /\ nextJobID' = nextJobID + 1
          ELSE POOL!TryAddFails
      BY <2>3
    <3> QED
      BY <2>1, <2>4, <3>1, <3>2, PostedOrNot
  <2>6. CASE posts
    <3>1. PoolAfter(TRUE)
      BY <2>5, <2>6 DEF PoolAfter
    <3>2. nextJobID' = nextJobID + 1 /\ jobReady' = FALSE
      BY <2>3, <2>6
    <3> QED
      BY <1>2, <2>1, <2>2, <2>5, <3>1, <3>2, ReadyPostedStep
  <2>7. CASE ~posts
    <3>1. UNCHANGED POOL!poolVars /\ jobReady' = jobReady /\ nextJobID' = nextJobID
          /\ client' = client
      BY <1>2, <2>3, <2>7 DEF POOL!TryAddFails
    <3>2. WorkersKept
      BY <2>1, <2>2, <3>1 DEF WorkersKept, POOL!poolVars, POOL!queueVars, POOL!sizeVars
    <3>3. OrderKept /\ InputKept
      BY <2>1, <2>2, <3>1 DEF OrderKept, InputKept
    <3> QED
      BY <2>1, <2>2, <3>2, <3>3, FlushBegins
  <2> QED
    BY <2>6, <2>7
<1> QED
  BY <1>1, <1>2

(* ---------------------------- output is flushed ------------------------- *)
\* The work a job describes, and how far it is, stays the same.
SameWork(r, o) ==
  /\ r.consumed = o.consumed /\ r.src = o.src /\ r.prefix = o.prefix /\ r.at = o.at
  /\ r.jobID = o.jobID /\ r.last = o.last

\* ZSTDMT_flushProduced leaves r in the place of the oldest job.
Flushes(r) ==
  /\ call.pc = "flush" /\ Oldest.cSize # Error
  /\ jobs' = [jobs EXCEPT ![Slot(doneJobID)] = r] /\ r \in JobType /\ SameWork(r, Oldest)
  /\ r.cSize # Error
  /\ Active(Oldest) => r.cSize = Oldest.cSize /\ r.dst = Oldest.dst /\ r.sum = Oldest.sum
  /\ doneJobID > LastID => r = Oldest
  /\ \/ /\ doneJobID' = doneJobID
        /\ doneJobID <= LastID => OutputInv(r) /\ (r.sum => Oldest.sum)
        /\ doneJobID = nextJobID => r = Oldest
     \/ /\ doneJobID' = doneJobID + 1 /\ doneJobID <= LastID /\ doneJobID < nextJobID
        /\ ~Active(Oldest) /\ Stale(r)
  /\ allJobsCompleted' \in BOOLEAN
  /\ ret' \in {0, 1}
  /\ ret' = 0 => /\ doneJobID' = nextJobID /\ ~jobReady /\ inBuff.filled = 0
                 /\ call.op = "end" => frameEnded /\ allJobsCompleted'
  /\ call' = [call EXCEPT !.pc = "idle"]
  /\ UNCHANGED <<queue, queueHead, queueTail, queueEmpty, threadCapacity, shutdown, thread,
                 running, client, serial, job, fails, inBuff, roundBuff, mem, inPos, nextJobID,
                 jobReady, frameEnded, sumFlag, nbWorkers, frames, frame>>

\* The jobs after that.
LEMMA FlushedTerms ==
  ASSUME MTInv, NEW r, Flushes(r)
  PROVE  /\ InFrame /\ InFrame' /\ LastID' = LastID /\ LastID \in Int /\ LastID <= nextJobID
         /\ doneJobID \in Nat /\ nextJobID \in Nat /\ doneJobID <= nextJobID
         /\ doneJobID' \in {doneJobID, doneJobID + 1} /\ doneJobID' <= nextJobID
         /\ Ids \subseteq Nat
         /\ \A i \in Ids' : i \in Ids /\ (i = doneJobID => doneJobID' = doneJobID)
         /\ \A i \in Ids : i \in Ids' \/ (i = doneJobID /\ doneJobID' = doneJobID + 1)
         /\ DOMAIN jobs' = DOMAIN jobs /\ TableLen' = TableLen /\ \A i : Slot(i)' = Slot(i)
         /\ \E size \in TableSizes : jobs' \in [0 .. size - 1 -> JobType]
         /\ Slot(doneJobID) \in DOMAIN jobs /\ jobs'[Slot(doneJobID)] = r
         /\ jobs[Slot(doneJobID)] = Oldest
         /\ \A s \in DOMAIN jobs : /\ SameWork(jobs'[s], jobs[s])
                                   /\ s # Slot(doneJobID) => jobs'[s] = jobs[s]
         /\ \A i \in Nat : SameWork(J(i)', J(i))
         /\ \A i \in Ids : i # doneJobID => J(i)' = J(i)
         /\ \A i : i = doneJobID => J(i)' = r /\ J(i) = Oldest
         /\ Section' = Section /\ FrameLen' = FrameLen /\ Sync' = Sync /\ Units' = Units
         /\ Cut' = Cut /\ Room' = Room /\ \A k : Unit(k)' = Unit(k)
         /\ call' \in CallType /\ call'.pc = "idle" /\ call'.op = call.op /\ call'.end = call.end
<1>1. Types /\ JobTypes /\ ControlInv /\ CallInv
  BY DEF MTInv, Types
<1>2. /\ doneJobID \in Nat /\ nextJobID \in Nat /\ doneJobID <= nextJobID /\ call \in CallType
  BY <1>1, Scalars DEF ControlInv
<1>3. /\ call.pc = "flush" /\ jobs' = [jobs EXCEPT ![Slot(doneJobID)] = r] /\ r \in JobType
      /\ SameWork(r, Oldest) /\ ret' \in {0, 1} /\ call' = [call EXCEPT !.pc = "idle"]
      /\ nextJobID' = nextJobID /\ jobReady' = jobReady /\ frames' = frames /\ frame' = frame
      /\ inPos' = inPos /\ inBuff' = inBuff
      /\ doneJobID' = doneJobID \/ (doneJobID' = doneJobID + 1 /\ doneJobID < nextJobID)
  BY DEF Flushes
<1>4. InFrame /\ ret = None
  BY <1>1, <1>3 DEF InFrame, ControlInv, CallInv
<1>5. LastID' = LastID /\ LastID \in {nextJobID, nextJobID - 1}
  BY <1>3, <1>4 DEF LastID, Ready, None, Error
<1>6. LastID \in Int /\ LastID <= nextJobID /\ doneJobID' <= nextJobID
  BY <1>2, <1>3, <1>5
<1>7. call' \in CallType /\ call'.pc = "idle" /\ call'.op = call.op /\ call'.end = call.end
  BY <1>2, <1>3 DEF CallType
<1>8. InFrame'
  BY <1>3, <1>7 DEF InFrame, Error
<1>9. /\ Section' = Section /\ FrameLen' = FrameLen /\ Sync' = Sync /\ Units' = Units
      /\ Cut' = Cut /\ Room' = Room /\ \A k : Unit(k)' = Unit(k)
  BY <1>3 DEF Section, FrameLen, Sync, Units, Cut, Room, Unit
<1>10. /\ Ids \subseteq Nat
       /\ \A i \in Ids' : i \in Ids /\ (i = doneJobID => doneJobID' = doneJobID)
       /\ \A i \in Ids : i \in Ids' \/ (i = doneJobID /\ doneJobID' = doneJobID + 1)
  <2>1. Ids = doneJobID .. LastID /\ Ids' = doneJobID' .. LastID
    BY <1>5 DEF Ids
  <2>2. CASE doneJobID' = doneJobID
    BY <1>2, <1>6, <2>1, <2>2
  <2>3. CASE doneJobID' = doneJobID + 1
    BY <1>2, <1>6, <2>1, <2>3
  <2> QED
    BY <1>3, <2>2, <2>3
<1>11. PICK b \in Nat : b = doneJobID
  BY <1>2
<1>12. /\ TableLen' = TableLen /\ DOMAIN jobs' = DOMAIN jobs
       /\ \E size \in TableSizes : jobs' \in [0 .. size - 1 -> JobType]
       /\ J(b)' = r
       /\ \A i \in Nat : i < b + TableLen /\ b < i + TableLen /\ i # b => J(i)' = J(i)
  <2>1. jobs' = [jobs EXCEPT ![Slot(b)] = r] /\ r \in JobType
    BY <1>3, <1>11
  <2> QED
    BY <1>1, <2>1, JobWritten
<1>13. \A i : Slot(i)' = Slot(i)
  BY <1>12 DEF Slot, TableLen
<1>14. /\ Slot(doneJobID) \in DOMAIN jobs /\ jobs'[Slot(doneJobID)] = r
       /\ jobs[Slot(doneJobID)] = Oldest
  BY <1>1, <1>2, <1>3, TableShape DEF Oldest
<1>15. \A s \in DOMAIN jobs : /\ SameWork(jobs'[s], jobs[s])
                              /\ s # Slot(doneJobID) => jobs'[s] = jobs[s]
  <2> SUFFICES ASSUME NEW s \in DOMAIN jobs
               PROVE  SameWork(jobs'[s], jobs[s]) /\ (s # Slot(doneJobID) => jobs'[s] = jobs[s])
    OBVIOUS
  <2>1. CASE s = Slot(doneJobID)
    BY <1>3, <1>14, <2>1
  <2>2. CASE s # Slot(doneJobID)
    <3>1. jobs'[s] = jobs[s]
      BY <1>3, <2>2
    <3> QED
      BY <2>2, <3>1 DEF SameWork
  <2> QED
    BY <2>1, <2>2
<1>16. \A i \in Nat : SameWork(J(i)', J(i))
  <2>1. \A i \in Nat : Slot(i) \in DOMAIN jobs
    BY <1>1, TableShape
  <2>2. \A i : J(i)' = jobs'[Slot(i)]
    BY <1>13 DEF J
  <2> QED
    BY <1>15, <2>1, <2>2 DEF J
<1>17. ASSUME NEW i \in Ids, i # doneJobID
       PROVE  J(i)' = J(i)
  <2>1. LastID < doneJobID + TableLen /\ TableLen \in Nat
    BY <1>1, TableShape DEF ControlInv, TableLen
  <2>2. i \in Nat /\ doneJobID <= i /\ i <= LastID
    BY <1>2, <1>6, <1>10 DEF Ids
  <2>3. i < b + TableLen /\ b < i + TableLen /\ i # b
    BY <1>2, <1>6, <1>11, <1>17, <2>1, <2>2
  <2> QED
    BY <1>12, <2>2, <2>3
<1>18. \A i : i = doneJobID => J(i)' = r /\ J(i) = Oldest
  BY <1>11, <1>12, <1>14 DEF J
<1>19. doneJobID' \in {doneJobID, doneJobID + 1}
  BY <1>3
<1> QED
  BY <1>2, <1>4, <1>5, <1>6, <1>7, <1>8, <1>9, <1>10, <1>12, <1>13, <1>14, <1>15, <1>16, <1>17,
     <1>18, <1>19

\* The workers do not notice it.
LEMMA FlushedWorkers ==
  ASSUME MTInv, NEW r, Flushes(r)
  PROVE  WorkerInv'
<1>1. Types /\ JobTypes /\ WorkerInv
  BY DEF MTInv, Types
<1>2. UNCHANGED <<queue, queueEmpty, threadCapacity, thread, running, job, serial, nextJobID>>
  BY DEF Flushes
<1>3. /\ doneJobID \in Nat /\ nextJobID \in Nat
      /\ DOMAIN jobs' = DOMAIN jobs /\ \A i : Slot(i)' = Slot(i)
      /\ jobs'[Slot(doneJobID)] = r /\ jobs[Slot(doneJobID)] = Oldest
      /\ \A s \in DOMAIN jobs : /\ SameWork(jobs'[s], jobs[s])
                                /\ s # Slot(doneJobID) => jobs'[s] = jobs[s]
  BY FlushedTerms
<1>4. /\ Active(Oldest) => r.cSize = Oldest.cSize /\ r.dst = Oldest.dst
      /\ doneJobID' = doneJobID \/ (doneJobID' = doneJobID + 1 /\ ~Active(Oldest))
  BY DEF Flushes
<1>5. ASSUME NEW s, Owned(s)
      PROVE  /\ Owned(s)' /\ (Pristine(jobs[s]) => Pristine(jobs'[s]))
             /\ jobs'[s].jobID = jobs[s].jobID /\ jobs'[s].cSize = jobs[s].cSize
             /\ jobs'[s].dst = jobs[s].dst /\ jobs'[s].consumed = jobs[s].consumed
             /\ jobs'[s].src = jobs[s].src
  <2>1. /\ s \in DOMAIN jobs /\ Posted(jobs[s].jobID) /\ s = Slot(jobs[s].jobID)
        /\ Active(jobs[s])
    BY <1>5 DEF Owned
  <2>2. PICK i \in Nat : i = jobs[s].jobID
    BY <1>1, <2>1, TableShape DEF JobType
  <2>3. SameWork(jobs'[s], jobs[s])
    BY <1>3, <2>1
  <2>4. jobs'[s].jobID = i /\ Active(jobs'[s])
    BY <2>1, <2>2, <2>3 DEF SameWork, Active
  <2>5. jobs'[s].cSize = jobs[s].cSize /\ jobs'[s].dst = jobs[s].dst
    BY <1>3, <1>4, <2>1
  <2>6. doneJobID' <= i
    <3>1. doneJobID <= i
      BY <2>1, <2>2 DEF Posted
    <3>2. i = doneJobID => doneJobID' = doneJobID
      BY <1>3, <1>4, <2>1, <2>2
    <3> QED
      BY <1>3, <1>4, <3>1, <3>2
  <2>7. Posted(i)'
    BY <1>2, <2>1, <2>2, <2>6 DEF Posted
  <2>8. Posted(jobs[s].jobID)' /\ s = Slot(jobs[s].jobID)'
    BY <1>3, <2>1, <2>2, <2>4, <2>7 DEF Posted, Slot
  <2>9. Owned(s)'
    BY <1>3, <2>1, <2>4, <2>8 DEF Owned, Active
  <2> QED
    BY <2>3, <2>5, <2>9 DEF SameWork, Pristine
<1>6. \A t : Busy(t)' = Busy(t) /\ Mine(t)' = Mine(t)
  BY <1>2 DEF Busy, Mine
<1>7. ASSUME NEW t \in 1 .. MaxThreads, Busy(t)
      PROVE  running'[t] > 0 /\ Owned(Mine(t))' /\ Stage(job[t], MyJob(t))'
  <2>1. running[t] > 0 /\ Owned(Mine(t)) /\ Stage(job[t], MyJob(t))
    BY <1>1, <1>7 DEF WorkerInv
  <2>2. PICK s : s = Mine(t)
    OBVIOUS
  <2>3. s = Mine(t)' /\ Owned(s)
    BY <1>6, <2>1, <2>2
  <2>4. /\ Owned(s)'
        /\ jobs'[s].jobID = jobs[s].jobID /\ jobs'[s].cSize = jobs[s].cSize
        /\ jobs'[s].dst = jobs[s].dst /\ jobs'[s].consumed = jobs[s].consumed
        /\ jobs'[s].src = jobs[s].src
    BY <1>5, <2>3
  <2>5. Owned(Mine(t))'
    BY <2>3, <2>4 DEF Owned
  <2>6. Stage(job[t], MyJob(t))'
    BY <1>2, <2>1, <2>2, <2>3, <2>4 DEF Stage, MyJob, Pristine
  <2> QED
    BY <1>2, <2>1, <2>5, <2>6
<1>8. ~queueEmpty' => /\ queue'[0] > 0 /\ Owned(queue[0] - 1)' /\ Pristine(jobs[queue[0] - 1])'
                      /\ \A t \in 1 .. MaxThreads : Busy(t)' => running'[t] # queue'[0]
  <2> SUFFICES ASSUME ~queueEmpty
               PROVE  /\ queue'[0] > 0 /\ Owned(queue[0] - 1)' /\ Pristine(jobs[queue[0] - 1])'
                      /\ \A t \in 1 .. MaxThreads : Busy(t)' => running'[t] # queue'[0]
    BY <1>2
  <2>1. /\ queue[0] > 0 /\ Owned(queue[0] - 1) /\ Pristine(jobs[queue[0] - 1])
        /\ \A t \in 1 .. MaxThreads : Busy(t) => running[t] # queue[0]
    BY <1>1 DEF WorkerInv
  <2>2. PICK s : s = queue[0] - 1
    OBVIOUS
  <2>3. Owned(s)' /\ Pristine(jobs'[s]) /\ s = queue'[0] - 1
    BY <1>2, <1>5, <2>1, <2>2
  <2>4. Owned(queue[0] - 1)' /\ Pristine(jobs[queue[0] - 1])'
    BY <2>3 DEF Owned, Pristine
  <2> QED
    BY <1>2, <1>6, <2>1, <2>4
<1>9. \A t \in 1 .. MaxThreads :
        /\ thread'[t] = "run" <=> job'[t] # "none"
        /\ thread'[t] # "none" => t <= threadCapacity'
        /\ Busy(t)' => running'[t] > 0 /\ Owned(Mine(t))' /\ Stage(job[t], MyJob(t))'
  BY <1>1, <1>2, <1>6, <1>7 DEF WorkerInv
<1>10. \A t, u \in 1 .. MaxThreads : Busy(t)' /\ Busy(u)' /\ t # u => running'[t] # running'[u]
  BY <1>1, <1>2, <1>6 DEF WorkerInv
<1> QED
  BY <1>8, <1>9, <1>10 DEF WorkerInv


\* The turns of the serial state are where they were.
LEMMA FlushedSerial ==
  ASSUME MTInv, NEW r, Flushes(r)
  PROVE  SerialInv'
<1>1. Types /\ PoolTypes /\ JobTypes /\ ControlInv /\ SerialInv /\ WorkerInv /\ JobsInv
  BY DEF MTInv, Types
<1>2. /\ UNCHANGED <<queue, queueEmpty, thread, running, job, serial, nextJobID, frameEnded>>
      /\ Oldest.cSize # Error
      /\ doneJobID' = doneJobID
         \/ (doneJobID' = doneJobID + 1 /\ doneJobID <= LastID /\ ~Active(Oldest))
  BY DEF Flushes
<1>3. /\ InFrame /\ InFrame' /\ LastID' = LastID /\ LastID \in Int
      /\ doneJobID \in Nat /\ nextJobID \in Nat /\ Ids \subseteq Nat
      /\ \A i \in Ids' : i \in Ids /\ (i = doneJobID => doneJobID' = doneJobID)
      /\ \A i \in Ids : i \in Ids' \/ (i = doneJobID /\ doneJobID' = doneJobID + 1)
      /\ \A s \in DOMAIN jobs : SameWork(jobs'[s], jobs[s])
      /\ \A i \in Nat : SameWork(J(i)', J(i))
      /\ \A i \in Ids : i # doneJobID => J(i)' = J(i)
      /\ \A i : i = doneJobID => J(i)' = r /\ J(i) = Oldest
      /\ Cut' = Cut
  BY FlushedTerms
<1>4. serial.nextJobID \in Nat
  BY <1>1, Scalars
<1>5. ASSUME NEW i \in Ids', J(i)'.src.size > 0, ~Active(J(i))', J(i)'.cSize # Error
      PROVE  i < serial'.nextJobID
  <2>1. i \in Ids /\ SameWork(J(i)', J(i))
    BY <1>3
  <2>2. J(i).src.size > 0 /\ ~Active(J(i))
    BY <1>5, <2>1 DEF SameWork, Active
  <2>3. J(i).cSize # Error
    BY <1>2, <1>3, <1>5, <2>1
  <2> QED
    BY <1>1, <1>2, <2>1, <2>2, <2>3 DEF SerialInv
<1> SUFFICES ASSUME ~Broken', ~(frameEnded' /\ doneJobID' > LastID')
             PROVE  /\ doneJobID' <= serial'.nextJobID /\ serial'.nextJobID <= nextJobID'
                    /\ Checksum => serial'.hashed = CutAt(serial.nextJobID)'
                    /\ \A t \in 1 .. MaxThreads :
                         thread'[t] = "run" /\ job'[t] \in {"resources", "serial"} =>
                           MyJob(t)'.jobID >= serial'.nextJobID
                    /\ ~queueEmpty' => jobs'[queue'[0] - 1].jobID >= serial'.nextJobID
  BY <1>5 DEF SerialInv
<1>6. ~Broken
  <2> SUFFICES ASSUME NEW k \in Ids, J(k).cSize = Error, k < serial.nextJobID
               PROVE  FALSE
    BY DEF Broken
  <2>1. k # doneJobID
    BY <1>2, <1>3
  <2>2. k \in Ids' /\ J(k)' = J(k) /\ serial' = serial
    BY <1>2, <1>3, <2>1
  <2> QED
    BY <2>2 DEF Broken
<1>7. ~(frameEnded /\ doneJobID > LastID)
  BY <1>2, <1>3
<1>8. /\ doneJobID <= serial.nextJobID /\ serial.nextJobID <= nextJobID
      /\ Checksum => serial.hashed = CutAt(serial.nextJobID)
      /\ \A t \in 1 .. MaxThreads :
            thread[t] = "run" /\ job[t] \in {"resources", "serial"} =>
              MyJob(t).jobID >= serial.nextJobID
      /\ ~queueEmpty => jobs[queue[0] - 1].jobID >= serial.nextJobID
  BY <1>1, <1>3, <1>6, <1>7 DEF SerialInv
<1>9. CutAt(serial.nextJobID)' = CutAt(serial.nextJobID)
  <2>1. PICK n \in Nat : n = serial.nextJobID
    BY <1>4
  <2>2. J(n)'.at = J(n).at
    BY <1>3 DEF SameWork
  <2>3. CutAt(n)' = CutAt(n)
    BY <1>3, <2>2 DEF CutAt
  <2>4. CutAt(serial.nextJobID)' = CutAt(n)'
    BY <1>2, <2>1 DEF CutAt, J, Slot
  <2> QED
    BY <2>1, <2>3, <2>4
<1>10. doneJobID' <= serial'.nextJobID
  <2>1. CASE doneJobID' = doneJobID
    BY <1>2, <1>8, <2>1
  <2>2. CASE doneJobID' = doneJobID + 1 /\ doneJobID <= LastID /\ ~Active(Oldest)
    <3>1. PICK d \in Nat : d = doneJobID
      BY <1>3
    <3>2. d \in Ids /\ J(d) = Oldest
      BY <1>3, <2>2, <3>1 DEF Ids
    <3>3. J(d).src.size \in Nat
      BY <1>1, <3>1, TableShape DEF JobType, RangeType
    <3>4. J(d).src.size # 0
      <4> SUFFICES ASSUME J(d).src.size = 0
                   PROVE  FALSE
        OBVIOUS
      <4>1. d = LastID /\ frameEnded
        BY <1>1, <3>2 DEF JobsInv
      <4> QED
        BY <1>2, <1>3, <2>2, <3>1, <4>1
    <3>5. d < serial.nextJobID
      BY <1>1, <1>2, <2>2, <3>2, <3>3, <3>4 DEF SerialInv
    <3> QED
      BY <1>2, <1>3, <1>4, <2>2, <3>1, <3>5
  <2> QED
    BY <1>2, <2>1, <2>2
<1>11. ASSUME NEW t \in 1 .. MaxThreads, thread'[t] = "run", job'[t] \in {"resources", "serial"}
       PROVE  MyJob(t)'.jobID >= serial'.nextJobID
  <2>1. thread[t] = "run" /\ job[t] \in {"resources", "serial"}
    BY <1>2, <1>11
  <2>2. Mine(t) \in DOMAIN jobs /\ Mine(t)' = Mine(t)
    BY <1>1, <1>2, <2>1 DEF WorkerInv, Busy, Owned, Mine
  <2>3. MyJob(t)'.jobID = MyJob(t).jobID
    BY <1>3, <2>2 DEF MyJob, SameWork
  <2> QED
    BY <1>2, <1>8, <2>1, <2>3
<1>12. ASSUME ~queueEmpty'
       PROVE  jobs'[queue'[0] - 1].jobID >= serial'.nextJobID
  <2>1. queue[0] - 1 \in DOMAIN jobs
    BY <1>1, <1>2, <1>12 DEF WorkerInv, Owned
  <2>2. jobs'[queue[0] - 1].jobID = jobs[queue[0] - 1].jobID
    BY <1>3, <2>1 DEF SameWork
  <2> QED
    BY <1>2, <1>8, <1>12, <2>2
<1> QED
  BY <1>2, <1>8, <1>9, <1>10, <1>11, <1>12

\* The jobs that are left hold the rest of the output.
LEMMA FlushedJobs ==
  ASSUME MTInv, NEW r, Flushes(r)
  PROVE  JobsInv'
<1>1. JobsInv
  BY DEF MTInv
<1>2. /\ UNCHANGED <<nextJobID, frameEnded, fails>>
      /\ Oldest.cSize # Error /\ SameWork(r, Oldest) /\ r.cSize # Error
      /\ Active(Oldest) => r.cSize = Oldest.cSize /\ r.dst = Oldest.dst /\ r.sum = Oldest.sum
      /\ doneJobID' = doneJobID =>
           /\ doneJobID <= LastID => OutputInv(r) /\ (r.sum => Oldest.sum)
           /\ doneJobID = nextJobID => r = Oldest
  <2>1. doneJobID \in Nat
    BY FlushedTerms
  <2>2. doneJobID' = doneJobID => doneJobID' # doneJobID + 1
    BY <2>1
  <2> QED
    BY <2>2 DEF Flushes
<1>3. /\ LastID' = LastID /\ LastID \in Int /\ Ids \subseteq Nat
      /\ \A i \in Ids' : i \in Ids /\ (i = doneJobID => doneJobID' = doneJobID)
      /\ \A i \in Nat : SameWork(J(i)', J(i))
      /\ \A i \in Ids : i # doneJobID => J(i)' = J(i)
      /\ \A i : i = doneJobID => J(i)' = r /\ J(i) = Oldest
      /\ Cut' = Cut /\ FrameLen' = FrameLen /\ Units' = Units /\ \A k : Unit(k)' = Unit(k)
  BY FlushedTerms
<1>4. \A j : OutputInv(j)' <=> OutputInv(j)
  BY <1>3 DEF OutputInv
<1>5. ASSUME NEW i \in Ids'
      PROVE  /\ J(i)'.jobID = i /\ J(i)'.consumed <= J(i)'.src.size
             /\ i = 0 => J(i)'.at = 0
             /\ J(i)'.at + J(i)'.src.size <= Cut'
             /\ J(i)'.at + J(i)'.src.size = IF i = LastID' THEN Cut' ELSE J(i + 1)'.at
             /\ J(i)'.last <=> i = LastID' /\ frameEnded'
             /\ J(i)'.last => J(i)'.at + J(i)'.src.size = FrameLen'
             /\ J(i)'.src.size = 0 => i > 0 /\ J(i)'.last
  <2>1. i \in Ids /\ i \in Nat /\ i + 1 \in Nat
    <3>1. i \in Ids /\ i \in Nat
      BY <1>3
    <3> QED
      BY <3>1
  <2>2. SameWork(J(i)', J(i)) /\ SameWork(J(i + 1)', J(i + 1))
    BY <1>3, <2>1
  <2> QED
    BY <1>1, <1>2, <1>3, <2>1, <2>2 DEF SameWork, JobsInv
<1>6. ASSUME NEW i \in Ids'
      PROVE  /\ J(i)'.sum => J(i)'.last /\ Checksum /\ i > 0
             /\ Active(J(i))' /\ J(i)'.last /\ Checksum /\ i > 0 => J(i)'.sum
             /\ J(i)'.cSize # Error => OutputInv(J(i))'
             /\ J(i)'.cSize = Error => fails' > 0
             /\ i = nextJobID' => Active(J(i))' /\ Pristine(J(i))' /\ J(i)'.flushed = 0
  <2>1. i \in Ids /\ i \in Nat
    BY <1>3
  <2>2. CASE i # doneJobID
    <3>1. J(i)' = J(i)
      BY <1>3, <2>1, <2>2
    <3>2. OutputInv(J(i))' <=> OutputInv(J(i))
      BY <1>3, <3>1 DEF OutputInv
    <3> QED
      BY <1>1, <1>2, <2>1, <3>1, <3>2 DEF JobsInv, Active, Pristine
  <2>3. CASE i = doneJobID
    <3>1. J(i)' = r /\ J(i) = Oldest /\ doneJobID' = doneJobID /\ doneJobID <= LastID
      BY <1>3, <2>1, <2>3 DEF Ids
    <3>2. OutputInv(r) /\ (r.sum => Oldest.sum) /\ (i = nextJobID => r = Oldest)
      BY <1>2, <2>3, <3>1
    <3>3. OutputInv(J(i))'
      BY <1>3, <3>1, <3>2 DEF OutputInv
    <3>4. Active(r) <=> Active(Oldest)
      BY <1>2 DEF SameWork, Active
    <3>5. r.last = J(i).last
      BY <1>2, <3>1 DEF SameWork
    <3>6. J(i)'.sum => J(i)'.last /\ Checksum /\ i > 0
      BY <1>1, <2>1, <3>1, <3>2, <3>5 DEF JobsInv
    <3>7. Active(J(i))' /\ J(i)'.last /\ Checksum /\ i > 0 => J(i)'.sum
      <4>1. Active(J(i))' => Active(J(i)) /\ r.sum = J(i).sum
        BY <1>2, <3>1, <3>4 DEF Active
      <4> QED
        BY <1>1, <2>1, <3>1, <3>5, <4>1 DEF JobsInv
    <3>8. i = nextJobID' => Active(J(i))' /\ Pristine(J(i))' /\ J(i)'.flushed = 0
      BY <1>1, <1>2, <2>1, <3>1, <3>2 DEF JobsInv, Active, Pristine
    <3> QED
      BY <1>2, <3>1, <3>3, <3>6, <3>7, <3>8
  <2> QED
    BY <2>2, <2>3
<1> QED
  BY <1>5, <1>6 DEF JobsInv

\* What is read in the round buffer, and the window, stay.
LEMMA FlushedRing ==
  ASSUME MTInv, NEW r, Flushes(r)
  PROVE  RingInv' /\ WindowInv'
<1>1. Types /\ RingInv /\ WindowInv
  BY DEF MTInv
<1>2. /\ UNCHANGED <<inBuff, roundBuff, mem, inPos, nextJobID, serial, fails, frameEnded>>
      /\ doneJobID' = doneJobID \/ doneJobID' = doneJobID + 1
  BY DEF Flushes
<1>3. /\ InFrame /\ InFrame' /\ LastID' = LastID /\ LastID \in Int /\ Ids \subseteq Nat
      /\ doneJobID \in Nat
      /\ \A i \in Ids' : i \in Ids
      /\ \A i \in Nat : SameWork(J(i)', J(i))
      /\ Section' = Section /\ Cut' = Cut /\ Room' = Room /\ call'.pc = "idle"
  BY FlushedTerms
<1>4. \A i \in Ids' : /\ i \in Ids /\ Active(J(i))' = Active(J(i))
                      /\ Placed(J(i))' = Placed(J(i))
                      /\ Lo(J(i))' = Lo(J(i)) /\ ThisLap(J(i))' = ThisLap(J(i))
                      /\ LastLap(J(i))' = LastLap(J(i))
  <2> SUFFICES ASSUME NEW i \in Ids'
               PROVE  /\ i \in Ids /\ Active(J(i))' = Active(J(i))
                      /\ Placed(J(i))' = Placed(J(i))
                      /\ Lo(J(i))' = Lo(J(i)) /\ ThisLap(J(i))' = ThisLap(J(i))
                      /\ LastLap(J(i))' = LastLap(J(i))
    OBVIOUS
  <2>1. SameWork(J(i)', J(i)) /\ i \in Ids
    BY <1>3
  <2>2. /\ J(i)'.consumed = J(i).consumed /\ J(i)'.src = J(i).src
        /\ J(i)'.prefix = J(i).prefix /\ J(i)'.at = J(i).at
    BY <2>1 DEF SameWork
  <2>3. Lo(J(i))' = Lo(J(i)) /\ Hi(J(i))' = Hi(J(i)) /\ Active(J(i))' = Active(J(i))
    BY <2>2 DEF Lo, Hi, Active
  <2>4. Placed(J(i))' = Placed(J(i))
    BY <1>2, <1>3, <2>2, <2>3 DEF Placed
  <2> QED
    BY <1>2, <1>3, <2>1, <2>3, <2>4 DEF ThisLap, LastLap
<1>5. LapsInv /\ InBuffInv /\ \A i \in Ids : Active(J(i)) => Placed(J(i))
  BY <1>1, <1>3 DEF RingInv
<1>6. LapsInv'
  BY <1>2, <1>4, <1>5 DEF LapsInv
<1>7. FirstLap => FirstLap'
  BY <1>2, <1>3, <1>4 DEF FirstLap
<1>8. InBuffInv'
  BY <1>2, <1>3, <1>5, <1>7 DEF InBuffInv
<1>9. RangeInv'
  BY <1>3 DEF RangeInv
<1>10. RingInv'
  BY <1>4, <1>5, <1>6, <1>8, <1>9 DEF RingInv
<1>11. CutAt(serial.nextJobID)' = CutAt(serial.nextJobID)
  <2>1. PICK n \in Nat : n = serial.nextJobID
    BY <1>1, Scalars
  <2>2. J(n)'.at = J(n).at
    BY <1>3 DEF SameWork
  <2>3. CutAt(n)' = CutAt(n)
    BY <1>3, <2>2 DEF CutAt
  <2>4. CutAt(serial.nextJobID)' = CutAt(n)'
    BY <1>2, <2>1 DEF CutAt, J, Slot
  <2> QED
    BY <2>1, <2>3, <2>4
<1>12. ~(frameEnded' /\ doneJobID' > LastID') => ~(frameEnded /\ doneJobID > LastID)
  BY <1>2, <1>3
<1>13. WindowInv'
  BY <1>1, <1>2, <1>3, <1>11, <1>12 DEF WindowInv
<1> QED
  BY <1>10, <1>13


\* Where jobs are cut stays, and an emptied place holds nothing to flush.
LEMMA FlushedPlaces ==
  ASSUME MTInv, NEW r, Flushes(r)
  PROVE  CutsInv' /\ StaleInv'
<1>1. Types /\ JobTypes /\ JobsInv /\ CutsInv /\ StaleInv /\ ControlInv
  BY DEF MTInv, Types
<1>2. /\ UNCHANGED <<inBuff, inPos, nextJobID, frames, frame>>
      /\ call.pc = "flush" /\ r \in JobType /\ SameWork(r, Oldest)
      /\ doneJobID > LastID => r = Oldest
      /\ doneJobID' = doneJobID \/ (doneJobID' = doneJobID + 1 /\ Stale(r))
  BY DEF Flushes
<1>3. /\ InFrame /\ InFrame' /\ LastID' = LastID /\ LastID \in Int
      /\ doneJobID \in Nat /\ nextJobID \in Nat
      /\ \A i \in Ids : i \in Ids' \/ (i = doneJobID /\ doneJobID' = doneJobID + 1)
      /\ DOMAIN jobs' = DOMAIN jobs /\ TableLen' = TableLen /\ \A i : Slot(i)' = Slot(i)
      /\ Slot(doneJobID) \in DOMAIN jobs /\ jobs'[Slot(doneJobID)] = r
      /\ jobs[Slot(doneJobID)] = Oldest
      /\ \A s \in DOMAIN jobs : /\ SameWork(jobs'[s], jobs[s])
                                /\ s # Slot(doneJobID) => jobs'[s] = jobs[s]
      /\ \A i : i = doneJobID => J(i)' = r /\ J(i) = Oldest
      /\ Section' = Section /\ Sync' = Sync /\ Cut' = Cut /\ call'.pc = "idle"
  BY FlushedTerms
<1>4. doneJobID <= LastID => Oldest # NullJob
  <2> SUFFICES ASSUME doneJobID <= LastID, Oldest = NullJob
               PROVE  FALSE
    OBVIOUS
  <2>1. PICK d \in Nat : d = doneJobID
    BY <1>3
  <2>2. d \in Ids /\ J(d) = NullJob
    BY <1>3, <2>1 DEF Ids
  <2>3. NullJob.src.size = 0 /\ NullJob.jobID = 0
    BY DEF NullJob, NullRange
  <2> QED
    BY <1>1, <2>2, <2>3 DEF JobsInv
<1>5. CutsInv'
  <2> SUFFICES ASSUME Sync # {}, "flush" \notin frames[frame].ops
               PROVE  CutsInv'
    BY <1>2, <1>3 DEF CutsInv
  <2>1. /\ \A i \in Larger(0, nextJobID - TableLen) .. LastID : J(i) = NullJob \/ CutWell(J(i))
        /\ Sync \cap (Cut + RsyncMin + 1 .. inPos - 1) = {}
    BY <1>1, <1>2, <1>3 DEF CutsInv, TableLen
  <2>2. ASSUME NEW i \in Larger(0, nextJobID' - TableLen') .. LastID'
        PROVE  J(i)' = NullJob \/ CutWell(J(i))'
    <3>1. i \in Larger(0, nextJobID - TableLen) .. LastID
      BY <1>2, <1>3
    <3>2. i \in Nat
      BY <1>1, <1>3, <3>1, TableShape DEF Larger
    <3>3. Slot(i) \in DOMAIN jobs /\ J(i)' = jobs'[Slot(i)] /\ J(i) = jobs[Slot(i)]
      BY <1>1, <1>3, <3>2, TableShape DEF J
    <3>4. SameWork(J(i)', J(i))
      BY <1>3, <3>3
    <3>5. CutWell(J(i)) => CutWell(J(i))'
      BY <1>3, <3>4 DEF CutWell, SameWork
    <3>6. J(i)' = J(i) \/ J(i) # NullJob
      <4>1. CASE Slot(i) # Slot(doneJobID)
        BY <1>3, <3>3, <4>1
      <4>2. CASE Slot(i) = Slot(doneJobID)
        <5>1. J(i)' = r /\ J(i) = Oldest
          BY <1>3, <3>3, <4>2
        <5>2. doneJobID <= LastID \/ doneJobID > LastID
          BY <1>3
        <5> QED
          BY <1>2, <1>4, <5>1, <5>2
      <4> QED
        BY <4>1, <4>2
    <3> QED
      BY <2>1, <3>1, <3>5, <3>6
  <2>3. Sync' \cap (Cut' + RsyncMin + 1 .. inPos' - 1) = {}
    BY <1>2, <1>3, <2>1
  <2> QED
    BY <1>3, <2>2, <2>3 DEF CutsInv, TableLen
<1>6. StaleInv'
  <2> SUFFICES ASSUME NEW s \in DOMAIN jobs, \A i \in Ids' : Slot(i)' # s
               PROVE  Stale(jobs[s])'
    BY <1>3 DEF StaleInv
  <2>1. CASE s # Slot(doneJobID)
    <3>1. \A i \in Ids : Slot(i) # s
      BY <1>3, <2>1
    <3>2. jobs'[s] = jobs[s] /\ Stale(jobs[s])
      BY <1>1, <1>2, <1>3, <2>1, <3>1 DEF StaleInv
    <3> QED
      BY <3>2 DEF Stale
  <2>2. CASE s = Slot(doneJobID)
    <3>1. jobs'[s] = r
      BY <1>3, <2>2
    <3>2. Stale(r)
      <4>1. CASE doneJobID' = doneJobID + 1
        BY <1>2, <1>3, <4>1
      <4>2. CASE doneJobID' = doneJobID
        <5>1. PICK d \in Nat : d = doneJobID
          BY <1>3
        <5>2. d \notin Ids'
          BY <1>3, <2>2, <5>1
        <5>3. doneJobID > LastID
          BY <1>3, <4>2, <5>1, <5>2 DEF Ids
        <5>4. \A i \in Ids : Slot(i) # s
          BY <1>3, <5>3 DEF Ids
        <5>5. Stale(Oldest)
          BY <1>1, <1>2, <1>3, <2>2, <5>4 DEF StaleInv
        <5> QED
          BY <1>2, <5>3, <5>5
      <4> QED
        BY <1>2, <4>1, <4>2
    <3> QED
      BY <3>1, <3>2 DEF Stale
  <2> QED
    BY <2>1, <2>2
<1> QED
  BY <1>5, <1>6

\* Everything but the order of the output, after ZSTDMT_flushProduced.
LEMMA FlushedStep ==
  ASSUME MTInv, NEW r, Flushes(r), delivered' \in Seq(Int), DeliveryInv'
  PROVE  MTInv'
<1>1. Types /\ PoolTypes /\ JobTypes /\ InputTypes /\ ControlInv /\ CallInv
  BY DEF MTInv, Types
<1>2. /\ call.pc = "flush" /\ ret' \in {0, 1} /\ allJobsCompleted' \in BOOLEAN
      /\ ret' = 0 => /\ doneJobID' = nextJobID /\ ~jobReady /\ inBuff.filled = 0
                     /\ call.op = "end" => frameEnded /\ allJobsCompleted'
      /\ UNCHANGED <<queue, queueHead, queueTail, queueEmpty, threadCapacity, shutdown, thread,
                 running, client, serial, job, fails, inBuff, roundBuff, mem, inPos, nextJobID,
                 jobReady, frameEnded, sumFlag, nbWorkers, frames, frame>>
  BY DEF Flushes
<1>3. /\ InFrame /\ InFrame' /\ LastID' = LastID /\ LastID \in Int
      /\ doneJobID \in Nat /\ nextJobID \in Nat
      /\ doneJobID' \in {doneJobID, doneJobID + 1} /\ doneJobID' <= nextJobID
      /\ TableLen' = TableLen
      /\ \E size \in TableSizes : jobs' \in [0 .. size - 1 -> JobType]
      /\ FrameLen' = FrameLen /\ Cut' = Cut
      /\ call' \in CallType /\ call'.pc = "idle" /\ call'.op = call.op
  BY FlushedTerms
<1>4. Types'
  <2>1. PoolTypes'
    BY <1>1, <1>2 DEF PoolTypes
  <2>2. doneJobID' \in Nat
    BY <1>3
  <2>3. JobTypes'
    BY <1>1, <1>2, <1>3, <2>2 DEF JobTypes
  <2>4. InputTypes'
    BY <1>1, <1>2, <1>3 DEF InputTypes
  <2> QED
    BY <2>1, <2>3, <2>4 DEF Types
<1>5. ControlInv'
  <2>1. doneJobID' <= nextJobID' /\ LastID' < doneJobID' + Cardinality(DOMAIN jobs')
    <3>1. LastID < doneJobID + TableLen /\ TableLen \in Nat
      BY <1>1, TableShape DEF ControlInv, TableLen
    <3>2. LastID' < doneJobID' + TableLen'
      BY <1>3, <3>1
    <3> QED
      BY <1>2, <1>3, <3>2 DEF TableLen
  <2> QED
    BY <1>1, <1>2, <1>3, <2>1 DEF ControlInv, Error
<1>6. CallInv'
  <2>1. /\ inBuff.start = None => inBuff.filled = 0
        /\ jobReady \/ frameEnded => inBuff.filled = 0
        /\ frameEnded => inPos = FrameLen
        /\ Cut >= 0 /\ (LastID < 0 <=> Cut = 0)
        /\ inPos > 0
        /\ ~frameEnded => sumFlag = Checksum
    BY <1>1, <1>2, <1>3 DEF CallInv
  <2> QED
    BY <1>2, <1>3, <2>1 DEF CallInv
<1>7. WorkerInv' /\ SerialInv' /\ JobsInv' /\ RingInv' /\ WindowInv' /\ CutsInv' /\ StaleInv'
  BY FlushedWorkers, FlushedSerial, FlushedJobs, FlushedRing, FlushedPlaces
<1> QED
  BY <1>4, <1>5, <1>6, <1>7 DEF MTInv


\* What is copied from the output of a job follows what was delivered before.
LEMMA Copied ==
  ASSUME NEW d \in Seq(Int), NEW s \in Seq(Int), NEW f \in Nat, NEW n \in Nat,
         n > 0 => f + n <= Len(s)
  PROVE  /\ d \o SubSeq(s, f + 1, f + n) \in Seq(Int)
         /\ Len(d \o SubSeq(s, f + 1, f + n)) = Len(d) + n
         /\ \A k \in 1 .. Len(d) : (d \o SubSeq(s, f + 1, f + n))[k] = d[k]
         /\ \A k \in Len(d) + 1 .. Len(d) + n :
              (d \o SubSeq(s, f + 1, f + n))[k] = s[f + (k - Len(d))]
<1>1. PICK part : part = SubSeq(s, f + 1, f + n)
  OBVIOUS
<1>2. part \in Seq(Int) /\ Len(part) = n /\ \A i \in 1 .. n : part[i] = s[f + i]
  <2>1. \A i \in f + 1 .. f + n : s[i] \in Int
    <3>1. \A i \in 1 .. Len(s) : s[i] \in Int
      OBVIOUS
    <3> QED
      BY <3>1
  <2>2. PICK a \in Int, b \in Int : a = f + 1 /\ b = f + n
    OBVIOUS
  <2>3. /\ SubSeq(s, a, b) \in Seq(Int)
        /\ Len(SubSeq(s, a, b)) = IF a <= b THEN b - a + 1 ELSE 0
        /\ \A i \in 1 .. b - a + 1 : SubSeq(s, a, b)[i] = s[a + i - 1]
    <3>1. \A i \in a .. b : s[i] \in Int
      BY <2>1, <2>2
    <3> QED
      BY <3>1, SubSeqProperties
  <2>4. part = SubSeq(s, a, b)
    BY <1>1, <2>2
  <2>5. part \in Seq(Int) /\ Len(part) = n
    <3>1. (IF a <= b THEN b - a + 1 ELSE 0) = n
      BY <2>2
    <3> QED
      BY <2>3, <2>4, <3>1
  <2>6. \A i \in 1 .. n : i \in 1 .. b - a + 1 /\ a + i - 1 = f + i
    BY <2>2
  <2>7. \A i \in 1 .. n : part[i] = s[f + i]
    BY <2>3, <2>4, <2>6
  <2> QED
    BY <2>5, <2>7
<1>3. PICK c : c = d \o part
  OBVIOUS
<1>4. /\ c \in Seq(Int) /\ Len(c) = Len(d) + Len(part)
      /\ \A i \in 1 .. Len(d) + Len(part) :
           c[i] = IF i <= Len(d) THEN d[i] ELSE part[i - Len(d)]
  BY <1>2, <1>3, ConcatProperties
<1>5. \A k \in 1 .. Len(d) : c[k] = d[k]
  <2> SUFFICES ASSUME NEW k \in 1 .. Len(d)
               PROVE  c[k] = d[k]
    OBVIOUS
  <2>1. PICK l \in Nat, m \in Nat : l = Len(d) /\ m = l + n
    OBVIOUS
  <2>2. k \in 1 .. m /\ k <= l
    BY <2>1
  <2>3. \A i \in 1 .. m : c[i] = IF i <= l THEN d[i] ELSE part[i - l]
    BY <1>2, <1>4, <2>1
  <2> QED
    BY <2>2, <2>3
<1>6. ASSUME NEW k \in Len(d) + 1 .. Len(d) + n
      PROVE  c[k] = s[f + (k - Len(d))]
  <2>1. PICK l \in Nat : l = Len(d)
    OBVIOUS
  <2>2. k \in 1 .. l + n /\ ~(k <= l) /\ k - l \in 1 .. n
    BY <1>6, <2>1
  <2>3. c[k] = part[k - l]
    BY <1>2, <1>4, <2>1, <2>2
  <2> QED
    BY <1>2, <2>1, <2>2, <2>3
<1> QED
  BY <1>1, <1>2, <1>3, <1>4, <1>5, <1>6

\* The checksum is written when all input was hashed: the job that carries it
\* then holds all of its output.
LEMMA ChecksumAdded ==
  ASSUME MTInv, call.pc = "flush", doneJobID <= LastID,
         NEW o, o = Oldest, o.cSize # Error, NEW j, j = Checksummed(o)
  PROVE  /\ j \in JobType /\ SameWork(j, o) /\ j.cSize # Error /\ j.flushed = o.flushed
         /\ OutputInv(j) /\ (j.sum => o.sum) /\ (Active(o) => j = o)
         /\ ~Active(o) => ~j.sum
<1>1. /\ Types /\ JobTypes /\ ControlInv /\ CallInv /\ JobsInv /\ SerialInv
  BY DEF MTInv, Types
<1>2. /\ doneJobID \in Nat /\ nextJobID \in Nat /\ serial.nextJobID \in Nat /\ FrameLen \in Nat
      /\ frameEnded \in BOOLEAN
  BY <1>1, Scalars
<1>3. PICK d \in Nat : d = doneJobID
  BY <1>2
<1>4. LastID \in Int /\ LastID \in {nextJobID, nextJobID - 1}
  BY <1>1, IdsHeld
<1>5. d \in Ids /\ J(d) = o /\ o \in JobType
  <2>1. d \in Ids
    BY <1>2, <1>3, <1>4 DEF Ids
  <2> QED
    BY <1>1, <1>3, <2>1, TableShape DEF J, Oldest
<1>6. /\ o.consumed \in Nat /\ o.cSize \in Nat /\ o.dst \in Seq(Int) /\ o.src.size \in Nat
      /\ o.at \in Nat /\ o.jobID \in Nat /\ o.last \in BOOLEAN /\ o.sum \in BOOLEAN
      /\ o.flushed \in Nat
  BY <1>5 DEF JobType, RangeType
<1>7. OutputInv(o) /\ o.consumed <= o.src.size
  BY <1>1, <1>5 DEF JobsInv
<1>8. CASE ~(Complete(o) /\ o.sum)
  <2>1. j = o
    BY <1>8 DEF Checksummed
  <2>2. ~Active(o) => ~j.sum
    <3>1. ~Active(o) => Complete(o)
      BY <1>6, <1>7 DEF Active, Complete
    <3> QED
      BY <1>8, <2>1, <3>1
  <2> QED
    BY <1>5, <1>7, <2>1, <2>2 DEF SameWork
<1>9. CASE Complete(o) /\ o.sum
  <2>1. o.consumed = o.src.size /\ ~Active(o)
    BY <1>6, <1>9 DEF Complete, Active
  <2>2. /\ o.last /\ Checksum /\ d > 0 /\ o.jobID = d /\ d = LastID /\ frameEnded
        /\ o.at + o.src.size = FrameLen /\ o.at + o.src.size = Cut
        /\ (o.src.size = 0 => o.at = FrameLen)
        /\ d # nextJobID
    <3>1. o.last /\ Checksum /\ d > 0 /\ o.jobID = d
      BY <1>1, <1>5, <1>9 DEF JobsInv
    <3>2. d = LastID /\ frameEnded /\ o.at + o.src.size = FrameLen
      BY <1>1, <1>5, <3>1 DEF JobsInv
    <3>3. o.at + o.src.size = Cut
      BY <1>1, <1>5, <3>2 DEF JobsInv
    <3>4. o.src.size = 0 => o.at = FrameLen
      BY <1>6, <3>2
    <3>5. d # nextJobID
      BY <1>1, <1>5, <2>1 DEF JobsInv
    <3> QED
      BY <3>1, <3>2, <3>3, <3>4, <3>5
  <2>3. nextJobID = d + 1
    BY <1>2, <1>4, <2>2
  <2>4. ~Broken
    <3>1. \A k \in Ids : k = d
      BY <1>2, <1>3, <2>2 DEF Ids
    <3>2. \A k \in Ids : J(k).cSize # Error
      BY <1>5, <3>1
    <3> QED
      BY <3>2 DEF Broken
  <2>5. InFrame /\ ~(doneJobID > LastID)
    <3>1. InFrame
      BY <1>1 DEF InFrame, ControlInv
    <3> QED
      BY <1>2, <1>3, <2>2, <3>1
  <2>6. /\ d <= serial.nextJobID /\ serial.nextJobID <= d + 1
        /\ serial.hashed = CutAt(serial.nextJobID)
    BY <1>1, <1>3, <2>2, <2>3, <2>4, <2>5 DEF SerialInv
  <2>7. serial.hashed = FrameLen
    <3>1. PICK n \in Nat : n = serial.nextJobID
      BY <1>2
    <3>2. CASE n = d + 1
      <4>1. ~(serial.nextJobID <= LastID)
        BY <2>2, <3>1, <3>2
      <4> QED
        BY <2>2, <2>6, <4>1 DEF CutAt
    <3>3. CASE n = d
      <4>1. CutAt(serial.nextJobID) = o.at
        <5>1. CutAt(n) = J(n).at
          BY <2>2, <3>3 DEF CutAt
        <5> QED
          BY <1>5, <3>1, <3>3, <5>1
      <4>2. o.src.size = 0
        <5>1. o.src.size > 0 => d < serial.nextJobID
          BY <1>1, <1>5, <2>1 DEF SerialInv
        <5> QED
          BY <1>6, <3>1, <3>3, <5>1
      <4> QED
        BY <2>2, <2>6, <4>1, <4>2
    <3> QED
      BY <2>6, <3>1, <3>2, <3>3
  <2>8. j = [o EXCEPT !.sum = FALSE, !.cSize = o.cSize + 1, !.dst = Append(o.dst, SumMark)]
    BY <1>9, <2>7 DEF Checksummed
  <2>9. PICK dst : dst = Append(o.dst, SumMark)
    OBVIOUS
  <2>10. /\ dst \in Seq(Int) /\ Len(dst) = Len(o.dst) + 1
         /\ \A i \in 1 .. Len(o.dst) : dst[i] = o.dst[i]
         /\ dst[Len(o.dst) + 1] = SumMark
    <3>1. SumMark \in Int
      BY DEF SumMark
    <3> QED
      BY <1>6, <2>9, <3>1, AppendProperties
  <2>11. j = [o EXCEPT !.sum = FALSE, !.cSize = o.cSize + 1, !.dst = dst]
    BY <2>8, <2>9
  <2>12. /\ j \in JobType
         /\ j.cSize = o.cSize + 1 /\ j.dst = dst /\ ~j.sum
         /\ j.consumed = o.consumed /\ j.src = o.src /\ j.prefix = o.prefix /\ j.at = o.at
         /\ j.jobID = o.jobID /\ j.last = o.last /\ j.flushed = o.flushed
    <3>1. o.cSize + 1 \in Nat
      BY <1>6
    <3> HIDE <1>7
    <3> QED
      BY <1>5, <2>10, <2>11, <3>1 DEF JobType
  <2>13. SameWork(j, o)
    BY <2>12 DEF SameWork
  <2>14. j.cSize # Error
    BY <1>6, <2>12 DEF Error
  <2>15. OutputInv(j)
    <3>1. /\ Len(o.dst) = o.cSize /\ o.cSize = Made(o) /\ o.flushed <= o.cSize
          /\ \A k \in 1 .. o.cSize : o.dst[k] = Unit(Begin(o) + k)
      BY <1>7, <2>1 DEF OutputInv
    <3>2. Hdr(o) = 0 /\ Hdr(j) = 0 /\ Begin(o) = o.at + 1 /\ Begin(j) = o.at + 1
      <4>1. d # 0
        BY <2>2
      <4>2. o.jobID # 0 /\ j.jobID # 0 /\ j.at = o.at
        BY <2>2, <2>12, <4>1
      <4> QED
        BY <4>2 DEF Hdr, Begin
    <3>3. ~Active(j)
      BY <2>1, <2>12 DEF Active
    <3>4. Made(o) = o.src.size + 1 /\ Made(j) = o.src.size + 2
      <4>1. Made(o) = 0 + o.src.size + 1 + 0
        BY <1>9, <2>1, <2>2, <3>2 DEF Made
      <4>2. Made(j) = 0 + o.src.size + 1 + 1
        BY <2>2, <2>12, <3>2, <3>3 DEF Made
      <4> QED
        BY <1>6, <4>1, <4>2
    <3>5. j.cSize = Made(j) /\ Len(j.dst) = j.cSize /\ j.flushed <= j.cSize
      BY <1>6, <2>10, <2>12, <3>1, <3>4, SMTT(30)
    <3>6. ASSUME NEW k \in 1 .. j.cSize
          PROVE  j.dst[k] = Unit(Begin(j) + k)
      <4>1. CASE k \in 1 .. o.cSize
        BY <2>10, <2>12, <3>1, <3>2, <4>1
      <4>2. CASE k = o.cSize + 1
        <5>1. j.dst[k] = SumMark
          BY <2>10, <2>12, <3>1, <4>2
        <5>2. PICK p : p = Begin(j) + k
          OBVIOUS
        <5>3. p = FrameLen + 3
          <6>1. p = (o.at + 1) + k /\ k = o.cSize + 1 /\ o.cSize = o.src.size + 1
            BY <3>1, <3>2, <3>4, <4>2, <5>2
          <6>2. o.at \in Nat /\ o.src.size \in Nat /\ FrameLen = o.at + o.src.size
            BY <1>6, <2>2
          <6> QED
            BY <6>1, <6>2
        <5>4. Unit(p) = SumMark
          BY <1>2, <5>3 DEF Unit
        <5> QED
          BY <5>1, <5>2, <5>4
      <4> QED
        BY <1>6, <2>12, <3>6, <4>1, <4>2
    <3> QED
      BY <3>5, <3>6 DEF OutputInv
  <2> QED
    BY <2>1, <2>12, <2>13, <2>14, <2>15
<1> QED
  BY <1>8, <1>9


\* What ZSTDMT_flushProduced does, with j the oldest job after the checksum.
FlushedTo(j, n) == IF j.cSize > 0 /\ Complete(j) /\ j.cSize - (j.flushed + n) = 0
                   THEN [j EXCEPT !.flushed = j.flushed + n, !.dst = NoBuffer, !.cSize = 0]
                   ELSE [j EXCEPT !.flushed = j.flushed + n]
FlushedOut(j, n) == delivered \o SubSeq(j.dst, j.flushed + 1, j.flushed + n)

\* The size of what is flushed and whether it ends the job.
LEMMA FlushTerms ==
  ASSUME Types, ControlInv, FlushProduced, NEW o, o = Oldest, NEW j, j = Checksummed(o),
         NEW n, n = IF j.cSize > 0 THEN Smaller(j.cSize - j.flushed, call.room) ELSE 0,
         NEW done \in BOOLEAN,
         done <=> j.cSize > 0 /\ Complete(j) /\ j.cSize - (j.flushed + n) = 0,
         done => doneJobID < nextJobID
  PROVE  /\ call.pc = "flush" /\ o.cSize # Error
         /\ delivered' = FlushedOut(j, n)
         /\ jobs' = [jobs EXCEPT ![Slot(doneJobID)] = FlushedTo(j, n)]
         /\ done => doneJobID' = doneJobID + 1
         /\ ~done => doneJobID' = doneJobID
         /\ allJobsCompleted' \in BOOLEAN /\ ret' \in {0, 1}
         /\ ret' = 0 => /\ doneJobID' = nextJobID /\ ~jobReady /\ inBuff.filled = 0
                        /\ call.op = "end" => frameEnded /\ allJobsCompleted'
         /\ call' = [call EXCEPT !.pc = "idle"]
         /\ UNCHANGED <<queue, queueHead, queueTail, queueEmpty, threadCapacity, shutdown,
                 thread, running, client, serial, job, fails, inBuff, roundBuff, mem, inPos,
                 nextJobID, jobReady, frameEnded, sumFlag, nbWorkers, frames, frame>>
<1>1. /\ call.pc = "flush" /\ o.cSize # Error
      /\ delivered' = FlushedOut(j, n)
      /\ jobs' = [jobs EXCEPT ![Slot(doneJobID)] = FlushedTo(j, n)]
      /\ call' = [call EXCEPT !.pc = "idle"]
  BY DEF FlushProduced, MayFlush, CallerAt, Step, FlushedTo, FlushedOut
<1>2. /\ UNCHANGED <<poolState, workVars, inputVars, nextJobID, jobReady,
                    frameEnded, sumFlag, nbWorkers, frames, frame, releases>>
      /\ doneJobID' = IF done THEN doneJobID + 1 ELSE doneJobID
  BY DEF FlushProduced
<1>3. PICK more \in BOOLEAN :
        /\ allJobsCompleted' = IF more THEN allJobsCompleted ELSE frameEnded
        /\ ret' = IF more \/ inPos < call.end \/ (call.op = "end" /\ ~frameEnded) THEN 1 ELSE 0
        /\ doneJobID' < nextJobID \/ jobReady \/ inBuff.filled > 0 => more
  BY DEF FlushProduced
<1>4. /\ doneJobID \in Nat /\ nextJobID \in Nat /\ inBuff.filled \in Nat
      /\ frameEnded \in BOOLEAN /\ allJobsCompleted \in BOOLEAN /\ doneJobID <= nextJobID
  BY Scalars DEF Types, JobTypes, ControlInv
<1>5. allJobsCompleted' \in BOOLEAN /\ ret' \in {0, 1}
  BY <1>3, <1>4
<1>6. ASSUME ret' = 0
      PROVE  /\ doneJobID' = nextJobID /\ ~jobReady /\ inBuff.filled = 0
             /\ call.op = "end" => frameEnded /\ allJobsCompleted'
  <2>1. ~more /\ (call.op = "end" => frameEnded)
    BY <1>3, <1>6
  <2>2. ~(doneJobID' < nextJobID) /\ ~jobReady /\ ~(inBuff.filled > 0)
    BY <1>3, <2>1
  <2>3. doneJobID' <= nextJobID /\ doneJobID' \in Nat
    BY <1>2, <1>4
  <2>4. doneJobID' = nextJobID /\ inBuff.filled = 0
    BY <1>4, <2>2, <2>3
  <2> QED
    BY <1>3, <2>1, <2>2, <2>4
<1>7. UNCHANGED <<queue, queueHead, queueTail, queueEmpty, threadCapacity, shutdown,
                 thread, running, client, serial, job, fails, inBuff, roundBuff, mem, inPos,
                 nextJobID, jobReady, frameEnded, sumFlag, nbWorkers, frames, frame>>
  BY <1>2 DEF poolState, workVars, inputVars
<1> QED
  BY <1>1, <1>2, <1>5, <1>6, <1>7

\* The output of a job is a part of that of the frame.
LEMMA JobEnds ==
  ASSUME MTInv, NEW i \in Ids, NEW j \in JobType, SameWork(j, J(i)), OutputInv(j),
         ~Active(j) => ~j.sum
  PROVE  /\ Begin(j) \in Nat /\ Hdr(j) \in {0, 1} /\ Begin(j) + Hdr(j) = j.at + 1
         /\ Begin(j) + j.cSize <= Units
         /\ ~Active(j) => /\ j.cSize = Made(j) /\ Len(j.dst) = j.cSize /\ j.flushed <= j.cSize
                          /\ Begin(j) + j.cSize = IF i = LastID
                                                  THEN IF frameEnded THEN Units ELSE Cut + 1
                                                  ELSE J(i + 1).at + 1
<1>1. Types /\ JobsInv /\ CallInv
  BY DEF MTInv
<1>2. /\ j.consumed = J(i).consumed /\ j.src = J(i).src /\ j.at = J(i).at
      /\ j.jobID = J(i).jobID /\ j.last = J(i).last
  BY DEF SameWork
<1>3. /\ j.consumed \in Nat /\ j.cSize \in Nat \cup {Error} /\ j.at \in Nat /\ j.jobID \in Nat
      /\ j.src.size \in Nat /\ j.flushed \in Nat /\ j.last \in BOOLEAN
  BY DEF JobType, RangeType
<1>4. /\ FrameLen \in Nat /\ inPos \in Nat /\ inBuff.filled \in Nat /\ inPos <= FrameLen
      /\ frameEnded \in BOOLEAN /\ Checksum \in BOOLEAN
  BY <1>1, Scalars, SizesAssumption
<1>5. /\ j.jobID = i /\ j.consumed <= j.src.size /\ (i = 0 => j.at = 0)
      /\ j.at + j.src.size <= Cut
      /\ j.at + j.src.size = (IF i = LastID THEN Cut ELSE J(i + 1).at)
      /\ (j.last <=> i = LastID /\ frameEnded)
      /\ (j.last => j.at + j.src.size = FrameLen)
  BY <1>1, <1>2 DEF JobsInv
<1>6. Begin(j) = (IF i = 0 THEN 0 ELSE j.at + 1) /\ Hdr(j) = (IF i = 0 THEN 1 ELSE 0)
  BY <1>5 DEF Begin, Hdr
<1>7. Begin(j) \in Nat /\ Hdr(j) \in {0, 1} /\ Begin(j) + Hdr(j) = j.at + 1
  BY <1>3, <1>5, <1>6
<1>8. Cut <= FrameLen /\ Cut \in Int
  BY <1>4 DEF Cut
<1>9. Units = FrameLen + (IF Checksum THEN 3 ELSE 2)
  BY DEF Units
<1>10. CASE Active(j)
  <2>1. j.cSize = 0 \/ j.cSize = Made(j)
    BY DEF OutputInv, Pristine
  <2>2. Made(j) = IF j.consumed = 0 THEN 0 ELSE Hdr(j) + j.consumed
    BY <1>10 DEF Made
  <2>3. Begin(j) + j.cSize <= Begin(j) + Hdr(j) + j.src.size
    <3>1. PICK c : c = j.cSize
      OBVIOUS
    <3>2. PICK m \in Nat : m = j.consumed
      BY <1>3
    <3>3. c = 0 \/ c = (IF m = 0 THEN 0 ELSE Hdr(j) + m)
      BY <2>1, <2>2, <3>1, <3>2
    <3>4. m <= j.src.size
      BY <1>5, <3>2
    <3>5. c <= Hdr(j) + j.src.size /\ c \in Nat
      BY <1>3, <1>7, <3>3, <3>4
    <3> QED
      BY <1>3, <1>7, <3>1, <3>5
  <2>4. Begin(j) + Hdr(j) + j.src.size <= FrameLen + 1
    <3>1. j.at + j.src.size <= FrameLen
      BY <1>3, <1>4, <1>5, <1>8
    <3> QED
      BY <1>3, <1>4, <1>7, <3>1
  <2>5. Begin(j) + j.cSize \in Int
    <3>1. j.cSize \in Int
      BY <1>3 DEF Error
    <3> QED
      BY <1>7, <3>1
  <2>6. Begin(j) + j.cSize <= Units
    <3>1. PICK b \in Int : b = Begin(j) + j.cSize
      BY <2>5
    <3>2. PICK e \in Int : e = Begin(j) + Hdr(j) + j.src.size
      BY <1>3, <1>7
    <3>3. b <= e /\ e <= FrameLen + 1
      BY <2>3, <2>4, <3>1, <3>2
    <3>4. b <= Units
      BY <1>4, <1>9, <3>3
    <3> QED
      BY <3>1, <3>4
  <2> QED
    BY <1>7, <1>10, <2>6
<1>11. CASE ~Active(j)
  <2>1. Len(j.dst) = j.cSize /\ j.cSize = Made(j) /\ j.flushed <= j.cSize /\ ~j.sum
    BY <1>11 DEF OutputInv
  <2>2. Made(j) = Hdr(j) + j.src.size + (IF j.last THEN 1 ELSE 0)
                  + (IF j.last /\ Checksum THEN 1 ELSE 0)
    BY <1>11, <2>1 DEF Made
  <2>3. PICK m : m = Made(j)
    OBVIOUS
  <2>4. PICK b \in Nat, h \in {0, 1}, s \in Nat, p \in Nat :
          b = Begin(j) /\ h = Hdr(j) /\ s = j.src.size /\ p = j.at
    BY <1>3, <1>7
  <2>5. b + h = p + 1
    BY <1>7, <2>4
  <2>6. CASE j.last
    <3>1. m = h + s + 1 + (IF Checksum THEN 1 ELSE 0) /\ p + s = FrameLen
      BY <1>5, <2>2, <2>3, <2>4, <2>6
    <3>2. b + m = Units
      BY <1>4, <1>9, <2>5, <3>1
    <3>3. Begin(j) + j.cSize = Units /\ i = LastID /\ frameEnded
      BY <1>5, <2>1, <2>3, <2>4, <2>6, <3>2
    <3>4. Begin(j) + j.cSize <= Units
      <4>1. Units \in Nat
        BY <1>4, <1>9
      <4> QED
        BY <3>3, <4>1
    <3> QED
      BY <1>7, <2>1, <3>3, <3>4
  <2>7. CASE ~j.last
    <3>1. m = h + s
      <4>1. m = h + s + 0 + 0
        BY <2>2, <2>3, <2>4, <2>7
      <4> QED
        BY <2>4, <4>1
    <3>2. b + m = (p + s) + 1 /\ p + s \in Nat
      BY <2>4, <2>5, <3>1
    <3>3. p + s <= Cut /\ p + s = (IF i = LastID THEN Cut ELSE J(i + 1).at)
      BY <1>5, <2>4
    <3>4. b + m <= Units
      BY <1>4, <1>8, <1>9, <3>2, <3>3
    <3>5. ~(i = LastID /\ frameEnded)
      BY <1>5, <2>7
    <3>6. Begin(j) + j.cSize = b + m
      BY <2>1, <2>3, <2>4
    <3>7. b + m = IF i = LastID THEN IF frameEnded THEN Units ELSE Cut + 1
                                ELSE J(i + 1).at + 1
      BY <3>2, <3>3, <3>5
    <3> QED
      BY <1>7, <2>1, <3>4, <3>6, <3>7
  <2> QED
    BY <2>6, <2>7
<1> QED
  BY <1>10, <1>11


\* What is left in the place of the oldest job.
LEMMA FlushedToIs ==
  ASSUME NEW j \in JobType, NEW n \in Nat, NEW done \in BOOLEAN,
         done <=> j.cSize > 0 /\ Complete(j) /\ j.cSize - (j.flushed + n) = 0,
         NEW r, r = FlushedTo(j, n)
  PROVE  /\ r \in JobType /\ SameWork(r, j) /\ r.sum = j.sum /\ r.flushed = j.flushed + n
         /\ r.cSize = IF done THEN 0 ELSE j.cSize
         /\ r.dst = IF done THEN NoBuffer ELSE j.dst
         /\ ~done /\ n = 0 => r = j
<1>1. PICK f \in Nat : f = j.flushed + n
  BY DEF JobType
<1>2. NoBuffer \in Seq(Int)
  BY DEF NoBuffer
<1>3. n = 0 => f = j.flushed
  <2>1. j.flushed \in Nat
    BY DEF JobType
  <2> QED
    BY <1>1, <2>1
<1>4. CASE done
  <2>1. r = [j EXCEPT !.flushed = f, !.dst = NoBuffer, !.cSize = 0]
    BY <1>1, <1>4 DEF FlushedTo
  <2> HIDE <1>1
  <2>2. r \in JobType
    <3>1. PICK z \in Nat \cup {Error} : z = 0
      OBVIOUS
    <3>2. r = [j EXCEPT !.flushed = f, !.dst = NoBuffer, !.cSize = z]
      BY <2>1, <3>1
    <3> HIDE <3>1
    <3> QED
      BY <1>2, <3>2 DEF JobType
  <2>3. r.flushed = f /\ r.dst = NoBuffer /\ r.cSize = 0 /\ r.sum = j.sum /\ SameWork(r, j)
    BY <2>1 DEF JobType, SameWork
  <2> QED
    BY <1>1, <1>4, <2>2, <2>3
<1>5. CASE ~done
  <2>1. r = [j EXCEPT !.flushed = f]
    BY <1>1, <1>5 DEF FlushedTo
  <2> HIDE <1>1
  <2>2. r \in JobType
    BY <2>1 DEF JobType
  <2>3. r.flushed = f /\ r.dst = j.dst /\ r.cSize = j.cSize /\ r.sum = j.sum /\ SameWork(r, j)
    BY <2>1 DEF JobType, SameWork
  <2>4. n = 0 => r = j
    BY <1>3, <2>1 DEF JobType
  <2> QED
    BY <1>1, <1>5, <2>2, <2>3, <2>4
<1> QED
  BY <1>4, <1>5

\* The output that was delivered is extended by that of the oldest job.
LEMMA FlushedDelivery ==
  ASSUME MTInv, NEW d \in Nat, d = doneJobID, d \in Ids, NEW j \in JobType, NEW n \in Nat,
         NEW done \in BOOLEAN, NEW r, Flushes(r),
         done <=> j.cSize > 0 /\ Complete(j) /\ j.cSize - (j.flushed + n) = 0,
         SameWork(j, J(d)), OutputInv(j), j.cSize \in Nat, j.flushed + n <= j.cSize,
         SameWork(r, j), r.flushed = j.flushed + n, done => doneJobID < nextJobID,
         doneJobID' = IF done THEN doneJobID + 1 ELSE doneJobID,
         Begin(j) \in Nat, Begin(j) + j.cSize <= Units,
         done => Begin(j) + j.cSize = IF d = LastID
                                      THEN IF frameEnded THEN Units ELSE Cut + 1
                                      ELSE J(d + 1).at + 1,
         Len(delivered) = Begin(j) + j.flushed,
         delivered' \in Seq(Int), Len(delivered') = Len(delivered) + n,
         \A k \in 1 .. Len(delivered) : delivered'[k] = delivered[k],
         \A k \in Len(delivered) + 1 .. Len(delivered) + n :
            delivered'[k] = j.dst[j.flushed + (k - Len(delivered))]
  PROVE  MTInv'
<1>1. /\ Types /\ JobTypes /\ JobsInv /\ DeliveryInv /\ j.flushed \in Nat
  BY DEF MTInv, Types, JobType
<1>2. /\ UNCHANGED <<nextJobID, frameEnded>>
  BY DEF Flushes
<1>3. /\ LastID' = LastID /\ LastID \in Int /\ LastID <= nextJobID /\ Ids \subseteq Nat
      /\ doneJobID \in Nat /\ nextJobID \in Nat /\ doneJobID' <= nextJobID
      /\ \A i \in Ids' : i \in Ids
      /\ \A i \in Nat : SameWork(J(i)', J(i))
      /\ \A i \in Ids : i # doneJobID => J(i)' = J(i)
      /\ \A i : i = doneJobID => J(i)' = r /\ J(i) = Oldest
      /\ Units' = Units /\ Cut' = Cut /\ \A k : Unit(k)' = Unit(k)
  BY FlushedTerms
<1>4. PICK f \in Nat, b \in Nat, c \in Nat : f = j.flushed /\ b = Begin(j) /\ c = j.cSize
  BY <1>1
<1>5. PICK l \in Nat : l = Len(delivered)
  BY <1>1 DEF Types, InputTypes
<1>6. f + n <= c /\ l = b + f /\ Len(delivered') = l + n
  BY <1>4, <1>5
<1>7. Len(delivered') <= Units
  <2>1. b + c <= Units
    BY <1>4
  <2>2. Units \in Int
    <3>1. FrameLen \in Nat
      BY <1>1, Scalars
    <3> QED
      BY <3>1 DEF Units
  <2> QED
    BY <1>6, <2>1, <2>2
<1>8. ASSUME NEW k \in 1 .. Len(delivered')
      PROVE  delivered'[k] = Unit(k)'
  <2>1. k \in 1 .. l \/ k \in l + 1 .. l + n
    BY <1>6
  <2>2. CASE k \in 1 .. l
    BY <1>1, <1>3, <1>5, <2>2 DEF DeliveryInv
  <2>3. CASE k \in l + 1 .. l + n
    <3>1. delivered'[k] = j.dst[f + (k - l)]
      BY <1>4, <1>5, <2>3
    <3>2. PICK p \in Nat : p = f + (k - l)
      BY <2>3
    <3>3. p \in 1 .. c /\ b + p = k /\ c # 0
      BY <1>6, <2>3, <3>2
    <3>4. j.dst[p] = Unit(Begin(j) + p)
      BY <1>4, <3>3 DEF OutputInv, Pristine
    <3>5. Begin(j) + p = k
      BY <1>4, <3>3
    <3> QED
      BY <1>3, <3>1, <3>2, <3>4, <3>5
  <2> QED
    BY <2>1, <2>2, <2>3
<1>9. Len(delivered') = Flushed'
  <2>1. CASE ~done
    <3>1. doneJobID' = d /\ d <= LastID'
      BY <1>3, <2>1 DEF Ids
    <3>2. J(d)' = r
      BY <1>3
    <3>3. PICK m : m = J(doneJobID)'
      OBVIOUS
    <3>4. m = r
      BY <3>1, <3>2, <3>3 DEF J, Slot
    <3>5. Begin(J(doneJobID))' = Begin(r)
      BY <3>3, <3>4 DEF Begin
    <3>6. Begin(r) = b
      BY <1>4 DEF Begin, SameWork
    <3>7. doneJobID' <= LastID'
      BY <3>1
    <3>8. Flushed' = Begin(J(doneJobID))' + J(doneJobID)'.flushed
      BY <3>7 DEF Flushed
    <3>9. Flushed' = b + (f + n)
      BY <1>4, <3>3, <3>4, <3>5, <3>6, <3>8
    <3>10. l + n = b + (f + n)
      BY <1>6
    <3> QED
      BY <1>6, <3>9, <3>10
  <2>2. CASE done
    <3>1. doneJobID' = d + 1 /\ c = f + n
      <4>1. j.cSize - (j.flushed + n) = 0 /\ doneJobID' = d + 1
        BY <2>2
      <4>2. c - (f + n) = 0
        BY <1>4, <4>1
      <4> QED
        BY <4>1, <4>2, SMTT(30)
    <3>2. Len(delivered') = Begin(j) + j.cSize
      BY <1>4, <1>6, <3>1
    <3>3. CASE d = LastID
      <4>1. ~(doneJobID' <= LastID') /\ nextJobID' # 0
        BY <1>2, <1>3, <2>2, <3>1, <3>3
      <4>2. Flushed' = IF frameEnded THEN Units ELSE Cut + 1
        BY <1>2, <1>3, <4>1 DEF Flushed
      <4> QED
        BY <2>2, <3>2, <3>3, <4>2
    <3>4. CASE d # LastID
      <4>1. PICK e \in Nat : e = d + 1
        OBVIOUS
      <4>2. e \in Ids /\ e <= LastID /\ e # doneJobID
        BY <1>3, <3>4, <4>1 DEF Ids
      <4>3. J(e)' = J(e) /\ J(e).jobID = e /\ J(e).flushed = 0
        <5>1. doneJobID < e
          BY <4>1
        <5> QED
          BY <1>1, <1>3, <4>2, <5>1 DEF JobsInv, DeliveryInv
      <4>4. PICK m : m = J(doneJobID)'
        OBVIOUS
      <4>5. m = J(e)
        BY <3>1, <4>1, <4>3, <4>4 DEF J, Slot
      <4>6. Begin(J(doneJobID))' = Begin(m)
        BY <4>4 DEF Begin
      <4>7. Begin(m) = J(e).at + 1
        <5>1. m.jobID # 0
          BY <4>1, <4>3, <4>5
        <5> QED
          BY <4>5, <5>1 DEF Begin
      <4>8. doneJobID' <= LastID'
        BY <1>3, <3>1, <4>1, <4>2
      <4>9. Flushed' = Begin(J(doneJobID))' + J(doneJobID)'.flushed
        BY <4>8 DEF Flushed
      <4>10. Flushed' = (J(e).at + 1) + 0
        BY <4>3, <4>4, <4>5, <4>6, <4>7, <4>9
      <4>11. J(e).at \in Nat
        BY <1>1, TableShape DEF JobType
      <4> QED
        BY <2>2, <3>2, <3>4, <4>1, <4>10, <4>11, SMTT(30)
    <3> QED
      BY <3>3, <3>4
  <2> QED
    BY <2>1, <2>2
<1>10. ASSUME NEW i \in Ids', doneJobID' < i
       PROVE  J(i)'.flushed = 0
  <2>1. i \in Ids /\ i \in Nat /\ doneJobID < i
    <3>1. i \in Ids /\ i \in Nat
      BY <1>3
    <3>2. doneJobID < i
      BY <1>3, <1>10, <3>1
    <3> QED
      BY <3>1, <3>2
  <2>2. i # doneJobID
    BY <1>3, <2>1
  <2>3. J(i)' = J(i)
    BY <1>3, <2>1, <2>2
  <2> QED
    BY <1>1, <2>1, <2>3 DEF DeliveryInv
<1>11. DeliveryInv'
  BY <1>3, <1>7, <1>8, <1>9, <1>10 DEF DeliveryInv
<1> QED
  BY <1>11, FlushedStep

\* There is a job to flush.
LEMMA LiveFlush ==
  ASSUME MTInv, FlushProduced, doneJobID <= LastID
  PROVE  MTInv'
<1>1. Types /\ JobTypes /\ ControlInv /\ JobsInv /\ DeliveryInv /\ call.pc = "flush"
      /\ Oldest.cSize # Error
  BY DEF MTInv, Types, FlushProduced, MayFlush, CallerAt
<1>2. /\ doneJobID \in Nat /\ nextJobID \in Nat /\ call.room \in Nat /\ doneJobID <= nextJobID
      /\ LastID \in Int /\ LastID \in {nextJobID, nextJobID - 1} /\ delivered \in Seq(Int)
  BY <1>1, Scalars, IdsHeld DEF ControlInv, Types, InputTypes
<1>3. PICK d \in Nat : d = doneJobID
  BY <1>2
<1>4. PICK o : o = Oldest
  OBVIOUS
<1>5. d \in Ids /\ J(d) = o
  BY <1>2, <1>3, <1>4 DEF Ids, J, Oldest
<1>6. PICK j : j = Checksummed(o)
  OBVIOUS
<1>7. /\ j \in JobType /\ SameWork(j, o) /\ j.cSize # Error /\ j.flushed = o.flushed
      /\ OutputInv(j) /\ (j.sum => o.sum) /\ (Active(o) => j = o)
      /\ (~Active(o) => ~j.sum)
  BY <1>1, <1>4, <1>6, ChecksumAdded
<1>8. /\ j.cSize \in Nat /\ j.flushed \in Nat /\ j.consumed \in Nat /\ j.src.size \in Nat
      /\ j.dst \in Seq(Int)
      /\ (Active(j) <=> Active(o)) /\ (Complete(j) => ~Active(j))
  <2>1. j.cSize \in Nat /\ j.flushed \in Nat /\ j.consumed \in Nat /\ j.src.size \in Nat
        /\ j.dst \in Seq(Int)
    BY <1>7 DEF JobType, RangeType
  <2>2. Active(j) <=> Active(o)
    BY <1>7 DEF SameWork, Active
  <2>3. Complete(j) => ~Active(j)
    BY <2>1 DEF Complete, Active
  <2> QED
    BY <2>1, <2>2, <2>3
<1>9. j.flushed <= j.cSize /\ (j.cSize > 0 => Len(j.dst) = j.cSize)
  BY <1>7, <1>8 DEF OutputInv, Pristine
<1>10. PICK n : n = IF j.cSize > 0 THEN Smaller(j.cSize - j.flushed, call.room) ELSE 0
  OBVIOUS
<1>11. n \in Nat /\ j.flushed + n <= j.cSize
  <2>1. PICK c \in Nat, f \in Nat, m \in Nat : c = j.cSize /\ f = j.flushed /\ m = call.room
    BY <1>2, <1>8
  <2>2. n = (IF c > 0 THEN IF c - f < m THEN c - f ELSE m ELSE 0) /\ f <= c
    BY <1>9, <1>10, <2>1 DEF Smaller
  <2>3. n \in Nat /\ f + n <= c
    BY <2>2
  <2> QED
    BY <2>1, <2>3
<1>12. PICK done \in BOOLEAN :
         done <=> j.cSize > 0 /\ Complete(j) /\ j.cSize - (j.flushed + n) = 0
  OBVIOUS
<1>13. done => ~Active(o) /\ doneJobID < nextJobID /\ ~j.sum
  <2> SUFFICES ASSUME done
               PROVE  ~Active(o) /\ doneJobID < nextJobID /\ ~j.sum
    OBVIOUS
  <2>1. ~Active(o)
    BY <1>8, <1>12
  <2>2. d # nextJobID
    BY <1>1, <1>5, <2>1 DEF JobsInv
  <2> QED
    BY <1>2, <1>3, <1>7, <2>1, <2>2
<1>14. PICK r : r = FlushedTo(j, n)
  OBVIOUS
<1>15. /\ r \in JobType /\ SameWork(r, j) /\ r.sum = j.sum /\ r.flushed = j.flushed + n
       /\ r.cSize = (IF done THEN 0 ELSE j.cSize)
       /\ r.dst = (IF done THEN NoBuffer ELSE j.dst)
       /\ (~done /\ n = 0 => r = j)
  BY <1>7, <1>11, <1>12, <1>14, FlushedToIs
<1>16. /\ delivered' = delivered \o SubSeq(j.dst, j.flushed + 1, j.flushed + n)
       /\ jobs' = [jobs EXCEPT ![Slot(doneJobID)] = r]
       /\ doneJobID' = (IF done THEN doneJobID + 1 ELSE doneJobID)
       /\ allJobsCompleted' \in BOOLEAN /\ ret' \in {0, 1}
       /\ (ret' = 0 => /\ doneJobID' = nextJobID /\ ~jobReady /\ inBuff.filled = 0
                       /\ (call.op = "end" => frameEnded /\ allJobsCompleted'))
       /\ call' = [call EXCEPT !.pc = "idle"]
       /\ UNCHANGED <<queue, queueHead, queueTail, queueEmpty, threadCapacity, shutdown,
                 thread, running, client, serial, job, fails, inBuff, roundBuff, mem, inPos,
                 nextJobID, jobReady, frameEnded, sumFlag, nbWorkers, frames, frame>>
  <2>1. done => doneJobID < nextJobID
    BY <1>13
  <2>2. Types /\ ControlInv
    BY <1>1
  <2>3. jobs' = [jobs EXCEPT ![Slot(doneJobID)] = FlushedTo(j, n)]
    BY <1>4, <1>6, <1>10, <1>12, <2>1, <2>2, FlushTerms
  <2>4. delivered' = FlushedOut(j, n)
    BY <1>4, <1>6, <1>10, <1>12, <2>1, <2>2, FlushTerms
  <2>9. (done => doneJobID' = doneJobID + 1) /\ (~done => doneJobID' = doneJobID)
    BY <1>4, <1>6, <1>10, <1>12, <2>1, <2>2, FlushTerms
  <2>5. allJobsCompleted' \in BOOLEAN /\ ret' \in {0, 1} /\ call' = [call EXCEPT !.pc = "idle"]
    BY <1>4, <1>6, <1>10, <1>12, <2>1, <2>2, FlushTerms
  <2>7. ret' = 0 => doneJobID' = nextJobID /\ ~jobReady /\ inBuff.filled = 0
    BY <1>4, <1>6, <1>10, <1>12, <2>1, <2>2, FlushTerms
  <2>8. ret' = 0 /\ call.op = "end" => frameEnded /\ allJobsCompleted'
    BY <1>4, <1>6, <1>10, <1>12, <2>1, <2>2, FlushTerms
  <2>6. UNCHANGED <<queue, queueHead, queueTail, queueEmpty, threadCapacity, shutdown,
                 thread, running, client, serial, job, fails, inBuff, roundBuff, mem, inPos,
                 nextJobID, jobReady, frameEnded, sumFlag, nbWorkers, frames, frame>>
    BY <1>4, <1>6, <1>10, <1>12, <2>1, <2>2, FlushTerms
  <2> QED
    BY <1>14, <2>3, <2>4, <2>5, <2>6, <2>7, <2>8, <2>9 DEF FlushedOut
<1>17. SameWork(r, Oldest)
  BY <1>4, <1>7, <1>15 DEF SameWork
<1>18. ~done => OutputInv(r)
  <2> SUFFICES ASSUME ~done
               PROVE  OutputInv(r)
    OBVIOUS
  <2>1. /\ r.cSize = j.cSize /\ r.dst = j.dst /\ r.sum = j.sum /\ r.flushed = j.flushed + n
        /\ r.consumed = j.consumed /\ r.src = j.src /\ r.at = j.at /\ r.jobID = j.jobID
        /\ r.last = j.last
    BY <1>15 DEF SameWork
  <2>2. r.flushed <= r.cSize /\ (j.cSize = 0 => r.flushed = 0)
    <3>1. PICK c \in Nat, f \in Nat : c = j.cSize /\ f = j.flushed
      BY <1>8
    <3>2. f + n <= c /\ (c = 0 => f + n = 0)
      BY <1>11, <3>1
    <3> QED
      BY <2>1, <3>1, <3>2
  <2>3. CASE Pristine(j) /\ Active(j)
    BY <2>1, <2>2, <2>3 DEF OutputInv, Pristine, Active
  <2>4. CASE ~(Pristine(j) /\ Active(j))
    <3>1. /\ Len(j.dst) = j.cSize /\ j.cSize = Made(j)
          /\ \A k \in 1 .. j.cSize : j.dst[k] = Unit(Begin(j) + k)
      BY <1>7, <2>4 DEF OutputInv
    <3>2. Made(r) = Made(j) /\ Begin(r) = Begin(j)
      BY <2>1 DEF Made, Begin, Hdr, Active
    <3> QED
      BY <2>1, <2>2, <3>1, <3>2 DEF OutputInv
  <2> QED
    BY <2>3, <2>4
<1>19. done => Stale(r)
  BY <1>13, <1>15 DEF Stale
<1>20. doneJobID = nextJobID => ~done /\ r = Oldest
  <2> SUFFICES ASSUME doneJobID = nextJobID
               PROVE  ~done /\ r = Oldest
    OBVIOUS
  <2>1. Active(o) /\ Pristine(o) /\ o.flushed = 0
    BY <1>1, <1>3, <1>5 DEF JobsInv
  <2>2. j = o /\ ~done
    BY <1>7, <1>13, <2>1
  <2>3. n = 0
    BY <1>10, <2>1, <2>2 DEF Pristine
  <2> QED
    BY <1>4, <1>15, <2>2, <2>3
<1>21. Active(Oldest) => r.cSize = Oldest.cSize /\ r.dst = Oldest.dst /\ r.sum = Oldest.sum
  BY <1>4, <1>7, <1>13, <1>15
<1>22. r.cSize # Error
  BY <1>7, <1>15 DEF Error
<1>23. ~done => (r.sum => Oldest.sum)
  BY <1>4, <1>7, <1>15
<1>24. Flushes(r)
  <2>1. ~(doneJobID > LastID)
    BY <1>2
  <2>2. CASE done
    BY <1>1, <1>4, <1>13, <1>15, <1>16, <1>17, <1>19, <1>21, <1>22, <2>1, <2>2 DEF Flushes
  <2>3. CASE ~done
    BY <1>1, <1>15, <1>16, <1>17, <1>18, <1>20, <1>21, <1>22, <1>23, <2>1, <2>3 DEF Flushes
  <2> QED
    BY <2>2, <2>3
<1>25. /\ Begin(j) \in Nat /\ Begin(j) + j.cSize <= Units
       /\ (done => Begin(j) + j.cSize = IF d = LastID
                                        THEN IF frameEnded THEN Units ELSE Cut + 1
                                        ELSE J(d + 1).at + 1)
  <2>1. SameWork(j, J(d)) /\ (~Active(j) => ~j.sum)
    BY <1>5, <1>7, <1>8
  <2>2. /\ Begin(j) \in Nat /\ Begin(j) + j.cSize <= Units
        /\ (~Active(j) =>
              Begin(j) + j.cSize = IF d = LastID THEN IF frameEnded THEN Units ELSE Cut + 1
                                   ELSE J(d + 1).at + 1)
    BY <1>5, <1>7, <2>1, JobEnds
  <2> QED
    BY <1>8, <1>13, <2>2
<1>26. Len(delivered) = Begin(j) + j.flushed
  <2>1. InFrame
    BY <1>24, FlushedTerms
  <2>2. Len(delivered) = Begin(o) + o.flushed
    BY <1>1, <1>4, <2>1 DEF DeliveryInv, Flushed, J, Oldest
  <2>3. Begin(j) = Begin(o)
    BY <1>7 DEF Begin, SameWork
  <2> QED
    BY <1>7, <2>2, <2>3
<1>27. /\ delivered' \in Seq(Int) /\ Len(delivered') = Len(delivered) + n
       /\ \A k \in 1 .. Len(delivered) : delivered'[k] = delivered[k]
       /\ \A k \in Len(delivered) + 1 .. Len(delivered) + n :
            delivered'[k] = j.dst[j.flushed + (k - Len(delivered))]
  <2>1. n > 0 => j.flushed + n <= Len(j.dst)
    <3>1. n > 0 => j.cSize > 0
      BY <1>8, <1>11
    <3> QED
      BY <1>9, <1>11, <3>1
  <2>2. PICK s \in Seq(Int), f \in Nat, e \in Seq(Int) : s = j.dst /\ f = j.flushed /\ e = delivered
    BY <1>2, <1>8
  <2>3. delivered' = e \o SubSeq(s, f + 1, f + n)
    BY <1>16, <2>2
  <2>4. n > 0 => f + n <= Len(s)
    BY <2>1, <2>2
  <2>5. /\ delivered' \in Seq(Int) /\ Len(delivered') = Len(e) + n
        /\ \A k \in 1 .. Len(e) : delivered'[k] = e[k]
        /\ \A k \in Len(e) + 1 .. Len(e) + n : delivered'[k] = s[f + (k - Len(e))]
    BY <1>11, <2>3, <2>4, Copied
  <2> QED
    BY <2>2, <2>5
<1> QED
  BY <1>3, <1>5, <1>7, <1>8, <1>11, <1>12, <1>13, <1>15, <1>16, <1>24, <1>25, <1>26, <1>27,
     FlushedDelivery


\* There is no job to flush: its place holds nothing.
LEMMA StaleFlush ==
  ASSUME MTInv, FlushProduced, doneJobID > LastID
  PROVE  MTInv'
<1>1. Types /\ JobTypes /\ ControlInv /\ StaleInv /\ DeliveryInv /\ call.pc = "flush"
      /\ Oldest.cSize # Error
  BY DEF MTInv, Types, FlushProduced, MayFlush, CallerAt
<1>2. /\ doneJobID \in Nat /\ nextJobID \in Nat /\ call.room \in Nat /\ doneJobID <= nextJobID
      /\ LastID \in Int /\ delivered \in Seq(Int)
  BY <1>1, Scalars, IdsHeld DEF ControlInv, Types, InputTypes
<1>3. PICK o : o = Oldest
  OBVIOUS
<1>4. o \in JobType /\ Stale(o)
  <2>1. Slot(doneJobID) \in DOMAIN jobs /\ jobs[Slot(doneJobID)] \in JobType
    BY <1>1, <1>2, TableShape
  <2>2. Ids = {}
    BY <1>2 DEF Ids
  <2> QED
    BY <1>1, <1>3, <2>1, <2>2 DEF StaleInv, Oldest
<1>5. o.cSize = 0 /\ ~o.sum /\ o.flushed \in Nat /\ o.dst \in Seq(Int)
  BY <1>4 DEF Stale, JobType
<1>6. o = Checksummed(o)
  BY <1>5 DEF Checksummed
<1>7. PICK n \in Nat : n = 0
  OBVIOUS
<1>8. n = IF o.cSize > 0 THEN Smaller(o.cSize - o.flushed, call.room) ELSE 0
  BY <1>5, <1>7
<1>9. PICK done \in BOOLEAN : done <=> FALSE
  OBVIOUS
<1>10. done <=> o.cSize > 0 /\ Complete(o) /\ o.cSize - (o.flushed + n) = 0
  BY <1>5, <1>9
<1>11. PICK r : r = FlushedTo(o, n)
  OBVIOUS
<1>12. r = o
  BY <1>4, <1>7, <1>9, <1>10, <1>11, FlushedToIs
<1>13. done => doneJobID < nextJobID
  BY <1>9
<1>14. Types /\ ControlInv
  BY <1>1
<1>15. jobs' = [jobs EXCEPT ![Slot(doneJobID)] = r]
  <2>1. jobs' = [jobs EXCEPT ![Slot(doneJobID)] = FlushedTo(o, n)]
    BY <1>3, <1>6, <1>8, <1>10, <1>13, <1>14, FlushTerms
  <2> QED
    BY <1>11, <2>1
<1>16. delivered' = FlushedOut(o, n) /\ doneJobID' = doneJobID
  BY <1>3, <1>6, <1>8, <1>9, <1>10, <1>13, <1>14, FlushTerms
<1>17. allJobsCompleted' \in BOOLEAN /\ ret' \in {0, 1} /\ call' = [call EXCEPT !.pc = "idle"]
  BY <1>3, <1>6, <1>8, <1>10, <1>13, <1>14, FlushTerms
<1>18. ret' = 0 => doneJobID' = nextJobID /\ ~jobReady /\ inBuff.filled = 0
  BY <1>3, <1>6, <1>8, <1>10, <1>13, <1>14, FlushTerms
<1>19. ret' = 0 /\ call.op = "end" => frameEnded /\ allJobsCompleted'
  BY <1>3, <1>6, <1>8, <1>10, <1>13, <1>14, FlushTerms
<1>20. UNCHANGED <<queue, queueHead, queueTail, queueEmpty, threadCapacity, shutdown,
                 thread, running, client, serial, job, fails, inBuff, roundBuff, mem, inPos,
                 nextJobID, jobReady, frameEnded, sumFlag, nbWorkers, frames, frame>>
  BY <1>3, <1>6, <1>8, <1>10, <1>13, <1>14, FlushTerms
<1>21. Flushes(r)
  <2>1. ~(doneJobID <= LastID)
    BY <1>2
  <2>2. SameWork(r, Oldest) /\ r = Oldest /\ r.cSize # Error
    BY <1>1, <1>3, <1>12 DEF SameWork
  <2> QED
    BY <1>1, <1>4, <1>12, <1>15, <1>16, <1>17, <1>18, <1>19, <1>20, <2>1, <2>2 DEF Flushes
<1>22. delivered' = delivered
  <2>1. PICK a \in Int, b \in Int : a = o.flushed + 1 /\ b = o.flushed + n
    BY <1>5
  <2>2. b < a
    BY <1>5, <1>7, <2>1
  <2>3. SubSeq(o.dst, a, b) = <<>>
    BY <2>2, SubSeqEmpty
  <2>4. delivered \o <<>> = delivered
    BY <1>2, ConcatEmptySeq
  <2> QED
    BY <1>16, <2>1, <2>3, <2>4 DEF FlushedOut
<1>23. DeliveryInv'
  <2>1. /\ InFrame /\ LastID' = LastID /\ Units' = Units /\ Cut' = Cut /\ Ids' \subseteq Ids
        /\ \A k : Unit(k)' = Unit(k)
    BY <1>21, FlushedTerms
  <2>2. ~(doneJobID <= LastID) /\ ~(doneJobID' <= LastID')
    BY <1>2, <1>16, <2>1
  <2>3. Flushed' = Flushed
    BY <1>20, <2>1, <2>2 DEF Flushed
  <2>4. Ids' = {}
    BY <1>2, <2>1 DEF Ids
  <2> QED
    BY <1>1, <1>22, <2>1, <2>3, <2>4 DEF DeliveryInv
<1> QED
  BY <1>2, <1>21, <1>22, <1>23, FlushedStep

\* ZSTDMT_flushProduced.
LEMMA FlushProducedStep ==
  ASSUME MTInv, FlushProduced
  PROVE  MTInv'
<1>1. doneJobID \in Nat /\ LastID \in Int
  BY Scalars, IdsHeld DEF MTInv, Types
<1>2. doneJobID <= LastID \/ doneJobID > LastID
  BY <1>1
<1> QED
  BY <1>2, LiveFlush, StaleFlush


(* ------------------------ the end of a frame --------------------------- *)
\* When all jobs are done no worker is inside one and none is queued.
LEMMA NoWork ==
  ASSUME Types, ControlInv, WorkerInv, doneJobID = nextJobID
  PROVE  /\ queueEmpty /\ \A t \in 1 .. MaxThreads : ~Busy(t)
         /\ \A t \in 1 .. MaxThreads : job[t] \in {"none", "return"}
<1>1. \A s : ~Owned(s)
  <2> SUFFICES ASSUME NEW s, Owned(s)
               PROVE  FALSE
    OBVIOUS
  <2>1. jobs[s] \in JobType /\ nextJobID \in Nat
    BY Scalars, TableShape DEF Owned
  <2>2. PICK i \in Nat : i = jobs[s].jobID
    BY <2>1 DEF JobType
  <2>3. doneJobID <= i /\ i < nextJobID
    BY <2>2 DEF Owned, Posted
  <2> QED
    BY <2>1, <2>3
<1>2. queueEmpty /\ \A t \in 1 .. MaxThreads : ~Busy(t)
  BY <1>1 DEF WorkerInv
<1>3. \A t \in 1 .. MaxThreads : job[t] \in {"none", "return"}
  BY <1>2 DEF WorkerInv, Busy
<1> QED
  BY <1>2, <1>3

\* Without work nothing ties the workers to the jobs.
LEMMA NoWorkAfter ==
  ASSUME queueEmpty', \A t \in 1 .. MaxThreads : /\ ~Busy(t)'
                                                 /\ thread'[t] = "run" <=> job'[t] # "none"
                                                 /\ thread'[t] # "none" => t <= threadCapacity'
  PROVE  WorkerInv'
BY DEF WorkerInv

\* When the oldest job is the next one there is none.
LEMMA NoneLeft ==
  ASSUME NEW m \in Nat
  PROVE  m .. m - 1 = {}
OBVIOUS

\* What is left to show when no job is left and the caller is not in a frame.
LEMMA RestStep ==
  ASSUME Types', ControlInv', WorkerInv', WindowInv', StaleInv', CutsInv', ~InFrame',
         ~jobReady' \/ ret' = Error, doneJobID' = nextJobID',
         Len(delivered') <= Units', \A k \in 1 .. Len(delivered') : delivered'[k] = Unit(k)'
  PROVE  MTInv'
<1>1. nextJobID' \in Nat
  BY DEF Types, JobTypes
<1>2. LastID' = nextJobID' - 1
  BY DEF LastID, Ready
<1>3. Ids' = {}
  <2>1. PICK m \in Nat : m = nextJobID'
    BY <1>1
  <2>2. Ids' = m .. m - 1
    BY <1>2, <2>1 DEF Ids
  <2> QED
    BY <2>2, NoneLeft
<1>4. CallInv' /\ JobsInv' /\ SerialInv' /\ RingInv' /\ DeliveryInv'
  BY <1>3 DEF CallInv, JobsInv, SerialInv, RingInv, DeliveryInv
<1> QED
  BY <1>4 DEF MTInv

\* ZSTDMT_waitForAllJobsCompleted takes the next job that has finished.
LEMMA WaitForJobStep ==
  ASSUME MTInv, WaitForJob
  PROVE  MTInv'
<1>1. /\ Types /\ PoolTypes /\ JobTypes /\ InputTypes /\ ControlInv /\ WorkerInv /\ JobsInv
      /\ DeliveryInv /\ SerialInv /\ RingInv /\ WindowInv /\ CutsInv
  BY DEF MTInv, Types
<1>2. /\ call.pc = "waitAll" /\ doneJobID < nextJobID
      /\ doneJobID' = doneJobID \/ (doneJobID' = doneJobID + 1 /\ ~StillRuns(Oldest))
      /\ UNCHANGED <<queue, queueHead, queueTail, queueEmpty, threadCapacity, shutdown, thread,
              running, client, serial, job, fails, jobs, nextJobID, jobReady, frameEnded,
              allJobsCompleted, sumFlag, nbWorkers, frames, frame, delivered, ret, call,
              inBuff, roundBuff, mem, inPos>>
  BY DEF WaitForJob, CallerAt, poolState, inputVars, tableVars, callerVars
<1>3. doneJobID \in Nat /\ nextJobID \in Nat
  BY <1>1, Scalars
<1>4. doneJobID' \in Nat /\ doneJobID' <= nextJobID /\ doneJobID <= doneJobID'
  BY <1>2, <1>3
<1>5. Types'
  BY <1>1, <1>2, <1>4 DEF Types, PoolTypes, JobTypes, InputTypes, FrameLen
<1>6. /\ LastID' = LastID /\ LastID \in Int /\ TableLen' = TableLen /\ TableLen \in Nat
      /\ Section' = Section /\ FrameLen' = FrameLen /\ Sync' = Sync /\ Units' = Units
      /\ Cut' = Cut /\ ~InFrame /\ ~InFrame'
      /\ \A k : Unit(k)' = Unit(k) /\ Slot(k)' = Slot(k) /\ J(k)' = J(k)
  <2>1. LastID' = LastID /\ TableLen' = TableLen
    BY <1>2 DEF LastID, Ready, TableLen
  <2>2. LastID \in Int /\ TableLen \in Nat
    BY <1>1, IdsHeld
  <2>3. ~InFrame /\ ~InFrame'
    BY <1>2 DEF InFrame
  <2>4. /\ Section' = Section /\ FrameLen' = FrameLen /\ Sync' = Sync /\ Units' = Units
        /\ Cut' = Cut
        /\ \A k : Unit(k)' = Unit(k) /\ Slot(k)' = Slot(k) /\ J(k)' = J(k)
    BY <1>2 DEF Section, FrameLen, Sync, Units, Cut, Unit, Slot, J
  <2> QED
    BY <2>1, <2>2, <2>3, <2>4
<1>7. Ids' \subseteq Ids
  <2> SUFFICES ASSUME NEW i \in doneJobID' .. LastID
               PROVE  i \in doneJobID .. LastID
    BY <1>6 DEF Ids
  <2> QED
    BY <1>3, <1>4, <1>6
<1>8. ControlInv'
  <2>1. doneJobID' <= nextJobID' /\ LastID' < doneJobID' + Cardinality(DOMAIN jobs')
    <3>1. LastID < doneJobID + TableLen
      BY <1>1 DEF ControlInv, TableLen
    <3>2. LastID' < doneJobID' + TableLen'
      <4>1. LastID \in Int /\ TableLen \in Nat /\ LastID' = LastID /\ TableLen' = TableLen
        BY <1>6
      <4>2. PICK e \in Nat : e = doneJobID'
        BY <1>4
      <4>3. PICK l \in Int, len \in Nat, b \in Nat : l = LastID /\ len = TableLen /\ b = doneJobID
        BY <1>3, <4>1
      <4>4. l < b + len /\ b <= e
        BY <1>4, <3>1, <4>2, <4>3
      <4>5. l < e + len
        BY <4>4
      <4> QED
        BY <4>1, <4>2, <4>3, <4>5
    <3> QED
      BY <1>2, <1>4, <3>2 DEF TableLen
  <2> QED
    BY <1>1, <1>2, <2>1 DEF ControlInv, None, Error
<1>9. WorkerInv'
  <2>1. ASSUME NEW s, Owned(s)
        PROVE  Owned(s)'
    <3>1. s \in DOMAIN jobs /\ Posted(jobs[s].jobID) /\ s = Slot(jobs[s].jobID)
          /\ Active(jobs[s])
      BY <2>1 DEF Owned
    <3>2. jobs[s] \in JobType
      BY <1>1, <3>1, TableShape
    <3>3. PICK i \in Nat : i = jobs[s].jobID
      BY <3>2 DEF JobType
    <3>4. doneJobID <= i /\ i < nextJobID
      BY <3>1, <3>3 DEF Posted
    <3>5. i = doneJobID => doneJobID' = doneJobID
      <4>1. i = doneJobID => Oldest = jobs[s]
        BY <3>1, <3>3 DEF Oldest
      <4>2. i = doneJobID => StillRuns(Oldest)
        BY <3>1, <4>1 DEF StillRuns, Active
      <4> QED
        BY <1>2, <4>2
    <3>6. doneJobID' <= i
      BY <1>2, <1>3, <3>4, <3>5
    <3>7. Posted(i)'
      BY <1>2, <3>4, <3>6 DEF Posted
    <3> QED
      BY <1>2, <1>6, <3>1, <3>3, <3>7 DEF Owned, Active, Posted
  <2>2. \A t : Busy(t)' = Busy(t) /\ Mine(t)' = Mine(t)
    BY <1>2 DEF Busy, Mine
  <2>3. \A t \in 1 .. MaxThreads : Busy(t) => Owned(Mine(t))'
    <3> SUFFICES ASSUME NEW t \in 1 .. MaxThreads, Busy(t)
                 PROVE  Owned(Mine(t))'
      OBVIOUS
    <3>1. PICK s : s = Mine(t)
      OBVIOUS
    <3>2. Owned(s)' /\ s = Mine(t)'
      BY <1>1, <2>1, <2>2, <3>1 DEF WorkerInv
    <3> QED
      BY <3>2 DEF Owned
  <2>4. ~queueEmpty => Owned(queue[0] - 1)'
    <3> SUFFICES ASSUME ~queueEmpty
                 PROVE  Owned(queue[0] - 1)'
      OBVIOUS
    <3>1. PICK s : s = queue[0] - 1
      OBVIOUS
    <3>2. Owned(s)' /\ s = queue'[0] - 1
      BY <1>1, <1>2, <2>1, <3>1 DEF WorkerInv
    <3> QED
      BY <3>2 DEF Owned
  <2>5. \A t \in 1 .. MaxThreads : Stage(job[t], MyJob(t))' <=> Stage(job[t], MyJob(t))
    BY <1>2 DEF Stage, MyJob, Mine, Pristine
  <2>6. \A t \in 1 .. MaxThreads :
          /\ thread'[t] = "run" <=> job'[t] # "none"
          /\ thread'[t] # "none" => t <= threadCapacity'
          /\ Busy(t)' => running'[t] > 0 /\ Owned(Mine(t))' /\ Stage(job[t], MyJob(t))'
    BY <1>1, <1>2, <2>2, <2>3, <2>5 DEF WorkerInv
  <2>7. ~queueEmpty' => /\ queue'[0] > 0 /\ Owned(queue[0] - 1)' /\ Pristine(jobs[queue[0] - 1])'
                        /\ \A t \in 1 .. MaxThreads : Busy(t)' => running'[t] # queue'[0]
    <3>1. Pristine(jobs[queue[0] - 1])' <=> Pristine(jobs[queue[0] - 1])
      BY <1>2 DEF Pristine
    <3> QED
      BY <1>1, <1>2, <2>2, <2>4, <3>1 DEF WorkerInv
  <2>8. \A t, u \in 1 .. MaxThreads : Busy(t)' /\ Busy(u)' /\ t # u => running'[t] # running'[u]
    BY <1>1, <1>2, <2>2 DEF WorkerInv
  <2> QED
    BY <2>6, <2>7, <2>8 DEF WorkerInv
<1>10. JobsInv'
  <2>1. \A i : OutputInv(J(i))' <=> OutputInv(J(i))
    BY <1>6 DEF OutputInv, Made, Begin, Hdr, Active, Pristine
  <2>2. \A i : (Active(J(i))' <=> Active(J(i))) /\ (Pristine(J(i))' <=> Pristine(J(i)))
    BY <1>6 DEF Active, Pristine
  <2> QED
    BY <1>1, <1>2, <1>6, <1>7, <2>1, <2>2 DEF JobsInv
<1>11. DeliveryInv'
  <2>1. \A i \in Ids' : doneJobID' < i => J(i)'.flushed = 0
    <3> SUFFICES ASSUME NEW i \in Ids', doneJobID' < i
                 PROVE  J(i)'.flushed = 0
      OBVIOUS
    <3>1. i \in Ids /\ i \in Int
      BY <1>3, <1>6, <1>7 DEF Ids
    <3>2. doneJobID < i
      BY <1>3, <1>4, <3>1
    <3> QED
      BY <1>1, <1>6, <3>1, <3>2 DEF DeliveryInv
  <2> QED
    BY <1>1, <1>2, <1>6, <2>1 DEF DeliveryInv
<1>12. SerialInv'
  BY <1>1, <1>2, <1>6, <1>7 DEF SerialInv, Active
<1>13. RingInv'
  BY <1>1, <1>2, <1>6, <1>7 DEF RingInv, Active, Placed, Lo, Hi
<1>14. WindowInv' /\ CutsInv'
  <2>1. WindowInv'
    BY <1>1, <1>2, <1>6 DEF WindowInv
  <2>2. \A i : CutWell(J(i))' <=> CutWell(J(i))
    BY <1>6 DEF CutWell
  <2>3. CutsInv'
    BY <1>1, <1>2, <1>6, <2>2 DEF CutsInv
  <2> QED
    BY <2>1, <2>3
<1>15. CallInv' /\ StaleInv'
  BY <1>2, <1>6 DEF CallInv, StaleInv
<1> QED
  BY <1>5, <1>8, <1>9, <1>10, <1>11, <1>12, <1>13, <1>14, <1>15 DEF MTInv


\* ZSTDMT_releaseAllJobResources, when all jobs are done.
LEMMA ReleasedStep ==
  ASSUME MTInv, doneJobID = nextJobID, ReleaseAllJobResources,
         UNCHANGED <<queue, queueHead, queueTail, queueEmpty, threadCapacity, shutdown, thread,
              running, serial, job, fails, roundBuff, mem, inPos, doneJobID, nextJobID,
              jobReady, frameEnded, sumFlag, nbWorkers, frames, frame, delivered>>,
         client' \in [{mt} -> {"idle", "broadcast", "freeing", "freed"}],
         call' \in CallType, ret' \in {None, 0, 1, Error}, ~jobReady \/ ret' = Error,
         ~InFrame', call'.pc \in {"idle", "freed"},
         call'.pc = "idle" => ret' = Error /\ fails > 0 /\ ~shutdown /\ client'[mt] = "idle",
         call'.pc = "freed" => shutdown /\ (ret' = Error => fails > 0)
  PROVE  MTInv'
<1>1. /\ Types /\ PoolTypes /\ JobTypes /\ InputTypes /\ ControlInv /\ WorkerInv
      /\ WindowInv /\ DeliveryInv
  BY DEF MTInv, Types
<1>2. /\ jobs' = [s \in DOMAIN jobs |-> NullJob] /\ allJobsCompleted' = TRUE
      /\ inBuff' = [inBuff EXCEPT !.start = None, !.filled = 0]
  BY DEF ReleaseAllJobResources
<1>3. /\ DOMAIN jobs' = DOMAIN jobs /\ TableLen' = TableLen /\ TableLen \in Nat \ {0}
      /\ DOMAIN jobs = 0 .. TableLen - 1 /\ nextJobID \in Nat
  BY <1>1, <1>2, TableShape, Scalars DEF TableLen
<1>4. NullJob \in JobType
  BY DEF NullJob, JobType, NoBuffer, NullRange, RangeType, None, Error
<1>5. \E size \in TableSizes : jobs' \in [0 .. size - 1 -> JobType]
  <2>1. PICK size \in TableSizes : jobs \in [0 .. size - 1 -> JobType]
    BY <1>1 DEF JobTypes
  <2>2. jobs' \in [0 .. size - 1 -> JobType]
    BY <1>2, <1>4, <2>1
  <2> QED
    BY <2>2
<1>6. Types'
  <2>1. PoolTypes'
    BY <1>1 DEF PoolTypes
  <2>2. JobTypes'
    BY <1>1, <1>2, <1>5 DEF JobTypes
  <2>3. inBuff' \in [start : Int, filled : Nat, prefix : RangeType]
    <3>1. inBuff \in [start : Int, filled : Nat, prefix : RangeType]
      BY <1>1 DEF InputTypes
    <3>2. None \in Int /\ 0 \in Nat
      BY DEF None
    <3>3. PICK e \in Int, z \in Nat : e = None /\ z = 0
      BY <3>2
    <3>4. [inBuff EXCEPT !.start = e, !.filled = z]
          \in [start : Int, filled : Nat, prefix : RangeType]
      BY <3>1, <3>3
    <3> QED
      BY <1>2, <3>3, <3>4
  <2>4. InputTypes'
    BY <1>1, <2>3 DEF InputTypes, FrameLen
  <2> QED
    BY <2>1, <2>2, <2>4 DEF Types
<1>7. LastID' = nextJobID - 1
  BY DEF LastID, Ready
<1>8. ControlInv'
  <2>1. LastID' < doneJobID' + Cardinality(DOMAIN jobs')
    <3>1. nextJobID - 1 < nextJobID + TableLen
      BY <1>3
    <3> QED
      BY <1>3, <1>7, <3>1 DEF TableLen
  <2>2. doneJobID' <= nextJobID'
    BY <1>3
  <2>3. fails' > 0 => frame' = Len(frames')
    BY <1>1 DEF ControlInv
  <2>4. CASE call'.pc = "idle"
    BY <2>1, <2>2, <2>3, <2>4 DEF ControlInv, Error, None
  <2>5. CASE call'.pc = "freed"
    BY <2>1, <2>2, <2>3, <2>5 DEF ControlInv, Error, None
  <2> QED
    BY <2>4, <2>5
<1>9. WorkerInv'
  <2>1. queueEmpty /\ \A t \in 1 .. MaxThreads : ~Busy(t)
    BY <1>1, NoWork
  <2>2. \A t \in 1 .. MaxThreads : /\ ~Busy(t)'
                                   /\ thread'[t] = "run" <=> job'[t] # "none"
                                   /\ thread'[t] # "none" => t <= threadCapacity'
    BY <1>1, <2>1 DEF Busy, WorkerInv
  <2> QED
    BY <2>1, <2>2, NoWorkAfter
<1>10. WindowInv'
  BY <1>1 DEF WindowInv
<1>11. \A s \in DOMAIN jobs' : jobs'[s] = NullJob
  BY <1>2
<1>12. StaleInv'
  BY <1>11 DEF StaleInv, Stale, NullJob
<1>13. CutsInv'
  <2>1. \A i \in Larger(0, nextJobID' - Cardinality(DOMAIN jobs')) .. LastID' : J(i)' = NullJob
    <3> SUFFICES ASSUME NEW i \in Larger(0, nextJobID' - Cardinality(DOMAIN jobs')) .. LastID'
                 PROVE  J(i)' = NullJob
      OBVIOUS
    <3>1. i \in Nat
      <4>1. i \in Larger(0, nextJobID - TableLen) .. nextJobID - 1
        BY <1>3, <1>7 DEF TableLen
      <4> QED
        BY <1>3, <4>1 DEF Larger
    <3>2. Slot(i)' = Slot(i) /\ Slot(i) \in DOMAIN jobs
      BY <1>1, <1>3, <3>1, TableShape DEF Slot
    <3> QED
      BY <1>3, <1>11, <3>2 DEF J
  <2> QED
    BY <2>1 DEF CutsInv
<1>14. Len(delivered') <= Units' /\ \A k \in 1 .. Len(delivered') : delivered'[k] = Unit(k)'
  BY <1>1 DEF DeliveryInv, Units, Unit, FrameLen
<1> QED
  BY <1>6, <1>8, <1>9, <1>10, <1>12, <1>13, <1>14, RestStep

\* The caller returns an error, when all jobs are done.
LEMMA ReleaseAfterWaitStep ==
  ASSUME MTInv, ReleaseAfterWait
  PROVE  MTInv'
<1>1. Types /\ PoolTypes /\ ControlInv
  BY DEF MTInv, Types
<1>2. call.pc = "waitAll" /\ doneJobID = nextJobID /\ ReleaseAllJobResources
      /\ UNCHANGED <<poolState, workVars, roundBuff, mem, inPos, doneJobID, nextJobID,
                 jobReady, frameEnded, sumFlag, nbWorkers, frames, frame, delivered>>
  BY DEF ReleaseAfterWait, CallerAt
<1>3. call.after = "error" /\ fails > 0
  BY <1>1, <1>2 DEF ControlInv
<1>4. ret' = Error /\ call' = [call EXCEPT !.pc = "idle"]
  BY <1>3 DEF ReleaseAfterWait, Step
<1>5. ~shutdown /\ client[mt] = "idle" /\ call \in CallType
  BY <1>1, <1>2, Scalars DEF ControlInv
<1>6. call' \in CallType /\ call'.pc = "idle"
  BY <1>4, <1>5 DEF CallType
<1>7. ~InFrame' /\ ret' \in {None, 0, 1, Error}
  BY <1>4 DEF InFrame
<1>8. UNCHANGED <<queue, queueHead, queueTail, queueEmpty, threadCapacity, shutdown, thread,
              running, serial, job, fails, roundBuff, mem, inPos, doneJobID, nextJobID,
              jobReady, frameEnded, sumFlag, nbWorkers, frames, frame, delivered, client>>
  BY <1>2 DEF poolState, workVars
<1>9. client' \in [{mt} -> {"idle", "broadcast", "freeing", "freed"}]
  BY <1>1, <1>8 DEF PoolTypes
<1> QED
  BY <1>2, <1>3, <1>4, <1>5, <1>6, <1>7, <1>8, <1>9, ReleasedStep

\* POOL_free has joined the threads, ZSTDMT_freeCCtx releases what is left.
LEMMA FreeJobsStep ==
  ASSUME MTInv, FreeJobs
  PROVE  MTInv'
<1>1. Types /\ PoolTypes /\ ControlInv
  BY DEF MTInv, Types
<1>2. call.pc = "free" /\ POOL!FreeJoined(mt) /\ ReleaseAllJobResources
      /\ call' = [call EXCEPT !.pc = "freed"]
      /\ UNCHANGED <<workVars, roundBuff, mem, inPos, doneJobID, nextJobID, jobReady,
                 frameEnded, sumFlag, nbWorkers, frames, frame, delivered, ret>>
  BY DEF FreeJobs, CallerAt, Step
<1>3. /\ shutdown /\ doneJobID = nextJobID /\ (jobReady => ret = Error)
      /\ (ret = Error => fails > 0)
  BY <1>1, <1>2 DEF ControlInv
<1>4. call \in CallType /\ ret \in {None, 0, 1, Error} /\ jobReady \in BOOLEAN
  BY <1>1, Scalars
<1>5. call' \in CallType /\ call'.pc = "freed"
  BY <1>2, <1>4 DEF CallType
<1>6. ~InFrame' /\ ret' = ret
  BY <1>2, <1>5 DEF InFrame
<1>7. UNCHANGED <<queue, queueHead, queueTail, queueEmpty, threadCapacity, shutdown, thread,
              running, serial, job, fails, roundBuff, mem, inPos, doneJobID, nextJobID,
              jobReady, frameEnded, sumFlag, nbWorkers, frames, frame, delivered>>
  BY <1>2 DEF POOL!FreeJoined, POOL!poolVars, POOL!queueVars, POOL!sizeVars, workVars
<1>8. client' \in [{mt} -> {"idle", "broadcast", "freeing", "freed"}]
  <2>1. client' = [client EXCEPT ![mt] = "freed"]
    BY <1>2 DEF POOL!FreeJoined
  <2> QED
    BY <1>1, <2>1 DEF PoolTypes
<1>9. ~jobReady \/ ret' = Error
  BY <1>3, <1>4, <1>6
<1> QED
  BY <1>2, <1>3, <1>4, <1>5, <1>6, <1>7, <1>8, <1>9, ReleasedStep


\* When no job is left a step that touches neither the input nor the jobs
\* leaves nothing else to show: steps of the pool and of freeing it.
LEMMA PoolOnlyStep ==
  ASSUME MTInv, doneJobID = nextJobID, ~jobReady \/ ret = Error,
         call.pc \notin {"init", "waitAll"}, ControlInv', ~InFrame',
         UNCHANGED <<queue, queueHead, queueTail, queueEmpty, threadCapacity, running,
              jobs, inputVars, serial, job, fails, orderVars,
              nbWorkers, frames, frame, delivered, ret>>,
         thread' \in [1 .. MaxThreads -> ThreadStates],
         \A t \in 1 .. MaxThreads : /\ thread'[t] = "run" <=> thread[t] = "run"
                                    /\ thread'[t] # "none" => thread[t] # "none",
         shutdown' \in BOOLEAN, call' \in CallType,
         client' \in [{mt} -> {"idle", "broadcast", "freeing", "freed"}]
  PROVE  MTInv'
<1>1. /\ Types /\ PoolTypes /\ JobTypes /\ InputTypes /\ ControlInv /\ WorkerInv
      /\ WindowInv /\ DeliveryInv /\ CutsInv /\ StaleInv
  BY DEF MTInv, Types
<1>2. UNCHANGED <<inBuff, roundBuff, mem, inPos, doneJobID, nextJobID, jobReady, frameEnded,
                  allJobsCompleted, sumFlag>>
  BY DEF inputVars, orderVars
<1>3. PoolTypes'
  BY <1>1 DEF PoolTypes
<1>4. JobTypes'
  BY <1>1, <1>2 DEF JobTypes
<1>5. InputTypes'
  BY <1>1, <1>2 DEF InputTypes, FrameLen
<1>6. Types'
  BY <1>3, <1>4, <1>5 DEF Types
<1>7. WorkerInv'
  <2>1. queueEmpty /\ \A t \in 1 .. MaxThreads : ~Busy(t)
    BY <1>1, NoWork
  <2>2. \A t \in 1 .. MaxThreads : /\ ~Busy(t)'
                                   /\ thread'[t] = "run" <=> job'[t] # "none"
                                   /\ thread'[t] # "none" => t <= threadCapacity'
    BY <1>1, <2>1 DEF Busy, WorkerInv
  <2> QED
    BY <2>1, <2>2, NoWorkAfter
<1>8. /\ LastID' = LastID /\ Ids' = Ids /\ TableLen' = TableLen /\ Units' = Units
      /\ \A k : Unit(k)' = Unit(k) /\ Slot(k)' = Slot(k) /\ J(k)' = J(k)
      /\ Section' = Section /\ Sync' = Sync
  BY <1>2 DEF LastID, Ready, Ids, TableLen, Units, Unit, Slot, J, FrameLen, Section, Sync
<1>9. WindowInv'
  BY <1>1, <1>2 DEF WindowInv
<1>10. StaleInv'
  BY <1>1, <1>8 DEF StaleInv
<1>11. CutsInv'
  <2>1. \A i : CutWell(J(i))' <=> CutWell(J(i))
    BY <1>8 DEF CutWell
  <2> QED
    BY <1>1, <1>2, <1>8, <2>1 DEF CutsInv
<1>12. Len(delivered') <= Units' /\ \A k \in 1 .. Len(delivered') : delivered'[k] = Unit(k)'
  BY <1>1, <1>8 DEF DeliveryInv
<1>13. doneJobID' = nextJobID' /\ (~jobReady' \/ ret' = Error)
  BY <1>2
<1> QED
  BY <1>6, <1>7, <1>9, <1>10, <1>11, <1>12, <1>13, RestStep

\* ZSTDMT_freeCCtx after the last frame: POOL_free shuts the pool down.
LEMMA FreeCCtxStep ==
  ASSUME MTInv, CleanPlans, FreeCCtx
  PROVE  MTInv'
<1>1. Types /\ PoolTypes /\ ControlInv
  BY DEF MTInv, Types
<1>2. /\ call.pc = "idle" /\ FrameOver /\ POOL!FreeShutsDown(mt)
      /\ call' = [call EXCEPT !.pc = "free"]
      /\ UNCHANGED <<workVars, inputVars, tableVars, orderVars, callerVars>>
  BY DEF FreeCCtx, CallerAt, Step
<1>3. ret = Error \/ (ret = 0 /\ call.op = "end")
  BY <1>1, <1>2, FrameTyped DEF FrameOver, FrameEnds
<1>4. doneJobID = nextJobID /\ (~jobReady \/ ret = Error) /\ (ret = Error => fails > 0)
  BY <1>1, <1>2, <1>3 DEF ControlInv
<1>5. /\ shutdown' = TRUE /\ client' = [client EXCEPT ![mt] = "broadcast"]
      /\ UNCHANGED <<queue, queueHead, queueTail, queueEmpty, threadCapacity, running, thread>>
  BY <1>2 DEF POOL!FreeShutsDown, POOL!queueVars
<1>6. UNCHANGED <<jobs, serial, job, fails, nbWorkers, frames, frame, delivered, ret>>
  BY <1>2 DEF workVars, tableVars, callerVars
<1>7. UNCHANGED <<doneJobID, nextJobID, jobReady, frameEnded, allJobsCompleted, sumFlag>>
  BY <1>2 DEF orderVars
<1>8. call \in CallType
  BY <1>1, Scalars
<1>9. call' \in CallType /\ call'.pc = "free"
  BY <1>2, <1>8 DEF CallType
<1>10. ~InFrame'
  BY <1>9 DEF InFrame
<1>11. client' \in [{mt} -> {"idle", "broadcast", "freeing", "freed"}]
       /\ thread' \in [1 .. MaxThreads -> ThreadStates]
  BY <1>1, <1>5 DEF PoolTypes
<1>12. ControlInv'
  <2>1. LastID' = LastID
    BY <1>6, <1>7 DEF LastID, Ready
  <2> QED
    BY <1>1, <1>4, <1>5, <1>6, <1>7, <1>9, <2>1 DEF ControlInv
<1>13. shutdown' \in BOOLEAN /\ call.pc \notin {"init", "waitAll"}
  BY <1>2, <1>5
<1> QED
  BY <1>2, <1>4, <1>5, <1>6, <1>9, <1>10, <1>11, <1>12, <1>13, PoolOnlyStep

\* POOL_free wakes all threads.
LEMMA FreePoolStep ==
  ASSUME MTInv, FreePool
  PROVE  MTInv'
<1>1. Types /\ PoolTypes /\ ControlInv
  BY DEF MTInv, Types
<1>2. /\ call.pc = "free" /\ POOL!FreeBroadcasts(mt)
      /\ UNCHANGED <<workVars, inputVars, tableVars, orderVars, callerVars, call>>
  BY DEF FreePool, CallerAt
<1>3. doneJobID = nextJobID /\ (~jobReady \/ ret = Error) /\ shutdown
  <2>1. jobReady \in BOOLEAN
    BY <1>1, Scalars
  <2> QED
    BY <1>1, <1>2, <2>1 DEF ControlInv
<1>4. UNCHANGED <<queue, queueHead, queueTail, queueEmpty, threadCapacity, running, shutdown>>
  BY <1>2 DEF POOL!FreeBroadcasts, POOL!queueVars, POOL!sizeVars
<1>5. thread' = [t \in 1 .. MaxThreads |-> IF thread[t] = "waiting" THEN "lock" ELSE thread[t]]
  BY <1>2 DEF POOL!FreeBroadcasts, POOL!Threads, POOL!Awake
<1>6. /\ thread' \in [1 .. MaxThreads -> ThreadStates]
      /\ \A t \in 1 .. MaxThreads : /\ thread'[t] = "run" <=> thread[t] = "run"
                                    /\ thread'[t] # "none" => thread[t] # "none"
  BY <1>1, <1>5 DEF PoolTypes, ThreadStates
<1>7. client' = [d \in {mt} |-> "freeing"]
  BY <1>2 DEF POOL!FreeBroadcasts
<1>8. client' \in [{mt} -> {"idle", "broadcast", "freeing", "freed"}]
  BY <1>7
<1>9. UNCHANGED <<jobs, serial, job, fails, nbWorkers, frames, frame, delivered, ret, call>>
  BY <1>2 DEF workVars, tableVars, callerVars
<1>10. UNCHANGED <<doneJobID, nextJobID, jobReady, frameEnded, allJobsCompleted, sumFlag,
                   inBuff, inPos>>
  BY <1>2 DEF orderVars, inputVars
<1>11. ControlInv'
  <2>1. LastID' = LastID
    BY <1>9, <1>10 DEF LastID, Ready
  <2> QED
    BY <1>1, <1>2, <1>3, <1>4, <1>9, <1>10, <2>1 DEF ControlInv
<1>12. call' \in CallType /\ ~InFrame' /\ shutdown' \in BOOLEAN
  <2>1. call' = call /\ call \in CallType /\ shutdown' = shutdown /\ shutdown \in BOOLEAN
    BY <1>1, <1>4, <1>9, Scalars DEF PoolTypes
  <2> QED
    BY <1>2, <2>1 DEF InFrame
<1> QED
  BY <1>2, <1>3, <1>4, <1>6, <1>8, <1>9, <1>11, <1>12, PoolOnlyStep

\* A step that changes nothing.
LEMMA StutterStep ==
  ASSUME MTInv, UNCHANGED vars
  PROVE  MTInv'
<1>1. CallerKept /\ WorkersKept
  BY DEF vars, poolState, workVars, inputVars, tableVars, orderVars, callerVars,
         CallerKept, WorkersKept
<1> QED
  BY <1>1, AsleepOnly


\* There is a power of two for every number of workers.
LEMMA JobTableSizes ==
  ASSUME NEW w \in 1 .. MaxThreads
  PROVE  JobTableSize(w) \in TableSizes
<1>1. w \in 1 .. 256
  BY SizesAssumption
<1>2. \E n \in {4, 8, 16, 32, 64, 128, 256, 512} : n > w + 2 /\ n <= 2 * (w + 2)
  BY <1>1
<1>3. \E n \in TableSizes : n > w + 2 /\ n <= 2 * (w + 2)
  BY <1>2 DEF TableSizes
<1> QED
  BY <1>3 DEF JobTableSize

\* A table that is replaced is empty.
LEMMA TableExpanded ==
  ASSUME JobTypes, NEW w \in 1 .. MaxThreads, NEW table, table = ExpandedTable(jobs, w)
  PROVE  /\ \E size \in TableSizes : table \in [0 .. size - 1 -> JobType]
         /\ table = jobs \/ \A s \in DOMAIN table : table[s] = NullJob
<1>1. NullJob \in JobType
  BY DEF NullJob, JobType, NoBuffer, NullRange, RangeType, None, Error
<1>2. CASE table = jobs
  BY <1>2 DEF JobTypes
<1>3. CASE table = [s \in 0 .. JobTableSize(w) - 1 |-> NullJob]
  BY <1>1, <1>3, JobTableSizes
<1> QED
  BY <1>2, <1>3 DEF ExpandedTable

\* The size of a table of the type.
LEMMA TableCardinality ==
  ASSUME NEW size \in TableSizes, NEW table \in [0 .. size - 1 -> JobType]
  PROVE  Cardinality(DOMAIN table) = size /\ size \in Nat \ {0}
<1>1. size \in Nat \ {0}
  BY DEF TableSizes
<1> QED
  BY <1>1, FS_Interval

\* When all jobs are done and none is prepared the table holds nothing.
LEMMA AllStale ==
  ASSUME Types, StaleInv, doneJobID = nextJobID, ~jobReady, call.pc # "waitAll"
  PROVE  \A s \in DOMAIN jobs : Stale(jobs[s])
<1>1. nextJobID \in Nat
  BY Scalars
<1>2. LastID = nextJobID - 1
  BY DEF LastID, Ready
<1>3. Ids = {}
  <2>1. PICK m \in Nat : m = nextJobID
    BY <1>1
  <2>2. Ids = m .. m - 1
    BY <1>2, <2>1 DEF Ids
  <2> QED
    BY <2>2, NoneLeft
<1> QED
  BY <1>3 DEF StaleInv

\* The pool, the table and the number of workers for the next frame.
LEMMA NextFrameResizes ==
  ASSUME Types, WorkerInv, StaleInv, doneJobID = nextJobID, ~jobReady, call.pc = "idle",
         NEW w \in 1 .. MaxThreads,
         \/ UNCHANGED <<poolState, jobs, nbWorkers>>
         \/ ZSTDMTResize(w) /\ UNCHANGED <<client, adding, resizes>>
  PROVE  /\ threadCapacity' \in 1 .. MaxThreads /\ threadCapacity <= threadCapacity'
         /\ thread' \in [1 .. MaxThreads -> ThreadStates]
         /\ \A t \in 1 .. MaxThreads : thread'[t] = "run" <=> thread[t] = "run"
         /\ \A t \in 1 .. MaxThreads : thread'[t] # "none" => t <= threadCapacity'
         /\ UNCHANGED <<queue, queueHead, queueTail, queueEmpty, shutdown, running, client>>
         /\ nbWorkers' \in 1 .. MaxThreads
         /\ \E size \in TableSizes : jobs' \in [0 .. size - 1 -> JobType]
         /\ \A s \in DOMAIN jobs' : Stale(jobs'[s])
<1>1. PoolTypes /\ JobTypes /\ threadCapacity \in 1 .. MaxThreads
  BY DEF Types, PoolTypes
<1>2. \A s \in DOMAIN jobs : Stale(jobs[s])
  BY AllStale
<1>3. threadCapacity \in Nat /\ MaxThreads \in Nat
  BY <1>1, SizesAssumption
<1>4. CASE UNCHANGED <<poolState, jobs, nbWorkers>>
  <2>1. UNCHANGED <<queue, queueHead, queueTail, queueEmpty, shutdown, running, client,
                    thread, threadCapacity, jobs, nbWorkers>>
    BY <1>4 DEF poolState
  <2>2. /\ nbWorkers' \in 1 .. MaxThreads
        /\ \E size \in TableSizes : jobs' \in [0 .. size - 1 -> JobType]
    BY <1>1, <2>1 DEF JobTypes
  <2>3. thread' \in [1 .. MaxThreads -> ThreadStates]
    BY <1>1, <2>1 DEF PoolTypes
  <2>4. threadCapacity' \in 1 .. MaxThreads /\ threadCapacity <= threadCapacity'
    BY <1>1, <1>3, <2>1
  <2>5. \A t \in 1 .. MaxThreads : thread'[t] # "none" => t <= threadCapacity'
    BY <2>1 DEF WorkerInv
  <2> QED
    BY <1>2, <2>1, <2>2, <2>3, <2>4, <2>5
<1>5. CASE ZSTDMTResize(w) /\ UNCHANGED <<client, adding, resizes>>
  <2>1. POOL!Resize(w, w) /\ jobs' = ExpandedTable(jobs, w) /\ nbWorkers' = w
        /\ client' = client
    BY <1>5 DEF ZSTDMTResize
  <2>2. /\ threadCapacity' \in 1 .. MaxThreads /\ threadCapacity <= threadCapacity'
        /\ thread' \in [1 .. MaxThreads -> ThreadStates]
        /\ \A t \in 1 .. MaxThreads : thread'[t] = "run" <=>
              thread[t] = "run" /\ t \notin threadCapacity + 1 .. threadCapacity'
        /\ \A t \in 1 .. MaxThreads : thread'[t] # "none" =>
              thread[t] # "none" \/ t \in threadCapacity + 1 .. threadCapacity'
        /\ UNCHANGED <<queue, queueHead, queueTail, queueEmpty, shutdown, running>>
    BY <1>1, <2>1, Resizes
  <2>3. \A t \in 1 .. MaxThreads : thread[t] # "none" => t <= threadCapacity
    BY DEF WorkerInv
  <2>4. \A t \in 1 .. MaxThreads : thread[t] = "run" => t \notin threadCapacity + 1 .. threadCapacity'
    BY <1>3, <2>3
  <2>5. \A t \in 1 .. MaxThreads : thread'[t] # "none" => t <= threadCapacity'
    <3> SUFFICES ASSUME NEW t \in 1 .. MaxThreads, thread'[t] # "none"
                 PROVE  t <= threadCapacity'
      OBVIOUS
    <3>1. t <= threadCapacity \/ t \in threadCapacity + 1 .. threadCapacity'
      BY <2>2, <2>3
    <3>2. t \in Nat /\ threadCapacity' \in Nat /\ threadCapacity <= threadCapacity'
      BY <1>3, <2>2
    <3> QED
      BY <1>3, <3>1, <3>2
  <2>6. PICK table : table = jobs'
    OBVIOUS
  <2>7. /\ \E size \in TableSizes : table \in [0 .. size - 1 -> JobType]
        /\ table = jobs \/ \A s \in DOMAIN table : table[s] = NullJob
    BY <1>1, <2>1, <2>6, TableExpanded
  <2>8. Stale(NullJob)
    BY DEF Stale, NullJob
  <2>9. \A s \in DOMAIN table : Stale(table[s])
    <3>1. CASE table = jobs
      BY <1>2, <3>1
    <3>2. CASE \A s \in DOMAIN table : table[s] = NullJob
      BY <2>8, <3>2
    <3> QED
      BY <2>7, <3>1, <3>2
  <2>10. \A s \in DOMAIN jobs' : Stale(jobs'[s])
    BY <2>6, <2>9
  <2> QED
    BY <2>1, <2>2, <2>4, <2>5, <2>6, <2>7, <2>10
<1> QED
  BY <1>4, <1>5

\* The next frame is one of the plan.
LEMMA NextFrameTyped ==
  ASSUME Types, frame < Len(frames)
  PROVE  /\ frame + 1 \in 1 .. Len(frames) /\ frames[frame + 1] \in FrameType
         /\ frames[frame + 1].workers \in 1 .. MaxThreads /\ frames[frame + 1].len \in Nat
         /\ frames[frame + 1].section \in Nat \ {0}
<1>1. frames \in Plans /\ frame \in 1 .. Len(frames) /\ Len(frames) \in Nat
  BY Scalars
<1>2. frames \in Seq(FrameType)
  BY <1>1, PlansAssumption
<1>3. frame + 1 \in 1 .. Len(frames)
  BY <1>1
<1>4. frames[frame + 1] \in FrameType
  BY <1>2, <1>3
<1> QED
  BY <1>3, <1>4 DEF FrameType

\* The application ends a frame and begins the next one.
LEMMA NextFrameStep ==
  ASSUME MTInv, CleanPlans, NextFrame
  PROVE  MTInv'
<1>1. /\ Types /\ PoolTypes /\ JobTypes /\ InputTypes /\ ControlInv /\ WorkerInv
      /\ WindowInv /\ StaleInv
  BY DEF MTInv, Types
<1>2. /\ call.pc = "idle" /\ FrameOver /\ frame < Len(frames) /\ frame' = frame + 1
      /\ call' = [call EXCEPT !.pc = IF allJobsCompleted THEN "init" ELSE "waitAll",
                              !.after = "init"]
      /\ ret' = None /\ inPos' = 0 /\ delivered' = <<>>
      /\ \/ UNCHANGED <<poolState, jobs, nbWorkers>>
         \/ ZSTDMTResize(frames[frame + 1].workers) /\ UNCHANGED <<client, adding, resizes>>
      /\ UNCHANGED <<frames, serial, asleep, job, fails, inBuff, roundBuff, mem, orderVars>>
  BY DEF NextFrame, CallerAt
<1>3. frame \in Nat /\ Len(frames) \in Nat /\ fails \in Nat /\ call \in CallType
  BY <1>1, Scalars
<1>4. fails = 0
  BY <1>1, <1>2, <1>3 DEF ControlInv
<1>5. ret = 0 /\ call.op = "end"
  <2>1. ret # Error
    BY <1>1, <1>3, <1>4 DEF ControlInv
  <2>2. ~frames[frame].abandon
    BY <1>1, FrameTyped
  <2> QED
    BY <1>2, <2>1, <2>2 DEF FrameOver, FrameEnds
<1>6. doneJobID = nextJobID /\ ~jobReady /\ allJobsCompleted
  BY <1>1, <1>2, <1>5 DEF ControlInv
<1>7. call'.pc = "init" /\ call' \in CallType
  <2>1. call' = [call EXCEPT !.pc = "init", !.after = "init"]
    BY <1>2, <1>6
  <2> QED
    BY <1>3, <2>1 DEF CallType
<1>8. /\ frame + 1 \in 1 .. Len(frames) /\ frames[frame + 1] \in FrameType
      /\ frames[frame + 1].workers \in 1 .. MaxThreads /\ frames[frame + 1].len \in Nat
  BY <1>1, <1>2, NextFrameTyped
<1>9. /\ threadCapacity' \in 1 .. MaxThreads
      /\ thread' \in [1 .. MaxThreads -> ThreadStates]
      /\ \A t \in 1 .. MaxThreads : thread'[t] = "run" <=> thread[t] = "run"
      /\ \A t \in 1 .. MaxThreads : thread'[t] # "none" => t <= threadCapacity'
      /\ UNCHANGED <<queue, queueHead, queueTail, queueEmpty, shutdown, running, client>>
      /\ nbWorkers' \in 1 .. MaxThreads
      /\ \E size \in TableSizes : jobs' \in [0 .. size - 1 -> JobType]
      /\ \A s \in DOMAIN jobs' : Stale(jobs'[s])
  <2>1. PICK w \in 1 .. MaxThreads : w = frames[frame + 1].workers
    BY <1>8
  <2>2. \/ UNCHANGED <<poolState, jobs, nbWorkers>>
        \/ ZSTDMTResize(w) /\ UNCHANGED <<client, adding, resizes>>
    BY <1>2, <2>1
  <2> QED
    BY <1>1, <1>2, <1>6, <2>2, NextFrameResizes
<1>10. UNCHANGED <<doneJobID, nextJobID, jobReady, frameEnded, allJobsCompleted, sumFlag,
                   frames, serial, job, fails, inBuff, roundBuff, mem>>
  BY <1>2 DEF orderVars
<1>11. Types'
  <2>1. PoolTypes'
    BY <1>1, <1>9, <1>10 DEF PoolTypes
  <2>2. JobTypes'
    BY <1>1, <1>9, <1>10 DEF JobTypes
  <2>3. FrameLen' \in Nat
    BY <1>2, <1>8, <1>10 DEF FrameLen
  <2>4. inPos' \in 0 .. FrameLen'
    BY <1>2, <2>3
  <2>5. delivered' \in Seq(Int)
    BY <1>2
  <2>6. ret' \in {None, 0, 1, Error} /\ frame' \in 1 .. Len(frames')
    BY <1>2, <1>8, <1>10
  <2>7. InputTypes'
    BY <1>1, <1>7, <1>10, <2>4, <2>5, <2>6 DEF InputTypes
  <2> QED
    BY <2>1, <2>2, <2>7 DEF Types
<1>12. ~InFrame'
  BY <1>7 DEF InFrame
<1>13. ControlInv'
  <2>1. LastID' = nextJobID - 1
    BY <1>6, <1>10 DEF LastID, Ready
  <2>2. Cardinality(DOMAIN jobs') \in Nat \ {0}
    <3>1. PICK size \in TableSizes : jobs' \in [0 .. size - 1 -> JobType]
      BY <1>9
    <3>2. PICK table \in [0 .. size - 1 -> JobType] : table = jobs'
      BY <3>1
    <3> QED
      BY <3>2, TableCardinality
  <2>3. nextJobID \in Nat
    BY <1>1, Scalars
  <2>4. doneJobID' <= nextJobID' /\ LastID' < doneJobID' + Cardinality(DOMAIN jobs')
    <3>1. PICK m \in Nat, c \in Nat \ {0} : m = nextJobID /\ c = Cardinality(DOMAIN jobs')
      BY <2>2, <2>3
    <3>2. m <= m /\ m - 1 < m + c
      OBVIOUS
    <3> QED
      BY <1>6, <1>10, <2>1, <3>1, <3>2
  <2>5. ~shutdown /\ client[mt] = "idle"
    BY <1>1, <1>2 DEF ControlInv
  <2>6. ~(fails' > 0)
    BY <1>4, <1>10
  <2> QED
    BY <1>2, <1>4, <1>6, <1>7, <1>9, <1>10, <2>4, <2>5, <2>6 DEF ControlInv, None, Error
<1>14. WorkerInv'
  <2>1. queueEmpty /\ \A t \in 1 .. MaxThreads : ~Busy(t)
    BY <1>1, <1>6, NoWork
  <2>2. \A t \in 1 .. MaxThreads : /\ ~Busy(t)'
                                   /\ thread'[t] = "run" <=> job'[t] # "none"
                                   /\ thread'[t] # "none" => t <= threadCapacity'
    BY <1>1, <1>9, <1>10, <2>1 DEF Busy, WorkerInv
  <2>3. queueEmpty'
    BY <1>9, <2>1
  <2> QED
    BY <2>2, <2>3, NoWorkAfter
<1>15. WindowInv'
  BY <1>1, <1>10, <1>12 DEF WindowInv
<1>16. StaleInv' /\ CutsInv'
  BY <1>7, <1>9 DEF StaleInv, CutsInv
<1>17. /\ Len(delivered') <= Units'
       /\ \A k \in 1 .. Len(delivered') : delivered'[k] = Unit(k)'
  <2>1. Len(delivered') = 0 /\ FrameLen' \in Nat
    BY <1>2, <1>8, <1>10 DEF FrameLen
  <2>2. PICK n \in Nat : n = FrameLen'
    BY <2>1
  <2>3. 0 <= n + (IF Checksum THEN 3 ELSE 2)
    OBVIOUS
  <2>4. 0 <= Units'
    BY <2>2, <2>3 DEF Units
  <2>5. 1 .. Len(delivered') = {}
    BY <2>1
  <2> QED
    BY <2>1, <2>4, <2>5
<1> QED
  BY <1>6, <1>10, <1>11, <1>12, <1>13, <1>14, <1>15, <1>16, <1>17, RestStep


\* Products of naturals, and the places a fresh frame has.
LEMMA Product ==
  ASSUME NEW a \in Nat, NEW b \in Nat
  PROVE  a * b \in Nat
OBVIOUS

\* The round buffer holds two sections beyond what is needed at once.
LEMMA CapacityFits ==
  ASSUME Types
  PROVE  RoundCapacity(nbWorkers) \in Nat /\ 2 * Section <= RoundCapacity(nbWorkers)
<1>1. Section \in Nat /\ nbWorkers \in Nat
  BY Scalars, SizesAssumption DEF Types, JobTypes
<1>2. PICK s \in Nat, m \in Nat : s = Section /\ m = Section * nbWorkers
  BY <1>1, Product
<1>3. PICK d \in Nat : d = IF Ldm THEN WindowSize ELSE 0
  BY SizesAssumption
<1>4. PICK l \in Nat : l = Larger(d, m)
  BY <1>2, <1>3 DEF Larger
<1>5. PICK f \in {2, 3} : f = IF PrefixSize > 0 THEN 3 ELSE 2
  OBVIOUS
<1>6. l + s * f \in Nat /\ 2 * s <= l + s * f
  <2>1. CASE f = 2
    BY <2>1
  <2>2. CASE f = 3
    BY <2>2
  <2> QED
    BY <2>1, <2>2, <1>5
<1> QED
  BY <1>2, <1>3, <1>4, <1>5, <1>6 DEF RoundCapacity

\* A new serial state.
LEMMA NewSerialIs ==
  /\ NewSerial \in SerialType /\ NewSerial.nextJobID = 0 /\ NewSerial.hashed = 0
  /\ NewSerial.ldmWindow = NewSerial.window
  /\ NewSerial.window.lowLimit = 2 /\ NewSerial.window.dictLimit = 2
  /\ WIN!EndIndex(NewSerial.window) = 2
BY DEF NewSerial, SerialType, WindowType, WIN!WindowInit, WIN!EndIndex

\* ZSTDMT_initCStream_internal begins a frame.
LEMMA InitCStreamStep ==
  ASSUME MTInv, InitCStream
  PROVE  MTInv'
<1>1. /\ Types /\ PoolTypes /\ JobTypes /\ InputTypes /\ ControlInv /\ WorkerInv
      /\ StaleInv
  BY DEF MTInv, Types
<1>2. PICK capacity : capacity = Larger(roundBuff.capacity, RoundCapacity(nbWorkers))
  OBVIOUS
<1>3. /\ call.pc = "init"
      /\ roundBuff' = [capacity |-> capacity, pos |-> 0]
      /\ mem' = IF roundBuff.capacity < capacity
                THEN [a \in 0 .. capacity - 1 |-> None] ELSE mem
      /\ inBuff' = [start |-> None, filled |-> 0, prefix |-> NullRange]
      /\ doneJobID' = 0 /\ nextJobID' = 0
      /\ frameEnded' = FALSE /\ allJobsCompleted' = FALSE
      /\ sumFlag' = Checksum
      /\ serial' = NewSerial
      /\ call' = [call EXCEPT !.pc = "idle"]
      /\ UNCHANGED <<poolState, asleep, job, fails, cctxAvail, tableVars, jobReady,
                    inPos, callerVars>>
  BY <1>2 DEF InitCStream, CallerAt, Step
<1>4. UNCHANGED <<queue, queueHead, queueTail, queueEmpty, threadCapacity, shutdown, thread,
                  running, client, job, fails, jobs, jobReady, inPos, nbWorkers, frames,
                  frame, delivered, ret>>
  BY <1>3 DEF poolState, tableVars, callerVars
<1>5. /\ doneJobID = nextJobID /\ ~jobReady /\ inPos = 0 /\ delivered = <<>> /\ ret = None
      /\ fails = 0 /\ ~shutdown /\ client[mt] = "idle"
  BY <1>1, <1>3 DEF ControlInv
<1>6. /\ call \in CallType /\ roundBuff.capacity \in Nat /\ Section \in Nat \ {0}
      /\ FrameLen \in Nat /\ mem \in [0 .. roundBuff.capacity - 1 -> Int]
  BY <1>1, Scalars
<1>7. call'.pc = "idle" /\ call' \in CallType
  BY <1>3, <1>6 DEF CallType
<1>8. capacity \in Nat /\ roundBuff.capacity <= capacity /\ 2 * Section <= capacity
  <2>1. PICK n \in Nat : n = RoundCapacity(nbWorkers) /\ 2 * Section <= n
    BY <1>1, CapacityFits
  <2>2. capacity = Larger(roundBuff.capacity, n)
    BY <1>2, <2>1
  <2> QED
    BY <1>6, <2>1, <2>2 DEF Larger
<1>9. /\ Section' = Section /\ FrameLen' = FrameLen /\ Sync' = Sync /\ Units' = Units
      /\ TableLen' = TableLen
  BY <1>4 DEF Section, FrameLen, Sync, Units, TableLen
<1>10. TableLen \in Nat \ {0}
  BY <1>1, TableShape
<1>11. LastID' = -1
  BY <1>3, <1>4, <1>5 DEF LastID, Ready
<1>12. Ids' = {}
  BY <1>3, <1>11 DEF Ids
<1>13. inBuff'.start = None /\ inBuff'.filled = 0 /\ inBuff'.prefix.size = 0
       /\ roundBuff'.capacity = capacity /\ roundBuff'.pos = 0
  BY <1>3 DEF NullRange
<1>14. Cut' = 0
  BY <1>4, <1>5, <1>13 DEF Cut
<1>15. Types'
  <2>1. PoolTypes'
    BY <1>1, <1>4 DEF PoolTypes
  <2>2. JobTypes'
    <3>1. sumFlag' \in BOOLEAN /\ doneJobID' \in Nat /\ nextJobID' \in Nat
          /\ frameEnded' \in BOOLEAN /\ allJobsCompleted' \in BOOLEAN
      BY <1>3, SizesAssumption
    <3> QED
      BY <1>1, <1>4, <3>1 DEF JobTypes
  <2>3. roundBuff' \in [capacity : Nat, pos : Nat]
    BY <1>3, <1>8
  <2>4. mem' \in [0 .. roundBuff'.capacity - 1 -> Int]
    <3>1. None \in Int
      BY DEF None
    <3>2. CASE roundBuff.capacity < capacity
      BY <1>3, <1>13, <3>1, <3>2
    <3>3. CASE ~(roundBuff.capacity < capacity)
      <4>1. roundBuff.capacity = capacity
        BY <1>6, <1>8, <3>3
      <4> QED
        BY <1>3, <1>6, <1>13, <3>3, <4>1
    <3> QED
      BY <3>2, <3>3
  <2>5. inBuff' \in [start : Int, filled : Nat, prefix : RangeType]
    BY <1>3 DEF RangeType, NullRange, None
  <2>6. serial' \in SerialType
    BY <1>3, NewSerialIs
  <2>7. InputTypes'
    BY <1>1, <1>4, <1>7, <1>9, <2>3, <2>4, <2>5, <2>6 DEF InputTypes
  <2> QED
    BY <2>1, <2>2, <2>7 DEF Types
<1>16. ControlInv'
  <2>1. doneJobID' <= nextJobID' /\ LastID' < doneJobID' + Cardinality(DOMAIN jobs')
    <3>1. PICK c \in Nat \ {0} : c = TableLen
      BY <1>10
    <3>2. 0 <= 0 /\ -1 < 0 + c
      OBVIOUS
    <3> QED
      BY <1>3, <1>9, <1>11, <3>1, <3>2 DEF TableLen
  <2>2. ~(fails' > 0)
    BY <1>4, <1>5
  <2> QED
    BY <1>4, <1>5, <1>7, <2>1, <2>2 DEF ControlInv, None, Error
<1>17. CallInv'
  <2>1. Cut' >= 0 /\ (LastID' < 0 <=> Cut' = 0)
    BY <1>11, <1>14
  <2> QED
    BY <1>3, <1>4, <1>5, <1>7, <1>13, <2>1 DEF CallInv, None
<1>18. queueEmpty /\ (\A t \in 1 .. MaxThreads : ~Busy(t))
       /\ \A t \in 1 .. MaxThreads : job[t] \in {"none", "return"}
  BY <1>1, <1>5, NoWork
<1>19. WorkerInv'
  <2>1. \A t \in 1 .. MaxThreads : /\ ~Busy(t)'
                                   /\ thread'[t] = "run" <=> job'[t] # "none"
                                   /\ thread'[t] # "none" => t <= threadCapacity'
    BY <1>1, <1>4, <1>18 DEF Busy, WorkerInv
  <2> QED
    BY <1>4, <1>18, <2>1, NoWorkAfter
<1>20. JobsInv' /\ DeliveryInv'
  <2>1. Len(delivered') = 0
    BY <1>4, <1>5
  <2>2. 0 <= Units'
    <3>1. PICK n \in Nat : n = FrameLen
      BY <1>6
    <3>2. 0 <= n + (IF Checksum THEN 3 ELSE 2)
      OBVIOUS
    <3> QED
      BY <1>9, <3>1, <3>2 DEF Units
  <2>3. Flushed' = 0
    BY <1>3, <1>11 DEF Flushed
  <2>4. 1 .. Len(delivered') = {}
    BY <2>1
  <2> QED
    BY <1>12, <2>1, <2>2, <2>3, <2>4 DEF JobsInv, DeliveryInv
<1>21. serial'.nextJobID = 0 /\ serial'.hashed = 0 /\ CutAt(serial.nextJobID)' = 0
  <2>1. serial'.nextJobID = 0 /\ serial'.hashed = 0
    BY <1>3, NewSerialIs
  <2> QED
    BY <1>11, <1>14, <2>1 DEF CutAt
<1>22. SerialInv'
  <2>1. \A t \in 1 .. MaxThreads :
          ~(thread'[t] = "run" /\ job'[t] \in {"resources", "serial"})
    BY <1>4, <1>18
  <2>2. queueEmpty'
    BY <1>4, <1>18
  <2> QED
    BY <1>3, <1>12, <1>21, <2>1, <2>2 DEF SerialInv
<1>23. RingInv'
  <2>1. LapsInv' /\ RangeInv'
    BY <1>7, <1>12 DEF LapsInv, RangeInv
  <2>2. FirstLap'
    <3>1. (-1 + 1) * Section = 0
      BY <1>6
    <3> QED
      BY <1>9, <1>11, <1>12, <1>13, <3>1 DEF FirstLap
  <2>3. InBuffInv'
    <3>1. 2 * Section' <= roundBuff'.capacity /\ roundBuff'.pos <= roundBuff'.capacity
      BY <1>8, <1>9, <1>13
    <3>2. inBuff'.filled <= Section' /\ inBuff'.prefix.size <= Section'
          /\ inBuff'.prefix.size <= roundBuff'.pos
      BY <1>6, <1>9, <1>13
    <3>3. roundBuff'.pos - inBuff'.prefix.size .. roundBuff'.pos + inBuff'.filled - 1 = {}
      BY <1>13
    <3>4. ~(inBuff'.prefix.size > 0) /\ ~(inBuff'.start # None)
      BY <1>13
    <3> QED
      BY <2>2, <3>1, <3>2, <3>3, <3>4 DEF InBuffInv
  <2> QED
    BY <1>12, <2>1, <2>3 DEF RingInv
<1>24. WindowInv'
  <2>1. /\ serial'.ldmWindow = serial'.window
        /\ serial'.window.lowLimit = 2 /\ serial'.window.dictLimit = 2
        /\ WIN!EndIndex(serial'.window) = 2
    BY <1>3, NewSerialIs
  <2>2. serial'.window.lowLimit .. WIN!EndIndex(serial'.window) - 1 = {}
    BY <2>1
  <2>3. WIN!EndIndex(serial'.window) = CutAt(serial.nextJobID)' + 2
    BY <1>21, <2>1
  <2> QED
    BY <2>1, <2>2, <2>3 DEF WindowInv
<1>25. CutsInv'
  <2>1. Larger(0, nextJobID' - Cardinality(DOMAIN jobs')) .. LastID' = {}
    <3>1. PICK c \in Nat : c = Cardinality(DOMAIN jobs')
      BY <1>9, <1>10 DEF TableLen
    <3>2. Larger(0, 0 - c) .. -1 = {}
      BY DEF Larger
    <3> QED
      BY <1>3, <1>11, <3>1, <3>2
  <2>2. Cut' + RsyncMin + 1 .. inPos' - 1 = {}
    <3>1. 0 + RsyncMin + 1 .. 0 - 1 = {}
      BY SizesAssumption
    <3> QED
      BY <1>4, <1>5, <1>14, <3>1
  <2> QED
    BY <1>7, <2>1, <2>2 DEF CutsInv
<1>26. StaleInv'
  <2>1. \A s \in DOMAIN jobs : Stale(jobs[s])
    BY <1>1, <1>3, <1>5, AllStale
  <2> QED
    BY <1>4, <2>1 DEF StaleInv
<1> QED
  BY <1>15, <1>16, <1>17, <1>19, <1>20, <1>22, <1>23, <1>24, <1>25, <1>26 DEF MTInv


-----------------------------------------------------------------------------
(* ----------------------------- the invariant ---------------------------- *)
\* ZSTDMT_createCCtx_advanced leaves a context to which nothing was posted.
LEMMA InitMTInv ==
  ASSUME Init
  PROVE  MTInv
<1>1. /\ frames \in Plans /\ POOL!PoolInit(frames[1].workers)
      /\ client = [c \in {mt} |-> "idle"]
      /\ jobs = [s \in 0 .. JobTableSize(frames[1].workers) - 1 |-> NullJob]
      /\ nbWorkers = frames[1].workers
      /\ inBuff = [start |-> None, filled |-> 0, prefix |-> NullRange]
      /\ roundBuff = [capacity |-> 0, pos |-> 0] /\ mem = <<>>
      /\ doneJobID = 0 /\ nextJobID = 0
      /\ jobReady = FALSE /\ frameEnded = FALSE /\ allJobsCompleted = TRUE
      /\ sumFlag = FALSE
      /\ call = [pc |-> "init", op |-> "continue", end |-> 0, room |-> 0, fwd |-> FALSE,
                 inUse |-> NullRange, after |-> "init"]
      /\ frame = 1 /\ inPos = 0 /\ delivered = <<>> /\ ret = None
      /\ serial = NewSerial /\ job = [t \in 1 .. MaxThreads |-> "none"] /\ fails = 0
  BY DEF Init
<1>2. frames \in Seq(FrameType) /\ frames # <<>>
  BY <1>1, PlansAssumption
<1>3. Len(frames) \in Nat /\ Len(frames) > 0
  BY <1>2
<1>4. frames[1] \in FrameType
  BY <1>2, <1>3
<1>5. frames[1].workers \in 1 .. MaxThreads /\ FrameLen \in Nat
  BY <1>1, <1>4 DEF FrameType, FrameLen
<1>6. PICK w \in 1 .. MaxThreads : w = frames[1].workers
  BY <1>5
<1>7. /\ queue = [i \in 0 .. 0 |-> 0] /\ queueHead = 0 /\ queueTail = 0
      /\ queueEmpty = TRUE /\ threadCapacity = w /\ shutdown = FALSE
      /\ thread = [t \in 1 .. MaxThreads |-> IF t <= w THEN "lock" ELSE "none"]
      /\ running = [t \in 1 .. MaxThreads |-> 0]
  BY <1>1, <1>6 DEF POOL!PoolInit, POOL!Threads, POOL!NoJob
<1>8. PICK size \in TableSizes : size = JobTableSize(w)
  BY JobTableSizes
<1>9. NullJob \in JobType
  BY DEF NullJob, JobType, NoBuffer, NullRange, RangeType, None, Error
<1>10. jobs \in [0 .. size - 1 -> JobType] /\ \A s \in DOMAIN jobs : jobs[s] = NullJob
  BY <1>1, <1>6, <1>8, <1>9
<1>11. Cardinality(DOMAIN jobs) = size /\ size \in Nat \ {0}
  BY <1>10, TableCardinality
<1>12. Types
  <2>1. PoolTypes
    <3>1. queue \in [{0} -> Nat] /\ running \in [1 .. MaxThreads -> Nat]
      BY <1>7
    <3>2. thread \in [1 .. MaxThreads -> ThreadStates] /\ job \in [1 .. MaxThreads -> Places]
      BY <1>1, <1>7 DEF ThreadStates, Places
    <3> QED
      BY <1>1, <1>7, <3>1, <3>2 DEF PoolTypes
  <2>2. JobTypes
    BY <1>1, <1>6, <1>10 DEF JobTypes
  <2>3. inBuff \in [start : Int, filled : Nat, prefix : RangeType]
    BY <1>1 DEF RangeType, NullRange, None
  <2>4. roundBuff \in [capacity : Nat, pos : Nat] /\ mem \in [0 .. roundBuff.capacity - 1 -> Int]
    BY <1>1
  <2>5. call \in CallType
    BY <1>1 DEF CallType, RangeType, NullRange, None
  <2>6. serial \in SerialType
    BY <1>1, NewSerialIs
  <2>7. delivered \in Seq(Int) /\ ret \in {None, 0, 1, Error} /\ inPos \in 0 .. FrameLen
        /\ frame \in 1 .. Len(frames)
    BY <1>1, <1>3, <1>5
  <2>8. InputTypes
    BY <1>1, <2>3, <2>4, <2>5, <2>6, <2>7 DEF InputTypes
  <2> QED
    BY <2>1, <2>2, <2>8 DEF Types
<1>13. LastID = -1
  BY <1>1 DEF LastID, Ready
<1>14. Ids = {}
  BY <1>1, <1>13 DEF Ids
<1>15. ~InFrame
  BY <1>1 DEF InFrame
<1>16. ControlInv
  <2>1. LastID < doneJobID + Cardinality(DOMAIN jobs)
    BY <1>1, <1>11, <1>13
  <2> QED
    BY <1>1, <1>7, <2>1 DEF ControlInv, None, Error
<1>17. WorkerInv
  <2>1. \A t \in 1 .. MaxThreads : thread[t] # "run" /\ job[t] = "none"
    BY <1>1, <1>7
  <2>2. \A t \in 1 .. MaxThreads : thread[t] # "none" => t <= threadCapacity
    BY <1>7
  <2> QED
    BY <1>7, <2>1, <2>2 DEF WorkerInv, Busy
<1>18. WindowInv
  <2>1. serial.window.lowLimit .. WIN!EndIndex(serial.window) - 1 = {}
    BY <1>1, NewSerialIs
  <2> QED
    BY <1>1, <1>15, <2>1, NewSerialIs DEF WindowInv
<1>19. StaleInv
  BY <1>10 DEF StaleInv, Stale, NullJob
<1>20. DeliveryInv
  <2>1. Len(delivered) = 0
    BY <1>1
  <2>2. 1 .. Len(delivered) = {}
    BY <2>1
  <2>3. 0 <= Units
    BY <1>5 DEF Units
  <2> QED
    BY <1>14, <1>15, <2>1, <2>2, <2>3 DEF DeliveryInv
<1>21. CallInv /\ JobsInv /\ SerialInv /\ RingInv /\ CutsInv
  BY <1>1, <1>14, <1>15 DEF CallInv, JobsInv, SerialInv, RingInv, CutsInv
<1> QED
  BY <1>12, <1>16, <1>17, <1>18, <1>19, <1>20, <1>21 DEF MTInv

\* Every step of the workers and of the caller preserves the invariant.
LEMMA NextMTInv ==
  ASSUME CleanPlans, MTInv, [Next]_vars
  PROVE  MTInv'
<1>1. ASSUME NEW t \in 1 .. MaxThreads, Worker(t)
      PROVE  MTInv'
  BY <1>1, PopsJobStep, PoolThreadsStep, JobResourcesStep, JobWaitsStep, JobSerialStep,
     JobFailsStep, JobChunkStep, JobEnsureFinishedStep, JobReportsStep, JobReturnsStep
  DEF Worker
<1>2. CASE Application
  BY <1>2, CallStep
<1>3. CASE TryGetInputRange \/ WaitForLdm \/ MovePrefix \/ TakeRange \/ LoadInput
  BY <1>3, TryGetInputRangeStep, CallerSleepsSteps, MovePrefixStep, TakeRangeStep, LoadInputStep
<1>4. CASE NoNewJob \/ LastEmptyBlock \/ CreateCompressionJob
  BY <1>4, NoNewJobStep, LastEmptyBlockStep, CreateCompressionJobStep
<1>5. CASE WaitForOutput \/ FlushFindsError \/ FlushProduced
  BY <1>5, CallerSleepsSteps, FlushFindsErrorStep, FlushProducedStep
<1>6. CASE WaitForJob \/ ReleaseAfterWait \/ InitCStream \/ NextFrame
  BY <1>6, WaitForJobStep, ReleaseAfterWaitStep, InitCStreamStep, NextFrameStep
<1>7. CASE FreeCCtx \/ FreePool \/ FreeJobs
  BY <1>7, FreeCCtxStep, FreePoolStep, FreeJobsStep
<1>8. CASE Terminated \/ UNCHANGED vars
  BY <1>8, StutterStep DEF Terminated
<1> QED
  BY <1>1, <1>2, <1>3, <1>4, <1>5, <1>6, <1>7, <1>8 DEF Next, Caller, InCall

\* Nothing is written into the table after an error, until the context is freed.
LEMMA NextErrorInv ==
  ASSUME CleanPlans, MTInv, ErrorInv, [Next]_vars
  PROVE  ErrorInv'
<1>1. Types /\ ControlInv /\ WorkerInv
  BY DEF MTInv
<1>2. ret = Error => /\ call.pc \in {"idle", "free", "freed"}
                     /\ \A t \in 1 .. MaxThreads : job[t] \in {"none", "return"}
  BY <1>1, NoWork DEF ControlInv
<1>3. ASSUME NEW t \in 1 .. MaxThreads, Worker(t)
      PROVE  ErrorInv'
  <2>1. ret' = ret
    BY <1>3 DEF Worker, PopsJob, PoolThreadStep, JobResources, JobWaits, JobSerial, JobFails,
       JobChunk, JobEnsureFinished, JobReports, JobReturns, callerVars
  <2>2. CASE PopsJob(t) \/ PoolThreadStep(t) \/ JobWaits(t) \/ JobSerial(t)
             \/ JobEnsureFinished(t) \/ JobReturns(t)
    <3>1. jobs' = jobs
      BY <2>2 DEF PopsJob, PoolThreadStep, JobWaits, JobSerial, JobEnsureFinished, JobReturns,
         tableVars
    <3> QED
      BY <2>1, <3>1 DEF ErrorInv
  <2>3. CASE JobResources(t) \/ JobFails(t) \/ JobChunk(t) \/ JobReports(t)
    <3>1. job[t] \in {"resources", "compress", "report"}
      BY <2>3 DEF JobResources, JobFails, JobChunk, JobReports, At
    <3> QED
      BY <1>2, <2>1, <3>1 DEF ErrorInv
  <2> QED
    BY <1>3, <2>2, <2>3 DEF Worker
<1>4. CASE InCall
  <2>1. CASE ReleaseAfterWait \/ FreeJobs
    BY <2>1 DEF ReleaseAfterWait, FreeJobs, ReleaseAllJobResources, ErrorInv
  <2>2. CASE FlushProduced
    BY <2>2 DEF FlushProduced, ErrorInv, Error
  <2>3. CASE FreePool
    BY <2>3 DEF FreePool, ErrorInv, tableVars, callerVars
  <2>4. CASE TryGetInputRange \/ WaitForLdm \/ MovePrefix \/ TakeRange \/ LoadInput
             \/ NoNewJob \/ LastEmptyBlock \/ CreateCompressionJob
             \/ WaitForOutput \/ FlushFindsError \/ WaitForJob \/ InitCStream
    <3>1. ret' = ret
      BY <2>4 DEF TryGetInputRange, WaitForLdm, MovePrefix, TakeRange, LoadInput,
         NoNewJob, LastEmptyBlock, CreateCompressionJob, WaitForOutput, FlushFindsError,
         WaitForJob, InitCStream, callerVars
    <3>2. call.pc \notin {"idle", "free", "freed"}
      BY <2>4 DEF TryGetInputRange, WaitForLdm, MovePrefix, TakeRange, LoadInput,
         NoNewJob, LastEmptyBlock, CreateCompressionJob, WaitForOutput, FlushFindsError,
         WaitForJob, InitCStream, CallerAt, MayFlush
    <3> QED
      BY <1>2, <3>1, <3>2 DEF ErrorInv
  <2> QED
    BY <1>4, <2>1, <2>2, <2>3, <2>4 DEF InCall
<1>5. CASE Application \/ NextFrame
  BY <1>5 DEF Application, Call, NextFrame, ErrorInv, None, Error
<1>6. CASE FreeCCtx \/ Terminated \/ UNCHANGED vars
  BY <1>6 DEF FreeCCtx, Terminated, vars, tableVars, callerVars, ErrorInv
<1> QED
  BY <1>3, <1>4, <1>5, <1>6 DEF Next, Caller


-----------------------------------------------------------------------------
(* ------------------------- what the invariant says ---------------------- *)
\* The frame as it should be delivered, unit by unit.
LEMMA WholeFrameUnits ==
  ASSUME Types
  PROVE  /\ WholeFrame \in Seq(Int) /\ Len(WholeFrame) = Units
         /\ \A k \in 1 .. Units : WholeFrame[k] = Unit(k)
<1>1. PICK n \in Nat : n = FrameLen
  BY Scalars
<1>2. PICK p : p = Positions(n)
  OBVIOUS
<1>3. p \in Seq(Int) /\ Len(p) = n /\ \A i \in 1 .. n : p[i] = i - 1
  BY <1>2 DEF Positions
<1>4. PICK h \in Int, e \in Int, s \in Int : h = HdrMark /\ e = EndMark /\ s = SumMark
  BY DEF HdrMark, EndMark, SumMark
<1>5. PICK a : a = <<h>> \o p \o <<e>>
  OBVIOUS
<1>6. a \in Seq(Int) /\ Len(a) = n + 2
  BY <1>3, <1>5
<1>7. /\ a[1] = h /\ a[n + 2] = e
      /\ \A k \in 2 .. n + 1 : a[k] = k - 2
  BY <1>3, <1>5
<1>8. PICK b : b = a \o <<s>>
  OBVIOUS
<1>9. /\ b \in Seq(Int) /\ Len(b) = n + 3 /\ b[n + 3] = s
      /\ \A k \in 1 .. n + 2 : b[k] = a[k]
  BY <1>6, <1>8
<1>10. WholeFrame = IF Checksum THEN b ELSE a
  <2>1. a \o <<>> = a
    BY <1>6
  <2>2. WholeFrame = <<h>> \o p \o <<e>> \o IF Checksum THEN <<s>> ELSE <<>>
    BY <1>1, <1>2, <1>4 DEF WholeFrame
  <2>3. CASE Checksum
    BY <1>5, <1>8, <2>2, <2>3
  <2>4. CASE ~Checksum
    BY <1>5, <2>1, <2>2, <2>4
  <2> QED
    BY <2>3, <2>4
<1>11. Units = IF Checksum THEN n + 3 ELSE n + 2
  BY <1>1 DEF Units
<1>12. ASSUME NEW k \in 1 .. Units
       PROVE  WholeFrame[k] = Unit(k)
  <2>1. Unit(k) = IF k = 1 THEN h ELSE IF k <= n + 1 THEN k - 2 ELSE IF k = n + 2 THEN e ELSE s
    BY <1>1, <1>4 DEF Unit
  <2>2. k \in 1 .. n + 3 /\ (~Checksum => k \in 1 .. n + 2)
    BY <1>11
  <2>3. CASE k \in 1 .. n + 2
    <3>1. WholeFrame[k] = a[k]
      BY <1>9, <1>10, <2>3
    <3>2. k = 1 \/ k \in 2 .. n + 1 \/ k = n + 2
      BY <2>3
    <3>3. CASE k = 1
      BY <1>7, <2>1, <3>1, <3>3
    <3>4. CASE k \in 2 .. n + 1
      BY <1>7, <2>1, <3>1, <3>4
    <3>5. CASE k = n + 2
      BY <1>7, <2>1, <3>1, <3>5
    <3> QED
      BY <3>2, <3>3, <3>4, <3>5
  <2>4. CASE k = n + 3
    BY <1>9, <1>10, <2>1, <2>2, <2>4
  <2> QED
    BY <2>2, <2>3, <2>4
<1> QED
  BY <1>6, <1>9, <1>10, <1>11, <1>12

\* A sequence that agrees with another up to its length is a prefix of it.
LEMMA Agrees ==
  ASSUME NEW s \in Seq(Int), NEW t \in Seq(Int), Len(s) <= Len(t),
         \A k \in 1 .. Len(s) : s[k] = t[k]
  PROVE  IsPrefix(s, t) /\ (Len(s) = Len(t) => s = t)
<1>1. SubSeq(s, 1, Len(s)) = SubSeq(t, 1, Len(s))
  OBVIOUS
<1> QED
  BY <1>1 DEF IsPrefix

\* The output in the order of the input.
LEMMA MTInvOutput ==
  ASSUME MTInv
  PROVE  OutputInOrder
<1>1. Types /\ ControlInv /\ CallInv /\ DeliveryInv
  BY DEF MTInv
<1>2. delivered \in Seq(Int)
  BY <1>1 DEF Types, InputTypes
<1>3. IsPrefix(delivered, WholeFrame) /\ (Len(delivered) = Units => delivered = WholeFrame)
  <2>1. PICK whole \in Seq(Int) : whole = WholeFrame
    BY <1>1, WholeFrameUnits
  <2>2. Len(delivered) <= Units /\ Len(whole) = Units /\ Len(delivered) \in Nat
        /\ Len(whole) \in Nat
    BY <1>1, <1>2, <2>1, WholeFrameUnits DEF DeliveryInv
  <2>3. \A k \in 1 .. Len(delivered) : delivered[k] = whole[k]
    <3> SUFFICES ASSUME NEW k \in 1 .. Len(delivered)
                 PROVE  delivered[k] = whole[k]
      OBVIOUS
    <3>1. k \in 1 .. Units
      BY <2>2
    <3> QED
      BY <1>1, <2>1, <3>1, WholeFrameUnits DEF DeliveryInv
  <2> QED
    BY <1>2, <2>1, <2>2, <2>3, Agrees
<1>4. ASSUME call.pc = "idle", ret = 0
      PROVE  /\ Len(delivered) = IF frameEnded THEN Units ELSE inPos + 1
             /\ call.op = "end" => frameEnded
  <2>1. doneJobID = nextJobID /\ ~jobReady /\ inBuff.filled = 0
        /\ (call.op = "end" => frameEnded)
    BY <1>1, <1>4 DEF ControlInv
  <2>2. doneJobID \in Nat /\ nextJobID \in Nat /\ inPos \in Nat
    BY <1>1, Scalars
  <2>3. InFrame
    BY <1>4 DEF InFrame, Error
  <2>4. LastID = nextJobID - 1 /\ Cut = inPos
    BY <2>1, <2>2 DEF LastID, Ready, Cut
  <2>5. inPos > 0 /\ (LastID < 0 <=> Cut = 0)
    BY <1>1, <1>4, <2>3 DEF CallInv
  <2>6. nextJobID # 0 /\ ~(doneJobID <= LastID)
    BY <2>1, <2>2, <2>4, <2>5
  <2>7. Flushed = IF frameEnded THEN Units ELSE inPos + 1
    BY <2>4, <2>6 DEF Flushed
  <2>8. Len(delivered) = Flushed
    BY <1>1, <2>3 DEF DeliveryInv
  <2> QED
    BY <2>1, <2>7, <2>8
<1>5. call.pc = "idle" /\ ret = 0 /\ call.op = "end" => delivered = WholeFrame
  BY <1>3, <1>4
<1>6. call.pc = "idle" /\ ret = 0 /\ call.op = "flush" => Len(delivered) > inPos
  <2>1. inPos \in Nat /\ FrameLen \in Nat /\ inPos <= FrameLen
    BY <1>1, Scalars
  <2>2. Units > inPos
    BY <2>1 DEF Units
  <2>3. inPos + 1 > inPos
    BY <2>1
  <2> QED
    BY <1>4, <2>2, <2>3
<1> QED
  BY <1>3, <1>5, <1>6 DEF OutputInOrder

\* A job that is not finished has its input and its prefix in the buffer.
LEMMA JobInPlace ==
  ASSUME Types, ControlInv, JobsInv, RingInv, NEW i \in Ids, Active(J(i))
  PROVE  /\ \A k \in 0 .. J(i).src.size - 1 : mem[J(i).src.start + k] = J(i).at + k
         /\ \A k \in 0 .. J(i).prefix.size - 1 :
              mem[J(i).prefix.start + k] = J(i).at - J(i).prefix.size + k
<1>1. i \in Nat
  BY Scalars, IdsHeld
<1>2. J(i) \in JobType
  BY <1>1, Scalars, TableShape
<1>3. Placed(J(i))
  BY DEF RingInv
<1>4. PICK at \in Nat, start \in Int, size \in Nat, from \in Int, len \in Nat :
        /\ at = J(i).at /\ start = J(i).src.start /\ size = J(i).src.size
        /\ from = J(i).prefix.start /\ len = J(i).prefix.size
  BY <1>2 DEF JobType, RangeType
<1>5. /\ len > 0 => from = start - len
      /\ \A a \in start - len .. start + size - 1 : mem[a] = at + (a - start)
  BY <1>3, <1>4 DEF Placed, Lo, Hi
<1>6. \A k \in 0 .. size - 1 : mem[start + k] = at + k
  <2> SUFFICES ASSUME NEW k \in 0 .. size - 1
               PROVE  mem[start + k] = at + k
    OBVIOUS
  <2>1. PICK a \in Int : a = start + k
    OBVIOUS
  <2>2. a \in start - len .. start + size - 1 /\ at + (a - start) = at + k
    BY <2>1
  <2> QED
    BY <1>5, <2>1, <2>2
<1>7. \A k \in 0 .. len - 1 : mem[from + k] = at - len + k
  <2> SUFFICES ASSUME NEW k \in 0 .. len - 1
               PROVE  mem[from + k] = at - len + k
    OBVIOUS
  <2>1. PICK a \in Int : a = from + k
    OBVIOUS
  <2>2. from = start - len
    BY <1>5
  <2>3. a \in start - len .. start + size - 1 /\ at + (a - start) = at - len + k
    BY <2>1, <2>2
  <2> QED
    BY <1>5, <2>1, <2>3
<1> QED
  BY <1>4, <1>6, <1>7

\* What is still read in the round buffer is not overwritten.
LEMMA MTInvRound ==
  ASSUME MTInv, ErrorInv
  PROVE  RoundBufferIntact
<1>1. Types /\ ControlInv /\ JobsInv /\ RingInv /\ WindowInv
  BY DEF MTInv
<1>2. doneJobID \in Nat /\ nextJobID \in Nat /\ jobReady \in BOOLEAN /\ doneJobID <= nextJobID
  BY <1>1, Scalars DEF ControlInv
<1>3. ASSUME NEW i \in Pending \cup Prepared
      PROVE  (i \in Ids /\ Active(J(i))) \/ J(i) = NullJob
  <2>1. CASE i \in Pending
    <3>1. i \in doneJobID .. nextJobID - 1 /\ ~Complete(J(i))
      BY <2>1 DEF Pending, J
    <3>2. LastID = nextJobID \/ LastID = nextJobID - 1
      BY DEF LastID
    <3>3. i \in Ids
      BY <1>2, <3>1, <3>2 DEF Ids
    <3>4. J(i) \in JobType
      BY <1>1, <1>2, <3>1, Scalars, TableShape
    <3>5. J(i).consumed <= J(i).src.size
      BY <1>1, <3>3 DEF JobsInv
    <3>6. PICK c \in Nat, n \in Nat : c = J(i).consumed /\ n = J(i).src.size
      BY <3>4 DEF JobType, RangeType
    <3>7. c <= n /\ c # n
      BY <3>1, <3>5, <3>6 DEF Complete
    <3>8. c < n
      BY <3>7
    <3> QED
      BY <3>3, <3>6, <3>8 DEF Active
  <2>2. CASE i \in Prepared /\ ret # Error
    <3>1. i = nextJobID /\ jobReady
      BY <2>2 DEF Prepared
    <3>2. LastID = nextJobID
      BY <2>2, <3>1 DEF LastID, Ready
    <3>3. i \in Ids
      BY <1>2, <3>1, <3>2 DEF Ids
    <3> QED
      BY <1>1, <3>1, <3>3 DEF JobsInv
  <2>3. CASE i \in Prepared /\ ret = Error
    <3>1. i = nextJobID
      BY <2>3 DEF Prepared
    <3>2. Slot(i) \in DOMAIN jobs
      BY <1>1, <1>2, <3>1, Scalars, TableShape
    <3> QED
      BY <2>3, <3>2 DEF ErrorInv, J
  <2> QED
    BY <2>1, <2>2, <2>3
<1>4. ASSUME NEW i \in Pending \cup Prepared
      PROVE  /\ \A k \in 0 .. J(i).src.size - 1 : mem[J(i).src.start + k] = J(i).at + k
             /\ \A k \in 0 .. J(i).prefix.size - 1 :
                  mem[J(i).prefix.start + k] = J(i).at - J(i).prefix.size + k
  <2>1. CASE i \in Ids /\ Active(J(i))
    BY <1>1, <2>1, JobInPlace
  <2>2. CASE J(i) = NullJob
    <3>1. J(i).src.size = 0 /\ J(i).prefix.size = 0
      BY <2>2 DEF NullJob, NullRange
    <3> QED
      BY <3>1
  <2> QED
    BY <1>3, <2>1, <2>2
<1>5. LET w == serial.window
      IN Ldm /\ fails = 0 => \A i \in w.lowLimit .. WIN!EndIndex(w) - 1 :
                                mem[WIN!Address(w, i)] = i - 2
  BY <1>1 DEF WindowInv
<1> QED
  BY <1>4, <1>5 DEF RoundBufferIntact, J

\* Jobs are cut where the content says.
LEMMA MTInvCuts ==
  ASSUME MTInv
  PROVE  CutsAreContentDefined
<1>1. Types /\ CutsInv
  BY DEF MTInv
<1>2. nextJobID \in Nat
  BY <1>1, Scalars
<1>3. LastID = nextJobID \/ LastID = nextJobID - 1
  BY DEF LastID
<1>4. Cardinality(DOMAIN jobs) \in Nat
  BY <1>1, Scalars, TableShape DEF TableLen
<1>5. ASSUME Sync # {}, "flush" \notin frames[frame].ops, call.pc # "init",
             NEW i \in Larger(0, nextJobID - Cardinality(Slots)) .. nextJobID - 1
      PROVE  J(i) = NullJob \/ CutWell(J(i))
  <2>1. PICK from \in Int : from = Larger(0, nextJobID - Cardinality(DOMAIN jobs))
    BY <1>2, <1>4 DEF Larger
  <2>2. i \in from .. nextJobID - 1
    BY <1>5, <2>1 DEF Slots
  <2>3. i \in from .. LastID
    BY <1>2, <1>3, <2>2
  <2> QED
    BY <1>1, <1>5, <2>1, <2>3 DEF CutsInv
<1>6. ASSUME NEW j \in JobType, CutWell(j)
      PROVE  /\ j.last \/ j.src.size = Section \/ j.at + j.src.size \in Sync
             /\ Sync \cap (j.at + RsyncMin + 1 .. (j.at + j.src.size) - 1) = {}
  <2>1. j.at \in Nat /\ j.src.size \in Nat
    BY DEF JobType, RangeType
  <2>2. j.at + (j.src.size - 1) = (j.at + j.src.size) - 1
    BY <2>1
  <2> QED
    BY <1>6, <2>2 DEF CutWell
<1>7. ASSUME NEW i \in Larger(0, nextJobID - Cardinality(Slots)) .. nextJobID - 1
      PROVE  J(i) \in JobType
  <2>1. i \in Nat
    <3>1. PICK from \in Nat : from = Larger(0, nextJobID - Cardinality(Slots))
      BY <1>2, <1>4 DEF Larger, Slots
    <3>2. i \in from .. nextJobID - 1
      BY <3>1
    <3> QED
      BY <1>2, <3>2
  <2> QED
    BY <1>1, <2>1, Scalars, TableShape
<1> QED
  BY <1>5, <1>6, <1>7 DEF CutsAreContentDefined, J

\* Resources are released when all jobs are done.
LEMMA ReleasesStep ==
  ASSUME CleanPlans, MTInv, [Next]_vars, releases' # releases
  PROVE  queueEmpty /\ \A t \in 1 .. MaxThreads : job[t] \in {"none", "return"}
<1>1. Types /\ ControlInv /\ WorkerInv
  BY DEF MTInv
<1>2. ~UNCHANGED callerVars /\ ~UNCHANGED vars
  BY DEF vars, callerVars
<1>3. ASSUME NEW t \in 1 .. MaxThreads
      PROVE  ~Worker(t)
  BY <1>2 DEF Worker, PopsJob, PoolThreadStep, JobResources, JobWaits, JobSerial, JobFails,
     JobChunk, JobEnsureFinished, JobReports, JobReturns
<1>4. ~(Application \/ FreeCCtx \/ Terminated \/ FreePool)
  BY <1>2 DEF Application, Call, FreeCCtx, Terminated, FreePool
<1>5. ~(TryGetInputRange \/ WaitForLdm \/ MovePrefix \/ TakeRange \/ LoadInput)
  BY <1>2 DEF TryGetInputRange, WaitForLdm, MovePrefix, TakeRange, LoadInput
<1>6. ~(NoNewJob \/ LastEmptyBlock \/ CreateCompressionJob)
  BY <1>2 DEF NoNewJob, LastEmptyBlock, CreateCompressionJob
<1>7. ~(WaitForOutput \/ FlushFindsError \/ FlushProduced \/ WaitForJob \/ InitCStream)
  BY <1>2 DEF WaitForOutput, FlushFindsError, FlushProduced, WaitForJob, InitCStream
<1>8. ReleaseAfterWait \/ FreeJobs \/ NextFrame
  BY <1>2, <1>3, <1>4, <1>5, <1>6, <1>7 DEF Next, Caller, InCall
<1>9. doneJobID = nextJobID
  <2>1. CASE ReleaseAfterWait
    BY <2>1 DEF ReleaseAfterWait
  <2>2. CASE FreeJobs
    BY <1>1, <2>2 DEF FreeJobs, CallerAt, ControlInv
  <2>3. CASE NextFrame
    <3>1. call.pc = "idle" /\ FrameOver
      BY <2>3 DEF NextFrame, CallerAt
    <3>2. ret = Error \/ ret = 0
      BY <1>1, <3>1, FrameTyped DEF FrameOver, FrameEnds
    <3> QED
      BY <1>1, <3>1, <3>2 DEF ControlInv
  <2> QED
    BY <1>8, <2>1, <2>2, <2>3
<1> QED
  BY <1>1, <1>9, NoWork

-----------------------------------------------------------------------------
(* -------------------------------- theorems ------------------------------ *)
\* The inductive invariant: of the jobs, their places in the round buffer, the
\* turns of the serial state and what was delivered (zstdmt_compress.c).
THEOREM InvariantHolds == CleanPlans => (Spec => [](MTInv /\ ErrorInv))
<1> SUFFICES ASSUME CleanPlans
             PROVE  Spec => [](MTInv /\ ErrorInv)
  OBVIOUS
<1>1. Init => MTInv /\ ErrorInv
  BY InitMTInv DEF Init, ErrorInv, None, Error
<1>2. MTInv /\ ErrorInv /\ [Next]_vars => (MTInv /\ ErrorInv)'
  BY NextMTInv, NextErrorInv
<1> QED
  BY <1>1, <1>2, PTL DEF Spec

\* Whatever order the workers finish in, the application receives the frame in the
\* order of its input, and all of it when a call with ZSTD_e_end returns 0
\* (ZSTDMT_flushProduced).
THEOREM OutputIsInOrder == CleanPlans => (Spec => []OutputInOrder)
<1> SUFFICES ASSUME CleanPlans
             PROVE  Spec => []OutputInOrder
  OBVIOUS
<1>1. MTInv => OutputInOrder
  BY MTInvOutput
<1> QED
  BY <1>1, InvariantHolds, PTL

\* The caller overwrites nothing in the round buffer that a job or the long
\* distance matcher still reads (ZSTDMT_tryGetInputRange).
THEOREM RoundBufferStaysIntact == CleanPlans => (Spec => []RoundBufferIntact)
<1> SUFFICES ASSUME CleanPlans
             PROVE  Spec => []RoundBufferIntact
  OBVIOUS
<1>1. MTInv /\ ErrorInv => RoundBufferIntact
  BY MTInvRound
<1> QED
  BY <1>1, InvariantHolds, PTL

\* Jobs are cut at synchronisation points or full sections, whichever calls the
\* application makes (findSynchronizationPoint).
THEOREM JobsAreCutByContent == CleanPlans => (Spec => []CutsAreContentDefined)
<1> SUFFICES ASSUME CleanPlans
             PROVE  Spec => []CutsAreContentDefined
  OBVIOUS
<1>1. MTInv => CutsAreContentDefined
  BY MTInvCuts
<1> QED
  BY <1>1, InvariantHolds, PTL

\* No job's resources are released, and no pool replaced, while a worker is inside
\* a job or one is queued (ZSTDMT_releaseAllJobResources, ZSTDMT_resize), as long as
\* no frame is dropped (CleanPlans): ZSTDMT_initCStream_internal calls ZSTDMT_resize
\* before it waits for the jobs of a dropped frame, and with more workers the
\* statement is false.
THEOREM ResourcesReleasedAtRest == CleanPlans => (Spec => ReleasedOnlyAtRest)
<1> SUFFICES ASSUME CleanPlans
             PROVE  Spec => ReleasedOnlyAtRest
  OBVIOUS
<1>1. MTInv /\ [Next]_vars =>
        [releases' # releases => /\ queueEmpty
                                 /\ \A t \in 1 .. MaxThreads : job[t] \in {"none", "return"}]_vars
  BY ReleasesStep
<1>2. Spec => []MTInv
  <2>1. MTInv /\ ErrorInv => MTInv
    OBVIOUS
  <2> QED
    BY <2>1, InvariantHolds, PTL
<1> QED
  BY <1>1, <1>2, PTL DEF Spec, ReleasedOnlyAtRest
=============================================================================
