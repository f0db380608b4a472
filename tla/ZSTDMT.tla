------------------------------- MODULE ZSTDMT -------------------------------
(****************************************************************************)
(* Multi-threaded compression: compress/zstdmt_compress.c over the thread   *)
(* pool of module Pool.  One thread, the caller of ZSTD_compressStream2,    *)
(* cuts the input into jobs that lie in a round buffer, posts them to the   *)
(* pool and flushes what they produce, in order; the workers compress.      *)
(*                                                                          *)
(* Data are positions of the input: mem maps the addresses of the round     *)
(* buffer to the position stored there, a job's output is a sequence of     *)
(* the positions of its chunks (one unit each) and of the marks for the     *)
(* frame header, the last block flag and the checksum.   A critical section *)
(* is one action; code that touches nothing shared is joined to the section *)
(* before it.                                                               *)
(****************************************************************************)
EXTENDS Integers, Sequences, FiniteSets, SequencesExt

CONSTANTS
  MaxThreads,    \* bound on nbWorkers
  MaxJobs,       \* bound on the job table (its size is a power of two)
  Plans,         \* the sequences of frames a caller may compress, of each frame
                 \* the size, nbWorkers, targetSectionSize, whether it may be
                 \* dropped midway, the allocations that may fail, where the
                 \* rolling hash hits (nowhere: not rsyncable), the directives:
                 \* [len, workers, section, abandon, fails, sync, ops]
  PrefixSize,    \* targetPrefixSize, the overlap between jobs
  WindowSize,    \* 1 << windowLog, which the long distance matcher may reach
  Ldm,           \* ldmParams.enableLdm
  Checksum,      \* fParams.checksumFlag
  RsyncMin,      \* RSYNC_MIN_BLOCK_SIZE
  Rooms,         \* output room the caller offers
  mt             \* the caller, as the client of the pool

\* ZSTDMT_NBWORKERS_MAX is 256.
ASSUME SizesAssumption ==
  /\ MaxThreads \in 1 .. 256
  /\ {PrefixSize, WindowSize} \subseteq Nat /\ RsyncMin \in Nat \ {0}
  /\ Ldm \in BOOLEAN /\ Checksum \in BOOLEAN
  /\ Rooms \subseteq Nat

FrameType ==
  [len : Nat, workers : 1 .. MaxThreads, section : Nat \ {0}, abandon : BOOLEAN,
   fails : Nat, sync : SUBSET Nat, ops : SUBSET {"continue", "flush", "end"}]
ASSUME PlansAssumption == Plans \subseteq Seq(FrameType) \ {<<>>}

VARIABLES
  queue, queueHead, queueTail, queueEmpty, numThreadsBusy, threadCapacity,
  threadLimit, shutdown, thread, running, client, adding, added, started,
  finished, resizes,                                          \* the pool
  jobs,          \* the job table
  nbWorkers,     \* params.nbWorkers
  sumFlag,       \* params.fParams.checksumFlag
  inBuff,        \* [start, filled, prefix]
  roundBuff,     \* [capacity, pos]
  mem,           \* the bytes of the round buffer
  doneJobID, nextJobID, jobReady, frameEnded, allJobsCompleted,
  call,          \* control of the caller: [pc, op, end, room, fwd, inUse, after]
  frames, frame, \* the caller's plan and the frame being compressed
  inPos,         \* input taken from the caller
  delivered,     \* output given to the caller
  ret,           \* result of the last call
  cctxAvail,     \* contexts in the cctxPool
  nbBuffers,     \* buffers in the bufPool
  serial,        \* [nextJobID, hashed, window, ldmWindow]
  asleep,        \* waiting threads: on serial.cond, job_cond, ldmWindowCond
  job,           \* control of each worker inside ZSTDMT_compressionJob
  fails,
  releases       \* history: how often job resources were released or freed

POOL == INSTANCE Pool WITH InitThreads <- MaxThreads, QueueSlots <- 0,
          Clients <- {mt}, Calls <- [c \in {mt} |-> {"free"}], Sizes <- {}, MaxResizes <- 0
WIN == INSTANCE Window WITH StartIndex <- 2, CurrentMax <- 1000, HashReadSize <- 1

poolState  == <<queue, queueHead, queueTail, queueEmpty, numThreadsBusy,
                threadCapacity, threadLimit, shutdown, thread, running,
                client, adding, added, started, finished, resizes>>
workVars   == <<serial, asleep, job, fails, cctxAvail>>
inputVars  == <<inBuff, roundBuff, mem, inPos>>
tableVars  == <<jobs, nbBuffers>>
orderVars  == <<doneJobID, nextJobID, jobReady, frameEnded, allJobsCompleted, sumFlag>>
callerVars == <<nbWorkers, frames, frame, delivered, ret, releases>>
vars == <<poolState, workVars, inputVars, tableVars, orderVars, callerVars, call>>

-----------------------------------------------------------------------------
None == -1
Error == -2
NullRange == [start |-> None, size |-> 0]
NoBuffer == <<-9>>
HdrMark == -1
EndMark == -2
SumMark == -3
BadSum == -4       \* marks in the output
FrameLen == frames[frame].len
Sync == frames[frame].sync
Section == frames[frame].section
MayFail == fails < frames[frame].fails

Smaller(a, b) == IF a < b THEN a ELSE b
Larger(a, b)  == IF a < b THEN b ELSE a

NullJob == [consumed |-> 0, cSize |-> 0, dst |-> NoBuffer, prefix |-> NullRange,
            src |-> NullRange, at |-> 0, jobID |-> 0, last |-> FALSE,
            sum |-> FALSE, flushed |-> 0]

\* nbWorkers + 2 jobs, rounded up beyond the next power of two.
TableSizes == {4, 8, 16, 32, 64, 128, 256, 512}
JobTableSize(workers) == CHOOSE n \in TableSizes :
                           n > workers + 2 /\ n <= 2 * (workers + 2)
ExpandedTable(table, workers) ==
  IF workers + 2 > Cardinality(DOMAIN table)
  THEN [s \in 0 .. JobTableSize(workers) - 1 |-> NullJob] ELSE table

RoundCapacity(workers) ==
  Larger(IF Ldm THEN WindowSize ELSE 0, Section * workers)
  + Section * (IF PrefixSize > 0 THEN 3 ELSE 2)

Slot(id) == id % Cardinality(DOMAIN jobs)
BufPoolSize == 2 * threadCapacity + 3      \* BUF_POOL_MAX_NB_BUFFERS

\* ZSTDMT_getBuffer, ZSTDMT_releaseBuffer: buffers are reused when there are any.
AfterGetBuffer == Larger(nbBuffers - 1, 0)
AfterRelease(n) == Smaller(nbBuffers + n, Larger(nbBuffers, BufPoolSize))

-----------------------------------------------------------------------------
(* Worker: ZSTDMT_compressionJob.  running[t] is the slot of its job, plus 1. *)

Mine(t)  == running[t] - 1
MyJob(t) == jobs[Mine(t)]
At(t, pc) == thread[t] = "run" /\ job[t] = pc
GoTo(t, pc) == job' = [job EXCEPT ![t] = pc]
JobError(t) == jobs' = [jobs EXCEPT ![Mine(t)].cSize = Error]

WakeCaller == asleep' = asleep \ {<<mt, "job">>}
\* Mutant: the end of a turn is not broadcast.
SerialSleepersNone == {}
SerialSleepers == {<<t, "serial">> : t \in 1 .. MaxThreads}

PopsJob(t) ==
  /\ POOL!ThreadPops(t)
  /\ GoTo(t, "resources")
  /\ UNCHANGED <<serial, asleep, fails, cctxAvail, inputVars, tableVars,
                 orderVars, callerVars, call>>

\* ZSTDMT_getCCtx, ZSTDMT_getSeq, ZSTDMT_getBuffer: one of them may fail.
JobResources(t) ==
  /\ At(t, "resources")
  /\ cctxAvail' = Larger(cctxAvail - 1, 0)
  /\ \/ /\ jobs' = [jobs EXCEPT ![Mine(t)].dst = <<>>]
        /\ nbBuffers' = AfterGetBuffer
        /\ GoTo(t, "serial")
        /\ UNCHANGED fails
     \/ /\ MayFail
        /\ fails' = fails + 1
        /\ JobError(t)
        /\ GoTo(t, "finish") \/ (cctxAvail = 0 /\ GoTo(t, "noCCtx"))
        /\ UNCHANGED nbBuffers
  /\ UNCHANGED <<poolState, serial, asleep, inputVars, orderVars, callerVars, call>>

\* Wait for our turn in the serial state.
JobWaits(t) ==
  /\ At(t, "serial")
  /\ serial.nextJobID < MyJob(t).jobID
  /\ <<t, "serial">> \notin asleep
  /\ asleep' = asleep \cup {<<t, "serial">>}
  /\ UNCHANGED <<poolState, serial, job, fails, cctxAvail, inputVars,
                 tableVars, orderVars, callerVars, call>>

\* The window the long distance matcher has after this job: it is cut to
\* WindowSize before sequences are searched.
LdmUpdated(j) ==
  WIN!EnforceMaxDist(WIN!WindowUpdate(serial.window, j.src.start, j.src.size, FALSE),
                     j.src.start + j.src.size, WindowSize, 0)

Hashed(j) == IF serial.hashed = j.at THEN j.at + j.src.size ELSE None

JobSerial(t) ==                              \* ZSTDMT_serialState_genSequences
  LET j == MyJob(t)
      myTurn == serial.nextJobID = j.jobID
      window == IF Ldm /\ j.src.size > 0 THEN LdmUpdated(j) ELSE serial.window
  IN /\ At(t, "serial")
     /\ serial.nextJobID >= j.jobID
     /\ serial' = [nextJobID |-> serial.nextJobID + 1,
                   hashed |-> IF myTurn /\ Checksum /\ j.src.size > 0
                              THEN Hashed(j) ELSE serial.hashed,
                   window |-> IF myTurn THEN window ELSE serial.window,
                   ldmWindow |-> IF myTurn /\ Ldm THEN window ELSE serial.ldmWindow]
     /\ asleep' = asleep \ (SerialSleepers \cup
                            IF myTurn /\ Ldm THEN {<<mt, "ldm">>} ELSE {})
     /\ GoTo(t, "compress")
     /\ UNCHANGED <<poolState, fails, cctxAvail, inputVars, tableVars,
                    orderVars, callerVars, call>>

\* ZSTD_compressBegin_advanced_internal with the prefix or the dictionary, or
\* the compression of a chunk, returns an error.
JobFails(t) ==
  /\ At(t, "compress") /\ MayFail
  /\ fails' = fails + 1
  /\ JobError(t)
  /\ GoTo(t, "finish")
  /\ UNCHANGED <<poolState, serial, asleep, cctxAvail, nbBuffers, inputVars,
                 orderVars, callerVars, call>>

\* Mutant: the frame header is not overwritten in the other jobs.
FirstOutputAlways(j) == IF j.cSize = 0 THEN <<HdrMark>> ELSE <<>>
FirstOutput(j) == IF j.jobID = 0 /\ j.cSize = 0 THEN <<HdrMark>> ELSE <<>>

\* All chunks but the last: the output is handed over chunk by chunk.
JobChunk(t) ==
  LET j == MyJob(t)
      out == FirstOutput(j) \o <<j.at + j.consumed>>
  IN /\ At(t, "compress")
     /\ j.consumed + 1 < j.src.size
     /\ jobs' = [jobs EXCEPT ![Mine(t)] =
          [j EXCEPT !.dst = @ \o out, !.cSize = @ + Len(out), !.consumed = @ + 1]]
     /\ WakeCaller
     /\ UNCHANGED <<poolState, serial, job, fails, cctxAvail, nbBuffers,
                    inputVars, orderVars, callerVars, call>>

\* ZSTDMT_serialState_ensureFinished: a job that failed before its turn is
\* skipped, with every job before it that has not had its turn.
JobEnsureFinished(t) ==
  LET skips == serial.nextJobID <= MyJob(t).jobID
  IN /\ \/ At(t, "finish") \/ At(t, "noCCtx")
        \/ At(t, "compress") /\ MyJob(t).consumed + 1 >= MyJob(t).src.size
     /\ serial' = IF skips
          THEN [serial EXCEPT !.nextJobID = MyJob(t).jobID + 1,
                              !.ldmWindow = WIN!WindowClear(@)]
          ELSE serial
     /\ asleep' = IF skips THEN asleep \ (SerialSleepers \cup {<<mt, "ldm">>}) ELSE asleep
     /\ cctxAvail' = IF At(t, "noCCtx") THEN cctxAvail          \* ZSTDMT_releaseCCtx
                     ELSE Smaller(cctxAvail + 1, Larger(cctxAvail, threadCapacity))
     /\ GoTo(t, "report")
     /\ UNCHANGED <<poolState, fails, tableVars, inputVars, orderVars, callerVars, call>>

\* The last block is written into dst before the report; nobody reads beyond
\* cSize, so it appears here.
LastOutput(j) ==
  FirstOutput(j)
  \o (IF j.src.size > 0 THEN <<j.at + j.src.size - 1>> ELSE <<>>)
  \o (IF j.last THEN <<EndMark>> ELSE <<>>)
  \o (IF j.last /\ j.jobID = 0 /\ Checksum THEN <<SumMark>> ELSE <<>>)

JobReports(t) ==
  LET j == MyJob(t)
      out == LastOutput(j)
  IN /\ At(t, "report")
     /\ jobs' = [jobs EXCEPT ![Mine(t)] =
          IF j.cSize = Error THEN [j EXCEPT !.consumed = j.src.size]
          ELSE [j EXCEPT !.dst = @ \o out, !.cSize = @ + Len(out),
                         !.consumed = j.src.size]]
     /\ WakeCaller
     /\ GoTo(t, "return")
     /\ UNCHANGED <<poolState, serial, fails, cctxAvail, nbBuffers,
                    inputVars, orderVars, callerVars, call>>

JobReturns(t) ==
  /\ At(t, "return")
  /\ POOL!ThreadFinishes(t)
  /\ GoTo(t, "none")
  /\ UNCHANGED <<serial, asleep, fails, cctxAvail, inputVars, tableVars,
                 orderVars, callerVars, call>>

PoolThreadStep(t) ==
  /\ POOL!ThreadWaits(t) \/ POOL!ThreadExits(t)
  /\ UNCHANGED <<workVars, inputVars, tableVars, orderVars, callerVars, call>>

Worker(t) ==
  \/ PopsJob(t) \/ PoolThreadStep(t) \/ JobResources(t) \/ JobWaits(t)
  \/ (JobSerial(t) /\ <<t, "serial">> \notin asleep)
  \/ JobFails(t) \/ JobChunk(t) \/ JobEnsureFinished(t)
  \/ JobReports(t) \/ JobReturns(t)

-----------------------------------------------------------------------------
(* The caller: ZSTDMT_compressStream_generic.                               *)

Overlaps(start, size, range) ==                       \* ZSTDMT_isOverlapped
  /\ start # None /\ range.start # None
  /\ size > 0 /\ range.size > 0
  /\ start < range.start + range.size /\ range.start < start + size

OverlapsWindow(start, size) ==                   \* ZSTDMT_doesOverlapWindow
  LET w == serial.ldmWindow
  IN \/ Overlaps(start, size, [start |-> w.dictBase + w.lowLimit,
                               size |-> w.dictLimit - w.lowLimit])
     \/ Overlaps(start, size, [start |-> w.base + w.dictLimit,
                               size |-> w.nextSrc - (w.base + w.dictLimit)])

\* What the earliest unfinished job reads: from its prefix on, if it has one.
InputDataInUse ==                               \* ZSTDMT_getInputDataInUse
  LET active == {i \in doneJobID .. nextJobID - 1 :
                   jobs[Slot(i)].consumed < jobs[Slot(i)].src.size}
      first == jobs[Slot(CHOOSE i \in active : \A k \in active : i <= k)]
  IN IF nextJobID < roundBuff.capacity \div Section \/ active = {} THEN NullRange
     ELSE IF first.prefix.size = 0 THEN first.src ELSE first.prefix

CallerAt(pc) == call.pc = pc /\ ~\E what \in {"job", "ldm"} : <<mt, what>> \in asleep
Step(pc) == call' = [call EXCEPT !.pc = pc]

\* A call with endOp; the caller has offered input up to position end.
\* An ended frame is not continued: the call is refused (stage_wrong).
Call(op, end, room) ==
  /\ CallerAt("idle")
  /\ ~(frameEnded /\ op = "continue")
  /\ call' = [pc |-> IF jobReady \/ end = inPos THEN "create"
                     ELSE IF inBuff.start = None THEN "range" ELSE "load",
              op |-> op, end |-> end, room |-> room, fwd |-> FALSE,
              inUse |-> NullRange, after |-> "none"]
  /\ ret' = None
  /\ UNCHANGED <<poolState, workVars, inputVars, tableVars, orderVars,
                 nbWorkers, frames, frame, delivered, releases>>

\* ZSTDMT_tryGetInputRange, up to its first wait.  "wrap": the rest of the round
\* buffer is too small, the prefix moves to its start.
TryGetInputRange ==
  LET wrap == roundBuff.capacity - roundBuff.pos < Section
      inUse == InputDataInUse
      taken == IF wrap THEN Overlaps(0, inBuff.prefix.size, inUse)
               ELSE Overlaps(roundBuff.pos, Section, inUse)
  IN /\ CallerAt("range")
     /\ call' = [call EXCEPT !.inUse = inUse,
                             !.pc = IF taken THEN "create" ELSE IF wrap THEN "wrap" ELSE "take"]
     /\ UNCHANGED <<poolState, workVars, inputVars, tableVars, orderVars, callerVars>>

\* Mutant: the window of the long distance matcher is not looked at.
MustWaitForLdmNever == FALSE
MustWaitForLdm ==
  Ldm /\ \/ call.pc = "wrap" /\ OverlapsWindow(0, inBuff.prefix.size)
         \/ call.pc = "take" /\ OverlapsWindow(roundBuff.pos, Section)

WaitForLdm ==
  /\ CallerAt("wrap") \/ CallerAt("take")
  /\ MustWaitForLdm
  /\ asleep' = asleep \cup {<<mt, "ldm">>}
  /\ UNCHANGED <<poolState, serial, job, fails, cctxAvail, inputVars, tableVars,
                 orderVars, callerVars, call>>

MovePrefix ==
  LET size == inBuff.prefix.size
  IN /\ CallerAt("wrap") /\ ~MustWaitForLdm
     /\ mem' = [a \in DOMAIN mem |->
                  IF a < size THEN mem[inBuff.prefix.start + a] ELSE mem[a]]
     /\ inBuff' = [inBuff EXCEPT !.prefix.start = 0]
     /\ roundBuff' = [roundBuff EXCEPT !.pos = size]
     /\ Step(IF Overlaps(size, Section, call.inUse) THEN "create" ELSE "take")
     /\ UNCHANGED <<poolState, workVars, inPos, tableVars, orderVars, callerVars>>

TakeRange ==
  /\ CallerAt("take") /\ ~MustWaitForLdm
  /\ inBuff' = [inBuff EXCEPT !.start = roundBuff.pos, !.filled = 0]
  /\ Step("load")
  /\ UNCHANGED <<poolState, workVars, roundBuff, mem, inPos, tableVars, orderVars, callerVars>>

\* Mutant: what is in the section already is hashed from its first byte again.
SkippedAgain == RsyncMin

\* findSynchronizationPoint: how much to load, and whether to cut a job there.
\* The hash of the bytes before a position does not depend on how they arrived.
Loadable == Smaller(call.end - inPos, Section - inBuff.filled)
Skipped == Larger(RsyncMin - inBuff.filled, 0)
SyncPoint ==
  LET hits == {n \in Skipped + 1 .. Loadable : inPos + n \in Sync}
  IN IF Sync = {} \/ inBuff.filled + call.end - inPos < RsyncMin
     THEN [toLoad |-> Loadable, flush |-> FALSE]
     ELSE IF inBuff.filled >= RsyncMin /\ inPos \in Sync
     THEN [toLoad |-> 0, flush |-> TRUE]
     ELSE IF hits # {}
     THEN [toLoad |-> CHOOSE n \in hits : \A k \in hits : n <= k, flush |-> TRUE]
     ELSE [toLoad |-> Loadable, flush |-> FALSE]

LoadInput ==
  LET n == SyncPoint.toLoad
      to == inBuff.start + inBuff.filled
  IN /\ CallerAt("load")
     /\ mem' = [a \in DOMAIN mem |->
                  IF a \in to .. to + n - 1 THEN inPos + (a - to) ELSE mem[a]]
     /\ inPos' = inPos + n
     /\ inBuff' = [inBuff EXCEPT !.filled = @ + n]
     /\ call' = [call EXCEPT !.pc = "create", !.fwd = n > 0,
                   !.op = IF SyncPoint.flush /\ @ = "continue" THEN "flush" ELSE @]
     /\ UNCHANGED <<poolState, workVars, roundBuff, tableVars, orderVars, callerVars>>

\* The end is not the end before the input is consumed.
EndOp == IF inPos < call.end /\ call.op = "end" THEN "flush" ELSE call.op
TableFull == nextJobID > doneJobID + Cardinality(DOMAIN jobs) - 1

WantsJob ==
  \/ jobReady
  \/ inBuff.filled >= Section
  \/ EndOp # "continue" /\ inBuff.filled > 0
  \/ EndOp = "end" /\ ~frameEnded

NoNewJob ==
  /\ CallerAt("create")
  /\ ~WantsJob \/ TableFull
  /\ call' = [call EXCEPT !.pc = "flush", !.op = EndOp]
  /\ UNCHANGED <<poolState, workVars, inputVars, tableVars, orderVars, callerVars>>

NewJob ==
  [NullJob EXCEPT !.src = [start |-> inBuff.start, size |-> inBuff.filled],
                  !.prefix = inBuff.prefix,
                  !.at = inPos - inBuff.filled,
                  !.jobID = nextJobID,
                  !.last = EndOp = "end",
                  !.sum = sumFlag /\ EndOp = "end" /\ nextJobID > 0]

NextPrefix ==
  IF EndOp = "end" THEN NullRange
  ELSE LET size == Smaller(inBuff.filled, PrefixSize)
       IN [start |-> inBuff.start + inBuff.filled - size, size |-> size]

\* What preparing a job does to the input side, unless it was ready already.
InputHandedOver ==
  IF jobReady THEN UNCHANGED <<inBuff, roundBuff, frameEnded, sumFlag>>
  ELSE /\ roundBuff' = [roundBuff EXCEPT !.pos = @ + inBuff.filled]
       /\ inBuff' = [start |-> None, filled |-> 0, prefix |-> NextPrefix]
       /\ frameEnded' = (frameEnded \/ EndOp = "end")
       /\ sumFlag' = (sumFlag /\ ~(EndOp = "end" /\ nextJobID = 0))

\* A last job without input is a last empty block, written by the caller.
WritesLastEmptyBlock == ~jobReady /\ inBuff.filled = 0 /\ nextJobID > 0

LastEmptyBlock ==
  /\ CallerAt("create")
  /\ WantsJob /\ ~TableFull /\ WritesLastEmptyBlock
  /\ InputHandedOver
  /\ \/ /\ jobs' = [jobs EXCEPT ![Slot(nextJobID)] =
             [NewJob EXCEPT !.src = NullRange, !.dst = <<EndMark>>, !.cSize = 1]]
        /\ nbBuffers' = AfterGetBuffer
        /\ UNCHANGED fails
     \/ /\ MayFail
        /\ fails' = fails + 1
        /\ jobs' = [jobs EXCEPT ![Slot(nextJobID)] =
             [NewJob EXCEPT !.src = NullRange, !.cSize = Error]]
        /\ UNCHANGED nbBuffers
  /\ nextJobID' = nextJobID + 1
  /\ call' = [call EXCEPT !.pc = "flush", !.op = EndOp]
  /\ UNCHANGED <<poolState, serial, asleep, job, cctxAvail, mem, inPos,
                 doneJobID, jobReady, allJobsCompleted, callerVars>>

CreateCompressionJob ==
  /\ CallerAt("create")
  /\ WantsJob /\ ~TableFull /\ ~WritesLastEmptyBlock
  /\ jobs' = IF jobReady THEN jobs ELSE [jobs EXCEPT ![Slot(nextJobID)] = NewJob]
  /\ InputHandedOver
  /\ \/ /\ POOL!TryAdd(Slot(nextJobID) + 1)
        /\ nextJobID' = nextJobID + 1
        /\ jobReady' = FALSE
        /\ UNCHANGED <<client, adding, resizes>>
     \/ /\ POOL!TryAddFails
        /\ jobReady' = TRUE
        /\ UNCHANGED <<nextJobID, client, adding, resizes>>
  /\ call' = [call EXCEPT !.pc = "flush", !.op = EndOp]
  /\ UNCHANGED <<workVars, nbBuffers, mem, inPos, doneJobID, allJobsCompleted, callerVars>>

-----------------------------------------------------------------------------
(* ZSTDMT_flushProduced.                                                    *)

Oldest == jobs[Slot(doneJobID)]
Complete(j) == j.consumed = j.src.size

\* Without progress on the input the call blocks, but never on a job that is
\* completely consumed, which will not signal again.
BlocksOn(j) == j.flushed = j.cSize /\ ~Complete(j)
MustWait == ~call.fwd /\ doneJobID < nextJobID /\ BlocksOn(Oldest)

WaitForOutput ==
  /\ CallerAt("flush") /\ MustWait
  /\ asleep' = asleep \cup {<<mt, "job">>}
  /\ UNCHANGED <<poolState, serial, job, fails, cctxAvail, inputVars, tableVars,
                 orderVars, callerVars, call>>

MayFlush == CallerAt("flush") /\ ~MustWait

FlushFindsError ==
  /\ MayFlush
  /\ Oldest.cSize = Error
  /\ call' = [call EXCEPT !.pc = "waitAll", !.after = "error"]
  /\ UNCHANGED <<poolState, workVars, inputVars, tableVars, orderVars, callerVars>>

\* The checksum is that of the input the jobs hashed in the serial state.
Checksummed(j) ==
  IF Complete(j) /\ j.sum
  THEN [j EXCEPT !.sum = FALSE, !.cSize = @ + 1,
                 !.dst = Append(@, IF serial.hashed = FrameLen THEN SumMark ELSE BadSum)]
  ELSE j

FlushProduced ==
  LET j == Checksummed(Oldest)
      n == IF j.cSize > 0 THEN Smaller(j.cSize - j.flushed, call.room) ELSE 0
      flushed == j.flushed + n
      left == j.cSize - flushed
      done == j.cSize > 0 /\ Complete(j) /\ left = 0
      more == \/ left > 0 \/ ~Complete(j)
              \/ doneJobID' < nextJobID \/ jobReady \/ inBuff.filled > 0
  IN /\ MayFlush
     /\ Oldest.cSize # Error
     /\ delivered' = delivered \o SubSeq(j.dst, j.flushed + 1, flushed)
     /\ jobs' = [jobs EXCEPT ![Slot(doneJobID)] =
          IF done THEN [j EXCEPT !.flushed = flushed, !.dst = NoBuffer, !.cSize = 0]
          ELSE [j EXCEPT !.flushed = flushed]]
     /\ nbBuffers' = IF done THEN AfterRelease(1) ELSE nbBuffers
     /\ doneJobID' = IF done THEN doneJobID + 1 ELSE doneJobID
     /\ allJobsCompleted' = IF more THEN allJobsCompleted ELSE frameEnded
     /\ ret' = IF more \/ inPos < call.end \/ (call.op = "end" /\ ~frameEnded) THEN 1 ELSE 0
     /\ Step("idle")
     /\ UNCHANGED <<poolState, workVars, inputVars, nextJobID, jobReady,
                    frameEnded, sumFlag, nbWorkers, frames, frame, releases>>

-----------------------------------------------------------------------------
(* ZSTDMT_waitForAllJobsCompleted, ZSTDMT_releaseAllJobResources.           *)

\* Mutant: a job that reported an error is not waited for.
StillRunsUnlessError(j) == j.consumed < j.src.size /\ j.cSize # Error
StillRuns(j) == j.consumed < j.src.size
WaitForJob ==
  /\ CallerAt("waitAll")
  /\ doneJobID < nextJobID
  /\ IF StillRuns(Oldest)
     THEN asleep' = asleep \cup {<<mt, "job">>} /\ UNCHANGED doneJobID
     ELSE doneJobID' = doneJobID + 1 /\ UNCHANGED asleep
  /\ UNCHANGED <<poolState, serial, job, fails, cctxAvail, inputVars, tableVars,
                 nextJobID, jobReady, frameEnded, allJobsCompleted, sumFlag,
                 callerVars, call>>

Holders == {s \in DOMAIN jobs : jobs[s].dst # NoBuffer}

ReleaseAllJobResources ==
  /\ jobs' = [s \in DOMAIN jobs |-> NullJob]
  /\ nbBuffers' = AfterRelease(Cardinality(Holders))
  /\ inBuff' = [inBuff EXCEPT !.start = None, !.filled = 0]
  /\ allJobsCompleted' = TRUE
  /\ releases' = releases + 1

ReleaseAfterWait ==
  /\ CallerAt("waitAll")
  /\ doneJobID = nextJobID
  /\ ReleaseAllJobResources
  /\ IF call.after = "error" THEN Step("idle") /\ ret' = Error
                             ELSE Step("init") /\ UNCHANGED ret
  /\ UNCHANGED <<poolState, workVars, roundBuff, mem, inPos, doneJobID, nextJobID,
                 jobReady, frameEnded, sumFlag, nbWorkers, frames, frame, delivered>>

-----------------------------------------------------------------------------
(* ZSTDMT_initCStream_internal, ZSTDMT_resize, ZSTDMT_freeCCtx.             *)

FrameEnds == ret = Error \/ (ret = 0 /\ call.op = "end")
FrameOver == FrameEnds \/ frames[frame].abandon

\* The pool, the job table and the buffer pools only grow; a larger table or
\* pool replaces the one there was.
ZSTDMTResize(workers) ==
  /\ POOL!Resize(workers, workers)
  /\ jobs' = ExpandedTable(jobs, workers)
  /\ LET larger == workers > threadCapacity
     IN /\ nbBuffers' = IF larger THEN 0 ELSE nbBuffers
        /\ cctxAvail' = IF larger THEN 1 ELSE cctxAvail
        /\ releases' = releases + IF larger THEN 1 ELSE 0
  /\ nbWorkers' = workers

NextFrame ==
  /\ CallerAt("idle") /\ FrameOver
  /\ frame < Len(frames)
  /\ frame' = frame + 1
  /\ call' = [call EXCEPT !.pc = IF allJobsCompleted THEN "init" ELSE "waitAll",
                          !.after = "init"]
  /\ ret' = None /\ inPos' = 0 /\ delivered' = <<>>
  /\ IF frames[frame + 1].workers = nbWorkers
     THEN UNCHANGED <<poolState, jobs, nbBuffers, cctxAvail, releases, nbWorkers>>
     ELSE ZSTDMTResize(frames[frame + 1].workers) /\ UNCHANGED <<client, adding, resizes>>
  /\ UNCHANGED <<frames, serial, asleep, job, fails, inBuff, roundBuff, mem, orderVars>>

NewSerial == [nextJobID |-> 0, hashed |-> 0,
              window |-> WIN!WindowInit, ldmWindow |-> WIN!WindowInit]

InitCStream ==
  LET capacity == Larger(roundBuff.capacity, RoundCapacity(nbWorkers))
  IN /\ CallerAt("init")
     /\ roundBuff' = [capacity |-> capacity, pos |-> 0]
     /\ mem' = IF roundBuff.capacity < capacity
               THEN [a \in 0 .. capacity - 1 |-> None] ELSE mem
     /\ inBuff' = [start |-> None, filled |-> 0, prefix |-> NullRange]
     /\ doneJobID' = 0 /\ nextJobID' = 0
     /\ frameEnded' = FALSE /\ allJobsCompleted' = FALSE
     /\ sumFlag' = Checksum
     /\ serial' = NewSerial
     /\ Step("idle")
     /\ UNCHANGED <<poolState, asleep, job, fails, cctxAvail, tableVars, jobReady,
                    inPos, callerVars>>

\* POOL_free waits for the workers, then the resources are released.
FreeCCtx ==
  /\ CallerAt("idle") /\ FrameOver /\ frame = Len(frames)
  /\ POOL!FreeShutsDown(mt)
  /\ Step("free")
  /\ UNCHANGED <<workVars, inputVars, tableVars, orderVars, callerVars>>

FreePool ==
  /\ CallerAt("free")
  /\ POOL!FreeBroadcasts(mt)
  /\ UNCHANGED <<workVars, inputVars, tableVars, orderVars, callerVars, call>>

FreeJobs ==
  /\ CallerAt("free")
  /\ POOL!FreeJoined(mt)
  /\ ReleaseAllJobResources
  /\ Step("freed")
  /\ UNCHANGED <<workVars, roundBuff, mem, inPos, doneJobID, nextJobID, jobReady,
                 frameEnded, sumFlag, nbWorkers, frames, frame, delivered, ret>>

Terminated == call.pc = "freed" /\ UNCHANGED vars

-----------------------------------------------------------------------------
(* The application: it calls with more input, or to flush what is left.     *)

Application ==
  /\ ~FrameEnds
  /\ \E room \in Rooms, op \in frames[frame].ops, end \in {inPos, inPos + 1, FrameLen} :
       /\ end <= FrameLen
       /\ op = "end" => end = FrameLen
       /\ op = "continue" => end > inPos
       /\ op = "flush" => end > inPos \/ ret = 1
       /\ Call(op, end, room)

InCall ==
  \/ TryGetInputRange \/ WaitForLdm \/ MovePrefix \/ TakeRange \/ LoadInput
  \/ NoNewJob \/ LastEmptyBlock \/ CreateCompressionJob
  \/ WaitForOutput \/ FlushFindsError \/ FlushProduced
  \/ WaitForJob \/ ReleaseAfterWait \/ InitCStream \/ FreePool \/ FreeJobs

Caller == Application \/ InCall \/ NextFrame \/ FreeCCtx

Init ==
  /\ frames \in Plans
  /\ POOL!PoolInit(frames[1].workers)
  /\ client = [c \in {mt} |-> "idle"] /\ adding = [c \in {mt} |-> 0] /\ resizes = 0
  /\ jobs = [s \in 0 .. JobTableSize(frames[1].workers) - 1 |-> NullJob]
  /\ nbWorkers = frames[1].workers
  /\ inBuff = [start |-> None, filled |-> 0, prefix |-> NullRange]
  /\ roundBuff = [capacity |-> 0, pos |-> 0]
  /\ mem = <<>>
  /\ doneJobID = 0 /\ nextJobID = 0
  /\ jobReady = FALSE /\ frameEnded = FALSE /\ allJobsCompleted = TRUE
  /\ sumFlag = FALSE
  /\ call = [pc |-> "init", op |-> "continue", end |-> 0, room |-> 0, fwd |-> FALSE,
             inUse |-> NullRange, after |-> "init"]
  /\ frame = 1 /\ inPos = 0 /\ delivered = <<>> /\ ret = None
  /\ cctxAvail = 1 /\ nbBuffers = 0
  /\ serial = NewSerial
  /\ asleep = {}
  /\ job = [t \in 1 .. MaxThreads |-> "none"]
  /\ fails = 0 /\ releases = 0

Next == Caller \/ (\E t \in 1 .. MaxThreads : Worker(t)) \/ Terminated

\* The scheduler runs every thread; the application keeps calling.
Spec == /\ Init /\ [][Next]_vars
        /\ WF_vars(Caller)
        /\ \A t \in 1 .. MaxThreads : WF_vars(Worker(t))

-----------------------------------------------------------------------------
Slots == DOMAIN jobs
Pending == {i \in doneJobID .. nextJobID - 1 : ~Complete(jobs[Slot(i)])}
Prepared == IF jobReady THEN {nextJobID} ELSE {}
Positions(n) == [i \in 1 .. n |-> i - 1]

TypeOK ==
  /\ \A s \in Slots : /\ jobs[s].consumed \in 0 .. jobs[s].src.size
                       /\ jobs[s].cSize \in Nat \cup {Error}
  /\ call.pc \in {"init", "waitAll"} \/ inBuff.filled \in 0 .. Section
  /\ roundBuff.pos \in 0 .. roundBuff.capacity
  /\ doneJobID \in 0 .. nextJobID
  /\ nextJobID <= doneJobID + Cardinality(Slots)
  /\ inPos \in 0 .. FrameLen
  /\ ret \in {None, 0, 1, Error}
  /\ numThreadsBusy <= nbWorkers
  /\ cctxAvail \in 0 .. MaxThreads /\ nbBuffers \in 0 .. BufPoolSize

\* What the application receives is the frame, from its header to its checksum,
\* in the order of the input, whichever order the jobs finish in; when a call
\* with ZSTD_e_end returns 0 all of it has been delivered, when one with
\* ZSTD_e_flush does, all blocks of the input taken so far.
WholeFrame ==
  <<HdrMark>> \o Positions(FrameLen) \o <<EndMark>>
  \o IF Checksum THEN <<SumMark>> ELSE <<>>

OutputInOrder ==
  /\ IsPrefix(delivered, WholeFrame)
  /\ call.pc = "idle" /\ ret = 0 /\ call.op = "end" => delivered = WholeFrame
  /\ call.pc = "idle" /\ ret = 0 /\ call.op = "flush" => Len(delivered) > inPos

\* What somebody still reads is not overwritten: a job that has not finished
\* finds its input and its prefix in the round buffer, and every byte in the
\* window of the long distance matcher is still the input at that index (in
\* frames without error), although the caller fills the buffer meanwhile.
RoundBufferIntact ==
  /\ \A i \in Pending \cup Prepared :
       LET j == jobs[Slot(i)]
       IN /\ \A k \in 0 .. j.src.size - 1 : mem[j.src.start + k] = j.at + k
          /\ \A k \in 0 .. j.prefix.size - 1 :
               mem[j.prefix.start + k] = j.at - j.prefix.size + k
  /\ LET w == serial.window
     IN Ldm /\ fails = 0 => \A i \in w.lowLimit .. WIN!EndIndex(w) - 1 :
                               mem[WIN!Address(w, i)] = i - 2

\* Jobs are cut where the content says (synchronisation points at least RsyncMin
\* apart, or full sections), however the application slices its calls, and a job
\* cut at a point it could not post at once is not cut elsewhere later.
CutsAreContentDefined ==
  Sync # {} /\ "flush" \notin frames[frame].ops /\ call.pc # "init" =>
    \A i \in Larger(0, nextJobID - Cardinality(Slots)) .. nextJobID - 1 :
      LET j == jobs[Slot(i)]
          end == j.at + j.src.size
      IN j # NullJob =>
         /\ j.last \/ j.src.size = Section \/ end \in Sync
         /\ Sync \cap (j.at + RsyncMin + 1 .. end - 1) = {}

\* Job descriptions, buffers and contexts are released or freed only when no
\* worker is inside a job any more and none is queued ("ensure all workers are
\* killed first", "must be reverted back to the pool before freeing the pool").
ReleasedOnlyAtRest ==
  [][releases' # releases =>
       /\ queueEmpty
       /\ \A t \in 1 .. MaxThreads : job[t] \in {"none", "return"}]_vars

\* A job that is ready to be posted has been prepared, for this frame.
ReadyMeansPrepared ==
  jobReady /\ call.pc = "idle" => jobs[Slot(nextJobID)] # NullJob

\* The application, which calls until its frames end (or fail), gets there: every
\* call returns, and no job waits for a turn, a buffer or a worker forever.
FramesEnd == <>(call.pc = "freed")
=============================================================================
