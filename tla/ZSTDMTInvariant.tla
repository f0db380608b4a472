--------------------------- MODULE ZSTDMTInvariant ---------------------------
(****************************************************************************)
(* The inductive invariant of ZSTDMT, MTInv, a part for each question that  *)
(* the proofs of ZSTDMTProofs come to.                                      *)
(****************************************************************************)
EXTENDS ZSTDMT

(* What the theorems assume of the application: its frames are not empty,   *)
(* it does not drop one midway, and it stops after one that failed.  What   *)
(* happens otherwise is in the README: zstdmt_compress.c does not wait for  *)
(* a first job without input, and keeps jobReady for the next frame.        *)
CleanPlans ==
  \A p \in Plans : \A k \in 1 .. Len(p) :
    /\ p[k].len > 0 /\ ~p[k].abandon
    /\ k < Len(p) => p[k].fails = 0

-----------------------------------------------------------------------------
(* The jobs of the frame that are not flushed: doneJobID .. LastID.  The last *)
(* one may be prepared only; after an error nothing is.                     *)
Ready == jobReady /\ ret # Error
LastID == IF Ready THEN nextJobID ELSE nextJobID - 1
Ids   == doneJobID .. LastID
J(id) == jobs[Slot(id)]
Active(j) == j.consumed < j.src.size

(* The input that was made into jobs, and where the output of a job begins. *)
Cut == inPos - inBuff.filled
Hdr(j) == IF j.jobID = 0 THEN 1 ELSE 0
Begin(j) == IF j.jobID = 0 THEN 0 ELSE j.at + 1

(* The caller is inside a frame that has not failed.                        *)
InFrame == /\ call.pc \in {"idle", "range", "wrap", "take", "load", "create", "flush"}
           /\ ret # Error

(* The units of the output, by their places.                                *)
Units == FrameLen + (IF Checksum THEN 3 ELSE 2)
Unit(k) == IF k = 1 THEN HdrMark
           ELSE IF k <= FrameLen + 1 THEN k - 2
           ELSE IF k = FrameLen + 2 THEN EndMark ELSE SumMark

(* -------------------------------- types --------------------------------- *)
RangeType == [start : Int, size : Nat]
JobType ==
  [consumed : Nat, cSize : Nat \cup {Error}, dst : Seq(Int), prefix : RangeType,
   src : RangeType, at : Nat, jobID : Nat, last : BOOLEAN, sum : BOOLEAN, flushed : Nat]
WindowType == [base : Int, dictBase : Int, lowLimit : Int, dictLimit : Int, nextSrc : Int]
SerialType == [nextJobID : Nat, hashed : Int, window : WindowType, ldmWindow : WindowType]
ThreadStates == {"none", "lock", "waiting", "run", "exited"}
Places == {"none", "resources", "serial", "compress", "finish", "noCCtx", "report", "return"}
CallType ==
  [pc : {"init", "idle", "range", "wrap", "take", "load", "create", "flush", "waitAll",
         "free", "freed"},
   op : {"continue", "flush", "end"}, end : Nat, room : Nat, fwd : BOOLEAN,
   inUse : RangeType, after : {"none", "error", "init"}]

PoolTypes ==
  /\ queue \in [{0} -> Nat] /\ queueHead = 0 /\ queueTail = 0
  /\ queueEmpty \in BOOLEAN /\ shutdown \in BOOLEAN
  /\ threadCapacity \in 1 .. MaxThreads
  /\ thread \in [1 .. MaxThreads -> ThreadStates]
  /\ running \in [1 .. MaxThreads -> Nat]
  /\ client \in [{mt} -> {"idle", "broadcast", "freeing", "freed"}]
  /\ job \in [1 .. MaxThreads -> Places]
JobTypes ==
  /\ \E size \in TableSizes : jobs \in [0 .. size - 1 -> JobType]
  /\ nbWorkers \in 1 .. MaxThreads
  /\ doneJobID \in Nat /\ nextJobID \in Nat
  /\ jobReady \in BOOLEAN /\ frameEnded \in BOOLEAN /\ sumFlag \in BOOLEAN
  /\ allJobsCompleted \in BOOLEAN
  /\ fails \in Nat
InputTypes ==
  /\ frames \in Plans /\ frame \in 1 .. Len(frames)
  /\ inBuff \in [start : Int, filled : Nat, prefix : RangeType]
  /\ roundBuff \in [capacity : Nat, pos : Nat]
  /\ mem \in [0 .. roundBuff.capacity - 1 -> Int]
  /\ inPos \in 0 .. FrameLen
  /\ delivered \in Seq(Int)
  /\ ret \in {None, 0, 1, Error}
  /\ call \in CallType
  /\ serial \in SerialType
Types == PoolTypes /\ JobTypes /\ InputTypes

(* ------------------------------- control -------------------------------- *)
(* A frame is over, failed or released only when no job is left, and the    *)
(* pool is shut down after the last one.                                    *)
ControlInv ==
  /\ doneJobID <= nextJobID /\ LastID < doneJobID + Cardinality(DOMAIN jobs)
  /\ call.pc \in {"init", "free", "freed"} => doneJobID = nextJobID
  /\ call.pc = "idle" /\ ret = 0 =>
       /\ doneJobID = nextJobID /\ ~jobReady /\ inBuff.filled = 0
       /\ call.op = "end" => frameEnded /\ allJobsCompleted
  /\ ret = Error => doneJobID = nextJobID /\ call.pc \in {"idle", "free", "freed"}
  /\ call.pc \in {"free", "freed"} /\ jobReady => ret = Error
  /\ call.pc = "init" => ~jobReady /\ inPos = 0 /\ delivered = <<>> /\ ret = None /\ fails = 0
  /\ call.pc = "waitAll" => call.after = "error" /\ ret = None
  /\ call.pc = "waitAll" \/ ret = Error => fails > 0
  /\ fails > 0 => frame = Len(frames)
  /\ shutdown <=> call.pc \in {"free", "freed"}
  /\ ~shutdown => client[mt] = "idle"

(* Inside a call: the application asks for the end of the frame with all of *)
(* its input; what is loaded has a place in the round buffer; and nothing   *)
(* is flushed before some input was taken.                                  *)
CallInv ==
  InFrame =>
    /\ call.pc # "idle" => /\ inPos <= call.end /\ call.end <= FrameLen
                           /\ call.op = "end" => call.end = FrameLen
                           /\ ret = None
    /\ call.pc \in {"range", "wrap", "take", "load"} =>
         ~jobReady /\ inPos < call.end /\ call.op \in frames[frame].ops
    /\ call.pc \in {"range", "wrap", "take"} => inBuff.start = None
    /\ call.pc = "load" => inBuff.start # None
    /\ inBuff.start = None => inBuff.filled = 0
    /\ jobReady \/ frameEnded => inBuff.filled = 0
    /\ frameEnded => inPos = FrameLen
    /\ Cut >= 0 /\ (LastID < 0 <=> Cut = 0)
    /\ call.pc \in {"create", "flush"} \/ ret \in {0, 1} => inPos > 0
    /\ ~frameEnded => sumFlag = Checksum

(* -------------------------------- workers ------------------------------- *)
(* A thread that may still write its job; afterwards the slot is reused.    *)
Busy(t) == thread[t] = "run" /\ job[t] # "return"
Posted(id) == doneJobID <= id /\ id < nextJobID
Pristine(j) == j.cSize = 0 /\ j.consumed = 0 /\ j.dst = NoBuffer

(* The slot s holds a posted job that is not finished.                      *)
Owned(s) == /\ s \in DOMAIN jobs /\ Posted(jobs[s].jobID) /\ s = Slot(jobs[s].jobID)
            /\ Active(jobs[s])

(* How far the job j is when its worker is at pc.                           *)
Stage(pc, j) ==
  /\ pc = "resources" => Pristine(j)
  /\ pc = "serial" => j.dst = <<>> /\ j.consumed = 0 /\ j.cSize = 0
  /\ pc = "compress" => j.cSize # Error
  /\ pc \in {"compress", "report"} => ~Pristine(j)
  /\ pc \in {"finish", "noCCtx"} => j.cSize = Error
  /\ pc = "report" => j.cSize = Error \/ j.consumed + 1 = j.src.size
  /\ pc \in {"compress", "report"} => j.jobID < serial.nextJobID

WorkerInv ==
  /\ \A t \in 1 .. MaxThreads :
       /\ thread[t] = "run" <=> job[t] # "none"
       /\ thread[t] # "none" => t <= threadCapacity
       /\ Busy(t) => running[t] > 0 /\ Owned(Mine(t)) /\ Stage(job[t], MyJob(t))
  /\ \A t, u \in 1 .. MaxThreads : Busy(t) /\ Busy(u) /\ t # u => running[t] # running[u]
  /\ ~queueEmpty => /\ queue[0] > 0 /\ Owned(queue[0] - 1) /\ Pristine(jobs[queue[0] - 1])
                    /\ \A t \in 1 .. MaxThreads : Busy(t) => running[t] # queue[0]

(* --------------------------------- jobs --------------------------------- *)
(* The units a job has in its buffer, header and marks included.            *)
Made(j) == IF Active(j) THEN IF j.consumed = 0 THEN 0 ELSE Hdr(j) + j.consumed
           ELSE Hdr(j) + j.src.size + (IF j.last THEN 1 ELSE 0)
                + (IF j.last /\ Checksum /\ ~j.sum THEN 1 ELSE 0)
OutputInv(j) ==
  \/ Pristine(j) /\ j.flushed = 0 /\ Active(j)
  \/ /\ Len(j.dst) = j.cSize /\ j.cSize = Made(j) /\ j.flushed <= j.cSize
     /\ \A k \in 1 .. j.cSize : j.dst[k] = Unit(Begin(j) + k)

(* The jobs of the frame divide the input; the last one ends it; each holds *)
(* its part of the output.                                                  *)
JobsInv ==
  \A i \in Ids :
    /\ J(i).jobID = i /\ J(i).consumed <= J(i).src.size
    /\ i = 0 => J(i).at = 0
    /\ J(i).at + J(i).src.size <= Cut
    /\ J(i).at + J(i).src.size = IF i = LastID THEN Cut ELSE J(i + 1).at
    /\ J(i).last <=> i = LastID /\ frameEnded
    /\ J(i).last => J(i).at + J(i).src.size = FrameLen
    /\ J(i).src.size = 0 => i > 0 /\ J(i).last
    /\ J(i).sum => J(i).last /\ Checksum /\ i > 0
    /\ Active(J(i)) /\ J(i).last /\ Checksum /\ i > 0 => J(i).sum
    /\ J(i).cSize # Error => OutputInv(J(i))
    /\ J(i).cSize = Error => fails > 0
    /\ i = nextJobID => Active(J(i)) /\ Pristine(J(i)) /\ J(i).flushed = 0

(* The other places of the table hold nothing to flush.                     *)
Stale(j) == j.cSize = 0 /\ ~j.sum
StaleInv ==
  call.pc # "waitAll" =>
    \A s \in DOMAIN jobs : (\A i \in Ids : Slot(i) # s) => Stale(jobs[s])

(* What was delivered is the output up to what the oldest job has flushed.  *)
Flushed == IF doneJobID <= LastID THEN Begin(J(doneJobID)) + J(doneJobID).flushed
           ELSE IF nextJobID = 0 THEN 0
           ELSE IF frameEnded THEN Units ELSE Cut + 1
DeliveryInv ==
  /\ Len(delivered) <= Units
  /\ \A k \in 1 .. Len(delivered) : delivered[k] = Unit(k)
  /\ InFrame => Len(delivered) = Flushed
  /\ \A i \in Ids : doneJobID < i => J(i).flushed = 0

(* ------------------------------ serial state ---------------------------- *)
(* Jobs take their turns in order, unless one that failed has skipped some; *)
(* then its error is found before what they should have hashed is used.     *)
CutAt(id) == IF id <= LastID THEN J(id).at ELSE Cut
Broken == \E k \in Ids : J(k).cSize = Error /\ k < serial.nextJobID
SerialInv ==
  /\ \A i \in Ids : J(i).src.size > 0 /\ ~Active(J(i)) /\ J(i).cSize # Error =>
       i < serial.nextJobID
  /\ InFrame /\ ~Broken /\ ~(frameEnded /\ doneJobID > LastID) =>
       /\ doneJobID <= serial.nextJobID /\ serial.nextJobID <= nextJobID
       /\ Checksum => serial.hashed = CutAt(serial.nextJobID)
       /\ \A t \in 1 .. MaxThreads :
            thread[t] = "run" /\ job[t] \in {"resources", "serial"} =>
              MyJob(t).jobID >= serial.nextJobID
       /\ ~queueEmpty => jobs[queue[0] - 1].jobID >= serial.nextJobID

(* ------------------------------ round buffer ---------------------------- *)
(* A job reads its prefix and its input, which lie one behind the other.    *)
Lo(j) == j.src.start - j.prefix.size
Hi(j) == j.src.start + j.src.size
Placed(j) ==
  /\ Lo(j) >= 0 /\ j.src.start + Section <= roundBuff.capacity /\ j.src.size <= Section
  /\ j.prefix.size > 0 => j.prefix.start = Lo(j)
  /\ \A a \in Lo(j) .. Hi(j) - 1 : mem[a] = j.at + (a - j.src.start)

(* All input that is being read lies behind pos, in this lap of the buffer, *)
(* or before it, in the lap before, and then above what may be filled next. *)
Room == IF inBuff.start = None THEN 0 ELSE Section
ThisLap(j) == Hi(j) <= roundBuff.pos
LastLap(j) == roundBuff.pos + Room <= Lo(j)
LapsInv ==
  \A i \in Ids : Active(J(i)) =>
    /\ ThisLap(J(i)) \/ LastLap(J(i))
    /\ ThisLap(J(i)) => Lo(J(i)) <= roundBuff.pos - inBuff.prefix.size
    /\ \A k \in Ids : i < k /\ Active(J(k)) =>
         \/ ThisLap(J(i)) /\ ThisLap(J(k)) /\ Lo(J(i)) <= Lo(J(k))
         \/ LastLap(J(i)) /\ ThisLap(J(k))
         \/ LastLap(J(i)) /\ LastLap(J(k)) /\ Lo(J(i)) <= Lo(J(k))

(* As long as fewer jobs were posted than sections fit, there was one lap.  *)
FirstLap ==
  /\ roundBuff.pos <= (LastID + 1) * Section
  /\ \A i \in Ids : Active(J(i)) => ThisLap(J(i))
InBuffInv ==
  /\ 2 * Section <= roundBuff.capacity /\ roundBuff.pos <= roundBuff.capacity
  /\ inBuff.start # None => /\ inBuff.start = roundBuff.pos
                            /\ roundBuff.pos + Section <= roundBuff.capacity
  /\ inBuff.filled <= Section /\ inBuff.prefix.size <= Section
  /\ inBuff.prefix.size <= roundBuff.pos
  /\ inBuff.prefix.size > 0 => inBuff.prefix.start = roundBuff.pos - inBuff.prefix.size
  /\ \A a \in roundBuff.pos - inBuff.prefix.size .. roundBuff.pos + inBuff.filled - 1 :
       mem[a] = Cut + (a - roundBuff.pos)
  /\ FirstLap \/ roundBuff.capacity \div Section <= nextJobID

(* What ZSTDMT_tryGetInputRange has found free stays free until it is used. *)
RangeInv ==
  /\ call.pc = "wrap" =>
       /\ roundBuff.capacity - roundBuff.pos < Section
       /\ \A i \in Ids : Active(J(i)) =>
            /\ call.inUse.start # None /\ call.inUse.size > 0
            /\ inBuff.prefix.size <= call.inUse.start /\ call.inUse.start <= Lo(J(i))
  /\ call.pc = "take" =>
       /\ roundBuff.pos + Section <= roundBuff.capacity
       /\ \A i \in Ids : Active(J(i)) =>
            ThisLap(J(i)) \/ roundBuff.pos + Section <= Lo(J(i))
RingInv ==
  /\ \A i \in Ids : Active(J(i)) => Placed(J(i))
  /\ InFrame => LapsInv /\ InBuffInv /\ RangeInv

(* ------------------------ long distance matching ------------------------ *)
(* The window ends where the next turn begins, and nothing of it lies where *)
(* the caller may write.                                                    *)
WindowInv ==
  (Ldm /\ fails = 0) =>
    LET w == serial.window IN
    /\ serial.ldmWindow = w
    /\ w.lowLimit <= w.dictLimit /\ w.dictLimit <= WIN!EndIndex(w)
    /\ \A i \in w.lowLimit .. WIN!EndIndex(w) - 1 :
         /\ WIN!Address(w, i) \in 0 .. roundBuff.capacity - 1
         /\ mem[WIN!Address(w, i)] = i - 2
         /\ InFrame /\ inBuff.start # None =>
              WIN!Address(w, i) \notin roundBuff.pos .. roundBuff.pos + Section - 1
    /\ InFrame /\ ~(frameEnded /\ doneJobID > LastID) =>
         WIN!EndIndex(w) = CutAt(serial.nextJobID) + 2

(* ------------------------ where jobs are cut ---------------------------- *)
CutWell(j) ==
  /\ j.last \/ j.src.size = Section \/ j.at + j.src.size \in Sync
  /\ Sync \cap (j.at + RsyncMin + 1 .. j.at + j.src.size - 1) = {}
CutsInv ==
  Sync # {} /\ "flush" \notin frames[frame].ops /\ call.pc # "init" =>
    /\ \A i \in Larger(0, nextJobID - Cardinality(DOMAIN jobs)) .. LastID :
         J(i) = NullJob \/ CutWell(J(i))
    /\ InFrame =>
         /\ Sync \cap (Cut + RsyncMin + 1 .. inPos - 1) = {}
         /\ (call.pc = "create" /\ inBuff.filled > 0
              /\ (call.op = "flush" \/ (call.op = "end" /\ inPos < call.end))) =>
              inBuff.filled = Section \/ inPos \in Sync

MTInv == /\ Types /\ ControlInv /\ CallInv /\ WorkerInv /\ JobsInv /\ DeliveryInv
         /\ SerialInv /\ RingInv /\ WindowInv /\ CutsInv /\ StaleInv

(* After an error the table is empty, also where a job was prepared.        *)
ErrorInv == ret = Error => \A s \in DOMAIN jobs : jobs[s] = NullJob
==============================================================================
