---------------------------- MODULE GzstdProofs -----------------------------
(***************************************************************************)
(* Proofs about Gzstd, for files and buffers of any size.  gzstd resets    *)
(* the CompressContext before each file and leaves the StreamContext as it *)
(* is; what is shown here is that nothing is ever left in it, so that each *)
(* file is a session of its own and CompressStreamProofs says the rest.    *)
(***************************************************************************)
EXTENDS Gzstd, CompressStreamProofs

(* gzstd sets no max_block_size, its read buffer is as long as a block     *)
(* (compress_stream_in_size), and the window of every compression level    *)
(* for input of unknown length is longer.                                  *)
FullBlocks == MaxBlocks = {InLen} /\ InLen <= WindowSize

(* A file whose length is a multiple of the buffer's, an empty one too,    *)
(* ends with an empty read, and the last chunk with no bytes: its frame is *)
(* not ended.                                                              *)
Uneven(n) == \A k \in Nat : n # k * InLen
UnevenFiles == \A n \in FileLens : Uneven(n)

-----------------------------------------------------------------------------
(* One read is one call of ZSTD_compressStream2, which takes all of it and *)
(* leaves nothing to flush: a full block goes straight to output.dst, and  *)
(* so does what the last read brings.                                      *)
ReadInv ==
    /\ loop \in {"files", "read", "done"} /\ left \in Nat /\ firstByte \in Nat
    /\ pc \in {"idle", "loop", "codec", "drain"}
    /\ loop # "read" => pc = "idle"
    /\ pc = "idle" => in_size = 0
    /\ pc = "loop" => /\ in_size = 0 /\ res = 0
                      /\ rest_len # 0 => /\ rest_len = src_len /\ rest_len <= InLen
                                         /\ last <=> rest_len < InLen
    /\ pc = "codec" => /\ rest_len = 0 /\ in_size > 0
                       /\ last <=> in_size < InLen
    /\ pc = "drain" => rest_len = 0 /\ in_pos = in_size /\ res = 0

(* What of the file is not read yet does not end with the buffer.          *)
LeftInv == loop = "read" /\ (pc = "idle" \/ ~ last) => Uneven(left)

(* Nothing stays in the ring, and nothing goes through outBuff.            *)
DirectInv ==
    /\ ~ pledging
    /\ streamStage \in {"init", "load"}
    /\ streamStage = "load" => loaded = <<>>
    /\ cstep = "work" => /\ streamStage = "load"
                         /\ (ip = 0 /\ dst = <<>>) \/ (ip = in_size /\ ~ last)

(* The last item of the file, when it ends the frame.                      *)
FrameDone == coded # <<>> /\ coded[Len(coded)].fin

(* The current file: one frame, which only the last call ends.             *)
OneFrameInv ==
    loop = "read" =>
        /\ opened = firstByte
        /\ \A i \in 1 .. Len(coded) : coded[i].begins <=> i = 1
        /\ \A i \in 1 .. Len(coded) : coded[i].fin => i = Len(coded)
        /\ FrameDone => /\ streamStage = "init" /\ last
                        /\ pc \in {"codec", "drain", "loop"} /\ rest_len = 0
                        /\ cstep \in {"return", "out"}

FilesInv == ReadInv /\ LeftInv /\ DirectInv

GzstdInv == StreamInv /\ FilesInv /\ OneFrameInv /\ FileIsCompressed

-----------------------------------------------------------------------------
(* Every step keeps what CompressStreamProofs shows.                       *)
LEMMA NextStreamInv ==
    ASSUME StreamInv, [CNext]_allVars PROVE StreamInv'
  BY StepCInv, StepOutput, StepEncoded, StepFrame DEF StreamInv

(* What these invariants say of a state of gzstd.                          *)
LEMMA GzstdState ==
    ASSUME StreamInv, FilesInv
    PROVE  /\ CInv /\ ControlInv /\ PledgeInv /\ ReturnInv /\ FrameTrue /\ NumbersTyped
           /\ BoundsInv /\ src_len \in Nat /\ last \in BOOLEAN
           /\ pc = "idle" => in_size = 0 /\ in_pos = 0 /\ out_pos = 0 /\ dst = <<>>
                             /\ eaten = base /\ src_len = 0 /\ rest_len = 0
           /\ pc = "codec" => (endOp = "end" <=> last) /\ (endOp = "continue" <=> ~ last)
           /\ ToFlush = 0 \/ cstep # "return"
           /\ cstep = "return" => ip = in_size
           /\ coded \in Seq(CodedItem)
  <1>1. CInv /\ FrameInv /\ ReadInv /\ DirectInv
    BY DEF StreamInv, FilesInv
  <1>2. /\ ControlInv /\ PledgeInv /\ ReturnInv /\ OrderInv /\ CTypeOK /\ NumbersTyped
    BY <1>1, NumberTypes DEF CInv
  <1>3. BoundsInv /\ NothingLost /\ src_len \in Nat /\ last \in BOOLEAN
    BY <1>2 DEF OrderInv, BoundsInv, TypeOK
  <1>4. FrameTrue
    BY <1>1 DEF FrameInv, ReadInv
  <1>5. pc = "idle" => in_size = 0 /\ in_pos = 0 /\ out_pos = 0 /\ dst = <<>>
                       /\ src_len = 0 /\ rest_len = 0
    BY <1>1, <1>2, <1>3 DEF ReadInv, ControlInv, BoundsInv, LoopInv
  <1>6. pc = "idle" => eaten = base
    <2>1. pc = "idle" => eaten + (in_size - in_pos) + rest_len = base + src_len
      BY <1>3 DEF NothingLost
    <2> QED BY <1>2, <1>5, <2>1 DEF NumbersTyped
  <1>7. pc = "codec" => (endOp = "end" <=> last) /\ (endOp = "continue" <=> ~ last)
    BY <1>1, <1>3 DEF ReadInv, endOp
  <1>8. cstep = "return" => ToFlush = 0 /\ ip = in_size
    BY <1>1, <1>2 DEF ReturnInv, Left, DirectInv
  <1>9. coded \in Seq(CodedItem)
    BY <1>1, SequenceTypes
  <1> QED BY <1>1, <1>2, <1>3, <1>4, <1>5, <1>6, <1>7, <1>8, <1>9

-----------------------------------------------------------------------------
(* gzstd as an application of the wrapper.                                 *)

(* Opening a file is a restart: there is nothing in the buffers that       *)
(* StreamContext.reset would have to remove.                               *)
LEMMA OpenIsRestart ==
    ASSUME StreamInv, FilesInv, NEW n, OpenFile(n)
    PROVE  Restart
  <1>1. /\ pc = "idle" /\ in_size = 0 /\ in_pos = 0 /\ out_pos = 0 /\ dst = <<>>
        /\ eaten = base /\ ~ pledging
    <2>1. pc = "idle"
      BY DEF OpenFile, FilesInv, ReadInv
    <2> QED BY <2>1, GzstdState DEF FilesInv, DirectInv
  <1>2. pledging \in BOOLEAN
    BY GzstdState DEF CInv, CTypeOK
  <1>3. Reset
    BY <1>1 DEF OpenFile, Reset, bufVars, callVars
  <1>4. /\ dst' = <<>> /\ drained' = <<>> /\ emitted' = 0 /\ encoded' = <<>> /\ coded' = <<>>
        /\ opened' = base /\ SessionReset
        /\ UNCHANGED <<cstep, ip, stage, consumed, blockSizeMax, inBuffSize, outBuffSize,
                       ringVars, flushVars, maxBlockSize>>
    BY <1>1 DEF OpenFile
  <1>5. pledging' = FALSE
    BY <1>1, <1>2 DEF OpenFile
  <1> QED BY <1>3, <1>4, <1>5 DEF Restart

(* A read brings less than the file still has, or the rest of it; the last *)
(* one is not empty.                                                       *)
LEMMA ReadSizes ==
    ASSUME StreamInv, FilesInv, loop = "read", pc = "idle", NEW n, n = LeastOf(InLen, left)
    PROVE  /\ n \in 0 .. InLen /\ n > 0 /\ InLen \in Nat /\ left \in Nat
           /\ n < InLen => left - n = 0
           /\ n >= InLen => n = InLen /\ left - n \in Nat /\ Uneven(left - n)
  <1>1. left \in Nat /\ InLen \in Nat \ {0}
    BY InLenAssumption DEF FilesInv, ReadInv
  <1>2. \A k \in Nat : left # k * InLen
    BY DEF FilesInv, LeftInv, Uneven
  <1>3. left # 0
    <2>1. 0 * InLen = 0
      BY <1>1
    <2> QED BY <1>2, <2>1
  <1>4. /\ n \in 0 .. InLen /\ n > 0
        /\ n < InLen => left = n
        /\ n >= InLen => n = InLen /\ left - n \in Nat
    BY <1>1, <1>3 DEF LeastOf
  <1>5. ASSUME n >= InLen
        PROVE  Uneven(left - n)
    <2> SUFFICES ASSUME NEW k \in Nat, left - n = k * InLen PROVE FALSE
      BY DEF Uneven
    <2>1. n = InLen
      BY <1>4, <1>5
    <2>2. (k + 1) * InLen = k * InLen + InLen /\ k * InLen \in Nat /\ k + 1 \in Nat
      BY <1>1
    <2>3. left = k * InLen + InLen
      BY <1>1, <2>1, <2>2
    <2> QED BY <1>2, <2>2, <2>3
  <1> QED BY <1>1, <1>4, <1>5

(* A read hands the wrapper a chunk.                                       *)
LEMMA ReadIsChunk ==
    ASSUME StreamInv, FilesInv, ReadFile
    PROVE  Application(AnyChunk \ {<<0, TRUE>>})
  <1> DEFINE n == LeastOf(InLen, left)
  <1>1. CompressChunk(n, n < InLen) /\ loop = "read" /\ pc = "idle"
    BY DEF ReadFile
  <1>2. n \in 0 .. InLen /\ n > 0
    BY <1>1, ReadSizes
  <1> HIDE DEF n
  <1>3. n \in ChunkLens /\ (n < InLen) \in BOOLEAN
    BY <1>2, ReadsAssumption
  <1>4. <<n, n < InLen>> \in AnyChunk \ {<<0, TRUE>>}
    <2>1. <<n, n < InLen>> \in AnyChunk
      BY <1>3 DEF AnyChunk
    <2>2. n # 0
      BY <1>2
    <2>3. \A b : <<n, b>> # <<0, TRUE>>
      BY <2>2
    <2> QED BY <2>1, <2>3
  <1>5. CompressChunk(<<n, n < InLen>>[1], <<n, n < InLen>>[2])
    BY <1>1
  <1> QED BY <1>4, <1>5 DEF Application

(* Every step of gzstd is one that an application or the wrapper may take. *)
LEMMA GzstdIsCaller ==
    ASSUME StreamInv, FilesInv, [GNext]_gzVars PROVE [CNext]_allVars
  <1>1. ASSUME NEW n \in FileLens, OpenFile(n)
        PROVE  CNext
    BY <1>1, OpenIsRestart DEF CNext, Application
  <1>2. CASE ReadFile
    BY <1>2, ReadIsChunk DEF CNext
  <1>3. CASE ReadError
    BY <1>3 DEF ReadError
  <1>4. CASE GzstdChunkEnd
    BY <1>4 DEF GzstdChunkEnd, CNext, WrapperSteps
  <1>5. CASE GzstdStep
    BY <1>5 DEF GzstdStep, CNext, WrapperSteps
  <1>6. CASE UNCHANGED gzVars
    BY <1>6 DEF gzVars
  <1> QED BY <1>1, <1>2, <1>3, <1>4, <1>5, <1>6 DEF GNext

-----------------------------------------------------------------------------
(* The blocks of gzstd.                                                    *)

(* A call that is working still has all of its input and an empty          *)
(* output.dst, or has taken all of a read that was not the last; and the   *)
(* ring has room for one block of InLen bytes.                             *)
LEMMA WholeBlock ==
    ASSUME StreamInv, FilesInv, FullBlocks, Working("load")
    PROVE  /\ pc = "codec" /\ loaded = <<>> /\ ip \in Nat /\ in_size \in Nat
           /\ Available = in_size - ip
           /\ ip = 0 => oSize >= CompressBound(Available) /\ Available = in_size
           /\ ~ MayShortcut =>
                /\ blockSizeMax = InLen /\ inBuffPos \in Nat
                /\ inBuffTarget = inBuffPos + InLen
                /\ ToLoad = Available
  <1>1. /\ CInv /\ PledgeInv /\ NumbersTyped /\ DirectInv /\ ReadInv
        /\ BlockSizeInv /\ TargetInv /\ streamStage = "load" /\ cstep = "work"
    BY GzstdState DEF FilesInv, CInv, SessionInv, Working
  <1>2. pc = "codec" /\ loaded = <<>>
    BY <1>1 DEF ReadInv, DirectInv, Working, InCodec
  <1>3. (ip = 0 /\ dst = <<>>) \/ (ip = in_size /\ ~ last)
    BY <1>1 DEF DirectInv
  <1>4. /\ ip \in Nat /\ in_size \in Nat /\ in_size <= InLen /\ Available = in_size - ip
        /\ Available \in Nat
    BY <1>1, LoadFacts DEF NumbersTyped
  <1>5. ip = 0 => oSize >= CompressBound(Available) /\ Available = in_size
    <2>1. in_size # 0
      BY <1>1, <1>2 DEF ReadInv
    <2>2. ip = 0 => Len(dst) = 0
      BY <1>3, <2>1
    <2>3. SizesInNat
      BY SizesFacts
    <2> QED BY <1>4, <2>2, <2>3 DEF oSize, op, CompressBound, SizesInNat
  <1>6. pledgedPlusOne # 0 => MayShortcut
    <2>1. pledgedPlusOne # 0 => endOp = "end" /\ inBuffPos = 0 /\ ip = 0
      BY <1>1, <1>2 DEF PledgeInv, DirectInv
    <2> QED BY <1>5, <2>1 DEF MayShortcut
  <1>7. ASSUME ~ MayShortcut
        PROVE  /\ blockSizeMax = InLen /\ inBuffPos \in Nat
               /\ inBuffTarget = inBuffPos + InLen
               /\ ToLoad = Available
    <2>1. pledgedPlusOne = 0
      BY <1>6, <1>7
    <2>2. blockSizeMax = InLen
      <3>1. blockSizeMax = LeastOf(maxBlockSize, WindowSize)
        BY <1>1, <2>1 DEF BlockSizeInv
      <3>2. maxBlockSize = InLen /\ InLen <= WindowSize /\ InLen \in Nat
        BY <1>1, InLenAssumption DEF NumbersTyped, FullBlocks
      <3> QED BY <3>1, <3>2 DEF LeastOf
    <2>3. inBuffTarget = inToCompress + blockSizeMax
      <3>1. pledgedPlusOne # blockSizeMax + 1
        BY <1>1, <2>1 DEF NumbersTyped
      <3> QED BY <1>1, <1>2, <3>1 DEF TargetInv
    <2>4. inBuffPos = inToCompress /\ inBuffPos \in Nat
      BY <1>1, <1>2, LoadFacts DEF NumbersTyped
    <2>5. InLen \in Nat
      BY InLenAssumption
    <2>6. inBuffTarget = inBuffPos + InLen
      BY <2>2, <2>3, <2>4
    <2>7. inBuffTarget - inBuffPos = InLen
      BY <2>4, <2>5, <2>6
    <2>8. ToLoad = LeastOf(InLen, Available)
      BY <2>7 DEF ToLoad
    <2>9. Available <= InLen
      BY <1>4, <2>5
    <2> QED BY <1>4, <2>2, <2>4, <2>5, <2>6, <2>8, <2>9 DEF LeastOf
  <1> QED BY <1>2, <1>4, <1>5, <1>7

(* A block is compressed into output.dst only, and it is a whole read.     *)
LEMMA BlockIsRead ==
    ASSUME StreamInv, FilesInv, FullBlocks, BlockReady
    PROVE  /\ ip = 0 /\ ToLoad = in_size /\ Len(AllLoaded) = in_size
           /\ oSize >= CompressBound(Len(AllLoaded))
           /\ oSize \in Int /\ CompressBound(Len(AllLoaded)) \in Int
           /\ LastBlock <=> last
           /\ ip + ToLoad = in_size
  <1>1. Working("load") /\ ~ MayShortcut /\ CInv /\ NumbersTyped
    BY GzstdState DEF BlockReady
  <1>2. /\ pc = "codec" /\ loaded = <<>> /\ ip \in Nat /\ in_size \in Nat
        /\ Available = in_size - ip /\ ToLoad = Available
        /\ ip = 0 => oSize >= CompressBound(Available)
        /\ inBuffPos \in Nat /\ inBuffTarget = inBuffPos + InLen
    BY <1>1, WholeBlock
  <1>3. (endOp = "end" <=> last) /\ (endOp = "continue" <=> ~ last)
    BY <1>2, GzstdState
  <1>4. (ip = 0 /\ dst = <<>>) \/ (ip = in_size /\ ~ last)
    BY <1>1 DEF FilesInv, DirectInv, Working
  <1>5. ip = 0
    <2>1. CASE ip = in_size /\ ~ last
      <3>1. ToLoad = 0
        BY <1>2, <2>1
      <3>2. inBuffPos + ToLoad >= inBuffTarget
        BY <1>3, <2>1 DEF BlockReady
      <3>3. InLen \in Nat \ {0}
        BY InLenAssumption
      <3> QED BY <1>2, <3>1, <3>2, <3>3
    <2> QED BY <1>4, <2>1
  <1>6. Len(AllLoaded) = in_size
    <2>1. Len(AllLoaded) = Len(loaded) + ToLoad /\ Len(loaded) = 0
      BY <1>1, <1>2, AllLoadedFacts
    <2> QED BY <1>2, <1>5, <2>1
  <1>7. ip + ToLoad = in_size
    BY <1>2, <1>5
  <1>8. oSize \in Int /\ CompressBound(Len(AllLoaded)) \in Int
    BY <1>1, <1>2, <1>6 DEF NumbersTyped, SizesInNat, oSize, op, CompressBound
  <1>9. Available = in_size
    BY <1>2, <1>5
  <1> QED BY <1>2, <1>3, <1>5, <1>6, <1>7, <1>8, <1>9 DEF LastBlock
-----------------------------------------------------------------------------
(* Steps.                                                                  *)

(* The steps of ZSTD_compressStream2 before it returns: outBuff is never   *)
(* used, and nothing but the end of a full read is left to load.           *)
LEMMA CodecDirect ==
    ASSUME StreamInv, FilesInv, FullBlocks,
           \/ InitStream \/ ResumeStream \/ Shortcut \/ LoadAndStop
           \/ CompressDirect \/ CompressToOutBuff \/ Flush
    PROVE  DirectInv' /\ UNCHANGED vars /\ ~ CompressToOutBuff /\ ~ Flush
  <1>1. CInv /\ ControlInv /\ NumbersTyped /\ DirectInv /\ ReadInv /\ last \in BOOLEAN
    BY GzstdState DEF FilesInv
  <1>2. UNCHANGED <<vars, pledging>>
    BY DEF InitStream, ResumeStream, Shortcut, LoadAndStop, CompressDirect,
           CompressToOutBuff, Flush, appVars
  <1>3. ~ Flush
    BY <1>1 DEF Flush, Working, DirectInv
  <1>4. ~ CompressToOutBuff
    <2> SUFFICES ASSUME CompressToOutBuff PROVE FALSE
      OBVIOUS
    <2>1. BlockReady /\ oSize < CompressBound(Len(AllLoaded))
      BY DEF CompressToOutBuff
    <2>2. /\ oSize >= CompressBound(Len(AllLoaded))
          /\ oSize \in Int /\ CompressBound(Len(AllLoaded)) \in Int
      BY <2>1, BlockIsRead
    <2> QED BY <2>1, <2>2
  <1>5. CASE InitStream \/ ResumeStream
    <2>1. /\ cstep = "enter" /\ pc = "codec" /\ cstep' = "work" /\ streamStage' = "load"
          /\ loaded' = <<>> /\ UNCHANGED <<ip, dst>>
      BY <1>1, <1>5 DEF InitStream, ResumeStream, InCodec, ReadInv, DirectInv, cctxVars,
                        sessionVars, ringVars
    <2>2. ip = 0 /\ dst = <<>>
      BY <1>1, <2>1 DEF ControlInv
    <2> QED BY <1>1, <1>2, <1>3, <1>4, <2>1, <2>2 DEF DirectInv
  <1>6. CASE Shortcut
    <2>1. streamStage' = "init" /\ cstep' = "return"
      BY <1>6 DEF Shortcut, SessionReset
    <2> QED BY <1>1, <1>2, <1>3, <1>4, <2>1 DEF DirectInv
  <1>7. CASE LoadAndStop
    <2>1. /\ Working("load") /\ ~ MayShortcut /\ endOp = "continue"
          /\ inBuffPos + ToLoad < inBuffTarget
          /\ loaded' = AllLoaded /\ cstep' = "return" /\ streamStage' = streamStage
      BY <1>7 DEF LoadAndStop, sessionVars
    <2>2. /\ pc = "codec" /\ loaded = <<>> /\ ip \in Nat /\ in_size \in Nat
          /\ Available = in_size - ip /\ ToLoad = Available
          /\ inBuffPos \in Nat /\ inBuffTarget = inBuffPos + InLen
      BY <2>1, WholeBlock
    <2>3. ~ last /\ in_size \in Nat /\ InLen \in Nat /\ in_size <= InLen
      BY <1>1, <2>1, <2>2, GzstdState DEF NumbersTyped, SizesInNat
    <2>4. in_size = InLen
      BY <1>1, <2>2, <2>3 DEF ReadInv
    <2>5. ip # 0
      BY <2>1, <2>2, <2>3, <2>4
    <2>6. ToLoad = 0
      BY <1>1, <2>1, <2>2, <2>5 DEF DirectInv, Working
    <2>7. AllLoaded = <<>>
      <3>1. AllLoaded \in Seq(Nat) /\ Len(AllLoaded) = Len(loaded) + ToLoad /\ Len(loaded) = 0
        BY <1>1, <2>1, <2>2, AllLoadedFacts
      <3>2. Len(AllLoaded) = 0
        BY <2>6, <3>1
      <3> QED BY <3>1, <3>2, EmptySeq
    <2> QED BY <1>1, <1>2, <1>3, <1>4, <2>1, <2>7 DEF DirectInv
  <1>8. CASE CompressDirect
    <2>1. /\ BlockReady /\ loaded' = <<>> /\ ip' = ip + ToLoad
          /\ LastBlock => streamStage' = "init" /\ cstep' = "return"
          /\ ~ LastBlock => streamStage' = streamStage
      BY <1>8 DEF CompressDirect, NextBlock, SessionReset
    <2>2. (LastBlock <=> last) /\ ip' = in_size
      BY <2>1, BlockIsRead
    <2>3. UNCHANGED <<last, in_size, pledging>>
      BY <1>2 DEF vars
    <2>4. streamStage = "load"
      BY <2>1 DEF BlockReady, Working
    <2>5. LastBlock => DirectInv'
      BY <1>1, <2>1, <2>3 DEF DirectInv
    <2>6. ~ LastBlock => DirectInv'
      BY <1>1, <2>1, <2>2, <2>3, <2>4 DEF DirectInv
    <2> QED BY <1>2, <1>3, <1>4, <2>5, <2>6
  <1> QED BY <1>2, <1>3, <1>4, <1>5, <1>6, <1>7, <1>8

(* ZSTD_compressStream2 does not fail: nothing was pledged.                *)
LEMMA NoEncodeError ==
    ASSUME StreamInv, FilesInv, StreamInv' PROVE ~ EncodeError
  <1> SUFFICES ASSUME EncodeError PROVE FALSE
    OBVIOUS
  <1>1. pc' = "failed" /\ result' = "codec_error" /\ pledging' = pledging
    BY DEF EncodeError, CodecFail, Fail, appVars
  <1>2. pledging'
    BY <1>1 DEF StreamInv, CInv, PledgeInv
  <1> QED BY <1>1, <1>2 DEF FilesInv, DirectInv

(* A chunk of gzstd does not end as unfinished.                            *)
LEMMA ChunkEnds ==
    ASSUME StreamInv, FilesInv, CompressChunkEnd
    PROVE  /\ pc = "loop" /\ pc' = "idle" /\ result' = "ok" /\ rest_len = 0
           /\ UNCHANGED <<in_size, last>> /\ UNCHANGED codecVars
           /\ IF last THEN pledging' = FALSE ELSE UNCHANGED <<opened, pledging>>
  <1>1. pc = "loop" /\ rest_len = 0
    BY DEF CompressChunkEnd, ChunkEnd
  <1>2. res = 0 /\ in_pos = 0 /\ in_size = 0
    BY <1>1, GzstdState DEF FilesInv, ReadInv, ControlInv
  <1>3. pc' = "idle" /\ result' = "ok" /\ UNCHANGED <<in_size, last>>
    BY <1>2 DEF CompressChunkEnd, ChunkEnd, bufVars
  <1>4. /\ UNCHANGED codecVars
        /\ IF last THEN pledging' = FALSE ELSE UNCHANGED <<opened, pledging>>
    BY <1>3 DEF CompressChunkEnd
  <1> QED BY <1>1, <1>3, <1>4

(* A read is copied into the input buffer as a whole.                      *)
LEMMA FillsAll ==
    ASSUME StreamInv, FilesInv, CompressFill
    PROVE  /\ pc = "loop" /\ pc' = "codec" /\ rest_len # 0
           /\ rest_len' = 0 /\ in_size' = rest_len /\ in_size' > 0
           /\ last' = last /\ (last <=> rest_len < InLen)
           /\ cstep' = "enter" /\ UNCHANGED <<dst, cctxVars, appVars>>
  <1>1. /\ pc = "loop" /\ rest_len > 0 /\ pc' = "codec" /\ last' = last
        /\ in_size' = in_size + FillLen /\ rest_len' = rest_len - FillLen
        /\ cstep' = "enter" /\ UNCHANGED <<dst, cctxVars, appVars>>
    BY DEF CompressFill, Fill, Enter
  <1>2. rest_len \in Nat /\ InLen \in Nat
    BY GzstdState DEF NumbersTyped, SizesInNat
  <1>3. rest_len # 0
    BY <1>1, <1>2
  <1>4. in_size = 0 /\ rest_len <= InLen /\ (last <=> rest_len < InLen)
    BY <1>1, <1>3 DEF FilesInv, ReadInv
  <1>5. FillLen = rest_len
    <2>1. max_len = InLen
      BY <1>2, <1>4 DEF max_len
    <2> QED BY <1>2, <1>4, <2>1 DEF FillLen, LeastOf
  <1> QED BY <1>1, <1>2, <1>3, <1>4, <1>5

(* A read that is handed over.                                             *)
LEMMA ReadBegins ==
    ASSUME StreamInv, FilesInv, ReadFile
    PROVE  /\ pc = "idle" /\ pc' = "loop" /\ loop = "read" /\ loop' = "read"
           /\ in_size' = 0 /\ res' = 0 /\ rest_len' = src_len' /\ rest_len' <= InLen
           /\ last' <=> rest_len' < InLen
           /\ left' \in Nat
           /\ ~ last' => Uneven(left')
           /\ UNCHANGED <<codecVars, appVars, firstByte>>
  <1> DEFINE n == LeastOf(InLen, left)
  <1>1. /\ loop = "read" /\ pc = "idle" /\ pc' = "loop" /\ loop' = "read"
        /\ rest_len' = n /\ src_len' = n /\ last' = (n < InLen) /\ res' = 0
        /\ in_size' = in_size /\ left' = left - n
        /\ UNCHANGED <<codecVars, appVars, firstByte>>
    BY DEF ReadFile, CompressChunk, ChunkBegin
  <1>2. /\ n \in 0 .. InLen /\ InLen \in Nat
        /\ n < InLen => left - n = 0
        /\ n >= InLen => left - n \in Nat /\ Uneven(left - n)
    BY <1>1, ReadSizes
  <1>3. in_size = 0
    BY <1>1, GzstdState
  <1> HIDE DEF n
  <1>4. n < InLen \/ n >= InLen
    BY <1>2
  <1>5. n <= InLen
    BY <1>2
  <1>6. last' <=> n < InLen
    BY <1>1
  <1>7. left - n \in Nat /\ (~ last' => Uneven(left - n))
    BY <1>2, <1>4, <1>6
  <1>8. left' = left - n
    BY <1>1
  <1>9. left' \in Nat /\ (~ last' => Uneven(left'))
    BY <1>7, <1>8
  <1>10. rest_len' <= InLen /\ (last' <=> rest_len' < InLen) /\ rest_len' = src_len'
    BY <1>1, <1>5, <1>6
  <1> QED BY <1>1, <1>3, <1>9, <1>10

(* Every step keeps FilesInv.                                              *)
LEMMA NextFilesInv ==
    ASSUME StreamInv, FilesInv, StreamInv', FullBlocks, UnevenFiles, [GNext]_gzVars
    PROVE  FilesInv'
  <1>1. /\ ReadInv /\ LeftInv /\ DirectInv /\ ControlInv /\ NumbersTyped
        /\ CTypeOK' /\ ControlInv'
    BY GzstdState DEF FilesInv, StreamInv, CInv
  <1>2. ASSUME NEW n \in FileLens, OpenFile(n)
        PROVE  FilesInv'
    <2>1. pc = "idle" /\ in_size = 0 /\ cstep = "out" /\ base \in Nat
      BY <1>1, <1>2 DEF OpenFile, ReadInv, ControlInv, CodecLocations, NumbersTyped
    <2>2. /\ pc' = "idle" /\ loop' = "read" /\ left' = n /\ firstByte' = base
          /\ in_size' = 0 /\ cstep' = "out" /\ streamStage' = "init" /\ pledging' = pledging
      BY <1>2, <2>1 DEF OpenFile, SessionReset, bufVars
    <2>3. n \in Nat /\ Uneven(n)
      BY FilesAssumption DEF UnevenFiles
    <2> QED BY <1>1, <2>1, <2>2, <2>3 DEF FilesInv, ReadInv, LeftInv, DirectInv
  <1>3. CASE ReadFile
    <2>1. cstep = "out" /\ cstep' = "out" /\ UNCHANGED <<streamStage, loaded, pledging>>
      BY <1>1, <1>3, ReadBegins DEF ControlInv, CodecLocations, codecVars, cctxVars,
                                    sessionVars, ringVars, appVars
    <2>2. ReadInv'
      BY <1>1, <1>3, ReadBegins DEF ReadInv
    <2>3. LeftInv'
      BY <1>3, ReadBegins DEF LeftInv
    <2> QED BY <1>1, <2>1, <2>2, <2>3 DEF FilesInv, DirectInv
  <1>4. CASE ReadError
    BY <1>1, <1>4 DEF ReadError, FilesInv, ReadInv, LeftInv, DirectInv, allVars, vars,
                      codecVars, cctxVars, sessionVars, ringVars, appVars, Uneven
  <1>5. CASE GzstdChunkEnd
    <2>1. /\ CompressChunkEnd /\ loop' = IF pc' = "idle" THEN IF last THEN "done" ELSE "read"
                                                         ELSE "files"
          /\ UNCHANGED <<left, firstByte>>
      BY <1>5 DEF GzstdChunkEnd
    <2>2. /\ pc = "loop" /\ pc' = "idle" /\ rest_len = 0
          /\ UNCHANGED <<in_size, last>> /\ UNCHANGED codecVars
          /\ IF last THEN pledging' = FALSE ELSE UNCHANGED pledging
      BY <2>1, ChunkEnds
    <2>3. loop = "read" /\ in_size = 0
      BY <1>1, <2>2 DEF ReadInv
    <2>4. ReadInv'
      BY <1>1, <2>1, <2>2, <2>3 DEF ReadInv
    <2>5. LeftInv'
      BY <1>1, <2>1, <2>2, <2>3 DEF LeftInv, Uneven
    <2>6. UNCHANGED <<streamStage, loaded, cstep, ip, dst>>
      BY <2>2 DEF codecVars, cctxVars, sessionVars, ringVars
    <2>7. DirectInv'
      BY <1>1, <2>2, <2>6 DEF DirectInv
    <2> QED BY <2>4, <2>5, <2>7 DEF FilesInv
  <1>6. CASE GzstdStep
    <2>1. UNCHANGED <<loop, left, firstByte>>
      BY <1>6 DEF GzstdStep
    <2>2. CASE CompressFill
      <3>1. UNCHANGED <<streamStage, loaded, pledging>>
        BY <2>2, FillsAll DEF cctxVars, sessionVars, ringVars, appVars
      <3>2. ReadInv' /\ LeftInv'
        BY <1>1, <2>1, <2>2, FillsAll DEF ReadInv, LeftInv, Uneven
      <3>3. DirectInv'
        BY <1>1, <2>2, <3>1, FillsAll DEF DirectInv
      <3> QED BY <3>2, <3>3 DEF FilesInv
    <2>3. CASE CompressDrain
      <3>1. /\ pc = "drain" /\ pc' = "loop" /\ in_size' = in_size - in_pos
            /\ UNCHANGED <<rest_len, res, last, cstep, streamStage, loaded, pledging>>
        BY <2>3 DEF CompressDrain, DrainBuffer, Compact, callVars, cctxVars, sessionVars,
                    ringVars
      <3>2. in_size' = 0 /\ rest_len' = 0 /\ res' = 0
        BY <1>1, <3>1 DEF ReadInv, NumbersTyped
      <3>3. cstep = "out"
        BY <1>1, <3>1 DEF ControlInv, CodecLocations
      <3>4. ReadInv' /\ LeftInv'
        BY <1>1, <2>1, <3>1, <3>2 DEF ReadInv, LeftInv, Uneven
      <3>5. DirectInv'
        BY <1>1, <3>1, <3>3 DEF DirectInv
      <3> QED BY <3>4, <3>5 DEF FilesInv
    <2>4. CASE \/ InitStream \/ ResumeStream \/ Shortcut \/ LoadAndStop
               \/ CompressDirect \/ CompressToOutBuff \/ Flush
      <3>1. DirectInv' /\ UNCHANGED vars
        BY <2>4, CodecDirect
      <3>2. ReadInv' /\ LeftInv'
        BY <1>1, <2>1, <3>1 DEF ReadInv, LeftInv, Uneven, vars
      <3> QED BY <3>1, <3>2 DEF FilesInv
    <2>5. CASE StreamReturn
      <3>1. /\ cstep = "return" /\ pc = "codec"
            /\ pc' = "drain" /\ in_pos' = ip /\ res' = ToFlush /\ cstep' = "out"
            /\ UNCHANGED <<in_size, rest_len, last, streamStage, loaded, pledging>>
        BY <1>1, <2>5 DEF StreamReturn, CodecReturn, ReadInv, cctxVars, sessionVars,
                          ringVars, appVars
      <3>2. ToFlush = 0 /\ ip = in_size
        BY <3>1, GzstdState
      <3>3. ReadInv' /\ LeftInv'
        BY <1>1, <2>1, <3>1, <3>2 DEF ReadInv, LeftInv, Uneven
      <3>4. DirectInv'
        BY <1>1, <3>1 DEF DirectInv
      <3> QED BY <3>3, <3>4 DEF FilesInv
    <2> QED BY <1>6, <2>2, <2>3, <2>4, <2>5, NoEncodeError DEF GzstdStep, CompressStream2
  <1>7. CASE UNCHANGED gzVars
    BY <1>1, <1>7 DEF gzVars, FilesInv, ReadInv, LeftInv, DirectInv, allVars, vars,
                      codecVars, cctxVars, sessionVars, ringVars, appVars, Uneven
  <1> QED BY <1>2, <1>3, <1>4, <1>5, <1>6, <1>7 DEF GNext
-----------------------------------------------------------------------------
(* One frame for each file.                                                *)

(* What the encoder writes begins the frame of the file when nothing was   *)
(* written for it, and ends it in the last call only.                      *)
LEMMA WritesOneFrame ==
    ASSUME StreamInv, FilesInv, FullBlocks, OneFrameInv, loop = "read",
           opened = firstByte => opened' = firstByte',
           Shortcut \/ CompressDirect
    PROVE  OneFrameInv'
  <1>1. /\ CInv /\ FrameTrue /\ NumbersTyped /\ coded \in Seq(CodedItem) /\ DirectInv
        /\ ReadInv
    BY GzstdState DEF FilesInv
  <1>2. PICK n \in Nat, fin \in BOOLEAN : \E c, capacity : Writes(n, c, fin, capacity)
    BY <1>1, EncodingWrites
  <1>3. PICK c, capacity : Writes(n, c, fin, capacity)
    BY <1>2
  <1> DEFINE bytes == loaded \o Offered(n)
             x == [upto |-> Len(encoded'), begins |-> stage = "init", fin |-> fin,
                   size |-> DeclaredSize]
  <1>4. /\ Working("load") /\ bytes \in Seq(Nat)
        /\ ChunkUnits(Len(bytes), c, fin) \in Nat
        /\ Encoded(bytes, c, fin) /\ UNCHANGED <<vars, opened>>
        /\ fin => endOp = "end"
        /\ fin => \/ streamStage' = "init" /\ cstep' = "return"
                  \/ streamStage' = "flush"
    BY <1>3 DEF Writes
  <1>5. pc = "codec" /\ streamStage = "load" /\ cstep = "work" /\ rest_len = 0
    BY <1>1, <1>4 DEF ReadInv, Working, InCodec
  <1>6. coded' = Append(coded, x)
    BY <1>4 DEF Encoded
  <1>7. x \in CodedItem
    <2>1. encoded' \in Seq(Nat)
      BY <1>1, <1>4, EncodedFacts
    <2>2. Len(encoded') \in Nat
      BY <2>1
    <2>3. DeclaredSize \in Nat \union {Unknown}
      BY <1>1 DEF NumbersTyped, DeclaredSize
    <2> QED BY <2>2, <2>3 DEF CodedItem
  <1>8. x.fin = fin /\ (x.begins <=> stage = "init")
    OBVIOUS
  <1> HIDE DEF x, bytes
  <1>9. /\ Len(coded) \in Nat /\ Len(coded') = Len(coded) + 1
        /\ \A i \in 1 .. Len(coded) : coded'[i] = coded[i]
        /\ coded'[Len(coded) + 1] = x
        /\ coded = <<>> <=> Len(coded) = 0
    BY <1>1, <1>6, <1>7, ItemsAppended
  <1>10. /\ \A i \in 1 .. Len(coded) : coded[i].begins <=> i = 1
         /\ \A i \in 1 .. Len(coded) : coded[i].fin => i = Len(coded)
         /\ ~ FrameDone
    BY <1>5 DEF OneFrameInv
  <1>11. \A i \in 1 .. Len(coded) : ~ coded[i].fin
    <2> SUFFICES ASSUME NEW i \in 1 .. Len(coded), coded[i].fin PROVE FALSE
      OBVIOUS
    <2>1. i = Len(coded)
      BY <1>10
    <2>2. coded # <<>>
      BY <1>9
    <2> QED BY <1>10, <2>1, <2>2 DEF FrameDone
  <1>12. stage = "init" <=> coded = <<>>
    <2>1. stage \in {"init", "ongoing"}
      BY <1>1, <1>5 DEF CInv, SessionInv, FlushInv
    <2>2. CASE stage = "ongoing"
      BY <1>1, <1>5, <2>2 DEF FrameOpen, FrameTrue
    <2>3. CASE stage = "init"
      <3>1. ~ FrameOpen
        BY <2>3 DEF FrameOpen
      <3> QED BY <1>1, <1>10, <2>3, <3>1 DEF FrameTrue, FrameDone
    <2> QED BY <2>1, <2>2, <2>3
  <1>13. \A i \in 1 .. Len(coded') : i \in 1 .. Len(coded) \/ i = Len(coded) + 1
    BY <1>9
  <1>14. ASSUME NEW i \in 1 .. Len(coded')
         PROVE  (coded'[i].begins <=> i = 1) /\ (coded'[i].fin => i = Len(coded'))
    <2>1. CASE i \in 1 .. Len(coded)
      BY <1>9, <1>10, <1>11, <2>1
    <2>2. CASE i = Len(coded) + 1
      <3>1. i = 1 <=> coded = <<>>
        BY <1>9, <2>2
      <3> QED BY <1>8, <1>9, <1>12, <2>2, <3>1
    <2> QED BY <1>13, <2>1, <2>2
  <1>15. FrameDone' => fin
    BY <1>8, <1>9 DEF FrameDone
  <1>16. fin => last /\ streamStage' = "init" /\ cstep' = "return"
    <2>1. DirectInv'
      BY CodecDirect
    <2>2. fin => last
      BY <1>4, <1>5, GzstdState
    <2> QED BY <1>4, <2>1, <2>2 DEF DirectInv
  <1>17. UNCHANGED <<pc, last, rest_len, opened>>
    BY <1>4 DEF vars
  <1>18. opened' = firstByte'
    BY DEF OneFrameInv
  <1> QED BY <1>5, <1>14, <1>15, <1>16, <1>17, <1>18 DEF OneFrameInv

(* A step that writes nothing, and does not leave the last call before its *)
(* end is reported.                                                        *)
LEMMA OneFrameKept ==
    ASSUME OneFrameInv, loop = "read", UNCHANGED <<coded, opened, firstByte>>,
           FrameDone => /\ streamStage' = "init" /\ last'
                        /\ pc' \in {"codec", "drain", "loop"} /\ rest_len' = 0
                        /\ cstep' \in {"return", "out"}
    PROVE  OneFrameInv'
  <1>1. FrameDone' <=> FrameDone
    BY DEF FrameDone
  <1> QED BY <1>1 DEF OneFrameInv

(* Every step keeps OneFrameInv.                                           *)
LEMMA NextOneFrame ==
    ASSUME StreamInv, FilesInv, StreamInv', FullBlocks, OneFrameInv, [GNext]_gzVars
    PROVE  OneFrameInv'
  <1>1. /\ ReadInv /\ LeftInv /\ DirectInv /\ ControlInv /\ NumbersTyped
    BY GzstdState DEF FilesInv
  <1>2. ASSUME NEW n \in FileLens, OpenFile(n)
        PROVE  OneFrameInv'
    <2>1. coded' = <<>> /\ opened' = base /\ firstByte' = base
      BY <1>2 DEF OpenFile
    <2>2. Len(coded') = 0 /\ ~ FrameDone'
      BY <2>1 DEF FrameDone
    <2> QED BY <2>1, <2>2 DEF OneFrameInv
  <1>3. CASE ReadFile
    <2>1. /\ loop = "read" /\ pc = "idle"
          /\ UNCHANGED <<coded, opened, firstByte>>
      BY <1>3, ReadBegins DEF codecVars, cctxVars, historyVars, appVars
    <2>2. ~ FrameDone
      BY <2>1 DEF OneFrameInv
    <2> QED BY <2>1, <2>2, OneFrameKept
  <1>4. CASE ReadError
    BY <1>4 DEF ReadError, OneFrameInv
  <1>5. CASE GzstdChunkEnd
    <2>1. /\ CompressChunkEnd /\ loop' = IF pc' = "idle" THEN IF last THEN "done" ELSE "read"
                                                         ELSE "files"
          /\ firstByte' = firstByte
      BY <1>5 DEF GzstdChunkEnd
    <2>2. /\ pc = "loop" /\ pc' = "idle" /\ UNCHANGED codecVars
          /\ ~ last => opened' = opened
      BY <2>1, ChunkEnds
    <2>3. loop = "read"
      BY <1>1, <2>2 DEF ReadInv
    <2>4. CASE ~ last
      <3>1. ~ FrameDone
        BY <2>3, <2>4 DEF OneFrameInv
      <3>2. UNCHANGED <<coded, opened, firstByte>>
        BY <2>1, <2>2, <2>4 DEF codecVars, cctxVars, historyVars
      <3> QED BY <2>3, <3>1, <3>2, OneFrameKept
    <2>5. CASE last
      BY <2>1, <2>2, <2>5 DEF OneFrameInv
    <2> QED BY <2>4, <2>5
  <1>6. CASE GzstdStep
    <2>1. UNCHANGED <<loop, firstByte>>
      BY <1>6 DEF GzstdStep
    <2>2. loop = "read"
      <3>1. pc # "idle"
        BY <1>1, <1>6, NoEncodeError
           DEF GzstdStep, CompressFill, Fill, CompressDrain, DrainBuffer, CompressStream2,
               InitStream, ResumeStream, Shortcut, LoadAndStop, CompressDirect,
               CompressToOutBuff, BlockReady, Flush, Working, InCodec, StreamReturn,
               CodecReturn
      <3> QED BY <1>1, <3>1 DEF ReadInv
    <2>3. CASE CompressFill
      <3>1. UNCHANGED <<coded, opened>> /\ rest_len # 0
        BY <2>3, FillsAll DEF cctxVars, historyVars, appVars
      <3>2. ~ FrameDone
        BY <2>2, <3>1 DEF OneFrameInv
      <3> QED BY <2>1, <2>2, <3>1, <3>2, OneFrameKept
    <2>4. CASE CompressDrain
      <3>1. /\ pc' = "loop"
            /\ UNCHANGED <<coded, opened, rest_len, last, cstep, streamStage>>
        BY <2>4 DEF CompressDrain, DrainBuffer, callVars, cctxVars, historyVars, sessionVars
      <3>2. FrameDone => /\ streamStage = "init" /\ last /\ rest_len = 0
                         /\ cstep \in {"return", "out"}
        BY <2>2 DEF OneFrameInv
      <3> QED BY <2>1, <2>2, <3>1, <3>2, OneFrameKept
    <2>5. CASE InitStream \/ ResumeStream \/ LoadAndStop
      <3>1. /\ cstep \in {"enter", "work"} /\ UNCHANGED <<coded, opened>>
        BY <2>5 DEF InitStream, ResumeStream, LoadAndStop, Working, cctxVars, historyVars,
                    appVars
      <3>2. ~ FrameDone
        BY <2>2, <3>1 DEF OneFrameInv
      <3> QED BY <2>1, <2>2, <3>1, <3>2, OneFrameKept
    <2>6. CASE Shortcut \/ CompressDirect
      <3>1. opened' = opened
        BY <2>6 DEF Shortcut, CompressDirect, appVars
      <3> QED BY <2>1, <2>2, <2>6, <3>1, WritesOneFrame
    <2>7. CASE StreamReturn
      <3>1. /\ pc' = "drain" /\ cstep' = "out"
            /\ UNCHANGED <<coded, opened, rest_len, last, streamStage>>
        BY <1>1, <2>7 DEF StreamReturn, CodecReturn, ReadInv, cctxVars, sessionVars,
                          historyVars, appVars
      <3>2. FrameDone => streamStage = "init" /\ last /\ rest_len = 0
        BY <2>2 DEF OneFrameInv
      <3> QED BY <2>1, <2>2, <3>1, <3>2, OneFrameKept
    <2> QED BY <1>6, <2>3, <2>4, <2>5, <2>6, <2>7, CodecDirect, NoEncodeError
            DEF GzstdStep, CompressStream2
  <1>7. CASE UNCHANGED gzVars
    <2>1. UNCHANGED <<loop, firstByte, coded, opened, streamStage, last, pc, rest_len, cstep>>
      BY <1>7 DEF gzVars, allVars, vars, codecVars, cctxVars, sessionVars, historyVars,
                  appVars
    <2>2. CASE loop = "read"
      BY <2>1, <2>2, OneFrameKept DEF OneFrameInv
    <2>3. CASE loop # "read"
      BY <2>1, <2>3 DEF OneFrameInv
    <2> QED BY <2>2, <2>3
  <1> QED BY <1>2, <1>3, <1>4, <1>5, <1>6, <1>7 DEF GNext

(* The chunk that ends a file has closed its only frame.                   *)
LEMMA NextFileIsCompressed ==
    ASSUME StreamInv, FilesInv, OneFrameInv, FileIsCompressed, StreamInv', [GNext]_gzVars
    PROVE  FileIsCompressed'
  <1> SUFFICES ASSUME loop' = "done"
               PROVE  /\ {i \in 1 .. Len(coded') : coded'[i].begins} = {1}
                      /\ {i \in 1 .. Len(coded') : coded'[i].fin} = {Len(coded')}
                      /\ encoded' = Numbers(firstByte' + 1, base')
                      /\ drained' = Numbers(1, emitted')
    BY DEF FileIsCompressed, Numbers
  <1>1. CASE UNCHANGED gzVars
    <2>1. UNCHANGED <<loop, firstByte, base, coded, encoded, drained, emitted>>
      BY <1>1 DEF gzVars, allVars, vars, codecVars, cctxVars, historyVars, appVars
    <2> QED BY <2>1 DEF FileIsCompressed
  <1>2. CASE ~ (UNCHANGED gzVars)
    <2>1. GzstdChunkEnd
      <3>1. \A n \in FileLens : ~ OpenFile(n)
        BY DEF OpenFile
      <3>2. ~ ReadFile /\ ~ ReadError
        BY DEF ReadFile, ReadError
      <3>3. ~ GzstdStep
        <4> SUFFICES ASSUME GzstdStep PROVE FALSE
          OBVIOUS
        <4>1. loop = "done"
          BY DEF GzstdStep
        <4>2. pc = "idle"
          BY <4>1 DEF FilesInv, ReadInv
        <4> QED BY <4>2, NoEncodeError
           DEF GzstdStep, CompressFill, Fill, CompressDrain, DrainBuffer, CompressStream2,
               InitStream, ResumeStream, Shortcut, LoadAndStop, CompressDirect,
               CompressToOutBuff, BlockReady, Flush, Working, InCodec, StreamReturn,
               CodecReturn
      <3> QED BY <1>2, <3>1, <3>2, <3>3 DEF GNext
    <2>2. CompressChunkEnd /\ firstByte' = firstByte /\ last
      BY <2>1 DEF GzstdChunkEnd
    <2>3. pc = "loop" /\ pc' = "idle" /\ UNCHANGED codecVars
      BY <2>2, ChunkEnds
    <2>4. loop = "read"
      BY <2>3 DEF FilesInv, ReadInv
    <2>5. /\ coded' # <<>> /\ coded'[Len(coded')].fin /\ coded'[FrameStart'].begins
          /\ FrameBytes' = Numbers(opened + 1, base')
          /\ drained' = Numbers(1, emitted')
      BY <2>2, <2>3, ClosingStep DEF CNext, WrapperSteps
    <2>6. UNCHANGED <<coded, encoded, emitted>>
      BY <2>3 DEF codecVars, cctxVars, historyVars
    <2>7. /\ opened = firstByte
          /\ \A i \in 1 .. Len(coded) : coded[i].begins <=> i = 1
          /\ \A i \in 1 .. Len(coded) : coded[i].fin => i = Len(coded)
      BY <2>4 DEF OneFrameInv
    <2>8. /\ FrameStart' \in 1 .. Len(coded') /\ coded' \in Seq(CodedItem)
          /\ encoded' \in Seq(Nat)
      BY <2>5, SequenceTypes DEF StreamInv, ItemsInv, CInv, CTypeOK, CodedItem
    <2>9. Len(coded') \in Nat /\ Len(coded') >= 1
      BY <2>8
    <2>10. FrameStart' = 1
      BY <2>5, <2>6, <2>7, <2>8
    <2>11. {i \in 1 .. Len(coded') : coded'[i].begins} = {1}
      BY <2>6, <2>7, <2>9
    <2>12. {i \in 1 .. Len(coded') : coded'[i].fin} = {Len(coded')}
      BY <2>5, <2>6, <2>7, <2>9
    <2>13. encoded' = Numbers(firstByte' + 1, base')
      <3>1. FrameBytes' = SubSeq(encoded', 0 + 1, Len(encoded'))
        BY <2>10 DEF FrameBytes, FrameFrom
      <3>2. SubSeq(encoded', 0 + 1, Len(encoded')) = encoded'
        BY <2>8
      <3> QED BY <2>2, <2>5, <2>7, <3>1, <3>2
    <2> QED BY <2>5, <2>11, <2>12, <2>13
  <1> QED BY <1>1, <1>2

-----------------------------------------------------------------------------
(* The start.                                                              *)
LEMMA InitGzstd == GInit => GzstdInv
  <1> SUFFICES ASSUME GInit PROVE GzstdInv
    OBVIOUS
  <1>1. StreamInv
    BY InitCInv, InitFrame DEF GInit, StreamInv
  <1>2. FilesInv
    BY DEF GInit, CInit, Init, FilesInv, ReadInv, LeftInv, DirectInv
  <1>3. OneFrameInv /\ FileIsCompressed
    BY DEF GInit, OneFrameInv, FileIsCompressed
  <1> QED BY <1>1, <1>2, <1>3 DEF GzstdInv

(* What holds of gzstd in every state: each read is compressed by one call *)
(* that takes all of it, nothing stays behind in the buffers of wrapper or *)
(* library between two files, and no chunk fails.                          *)
THEOREM GzstdInvariant ==
    FullBlocks /\ UnevenFiles => (GSpec => []GzstdInv)
  <1> SUFFICES ASSUME FullBlocks, UnevenFiles PROVE GSpec => []GzstdInv
    OBVIOUS
  <1>1. GInit => GzstdInv
    BY InitGzstd
  <1>2. GzstdInv /\ [GNext]_gzVars => GzstdInv'
    <2> SUFFICES ASSUME GzstdInv, [GNext]_gzVars PROVE GzstdInv'
      OBVIOUS
    <2>1. StreamInv /\ FilesInv /\ OneFrameInv /\ FileIsCompressed
      BY DEF GzstdInv
    <2>2. StreamInv'
      BY <2>1, GzstdIsCaller, NextStreamInv
    <2>3. FilesInv' /\ OneFrameInv' /\ FileIsCompressed'
      BY <2>1, <2>2, NextFilesInv, NextOneFrame, NextFileIsCompressed
    <2> QED BY <2>2, <2>3 DEF GzstdInv
  <1> QED BY <1>1, <1>2, PTL DEF GSpec

(* FileIsCompressed: what gzstd has written when it reports a file as      *)
(* compressed is one finished frame with exactly the bytes of this file,   *)
(* whatever was read, or could not be read, of the files before.           *)
THEOREM FilesAreCompressed ==
    FullBlocks /\ UnevenFiles => (GSpec => []FileIsCompressed)
  <1> SUFFICES ASSUME FullBlocks, UnevenFiles PROVE GSpec => []FileIsCompressed
    OBVIOUS
  <1>1. GzstdInv => FileIsCompressed
    BY DEF GzstdInv
  <1> QED BY <1>1, GzstdInvariant, PTL

(* FilesAreSessions: gzstd is an application that resets wrapper and       *)
(* library before each file, although it resets the library only.          *)
THEOREM GzstdIsApplication ==
    FullBlocks /\ UnevenFiles => (GSpec => FilesAreSessions)
  <1> SUFFICES ASSUME FullBlocks, UnevenFiles PROVE GSpec => FilesAreSessions
    OBVIOUS
  <1>1. GInit => CInit
    BY DEF GInit
  <1>2. GzstdInv /\ [GNext]_gzVars => [CNext]_allVars
    BY GzstdIsCaller DEF GzstdInv
  <1> QED BY <1>1, <1>2, GzstdInvariant, PTL DEF GSpec, FilesAreSessions

=============================================================================
