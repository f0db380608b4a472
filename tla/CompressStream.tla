--------------------------- MODULE CompressStream ---------------------------
(***************************************************************************)
(* compress_chunk, compress_end and reset of the V wrapper around          *)
(* ZSTD_compressStream2 of libzstd (single-threaded, buffered mode, the    *)
(* mode the wrapper's build uses).                                         *)
(*                                                                         *)
(* Compressed output is counted in units.  The encoder numbers the units   *)
(* it writes 1, 2, 3 ...; `encoded` remembers the bytes of its blocks and  *)
(* `coded` how they fall into chunks and frames.  How well a block         *)
(* compresses is left open: it takes its smallest or its largest size.     *)
(***************************************************************************)
EXTENDS StreamContext, Sequences, SequencesExt

CONSTANTS
    FrameHdr,     \* units of a frame header
    BlockHdr,     \* ZSTD_blockHeaderSize
    Checksum,     \* units of the frame checksum; 0 when checksum_flag is off
    Margin,       \* what ZSTD_compressBound adds to the source size
    WindowSize,   \* 1 << windowLog
    MaxBlocks,    \* values of max_block_size the application may set
    Pledges,      \* values it may pass to set_pledged_src_size
    MaxUnits      \* bound: no frame is begun after so many units

(* The scaled numbers keep the relations of the real ones: an input buffer *)
(* holds one block of maximal size, ZSTD_CStreamOutSize is the bound of a  *)
(* block plus a block header and a checksum, and the margin of             *)
(* ZSTD_compressBound pays for the headers of every block of InLen bytes.  *)
BlocksOf(n, blockSize) == (n + blockSize - 1) \div blockSize
ASSUME SizesAssumption ==
    /\ FrameHdr \in Nat \ {0} /\ BlockHdr \in Nat \ {0} /\ Checksum \in Nat
    /\ WindowSize \in Nat \ {0} /\ MaxUnits \in Nat
    /\ MaxBlocks \subseteq 1 .. InLen /\ MaxBlocks # {}
    /\ Pledges \subseteq Nat
    /\ Margin \in Nat
    /\ \A b \in MaxBlocks :
          Margin >= FrameHdr + Checksum
                    + BlockHdr * BlocksOf(InLen, LeastOf(b, WindowSize))
ASSUME OutLenIsBound == OutLen = InLen + Margin + BlockHdr + Checksum

VARIABLES
    cstep,          \* where ZSTD_compressStream2 is: "out", "enter", "work", "return"
    ip,             \* its cursor into input.src
    dst,            \* the units in output.dst, up to its cursor op
    streamStage,    \* zcss_init, zcss_load, zcss_flush
    stage,          \* ZSTDcs_created, init, ongoing, ending
    pledgedPlusOne, \* cctx->pledgedSrcSizePlusOne
    consumed,       \* cctx->consumedSrcSize
    maxBlockSize,   \* requestedParams.maxBlockSize
    blockSizeMax, inBuffSize, outBuffSize,
    loaded,         \* the bytes inBuff[inToCompress .. inBuffPos)
    inBuffPos, inToCompress, inBuffTarget,
    outBuff,        \* the units of outBuff; outBuffContentSize is its length
    outFlushed,     \* outBuffFlushedSize
    frameEnded,
    emitted,        \* units written so far
    encoded,        \* the bytes in the blocks written so far
    coded,          \* what the encoder wrote, in order: the first `upto` bytes ...
    drained,        \* units the application's callback accepted
    opened,         \* number of the last byte before the current frame
    pledging        \* the application has pledged a size for this frame

sessionVars == <<streamStage, stage, pledgedPlusOne, consumed, blockSizeMax,
                 inBuffSize, outBuffSize>>
ringVars == <<loaded, inBuffPos, inToCompress, inBuffTarget>>
flushVars == <<outBuff, outFlushed, frameEnded>>
historyVars == <<emitted, encoded, coded>>
cctxVars == <<sessionVars, ringVars, flushVars, historyVars, maxBlockSize>>
codecVars == <<cstep, ip, dst, cctxVars>>
appVars == <<drained, opened, pledging>>
allVars == <<vars, codecVars, appVars>>

CompressBound(n) == n + Margin
Unknown == -1

op == Len(dst)
oSize == OutLen - op
EndOpEarly ==    \* mutant: the frame is ended although more of the slice follows
    IF pc = "endcodec" \/ last THEN "end" ELSE "continue"
endOp == IF pc = "endcodec" \/ (last /\ rest_len = 0) THEN "end" ELSE "continue"

CTypeOK ==
    /\ TypeOK
    /\ cstep \in {"out", "enter", "work", "return"}
    /\ ip \in 0 .. InLen
    /\ dst \in Seq(Nat) /\ outBuff \in Seq(Nat) /\ drained \in Seq(Nat)
    /\ loaded \in Seq(Nat)
    /\ streamStage \in {"init", "load", "flush"}
    /\ stage \in {"created", "init", "ongoing", "ending"}
    /\ {pledgedPlusOne, consumed, blockSizeMax, inBuffSize, outBuffSize, inBuffPos,
        inToCompress, inBuffTarget, outFlushed, emitted, opened} \subseteq Nat
    /\ maxBlockSize \in MaxBlocks
    /\ {frameEnded, pledging} \subseteq BOOLEAN
    /\ encoded \in Seq(Nat)
    /\ coded \in Seq([upto : Nat, begins : BOOLEAN, fin : BOOLEAN,
                       size : Nat \union {Unknown}])

CInit ==
    /\ Init
    /\ cstep = "out" /\ ip = 0 /\ dst = <<>>
    /\ streamStage = "init" /\ stage = "created"
    /\ pledgedPlusOne = 0 /\ consumed = 0
    /\ maxBlockSize \in MaxBlocks
    /\ blockSizeMax = 0 /\ inBuffSize = 0 /\ outBuffSize = 0
    /\ loaded = <<>> /\ inBuffPos = 0 /\ inToCompress = 0 /\ inBuffTarget = 0
    /\ outBuff = <<>> /\ outFlushed = 0 /\ frameEnded = FALSE
    /\ emitted = 0 /\ encoded = <<>> /\ coded = <<>>
    /\ drained = <<>> /\ opened = 0 /\ pledging = FALSE

-----------------------------------------------------------------------------
(* The frame encoder: ZSTD_compressContinue_internal, ZSTD_compress_frame- *)
(* Chunk, ZSTD_writeEpilogue and ZSTD_compressEnd_public.                  *)

HeaderUnits == IF stage = "init" THEN FrameHdr ELSE 0

(* Sizes the blocks of n bytes may take.                                   *)
BlockUnits(n) ==
    LET k == BlocksOf(n, blockSizeMax)
    IN  IF n = 0 THEN {0} ELSE {k * (BlockHdr + 1), n + k * BlockHdr}

(* An empty last block is written only if the chunk itself had no block to *)
(* mark as the last one.                                                   *)
EpilogueUnits(n) == (IF n = 0 THEN BlockHdr ELSE 0) + Checksum

ChunkUnits(n, c, fin) == HeaderUnits + c + IF fin THEN EpilogueUnits(n) ELSE 0

(* Mutant: the pledge is not checked at the end of the frame.              *)
EncodesUnchecked(n, c, fin, capacity) ==
    /\ stage # "created"
    /\ ChunkUnits(n, c, fin) <= capacity
    /\ (n > 0 /\ pledgedPlusOne # 0) => consumed + n + 1 <= pledgedPlusOne

(* The conditions under which encoding n bytes succeeds.                   *)
Encodes(n, c, fin, capacity) ==
    /\ stage # "created"
    /\ ChunkUnits(n, c, fin) <= capacity
    /\ (n > 0 /\ pledgedPlusOne # 0) => consumed + n + 1 <= pledgedPlusOne
    /\ (fin /\ pledgedPlusOne # 0) => pledgedPlusOne = consumed + n + 1

(* The content size the frame header declares: what was pledged when the   *)
(* frame was begun.                                                        *)
DeclaredSize ==
    IF pledgedPlusOne = 0 THEN Unknown ELSE pledgedPlusOne - 1

Units(count) == [i \in 1 .. count |-> emitted + i]

Encoded(bytes, c, fin) ==
    /\ stage' = IF fin THEN "created" ELSE "ongoing"
    /\ consumed' = consumed + Len(bytes)
    /\ emitted' = emitted + ChunkUnits(Len(bytes), c, fin)
    /\ encoded' = encoded \o bytes
    /\ coded' = Append(coded, [upto |-> Len(encoded'), begins |-> stage = "init",
                               fin |-> fin, size |-> DeclaredSize])

(* A refusal half way: the chunk may have been written, and after the      *)
(* epilogue the stage is back to created.                                  *)
Refused(n, c, fin, capacity) ==
    /\ ~ Encodes(n, c, fin, capacity)
    /\ consumed' = IF stage = "created" THEN consumed ELSE consumed + n
    /\ stage' = CASE stage = "created" -> "created"
                  [] stage # "created" /\ fin /\ consumed + n < pledgedPlusOne -> "created"
                  [] OTHER -> IF fin /\ n > 0 THEN "ending" ELSE "ongoing"

(* Mutant: the pledge is kept for the next frame.                          *)
SessionResetKeeping == streamStage' = "init" /\ UNCHANGED pledgedPlusOne

(* ZSTD_CCtx_reset(ZSTD_reset_session_only).                               *)
SessionReset == streamStage' = "init" /\ pledgedPlusOne' = 0

-----------------------------------------------------------------------------
(* ZSTD_compressStream2.                                                   *)

InCodec == pc \in {"codec", "endcodec"}

(* Transparent initialisation: ZSTD_CCtx_init_compressStream2 and          *)
(* ZSTD_resetCCtx_internal.  With ZSTD_e_end the input at hand is the      *)
(* whole frame and overrides the pledge.                                   *)
InitStream ==
    LET pledge == IF endOp = "end" THEN in_size - in_pos + 1 ELSE pledgedPlusOne
        known == pledge # 0
        least == IF known THEN LeastOf(WindowSize, pledge - 1) ELSE WindowSize
        window == IF least = 0 THEN 1 ELSE least
        block == LeastOf(maxBlockSize, window)
    IN  /\ InCodec /\ cstep = "enter" /\ streamStage = "init"
        /\ pledgedPlusOne' = pledge
        /\ blockSizeMax' = block
        /\ inBuffSize' = window + block
        /\ outBuffSize' = CompressBound(block) + 1
        /\ consumed' = 0 /\ stage' = "init"
        /\ loaded' = <<>> /\ inBuffPos' = 0 /\ inToCompress' = 0
        /\ inBuffTarget' = block + (IF known /\ block = pledge - 1 THEN 1 ELSE 0)
        /\ outBuff' = <<>> /\ outFlushed' = 0 /\ frameEnded' = FALSE
        /\ streamStage' = "load"
        /\ cstep' = "work"
        /\ UNCHANGED <<vars, ip, dst, historyVars, maxBlockSize, appVars>>

ResumeStream ==
    /\ InCodec /\ cstep = "enter" /\ streamStage # "init"
    /\ cstep' = "work"
    /\ UNCHANGED <<vars, ip, dst, cctxVars, appVars>>

Working(where) == InCodec /\ cstep = "work" /\ streamStage = where

(* The bytes the caller's buffer still offers.                             *)
Available == in_size - ip
Offered(n) == [i \in 1 .. n |-> in_src[ip + i - 1]]

MayShortcut ==
    /\ endOp = "end"
    /\ oSize >= CompressBound(Available)
    /\ inBuffPos = 0

(* Nothing is buffered and the output is large enough: the whole rest of   *)
(* the frame goes straight into the caller's buffer.                       *)
Shortcut ==
    /\ Working("load") /\ MayShortcut
    /\ \E c \in BlockUnits(Available) :
          /\ Encodes(Available, c, TRUE, oSize)
          /\ Encoded(Offered(Available), c, TRUE)
          /\ dst' = dst \o Units(ChunkUnits(Available, c, TRUE))
          /\ ip' = in_size
          /\ frameEnded' = TRUE
          /\ SessionReset
          /\ cstep' = "return"
          /\ UNCHANGED <<vars, blockSizeMax, inBuffSize, outBuffSize, ringVars,
                         outBuff, outFlushed, maxBlockSize, appVars>>

ToLoad == LeastOf(inBuffTarget - inBuffPos, Available)
AllLoaded == loaded \o Offered(ToLoad)

(* Not enough input for a full block: keep it and stop.                    *)
LoadAndStop ==
    /\ Working("load") /\ ~ MayShortcut
    /\ endOp = "continue"
    /\ inBuffPos + ToLoad < inBuffTarget
    /\ loaded' = AllLoaded
    /\ inBuffPos' = inBuffPos + ToLoad
    /\ ip' = ip + ToLoad
    /\ cstep' = "return"
    /\ UNCHANGED <<vars, dst, sessionVars, inToCompress, inBuffTarget, flushVars,
                   historyVars, maxBlockSize, appVars>>

(* A block is ready: the input is at its end or the ring's target reached. *)
BlockReady ==
    /\ Working("load") /\ ~ MayShortcut
    /\ endOp = "end" \/ inBuffPos + ToLoad >= inBuffTarget

LastBlock == endOp = "end" /\ ip + ToLoad = in_size

(* Mutants: the block's bytes stay behind to be compressed again; the ring *)
(* wraps only when the last block itself is behind its end.                *)
NextBlockRepeating ==
    LET filled == inBuffPos + ToLoad
        wraps == filled + blockSizeMax > inBuffSize
    IN  /\ loaded' = AllLoaded
        /\ inBuffPos' = IF wraps THEN 0 ELSE filled
        /\ inToCompress' = inBuffPos'
        /\ inBuffTarget' = inBuffPos' + blockSizeMax
        /\ ip' = ip + ToLoad
NextBlockWrapsLate ==
    LET filled == inBuffPos + ToLoad
        wraps == filled > inBuffSize
    IN  /\ loaded' = <<>>
        /\ inBuffPos' = IF wraps THEN 0 ELSE filled
        /\ inToCompress' = inBuffPos'
        /\ inBuffTarget' = inBuffPos' + blockSizeMax
        /\ ip' = ip + ToLoad

(* Prepare the ring for the next block, wrapping when it would not fit.    *)
NextBlock ==
    LET filled == inBuffPos + ToLoad
        wraps == filled + blockSizeMax > inBuffSize
    IN  /\ loaded' = <<>>
        /\ inBuffPos' = IF wraps THEN 0 ELSE filled
        /\ inToCompress' = inBuffPos'
        /\ inBuffTarget' = inBuffPos' + blockSizeMax
        /\ ip' = ip + ToLoad

(* Mutant: the call returns after the block.                               *)
CompressDirectOnce ==
    LET n == Len(AllLoaded) IN
    /\ BlockReady
    /\ \E c \in BlockUnits(n) :
          /\ oSize >= CompressBound(n)
          /\ Encodes(n, c, LastBlock, oSize)
          /\ Encoded(AllLoaded, c, LastBlock)
          /\ NextBlock
          /\ dst' = dst \o Units(ChunkUnits(n, c, LastBlock))
          /\ frameEnded' = LastBlock
          /\ IF LastBlock THEN SessionReset ELSE UNCHANGED <<streamStage, pledgedPlusOne>>
          /\ cstep' = "return"
          /\ UNCHANGED <<vars, blockSizeMax, inBuffSize, outBuffSize, outBuff,
                         outFlushed, maxBlockSize, appVars>>

(* The block is compressed straight into the caller's buffer.              *)
CompressDirect ==
    LET n == Len(AllLoaded) IN
    /\ BlockReady
    /\ \E c \in BlockUnits(n) :
          /\ oSize >= CompressBound(n)
          /\ Encodes(n, c, LastBlock, oSize)
          /\ Encoded(AllLoaded, c, LastBlock)
          /\ NextBlock
          /\ dst' = dst \o Units(ChunkUnits(n, c, LastBlock))
          /\ frameEnded' = LastBlock
          /\ IF LastBlock THEN SessionReset /\ cstep' = "return"
                          ELSE UNCHANGED <<streamStage, pledgedPlusOne, cstep>>
          /\ UNCHANGED <<vars, blockSizeMax, inBuffSize, outBuffSize, outBuff,
                         outFlushed, maxBlockSize, appVars>>

(* There may be no room: compress into outBuff and go on flushing.         *)
CompressToOutBuff ==
    LET n == Len(AllLoaded) IN
    /\ BlockReady
    /\ \E c \in BlockUnits(n) :
          /\ oSize < CompressBound(n)
          /\ Encodes(n, c, LastBlock, outBuffSize)
          /\ Encoded(AllLoaded, c, LastBlock)
          /\ NextBlock
          /\ outBuff' = Units(ChunkUnits(n, c, LastBlock))
          /\ outFlushed' = 0
          /\ frameEnded' = LastBlock
          /\ streamStage' = "flush"
          /\ UNCHANGED <<vars, cstep, dst, pledgedPlusOne, blockSizeMax, inBuffSize,
                         outBuffSize, maxBlockSize, appVars>>

ToFlush == Len(outBuff) - outFlushed

(* Mutants: a partial flush is not accounted for; the stage stays zcss_-   *)
(* flush when everything is flushed.                                       *)
FlushForgetful ==
    LET flushed == LeastOf(oSize, ToFlush) IN
    /\ Working("flush")
    /\ dst' = dst \o SubSeq(outBuff, outFlushed + 1, outFlushed + flushed)
    /\ IF flushed # ToFlush
       THEN cstep' = "return" /\ UNCHANGED <<outFlushed, streamStage, pledgedPlusOne, outBuff>>
       ELSE /\ outBuff' = <<>> /\ outFlushed' = 0
            /\ IF frameEnded
               THEN SessionReset /\ cstep' = "return"
               ELSE streamStage' = "load" /\ UNCHANGED <<pledgedPlusOne, cstep>>
    /\ UNCHANGED <<vars, ip, stage, consumed, blockSizeMax, inBuffSize, outBuffSize,
                   ringVars, frameEnded, historyVars, maxBlockSize, appVars>>
FlushForever ==
    LET flushed == LeastOf(oSize, ToFlush) IN
    /\ Working("flush")
    /\ dst' = dst \o SubSeq(outBuff, outFlushed + 1, outFlushed + flushed)
    /\ IF flushed # ToFlush
       THEN /\ outFlushed' = outFlushed + flushed
            /\ cstep' = "return"
            /\ UNCHANGED <<streamStage, pledgedPlusOne, outBuff>>
       ELSE /\ outBuff' = <<>> /\ outFlushed' = 0
            /\ IF frameEnded
               THEN SessionReset /\ cstep' = "return"
               ELSE UNCHANGED <<streamStage, pledgedPlusOne, cstep>>
    /\ UNCHANGED <<vars, ip, stage, consumed, blockSizeMax, inBuffSize, outBuffSize,
                   ringVars, frameEnded, historyVars, maxBlockSize, appVars>>

(* zcss_flush: copy what fits; stop when output.dst is full or the frame   *)
(* is complete.                                                            *)
Flush ==
    LET flushed == LeastOf(oSize, ToFlush) IN
    /\ Working("flush")
    /\ dst' = dst \o SubSeq(outBuff, outFlushed + 1, outFlushed + flushed)
    /\ IF flushed # ToFlush
       THEN /\ outFlushed' = outFlushed + flushed
            /\ cstep' = "return"
            /\ UNCHANGED <<streamStage, pledgedPlusOne, outBuff>>
       ELSE /\ outBuff' = <<>> /\ outFlushed' = 0
            /\ IF frameEnded
               THEN SessionReset /\ cstep' = "return"
               ELSE streamStage' = "load" /\ UNCHANGED <<pledgedPlusOne, cstep>>
    /\ UNCHANGED <<vars, ip, stage, consumed, blockSizeMax, inBuffSize, outBuffSize,
                   ringVars, frameEnded, historyVars, maxBlockSize, appVars>>

(* The encoder refuses: input.pos and output.pos keep their values, what   *)
(* was loaded stays in inBuff and the session is left in the middle.       *)
EncodeError ==
    /\ \/ /\ Working("load") /\ MayShortcut
          /\ \E c \in BlockUnits(Available) : Refused(Available, c, TRUE, oSize)
          /\ UNCHANGED ringVars
       \/ /\ BlockReady
          /\ LET n == Len(AllLoaded)
                 capacity == IF oSize >= CompressBound(n) THEN oSize ELSE outBuffSize
             IN  \E c \in BlockUnits(n) : Refused(n, c, LastBlock, capacity)
          /\ loaded' = AllLoaded
          /\ inBuffPos' = inBuffPos + ToLoad
          /\ UNCHANGED <<inToCompress, inBuffTarget>>
    /\ CodecFail(in_pos, out_pos)
    /\ cstep' = "out" /\ ip' = 0
    /\ dst' = SubSeq(dst, 1, out_pos)
    /\ UNCHANGED <<streamStage, pledgedPlusOne, blockSizeMax, inBuffSize, outBuffSize,
                   flushVars, historyVars, maxBlockSize, appVars>>

(* Back in the wrapper: what is left to flush is the result.               *)
StreamReturn ==
    /\ cstep = "return"
    /\ CodecReturn(ip, op, ToFlush)
    /\ cstep' = "out" /\ ip' = 0
    /\ UNCHANGED <<dst, cctxVars, appVars>>

CompressStream2 ==
    \/ InitStream \/ ResumeStream \/ Shortcut \/ LoadAndStop \/ CompressDirect
    \/ CompressToOutBuff \/ Flush \/ EncodeError \/ StreamReturn

-----------------------------------------------------------------------------
(* The application and the wrapper.                                        *)

Enter == cstep' = "enter" /\ ip' = in_pos

(* compress_chunk with a slice of n bytes.                                 *)
CompressChunk(n, isLast) ==
    /\ emitted <= MaxUnits
    /\ ChunkBegin(n, isLast)
    /\ UNCHANGED <<codecVars, appVars>>

CompressFill ==
    /\ Fill
    /\ Enter
    /\ UNCHANGED <<dst, cctxVars, appVars>>

Accept == drained' = drained \o dst /\ dst' = <<>>

CompressDrain ==
    /\ DrainBuffer
    /\ Accept
    /\ UNCHANGED <<cstep, ip, cctxVars, opened, pledging>>

(* The callback fails, before or after it has stored what it was given.    *)
CompressDrainFail ==
    /\ DrainFail
    /\ drained' \in {drained, drained \o dst}
    /\ UNCHANGED <<codecVars, opened, pledging>>

(* With `last` the call closes a frame: the next byte belongs to the next. *)
CompressChunkEnd ==
    /\ ChunkEnd
    /\ IF last /\ result' = "ok"
       THEN opened' = base' /\ pledging' = FALSE
       ELSE UNCHANGED <<opened, pledging>>
    /\ UNCHANGED <<codecVars, drained>>

CompressEnd ==
    /\ emitted <= MaxUnits
    /\ EndBegin
    /\ Enter
    /\ UNCHANGED <<dst, cctxVars, appVars>>

CompressEndDrain ==
    /\ EndDrain
    /\ Accept
    /\ opened' = base /\ pledging' = FALSE
    /\ UNCHANGED <<cstep, ip, cctxVars>>

(* CompressContext.set_pledged_src_size: refused in the middle of a frame. *)
SetPledgedSrcSize(n) ==
    /\ pc = "idle" /\ streamStage = "init"
    /\ pledgedPlusOne' = n + 1
    /\ pledging' = TRUE
    /\ UNCHANGED <<vars, cstep, ip, dst, streamStage, stage, consumed, blockSizeMax,
                   inBuffSize, outBuffSize, ringVars, flushVars, historyVars,
                   maxBlockSize, drained, opened>>

(* CompressContext.set_param(max_block_size): refused in the middle too.   *)
SetMaxBlockSize(b) ==
    /\ pc = "idle" /\ streamStage = "init"
    /\ maxBlockSize' = b
    /\ UNCHANGED <<vars, cstep, ip, dst, sessionVars, ringVars, flushVars, historyVars,
                   appVars>>

(* The application gives up the frame: StreamContext.reset together with   *)
(* CompressContext.reset(session_only); what was drained is thrown away.   *)
Restart ==
    /\ Reset
    /\ SessionReset
    /\ dst' = <<>>
    /\ drained' = <<>> /\ emitted' = 0 /\ encoded' = <<>> /\ coded' = <<>>
    /\ opened' = base /\ pledging' = FALSE
    /\ UNCHANGED <<cstep, ip, stage, consumed, blockSizeMax, inBuffSize, outBuffSize,
                   ringVars, flushVars, maxBlockSize>>

WrapperSteps ==
    \/ CompressFill \/ CompressDrain \/ CompressDrainFail \/ CompressChunkEnd
    \/ CompressEndDrain

Application(chunks) ==
    \/ \E call \in chunks : CompressChunk(call[1], call[2])
    \/ CompressEnd
    \/ \E n \in Pledges : SetPledgedSrcSize(n)
    \/ \E b \in MaxBlocks : SetMaxBlockSize(b)
    \/ Restart

AnyChunk == ChunkLens \X BOOLEAN

(* The application ends a frame with compress_end or with a last chunk     *)
(* that is not empty: an empty one ends nothing (see CSpecEmptyLast).       *)
CNext ==
    \/ Application(AnyChunk \ {<<0, TRUE>>})
    \/ WrapperSteps
    \/ CompressStream2

(* A call runs to its end: nothing in it waits for anyone.                 *)
Progress == WF_allVars(WrapperSteps \/ CompressStream2)
CSpec == CInit /\ [][CNext]_allVars /\ Progress

(* The same with empty last chunks.                                        *)
CSpecEmptyLast ==
    CInit /\ [][Application(AnyChunk) \/ WrapperSteps \/ CompressStream2]_allVars /\ Progress

-----------------------------------------------------------------------------
(* Reading the compressed stream.                                          *)

Numbers(from, to) == [i \in 1 .. to - from + 1 |-> from + i - 1]

(* The last frame, finished or not: its first item and its bytes.          *)
FrameStart ==
    LET ends == {i \in 1 .. Len(coded) - 1 : coded[i].fin}
    IN  IF ends = {} THEN 1 ELSE Max(ends) + 1
FrameFrom == IF FrameStart = 1 THEN 0 ELSE coded[FrameStart - 1].upto
FrameBytes == SubSeq(encoded, FrameFrom + 1, Len(encoded))

(* The units of the flush buffer that still have to leave; a session that  *)
(* was given up may leave stale ones behind.                               *)
Unflushed ==
    IF streamStage = "flush" THEN SubSeq(outBuff, outFlushed + 1, Len(outBuff)) ELSE <<>>

EatenNow == IF cstep = "out" THEN eaten ELSE eaten + (ip - in_pos)

-----------------------------------------------------------------------------
(* A frame is whole when its end is reported: a last compress_chunk, or    *)
(* compress_end, that returns without an error has handed the callback     *)
(* every unit of a finished frame holding exactly the bytes of that frame, *)
(* in order, although compress_end ignores what ZSTD_compressStream2 says  *)
(* is left to flush. CSpec has no empty last chunk; with one the claim is  *)
(* false (CSpecEmptyLast), as the loop is skipped.                         *)
ClosesFrame ==
    [][(pc \in {"loop", "enddrain"} /\ pc' = "idle" /\ last) =>
          /\ coded' # <<>> /\ coded'[Len(coded')].fin /\ coded'[FrameStart'].begins
          /\ FrameBytes' = Numbers(opened + 1, base')
          /\ drained' = Numbers(1, emitted')]_allVars

(* Between the wrapper's buffer and the blocks no byte is lost, repeated   *)
(* or reordered, wherever the ring wraps and however calls split the data. *)
EncodedInOrder ==
    pc # "failed" =>
        LET bytes == encoded \o IF streamStage = "init" THEN <<>> ELSE loaded
        IN  bytes = Numbers(EatenNow - Len(bytes) + 1, EatenNow)

(* Between the encoder and the callback no unit is lost, repeated or       *)
(* reordered: drained, output.dst and the unflushed part of outBuff.       *)
OutputInOrder ==
    pc # "failed" =>
        drained \o dst \o Unflushed = Numbers(1, emitted)

(* The ring and the flush buffer are never overrun, also when the target   *)
(* is one byte larger than a block (assert inBuffTarget <= inBuffSize).    *)
RingInBounds ==
    streamStage # "init" =>
        /\ inToCompress <= inBuffPos
        /\ inBuffPos - inToCompress = Len(loaded)
        /\ inBuffPos <= inBuffTarget /\ inBuffTarget <= inBuffSize
        /\ outFlushed <= Len(outBuff) /\ Len(outBuff) <= outBuffSize

(* Compression fails only on a broken pledge: output.dst or outBuff is     *)
(* always large enough for the block that is sent there.                   *)
FailsOnlyOnPledge == result = "codec_error" => pledging

(* The content size in the header of a finished frame is the number of     *)
(* bytes in the frame, though it is written before they are known.         *)
HeaderIsTrue ==
    (coded # <<>> /\ coded[Len(coded)].fin) =>
        coded[FrameStart].size \in {Unknown, Len(FrameBytes)}

(* Every call comes back.                                                  *)
CallReturns == pc \notin {"idle", "failed"} ~> pc \in {"idle", "failed"}

(* The wrapper with this codec is the wrapper with a thrifty codec:        *)
(* ZSTD_compressStream2 leaves input behind only after taking at least     *)
(* half of the buffer, and drain_buffer's vmemmove is then harmless.       *)
SC == INSTANCE StreamContext WITH res <- IF res = 0 THEN 0 ELSE 1
ThriftyWrapper == SC!ThriftySpec

=============================================================================
