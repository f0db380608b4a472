------------------------------- MODULE DStream -------------------------------
(***************************************************************************)
(* ZSTD_decompressStream of libzstd (src/libzstd/decompress/               *)
(* zstd_decompress.c) in buffered output mode: the stream state machine    *)
(* zdss_..., the frame state machine ZSTDds_..., the ring buffer outBuff   *)
(* that keeps the window of the frame, and the hostage byte.               *)
(*                                                                         *)
(* The compressed stream is a sequence of frames, counted in units;        *)
(* the content is counted in bytes, byte k being the k-th of all frames    *)
(* together.  A call offers iAvail units of input and oRoom bytes of       *)
(* output; who calls is left to the modules that extend this one.          *)
(***************************************************************************)
EXTENDS Integers, Sequences, SequencesExt

CONSTANTS
    Streams,        \* the streams: sequences of frames (see FrameType)
    MinHdr,         \* units from which the length of a frame header is known
    BlockHdr,       \* ZSTD_blockHeaderSize
    ChecksumUnits,  \* units of a frame checksum
    BlockMax,       \* ZSTD_BLOCKSIZE_MAX
    Overlength,     \* WILDCOPY_OVERLENGTH
    NoProgressMax,  \* ZSTD_NO_FORWARD_PROGRESS_MAX
    TooLarge,       \* ZSTD_WORKSPACETOOLARGE_FACTOR
    TooLong         \* ZSTD_WORKSPACETOOLARGE_MAXDURATION

Unknown == -1       \* ZSTD_CONTENTSIZE_UNKNOWN

(* A frame: hdr units of header, the declared content size, the window,    *)
(* the blocks, whether a checksum follows and what is wrong with it.       *)
(* A skippable frame has hdr units of header and skip units of data.       *)
BlockType == [kind : {"raw", "packed"}, csize : Nat, rsize : Nat]
FrameType == [hdr : Nat, fcs : Nat \union {Unknown}, window : Nat \ {0},
              blocks : Seq(BlockType), checksum : BOOLEAN, skip : Nat \union {Unknown},
              flaw : {"none", "header", "window", "size", "checksum"}]
ASSUME StreamsAssumption == Streams \subseteq Seq(FrameType)
ASSUME SizesAssumption ==
    /\ {MinHdr, BlockHdr, ChecksumUnits, BlockMax} \subseteq Nat \ {0}
    /\ {Overlength, NoProgressMax, TooLarge, TooLong} \subseteq Nat
    /\ BlockHdr <= ChecksumUnits

Smaller(a, b) == IF a <= b THEN a ELSE b
Larger(a, b) == IF a <= b THEN b ELSE a

(* The sums of the first k members of a sequence of numbers, for every k.  *)
PrefixSums(s) ==
    LET sum[k \in 0 .. Len(s)] == IF k = 0 THEN 0 ELSE sum[k - 1] + s[k] IN sum

(* The units and the content bytes of the blocks, and of a whole frame.    *)
BlockUnits(f) == [k \in 1 .. Len(f.blocks) |-> BlockHdr + f.blocks[k].csize]
BlockBytes(f) == [k \in 1 .. Len(f.blocks) |-> f.blocks[k].rsize]

FrameUnits(f) ==
    IF f.skip # Unknown THEN f.hdr + f.skip
    ELSE f.hdr + PrefixSums(BlockUnits(f))[Len(f.blocks)]
         + (IF f.checksum THEN ChecksumUnits ELSE 0)
FrameBytes(f) == PrefixSums(BlockBytes(f))[Len(f.blocks)]

(* What makes a frame one that an encoder writes, but for its flaw: blocks *)
(* no larger than the frame allows, a declared size that is the true one,  *)
(* unless that is what is wrong, and a checksum if that is.                *)
BlockOK(f, b) ==
    /\ b.csize <= Smaller(f.window, BlockMax) /\ b.rsize <= Smaller(f.window, BlockMax)
    /\ b.kind = "raw" \/ b.csize = 0 => b.rsize = b.csize
FrameOK(f) ==
    /\ f.hdr >= MinHdr
    /\ IF f.skip # Unknown
       THEN f.blocks = <<>> /\ f.flaw \in {"none", "header"}
       ELSE f.blocks # <<>>
    /\ \A k \in 1 .. Len(f.blocks) : BlockOK(f, f.blocks[k])
    /\ f.skip = Unknown /\ f.fcs # Unknown => (FrameBytes(f) = f.fcs <=> f.flaw # "size")
    /\ f.flaw = "size" => f.fcs # Unknown
    /\ f.flaw = "checksum" => f.checksum
ASSUME FramesAssumption == \A s \in Streams : \A k \in 1 .. Len(s) : FrameOK(s[k])

VARIABLES
    dpc,            \* "out" of the library, "work", "finish", or after an "error"
    iAvail, oRoom,  \* what the current call still offers: iend - ip, oend - op
    taken,          \* ip - istart
    made,           \* op - ostart
    ret,            \* what the last call returned
    zStage,         \* streamStage: zdss_init, loadHeader, read, load, flush
    lhSize,         \* header units loaded
    dStage,         \* stage: ZSTDds_...
    expected,       \* units the frame decoder wants next
    inPos,          \* units loaded into inBuff
    outStart, outEnd,
    hostageByte, noForwardProgress,
    inBuffSize, outBuffSize, oversizedDuration,
    outBuff,        \* content bytes held by outBuff (0: none of them)
    Frames,         \* the stream that is decoded
    frame, block,   \* the frame being read and the number of its current block
    decoded,        \* content bytes decoded so far
    frameBase,      \* number of the last content byte before this frame
    delivered       \* content bytes the caller has received, in order

callIO == <<iAvail, oRoom, taken, made>>
ringVars == <<outStart, outEnd, outBuff>>
sizeVars == <<inBuffSize, outBuffSize, oversizedDuration>>
placeVars == <<frame, block, decoded, frameBase>>
dctxVars == <<zStage, lhSize, dStage, expected, inPos, ringVars, hostageByte,
              noForwardProgress, sizeVars, placeVars>>
dVars == <<dpc, callIO, ret, dctxVars, Frames, delivered>>

F == Frames[frame]
InStream == frame \in 1 .. Len(Frames)
Skippable == F.skip # Unknown
B == F.blocks[block]
LastBlock == block = Len(F.blocks)
blockSizeMax == IF Skippable THEN 0 ELSE Smaller(F.window, BlockMax)

DTypeOK ==
    /\ dpc \in {"out", "work", "finish", "error"}
    /\ zStage \in {"init", "loadHeader", "read", "load", "flush"}
    /\ dStage \in {"getFrameHeaderSize", "decodeBlockHeader", "decompressBlock",
                   "checkChecksum", "skipFrame"}
    /\ {iAvail, oRoom, taken, made, ret, lhSize, expected, inPos, outStart, outEnd,
        noForwardProgress, inBuffSize, outBuffSize, oversizedDuration, decoded,
        frameBase, block} \subseteq Nat
    /\ outBuff \in [0 .. outBuffSize - 1 -> Nat]
    /\ hostageByte \in BOOLEAN
    /\ frame \in 0 .. Len(Frames) + 1
    /\ delivered \in Seq(Nat)

DInit ==
    /\ Frames \in Streams
    /\ dpc = "out"
    /\ iAvail = 0 /\ oRoom = 0 /\ taken = 0 /\ made = 0 /\ ret = 1
    /\ zStage = "init" /\ lhSize = 0
    /\ dStage = "getFrameHeaderSize" /\ expected = 0
    /\ inPos = 0 /\ outStart = 0 /\ outEnd = 0
    /\ hostageByte = FALSE /\ noForwardProgress = 0
    /\ inBuffSize = 0 /\ outBuffSize = 0 /\ oversizedDuration = 0
    /\ outBuff = <<>>
    /\ frame = 0 /\ block = 0 /\ decoded = 0 /\ frameBase = 0
    /\ delivered = <<>>

(* A call that offers a units of input and r bytes of output.              *)
Offer(a, r) ==
    /\ dpc = "out"
    /\ dpc' = "work"
    /\ iAvail' = a /\ oRoom' = r /\ taken' = 0 /\ made' = 0
    /\ UNCHANGED <<ret, dctxVars, Frames, delivered>>

At(where) == dpc = "work" /\ zStage = where
Consume(n) == iAvail' = iAvail - n /\ taken' = taken + n
DError == dpc' = "error"

-----------------------------------------------------------------------------
(* zdss_init: transparent reset, and what follows is a new frame.          *)
StreamInit ==
    /\ At("init")
    /\ zStage' = "loadHeader"
    /\ lhSize' = 0 /\ inPos' = 0 /\ outStart' = 0 /\ outEnd' = 0
    /\ hostageByte' = FALSE
    /\ frame' = Smaller(frame, Len(Frames)) + 1 /\ block' = 0
    /\ frameBase' = decoded
    /\ UNCHANGED <<dpc, callIO, ret, dStage, expected, outBuff, noForwardProgress,
                   sizeVars, decoded, delivered>>

(* How many units the header needs, as far as the loaded ones tell.        *)
HeaderNeed == IF ~ InStream \/ lhSize < MinHdr THEN MinHdr ELSE F.hdr
HeaderKnown == InStream /\ lhSize >= MinHdr /\ lhSize >= F.hdr
HeaderIsBad == InStream /\ lhSize >= MinHdr /\ F.flaw = "header"

(* The header is incomplete: load what is there.  Without enough of it the *)
(* call returns at once with a hint.                                       *)
LoadHeader ==
    LET toLoad == HeaderNeed - lhSize
        loads == Smaller(toLoad, iAvail)
    IN  /\ At("loadHeader") /\ ~ HeaderIsBad /\ ~ HeaderKnown
        /\ Consume(loads)
        /\ lhSize' = lhSize + loads
        /\ IF toLoad > iAvail
           THEN /\ dpc' = "out"
                /\ ret' = Larger(MinHdr, HeaderNeed) - lhSize' + BlockHdr
           ELSE UNCHANGED <<dpc, ret>>
        /\ UNCHANGED <<oRoom, made, zStage, dStage, expected, inPos, ringVars,
                       hostageByte, noForwardProgress, sizeVars, placeVars, delivered>>

(* The header is not one of a zstd frame.                                  *)
BadHeader ==
    /\ At("loadHeader") /\ HeaderIsBad
    /\ DError
    /\ UNCHANGED <<callIO, ret, dctxVars, delivered>>

(* The same for the first n frames of the stream.                          *)
UnitsThrough(n) == PrefixSums([k \in 1 .. Len(Frames) |-> FrameUnits(Frames[k])])[n]
BytesThrough(n) == PrefixSums([k \in 1 .. Len(Frames) |-> FrameBytes(Frames[k])])[n]
Total == UnitsThrough(Len(Frames))

(* The whole frame is at hand and its content fits: decode it in one pass.  *)
(* The frame is looked for where this call's input starts, so its header    *)
(* must not have been loaded by an earlier call.  The window is not limited *)
(* here, as none is allocated.                                              *)
SinglePass ==
    /\ HeaderKnown /\ ~ Skippable
    /\ F.fcs # Unknown /\ oRoom >= F.fcs
    /\ lhSize = taken
    /\ FrameUnits(F) <= taken + iAvail

Bytes(from, n) == [i \in 1 .. n |-> from + i]

DecodeSinglePass ==
    /\ At("loadHeader") /\ ~ HeaderIsBad /\ SinglePass
    /\ IF F.flaw \in {"size", "checksum"}
       THEN DError /\ UNCHANGED <<callIO, zStage, expected, placeVars, delivered>>
       ELSE /\ Consume(FrameUnits(F) - taken)
            /\ oRoom' = oRoom - FrameBytes(F) /\ made' = made + FrameBytes(F)
            /\ delivered' = delivered \o Bytes(decoded, FrameBytes(F))
            /\ decoded' = decoded + FrameBytes(F)
            /\ expected' = 0
            /\ zStage' = "init"
            /\ dpc' = "finish"
            /\ UNCHANGED <<frame, block, frameBase>>
    /\ UNCHANGED <<ret, lhSize, dStage, inPos, ringVars, hostageByte,
                   noForwardProgress, sizeVars>>

(* ZSTD_decodingBufferSize_internal.                                       *)
neededOutBuffSizeOneBlock ==    \* mutant: room for one block less
    LET ring == F.window + blockSizeMax + 2 * Overlength
    IN  IF F.fcs = Unknown THEN ring ELSE Smaller(F.fcs, ring)
neededOutBuffSize ==
    LET ring == F.window + 2 * blockSizeMax + 2 * Overlength
    IN  IF F.fcs = Unknown THEN ring ELSE Smaller(F.fcs, ring)
neededInBuffSizeBlock == blockSizeMax    \* mutant: no room for a checksum
neededInBuffSize == Larger(blockSizeMax, ChecksumUnits)

Oversized ==
    inBuffSize + outBuffSize >= (neededInBuffSize + neededOutBuffSize) * TooLarge
Duration == IF Oversized THEN oversizedDuration + 1 ELSE 0

(* Consume the header and adapt the buffers: they are replaced when they   *)
(* are too small or have been too large for too long.                      *)
ConsumeHeader ==
    /\ At("loadHeader") /\ HeaderKnown /\ ~ HeaderIsBad /\ ~ SinglePass
    /\ F.flaw # "window"
    /\ IF Skippable
       THEN expected' = F.skip /\ dStage' = "skipFrame"
       ELSE expected' = BlockHdr /\ dStage' = "decodeBlockHeader"
    /\ block' = 1
    /\ oversizedDuration' = Duration
    /\ IF inBuffSize < neededInBuffSize \/ outBuffSize < neededOutBuffSize
          \/ Duration >= TooLong
       THEN /\ inBuffSize' = neededInBuffSize
            /\ outBuffSize' = neededOutBuffSize
            /\ outBuff' = [p \in 0 .. neededOutBuffSize - 1 |-> 0]
       ELSE UNCHANGED <<inBuffSize, outBuffSize, outBuff>>
    /\ zStage' = "read"
    /\ UNCHANGED <<dpc, callIO, ret, lhSize, inPos, outStart, outEnd, hostageByte,
                   noForwardProgress, frame, decoded, frameBase, delivered>>

(* The window is larger than the one that is allowed.                      *)
RefuseWindow ==
    /\ At("loadHeader") /\ HeaderKnown /\ ~ SinglePass
    /\ F.flaw = "window"
    /\ DError
    /\ expected' = BlockHdr /\ dStage' = "decodeBlockHeader"
    /\ UNCHANGED <<callIO, ret, zStage, lhSize, inPos, ringVars, hostageByte,
                   noForwardProgress, sizeVars, placeVars, delivered>>

-----------------------------------------------------------------------------
(* ZSTD_decompressContinue and ZSTD_decompressContinueStream.              *)

InBlock == dStage = "decompressBlock"

(* ZSTD_nextSrcSizeToDecompressWithInputSize: a raw block may be decoded   *)
(* piecemeal.                                                              *)
NeededInSize ==
    IF InBlock /\ B.kind = "raw" /\ expected > 0
    THEN Larger(1, Smaller(iAvail, expected)) ELSE expected

FrameEnds == expected' = 0 /\ dStage' = "getFrameHeaderSize"

AfterLastBlock ==
    IF F.checksum
    THEN expected' = ChecksumUnits /\ dStage' = "checkChecksum"
    ELSE FrameEnds

AfterBlock ==
    IF LastBlock THEN AfterLastBlock /\ UNCHANGED block
    ELSE expected' = BlockHdr /\ dStage' = "decodeBlockHeader" /\ block' = block + 1

(* The part of outBuff a packed block may overwrite: literals may be put   *)
(* anywhere in the next blockSizeMax bytes, and copies run past the end.   *)
Scribbled == {p \in DOMAIN outBuff :
                outStart <= p /\ p < outStart + blockSizeMax + Overlength}

WriteOut(r, scribbles) ==
    outBuff' = [p \in DOMAIN outBuff |->
                  IF p \in outStart .. outStart + r - 1 THEN decoded + (p - outStart) + 1
                  ELSE IF scribbles /\ p \in Scribbled THEN 0 ELSE outBuff[p]]

(* A block of r bytes goes to outBuff[outStart ..) and is to be flushed.   *)
Produce(r, scribbles) ==
    /\ WriteOut(r, scribbles)
    /\ decoded' = decoded + r
    /\ outEnd' = IF r = 0 THEN outEnd ELSE outStart + r
    /\ zStage' = IF r = 0 THEN "read" ELSE "flush"
    /\ UNCHANGED <<outStart, frame, frameBase>>

Nothing == UNCHANGED <<ringVars, frame, decoded, frameBase>> /\ zStage' = "read"

DecodeBlockHeader ==
    /\ dStage = "decodeBlockHeader"
    /\ Nothing
    /\ IF B.csize = 0
       THEN AfterBlock
       ELSE expected' = B.csize /\ dStage' = "decompressBlock" /\ UNCHANGED block

DecodeRaw(n) ==
    /\ InBlock /\ B.kind = "raw"
    /\ Produce(n, FALSE)
    /\ IF n < expected THEN expected' = expected - n /\ UNCHANGED <<dStage, block>>
                       ELSE AfterBlock

DecodePacked ==
    /\ InBlock /\ B.kind = "packed"
    /\ Produce(B.rsize, TRUE)
    /\ AfterBlock

CheckChecksum ==
    /\ dStage = "checkChecksum"
    /\ Nothing
    /\ FrameEnds /\ UNCHANGED block

SkipFrame ==
    /\ dStage = "skipFrame"
    /\ FrameEnds
    /\ zStage' = "flush" /\ outEnd' = outStart
    /\ UNCHANGED <<outStart, outBuff, frame, block, decoded, frameBase>>

Continue(n) ==
    DecodeBlockHeader \/ DecodeRaw(n) \/ DecodePacked \/ CheckChecksum \/ SkipFrame

(* The frame is found damaged: a block does not fit into outBuff, the      *)
(* content size does not agree with the declared one when a last block     *)
(* with content is done, or the checksum is wrong.                         *)
ContentOf(n) == IF B.kind = "raw" THEN n ELSE B.rsize
DamagedUnchecked(n) ==    \* mutant: the checksum is not compared
    \/ InBlock /\ outStart + ContentOf(n) > outBuffSize
    \/ F.flaw = "size" /\ InBlock /\ LastBlock /\ n = expected
Damaged(n) ==
    \/ InBlock /\ outStart + ContentOf(n) > outBuffSize
    \/ F.flaw = "size" /\ InBlock /\ LastBlock /\ n = expected
    \/ F.flaw = "checksum" /\ dStage = "checkChecksum"

-----------------------------------------------------------------------------
(* zdss_read: the next piece is decoded directly from the caller's input.  *)
ReadDirect ==
    LET n == NeededInSize IN
    /\ At("read") /\ n # 0 /\ iAvail >= n /\ ~ Damaged(n)
    /\ Continue(n)
    /\ Consume(n)
    /\ UNCHANGED <<dpc, oRoom, made, ret, lhSize, inPos, hostageByte,
                   noForwardProgress, sizeVars, delivered>>

(* The frame is over: the next call begins another one.                    *)
ReadEnd ==
    /\ At("read") /\ NeededInSize = 0
    /\ zStage' = "init"
    /\ dpc' = "finish"
    /\ UNCHANGED <<callIO, ret, lhSize, dStage, expected, inPos, ringVars, hostageByte,
                   noForwardProgress, sizeVars, placeVars, delivered>>

ReadEmpty ==
    /\ At("read") /\ NeededInSize # 0 /\ iAvail = 0
    /\ dpc' = "finish"
    /\ UNCHANGED <<callIO, ret, dctxVars, delivered>>

ReadPart ==
    /\ At("read") /\ iAvail > 0 /\ iAvail < NeededInSize
    /\ zStage' = "load"
    /\ UNCHANGED <<dpc, callIO, ret, lhSize, dStage, expected, inPos, ringVars,
                   hostageByte, noForwardProgress, sizeVars, placeVars, delivered>>

(* zdss_load: collect the piece in inBuff; decode it when it is complete.  *)
ToLoadIn == expected - inPos
LoadFits == dStage = "skipFrame" \/ ToLoadIn <= inBuffSize - inPos

LoadPart ==
    /\ At("load") /\ LoadFits /\ iAvail < ToLoadIn
    /\ Consume(iAvail)
    /\ inPos' = inPos + iAvail
    /\ dpc' = "finish"
    /\ UNCHANGED <<oRoom, made, ret, zStage, lhSize, dStage, expected, ringVars,
                   hostageByte, noForwardProgress, sizeVars, placeVars, delivered>>

LoadWhole ==
    /\ At("load") /\ LoadFits /\ iAvail >= ToLoadIn /\ ~ Damaged(expected)
    /\ Continue(expected)
    /\ Consume(ToLoadIn)
    /\ inPos' = 0
    /\ UNCHANGED <<dpc, oRoom, made, ret, lhSize, hostageByte, noForwardProgress,
                   sizeVars, delivered>>

DecodeError ==
    /\ \/ At("read") /\ NeededInSize # 0 /\ iAvail >= NeededInSize /\ Damaged(NeededInSize)
       \/ At("load") /\ iAvail >= ToLoadIn /\ Damaged(expected)
       \/ At("load") /\ ~ LoadFits
    /\ DError
    /\ UNCHANGED <<callIO, ret, dctxVars, delivered>>

(* Mutant: a partial flush does not advance outStart.                      *)
FlushOutAgain ==
    LET toFlush == outEnd - outStart
        flushed == Smaller(oRoom, toFlush)
        start == outStart + flushed
        small == F.fcs = Unknown \/ outBuffSize < F.fcs
        wraps == small /\ start + blockSizeMax > outBuffSize
    IN  /\ At("flush")
        /\ oRoom' = oRoom - flushed /\ made' = made + flushed
        /\ delivered' = delivered \o [i \in 1 .. flushed |-> outBuff[outStart + i - 1]]
        /\ IF flushed = toFlush
           THEN /\ zStage' = "read"
                /\ outStart' = IF wraps THEN 0 ELSE start
                /\ outEnd' = IF wraps THEN 0 ELSE outEnd
                /\ UNCHANGED dpc
           ELSE dpc' = "finish" /\ UNCHANGED <<outStart, zStage, outEnd>>
        /\ UNCHANGED <<iAvail, taken, ret, lhSize, dStage, expected, inPos, outBuff,
                       hostageByte, noForwardProgress, sizeVars, placeVars>>

(* zdss_flush: hand out what fits; wrap the ring when the next block might *)
(* not fit behind what it holds.                                           *)
FlushOut ==
    LET toFlush == outEnd - outStart
        flushed == Smaller(oRoom, toFlush)
        start == outStart + flushed
        small == F.fcs = Unknown \/ outBuffSize < F.fcs
        wraps == small /\ start + blockSizeMax > outBuffSize
    IN  /\ At("flush")
        /\ oRoom' = oRoom - flushed /\ made' = made + flushed
        /\ delivered' = delivered \o [i \in 1 .. flushed |-> outBuff[outStart + i - 1]]
        /\ IF flushed = toFlush
           THEN /\ zStage' = "read"
                /\ outStart' = IF wraps THEN 0 ELSE start
                /\ outEnd' = IF wraps THEN 0 ELSE outEnd
                /\ UNCHANGED dpc
           ELSE /\ outStart' = start
                /\ dpc' = "finish"
                /\ UNCHANGED <<zStage, outEnd>>
        /\ UNCHANGED <<iAvail, taken, ret, lhSize, dStage, expected, inPos, outBuff,
                       hostageByte, noForwardProgress, sizeVars, placeVars>>

-----------------------------------------------------------------------------
(* The end of the call.                                                    *)

IdledWithoutOutput == made = 0    \* mutant: consumed input does not count
Idled == taken = 0 /\ made = 0
Flushed == outEnd = outStart
Preload == IF InBlock /\ ~ LastBlock THEN BlockHdr ELSE 0

(* Mutant: the byte that was kept back is not given up.                    *)
FinishFrameKeeping ==
    /\ expected = 0 /\ Flushed
    /\ hostageByte => iAvail > 0
    /\ ret' = 0
    /\ UNCHANGED <<taken, zStage, hostageByte>>

(* The frame is decoded and flushed, and the byte that was kept back can   *)
(* be given up: the answer is 0.                                           *)
FinishFrame ==
    /\ expected = 0 /\ Flushed
    /\ hostageByte => iAvail > 0
    /\ taken' = IF hostageByte THEN taken + 1 ELSE taken
    /\ ret' = 0
    /\ UNCHANGED <<zStage, hostageByte>>

(* It cannot, because the caller did not offer it again.                   *)
FinishWithoutHostage ==
    /\ expected = 0 /\ Flushed
    /\ hostageByte /\ iAvail = 0
    /\ zStage' = "read"
    /\ ret' = 1
    /\ UNCHANGED <<taken, hostageByte>>

(* Mutant: no unit is given back.                                          *)
FinishUnflushedFree ==
    /\ expected = 0 /\ ~ Flushed
    /\ ret' = 1
    /\ UNCHANGED <<taken, hostageByte, zStage>>

(* Decoded but not flushed: give one unit of input back, as a hostage.     *)
FinishUnflushed ==
    /\ expected = 0 /\ ~ Flushed
    /\ taken' = IF hostageByte THEN taken ELSE taken - 1
    /\ hostageByte' = TRUE
    /\ ret' = 1
    /\ UNCHANGED zStage

(* In the middle of a frame: the answer is a hint.                         *)
FinishMiddle ==
    /\ expected # 0
    /\ ret' = expected + Preload - inPos
    /\ UNCHANGED <<taken, zStage, hostageByte>>

Finish ==
    /\ dpc = "finish"
    /\ noForwardProgress' = IF Idled THEN noForwardProgress + 1 ELSE 0
    /\ IF noForwardProgress' >= NoProgressMax
       THEN DError /\ UNCHANGED <<ret, taken, zStage, hostageByte>>
       ELSE /\ dpc' = "out"
            /\ FinishFrame \/ FinishWithoutHostage \/ FinishUnflushed \/ FinishMiddle
    /\ UNCHANGED <<iAvail, oRoom, made, lhSize, dStage, expected, inPos, ringVars,
                   sizeVars, placeVars, delivered>>

DecompressStream ==
    /\ UNCHANGED Frames
    /\ \/ StreamInit \/ LoadHeader \/ BadHeader \/ DecodeSinglePass \/ ConsumeHeader
       \/ RefuseWindow
       \/ ReadDirect \/ ReadEnd \/ ReadEmpty \/ ReadPart \/ LoadPart \/ LoadWhole
       \/ DecodeError \/ FlushOut \/ Finish

(* ZSTD_DCtx_reset(ZSTD_reset_session_only); the caller starts the stream  *)
(* from its first unit again.                                              *)
SessionReset ==
    /\ dpc \in {"out", "error"}
    /\ zStage' = "init" /\ noForwardProgress' = 0
    /\ dpc' = "out" /\ ret' = 1
    /\ frame' = 0 /\ block' = 0 /\ decoded' = 0 /\ frameBase' = 0
    /\ delivered' = <<>>
    /\ UNCHANGED <<Frames, callIO, lhSize, dStage, expected, inPos, ringVars, hostageByte,
                   sizeVars>>

=============================================================================
