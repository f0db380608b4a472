------------------------- MODULE DStreamFrameProofs -------------------------
(***************************************************************************)
(* Proofs about the frames ZSTD_decompressStream reports, for every stream *)
(* and every caller of DStreamCaller: 0 is the answer exactly at the end   *)
(* of a frame, a sound frame never fails and a flaw is found.              *)
(***************************************************************************)
EXTENDS DStreamProofs

-----------------------------------------------------------------------------
(* How far the decoder has got, in units and in bytes of content.          *)
UnitsBefore(k) == PrefixSums(BlockUnits(F))[k]
BytesBefore(k) == PrefixSums(BlockBytes(F))[k]

UnitsOfFrame ==
    CASE dStage = "skipFrame" -> F.hdr + inPos
      [] dStage = "decodeBlockHeader" -> F.hdr + UnitsBefore(block - 1) + inPos
      [] dStage = "decompressBlock" ->
            F.hdr + UnitsBefore(block - 1) + BlockHdr + (B.csize - expected) + inPos
      [] dStage = "checkChecksum" -> F.hdr + UnitsBefore(Len(F.blocks)) + inPos
      [] OTHER -> FrameUnits(F)

BytesOfFrame ==
    CASE dStage = "skipFrame" -> 0
      [] dStage = "decodeBlockHeader" -> BytesBefore(block - 1)
      [] dStage = "decompressBlock" -> BytesBefore(block - 1) + (B.csize - expected)
      [] OTHER -> FrameBytes(F)

(* Units of the stream the decoder has used up: those that are reported,   *)
(* those of this call and the one that is kept back.                       *)
Used == pos + (IF dpc = "out" THEN 0 ELSE taken) + (IF Ring /\ hostageByte THEN 1 ELSE 0)

UnitsInv ==
    dpc # "error" =>
        /\ zStage = "init" => Used = UnitsThrough(frame)
        /\ zStage = "loadHeader" => Used = UnitsThrough(frame - 1) + lhSize
        /\ Ring => Used = UnitsThrough(frame - 1) + UnitsOfFrame
BytesInv ==
    /\ zStage = "init" => decoded = BytesThrough(frame)
    /\ zStage # "init" \/ Ring => frameBase = BytesThrough(frame - 1)
    /\ Ring => decoded = frameBase + BytesOfFrame

(* What the answer of the last call says.                                  *)
AnswerInv ==
    /\ dpc = "out" /\ zStage = "init" => frame = 0 \/ ret = 0
    /\ dpc = "out" /\ zStage # "init" => ret > 0
    /\ dpc = "out" /\ zStage = "loadHeader" => lhSize < HeaderNeed
    /\ dpc = "out" /\ Reading /\ expected = 0 => hostageByte
    /\ dpc = "finish" /\ zStage \in {"read", "load"} => expected # 0

(* Which flaws are still possible: a wrong size is not noticed behind an   *)
(* empty last block.                                                       *)
EmptyLast == F.blocks[Len(F.blocks)].csize = 0
FlawInv ==
    /\ Ring => /\ F.flaw \in {"none", "size", "checksum"}
               /\ F.flaw = "size" /\ ~ EmptyLast =>
                     dStage \in {"decodeBlockHeader", "decompressBlock"}
               /\ F.flaw = "checksum" => dStage # "getFrameHeaderSize"
               /\ block # 0
    /\ zStage = "loadHeader" => block = 0
    /\ zStage = "init" /\ frame # 0 =>
          \/ F.flaw = "none"
          \/ F.flaw = "window" /\ F.fcs # Unknown /\ block = 0
          \/ F.flaw = "size" /\ EmptyLast /\ block # 0

FrameInv == UnitsInv /\ BytesInv /\ AnswerInv /\ FlawInv /\ FailsOnlyForCause

-----------------------------------------------------------------------------
(* Facts that many steps need.                                             *)

(* The frame that is read, and the sums over its blocks.                   *)
LEMMA FrameSumsAre ==
    ASSUME Frames \in Streams, InStream
    PROVE  /\ Len(F.blocks) \in Nat
           /\ UnitsBefore(0) = 0 /\ BytesBefore(0) = 0
           /\ \A k \in 0 .. Len(F.blocks) : UnitsBefore(k) \in Nat /\ BytesBefore(k) \in Nat
           /\ \A k \in 1 .. Len(F.blocks) :
                 /\ UnitsBefore(k) = UnitsBefore(k - 1) + (BlockHdr + F.blocks[k].csize)
                 /\ BytesBefore(k) = BytesBefore(k - 1) + F.blocks[k].rsize
                 /\ BytesBefore(k) <= FrameBytes(F)
           /\ FrameBytes(F) = BytesBefore(Len(F.blocks))
           /\ Skippable => FrameBytes(F) = 0 /\ FrameUnits(F) = F.hdr + F.skip
           /\ ~ Skippable => FrameUnits(F) = F.hdr + UnitsBefore(Len(F.blocks))
                                + (IF F.checksum THEN ChecksumUnits ELSE 0)
<1> DEFINE f == F
<1>1. FrameFields(f) /\ FrameOK(f)
    BY CurrentFrame
<1>2. FrameUnits(f) = IF f.skip # Unknown THEN f.hdr + f.skip
                      ELSE f.hdr + PrefixSums(BlockUnits(f))[Len(f.blocks)]
                           + (IF f.checksum THEN ChecksumUnits ELSE 0)
    BY DEF FrameUnits
<1>3. FrameBytes(f) = PrefixSums(BlockBytes(f))[Len(f.blocks)]
    BY DEF FrameBytes
<1> DEFINE U == BlockUnits(f)
           C == BlockBytes(f)
           n == Len(f.blocks)
<1>4. U \in Seq(Nat) /\ Len(U) = n /\ C \in Seq(Nat) /\ Len(C) = n
    BY <1>1, BlockSums
<1>5. n \in Nat
    BY <1>1 DEF FrameFields
<1>6. \A k \in 1 .. n : U[k] = BlockHdr + f.blocks[k].csize /\ C[k] = f.blocks[k].rsize
    BY DEF BlockUnits, BlockBytes
<1>7. \A k : UnitsBefore(k) = PrefixSums(U)[k] /\ BytesBefore(k) = PrefixSums(C)[k]
    BY DEF UnitsBefore, BytesBefore
<1>8. Skippable <=> f.skip # Unknown
    BY DEF Skippable
<1> HIDE DEF U, C
<1>9. /\ PrefixSums(U)[0] = 0
      /\ \A k \in 1 .. n : PrefixSums(U)[k] = PrefixSums(U)[k - 1] + U[k]
    BY <1>4, <1>5, PrefixSumsAre
<1>10. /\ PrefixSums(C)[0] = 0
       /\ \A k \in 1 .. n : PrefixSums(C)[k] = PrefixSums(C)[k - 1] + C[k]
    BY <1>4, <1>5, PrefixSumsAre
<1>11. \A k \in 0 .. n : PrefixSums(U)[k] \in Nat /\ PrefixSums(C)[k] \in Nat
    BY <1>4, PrefixSumsInNat
<1>12. \A k \in 1 .. n : PrefixSums(C)[k] <= PrefixSums(C)[n]
    BY <1>4, <1>5, PrefixSumsGrow
<1>13. Skippable => n = 0
    BY <1>1, <1>8 DEF FrameOK
<1>14. /\ FrameBytes(f) = PrefixSums(C)[n]
       /\ Skippable => FrameUnits(f) = f.hdr + f.skip
       /\ ~ Skippable => FrameUnits(f) = f.hdr + PrefixSums(U)[n]
                            + (IF f.checksum THEN ChecksumUnits ELSE 0)
    BY <1>2, <1>3, <1>8 DEF U, C
<1> HIDE DEF n, f
<1>15. /\ n \in Nat
       /\ UnitsBefore(0) = 0 /\ BytesBefore(0) = 0
       /\ \A k \in 0 .. n : UnitsBefore(k) \in Nat /\ BytesBefore(k) \in Nat
       /\ \A k \in 1 .. n :
             /\ UnitsBefore(k) = UnitsBefore(k - 1) + (BlockHdr + f.blocks[k].csize)
             /\ BytesBefore(k) = BytesBefore(k - 1) + f.blocks[k].rsize
    BY <1>5, <1>6, <1>7, <1>9, <1>10, <1>11
<1>16. /\ \A k \in 1 .. n : BytesBefore(k) <= FrameBytes(f)
       /\ FrameBytes(f) = BytesBefore(n)
       /\ Skippable => FrameBytes(f) = 0 /\ FrameUnits(f) = f.hdr + f.skip
       /\ ~ Skippable => FrameUnits(f) = f.hdr + UnitsBefore(n)
                            + (IF f.checksum THEN ChecksumUnits ELSE 0)
    BY <1>7, <1>10, <1>12, <1>13, <1>14
<1> QED
    BY <1>15, <1>16 DEF n, f

(* The place of the frame in the stream.                                   *)
LEMMA ThroughFrame ==
    ASSUME Frames \in Streams, InStream
    PROVE  /\ UnitsThrough(frame - 1) \in Nat /\ BytesThrough(frame - 1) \in Nat
           /\ UnitsThrough(frame) \in Nat /\ BytesThrough(frame) \in Nat
           /\ UnitsThrough(frame) = UnitsThrough(frame - 1) + FrameUnits(F)
           /\ BytesThrough(frame) = BytesThrough(frame - 1) + FrameBytes(F)
<1>1. frame \in 1 .. Len(Frames) /\ Len(Frames) \in Nat
    BY TotalIs DEF InStream
<1>2. frame \in 0 .. Len(Frames) /\ frame - 1 \in 0 .. Len(Frames)
    BY <1>1
<1> QED
    BY <1>1, <1>2, StreamSums DEF F

(* While the stream, the frame and the frame decoder's state are the same, *)
(* so is the place in the frame.                                           *)
LEMMA PlaceStays ==
    ASSUME Frames' = Frames, frame' = frame, block' = block, dStage' = dStage,
           expected' = expected, inPos' = inPos
    PROVE  /\ F' = F /\ UnitsOfFrame' = UnitsOfFrame /\ BytesOfFrame' = BytesOfFrame
           /\ UnitsThrough(frame)' = UnitsThrough(frame)
           /\ UnitsThrough(frame - 1)' = UnitsThrough(frame - 1)
           /\ BytesThrough(frame)' = BytesThrough(frame)
           /\ BytesThrough(frame - 1)' = BytesThrough(frame - 1)
<1>1. F' = F /\ B' = B
    BY DEF F, B
<1>2. UnitsOfFrame' = UnitsOfFrame /\ BytesOfFrame' = BytesOfFrame
    BY <1>1 DEF UnitsOfFrame, BytesOfFrame, UnitsBefore, BytesBefore
<1> QED
    BY <1>1, <1>2 DEF UnitsThrough, BytesThrough

(* Initially no frame has been begun.                                      *)
LEMMA InitFrameInv ==
    ASSUME CallerInit PROVE FrameInv
<1>1. UnitsThrough(0) = 0 /\ BytesThrough(0) = 0
    BY StreamSums DEF CallerInit, DInit
<1>2. /\ dpc = "out" /\ zStage = "init" /\ frame = 0 /\ pos = 0 /\ decoded = 0
      /\ ~ Ring
    BY DEF CallerInit, DInit, Ring, Reading
<1>3. Used = 0
    BY <1>2 DEF Used
<1>4. UnitsInv /\ BytesInv
    BY <1>1, <1>2, <1>3 DEF UnitsInv, BytesInv
<1>5. AnswerInv /\ FlawInv /\ FailsOnlyForCause
    BY <1>2 DEF AnswerInv, FlawInv, EmptyLast, FailsOnlyForCause, Ring, Reading
<1> QED
    BY <1>4, <1>5 DEF FrameInv

-----------------------------------------------------------------------------
(* The steps before a frame is read.                                       *)

(* A new frame begins where the last one ended.                            *)
LEMMA FrameStreamInit ==
    ASSUME StreamInv, FrameInv, StreamInit, LibraryStep PROVE FrameInv'
<1>1. /\ zStage = "init" /\ zStage' = "loadHeader" /\ dpc = "work" /\ dpc' = "work"
      /\ lhSize' = 0 /\ frame' = Smaller(frame, Len(Frames)) + 1
      /\ frameBase' = decoded /\ taken' = taken /\ Frames' = Frames /\ pos' = pos
      /\ block' = 0
    BY DEF StreamInit, At, callIO, LibraryStep
<1>2. frame \in Nat /\ frame <= Len(Frames) /\ Len(Frames) \in Nat /\ frame \in 0 .. Len(Frames)
    BY <1>1, TotalIs DEF StreamInv, Typed, PlaceInv
<1>3. frame' - 1 = frame
    BY <1>1, <1>2 DEF Smaller
<1>4. UnitsThrough(frame - 1)' = UnitsThrough(frame) /\ BytesThrough(frame - 1)' = BytesThrough(frame)
    BY <1>1, <1>3 DEF UnitsThrough, BytesThrough
<1>5. ~ Ring /\ ~ Ring'
    BY <1>1 DEF Ring, Reading
<1>6. Used' = Used /\ Used = UnitsThrough(frame) /\ decoded = BytesThrough(frame)
    BY <1>1, <1>5 DEF Used, FrameInv, UnitsInv, BytesInv
<1>7. UnitsThrough(frame) \in Nat
    BY <1>2, StreamSums DEF StreamInv
<1>8. UnitsInv'
    BY <1>1, <1>4, <1>5, <1>6, <1>7 DEF UnitsInv
<1>9. BytesInv'
    BY <1>1, <1>4, <1>5, <1>6 DEF BytesInv
<1>10. AnswerInv' /\ FlawInv' /\ FailsOnlyForCause'
    BY <1>1, <1>5 DEF AnswerInv, FlawInv, EmptyLast, FailsOnlyForCause, Reading
<1> QED
    BY <1>8, <1>9, <1>10 DEF FrameInv

(* The loaded units of the header are used.                                *)
LEMMA FrameLoadHeader ==
    ASSUME StreamInv, FrameInv, LoadHeader, LibraryStep PROVE FrameInv'
<1> DEFINE loads == Smaller(HeaderNeed - lhSize, iAvail)
<1>1. /\ zStage = "loadHeader" /\ zStage' = "loadHeader" /\ dpc = "work"
      /\ frame' = frame /\ decoded' = decoded /\ frameBase' = frameBase /\ Frames' = Frames
      /\ block' = block /\ taken' = taken + loads /\ lhSize' = lhSize + loads
      /\ ~ HeaderKnown
      /\ \/ /\ HeaderNeed - lhSize > iAvail /\ dpc' = "out" /\ pos' = pos + taken'
            /\ ret' = Larger(MinHdr, HeaderNeed) - lhSize' + BlockHdr
         \/ dpc' = "work" /\ pos' = pos
    BY DEF LoadHeader, At, Consume, placeVars, LibraryStep
<1>2. F' = F /\ InStream' = InStream
    BY <1>1 DEF F, InStream
<1>3. /\ lhSize \in Nat /\ iAvail \in Nat /\ pos \in Nat /\ taken \in Nat
    BY DEF StreamInv, Typed, CallInv
<1>4. HeaderNeed \in Nat /\ lhSize <= HeaderNeed
      /\ HeaderNeed = (IF ~ InStream \/ lhSize < MinHdr THEN MinHdr ELSE F.hdr)
  <2>1. CASE InStream
    <3>1. F.hdr \in Nat /\ MinHdr <= F.hdr
        BY <2>1, CurrentFrame DEF StreamInv, FrameFields
    <3> QED
        BY <1>1, <1>3, <2>1, <3>1, SizesAre DEF StreamInv, PlaceInv, HeaderNeed
  <2>2. CASE ~ InStream
      BY <1>1, <1>3, <2>2, SizesAre DEF StreamInv, PlaceInv, HeaderNeed
  <2> QED
      BY <2>1, <2>2
<1>5. loads \in Nat /\ (HeaderNeed - lhSize > iAvail => loads = iAvail)
    BY <1>3, <1>4 DEF Smaller
<1> HIDE DEF loads
<1>6. ~ Ring /\ ~ Ring'
    BY <1>1 DEF Ring, Reading
<1>7. UnitsThrough(frame - 1)' = UnitsThrough(frame - 1)
      /\ BytesThrough(frame - 1)' = BytesThrough(frame - 1)
    BY <1>1 DEF UnitsThrough, BytesThrough
<1>8. UnitsThrough(frame - 1) \in Nat
  <2>1. frame \in Nat /\ frame >= 1 /\ frame <= Len(Frames) + 1 /\ Len(Frames) \in Nat
      BY <1>1, TotalIs DEF StreamInv, Typed, PlaceInv
  <2>2. frame - 1 \in 0 .. Len(Frames)
      BY <2>1
  <2> QED
      BY <2>2, StreamSums DEF StreamInv
<1>9. pos + taken = UnitsThrough(frame - 1) + lhSize
    BY <1>1, <1>3, <1>6 DEF FrameInv, UnitsInv, Used
<1>10. Used' = pos + (taken + loads)
    BY <1>1, <1>3, <1>5, <1>6 DEF Used
<1>11. UnitsInv'
  <2>1. Used' = UnitsThrough(frame - 1) + (lhSize + loads)
      BY <1>3, <1>5, <1>8, <1>9, <1>10
  <2>2. Used' = UnitsThrough(frame - 1)' + lhSize'
      BY <1>1, <1>7, <2>1
  <2> QED
      BY <1>1, <1>6, <2>2 DEF UnitsInv
<1>12. BytesInv'
    BY <1>1, <1>6, <1>7 DEF FrameInv, BytesInv
<1>13. AnswerInv'
  <2>1. CASE dpc' = "work"
      BY <2>1 DEF AnswerInv
  <2>2. CASE dpc' # "work"
    <3>1. /\ HeaderNeed - lhSize > iAvail /\ dpc' = "out" /\ loads = iAvail
          /\ ret' = Larger(MinHdr, HeaderNeed) - lhSize' + BlockHdr
        BY <1>1, <1>5, <2>2
    <3>2. lhSize' \in Nat /\ lhSize' < HeaderNeed
        BY <1>1, <1>3, <1>4, <3>1
    <3>3. ret' > 0
      <4>1. Larger(MinHdr, HeaderNeed) \in Nat /\ HeaderNeed <= Larger(MinHdr, HeaderNeed)
          BY <1>4, SizesAre DEF Larger
      <4> QED
          BY <1>4, <3>1, <3>2, <4>1, SizesAre
    <3>4. lhSize' < HeaderNeed'
      <4>1. HeaderNeed' = (IF ~ InStream \/ lhSize' < MinHdr THEN MinHdr ELSE F.hdr)
          BY <1>2 DEF HeaderNeed
      <4>2. lhSize <= lhSize'
          BY <1>1, <1>3, <1>5
      <4> QED
          BY <1>3, <1>4, <3>2, <4>1, <4>2, SizesAre
    <3> QED
        BY <1>1, <3>1, <3>3, <3>4 DEF AnswerInv, Reading
  <2> QED
      BY <2>1, <2>2
<1>14. FlawInv' /\ FailsOnlyForCause'
    BY <1>1, <1>6 DEF FrameInv, FlawInv, EmptyLast, FailsOnlyForCause
<1> QED
    BY <1>11, <1>12, <1>13, <1>14 DEF FrameInv

(* The call ends for want of input, or fails for a flaw.                   *)
LEMMA FrameOnlyEnds ==
    ASSUME StreamInv, FrameInv, LibraryStep, dpc = "work",
           \/ dpc' = "error" /\ InStream /\ F.flaw # "none"
           \/ dpc' = "finish" /\ zStage = "read" /\ expected # 0,
           UNCHANGED <<callIO, ret, lhSize, inPos, ringVars, hostageByte,
                       noForwardProgress, sizeVars, placeVars, delivered, zStage>>,
           UNCHANGED <<expected, dStage>> \/ (dpc' = "error" /\ zStage = "loadHeader")
    PROVE  FrameInv'
<1>1. /\ zStage' = zStage /\ inPos' = inPos /\ hostageByte' = hostageByte /\ frame' = frame
      /\ block' = block /\ frameBase' = frameBase /\ decoded' = decoded /\ taken' = taken
      /\ Frames' = Frames /\ pos' = pos
    BY DEF callIO, placeVars, LibraryStep
<1>2. F' = F /\ InStream' = InStream
    BY <1>1 DEF F, InStream
<1>3. /\ UnitsThrough(frame)' = UnitsThrough(frame)
      /\ UnitsThrough(frame - 1)' = UnitsThrough(frame - 1)
      /\ BytesThrough(frame)' = BytesThrough(frame)
      /\ BytesThrough(frame - 1)' = BytesThrough(frame - 1)
    BY <1>1 DEF UnitsThrough, BytesThrough
<1>4. Ring' <=> Ring
    BY <1>1 DEF Ring, Reading
<1>5. Ring => expected' = expected /\ dStage' = dStage
    BY DEF Ring, Reading
<1>6. Ring => UnitsOfFrame' = UnitsOfFrame /\ BytesOfFrame' = BytesOfFrame
    BY <1>1, <1>5, PlaceStays
<1>7. UnitsInv'
  <2>1. CASE dpc' = "error"
      BY <2>1 DEF UnitsInv
  <2>2. CASE dpc' # "error"
    <3>1. Used' = Used
        BY <1>1, <1>4, <2>2 DEF Used
    <3> QED
        BY <1>1, <1>3, <1>4, <1>6, <2>2, <3>1 DEF FrameInv, UnitsInv
  <2> QED
      BY <2>1, <2>2
<1>8. BytesInv'
    BY <1>1, <1>3, <1>4, <1>6 DEF FrameInv, BytesInv
<1>9. AnswerInv'
    BY <1>1, <1>5 DEF AnswerInv, Reading, Ring
<1>10. FlawInv'
    BY <1>1, <1>2, <1>4, <1>5 DEF FrameInv, FlawInv, EmptyLast
<1>11. FailsOnlyForCause'
    BY <1>2 DEF FailsOnlyForCause
<1> QED
    BY <1>7, <1>8, <1>9, <1>10, <1>11 DEF FrameInv

(* A piece that is loaded fits into inBuff.                                *)
LEMMA PieceLoads ==
    ASSUME StreamInv, zStage \in {"read", "load"} PROVE LoadFits
<1>1. Frames \in Streams /\ InStream /\ Typed /\ RingInv /\ PieceInv
    BY DEF StreamInv, Ring, Reading, PlaceInv
<1>2. /\ neededInBuffSize \in Nat /\ blockSizeMax <= neededInBuffSize
      /\ ChecksumUnits <= neededInBuffSize /\ neededInBuffSize <= inBuffSize
      /\ inBuffSize \in Nat /\ blockSizeMax \in Nat /\ expected \in Nat /\ inPos \in Nat
    BY <1>1, NeededSizes, CurrentFrame DEF RingInv, Typed
<1>3. dStage # "skipFrame" => expected <= inBuffSize
  <2>1. CASE dStage = "decodeBlockHeader" \/ dStage = "checkChecksum"
      BY <1>1, <1>2, <2>1, SizesAre DEF PieceInv
  <2>2. CASE dStage = "decompressBlock"
    <3>1. B.csize \in Nat /\ B.csize <= blockSizeMax /\ expected <= B.csize
        BY <1>1, <2>2, CurrentFrame DEF PieceInv, InBlock, B, FrameFields
    <3> QED
        BY <1>2, <3>1
  <2>3. CASE dStage = "getFrameHeaderSize"
      BY <1>1, <1>2, <2>3 DEF PieceInv
  <2> QED
      BY <1>1, <2>1, <2>2, <2>3 DEF Typed
<1> QED
    BY <1>2, <1>3 DEF LoadFits, ToLoadIn

(* A block of a sound frame fits into outBuff: outBuff is a ring with room *)
(* for the largest block, or has room for the whole frame.                 *)
LEMMA BlockFits ==
    ASSUME StreamInv, FrameInv, zStage \in {"read", "load"}, InBlock, F.flaw = "none",
           NEW n \in Nat, n <= expected
    PROVE  outStart + ContentOf(n) <= outBuffSize
<1>1. Frames \in Streams /\ InStream /\ Typed /\ RingInv /\ PieceInv /\ Ring
    BY DEF StreamInv, Ring, Reading, PlaceInv
<1>2. /\ outStart \in Nat /\ outEnd \in Nat /\ outBuffSize \in Nat /\ decoded \in Nat
      /\ frameBase \in Nat /\ expected \in Nat /\ outStart = outEnd
      /\ frameBase + outEnd <= decoded
    BY <1>1 DEF Typed, RingInv
<1>3. dStage = "decompressBlock" /\ ~ Skippable /\ block \in 1 .. Len(F.blocks)
      /\ expected <= B.csize /\ (B.kind = "packed" => expected = B.csize)
    BY <1>1 DEF PieceInv, InBlock
<1>4. /\ B.csize \in Nat /\ B.rsize \in Nat /\ B.csize <= blockSizeMax /\ B.rsize <= blockSizeMax
      /\ B.kind \in {"raw", "packed"} /\ (B.kind = "raw" => B.rsize = B.csize)
      /\ blockSizeMax \in Nat /\ F.fcs \in Nat \union {Unknown}
    BY <1>1, <1>3, CurrentFrame DEF B, FrameFields
<1>5. ContentOf(n) = (IF B.kind = "raw" THEN n ELSE B.rsize)
    BY DEF ContentOf
<1>6. CASE Small
  <2>1. outStart + blockSizeMax <= outBuffSize
      BY <1>1, <1>6 DEF RingInv
  <2>2. ContentOf(n) \in Nat /\ ContentOf(n) <= blockSizeMax
      BY <1>2, <1>3, <1>4, <1>5
  <2> QED
      BY <1>2, <1>4, <2>1, <2>2
<1>7. CASE ~ Small
  <2>1. F.fcs \in Nat /\ F.fcs <= outBuffSize
      BY <1>2, <1>4, <1>7 DEF Small
  <2>2. FrameBytes(F) = F.fcs
      BY <1>1, <1>3, <1>7, CurrentFrame DEF FrameOK, Skippable, Small
  <2>3. /\ BytesBefore(block - 1) \in Nat /\ BytesBefore(block) <= F.fcs
        /\ BytesBefore(block) = BytesBefore(block - 1) + B.rsize
    <3>1. block - 1 \in 0 .. Len(F.blocks)
        BY <1>1, <1>3, CurrentFrame DEF FrameFields
    <3> QED
        BY <1>1, <1>3, <2>2, <3>1, FrameSumsAre DEF B
  <2>4. decoded = frameBase + (BytesBefore(block - 1) + (B.csize - expected))
      BY <1>1, <1>3 DEF FrameInv, BytesInv, BytesOfFrame
  <2>5. outStart <= BytesBefore(block - 1) + (B.csize - expected)
      BY <1>2, <1>3, <1>4, <2>3, <2>4, SMTT(30)
  <2>6. (B.csize - expected) + ContentOf(n) <= B.rsize /\ ContentOf(n) \in Nat
      BY <1>2, <1>3, <1>4, <1>5
  <2>7. \A start, before, rest, content, all, fcs, size \in Nat :
           start <= before + rest /\ rest + content <= all /\ before + all <= fcs /\ fcs <= size =>
               start + content <= size
      OBVIOUS
  <2>8. B.csize - expected \in Nat
      BY <1>2, <1>3, <1>4
  <2> QED
      BY <1>2, <1>4, <2>1, <2>3, <2>5, <2>6, <2>7, <2>8
<1> QED
    BY <1>6, <1>7

(* What fails has a flaw.                                                  *)
LEMMA FrameEndings ==
    ASSUME StreamInv, FrameInv, LibraryStep,
           BadHeader \/ RefuseWindow \/ DecodeError \/ ReadEmpty
    PROVE  FrameInv'
<1>1. CASE BadHeader
  <2>1. dpc = "work" /\ dpc' = "error" /\ InStream /\ F.flaw # "none"
        /\ UNCHANGED <<callIO, ret, dctxVars, delivered>>
      BY <1>1 DEF BadHeader, HeaderIsBad, At, DError
  <2> QED
      BY <2>1, FrameOnlyEnds DEF dctxVars
<1>2. CASE RefuseWindow
  <2>1. dpc = "work" /\ dpc' = "error" /\ InStream /\ F.flaw # "none" /\ zStage = "loadHeader"
        /\ UNCHANGED <<callIO, ret, zStage, lhSize, inPos, ringVars, hostageByte,
                       noForwardProgress, sizeVars, placeVars, delivered>>
      BY <1>2 DEF RefuseWindow, HeaderKnown, At, DError
  <2> QED
      BY <2>1, FrameOnlyEnds
<1>3. CASE ReadEmpty
  <2>1. dpc = "work" /\ dpc' = "finish" /\ zStage = "read" /\ NeededInSize # 0
        /\ UNCHANGED <<callIO, ret, dctxVars, delivered>>
      BY <1>3 DEF ReadEmpty, At
  <2>2. expected # 0
      BY <2>1 DEF NeededInSize
  <2> QED
      BY <2>1, <2>2, FrameOnlyEnds DEF dctxVars
<1>4. CASE DecodeError
  <2>1. dpc = "work" /\ dpc' = "error" /\ zStage \in {"read", "load"}
        /\ UNCHANGED <<callIO, ret, dctxVars, delivered>>
      BY <1>4 DEF DecodeError, At, DError
  <2>2. InStream /\ Typed /\ PieceInv
      BY <2>1 DEF StreamInv, Ring, Reading, PlaceInv
  <2>3. expected \in Nat /\ iAvail \in Nat
      BY <2>2 DEF Typed
  <2>4. PICK n \in Nat : n <= expected /\ Damaged(n)
    <3>1. CASE NeededInSize # 0 /\ Damaged(NeededInSize)
      <4>1. NeededInSize \in Nat /\ NeededInSize <= expected
          BY <2>3, <3>1 DEF NeededInSize, Larger, Smaller
      <4> QED
          BY <3>1, <4>1
    <3>2. CASE Damaged(expected)
        BY <2>3, <3>2
    <3> QED
        BY <1>4, <2>1, <3>1, <3>2, PieceLoads DEF DecodeError
  <2>5. F.flaw # "none"
    <3> SUFFICES ASSUME F.flaw = "none" PROVE FALSE
        OBVIOUS
    <3>1. InBlock /\ outStart + ContentOf(n) > outBuffSize
        BY <2>4 DEF Damaged
    <3>2. outStart + ContentOf(n) <= outBuffSize
        BY <2>1, <2>4, <3>1, BlockFits
    <3>3. outStart \in Nat /\ outBuffSize \in Nat /\ ContentOf(n) \in Nat
      <4>1. B.rsize \in Nat
          BY <2>1, <2>2, <3>1, CurrentFrame DEF StreamInv, PieceInv, InBlock, B, FrameFields
      <4> QED
          BY <2>2, <4>1 DEF Typed, ContentOf
    <3> QED
        BY <3>1, <3>2, <3>3
  <2> QED
      BY <2>1, <2>2, <2>5, FrameOnlyEnds DEF dctxVars
<1> QED
    BY <1>1, <1>2, <1>3, <1>4

(* A frame is decoded in one pass: it ends where the stream says.          *)
LEMMA FrameSinglePass ==
    ASSUME StreamInv, FrameInv, DecodeSinglePass, LibraryStep PROVE FrameInv'
<1>1. /\ zStage = "loadHeader" /\ dpc = "work" /\ SinglePass /\ ~ HeaderIsBad
      /\ lhSize' = lhSize /\ inPos' = inPos /\ hostageByte' = hostageByte /\ frame' = frame
      /\ block' = block /\ frameBase' = frameBase /\ dStage' = dStage /\ Frames' = Frames
    BY DEF DecodeSinglePass, At, placeVars, LibraryStep
<1>2. /\ InStream /\ lhSize >= MinHdr /\ F.fcs # Unknown /\ lhSize = taken /\ ~ Skippable
    BY <1>1 DEF SinglePass, HeaderKnown
<1>3. CASE F.flaw \in {"size", "checksum"}
  <2>1. /\ dpc' = "error" /\ F.flaw # "none"
        /\ UNCHANGED <<callIO, ret, lhSize, inPos, ringVars, hostageByte,
                       noForwardProgress, sizeVars, placeVars, delivered, zStage>>
        /\ UNCHANGED <<expected, dStage>>
      BY <1>3 DEF DecodeSinglePass, DError
  <2> QED
      BY <1>1, <1>2, <2>1, FrameOnlyEnds
<1>4. CASE ~ (F.flaw \in {"size", "checksum"})
  <2> DEFINE n == FrameBytes(F)
             u == FrameUnits(F)
  <2>1. /\ dpc' = "finish" /\ zStage' = "init" /\ decoded' = decoded + n
        /\ taken' = taken + (u - taken) /\ pos' = pos
      BY <1>4 DEF DecodeSinglePass, Consume, LibraryStep
  <2>2. /\ u \in Nat /\ n \in Nat /\ F.flaw \in {"none", "header", "window", "size", "checksum"}
        /\ UnitsThrough(frame) = UnitsThrough(frame - 1) + u
        /\ BytesThrough(frame) = BytesThrough(frame - 1) + n
        /\ UnitsThrough(frame - 1) \in Nat /\ BytesThrough(frame - 1) \in Nat
      BY <1>2, CurrentFrame, ThroughFrame DEF StreamInv, FrameFields
  <2> HIDE DEF n, u
  <2>3. F' = F /\ InStream' = InStream
      BY <1>1 DEF F, InStream
  <2>4. UnitsThrough(frame)' = UnitsThrough(frame) /\ BytesThrough(frame)' = BytesThrough(frame)
      BY <1>1 DEF UnitsThrough, BytesThrough
  <2>5. ~ Ring /\ ~ Ring' /\ ~ hostageByte
      BY <1>1, <2>1 DEF StreamInv, PlaceInv, Ring, Reading
  <2>6. /\ pos \in Nat /\ taken \in Nat
      BY DEF StreamInv, Typed, CallInv
  <2>7. pos = UnitsThrough(frame - 1)
      BY <1>1, <1>2, <2>2, <2>5, <2>6 DEF FrameInv, UnitsInv, Used
  <2>8. taken' = u
      BY <2>1, <2>2, <2>6
  <2>9. Used' = UnitsThrough(frame)'
      BY <2>1, <2>2, <2>4, <2>5, <2>7, <2>8 DEF Used
  <2>10. decoded = BytesThrough(frame - 1)
      BY <1>1 DEF StreamInv, PlaceInv, FrameInv, BytesInv
  <2>11. decoded' = BytesThrough(frame)'
      BY <2>1, <2>2, <2>4, <2>10
  <2>12. UnitsInv' /\ BytesInv'
      BY <2>1, <2>5, <2>9, <2>11 DEF UnitsInv, BytesInv
  <2>13. (F.flaw = "none" \/ F.flaw = "window") /\ block' = 0
      BY <1>1, <1>2, <1>4, <2>2 DEF HeaderIsBad, FrameInv, FlawInv
  <2>14. AnswerInv' /\ FlawInv' /\ FailsOnlyForCause'
      BY <1>2, <2>1, <2>3, <2>5, <2>13
         DEF AnswerInv, FlawInv, EmptyLast, FailsOnlyForCause, Reading
  <2> QED
      BY <2>12, <2>14 DEF FrameInv
<1> QED
    BY <1>3, <1>4

(* The header is complete: nothing of the frame's content is decoded.      *)
LEMMA FrameConsumeHeader ==
    ASSUME StreamInv, FrameInv, ConsumeHeader, LibraryStep PROVE FrameInv'
<1>1. /\ zStage = "loadHeader" /\ zStage' = "read" /\ dpc = "work" /\ dpc' = "work"
      /\ HeaderKnown /\ ~ HeaderIsBad /\ F.flaw # "window" /\ block' = 1
      /\ lhSize' = lhSize /\ inPos' = inPos /\ hostageByte' = hostageByte /\ frame' = frame
      /\ frameBase' = frameBase /\ decoded' = decoded /\ Frames' = Frames /\ pos' = pos
      /\ taken' = taken
      /\ dStage' = (IF Skippable THEN "skipFrame" ELSE "decodeBlockHeader")
    BY DEF ConsumeHeader, At, callIO, LibraryStep
<1>2. InStream /\ lhSize >= MinHdr /\ lhSize >= F.hdr
    BY <1>1 DEF HeaderKnown
<1>3. /\ F.flaw \in {"none", "header", "window", "size", "checksum"} /\ FrameOK(F)
      /\ F.hdr \in Nat /\ lhSize \in Nat /\ taken \in Nat /\ pos \in Nat
      /\ UnitsThrough(frame - 1) \in Nat /\ BytesThrough(frame - 1) \in Nat
      /\ UnitsBefore(0) = 0 /\ BytesBefore(0) = 0
    BY <1>2, CurrentFrame, ThroughFrame, FrameSumsAre DEF StreamInv, FrameFields, Typed, CallInv
<1>4. F' = F
    BY <1>1 DEF F
<1>5. UnitsThrough(frame - 1)' = UnitsThrough(frame - 1)
      /\ BytesThrough(frame - 1)' = BytesThrough(frame - 1)
    BY <1>1 DEF UnitsThrough, BytesThrough
<1>6. Ring' /\ ~ Ring /\ ~ hostageByte /\ inPos = 0 /\ decoded = frameBase /\ lhSize = F.hdr
    BY <1>1, <1>2, <1>3 DEF StreamInv, PlaceInv, Ring, Reading
<1>7. UnitsOfFrame' = F.hdr /\ BytesOfFrame' = 0
  <2>1. (block - 1)' = 0
      BY <1>1
  <2>2. UnitsBefore(block - 1)' = UnitsBefore(0) /\ BytesBefore(block - 1)' = BytesBefore(0)
      BY <1>4, <2>1 DEF UnitsBefore, BytesBefore
  <2>3. /\ UnitsOfFrame' = (IF Skippable THEN F.hdr + 0 ELSE F.hdr + 0 + 0)
        /\ BytesOfFrame' = 0
      BY <1>1, <1>3, <1>4, <1>6, <2>2 DEF UnitsOfFrame, BytesOfFrame
  <2> QED
      BY <1>3, <2>3
<1>8. pos + taken = UnitsThrough(frame - 1) + lhSize
    BY <1>1, <1>3, <1>6 DEF FrameInv, UnitsInv, Used
<1>9. Used' = pos + taken
    BY <1>1, <1>3, <1>6 DEF Used
<1>10. UnitsInv'
    BY <1>1, <1>5, <1>6, <1>7, <1>8, <1>9 DEF UnitsInv
<1>11. BytesInv'
  <2>1. frameBase = BytesThrough(frame - 1)
      BY <1>1 DEF FrameInv, BytesInv
  <2>2. decoded' = frameBase' + BytesOfFrame'
      BY <1>1, <1>3, <1>6, <1>7, <2>1
  <2> QED
      BY <1>1, <1>5, <2>1, <2>2 DEF BytesInv
<1>12. F.flaw \in {"none", "size", "checksum"} /\ (Skippable => F.flaw = "none")
    BY <1>1, <1>2, <1>3 DEF HeaderIsBad, FrameOK, Skippable
<1>13. AnswerInv' /\ FlawInv' /\ FailsOnlyForCause'
    BY <1>1, <1>4, <1>12 DEF AnswerInv, FlawInv, EmptyLast, FailsOnlyForCause, Reading
<1> QED
    BY <1>10, <1>11, <1>13 DEF FrameInv

-----------------------------------------------------------------------------

(* The steps that decode a frame.                                          *)

(* Behind a block the decoder has used what there is up to its end.        *)
LEMMA AfterBlockFrame ==
    ASSUME Frames \in Streams, InStream, ~ Skippable, block \in 1 .. Len(F.blocks),
           AfterBlock, F' = F, inPos' = 0
    PROVE  /\ UnitsOfFrame' = F.hdr + UnitsBefore(block)
           /\ BytesOfFrame' = BytesBefore(block)
           /\ F.flaw = "checksum" => dStage' # "getFrameHeaderSize"
           /\ LastBlock \/ dStage' = "decodeBlockHeader"
<1>1. \/ /\ dStage' = "decodeBlockHeader" /\ block' = block + 1
      \/ /\ dStage' = "checkChecksum" /\ block' = block /\ F.checksum /\ LastBlock
      \/ /\ dStage' = "getFrameHeaderSize" /\ block' = block /\ LastBlock /\ ~ F.checksum
    BY AfterBlockPiece
<1>2. \A k : UnitsBefore(k)' = PrefixSums(BlockUnits(F))[k'] /\ BytesBefore(k)' = PrefixSums(BlockBytes(F))[k']
    BY DEF UnitsBefore, BytesBefore
<1>3. /\ Len(F.blocks) \in Nat /\ F.hdr \in Nat
      /\ UnitsBefore(block) \in Nat /\ BytesBefore(block) \in Nat
      /\ FrameBytes(F) = BytesBefore(Len(F.blocks))
      /\ FrameUnits(F) = F.hdr + UnitsBefore(Len(F.blocks))
                           + (IF F.checksum THEN ChecksumUnits ELSE 0)
    BY FrameSumsAre, CurrentFrame DEF FrameFields
<1>4. F.flaw = "checksum" => F.checksum
    BY CurrentFrame DEF FrameOK
<1>5. CASE dStage' = "decodeBlockHeader" /\ block' = block + 1
  <2>1. (block - 1)' = block
      BY <1>3, <1>5
  <2>2. UnitsBefore(block - 1)' = UnitsBefore(block) /\ BytesBefore(block - 1)' = BytesBefore(block)
      BY <2>1 DEF UnitsBefore, BytesBefore
  <2>3. UnitsOfFrame' = F.hdr + UnitsBefore(block) + 0 /\ BytesOfFrame' = BytesBefore(block)
      BY <1>5, <2>2 DEF UnitsOfFrame, BytesOfFrame
  <2> QED
      BY <1>3, <1>5, <2>3
<1>6. CASE dStage' = "checkChecksum" /\ LastBlock
  <2>1. UnitsBefore(Len(F.blocks))' = UnitsBefore(block)
      BY <1>6 DEF UnitsBefore, LastBlock
  <2>2. UnitsOfFrame' = F.hdr + UnitsBefore(block) + 0 /\ BytesOfFrame' = FrameBytes(F)
      BY <1>6, <2>1 DEF UnitsOfFrame, BytesOfFrame
  <2> QED
      BY <1>3, <1>6, <2>2 DEF LastBlock
<1>7. CASE dStage' = "getFrameHeaderSize" /\ LastBlock /\ ~ F.checksum
  <2>1. UnitsOfFrame' = FrameUnits(F) /\ BytesOfFrame' = FrameBytes(F)
      BY <1>7 DEF UnitsOfFrame, BytesOfFrame
  <2>2. FrameUnits(F) = F.hdr + UnitsBefore(block) + 0 /\ FrameBytes(F) = BytesBefore(block)
      BY <1>3, <1>7 DEF LastBlock
  <2> QED
      BY <1>3, <1>4, <1>7, <2>1, <2>2
<1> QED
    BY <1>1, <1>5, <1>6, <1>7

(* A piece of n units brings the decoder n units further, and as far in    *)
(* the content of the frame as in the content of the stream.               *)
LEMMA PieceOfFrame ==
    ASSUME StreamInv, LibraryStep, NEW n, NEW c, DecodesPiece(n, c)
    PROVE  /\ UnitsOfFrame \in Nat /\ UnitsOfFrame' \in Nat
           /\ UnitsOfFrame' + inPos = UnitsOfFrame + n
           /\ BytesOfFrame \in Nat /\ BytesOfFrame' \in Nat
           /\ \E r \in Nat : decoded' = decoded + r /\ BytesOfFrame' = BytesOfFrame + r
<1>1. /\ Frames \in Streams /\ InStream /\ Typed /\ PieceInv
    BY DEF StreamInv, DecodesPiece, Ring, Reading, PlaceInv
<1>2. /\ F' = F /\ inPos' = 0 /\ n \in Nat /\ n > 0 /\ n <= expected
      /\ n = expected \/ InBlock
    BY ContinueRing DEF F, LibraryStep, DecodesPiece
<1>3. /\ expected \in Nat /\ inPos \in Nat /\ decoded \in Nat
      /\ Len(F.blocks) \in Nat /\ F.hdr \in Nat /\ F.skip \in Nat \union {Unknown}
    BY <1>1, CurrentFrame DEF Typed, FrameFields
<1> DEFINE Goal ==
        /\ UnitsOfFrame \in Nat /\ UnitsOfFrame' \in Nat
        /\ UnitsOfFrame' + inPos = UnitsOfFrame + n
        /\ BytesOfFrame \in Nat /\ BytesOfFrame' \in Nat
        /\ \E r \in Nat : decoded' = decoded + r /\ BytesOfFrame' = BytesOfFrame + r
<1>4. ASSUME NEW done \in Nat, UnitsOfFrame = done + inPos, UnitsOfFrame' = done + n,
             BytesOfFrame \in Nat, NEW r \in Nat, decoded' = decoded + r,
             BytesOfFrame' = BytesOfFrame + r
      PROVE  Goal
    BY <1>2, <1>3, <1>4
<1>5. ~ Skippable /\ block \in 1 .. Len(F.blocks) =>
         /\ B.csize \in Nat /\ B.rsize \in Nat /\ B.kind \in {"raw", "packed"}
         /\ (B.kind = "raw" \/ B.csize = 0 => B.rsize = B.csize)
         /\ UnitsBefore(block - 1) \in Nat /\ BytesBefore(block - 1) \in Nat
         /\ UnitsBefore(block) = UnitsBefore(block - 1) + (BlockHdr + B.csize)
         /\ BytesBefore(block) = BytesBefore(block - 1) + B.rsize
  <2> SUFFICES ASSUME ~ Skippable, block \in 1 .. Len(F.blocks)
               PROVE  /\ B.csize \in Nat /\ B.rsize \in Nat /\ B.kind \in {"raw", "packed"}
                      /\ (B.kind = "raw" \/ B.csize = 0 => B.rsize = B.csize)
                      /\ UnitsBefore(block - 1) \in Nat /\ BytesBefore(block - 1) \in Nat
                      /\ UnitsBefore(block) = UnitsBefore(block - 1) + (BlockHdr + B.csize)
                      /\ BytesBefore(block) = BytesBefore(block - 1) + B.rsize
      OBVIOUS
  <2>1. block - 1 \in 0 .. Len(F.blocks)
      BY <1>3
  <2> QED
      BY <1>1, <2>1, CurrentFrame, FrameSumsAre DEF B, FrameFields
<1> SUFFICES Goal
    OBVIOUS
<1> HIDE DEF Goal
<1>6. CASE DecodeBlockHeader
  <2>1. /\ dStage = "decodeBlockHeader" /\ ~ Skippable /\ block \in 1 .. Len(F.blocks)
        /\ expected = BlockHdr /\ n = BlockHdr /\ decoded' = decoded
      BY <1>1, <1>2, <1>6 DEF DecodeBlockHeader, PieceInv, Nothing, InBlock
  <2> DEFINE done == F.hdr + UnitsBefore(block - 1)
  <2>2. /\ done \in Nat /\ UnitsOfFrame = done + inPos
        /\ BytesOfFrame = BytesBefore(block - 1)
      BY <1>3, <1>5, <2>1, SMTT(30) DEF UnitsOfFrame, BytesOfFrame
  <2>3. UnitsOfFrame' = done + n /\ BytesOfFrame' = BytesOfFrame
    <3>1. CASE B.csize = 0
      <4>1. UnitsOfFrame' = F.hdr + UnitsBefore(block) /\ BytesOfFrame' = BytesBefore(block)
          BY <1>1, <1>2, <1>6, <2>1, <3>1, AfterBlockFrame DEF DecodeBlockHeader
      <4>2. /\ UnitsBefore(block) = UnitsBefore(block - 1) + (BlockHdr + 0)
            /\ BytesBefore(block) = BytesBefore(block - 1) + 0
          BY <1>5, <2>1, <3>1
      <4>3. UnitsBefore(block - 1) \in Nat /\ BytesBefore(block - 1) \in Nat
          BY <1>5, <2>1
      <4>4. \A h, u, m \in Nat : h + (u + (m + 0)) = (h + u) + m /\ u + 0 = u
          OBVIOUS
      <4> QED
          BY <1>3, <2>1, <2>2, <4>1, <4>2, <4>3, <4>4, SizesAre, SMTT(30)
    <3>2. CASE B.csize # 0
      <4>1. expected' = B.csize /\ dStage' = "decompressBlock" /\ block' = block
          BY <1>6, <3>2 DEF DecodeBlockHeader
      <4>2. B' = B /\ UnitsBefore(block - 1)' = UnitsBefore(block - 1)
            /\ BytesBefore(block - 1)' = BytesBefore(block - 1)
          BY <1>2, <4>1 DEF B, UnitsBefore, BytesBefore
      <4>3. /\ UnitsOfFrame' = F.hdr + UnitsBefore(block - 1) + BlockHdr
                                 + (B.csize - B.csize) + 0
            /\ BytesOfFrame' = BytesBefore(block - 1) + (B.csize - B.csize)
          BY <1>2, <4>1, <4>2 DEF UnitsOfFrame, BytesOfFrame
      <4> QED
          BY <1>3, <1>5, <2>1, <2>2, <4>3, SizesAre, SMTT(30)
    <3> QED
        BY <3>1, <3>2
  <2> HIDE DEF done
  <2>4. BytesOfFrame \in Nat /\ BytesOfFrame' = BytesOfFrame + 0 /\ decoded' = decoded + 0
      BY <1>3, <1>5, <2>1, <2>2, <2>3
  <2> QED
      BY <1>4, <2>2, <2>3, <2>4
<1>7. ASSUME NEW r \in Nat, InBlock, decoded' = decoded + r,
             r = IF B.kind = "raw" THEN n ELSE B.rsize,
             \/ n < expected /\ B.kind = "raw" /\ expected' = expected - n
                /\ dStage' = dStage /\ block' = block
             \/ n = expected /\ AfterBlock
      PROVE  Goal
  <2>1. /\ dStage = "decompressBlock" /\ ~ Skippable /\ block \in 1 .. Len(F.blocks)
        /\ expected <= B.csize /\ (B.kind = "packed" => expected = B.csize)
      BY <1>1, <1>7 DEF PieceInv, InBlock
  <2> DEFINE done == F.hdr + UnitsBefore(block - 1) + BlockHdr + (B.csize - expected)
  <2>2. /\ UnitsBefore(block - 1) \in Nat /\ BytesBefore(block - 1) \in Nat
        /\ B.csize \in Nat /\ B.rsize \in Nat /\ B.kind \in {"raw", "packed"}
        /\ (B.kind = "raw" => B.rsize = B.csize)
        /\ UnitsBefore(block) = UnitsBefore(block - 1) + (BlockHdr + B.csize)
        /\ BytesBefore(block) = BytesBefore(block - 1) + B.rsize
      BY <1>5, <2>1
  <2>3. B.csize - expected \in Nat
      BY <1>3, <2>1, <2>2
  <2>4. /\ done \in Nat /\ UnitsOfFrame = done + inPos
        /\ BytesOfFrame = BytesBefore(block - 1) + (B.csize - expected)
        /\ BytesOfFrame \in Nat
    <3>1. \A h, u, m, x \in Nat : h + u + m + x \in Nat /\ u + x \in Nat
        OBVIOUS
    <3>2. /\ UnitsOfFrame = done + inPos
          /\ BytesOfFrame = BytesBefore(block - 1) + (B.csize - expected)
        BY <2>1 DEF UnitsOfFrame, BytesOfFrame
    <3> QED
        BY <1>3, <2>2, <2>3, <3>1, <3>2, SizesAre
  <2>5. UnitsOfFrame' = done + n /\ BytesOfFrame' = BytesOfFrame + r
    <3>1. CASE n = expected /\ AfterBlock
      <4>1. UnitsOfFrame' = F.hdr + UnitsBefore(block) /\ BytesOfFrame' = BytesBefore(block)
          BY <1>1, <1>2, <2>1, <3>1, AfterBlockFrame
      <4>2. (B.csize - expected) + r = B.rsize
        <5>1. CASE B.kind = "raw"
            BY <1>3, <1>7, <2>2, <3>1, <5>1
        <5>2. CASE B.kind = "packed"
            BY <1>3, <1>7, <2>1, <2>2, <5>2
        <5> QED
            BY <2>2, <5>1, <5>2
      <4>3. \A h, u, m, csize, x, y \in Nat :
               x = csize - y /\ x \in Nat => h + (u + (m + csize)) = (h + u + m + x) + y
          OBVIOUS
      <4>4. \A s, x, y, all \in Nat : x + y = all => s + all = (s + x) + y
          OBVIOUS
      <4>5. F.hdr + (UnitsBefore(block - 1) + (BlockHdr + B.csize)) = done + n
          BY <1>3, <2>2, <2>3, <3>1, <4>3, SizesAre, SMTT(30)
      <4>6. BytesBefore(block - 1) + B.rsize = (BytesBefore(block - 1) + (B.csize - expected)) + r
          BY <1>7, <2>2, <2>3, <4>2, <4>4
      <4> QED
          BY <2>4, <2>2, <4>1, <4>5, <4>6
    <3>2. CASE n < expected /\ B.kind = "raw" /\ expected' = expected - n
               /\ dStage' = dStage /\ block' = block
      <4>1. B' = B /\ UnitsBefore(block - 1)' = UnitsBefore(block - 1)
            /\ BytesBefore(block - 1)' = BytesBefore(block - 1)
          BY <1>2, <3>2 DEF B, UnitsBefore, BytesBefore
      <4>2. /\ UnitsOfFrame' = F.hdr + UnitsBefore(block - 1) + BlockHdr
                                 + (B.csize - (expected - n)) + 0
            /\ BytesOfFrame' = BytesBefore(block - 1) + (B.csize - (expected - n))
          BY <1>2, <2>1, <3>2, <4>1 DEF UnitsOfFrame, BytesOfFrame
      <4>3. F.hdr + UnitsBefore(block - 1) + BlockHdr \in Nat
          BY <1>3, <2>2, SizesAre
      <4>4. n <= expected /\ r = n
          BY <1>2, <1>7, <3>2
      <4>5. B.csize - (expected - n) = (B.csize - expected) + n
          BY <1>2, <1>3, <2>2
      <4>6. \A s, z, y \in Nat : s + (z + y) = (s + z) + y
          OBVIOUS
      <4>7. /\ F.hdr + UnitsBefore(block - 1) + BlockHdr + (B.csize - (expected - n)) = done + n
            /\ BytesBefore(block - 1) + (B.csize - (expected - n))
                 = (BytesBefore(block - 1) + (B.csize - expected)) + n
          BY <1>2, <2>2, <2>3, <4>3, <4>5, <4>6
      <4>8. done + n \in Nat
          BY <1>2, <2>4
      <4>9. \A x : x \in Nat => x + 0 = x
          OBVIOUS
      <4> QED
          BY <2>4, <4>2, <4>4, <4>7, <4>8, <4>9
    <3> QED
        BY <1>7, <3>1, <3>2
  <2> HIDE DEF done
  <2> QED
      BY <1>4, <1>7, <2>4, <2>5
<1>8. CASE DecodeRaw(n)
  <2>1. InBlock /\ B.kind = "raw" /\ decoded' = decoded + n
      BY <1>8 DEF DecodeRaw, Produce
  <2>2. n < expected \/ n = expected
      BY <1>2, <1>3
  <2>3. \/ n < expected /\ expected' = expected - n /\ dStage' = dStage /\ block' = block
        \/ n = expected /\ AfterBlock
      BY <1>3, <1>8, <2>2 DEF DecodeRaw
  <2> QED
      BY <1>2, <1>7, <2>1, <2>3
<1>9. CASE DecodePacked
  <2>1. InBlock /\ B.kind = "packed" /\ decoded' = decoded + B.rsize /\ AfterBlock
      BY <1>9 DEF DecodePacked, Produce
  <2>2. n = expected
      BY <2>1 DEF DecodesPiece
  <2>3. B.rsize \in Nat
      BY <1>1, <1>5, <2>1 DEF PieceInv, InBlock
  <2> QED
      BY <1>7, <2>1, <2>2, <2>3
<1>10. ASSUME dStage' = "getFrameHeaderSize", decoded' = decoded,
              NEW done \in Nat, UnitsOfFrame = done + inPos, FrameUnits(F) = done + n,
              BytesOfFrame = FrameBytes(F)
       PROVE  Goal
  <2>1. UnitsOfFrame' = done + n /\ BytesOfFrame' = BytesOfFrame
      BY <1>2, <1>10 DEF UnitsOfFrame, BytesOfFrame
  <2>2. BytesOfFrame \in Nat /\ BytesOfFrame' = BytesOfFrame + 0 /\ decoded' = decoded + 0
      BY <1>1, <1>3, <1>10, <2>1, CurrentFrame
  <2> QED
      BY <1>4, <1>10, <2>1, <2>2
<1>11. CASE CheckChecksum
  <2>1. /\ dStage = "checkChecksum" /\ dStage' = "getFrameHeaderSize" /\ decoded' = decoded
        /\ ~ Skippable /\ F.checksum /\ n = ChecksumUnits
      BY <1>1, <1>2, <1>11 DEF CheckChecksum, Nothing, FrameEnds, PieceInv, InBlock
  <2> DEFINE done == F.hdr + UnitsBefore(Len(F.blocks))
  <2>2. UnitsBefore(Len(F.blocks)) \in Nat /\ FrameUnits(F) = done + n
      BY <1>1, <1>3, <2>1, FrameSumsAre
  <2>3. done \in Nat /\ UnitsOfFrame = done + inPos /\ BytesOfFrame = FrameBytes(F)
      BY <1>3, <2>1, <2>2 DEF UnitsOfFrame, BytesOfFrame
  <2> HIDE DEF done
  <2> QED
      BY <1>10, <2>1, <2>2, <2>3
<1>12. CASE SkipFrame
  <2>1. /\ dStage = "skipFrame" /\ dStage' = "getFrameHeaderSize" /\ decoded' = decoded
        /\ Skippable /\ n = F.skip
      BY <1>1, <1>2, <1>12 DEF SkipFrame, FrameEnds, PieceInv, InBlock
  <2>2. FrameUnits(F) = F.hdr + n /\ FrameBytes(F) = 0
      BY <1>1, <2>1, FrameSumsAre
  <2>3. UnitsOfFrame = F.hdr + inPos /\ BytesOfFrame = FrameBytes(F)
      BY <2>1, <2>2 DEF UnitsOfFrame, BytesOfFrame
  <2> QED
      BY <1>3, <1>10, <2>1, <2>2, <2>3
<1> QED
    BY <1>6, <1>8, <1>9, <1>11, <1>12 DEF DecodesPiece, Continue

(* A piece that is not damaged leaves only the flaws that come later.      *)
LEMMA PieceFlaw ==
    ASSUME StreamInv, FrameInv, LibraryStep, NEW n, NEW c, DecodesPiece(n, c)
    PROVE  FlawInv'
<1>1. /\ Frames \in Streams /\ InStream /\ Typed /\ PieceInv /\ Ring
    BY DEF StreamInv, DecodesPiece, Ring, Reading, PlaceInv
<1>2. /\ F' = F /\ inPos' = 0 /\ zStage' \in {"read", "flush"} /\ n <= expected
      /\ n = expected \/ InBlock
    BY ContinueRing DEF F, LibraryStep, DecodesPiece
<1>3. /\ F.flaw \in {"none", "size", "checksum"}
      /\ F.flaw = "size" /\ ~ EmptyLast => dStage \in {"decodeBlockHeader", "decompressBlock"}
      /\ block # 0 /\ block \in Nat
    BY <1>1 DEF Typed, FrameInv, FlawInv, EmptyLast
<1>4. Skippable => F.flaw = "none"
    BY <1>1, <1>3, CurrentFrame DEF FrameOK, Skippable
<1> DEFINE Sized == F.flaw = "size" /\ ~ EmptyLast
           Goal == /\ Sized => dStage' \in {"decodeBlockHeader", "decompressBlock"}
                   /\ F.flaw = "checksum" => dStage' # "getFrameHeaderSize"
<1>5. ASSUME ~ Skippable, block \in 1 .. Len(F.blocks), AfterBlock,
             LastBlock => ~ Sized
      PROVE  Goal
    BY <1>1, <1>2, <1>5, AfterBlockFrame
<1>6. ASSUME F.flaw = "none" PROVE Goal
    BY <1>6
<1>11. block' # 0
  <2>1. block' = block \/ block' = block + 1
      BY DEF DecodesPiece, Continue, DecodeBlockHeader, DecodeRaw, DecodePacked,
             CheckChecksum, SkipFrame, AfterBlock
  <2> QED
      BY <1>3, <2>1
<1> SUFFICES Goal
    BY <1>2, <1>3, <1>11 DEF FlawInv, EmptyLast
<1> HIDE DEF Goal
<1>7. CASE DecodeBlockHeader
  <2>1. dStage = "decodeBlockHeader" /\ ~ Skippable /\ block \in 1 .. Len(F.blocks)
      BY <1>1, <1>7 DEF DecodeBlockHeader, PieceInv
  <2>2. CASE B.csize = 0
    <3>1. LastBlock => ~ Sized
        BY <2>2 DEF LastBlock, B, EmptyLast
    <3> QED
        BY <1>5, <1>7, <2>1, <2>2, <3>1 DEF DecodeBlockHeader
  <2>3. CASE B.csize # 0
      BY <1>7, <2>3 DEF DecodeBlockHeader, Goal
  <2> QED
      BY <2>2, <2>3
<1>8. CASE DecodeRaw(n) \/ DecodePacked
  <2>1. dStage = "decompressBlock" /\ InBlock /\ ~ Skippable /\ block \in 1 .. Len(F.blocks)
      BY <1>1, <1>8 DEF DecodeRaw, DecodePacked, PieceInv, InBlock
  <2>2. LastBlock /\ n = expected => ~ Sized
      BY <2>1 DEF DecodesPiece, Damaged
  <2>3. (dStage' = "decompressBlock") \/ (n = expected /\ AfterBlock)
    <3>1. CASE DecodeRaw(n)
      <4>1. n < expected \/ n = expected
          BY <1>1, <1>2 DEF DecodesPiece, Typed
      <4> QED
          BY <2>1, <3>1, <4>1 DEF DecodeRaw
    <3>2. CASE DecodePacked
        BY <1>2, <3>2 DEF DecodePacked, DecodesPiece
    <3> QED
        BY <1>8, <3>1, <3>2
  <2> QED
      BY <1>5, <2>1, <2>2, <2>3 DEF Goal
<1>9. CASE CheckChecksum
  <2>1. dStage = "checkChecksum"
      BY <1>9 DEF CheckChecksum
  <2>2. ~ Sized /\ F.flaw # "checksum"
      BY <1>3, <2>1 DEF DecodesPiece, Damaged
  <2> QED
      BY <2>2 DEF Goal
<1>10. CASE SkipFrame
  <2>1. Skippable
      BY <1>1, <1>10 DEF SkipFrame, PieceInv
  <2> QED
      BY <1>4, <1>6, <2>1
<1> QED
    BY <1>7, <1>8, <1>9, <1>10 DEF DecodesPiece, Continue

(* A piece is decoded.                                                     *)
LEMMA FrameContinue ==
    ASSUME StreamInv, FrameInv, LibraryStep, NEW n, NEW c, DecodesPiece(n, c)
    PROVE  FrameInv'
<1>1. /\ Frames \in Streams /\ InStream /\ Typed /\ PieceInv /\ Ring /\ CallInv
    BY DEF StreamInv, DecodesPiece, Ring, Reading, PlaceInv
<1>2. /\ frame' = frame /\ frameBase' = frameBase /\ zStage' \in {"read", "flush"}
      /\ dpc = "work" /\ dpc' = "work" /\ hostageByte' = hostageByte /\ Frames' = Frames
      /\ taken' = taken + c /\ pos' = pos /\ c \in Nat /\ c = n - inPos /\ n \in Nat
      /\ n > 0 /\ n <= expected /\ zStage \in {"read", "load"}
    BY ContinueRing DEF DecodesPiece, LibraryStep
<1>3. ~ hostageByte /\ Ring'
    BY <1>1, <1>2 DEF PieceInv, Typed, Ring, Reading
<1>4. /\ UnitsThrough(frame - 1)' = UnitsThrough(frame - 1)
      /\ BytesThrough(frame - 1)' = BytesThrough(frame - 1)
    BY <1>2 DEF UnitsThrough, BytesThrough
<1>5. /\ UnitsOfFrame \in Nat /\ UnitsOfFrame' \in Nat
      /\ UnitsOfFrame' + inPos = UnitsOfFrame + n
      /\ BytesOfFrame \in Nat /\ BytesOfFrame' \in Nat
    BY PieceOfFrame
<1>6. PICK r \in Nat : decoded' = decoded + r /\ BytesOfFrame' = BytesOfFrame + r
    BY PieceOfFrame
<1>7. /\ pos \in Nat /\ taken \in Nat /\ inPos \in Nat /\ frameBase \in Nat
      /\ UnitsThrough(frame - 1) \in Nat /\ BytesThrough(frame - 1) \in Nat
    BY <1>1, ThroughFrame DEF Typed, CallInv
<1>8. pos + taken = UnitsThrough(frame - 1) + UnitsOfFrame
    BY <1>1, <1>2, <1>3, <1>7 DEF FrameInv, UnitsInv, Used
<1>9. Used' = pos + (taken + c)
    BY <1>2, <1>3, <1>7 DEF Used
<1>10. UnitsInv'
  <2> DEFINE k == UnitsOfFrame'
  <2>1. \A p, t, q, u, w, i, m \in Nat :
           p + t = u + w /\ q + i = w + m => \A d \in Nat : d = m - i => p + (t + d) = u + q
      OBVIOUS
  <2>2. Used' = UnitsThrough(frame - 1) + UnitsOfFrame'
    <3> HIDE DEF k
    <3>1. k \in Nat /\ k + inPos = UnitsOfFrame + n
        BY <1>5 DEF k
    <3>2. pos + (taken + c) = UnitsThrough(frame - 1) + k
        BY <1>2, <1>5, <1>7, <1>8, <2>1, <3>1
    <3> QED
        BY <1>9, <3>2 DEF k
  <2> QED
      BY <1>2, <1>4, <2>2 DEF UnitsInv
<1>11. BytesInv'
  <2>1. frameBase = BytesThrough(frame - 1) /\ decoded = frameBase + BytesOfFrame
      BY <1>1 DEF FrameInv, BytesInv
  <2>2. decoded' = frameBase + BytesOfFrame'
      BY <1>5, <1>6, <1>7, <2>1
  <2> QED
      BY <1>2, <1>4, <2>1, <2>2 DEF BytesInv
<1>12. AnswerInv' /\ FailsOnlyForCause'
    BY <1>2 DEF AnswerInv, FailsOnlyForCause
<1>13. FlawInv'
    BY PieceFlaw
<1> QED
    BY <1>10, <1>11, <1>12, <1>13 DEF FrameInv

(* Steps within the frame that use nothing up.                             *)
LEMMA FrameStays ==
    ASSUME FrameInv, dpc # "error", Ring, Ring', zStage' # "init", Used' = Used,
           UNCHANGED <<Frames, placeVars, dStage, expected, inPos>>
    PROVE  UnitsInv' /\ BytesInv' /\ FlawInv'
<1>1. /\ frame' = frame /\ block' = block /\ decoded' = decoded /\ frameBase' = frameBase
      /\ dStage' = dStage /\ Frames' = Frames /\ expected' = expected /\ inPos' = inPos
    BY DEF placeVars
<1>2. /\ F' = F /\ UnitsOfFrame' = UnitsOfFrame /\ BytesOfFrame' = BytesOfFrame
      /\ UnitsThrough(frame - 1)' = UnitsThrough(frame - 1)
      /\ BytesThrough(frame - 1)' = BytesThrough(frame - 1)
    BY <1>1, PlaceStays
<1>3. zStage' # "loadHeader"
    BY DEF Ring, Reading
<1> QED
    BY <1>1, <1>2, <1>3 DEF FrameInv, UnitsInv, BytesInv, FlawInv, EmptyLast

(* An incomplete piece is to be loaded; outBuff is flushed.                *)
LEMMA FrameTurns ==
    ASSUME StreamInv, FrameInv, LibraryStep, ReadPart \/ FlushOut PROVE FrameInv'
<1>1. /\ dpc = "work" /\ Reading /\ taken' = taken /\ pos' = pos /\ hostageByte' = hostageByte
      /\ UNCHANGED <<Frames, placeVars, dStage, expected, inPos>>
      /\ \/ dpc' = "work" /\ zStage' \in {"read", "load"}
         \/ dpc' = "finish" /\ zStage' = "flush"
    BY DEF ReadPart, FlushOut, At, callIO, LibraryStep, Reading
<1>2. Ring /\ Ring' /\ zStage' # "init"
    BY <1>1 DEF Ring, Reading
<1>3. Used' = Used
    BY <1>1, <1>2 DEF Used
<1>4. AnswerInv' /\ FailsOnlyForCause'
    BY <1>1 DEF AnswerInv, FailsOnlyForCause
<1> QED
    BY <1>1, <1>2, <1>3, <1>4, FrameStays DEF FrameInv

(* Nothing of the frame is left to decode or flush.                        *)
LEMMA FrameReadEnd ==
    ASSUME StreamInv, FrameInv, LibraryStep, ReadEnd PROVE FrameInv'
<1>1. /\ dpc = "work" /\ dpc' = "finish" /\ zStage = "read" /\ zStage' = "init"
      /\ NeededInSize = 0 /\ taken' = taken /\ pos' = pos /\ hostageByte' = hostageByte
      /\ frame' = frame /\ block' = block /\ decoded' = decoded /\ frameBase' = frameBase
      /\ dStage' = dStage /\ Frames' = Frames /\ expected' = expected /\ inPos' = inPos
    BY DEF ReadEnd, At, callIO, placeVars, LibraryStep
<1>2. /\ Frames \in Streams /\ InStream /\ Typed /\ PieceInv /\ Ring /\ inPos = 0
    BY <1>1 DEF StreamInv, Ring, Reading, PlaceInv, PieceInv
<1>3. expected = 0
    BY <1>1, <1>2 DEF NeededInSize, Larger, Smaller, Typed
<1>4. \/ dStage = "getFrameHeaderSize"
      \/ dStage = "skipFrame" /\ Skippable /\ F.skip = 0
    BY <1>2, <1>3, SizesAre DEF Typed, PieceInv, InBlock
<1>5. /\ UnitsOfFrame = FrameUnits(F) /\ BytesOfFrame = FrameBytes(F)
      /\ F.flaw = "none" \/ (F.flaw = "size" /\ EmptyLast)
      /\ block # 0
  <2>1. CASE dStage = "getFrameHeaderSize"
      BY <1>2, <2>1 DEF UnitsOfFrame, BytesOfFrame, FrameInv, FlawInv, EmptyLast
  <2>2. CASE dStage = "skipFrame" /\ Skippable /\ F.skip = 0
      BY <1>2, <2>2, FrameSumsAre, CurrentFrame
         DEF UnitsOfFrame, BytesOfFrame, FrameInv, FlawInv, EmptyLast, FrameOK, Skippable
  <2> QED
      BY <1>4, <2>1, <2>2
<1>6. /\ F' = F /\ UnitsOfFrame' = UnitsOfFrame /\ BytesOfFrame' = BytesOfFrame
      /\ UnitsThrough(frame)' = UnitsThrough(frame)
      /\ UnitsThrough(frame - 1)' = UnitsThrough(frame - 1)
      /\ BytesThrough(frame)' = BytesThrough(frame)
      /\ BytesThrough(frame - 1)' = BytesThrough(frame - 1)
    BY <1>1, PlaceStays
<1>7. Ring' <=> hostageByte
    BY <1>1 DEF Ring, Reading
<1>8. Used' = Used
    BY <1>1, <1>2, <1>7 DEF Used
<1>9. /\ UnitsThrough(frame) = UnitsThrough(frame - 1) + FrameUnits(F)
      /\ BytesThrough(frame) = BytesThrough(frame - 1) + FrameBytes(F)
    BY <1>2, ThroughFrame
<1>10. UnitsInv'
    BY <1>1, <1>2, <1>5, <1>6, <1>8, <1>9 DEF FrameInv, UnitsInv
<1>11. BytesInv'
    BY <1>1, <1>2, <1>5, <1>6, <1>9 DEF FrameInv, BytesInv
<1>12. AnswerInv' /\ FailsOnlyForCause'
    BY <1>1 DEF AnswerInv, FailsOnlyForCause
<1>13. FlawInv'
    BY <1>1, <1>2, <1>5, <1>6 DEF FrameInv, FlawInv, EmptyLast
<1> QED
    BY <1>10, <1>11, <1>12, <1>13 DEF FrameInv

(* A part of a piece is loaded.                                            *)
LEMMA FrameLoadPart ==
    ASSUME StreamInv, FrameInv, LibraryStep, LoadPart PROVE FrameInv'
<1>1. /\ dpc = "work" /\ dpc' = "finish" /\ zStage = "load" /\ zStage' = "load"
      /\ taken' = taken + iAvail /\ inPos' = inPos + iAvail
      /\ pos' = pos /\ hostageByte' = hostageByte
      /\ frame' = frame /\ block' = block /\ decoded' = decoded /\ frameBase' = frameBase
      /\ dStage' = dStage /\ Frames' = Frames /\ expected' = expected
    BY DEF LoadPart, Consume, At, placeVars, LibraryStep
<1>2. /\ Frames \in Streams /\ InStream /\ Typed /\ PieceInv /\ Ring /\ Ring' /\ CallInv
    BY <1>1 DEF StreamInv, Ring, Reading, PlaceInv
<1>3. expected > 0 /\ ~ hostageByte /\ dStage # "getFrameHeaderSize"
    BY <1>1, <1>2 DEF PieceInv, Typed
<1>4. F' = F /\ B' = B
    BY <1>1 DEF F, B
<1>5. /\ UnitsThrough(frame - 1)' = UnitsThrough(frame - 1)
      /\ BytesThrough(frame - 1)' = BytesThrough(frame - 1)
    BY <1>1 DEF UnitsThrough, BytesThrough
<1>6. BytesOfFrame' = BytesOfFrame
    BY <1>1, <1>4 DEF BytesOfFrame, BytesBefore
<1>7. PICK done \in Nat : UnitsOfFrame = done + inPos /\ UnitsOfFrame' = done + inPos'
  <2>1. /\ F.hdr \in Nat /\ Len(F.blocks) \in Nat
        /\ \A k \in 0 .. Len(F.blocks) : UnitsBefore(k) \in Nat
      BY <1>2, CurrentFrame, FrameSumsAre DEF FrameFields
  <2>2. \A k : UnitsBefore(k)' = PrefixSums(BlockUnits(F))[k']
      BY <1>4 DEF UnitsBefore
  <2>3. \A h, u, m, x \in Nat : h + u \in Nat /\ h + u + m + x \in Nat
      OBVIOUS
  <2>4. CASE dStage = "skipFrame"
      BY <1>1, <1>4, <2>1, <2>4 DEF UnitsOfFrame
  <2>5. CASE dStage = "decodeBlockHeader" \/ dStage = "decompressBlock"
    <3>1. block - 1 \in 0 .. Len(F.blocks) /\ block \in 1 .. Len(F.blocks)
        BY <1>2, <2>1, <2>5 DEF PieceInv
    <3>2. UnitsBefore(block - 1) \in Nat /\ UnitsBefore(block - 1)' = UnitsBefore(block - 1)
        BY <1>1, <1>4, <2>1, <3>1 DEF UnitsBefore
    <3>3. CASE dStage = "decodeBlockHeader"
      <4> DEFINE done == F.hdr + UnitsBefore(block - 1)
      <4>1. done \in Nat
          BY <2>1, <2>3, <3>2
      <4>2. UnitsOfFrame = done + inPos /\ UnitsOfFrame' = done + inPos'
          BY <1>1, <1>4, <3>2, <3>3 DEF UnitsOfFrame
      <4> QED
          BY <4>1, <4>2
    <3>4. CASE dStage = "decompressBlock"
      <4> DEFINE done == F.hdr + UnitsBefore(block - 1) + BlockHdr + (B.csize - expected)
      <4>1. B.csize - expected \in Nat
          BY <1>2, <3>1, <3>4, CurrentFrame, SMTT(30) DEF PieceInv, InBlock, Typed, B, FrameFields
      <4>2. done \in Nat
          BY <2>1, <2>3, <3>2, <4>1, SizesAre
      <4>3. UnitsOfFrame = done + inPos /\ UnitsOfFrame' = done + inPos'
          BY <1>1, <1>4, <3>2, <3>4 DEF UnitsOfFrame
      <4> QED
          BY <4>2, <4>3
    <3> QED
        BY <2>5, <3>3, <3>4
  <2>6. CASE dStage = "checkChecksum"
    <3> DEFINE done == F.hdr + UnitsBefore(Len(F.blocks))
    <3>1. done \in Nat /\ UnitsBefore(Len(F.blocks))' = UnitsBefore(Len(F.blocks))
        BY <1>4, <2>1 DEF UnitsBefore
    <3>2. UnitsOfFrame = done + inPos /\ UnitsOfFrame' = done + inPos'
        BY <1>1, <1>4, <2>6, <3>1 DEF UnitsOfFrame
    <3> QED
        BY <3>1, <3>2
  <2> QED
      BY <1>2, <1>3, <2>4, <2>5, <2>6 DEF Typed
<1>8. /\ pos \in Nat /\ taken \in Nat /\ inPos \in Nat /\ iAvail \in Nat
      /\ UnitsThrough(frame - 1) \in Nat
    BY <1>2, ThroughFrame DEF Typed, CallInv
<1>9. pos + taken = UnitsThrough(frame - 1) + (done + inPos)
    BY <1>1, <1>2, <1>3, <1>7, <1>8 DEF FrameInv, UnitsInv, Used
<1>10. UnitsInv'
  <2>1. Used' = pos + (taken + iAvail)
      BY <1>1, <1>2, <1>3, <1>8 DEF Used
  <2>2. Used' = UnitsThrough(frame - 1) + (done + (inPos + iAvail))
      BY <1>8, <1>9, <2>1
  <2> QED
      BY <1>1, <1>2, <1>5, <1>7, <2>2 DEF UnitsInv
<1>11. BytesInv'
    BY <1>1, <1>2, <1>5, <1>6 DEF FrameInv, BytesInv
<1>12. AnswerInv' /\ FailsOnlyForCause'
    BY <1>1, <1>3 DEF AnswerInv, FailsOnlyForCause
<1>13. FlawInv'
    BY <1>1, <1>2, <1>4 DEF FrameInv, FlawInv, EmptyLast
<1> QED
    BY <1>10, <1>11, <1>12, <1>13 DEF FrameInv

-----------------------------------------------------------------------------
(* The end of a call, the next one and the reset.                          *)

(* What a call that ends looks like: the frame is over, or a piece is      *)
(* wanted, or there is something left to flush.                            *)
LEMMA EndOfCall ==
    ASSUME StreamInv, FrameInv, dpc = "finish"
    PROVE  /\ zStage \in {"init", "read", "load", "flush"}
           /\ expected = 0 /\ outEnd = outStart => zStage = "init"
           /\ expected = 0 /\ outEnd # outStart => zStage = "flush"
           /\ expected # 0 => Reading /\ ~ hostageByte /\ inPos < expected
<1>1. Typed /\ PlaceInv /\ FlushInv
    BY DEF StreamInv
<1>2. zStage \in {"init", "read", "load", "flush"}
    BY <1>1 DEF Typed, PlaceInv
<1>3. zStage = "init" => expected = 0 /\ outStart = outEnd
    BY <1>1 DEF PlaceInv
<1>4. zStage \in {"read", "load"} => expected # 0 /\ outStart = outEnd
    BY DEF StreamInv, Ring, Reading, RingInv, FrameInv, AnswerInv
<1>5. zStage = "flush" => outStart # outEnd
    BY <1>1 DEF FlushInv
<1>6. expected # 0 => Reading /\ ~ hostageByte /\ inPos < expected
  <2>1. SUFFICES ASSUME expected # 0 PROVE Reading /\ ~ hostageByte /\ inPos < expected
      OBVIOUS
  <2>2. Reading /\ PieceInv
      BY <1>2, <1>3, <2>1 DEF StreamInv, Ring, Reading
  <2> QED
      BY <1>1, <2>1, <2>2 DEF PieceInv, Typed
<1> QED
    BY <1>2, <1>3, <1>4, <1>5, <1>6

(* The call ends.  What is given back or taken back is the byte that is    *)
(* kept, so what is used up is the same.                                   *)
LEMMA FrameFinish ==
    ASSUME StreamInv, FrameInv, LibraryStep, Finish PROVE FrameInv'
<1>1. /\ dpc = "finish" /\ inPos' = inPos /\ frame' = frame /\ block' = block
      /\ frameBase' = frameBase /\ decoded' = decoded /\ dStage' = dStage
      /\ expected' = expected /\ Frames' = Frames /\ lhSize' = lhSize
    BY DEF Finish, placeVars, LibraryStep
<1>2. /\ F' = F /\ UnitsOfFrame' = UnitsOfFrame /\ BytesOfFrame' = BytesOfFrame
      /\ UnitsThrough(frame)' = UnitsThrough(frame)
      /\ UnitsThrough(frame - 1)' = UnitsThrough(frame - 1)
      /\ BytesThrough(frame)' = BytesThrough(frame)
      /\ BytesThrough(frame - 1)' = BytesThrough(frame - 1)
    BY <1>1, PlaceStays
<1>3. /\ Typed /\ PlaceInv /\ FlushInv /\ pos \in Nat /\ taken \in Nat /\ expected \in Nat
      /\ inPos \in Nat /\ hostageByte \in BOOLEAN
    BY DEF StreamInv, Typed, CallInv
<1>4. CASE dpc' = "error"
  <2>1. zStage' = zStage /\ hostageByte' = hostageByte /\ noForwardProgress' >= NoProgressMax
      BY <1>4 DEF Finish, DError
  <2>2. Ring' => Ring
      BY <1>4, <2>1 DEF Ring, Reading
  <2>3. UnitsInv' /\ AnswerInv' /\ FailsOnlyForCause'
      BY <1>4, <2>1 DEF UnitsInv, AnswerInv, FailsOnlyForCause
  <2>4. BytesInv'
      BY <1>1, <1>2, <2>1, <2>2 DEF FrameInv, BytesInv
  <2>5. FlawInv'
      BY <1>1, <1>2, <2>1, <2>2 DEF FrameInv, FlawInv, EmptyLast
  <2> QED
      BY <2>3, <2>4, <2>5 DEF FrameInv
<1>5. CASE dpc' # "error"
  <2>1. dpc' = "out" /\ pos' = pos + taken'
      BY <1>5 DEF Finish, DError, LibraryStep
  <2>2. FailsOnlyForCause'
      BY <2>1 DEF FailsOnlyForCause
  <2>3. ASSUME Reading, Ring', zStage' # "init", Used' = Used, AnswerInv' PROVE FrameInv'
    <3>1. Ring /\ dpc # "error"
        BY <1>1, <2>3 DEF Ring
    <3>2. UNCHANGED <<Frames, placeVars, dStage, expected, inPos>>
        BY <1>1 DEF placeVars
    <3> QED
        BY <2>2, <2>3, <3>1, <3>2, FrameStays DEF FrameInv
  <2>4. CASE FinishFrame
    <3>1. /\ taken' = (IF hostageByte THEN taken + 1 ELSE taken) /\ ret' = 0
          /\ zStage' = zStage /\ hostageByte' = hostageByte /\ expected = 0 /\ outEnd = outStart
        BY <2>4 DEF FinishFrame, Flushed
    <3>2. zStage = "init" /\ zStage' = "init"
        BY <1>1, <3>1, EndOfCall
    <3>3. (Ring <=> hostageByte) /\ ~ Ring'
        BY <1>1, <2>1, <3>2 DEF Ring, Reading
    <3>4. Used = pos + taken + (IF hostageByte THEN 1 ELSE 0)
        BY <1>1, <3>3 DEF Used
    <3>5. Used' = pos'
        <4>1. pos' \in Nat
            BY <1>3, <2>1, <3>1
        <4> QED
            BY <2>1, <3>3, <4>1 DEF Used
    <3>6. Used' = Used
      <4>1. \A p, t \in Nat : p + (t + 1) = p + t + 1 /\ p + t = p + t + 0
          OBVIOUS
      <4>2. CASE hostageByte
          BY <1>3, <2>1, <3>1, <3>4, <3>5, <4>1, <4>2
      <4>3. CASE ~ hostageByte
          BY <1>3, <2>1, <3>1, <3>4, <3>5, <4>1, <4>3
      <4> QED
          BY <4>2, <4>3
    <3>7. UnitsInv'
        BY <1>1, <1>2, <3>2, <3>3, <3>6 DEF FrameInv, UnitsInv
    <3>8. BytesInv'
        BY <1>1, <1>2, <3>2, <3>3 DEF FrameInv, BytesInv
    <3>9. AnswerInv'
        BY <3>1, <3>2 DEF AnswerInv, Reading
    <3>10. FlawInv'
        BY <1>1, <1>2, <3>2, <3>3 DEF FrameInv, FlawInv, EmptyLast
    <3> QED
        BY <2>2, <3>7, <3>8, <3>9, <3>10 DEF FrameInv
  <2>5. CASE FinishWithoutHostage
    <3>1. /\ taken' = taken /\ ret' = 1 /\ zStage' = "read" /\ hostageByte' = hostageByte
          /\ hostageByte /\ expected = 0 /\ outEnd = outStart
        BY <2>5 DEF FinishWithoutHostage, Flushed
    <3>2. zStage = "init"
        BY <1>1, <3>1, EndOfCall
    <3>3. Ring /\ Ring' /\ zStage' # "loadHeader"
        BY <1>1, <3>1, <3>2 DEF Ring, Reading
    <3>4. Used = pos + taken + 1 /\ Used' = (pos + taken) + 1
        BY <1>1, <1>3, <2>1, <3>1, <3>3 DEF Used
    <3>5. UnitsInv'
        BY <1>1, <1>2, <3>1, <3>3, <3>4 DEF FrameInv, UnitsInv
    <3>6. BytesInv'
        BY <1>1, <1>2, <3>1, <3>3 DEF FrameInv, BytesInv
    <3>7. AnswerInv'
        BY <1>1, <3>1, <2>1 DEF AnswerInv
    <3>8. FlawInv'
        BY <1>1, <1>2, <3>1, <3>3 DEF FrameInv, FlawInv, EmptyLast
    <3> QED
        BY <2>2, <3>5, <3>6, <3>7, <3>8 DEF FrameInv
  <2>6. CASE FinishUnflushed
    <3>1. /\ taken' = (IF hostageByte THEN taken ELSE taken - 1) /\ ret' = 1
          /\ zStage' = zStage /\ hostageByte' = TRUE /\ expected = 0 /\ outEnd # outStart
        BY <2>6 DEF FinishUnflushed, Flushed
    <3>2. zStage = "flush" /\ (hostageByte \/ taken > 0)
        BY <1>1, <1>3, <3>1, EndOfCall DEF FlushInv
    <3>3. Reading /\ Ring /\ Ring' /\ zStage' # "init"
        BY <3>1, <3>2 DEF Ring, Reading
    <3>4. Used = pos + taken + (IF hostageByte THEN 1 ELSE 0) /\ Used' = (pos + taken') + 1
        BY <1>1, <2>1, <3>1, <3>3 DEF Used
    <3>5. Used' = Used
        BY <1>3, <3>1, <3>2, <3>4
    <3>6. AnswerInv'
        BY <2>1, <3>1, <3>2 DEF AnswerInv
    <3> QED
        BY <2>3, <3>3, <3>5, <3>6
  <2>7. CASE FinishMiddle
    <3>1. /\ taken' = taken /\ ret' = expected + Preload - inPos /\ zStage' = zStage
          /\ hostageByte' = hostageByte /\ expected # 0
        BY <2>7 DEF FinishMiddle
    <3>2. Reading /\ ~ hostageByte /\ inPos < expected
        BY <1>1, <3>1, EndOfCall
    <3>3. Ring' /\ Ring /\ zStage' # "init" /\ zStage' # "loadHeader"
        BY <3>1, <3>2 DEF Ring, Reading
    <3>4. Used' = Used
        BY <1>1, <1>3, <2>1, <3>1, <3>2 DEF Used
    <3>5. Preload \in Nat
        BY SizesAre DEF Preload
    <3>6. ret' > 0
        BY <1>3, <3>1, <3>2, <3>5
    <3>7. AnswerInv'
        BY <1>1, <2>1, <3>1, <3>3, <3>6 DEF AnswerInv
    <3> QED
        BY <2>3, <3>2, <3>3, <3>4, <3>7
  <2> QED
      BY <1>5, <2>4, <2>5, <2>6, <2>7 DEF Finish, DError
<1> QED
    BY <1>4, <1>5

(* The caller offers more of the stream, or nothing changes.               *)
LEMMA FrameSame ==
    ASSUME FrameInv, dpc' = dpc \/ (dpc = "out" /\ dpc' = "work" /\ taken' = 0),
           dpc' = dpc => UNCHANGED <<taken, ret, noForwardProgress>>,
           UNCHANGED <<pos, zStage, lhSize, dStage, expected, inPos, hostageByte, Frames,
                       frame, block, decoded, frameBase>>,
           StreamInv
    PROVE  FrameInv'
<1>1. /\ pos' = pos /\ zStage' = zStage /\ lhSize' = lhSize /\ dStage' = dStage
      /\ expected' = expected /\ inPos' = inPos /\ hostageByte' = hostageByte
      /\ Frames' = Frames /\ frame' = frame /\ block' = block /\ decoded' = decoded
      /\ frameBase' = frameBase
    OBVIOUS
<1>2. /\ F' = F /\ UnitsOfFrame' = UnitsOfFrame /\ BytesOfFrame' = BytesOfFrame
      /\ UnitsThrough(frame)' = UnitsThrough(frame)
      /\ UnitsThrough(frame - 1)' = UnitsThrough(frame - 1)
      /\ BytesThrough(frame)' = BytesThrough(frame)
      /\ BytesThrough(frame - 1)' = BytesThrough(frame - 1)
    BY <1>1, PlaceStays
<1>3. InStream' = InStream /\ HeaderNeed' = HeaderNeed
    BY <1>1, <1>2 DEF InStream, HeaderNeed
<1>4. Ring' <=> Ring
    BY <1>1 DEF Ring, Reading
<1>5. pos \in Nat /\ taken \in Nat
    BY DEF StreamInv, Typed, CallInv
<1>6. dpc # "error" => Used' = Used /\ dpc' # "error"
  <2>1. CASE dpc' = dpc
      BY <1>1, <1>4, <2>1 DEF Used
  <2>2. CASE dpc = "out" /\ dpc' = "work" /\ taken' = 0
      BY <1>1, <1>4, <1>5, <2>2 DEF Used
  <2> QED
      BY <2>1, <2>2
<1>7. dpc' = "error" => dpc = "error"
    OBVIOUS
<1>8. UnitsInv'
    BY <1>1, <1>2, <1>4, <1>6, <1>7 DEF FrameInv, UnitsInv
<1>9. BytesInv'
    BY <1>1, <1>2, <1>4 DEF FrameInv, BytesInv
<1>10. AnswerInv'
    BY <1>1, <1>3 DEF FrameInv, AnswerInv, Reading
<1>11. FlawInv'
    BY <1>1, <1>2, <1>4 DEF FrameInv, FlawInv, EmptyLast
<1>12. FailsOnlyForCause'
    BY <1>2, <1>3 DEF FrameInv, FailsOnlyForCause
<1> QED
    BY <1>8, <1>9, <1>10, <1>11, <1>12 DEF FrameInv

(* The session is reset.                                                   *)
LEMMA FrameReset ==
    ASSUME StreamInv, FrameInv, ResetSession PROVE FrameInv'
<1>1. /\ dpc' = "out" /\ zStage' = "init" /\ ret' = 1 /\ frame' = 0 /\ decoded' = 0
      /\ pos' = 0 /\ Frames' = Frames
    BY DEF ResetSession, SessionReset
<1>2. ~ Ring'
    BY <1>1 DEF Ring, Reading
<1>3. UnitsThrough(frame)' = 0 /\ BytesThrough(frame)' = 0
  <2>1. UnitsThrough(frame)' = UnitsThrough(0) /\ BytesThrough(frame)' = BytesThrough(0)
      BY <1>1 DEF UnitsThrough, BytesThrough
  <2> QED
      BY <2>1, StreamSums DEF StreamInv
<1>4. Used' = 0
    BY <1>1, <1>2 DEF Used
<1>5. UnitsInv' /\ BytesInv'
    BY <1>1, <1>2, <1>3, <1>4 DEF UnitsInv, BytesInv
<1>6. AnswerInv' /\ FlawInv' /\ FailsOnlyForCause'
    BY <1>1, <1>2 DEF AnswerInv, FlawInv, EmptyLast, FailsOnlyForCause, Reading
<1> QED
    BY <1>5, <1>6 DEF FrameInv

(* Every step keeps the invariant.                                         *)
LEMMA NextFrameInv ==
    ASSUME StreamInv, FrameInv, [CallerNext]_callerVars PROVE FrameInv'
<1>1. CASE Library
  <2>1. LibraryStep /\ DecompressStream
      BY <1>1 DEF Library, LibraryStep, DecompressStream
  <2>2. CASE StreamInit
      BY <2>1, <2>2, FrameStreamInit
  <2>3. CASE LoadHeader
      BY <2>1, <2>3, FrameLoadHeader
  <2>4. CASE BadHeader \/ RefuseWindow \/ DecodeError \/ ReadEmpty
      BY <2>1, <2>4, FrameEndings
  <2>5. CASE DecodeSinglePass
      BY <2>1, <2>5, FrameSinglePass
  <2>6. CASE ConsumeHeader
      BY <2>1, <2>6, FrameConsumeHeader
  <2>7. CASE ReadDirect \/ LoadWhole
      BY <2>1, <2>7, PieceDecoded, FrameContinue
  <2>8. CASE ReadEnd
      BY <2>1, <2>8, FrameReadEnd
  <2>9. CASE ReadPart \/ FlushOut
      BY <2>1, <2>9, FrameTurns
  <2>10. CASE LoadPart
      BY <2>1, <2>10, FrameLoadPart
  <2>11. CASE Finish
      BY <2>1, <2>11, FrameFinish
  <2> QED
      BY <2>1, <2>2, <2>3, <2>4, <2>5, <2>6, <2>7, <2>8, <2>9, <2>10, <2>11
         DEF DecompressStream
<1>2. CASE \E a \in Offers, r \in Rooms : Call(a, r)
  <2>1. PICK a \in Offers, r \in Rooms : Call(a, r)
      BY <1>2
  <2>2. /\ dpc = "out" /\ dpc' = "work" /\ taken' = 0
        /\ UNCHANGED <<pos, zStage, lhSize, dStage, expected, inPos, hostageByte, Frames,
                       frame, block, decoded, frameBase>>
      BY <2>1 DEF Call, Offer, dctxVars, placeVars
  <2> QED
      BY <2>2, FrameSame
<1>3. CASE ResetSession
    BY <1>3, FrameReset
<1>4. CASE UNCHANGED callerVars
  <2>1. /\ dpc' = dpc /\ UNCHANGED <<taken, ret, noForwardProgress>>
        /\ UNCHANGED <<pos, zStage, lhSize, dStage, expected, inPos, hostageByte, Frames,
                       frame, block, decoded, frameBase>>
      BY <1>4 DEF callerVars, dVars, callIO, dctxVars, placeVars
  <2> QED
      BY <2>1, FrameSame
<1> QED
    BY <1>1, <1>2, <1>3, <1>4 DEF CallerNext

-----------------------------------------------------------------------------
(* The properties.                                                         *)

(* The blocks up to any one are within the frame.                          *)
LEMMA BlocksInFrame ==
    ASSUME Frames \in Streams, InStream, ~ Skippable, NEW k \in 0 .. Len(F.blocks)
    PROVE  F.hdr + UnitsBefore(k) <= FrameUnits(F)
<1> DEFINE U == BlockUnits(F)
           n == Len(F.blocks)
<1>1. U \in Seq(Nat) /\ Len(U) = n /\ n \in Nat
    BY CurrentFrame, BlockSums DEF FrameFields
<1>2. PrefixSums(U)[k] <= PrefixSums(U)[n]
    BY <1>1, PrefixSumsGrow
<1>3. UnitsBefore(k) <= UnitsBefore(n)
    BY <1>2 DEF UnitsBefore
<1>4. /\ UnitsBefore(k) \in Nat /\ UnitsBefore(n) \in Nat /\ F.hdr \in Nat
      /\ FrameUnits(F) = F.hdr + UnitsBefore(n) + (IF F.checksum THEN ChecksumUnits ELSE 0)
    BY <1>1, FrameSumsAre, CurrentFrame DEF FrameFields
<1>5. (IF F.checksum THEN ChecksumUnits ELSE 0) \in Nat
    BY SizesAre
<1>6. \A h, x, y, c \in Nat : x <= y => h + x <= h + y + c
    OBVIOUS
<1> QED
    BY <1>3, <1>4, <1>5, <1>6

(* What the decoder wants next is part of the frame.                       *)
LEMMA WantedIsInFrame ==
    ASSUME StreamInv, Ring
    PROVE  /\ UnitsOfFrame \in Nat /\ FrameUnits(F) \in Nat
           /\ UnitsOfFrame <= FrameUnits(F)
           /\ expected # 0 => UnitsOfFrame < FrameUnits(F)
<1>1. Frames \in Streams /\ InStream /\ Typed /\ PieceInv
    BY DEF StreamInv, PlaceInv
<1>2. /\ expected \in Nat /\ inPos \in Nat /\ Len(F.blocks) \in Nat /\ F.hdr \in Nat
      /\ FrameUnits(F) \in Nat /\ (inPos = 0 \/ inPos < expected)
    BY <1>1, CurrentFrame DEF Typed, FrameFields, PieceInv
<1>3. ASSUME NEW done \in Nat, UnitsOfFrame = done + inPos, done + expected <= FrameUnits(F)
      PROVE  /\ UnitsOfFrame \in Nat /\ UnitsOfFrame <= FrameUnits(F)
             /\ expected # 0 => UnitsOfFrame < FrameUnits(F)
  <2>1. \A d, i, e, all \in Nat : d + e <= all /\ (i = 0 \/ i < e) =>
           d + i \in Nat /\ d + i <= all /\ (e # 0 => d + i < all)
      OBVIOUS
  <2> QED
      BY <1>2, <1>3, <2>1
<1>4. CASE dStage = "skipFrame"
  <2>1. UnitsOfFrame = F.hdr + inPos /\ FrameUnits(F) = F.hdr + expected
      BY <1>1, <1>4, FrameSumsAre DEF UnitsOfFrame, PieceInv
  <2> QED
      BY <1>2, <1>3, <2>1
<1>5. CASE dStage = "decodeBlockHeader" \/ dStage = "decompressBlock"
  <2>1. ~ Skippable /\ block \in 1 .. Len(F.blocks)
      BY <1>1, <1>5 DEF PieceInv
  <2>2. block - 1 \in 0 .. Len(F.blocks) /\ block \in 0 .. Len(F.blocks)
      BY <1>2, <2>1
  <2>3. /\ UnitsBefore(block - 1) \in Nat /\ B.csize \in Nat
        /\ UnitsBefore(block) = UnitsBefore(block - 1) + (BlockHdr + B.csize)
        /\ F.hdr + UnitsBefore(block) <= FrameUnits(F)
      BY <1>1, <2>1, <2>2, FrameSumsAre, BlocksInFrame, CurrentFrame DEF B, FrameFields
  <2>4. F.hdr + (UnitsBefore(block - 1) + (BlockHdr + B.csize)) <= FrameUnits(F)
      BY <2>3
  <2>5. \A h, u, m, c, all \in Nat : h + (u + (m + c)) <= all =>
           h + u \in Nat /\ (h + u) + m <= all
      OBVIOUS
  <2>6. CASE dStage = "decodeBlockHeader"
    <3> DEFINE done == F.hdr + UnitsBefore(block - 1)
    <3>1. UnitsOfFrame = done + inPos /\ expected = BlockHdr
        BY <1>1, <2>6 DEF UnitsOfFrame, PieceInv
    <3>2. done \in Nat /\ done + expected <= FrameUnits(F)
        BY <1>2, <2>3, <2>4, <2>5, <3>1, SizesAre
    <3> HIDE DEF done
    <3> QED
        BY <1>2, <1>3, <3>1, <3>2
  <2>7. CASE dStage = "decompressBlock"
    <3> DEFINE x == B.csize - expected
               done == F.hdr + UnitsBefore(block - 1) + BlockHdr + x
    <3>1. UnitsOfFrame = done + inPos
        BY <2>7 DEF UnitsOfFrame
    <3>2. x \in Nat /\ x + expected = B.csize
        BY <1>1, <1>2, <2>3, <2>7 DEF PieceInv, InBlock
    <3> HIDE DEF x
    <3>3. done \in Nat /\ done + expected <= FrameUnits(F)
      <4>1. \A h, u, m, y, e \in Nat :
               h + u + m + y \in Nat /\ (h + u + m + y) + e = h + (u + (m + (y + e)))
          OBVIOUS
      <4>2. /\ done \in Nat
            /\ done + expected = F.hdr + (UnitsBefore(block - 1) + (BlockHdr + (x + expected)))
        <5>1. /\ F.hdr \in Nat /\ UnitsBefore(block - 1) \in Nat /\ BlockHdr \in Nat
              /\ x \in Nat /\ expected \in Nat
            BY <1>2, <2>3, <3>2, SizesAre
        <5> QED
            BY <4>1, <5>1
      <4>3. done + expected = F.hdr + (UnitsBefore(block - 1) + (BlockHdr + B.csize))
          BY <3>2, <4>2
      <4> QED
          BY <2>4, <4>2, <4>3
    <3> HIDE DEF done
    <3> QED
        BY <1>2, <1>3, <3>1, <3>3
  <2> QED
      BY <1>5, <2>6, <2>7
<1>6. CASE dStage = "checkChecksum"
  <2> DEFINE done == F.hdr + UnitsBefore(Len(F.blocks))
  <2>1. /\ UnitsBefore(Len(F.blocks)) \in Nat /\ FrameUnits(F) = done + expected
        /\ UnitsOfFrame = done + inPos
      BY <1>1, <1>2, <1>6, FrameSumsAre DEF PieceInv, UnitsOfFrame
  <2>2. done \in Nat
      BY <1>2, <2>1
  <2> HIDE DEF done
  <2> QED
      BY <1>2, <1>3, <2>1, <2>2
<1>7. CASE dStage = "getFrameHeaderSize"
    BY <1>1, <1>2, <1>7 DEF PieceInv, UnitsOfFrame
<1> QED
    BY <1>1, <1>2, <1>4, <1>5, <1>6, <1>7 DEF Typed

(* Between calls in the middle of a frame, not all of its units have been  *)
(* reported as consumed: one is wanted, or one is kept back.               *)
LEMMA BehindTheEnd ==
    ASSUME StreamInv, FrameInv, dpc = "out", zStage # "init", InStream
    PROVE  pos < UnitsThrough(frame)
<1>1. /\ Frames \in Streams /\ pos \in Nat /\ hostageByte \in BOOLEAN
      /\ zStage \in {"loadHeader", "read", "load", "flush"}
    BY DEF StreamInv, CallInv, Typed
<1>2. /\ UnitsThrough(frame - 1) \in Nat /\ FrameUnits(F) \in Nat
      /\ UnitsThrough(frame) = UnitsThrough(frame - 1) + FrameUnits(F)
      /\ F.hdr \in Nat /\ MinHdr <= F.hdr /\ F.hdr <= FrameUnits(F)
    BY <1>1, ThroughFrame, CurrentFrame DEF FrameFields
<1>3. CASE zStage = "loadHeader"
  <2>1. ~ Ring /\ lhSize \in Nat /\ lhSize < HeaderNeed
      BY <1>3 DEF Ring, Reading, FrameInv, AnswerInv, StreamInv, Typed
  <2>2. lhSize < F.hdr
      BY <1>2, <2>1, SizesAre DEF HeaderNeed
  <2>3. pos = UnitsThrough(frame - 1) + lhSize
      BY <1>1, <1>3, <2>1 DEF FrameInv, UnitsInv, Used
  <2> QED
      BY <1>2, <2>1, <2>2, <2>3
<1>4. CASE zStage # "loadHeader"
  <2>1. Reading /\ Ring
      BY <1>1, <1>4 DEF Reading, Ring
  <2>2. /\ UnitsOfFrame \in Nat /\ UnitsOfFrame <= FrameUnits(F)
        /\ expected # 0 => UnitsOfFrame < FrameUnits(F)
      BY <2>1, WantedIsInFrame
  <2>3. expected # 0 \/ hostageByte
      BY <2>1 DEF FrameInv, AnswerInv
  <2>4. pos + 0 + (IF hostageByte THEN 1 ELSE 0) = UnitsThrough(frame - 1) + UnitsOfFrame
      BY <1>1, <2>1 DEF FrameInv, UnitsInv, Used
  <2>5. CASE hostageByte
      BY <1>1, <1>2, <2>2, <2>4, <2>5
  <2>6. CASE ~ hostageByte
      BY <1>1, <1>2, <2>2, <2>3, <2>4, <2>6
  <2> QED
      BY <2>5, <2>6
<1> QED
    BY <1>3, <1>4

(* The inductive invariant holds.                                          *)
THEOREM FrameInvariant == CallerSpec => []FrameInv
<1>1. CallerInit => FrameInv
    BY InitFrameInv
<1>2. StreamInv /\ FrameInv /\ [CallerNext]_callerVars => FrameInv'
    BY NextFrameInv
<1> QED
    BY <1>1, <1>2, DStreamInvariant, PTL DEF CallerSpec

(* 0 is returned exactly when a call consumes the last unit of a frame,    *)
(* and then all of it has been delivered; the content of a frame whose     *)
(* units are all reported as consumed has been handed out.  This is what   *)
(* the byte that is kept back is for.                                      *)
THEOREM ZeroAtFrameEndSafe == CallerSpec => []ZeroAtFrameEnd
<1>1. StreamInv /\ FrameInv => ZeroAtFrameEnd
  <2> SUFFICES ASSUME StreamInv, FrameInv, dpc = "out"
               PROVE  /\ InStream =>
                          /\ ret = 0 => pos = UnitsThrough(frame)
                                        /\ Len(delivered) = BytesThrough(frame)
                          /\ taken > 0 /\ pos = UnitsThrough(frame) => ret = 0
                      /\ \A n \in 1 .. Len(Frames) :
                            pos >= UnitsThrough(n) => Len(delivered) >= BytesThrough(n)
      BY DEF ZeroAtFrameEnd
  <2>1. /\ Frames \in Streams /\ Len(Frames) \in Nat /\ Typed /\ PlaceInv /\ FlushInv
        /\ pos \in Nat /\ Len(delivered) \in Nat
        /\ frame \in Nat /\ frame <= Len(Frames) + 1 /\ ret \in Nat
        /\ outStart \in Nat /\ outEnd \in Nat /\ decoded \in Nat /\ frameBase \in Nat
      BY TotalIs DEF StreamInv, Typed, CallInv, Buffers
  <2>2. CASE zStage = "init"
    <3>1. ~ Ring
        BY <2>2 DEF Ring, Reading
    <3>2. pos = UnitsThrough(frame) /\ decoded = BytesThrough(frame)
        BY <2>1, <2>2, <3>1 DEF FrameInv, UnitsInv, BytesInv, Used
    <3>3. Len(delivered) = decoded
        BY <2>1, <2>2 DEF FlushInv
    <3>4. InStream => ret = 0
        BY <2>2 DEF FrameInv, AnswerInv, InStream
    <3>5. frame \in 0 .. Len(Frames)
        BY <2>1, <2>2 DEF PlaceInv
    <3>6. ASSUME NEW n \in 1 .. Len(Frames), pos >= UnitsThrough(n)
          PROVE  Len(delivered) >= BytesThrough(n)
      <4>1. CASE n <= frame
        <5>1. BytesThrough(n) <= BytesThrough(frame)
            BY <2>1, <3>5, <4>1, StreamSums
        <5>2. BytesThrough(n) \in Nat
            BY <2>1, StreamSums
        <5> QED
            BY <2>1, <3>2, <3>3, <5>1, <5>2
      <4>2. CASE ~ (n <= frame)
        <5>1. n - 1 \in 0 .. Len(Frames) /\ n \in 0 .. Len(Frames) /\ frame <= n - 1
            BY <2>1, <3>5, <4>2
        <5>2. /\ UnitsThrough(frame) <= UnitsThrough(n - 1)
              /\ UnitsThrough(n) = UnitsThrough(n - 1) + FrameUnits(Frames[n])
              /\ UnitsThrough(frame) \in Nat /\ UnitsThrough(n - 1) \in Nat
            BY <2>1, <3>5, <5>1, StreamSums
        <5>3. FrameUnits(Frames[n]) \in Nat /\ FrameUnits(Frames[n]) > 0
          <6>1. FrameFields(Frames[n])
              BY <2>1, FieldsAre
          <6> QED
              BY <6>1, FrameSums, SizesAre DEF FrameFields
        <5> QED
            BY <2>1, <3>2, <3>6, <5>2, <5>3
      <4> QED
          BY <4>1, <4>2
    <3> QED
        BY <3>2, <3>3, <3>4, <3>6
  <2>3. CASE zStage # "init"
    <3>1. ret > 0 /\ frame >= 1
        BY <2>3, <2>1 DEF FrameInv, AnswerInv, PlaceInv
    <3>2. frameBase = BytesThrough(frame - 1)
        BY <2>3 DEF FrameInv, BytesInv
    <3>3. frameBase <= Len(delivered)
      <4>1. CASE zStage = "loadHeader"
          BY <2>1, <4>1 DEF PlaceInv, FlushInv
      <4>2. CASE zStage # "loadHeader"
        <5>1. RingInv
            BY <2>1, <2>3, <4>2 DEF StreamInv, Ring, Reading, Typed
        <5>2. outStart <= outEnd /\ frameBase + outEnd <= decoded
            BY <5>1 DEF RingInv
        <5>3. decoded = Len(delivered) + (IF zStage = "flush" THEN outEnd - outStart ELSE 0)
            BY <2>1 DEF FlushInv
        <5> QED
            BY <2>1, <5>2, <5>3
      <4> QED
          BY <4>1, <4>2
    <3>4. InStream => pos < UnitsThrough(frame) /\ UnitsThrough(frame) \in Nat
        BY <2>1, <2>3, BehindTheEnd, ThroughFrame
    <3>5. frame - 1 \in 0 .. Len(Frames)
        BY <2>1, <3>1
    <3>6. ASSUME NEW n \in 1 .. Len(Frames), pos >= UnitsThrough(n)
          PROVE  Len(delivered) >= BytesThrough(n)
      <4>1. CASE n <= frame - 1
        <5>1. BytesThrough(n) <= BytesThrough(frame - 1) /\ BytesThrough(n) \in Nat
            BY <2>1, <3>5, <4>1, StreamSums
        <5> QED
            BY <2>1, <3>2, <3>3, <5>1
      <4>2. CASE ~ (n <= frame - 1)
        <5>1. InStream /\ frame \in 0 .. Len(Frames) /\ n \in 0 .. Len(Frames) /\ frame <= n
            BY <2>1, <3>1, <4>2 DEF InStream
        <5>2. UnitsThrough(frame) <= UnitsThrough(n) /\ UnitsThrough(n) \in Nat
            BY <2>1, <5>1, StreamSums
        <5> QED
            BY <2>1, <3>4, <3>6, <5>1, <5>2
      <4> QED
          BY <4>1, <4>2
    <3>7. InStream => pos # UnitsThrough(frame)
        BY <2>1, <3>4
    <3> QED
        BY <2>1, <3>1, <3>6, <3>7
  <2> QED
      BY <2>2, <2>3
<1> QED
    BY <1>1, DStreamInvariant, FrameInvariant, PTL

(* Only a flawed frame, or a caller that offers nothing again and again,   *)
(* makes the decoder fail: what is loaded fits into inBuff, and a block of *)
(* a sound frame into outBuff.                                             *)
THEOREM FailsOnlyForCauseSafe == CallerSpec => []FailsOnlyForCause
<1>1. FrameInv => FailsOnlyForCause
    BY DEF FrameInv
<1> QED
    BY <1>1, FrameInvariant, PTL

(* A frame that is reported as complete has no flaw, with one exception: a *)
(* wrong declared size behind an empty last block, decoded block by block. *)
(* And one with too large a window was decoded in a single pass.           *)
THEOREM FlawIsFoundSafe == CallerSpec => []FlawIsFound
<1>1. StreamInv /\ FrameInv => FlawIsFound
  <2> SUFFICES ASSUME StreamInv, FrameInv, dpc = "out", ret = 0, InStream
               PROVE  \/ F.flaw = "none"
                      \/ F.flaw = "window" /\ F.fcs # Unknown /\ block = 0
                      \/ F.flaw = "size" /\ EmptyLast /\ block # 0
      BY DEF FlawIsFound, EmptyLast
  <2>1. zStage = "init" /\ frame # 0
      BY DEF FrameInv, AnswerInv, InStream
  <2> QED
      BY <2>1 DEF FrameInv, FlawInv, EmptyLast
<1> QED
    BY <1>1, DStreamInvariant, FrameInvariant, PTL

-----------------------------------------------------------------------------
(* A caller that offers input and room in every call.                      *)

(* What a step may use of the types.                                       *)
LEMMA CallTypes ==
    ASSUME StreamInv
    PROVE  /\ iAvail \in Nat /\ oRoom \in Nat /\ taken \in Nat /\ made \in Nat
           /\ expected \in Nat /\ inPos \in Nat /\ lhSize \in Nat
           /\ outStart \in Nat /\ outEnd \in Nat /\ hostageByte \in BOOLEAN
           /\ NeededInSize \in Nat /\ (NeededInSize = 0 <=> expected = 0)
           /\ HeaderNeed \in Int
           /\ zStage = "flush" => outStart <= outEnd
<1>1. /\ iAvail \in Nat /\ oRoom \in Nat /\ taken \in Nat /\ made \in Nat
      /\ expected \in Nat /\ inPos \in Nat /\ lhSize \in Nat
      /\ outStart \in Nat /\ outEnd \in Nat /\ hostageByte \in BOOLEAN
    BY DEF StreamInv, Typed
<1>2. NeededInSize \in Nat /\ (NeededInSize = 0 <=> expected = 0)
    BY <1>1 DEF NeededInSize, Larger, Smaller
<1>3. HeaderNeed \in Int
  <2>1. InStream => F.hdr \in Nat
      BY CurrentFrame DEF StreamInv, FrameFields
  <2> QED
      BY <2>1, SizesAre DEF HeaderNeed
<1>4. zStage = "flush" => outStart <= outEnd
    BY DEF StreamInv, Ring, Reading, RingInv
<1> QED
    BY <1>1, <1>2, <1>3, <1>4

(* What a call has taken and what it may still take are what was offered,  *)
(* and the same for its output; at the end no more than that was taken.    *)
LEMMA CallSums ==
    ASSUME StreamInv, DecompressStream
    PROVE  /\ dpc \in {"work", "finish"}
           /\ dpc' \in {"work", "finish"} =>
                 taken' + iAvail' = taken + iAvail /\ made' + oRoom' = made + oRoom
           /\ dpc' = "out" => taken' <= taken + iAvail /\ made' <= made + oRoom
           /\ dpc' # "error" => taken' \in Int /\ made' \in Int
<1>1. /\ iAvail \in Nat /\ oRoom \in Nat /\ taken \in Nat /\ made \in Nat
      /\ expected \in Nat /\ inPos \in Nat /\ lhSize \in Nat
      /\ outStart \in Nat /\ outEnd \in Nat /\ hostageByte \in BOOLEAN
      /\ NeededInSize \in Nat /\ HeaderNeed \in Int
    BY CallTypes
<1>2. \A n \in Int : Consume(n) => iAvail' = iAvail - n /\ taken' = taken + n
    BY DEF Consume
<1>3. ASSUME dpc = "work", UNCHANGED callIO
      PROVE  /\ taken' + iAvail' = taken + iAvail /\ made' + oRoom' = made + oRoom
             /\ taken' <= taken + iAvail /\ made' <= made + oRoom
             /\ taken' \in Int /\ made' \in Int
    BY <1>1, <1>3 DEF callIO
<1>4. ASSUME NEW n \in Int, n <= iAvail, Consume(n), oRoom' = oRoom, made' = made
      PROVE  /\ taken' + iAvail' = taken + iAvail /\ made' + oRoom' = made + oRoom
             /\ taken' <= taken + iAvail /\ made' <= made + oRoom
             /\ taken' \in Int /\ made' \in Int
    BY <1>1, <1>4 DEF Consume
<1>5. CASE StreamInit \/ BadHeader \/ ConsumeHeader \/ RefuseWindow \/ ReadEnd
           \/ ReadEmpty \/ ReadPart \/ DecodeError
  <2>1. dpc = "work" /\ UNCHANGED callIO
      BY <1>5 DEF StreamInit, BadHeader, ConsumeHeader, RefuseWindow, ReadEnd,
                  ReadEmpty, ReadPart, DecodeError, At
  <2> QED
      BY <1>3, <2>1
<1>6. CASE LoadHeader
  <2> DEFINE n == Smaller(HeaderNeed - lhSize, iAvail)
  <2>1. n \in Int /\ n <= iAvail
      BY <1>1 DEF Smaller
  <2>2. dpc = "work" /\ Consume(n) /\ oRoom' = oRoom /\ made' = made
      BY <1>6 DEF LoadHeader, At
  <2> QED
      BY <1>4, <2>1, <2>2
<1>7. CASE DecodeSinglePass
  <2>1. InStream
      BY <1>7 DEF DecodeSinglePass, SinglePass, HeaderKnown
  <2>2. FrameUnits(F) \in Nat /\ FrameBytes(F) \in Nat
      BY <2>1, CurrentFrame DEF StreamInv
  <2>3. dpc = "work"
      BY <1>7 DEF DecodeSinglePass, At
  <2>4. \/ dpc' = "error"
        \/ /\ dpc' = "finish"
           /\ Consume(FrameUnits(F) - taken)
           /\ oRoom' = oRoom - FrameBytes(F) /\ made' = made + FrameBytes(F)
      BY <1>7 DEF DecodeSinglePass, DError
  <2> QED
      BY <1>1, <2>2, <2>3, <2>4 DEF Consume
<1>8. CASE ReadDirect
  <2>1. dpc = "work" /\ NeededInSize <= iAvail /\ Consume(NeededInSize)
        /\ oRoom' = oRoom /\ made' = made
      BY <1>1, <1>8 DEF ReadDirect, At
  <2> QED
      BY <1>1, <1>4, <2>1
<1>9. CASE LoadPart
  <2>1. dpc = "work" /\ Consume(iAvail) /\ oRoom' = oRoom /\ made' = made
      BY <1>9 DEF LoadPart, At
  <2> QED
      BY <1>1, <1>4, <2>1
<1>10. CASE LoadWhole
  <2>1. ToLoadIn \in Int
      BY <1>1 DEF ToLoadIn
  <2>2. dpc = "work" /\ ToLoadIn <= iAvail /\ Consume(ToLoadIn)
        /\ oRoom' = oRoom /\ made' = made
      BY <1>1, <1>10, <2>1 DEF LoadWhole, At
  <2> QED
      BY <1>4, <2>1, <2>2
<1>11. CASE FlushOut
  <2> DEFINE n == Smaller(oRoom, outEnd - outStart)
  <2>1. n \in Int /\ n <= oRoom
      BY <1>1 DEF Smaller
  <2>2. /\ dpc = "work" /\ oRoom' = oRoom - n /\ made' = made + n
        /\ iAvail' = iAvail /\ taken' = taken
      BY <1>11 DEF FlushOut, At
  <2> HIDE DEF n
  <2> QED
      BY <1>1, <2>1, <2>2
<1>12. CASE Finish
  <2>1. /\ dpc = "finish" /\ dpc' \in {"out", "error"}
        /\ iAvail' = iAvail /\ oRoom' = oRoom /\ made' = made
      BY <1>12 DEF Finish, DError
  <2>2. dpc' = "out" => taken' \in {taken, taken - 1} \/ (iAvail > 0 /\ taken' = taken + 1)
    <3>1. dpc' = "out" => FinishFrame \/ FinishWithoutHostage \/ FinishUnflushed \/ FinishMiddle
        BY <1>12 DEF Finish, DError
    <3>2. FinishFrame => taken' = taken \/ (iAvail > 0 /\ taken' = taken + 1)
        BY DEF FinishFrame
    <3>3. FinishWithoutHostage \/ FinishMiddle => taken' = taken
        BY DEF FinishWithoutHostage, FinishMiddle
    <3>4. FinishUnflushed => taken' \in {taken, taken - 1}
        BY DEF FinishUnflushed
    <3> QED
        BY <3>1, <3>2, <3>3, <3>4
  <2> QED
      BY <1>1, <2>1, <2>2
<1> QED
    BY <1>5, <1>6, <1>7, <1>8, <1>9, <1>10, <1>11, <1>12 DEF DecompressStream

(* As long as every call offers input and room, each takes or makes      *)
(* something before it ends: what stops one call is what the next one has,*)
(* and a byte that was kept back is offered again.                       *)
ProgressInv ==
    /\ noForwardProgress = 0
    /\ dpc = "work" /\ taken = 0 /\ made = 0 =>
          /\ iAvail > 0 /\ oRoom > 0
          /\ zStage = "loadHeader" => lhSize < HeaderNeed
          /\ zStage \in {"read", "load"} => expected # 0
          /\ zStage = "flush" => outStart # outEnd
    /\ dpc = "finish" => taken > 0 \/ made > 0
    /\ dpc = "out" => /\ zStage \in {"read", "load"} => expected # 0
                      /\ zStage = "flush" => outStart # outEnd
    /\ hostageByte /\ dpc \in {"work", "finish"} => iAvail > 0

(* A call that offers something begins with something to do.             *)
LEMMA ProgressOffer ==
    ASSUME StreamInv, FrameInv, ProgressInv, NEW a \in Nat \ {0}, NEW r \in Nat \ {0},
           Offer(a, r)
    PROVE  ProgressInv'
<1>1. /\ dpc = "out" /\ dpc' = "work" /\ iAvail' = a /\ oRoom' = r
      /\ noForwardProgress' = noForwardProgress
      /\ UNCHANGED <<zStage, lhSize, expected, outStart, outEnd, Frames, frame>>
    BY DEF Offer, dctxVars, ringVars, placeVars
<1>2. zStage = "loadHeader" => lhSize < HeaderNeed
    BY <1>1 DEF FrameInv, AnswerInv
<1>3. HeaderNeed' = HeaderNeed
    BY <1>1 DEF HeaderNeed, InStream, F
<1> QED
    BY <1>1, <1>2, <1>3 DEF ProgressInv

(* Every step of the library keeps it.                                   *)
LEMMA ProgressStep ==
    ASSUME StreamInv, FrameInv, ProgressInv, DecompressStream, NoProgressMax > 0
    PROVE  ProgressInv' \/ (dpc' = "error" /\ noForwardProgress' = 0)
<1> DEFINE Stuck == taken = 0 /\ made = 0
<1>1. /\ iAvail \in Nat /\ oRoom \in Nat /\ taken \in Nat /\ made \in Nat
      /\ expected \in Nat /\ inPos \in Nat /\ lhSize \in Nat
      /\ outStart \in Nat /\ outEnd \in Nat /\ hostageByte \in BOOLEAN
      /\ NeededInSize \in Nat /\ HeaderNeed \in Int /\ (NeededInSize = 0 <=> expected = 0)
      /\ zStage = "flush" => outStart <= outEnd
    BY CallTypes
<1>2. CASE StreamInit
  <2>1. /\ dpc = "work" /\ dpc' = "work" /\ zStage = "init" /\ zStage' = "loadHeader"
        /\ lhSize' = 0 /\ hostageByte' = FALSE
        /\ UNCHANGED <<iAvail, oRoom, taken, made, noForwardProgress>>
      BY <1>2 DEF StreamInit, At, callIO
  <2>2. HeaderNeed' = MinHdr
      BY <2>1, SizesAre DEF HeaderNeed
  <2> QED
      BY <2>1, <2>2, SizesAre DEF ProgressInv
<1>3. CASE LoadHeader
  <2> DEFINE n == Smaller(HeaderNeed - lhSize, iAvail)
  <2>1. /\ dpc = "work" /\ zStage = "loadHeader" /\ zStage' = "loadHeader"
        /\ dpc' \in {"work", "out"} /\ Consume(n)
        /\ UNCHANGED <<made, oRoom, noForwardProgress, hostageByte>>
      BY <1>3 DEF LoadHeader, At
  <2>2. n \in Int /\ (Stuck => n > 0) /\ n >= 0
    <3>1. HeaderNeed - lhSize >= 0
      <4>1. InStream => lhSize <= F.hdr /\ F.hdr \in Nat
          BY <2>1, CurrentFrame DEF StreamInv, PlaceInv, FrameFields
      <4>2. ~ InStream => lhSize <= MinHdr
          BY <2>1 DEF StreamInv, PlaceInv
      <4> QED
          BY <1>1, <4>1, <4>2, SizesAre DEF HeaderNeed
    <3>2. Stuck => lhSize < HeaderNeed /\ iAvail > 0
        BY <2>1 DEF ProgressInv
    <3> QED
        BY <1>1, <3>1, <3>2 DEF Smaller
  <2>3. taken' = taken + n
      BY <2>1 DEF Consume
  <2> HIDE DEF n
  <2>4. ~ (taken' = 0 /\ made' = 0)
      BY <1>1, <2>1, <2>2, <2>3
  <2>5. ~ hostageByte
      BY <2>1 DEF StreamInv, PlaceInv
  <2> QED
      BY <2>1, <2>4, <2>5 DEF ProgressInv
<1>4. CASE BadHeader \/ DecodeError \/ RefuseWindow
  <2>1. dpc' = "error" /\ noForwardProgress' = noForwardProgress
      BY <1>4 DEF BadHeader, DecodeError, RefuseWindow, DError, dctxVars
  <2> QED
      BY <2>1 DEF ProgressInv
<1>5. CASE DecodeSinglePass
  <2>1. /\ dpc = "work" /\ zStage = "loadHeader" /\ InStream
        /\ UNCHANGED <<noForwardProgress, hostageByte>>
      BY <1>5 DEF DecodeSinglePass, At, SinglePass, HeaderKnown
  <2>2. FrameUnits(F) \in Nat /\ FrameUnits(F) > 0
      BY <2>1, CurrentFrame, SizesAre DEF StreamInv, FrameFields
  <2>3. \/ dpc' = "error"
        \/ dpc' = "finish" /\ Consume(FrameUnits(F) - taken)
      BY <1>5 DEF DecodeSinglePass, DError
  <2>4. ~ hostageByte
      BY <2>1 DEF StreamInv, PlaceInv
  <2> QED
      BY <1>1, <2>1, <2>2, <2>3, <2>4 DEF ProgressInv, Consume
<1>6. CASE ConsumeHeader
  <2>1. /\ dpc = "work" /\ zStage = "loadHeader" /\ HeaderKnown /\ dpc' = "work"
        /\ UNCHANGED <<noForwardProgress, hostageByte, iAvail, oRoom, taken, made>>
      BY <1>6 DEF ConsumeHeader, At, callIO
  <2>2. ~ (lhSize < HeaderNeed)
      BY <1>1, <2>1, SizesAre DEF HeaderKnown, HeaderNeed
  <2>3. ~ Stuck /\ ~ hostageByte
      BY <2>1, <2>2 DEF ProgressInv, StreamInv, PlaceInv
  <2> QED
      BY <2>1, <2>3 DEF ProgressInv
<1>7. CASE ReadDirect \/ LoadWhole
  <2>1. /\ dpc = "work" /\ dpc' = "work" /\ zStage \in {"read", "load"}
        /\ UNCHANGED <<noForwardProgress, hostageByte, made>>
      BY <1>7 DEF ReadDirect, LoadWhole, At
  <2>2. PieceInv
      BY <2>1 DEF StreamInv, Ring, Reading
  <2>3. PICK n \in Nat : n > 0 /\ Consume(n) /\ expected # 0
    <3>1. CASE ReadDirect
      <4>1. NeededInSize # 0 /\ Consume(NeededInSize)
          BY <3>1 DEF ReadDirect
      <4> QED
          BY <1>1, <4>1
    <3>2. CASE LoadWhole
      <4>1. Consume(ToLoadIn) /\ zStage = "load"
          BY <3>2 DEF LoadWhole, At
      <4>2. expected > 0 /\ (inPos = 0 \/ inPos < expected)
          BY <2>2, <4>1 DEF PieceInv
      <4>3. ToLoadIn \in Nat /\ ToLoadIn > 0
          BY <1>1, <4>2 DEF ToLoadIn
      <4> QED
          BY <4>1, <4>2, <4>3
    <3> QED
        BY <1>7, <3>1, <3>2
  <2>4. taken' = taken + n
      BY <2>3 DEF Consume
  <2>5. taken' > 0
      BY <1>1, <2>3, <2>4
  <2>6. ~ hostageByte
      BY <2>2, <2>3 DEF PieceInv
  <2> QED
      BY <2>1, <2>5, <2>6 DEF ProgressInv
<1>8. CASE ReadEnd \/ ReadEmpty
  <2>1. /\ dpc = "work" /\ dpc' = "finish" /\ zStage = "read"
        /\ UNCHANGED <<noForwardProgress, hostageByte, iAvail, taken, made>>
        /\ expected = 0 \/ iAvail = 0
      BY <1>1, <1>8 DEF ReadEnd, ReadEmpty, At, callIO, dctxVars
  <2> QED
      BY <1>1, <2>1 DEF ProgressInv
<1>9. CASE ReadPart
  <2>1. /\ dpc = "work" /\ dpc' = "work" /\ zStage = "read" /\ zStage' = "load"
        /\ UNCHANGED <<noForwardProgress, hostageByte, iAvail, oRoom, taken, made, expected>>
      BY <1>9 DEF ReadPart, At, callIO
  <2> QED
      BY <2>1 DEF ProgressInv
<1>10. CASE LoadPart
  <2>1. /\ dpc = "work" /\ dpc' = "finish" /\ zStage = "load" /\ Consume(iAvail)
        /\ UNCHANGED <<noForwardProgress, hostageByte, made>>
      BY <1>10 DEF LoadPart, At
  <2>2. expected > 0 /\ ~ hostageByte
      BY <1>1, <2>1 DEF StreamInv, Ring, Reading, PieceInv
  <2>3. taken' = taken + iAvail
      BY <2>1 DEF Consume
  <2>4. taken' > 0 \/ made' > 0
      BY <1>1, <2>1, <2>3 DEF ProgressInv
  <2> QED
      BY <2>1, <2>2, <2>4 DEF ProgressInv
<1>11. CASE FlushOut
  <2> DEFINE n == Smaller(oRoom, outEnd - outStart)
  <2>1. /\ dpc = "work" /\ zStage = "flush" /\ made' = made + n
        /\ dpc' \in {"work", "finish"}
        /\ UNCHANGED <<noForwardProgress, hostageByte, iAvail, taken>>
      BY <1>11 DEF FlushOut, At
  <2>2. n \in Nat /\ (Stuck => n > 0)
      BY <1>1, <2>1 DEF ProgressInv, Smaller
  <2> HIDE DEF n
  <2>3. taken' > 0 \/ made' > 0
      BY <1>1, <2>1, <2>2
  <2>4. made' \in Nat
      BY <1>1, <2>1, <2>2
  <2>5. ~ (taken' = 0 /\ made' = 0)
      BY <1>1, <2>1, <2>3, <2>4
  <2> QED
      BY <2>1, <2>3, <2>5 DEF ProgressInv
<1>12. CASE Finish
  <2>1. /\ dpc = "finish" /\ ~ Idled /\ noForwardProgress' = 0
        /\ UNCHANGED <<expected, outStart, outEnd, iAvail>>
    <3>1. dpc = "finish" /\ (noForwardProgress' = IF Idled THEN noForwardProgress + 1 ELSE 0)
          /\ UNCHANGED <<expected, outStart, outEnd, iAvail>>
        BY <1>12 DEF Finish, ringVars
    <3>2. ~ Idled
        BY <1>1, <3>1 DEF ProgressInv, Idled
    <3> QED
        BY <3>1, <3>2
  <2>2. dpc' = "out" /\ (FinishFrame \/ FinishWithoutHostage \/ FinishUnflushed \/ FinishMiddle)
    <3>1. ~ (noForwardProgress' >= NoProgressMax)
        BY <2>1, SizesAre
    <3> QED
        BY <1>12, <3>1 DEF Finish
  <2>3. ~ FinishWithoutHostage
      BY <2>1 DEF FinishWithoutHostage, ProgressInv
  <2>4. zStage' = zStage
      BY <2>2, <2>3 DEF FinishFrame, FinishUnflushed, FinishMiddle
  <2>5. zStage \in {"read", "load"} => expected # 0
      BY <2>1 DEF FrameInv, AnswerInv
  <2>6. zStage = "flush" => outStart # outEnd
      BY <2>1 DEF StreamInv, FlushInv
  <2> QED
      BY <2>1, <2>2, <2>4, <2>5, <2>6 DEF ProgressInv
<1> QED
    BY <1>2, <1>3, <1>4, <1>5, <1>6, <1>7, <1>8, <1>9, <1>10, <1>11, <1>12
       DEF DecompressStream

-----------------------------------------------------------------------------
(* A caller that offers input in every call, and room for all content.     *)

(* Nothing is decoded beyond the content of the current frame.             *)
LEMMA ContentInFrame ==
    ASSUME StreamInv, FrameInv, Ring
    PROVE  decoded <= BytesThrough(frame) /\ BytesThrough(frame) \in Nat /\ frame \in Nat
<1>1. Frames \in Streams /\ InStream /\ Typed /\ PieceInv
    BY DEF StreamInv, PlaceInv
<1>2. /\ BytesThrough(frame - 1) \in Nat /\ FrameBytes(F) \in Nat
      /\ BytesThrough(frame) = BytesThrough(frame - 1) + FrameBytes(F)
      /\ Len(F.blocks) \in Nat
    BY <1>1, ThroughFrame, CurrentFrame DEF FrameFields
<1>3. decoded = BytesThrough(frame - 1) + BytesOfFrame
    BY DEF FrameInv, BytesInv
<1>4. BytesOfFrame \in Nat /\ BytesOfFrame <= FrameBytes(F)
  <2>1. ASSUME dStage \in {"decodeBlockHeader", "decompressBlock"}
        PROVE  /\ BytesBefore(block - 1) \in Nat /\ B.rsize \in Nat /\ B.csize \in Nat
               /\ BytesBefore(block - 1) + B.rsize <= FrameBytes(F)
               /\ B.kind \in {"raw", "packed"} /\ (B.kind = "raw" => B.rsize = B.csize)
    <3>1. block \in 1 .. Len(F.blocks)
        BY <1>1, <2>1 DEF PieceInv
    <3>2. block - 1 \in 0 .. Len(F.blocks)
        BY <1>2, <3>1
    <3>3. /\ BytesBefore(block - 1) \in Nat
          /\ BytesBefore(block) = BytesBefore(block - 1) + B.rsize
          /\ BytesBefore(block) <= FrameBytes(F)
        BY <1>1, <3>1, <3>2, FrameSumsAre DEF B
    <3>4. /\ B.rsize \in Nat /\ B.csize \in Nat /\ B.kind \in {"raw", "packed"}
          /\ (B.kind = "raw" => B.rsize = B.csize)
        BY <1>1, <3>1, CurrentFrame DEF B, FrameFields
    <3> QED
        BY <3>3, <3>4
  <2>2. CASE dStage = "decodeBlockHeader"
    <3>1. BytesOfFrame = BytesBefore(block - 1)
        BY <2>2 DEF BytesOfFrame
    <3> QED
        BY <1>2, <2>1, <2>2, <3>1
  <2>3. CASE dStage = "decompressBlock"
    <3>1. BytesOfFrame = BytesBefore(block - 1) + (B.csize - expected)
        BY <2>3 DEF BytesOfFrame
    <3>2. /\ expected \in Nat /\ expected > 0 /\ expected <= B.csize
          /\ (B.kind = "packed" => expected = B.csize)
        BY <1>1, <2>3 DEF PieceInv, InBlock, Typed
    <3>3. B.csize - expected \in Nat /\ B.csize - expected <= B.rsize
        BY <2>1, <2>3, <3>2
    <3> DEFINE x == B.csize - expected
               y == BytesBefore(block - 1)
    <3>4. BytesOfFrame = y + x /\ x \in Nat /\ x <= B.rsize
        BY <3>1, <3>3
    <3>5. y \in Nat /\ B.rsize \in Nat /\ y + B.rsize <= FrameBytes(F)
        BY <2>1, <2>3
    <3> HIDE DEF x, y
    <3> QED
        BY <1>2, <3>4, <3>5
  <2>4. CASE dStage = "skipFrame"
      BY <1>2, <2>4 DEF BytesOfFrame
  <2>5. CASE dStage \in {"getFrameHeaderSize", "checkChecksum"}
      BY <1>2, <2>5 DEF BytesOfFrame
  <2> QED
      BY <1>1, <2>2, <2>3, <2>4, <2>5 DEF Typed
<1>5. BytesThrough(frame) \in Nat /\ frame \in Nat
    BY <1>1, <1>2 DEF Typed
<1> QED
    BY <1>2, <1>3, <1>4, <1>5

(* A call that has room for what is decoded ends with its input used up,   *)
(* or at the end of a frame; nothing is ever kept back, and no frame is    *)
(* begun behind the last one.                                              *)
RoomInv ==
    /\ ~ hostageByte
    /\ frame <= Len(Frames)
    /\ ret = 0 \/ dpc = "finish" => frame > 0
    /\ dpc = "work" /\ zStage = "init" => iAvail > 0
    /\ dpc \in {"work", "finish"} => made <= Len(delivered)
    /\ dpc = "finish" => zStage # "flush" /\ (iAvail = 0 \/ expected = 0)

(* Every step of the library keeps it, and it returns 0 or takes all.      *)
LEMMA RoomStep ==
    ASSUME StreamInv, FrameInv, RoomInv, DecompressStream,
           zStage = "flush" => outEnd - outStart <= oRoom
    PROVE  RoomInv' /\ (dpc' = "out" => ret' = 0 \/ taken' = taken + iAvail)
<1>1. /\ iAvail \in Nat /\ oRoom \in Nat /\ taken \in Nat /\ made \in Nat
      /\ expected \in Nat /\ lhSize \in Nat /\ outStart \in Nat /\ outEnd \in Nat
      /\ (NeededInSize = 0 <=> expected = 0) /\ HeaderNeed \in Int
      /\ zStage = "flush" => outStart <= outEnd
    BY CallTypes
<1>2. /\ delivered \in Seq(Nat) /\ Len(delivered) \in Nat /\ frame \in Nat /\ ret \in Nat
      /\ Frames \in Streams /\ Len(Frames) \in Nat
      /\ (zStage # "init" => frame >= 1) /\ Frames' = Frames
    BY TotalIs DEF StreamInv, Buffers, Typed, PlaceInv, DecompressStream
<1>3. CASE StreamInit
  <2>1. /\ dpc = "work" /\ dpc' = "work" /\ zStage = "init" /\ zStage' = "loadHeader"
        /\ hostageByte' = FALSE /\ frame' = Smaller(frame, Len(Frames)) + 1
        /\ UNCHANGED <<made, delivered>>
      BY <1>3 DEF StreamInit, At, callIO
  <2>2. frame < Len(Frames)
    <3>1. iAvail > 0 /\ frame \in 0 .. Len(Frames)
        BY <1>2, <2>1 DEF RoomInv
    <3>2. pos + taken = UnitsThrough(frame)
      <4>1. ~ Ring
          BY <2>1 DEF Ring, Reading
      <4>2. pos + taken + 0 = UnitsThrough(frame)
          BY <2>1, <4>1 DEF FrameInv, UnitsInv, Used
      <4>3. pos \in Nat
          BY DEF StreamInv, CallInv
      <4> QED
          BY <1>1, <4>2, <4>3
    <3>3. pos + taken + iAvail <= UnitsThrough(Len(Frames))
        BY <2>1 DEF StreamInv, CallInv, Total
    <3>4. UnitsThrough(frame) \in Nat
        BY <1>2, <3>1, StreamSums
    <3>5. UnitsThrough(frame) # UnitsThrough(Len(Frames))
      <4>1. UnitsThrough(frame) + iAvail <= UnitsThrough(Len(Frames))
          BY <3>2, <3>3
      <4> QED
          BY <1>1, <3>1, <3>4, <4>1
    <3> QED
        BY <1>2, <3>1, <3>5
  <2>3. frame' = frame + 1
      BY <1>2, <2>1, <2>2 DEF Smaller
  <2> QED
      BY <1>2, <2>1, <2>2, <2>3 DEF RoomInv
<1>4. CASE LoadHeader
  <2> DEFINE n == Smaller(HeaderNeed - lhSize, iAvail)
  <2>1. /\ dpc = "work" /\ zStage = "loadHeader" /\ zStage' = "loadHeader"
        /\ dpc' \in {"work", "out"} /\ Consume(n)
        /\ UNCHANGED <<made, delivered, hostageByte, frame>>
        /\ dpc' = "out" => HeaderNeed - lhSize > iAvail
      BY <1>4 DEF LoadHeader, At, placeVars
  <2>2. dpc' = "out" => taken' = taken + iAvail
      BY <1>1, <2>1 DEF Consume, Smaller
  <2> QED
      BY <1>2, <2>1, <2>2 DEF RoomInv
<1>5. CASE BadHeader \/ DecodeError \/ RefuseWindow
  <2>1. /\ dpc' = "error" /\ UNCHANGED <<hostageByte, frame, ret>>
      BY <1>5 DEF BadHeader, DecodeError, RefuseWindow, DError, dctxVars, placeVars
  <2> QED
      BY <1>2, <2>1 DEF RoomInv
<1>6. CASE DecodeSinglePass
  <2>1. /\ dpc = "work" /\ zStage = "loadHeader" /\ InStream
        /\ UNCHANGED <<hostageByte, ret>>
      BY <1>6 DEF DecodeSinglePass, At, SinglePass, HeaderKnown
  <2>2. FrameBytes(F) \in Nat
      BY <2>1, CurrentFrame DEF StreamInv
  <2>3. CASE dpc' = "error" /\ frame' = frame
      BY <1>2, <2>1, <2>3 DEF RoomInv
  <2>4. CASE /\ dpc' = "finish" /\ frame' = frame /\ zStage' = "init" /\ expected' = 0
             /\ made' = made + FrameBytes(F)
             /\ delivered' = delivered \o Bytes(decoded, FrameBytes(F))
    <3>1. Len(delivered') = Len(delivered) + FrameBytes(F)
        BY <1>2, <2>2, <2>4 DEF Bytes
    <3> QED
        BY <1>1, <1>2, <2>1, <2>2, <2>4, <3>1 DEF RoomInv
  <2> QED
      BY <1>6, <2>3, <2>4 DEF DecodeSinglePass, DError, placeVars
<1>7. CASE ConsumeHeader
  <2>1. /\ dpc = "work" /\ dpc' = "work" /\ zStage = "loadHeader" /\ zStage' = "read"
        /\ UNCHANGED <<hostageByte, frame, ret, made, delivered>>
      BY <1>7 DEF ConsumeHeader, At, callIO
  <2> QED
      BY <1>2, <2>1 DEF RoomInv
<1>8. CASE ReadDirect \/ LoadWhole
  <2>1. /\ dpc = "work" /\ dpc' = "work" /\ zStage \in {"read", "load"}
        /\ zStage' # "init" /\ UNCHANGED <<hostageByte, frame, ret, made, delivered>>
    <3>1. ASSUME NEW n, Continue(n) PROVE zStage' \in {"read", "flush"} /\ frame' = frame
        BY <3>1 DEF Continue, DecodeBlockHeader, DecodeRaw, DecodePacked, CheckChecksum,
                    SkipFrame, Nothing, Produce
    <3>2. /\ dpc = "work" /\ dpc' = "work" /\ zStage \in {"read", "load"}
          /\ UNCHANGED <<hostageByte, ret, made, delivered>>
          /\ \E n : Continue(n)
        BY <1>8 DEF ReadDirect, LoadWhole, At
    <3> QED
        BY <3>1, <3>2
  <2> QED
      BY <1>2, <2>1 DEF RoomInv
<1>9. CASE ReadEnd \/ ReadEmpty
  <2>1. /\ dpc = "work" /\ dpc' = "finish" /\ zStage = "read" /\ zStage' # "flush"
        /\ UNCHANGED <<hostageByte, frame, ret, made, delivered, iAvail, expected>>
        /\ expected = 0 \/ iAvail = 0
      BY <1>1, <1>9 DEF ReadEnd, ReadEmpty, At, callIO, dctxVars, placeVars
  <2> QED
      BY <1>2, <2>1 DEF RoomInv
<1>10. CASE ReadPart
  <2>1. /\ dpc = "work" /\ dpc' = "work" /\ zStage = "read" /\ zStage' = "load"
        /\ UNCHANGED <<hostageByte, frame, ret, made, delivered>>
      BY <1>10 DEF ReadPart, At, callIO, placeVars
  <2> QED
      BY <1>2, <2>1 DEF RoomInv
<1>11. CASE LoadPart
  <2>1. /\ dpc = "work" /\ dpc' = "finish" /\ zStage = "load" /\ zStage' = "load"
        /\ Consume(iAvail) /\ UNCHANGED <<hostageByte, frame, ret, made, delivered>>
      BY <1>11 DEF LoadPart, At, placeVars
  <2>2. iAvail' = 0
      BY <1>1, <2>1 DEF Consume
  <2> QED
      BY <1>2, <2>1, <2>2 DEF RoomInv
<1>12. CASE FlushOut
  <2> DEFINE n == Smaller(oRoom, outEnd - outStart)
  <2>1. /\ dpc = "work" /\ zStage = "flush" /\ made' = made + n
        /\ delivered' = delivered \o [i \in 1 .. n |-> outBuff[outStart + i - 1]]
        /\ n = outEnd - outStart => dpc' = "work" /\ zStage' = "read"
        /\ UNCHANGED <<hostageByte, frame, ret>>
      BY <1>12 DEF FlushOut, At, placeVars
  <2>2. n \in Nat /\ n = outEnd - outStart
      BY <1>1, <2>1 DEF Smaller
  <2> HIDE DEF n
  <2>3. Len(delivered') = Len(delivered) + n
    <3>1. n <= outEnd - outStart /\ zStage = "flush"
        BY <1>1, <2>1, <2>2
    <3>2. [i \in 1 .. n |-> outBuff[outStart + i - 1]] = Bytes(Len(delivered), n)
        BY <2>2, <3>1, FlushedBytes
    <3>3. delivered' = delivered \o Bytes(Len(delivered), n)
        BY <2>1, <3>2
    <3> QED
        BY <1>2, <2>2, <3>3 DEF Bytes
  <2> QED
      BY <1>1, <1>2, <2>1, <2>2, <2>3 DEF RoomInv
<1>13. CASE Finish
  <2>1. /\ dpc = "finish" /\ dpc' \in {"out", "error"} /\ frame' = frame
      BY <1>13 DEF Finish, DError, placeVars
  <2>2. Flushed /\ frame > 0 /\ (iAvail = 0 \/ expected = 0) /\ ~ hostageByte
    <3>1. zStage # "flush" /\ frame > 0 /\ (iAvail = 0 \/ expected = 0) /\ ~ hostageByte
        BY <2>1 DEF RoomInv
    <3>2. CASE zStage = "init"
        BY <2>1, <3>1, <3>2 DEF StreamInv, PlaceInv, Flushed
    <3>3. CASE zStage = "loadHeader"
        BY <2>1, <3>3 DEF StreamInv, PlaceInv
    <3>4. CASE zStage \in {"read", "load"}
        BY <3>1, <3>4 DEF StreamInv, Ring, Reading, RingInv, Flushed
    <3> QED
        BY <3>1, <3>2, <3>3, <3>4 DEF StreamInv, Typed
  <2>3. CASE dpc' = "error" /\ UNCHANGED <<ret, hostageByte>>
      BY <1>2, <2>1, <2>2, <2>3 DEF RoomInv
  <2>4. CASE dpc' = "out" /\ (FinishFrame \/ FinishWithoutHostage \/ FinishUnflushed
                             \/ FinishMiddle)
    <3>1. ~ FinishWithoutHostage /\ ~ FinishUnflushed
        BY <2>2 DEF FinishWithoutHostage, FinishUnflushed
    <3>2. hostageByte' = hostageByte /\ (ret' = 0 \/ (iAvail = 0 /\ taken' = taken))
        BY <2>2, <2>4, <3>1 DEF FinishFrame, FinishMiddle
    <3>3. ret' = 0 \/ taken' = taken + iAvail
        BY <1>1, <3>2
    <3> QED
        BY <1>2, <2>1, <2>2, <2>4, <3>2, <3>3 DEF RoomInv
  <2> QED
      BY <1>13, <2>3, <2>4 DEF Finish, DError
<1> QED
    BY <1>3, <1>4, <1>5, <1>6, <1>7, <1>8, <1>9, <1>10, <1>11, <1>12, <1>13
       DEF DecompressStream

-----------------------------------------------------------------------------
(* A caller that offers input in every call, and as much room as it likes. *)

(* A call ends because its input is used up, because its output is full,   *)
(* or at the end of a frame; a byte that is kept back waits with output,   *)
(* and no frame is begun behind the last one.                              *)
StopInv ==
    /\ frame <= Len(Frames)
    /\ dpc = "work" /\ zStage = "init" => iAvail > 0
    /\ zStage = "loadHeader" => lhSize > 0 \/ (dpc = "work" /\ iAvail > 0) \/ dpc = "error"
    /\ hostageByte => /\ dpc \in {"work", "finish"} => iAvail > 0
                      /\ dpc = "out" => zStage \in {"init", "flush"}
    /\ dpc = "finish" => zStage = "flush" \/ iAvail = 0 \/ expected = 0

(* Every step of the library keeps it, and one that returns leaves output, *)
(* returns 0 or has taken all.                                             *)
LEMMA StopStep ==
    ASSUME StreamInv, FrameInv, StopInv, DecompressStream
    PROVE  /\ StopInv'
           /\ dpc' = "out" => ret' = 0 \/ zStage' = "flush" \/ taken' = taken + iAvail
<1>1. /\ iAvail \in Nat /\ oRoom \in Nat /\ taken \in Nat /\ made \in Nat
      /\ expected \in Nat /\ lhSize \in Nat /\ outStart \in Nat /\ outEnd \in Nat
      /\ hostageByte \in BOOLEAN /\ (NeededInSize = 0 <=> expected = 0)
      /\ HeaderNeed \in Int
    BY CallTypes
<1>2. /\ frame \in Nat /\ Frames \in Streams /\ Len(Frames) \in Nat /\ Frames' = Frames
    BY TotalIs DEF StreamInv, Typed, DecompressStream
<1>3. CASE StreamInit
  <2>1. /\ dpc = "work" /\ dpc' = "work" /\ zStage = "init" /\ zStage' = "loadHeader"
        /\ hostageByte' = FALSE /\ frame' = Smaller(frame, Len(Frames)) + 1
        /\ iAvail' = iAvail
      BY <1>3 DEF StreamInit, At, callIO
  <2>2. frame < Len(Frames)
    <3>1. iAvail > 0 /\ frame \in 0 .. Len(Frames)
        BY <1>2, <2>1 DEF StopInv
    <3>2. pos + taken = UnitsThrough(frame)
      <4>1. ~ Ring
          BY <2>1 DEF Ring, Reading
      <4>2. pos + taken + 0 = UnitsThrough(frame)
          BY <2>1, <4>1 DEF FrameInv, UnitsInv, Used
      <4>3. pos \in Nat
          BY DEF StreamInv, CallInv
      <4> QED
          BY <1>1, <4>2, <4>3
    <3>3. pos + taken + iAvail <= UnitsThrough(Len(Frames))
        BY <2>1 DEF StreamInv, CallInv, Total
    <3>4. UnitsThrough(frame) \in Nat
        BY <1>2, <3>1, StreamSums
    <3>5. UnitsThrough(frame) # UnitsThrough(Len(Frames))
      <4>1. UnitsThrough(frame) + iAvail <= UnitsThrough(Len(Frames))
          BY <3>2, <3>3
      <4> QED
          BY <1>1, <3>1, <3>4, <4>1
    <3> QED
        BY <1>2, <3>1, <3>5
  <2>3. frame' = frame + 1
      BY <1>2, <2>1, <2>2 DEF Smaller
  <2> QED
      BY <1>2, <2>1, <2>2, <2>3 DEF StopInv
<1>4. CASE LoadHeader
  <2> DEFINE n == Smaller(HeaderNeed - lhSize, iAvail)
  <2>1. /\ dpc = "work" /\ zStage = "loadHeader" /\ zStage' = "loadHeader"
        /\ dpc' \in {"work", "out"} /\ Consume(n) /\ lhSize' = lhSize + n
        /\ UNCHANGED <<hostageByte, frame>>
        /\ dpc' = "out" => HeaderNeed - lhSize > iAvail
      BY <1>4 DEF LoadHeader, At, placeVars
  <2>2. dpc' = "out" => taken' = taken + iAvail
      BY <1>1, <2>1 DEF Consume, Smaller
  <2>3. HeaderNeed - lhSize \in Nat /\ HeaderNeed > 0
    <3>1. InStream => lhSize <= F.hdr /\ F.hdr \in Nat /\ MinHdr <= F.hdr
        BY <2>1, CurrentFrame DEF StreamInv, PlaceInv, FrameFields
    <3>2. ~ InStream => lhSize <= MinHdr
        BY <2>1 DEF StreamInv, PlaceInv
    <3> QED
        BY <1>1, <3>1, <3>2, SizesAre DEF HeaderNeed
  <2>4. lhSize' > 0
    <3>1. lhSize > 0 \/ iAvail > 0
        BY <2>1 DEF StopInv
    <3>2. n \in Nat /\ (iAvail > 0 /\ lhSize = 0 => n > 0)
        BY <1>1, <2>3 DEF Smaller
    <3> HIDE DEF n
    <3> QED
        BY <1>1, <2>1, <3>1, <3>2
  <2>5. ~ hostageByte
      BY <2>1 DEF StreamInv, PlaceInv
  <2> QED
      BY <1>2, <2>1, <2>2, <2>4, <2>5 DEF StopInv
<1>5. CASE BadHeader \/ DecodeError \/ RefuseWindow
  <2>1. /\ dpc' = "error" /\ UNCHANGED frame
      BY <1>5 DEF BadHeader, DecodeError, RefuseWindow, DError, dctxVars, placeVars
  <2> QED
      BY <1>2, <2>1 DEF StopInv
<1>6. CASE DecodeSinglePass
  <2>1. /\ dpc = "work" /\ zStage = "loadHeader" /\ hostageByte' = hostageByte
        /\ frame' = frame
        /\ dpc' = "error" \/ (dpc' = "finish" /\ zStage' = "init" /\ expected' = 0)
      BY <1>6 DEF DecodeSinglePass, At, DError, placeVars
  <2>2. ~ hostageByte
      BY <2>1 DEF StreamInv, PlaceInv
  <2> QED
      BY <1>2, <2>1, <2>2 DEF StopInv
<1>7. CASE ConsumeHeader
  <2>1. /\ dpc = "work" /\ dpc' = "work" /\ zStage = "loadHeader" /\ zStage' = "read"
        /\ UNCHANGED <<hostageByte, frame>>
      BY <1>7 DEF ConsumeHeader, At, callIO
  <2>2. ~ hostageByte
      BY <2>1 DEF StreamInv, PlaceInv
  <2> QED
      BY <1>2, <2>1, <2>2 DEF StopInv
<1>8. CASE ReadDirect \/ LoadWhole
  <2>1. /\ dpc = "work" /\ dpc' = "work" /\ zStage \in {"read", "load"}
        /\ zStage' \in {"read", "flush"} /\ UNCHANGED <<hostageByte, frame>>
    <3>1. ASSUME NEW n, Continue(n) PROVE zStage' \in {"read", "flush"} /\ frame' = frame
        BY <3>1 DEF Continue, DecodeBlockHeader, DecodeRaw, DecodePacked, CheckChecksum,
                    SkipFrame, Nothing, Produce
    <3>2. /\ dpc = "work" /\ dpc' = "work" /\ zStage \in {"read", "load"}
          /\ hostageByte' = hostageByte
          /\ \E n : Continue(n)
        BY <1>8 DEF ReadDirect, LoadWhole, At
    <3> QED
        BY <3>1, <3>2
  <2>2. ~ hostageByte
    <3>1. expected # 0
        BY <1>1, <1>8 DEF ReadDirect, LoadWhole, At, StreamInv, Ring, Reading, PieceInv
    <3> QED
        BY <2>1, <3>1 DEF StreamInv, Ring, Reading, PieceInv
  <2> QED
      BY <1>2, <2>1, <2>2 DEF StopInv
<1>9. CASE ReadEnd \/ ReadEmpty
  <2>1. /\ dpc = "work" /\ dpc' = "finish" /\ zStage = "read"
        /\ zStage' \in {"init", "read"}
        /\ UNCHANGED <<hostageByte, frame, iAvail, expected>>
        /\ expected = 0 \/ iAvail = 0
      BY <1>1, <1>9 DEF ReadEnd, ReadEmpty, At, callIO, dctxVars, placeVars
  <2> QED
      BY <1>2, <2>1 DEF StopInv
<1>10. CASE ReadPart
  <2>1. /\ dpc = "work" /\ dpc' = "work" /\ zStage = "read" /\ zStage' = "load"
        /\ UNCHANGED <<hostageByte, frame, iAvail>>
      BY <1>10 DEF ReadPart, At, callIO, placeVars
  <2> QED
      BY <1>2, <2>1 DEF StopInv
<1>11. CASE LoadPart
  <2>1. /\ dpc = "work" /\ dpc' = "finish" /\ zStage = "load" /\ zStage' = "load"
        /\ Consume(iAvail) /\ UNCHANGED <<hostageByte, frame>>
      BY <1>11 DEF LoadPart, At, placeVars
  <2>2. iAvail' = 0
      BY <1>1, <2>1 DEF Consume
  <2>3. ~ hostageByte
      BY <1>1, <2>1 DEF StreamInv, Ring, Reading, PieceInv
  <2> QED
      BY <1>2, <2>1, <2>2, <2>3 DEF StopInv
<1>12. CASE FlushOut
  <2>1. /\ dpc = "work" /\ zStage = "flush"
        /\ (dpc' = "work" /\ zStage' = "read") \/ (dpc' = "finish" /\ zStage' = "flush")
        /\ UNCHANGED <<hostageByte, frame, iAvail>>
      BY <1>12 DEF FlushOut, At, placeVars
  <2> QED
      BY <1>2, <2>1 DEF StopInv
<1>13. CASE Finish
  <2>1. /\ dpc = "finish" /\ dpc' \in {"out", "error"}
        /\ UNCHANGED <<frame, iAvail, lhSize, expected>>
      BY <1>13 DEF Finish, DError, placeVars
  <2>2. /\ zStage \in {"init", "read", "load", "flush"}
        /\ ~ Flushed <=> zStage = "flush"
        /\ hostageByte => iAvail > 0 /\ expected = 0
    <3>1. zStage \in {"init", "read", "load", "flush"}
        BY <2>1 DEF StreamInv, PlaceInv, Typed
    <3>2. CASE zStage = "init"
        BY <2>1, <3>2 DEF StreamInv, PlaceInv, Flushed, StopInv
    <3>3. CASE zStage \in {"read", "load"}
        BY <2>1, <3>3 DEF StreamInv, Ring, Reading, RingInv, PieceInv, Flushed, StopInv
    <3>4. CASE zStage = "flush"
        BY <2>1, <3>4 DEF StreamInv, Ring, Reading, FlushInv, PieceInv, Flushed, StopInv
    <3> QED
        BY <3>1, <3>2, <3>3, <3>4
  <2>3. CASE dpc' = "error" /\ zStage' = zStage
      BY <1>2, <2>1, <2>2, <2>3 DEF StopInv
  <2>4. CASE dpc' = "out" /\ FinishFrame
    <3>1. ret' = 0 /\ UNCHANGED <<zStage, hostageByte>> /\ expected = 0 /\ Flushed
        BY <2>4 DEF FinishFrame
    <3>2. zStage = "init"
        BY <2>1, <2>2, <3>1 DEF FrameInv, AnswerInv
    <3> QED
        BY <1>2, <2>1, <2>4, <3>1, <3>2 DEF StopInv
  <2>5. CASE dpc' = "out" /\ FinishUnflushed
    <3>1. zStage' = "flush"
        BY <2>2, <2>5 DEF FinishUnflushed
    <3> QED
        BY <1>2, <2>1, <2>5, <3>1 DEF StopInv
  <2>6. CASE dpc' = "out" /\ FinishMiddle
    <3>1. ~ hostageByte /\ hostageByte' = hostageByte /\ zStage' = zStage /\ taken' = taken
        BY <2>2, <2>6 DEF FinishMiddle
    <3>2. zStage = "flush" \/ iAvail = 0
        BY <2>1, <2>6 DEF StopInv, FinishMiddle
    <3> QED
        BY <1>1, <1>2, <2>1, <2>2, <2>6, <3>1, <3>2 DEF StopInv
  <2>7. ~ FinishWithoutHostage
      BY <1>1, <2>2 DEF FinishWithoutHostage
  <2> QED
      BY <1>13, <2>3, <2>4, <2>5, <2>6, <2>7 DEF Finish, DError
<1> QED
    BY <1>3, <1>4, <1>5, <1>6, <1>7, <1>8, <1>9, <1>10, <1>11, <1>12, <1>13
       DEF DecompressStream

(* In the middle of a frame, the units of its header have been used.       *)
LEMMA HeaderIsUsed ==
    ASSUME StreamInv, Ring
    PROVE  UnitsOfFrame \in Nat /\ F.hdr \in Nat /\ F.hdr <= UnitsOfFrame
<1>1. Frames \in Streams /\ InStream /\ Typed /\ PieceInv
    BY DEF StreamInv, PlaceInv
<1>2. /\ expected \in Nat /\ inPos \in Nat /\ Len(F.blocks) \in Nat /\ F.hdr \in Nat
      /\ FrameUnits(F) \in Nat /\ F.hdr <= FrameUnits(F)
    BY <1>1, CurrentFrame DEF Typed, FrameFields
<1>3. CASE dStage = "skipFrame"
    BY <1>2, <1>3 DEF UnitsOfFrame
<1>4. CASE dStage = "decodeBlockHeader" \/ dStage = "decompressBlock"
  <2>1. block \in 1 .. Len(F.blocks) /\ block - 1 \in 0 .. Len(F.blocks)
      BY <1>1, <1>2, <1>4 DEF PieceInv
  <2>2. UnitsBefore(block - 1) \in Nat /\ B.csize \in Nat
      BY <1>1, <2>1, FrameSumsAre, CurrentFrame DEF B, FrameFields
  <2>3. CASE dStage = "decodeBlockHeader"
    <3>1. UnitsOfFrame = F.hdr + UnitsBefore(block - 1) + inPos
        BY <2>3 DEF UnitsOfFrame
    <3> QED
        BY <1>2, <2>2, <3>1
  <2>4. CASE dStage = "decompressBlock"
    <3> DEFINE x == B.csize - expected
    <3>1. UnitsOfFrame = F.hdr + UnitsBefore(block - 1) + BlockHdr + x + inPos
        BY <2>4 DEF UnitsOfFrame
    <3>2. x \in Nat
        BY <1>1, <1>2, <2>2, <2>4 DEF PieceInv, InBlock
    <3> HIDE DEF x
    <3> QED
        BY <1>2, <2>2, <3>1, <3>2, SizesAre
  <2> QED
      BY <1>4, <2>3, <2>4
<1>5. CASE dStage = "checkChecksum"
  <2>1. UnitsBefore(Len(F.blocks)) \in Nat
      BY <1>1, <1>2, FrameSumsAre
  <2>2. UnitsOfFrame = F.hdr + UnitsBefore(Len(F.blocks)) + inPos
      BY <1>5 DEF UnitsOfFrame
  <2> QED
      BY <1>2, <2>1, <2>2
<1>6. CASE dStage = "getFrameHeaderSize"
    BY <1>2, <1>6 DEF UnitsOfFrame
<1> QED
    BY <1>1, <1>3, <1>4, <1>5, <1>6 DEF Typed

(* When such a caller's call has left a frame unfinished and no output,    *)
(* the stream cannot end where the call did.                               *)
LEMMA InsideAFrame ==
    ASSUME StreamInv, FrameInv, StopInv, dpc = "out", zStage # "init", zStage # "flush",
           NEW n \in 0 .. Len(Frames)
    PROVE  pos # UnitsThrough(n)
<1>1. /\ Frames \in Streams /\ Len(Frames) \in Nat /\ pos \in Nat /\ frame \in Nat
      /\ hostageByte \in BOOLEAN /\ zStage \in {"loadHeader", "read", "load"}
    BY TotalIs DEF StreamInv, CallInv, Typed
<1>2. frame \in 1 .. Len(Frames) /\ InStream
    BY <1>1 DEF StreamInv, PlaceInv, StopInv, InStream
<1>3. pos < UnitsThrough(frame)
    BY <1>2, BehindTheEnd
<1>4. frame - 1 \in 0 .. Len(Frames) /\ frame \in 0 .. Len(Frames)
    BY <1>1, <1>2
<1>5. /\ UnitsThrough(frame - 1) \in Nat /\ UnitsThrough(frame) \in Nat
      /\ UnitsThrough(n) \in Nat
    BY <1>1, <1>4, StreamSums
<1>6. UnitsThrough(frame - 1) < pos
  <2>1. CASE zStage = "loadHeader"
    <3>1. ~ Ring /\ lhSize \in Nat /\ lhSize > 0
        BY <2>1 DEF Ring, Reading, StopInv, StreamInv, Typed
    <3>2. pos + 0 + 0 = UnitsThrough(frame - 1) + lhSize
        BY <2>1, <3>1 DEF FrameInv, UnitsInv, Used
    <3> QED
        BY <1>1, <1>5, <3>1, <3>2
  <2>2. CASE zStage # "loadHeader"
    <3>1. Ring /\ ~ hostageByte
        BY <1>1, <2>2 DEF Ring, Reading, StopInv
    <3>2. pos + 0 + 0 = UnitsThrough(frame - 1) + UnitsOfFrame
        BY <3>1 DEF FrameInv, UnitsInv, Used
    <3>3. UnitsOfFrame \in Nat /\ F.hdr \in Nat /\ F.hdr <= UnitsOfFrame
        BY <3>1, HeaderIsUsed
    <3>4. F.hdr > 0
        BY <1>1, <1>2, <3>3, CurrentFrame, SizesAre DEF FrameFields
    <3> QED
        BY <1>1, <1>5, <3>2, <3>3, <3>4
  <2> QED
      BY <2>1, <2>2
<1>7. CASE n <= frame - 1
  <2>1. UnitsThrough(n) <= UnitsThrough(frame - 1)
      BY <1>1, <1>4, <1>7, StreamSums
  <2> QED
      BY <1>1, <1>5, <1>6, <2>1
<1>8. CASE ~ (n <= frame - 1)
  <2>1. frame <= n
      BY <1>1, <1>8
  <2>2. UnitsThrough(frame) <= UnitsThrough(n)
      BY <1>1, <1>4, <2>1, StreamSums
  <2> QED
      BY <1>1, <1>3, <1>5, <2>2
<1> QED
    BY <1>7, <1>8

=============================================================================
