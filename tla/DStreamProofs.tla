--------------------------- MODULE DStreamProofs ---------------------------
(***************************************************************************)
(* Proofs about ZSTD_decompressStream, for every stream and every caller   *)
(* of DStreamCaller: the content is delivered in order, and the window of  *)
(* a frame is intact in outBuff whenever a block may refer to it.          *)
(***************************************************************************)
EXTENDS DStreamCaller, WellFoundedInduction, SequenceTheorems, TLAPS

-----------------------------------------------------------------------------
(* Prefix sums.  The library's induction theorems take an operator as a    *)
(* parameter; the well-founded minimum of a set of numbers does not.       *)

(* A set that holds 0 and the successor of each of its members holds every *)
(* natural number.                                                         *)
LEMMA SetInduction ==
    ASSUME NEW S, 0 \in S, \A n \in Nat : n \in S => n + 1 \in S
    PROVE  Nat \subseteq S
<1> DEFINE T == Nat \ S
           R == OpToRel(<, Nat)
<1> SUFFICES ASSUME T # {} PROVE FALSE
    OBVIOUS
<1>1. IsWellFoundedOn(R, Nat)
    BY NatLessThanWellFounded
<1>2. T \subseteq Nat
    OBVIOUS
<1> HIDE DEF T, R
<1>3. PICK x \in T : \A y \in T : ~ (<<y, x>> \in R)
    BY <1>1, <1>2, WFMin
<1>4. x \in Nat /\ x \notin S
    BY DEF T
<1>5. x - 1 \in Nat /\ x - 1 < x
    BY <1>4
<1>6. x - 1 \in T
    BY <1>4, <1>5 DEF T
<1>7. <<x - 1, x>> \in R
    BY <1>4, <1>5 DEF R, OpToRel
<1> QED
    BY <1>3, <1>6, <1>7

(* The equation that defines PrefixSums, up to n.                          *)
SumsUpTo(s, g, n) == g = [k \in 0 .. n |-> IF k = 0 THEN 0 ELSE g[k - 1] + s[k]]

(* It has a solution.                                                      *)
LEMMA SumsExist ==
    ASSUME NEW s, NEW m \in Nat
    PROVE  \E g : SumsUpTo(s, g, m)
<1> DEFINE S == {n \in Nat : \E g : SumsUpTo(s, g, n)}
<1>1. 0 \in S
  <2> DEFINE g == [k \in 0 .. 0 |-> 0]
  <2>1. SumsUpTo(s, g, 0)
      BY DEF SumsUpTo
  <2> QED
      BY <2>1
<1>2. ASSUME NEW n \in Nat, n \in S PROVE n + 1 \in S
  <2>1. PICK g : g = [k \in 0 .. n |-> IF k = 0 THEN 0 ELSE g[k - 1] + s[k]]
      BY <1>2 DEF SumsUpTo
  <2> DEFINE h == [k \in 0 .. n + 1 |-> IF k = n + 1 THEN g[n] + s[n + 1] ELSE g[k]]
  <2>2. ASSUME NEW k \in 0 .. n + 1
        PROVE  h[k] = IF k = 0 THEN 0 ELSE h[k - 1] + s[k]
    <3>1. CASE k = n + 1
        BY <3>1
    <3>2. CASE k \in 0 .. n
      <4>1. h[k] = g[k]
          BY <3>2
      <4>2. g[k] = IF k = 0 THEN 0 ELSE g[k - 1] + s[k]
          BY <2>1, <3>2
      <4>3. k # 0 => h[k - 1] = g[k - 1]
          BY <3>2
      <4> QED
          BY <4>1, <4>2, <4>3
    <3> QED
        BY <3>1, <3>2
  <2>3. h = [k \in 0 .. n + 1 |-> IF k = 0 THEN 0 ELSE h[k - 1] + s[k]]
      BY <2>2
  <2> HIDE DEF h
  <2>4. SumsUpTo(s, h, n + 1)
      BY <2>3 DEF SumsUpTo
  <2> QED
      BY <2>4
<1> HIDE DEF S
<1>3. Nat \subseteq S
    BY <1>1, <1>2, SetInduction
<1> QED
    BY <1>3 DEF S

(* So PrefixSums is what its definition says.                              *)
LEMMA PrefixSumsAre ==
    ASSUME NEW s, Len(s) \in Nat
    PROVE  /\ PrefixSums(s)[0] = 0
           /\ \A k \in 1 .. Len(s) : PrefixSums(s)[k] = PrefixSums(s)[k - 1] + s[k]
<1> DEFINE Sums == CHOOSE g : SumsUpTo(s, g, Len(s))
<1>1. SumsUpTo(s, Sums, Len(s))
    BY SumsExist
<1>2. PrefixSums(s) = Sums
    BY DEF PrefixSums, SumsUpTo
<1> HIDE DEF Sums
<1>3. Sums = [k \in 0 .. Len(s) |-> IF k = 0 THEN 0 ELSE Sums[k - 1] + s[k]]
    BY <1>1 DEF SumsUpTo
<1> QED
    BY <1>2, <1>3

(* The sums of natural numbers are natural numbers.                        *)
LEMMA PrefixSumsInNat ==
    ASSUME NEW s \in Seq(Nat), NEW k \in 0 .. Len(s)
    PROVE  PrefixSums(s)[k] \in Nat
<1> DEFINE P == PrefixSums(s)
           S == {n \in Nat : n <= Len(s) => P[n] \in Nat}
<1>1. Len(s) \in Nat /\ \A n \in 1 .. Len(s) : s[n] \in Nat
    OBVIOUS
<1>2. P[0] = 0 /\ \A n \in 1 .. Len(s) : P[n] = P[n - 1] + s[n]
    BY <1>1, PrefixSumsAre
<1> HIDE DEF P
<1>3. 0 \in S
    BY <1>2
<1>4. ASSUME NEW n \in Nat, n \in S PROVE n + 1 \in S
  <2> SUFFICES ASSUME n + 1 <= Len(s) PROVE P[n + 1] \in Nat
      OBVIOUS
  <2>1. P[n] \in Nat
      BY <1>1, <1>4
  <2>2. P[n + 1] = P[n] + s[n + 1]
    <3>1. n + 1 \in 1 .. Len(s) /\ (n + 1) - 1 = n
        BY <1>1
    <3> QED
        BY <1>2, <3>1
  <2> QED
      BY <1>1, <2>1, <2>2
<1> HIDE DEF S
<1>5. Nat \subseteq S
    BY <1>3, <1>4, SetInduction
<1> QED
    BY <1>1, <1>5 DEF S, P

(* And they grow.                                                          *)
LEMMA PrefixSumsGrow ==
    ASSUME NEW s \in Seq(Nat), NEW j \in 0 .. Len(s), NEW k \in 0 .. Len(s), j <= k
    PROVE  PrefixSums(s)[j] <= PrefixSums(s)[k]
<1> DEFINE P == PrefixSums(s)
           S == {n \in Nat : j + n <= Len(s) => P[j] <= P[j + n]}
<1>1. Len(s) \in Nat /\ \A n \in 1 .. Len(s) : s[n] \in Nat
    OBVIOUS
<1>2. \A n \in 1 .. Len(s) : P[n] = P[n - 1] + s[n]
    BY <1>1, PrefixSumsAre
<1>3. \A n \in 0 .. Len(s) : P[n] \in Nat
    BY PrefixSumsInNat
<1> HIDE DEF P
<1>4. 0 \in S
    BY <1>3
<1>5. ASSUME NEW n \in Nat, n \in S PROVE n + 1 \in S
  <2> SUFFICES ASSUME j + (n + 1) <= Len(s) PROVE P[j] <= P[j + (n + 1)]
      OBVIOUS
  <2>1. P[j] <= P[j + n]
      BY <1>1, <1>5
  <2>2. P[j + (n + 1)] = P[j + n] + s[j + (n + 1)]
    <3>1. j + (n + 1) \in 1 .. Len(s) /\ (j + (n + 1)) - 1 = j + n
        BY <1>1
    <3> QED
        BY <1>2, <3>1
  <2>3. P[j] \in Nat /\ P[j + n] \in Nat /\ s[j + (n + 1)] \in Nat
      BY <1>1, <1>3
  <2> QED
      BY <2>1, <2>2, <2>3
<1> HIDE DEF S
<1>6. Nat \subseteq S
    BY <1>4, <1>5, SetInduction
<1>7. k - j \in S
    BY <1>1, <1>6
<1> QED
    BY <1>1, <1>7 DEF S, P

-----------------------------------------------------------------------------
(* The frames of a stream.                                                 *)

(* The sizes are natural numbers.                                          *)
LEMMA SizesAre ==
    /\ MinHdr \in Nat /\ MinHdr > 0 /\ BlockHdr \in Nat /\ BlockHdr > 0
    /\ ChecksumUnits \in Nat /\ ChecksumUnits > 0 /\ BlockMax \in Nat /\ BlockMax > 0
    /\ Overlength \in Nat /\ NoProgressMax \in Nat /\ TooLarge \in Nat /\ TooLong \in Nat
    /\ BlockHdr <= ChecksumUnits
BY SizesAssumption

(* The fields of a frame and of its blocks.                                *)
FrameFields(f) ==
    /\ f.hdr \in Nat /\ MinHdr <= f.hdr
    /\ f.fcs \in Nat \union {Unknown} /\ f.skip \in Nat \union {Unknown}
    /\ f.window \in Nat /\ f.window > 0
    /\ f.flaw \in {"none", "header", "window", "size", "checksum"}
    /\ Len(f.blocks) \in Nat
    /\ \A k \in 1 .. Len(f.blocks) :
          /\ f.blocks[k].csize \in Nat /\ f.blocks[k].csize <= f.window
          /\ f.blocks[k].rsize \in Nat /\ f.blocks[k].rsize <= f.window
          /\ f.blocks[k].csize <= BlockMax /\ f.blocks[k].rsize <= BlockMax
          /\ f.blocks[k].kind \in {"raw", "packed"}
          /\ f.blocks[k].kind = "raw" => f.blocks[k].rsize = f.blocks[k].csize
          /\ f.blocks[k].csize = 0 => f.blocks[k].rsize = 0

(* The frames of a stream have them.                                       *)
LEMMA FieldsAre ==
    ASSUME NEW s \in Streams, NEW n \in 1 .. Len(s)
    PROVE  FrameFields(s[n]) /\ FrameOK(s[n])
<1> DEFINE f == s[n]
<1>1. f \in FrameType /\ FrameOK(f)
    BY StreamsAssumption, FramesAssumption
<1> HIDE DEF f
<1>2. /\ f.hdr \in Nat /\ f.fcs \in Nat \union {Unknown} /\ f.window \in Nat \ {0}
      /\ f.blocks \in Seq(BlockType) /\ f.skip \in Nat \union {Unknown}
      /\ f.flaw \in {"none", "header", "window", "size", "checksum"}
    BY <1>1 DEF FrameType
<1>3. Len(f.blocks) \in Nat
    BY <1>2
<1>4. ASSUME NEW k \in 1 .. Len(f.blocks)
      PROVE  /\ f.blocks[k].csize \in Nat /\ f.blocks[k].csize <= f.window
             /\ f.blocks[k].rsize \in Nat /\ f.blocks[k].rsize <= f.window
             /\ f.blocks[k].csize <= BlockMax /\ f.blocks[k].rsize <= BlockMax
             /\ f.blocks[k].kind \in {"raw", "packed"}
             /\ f.blocks[k].kind = "raw" => f.blocks[k].rsize = f.blocks[k].csize
             /\ f.blocks[k].csize = 0 => f.blocks[k].rsize = 0
  <2> DEFINE b == f.blocks[k]
  <2>1. b \in BlockType
      BY <1>2
  <2>2. BlockOK(f, b)
      BY <1>1 DEF FrameOK
  <2> HIDE DEF b
  <2>3. b.csize \in Nat /\ b.rsize \in Nat /\ b.kind \in {"raw", "packed"}
      BY <2>1 DEF BlockType
  <2>4. /\ b.csize <= f.window /\ b.rsize <= f.window
        /\ b.csize <= BlockMax /\ b.rsize <= BlockMax
        /\ b.kind = "raw" => b.rsize = b.csize
        /\ b.csize = 0 => b.rsize = 0
      BY <1>2, <2>2, <2>3, SizesAre DEF BlockOK, Smaller
  <2> QED
      BY <2>3, <2>4 DEF b
<1>5. MinHdr <= f.hdr
    BY <1>1, <1>2, SizesAre DEF FrameOK
<1> QED
    BY <1>1, <1>2, <1>3, <1>4, <1>5 DEF FrameFields, f

(* The sums over the blocks of a frame.                                    *)
LEMMA BlockSums ==
    ASSUME NEW f, FrameFields(f)
    PROVE  /\ BlockUnits(f) \in Seq(Nat) /\ Len(BlockUnits(f)) = Len(f.blocks)
           /\ BlockBytes(f) \in Seq(Nat) /\ Len(BlockBytes(f)) = Len(f.blocks)
<1>1. Len(f.blocks) \in Nat
    BY DEF FrameFields
<1>2. \A k \in 1 .. Len(f.blocks) :
         BlockHdr + f.blocks[k].csize \in Nat /\ f.blocks[k].rsize \in Nat
    BY SizesAre DEF FrameFields
<1>3. BlockUnits(f) \in [1 .. Len(f.blocks) -> Nat]
    BY <1>2 DEF BlockUnits
<1>4. BlockBytes(f) \in [1 .. Len(f.blocks) -> Nat]
    BY <1>2 DEF BlockBytes
<1>5. BlockUnits(f) \in Seq(Nat) /\ BlockBytes(f) \in Seq(Nat)
    BY <1>1, <1>3, <1>4
<1> QED
    BY <1>1, <1>3, <1>4, <1>5

(* A frame takes at least its header; what it takes is a number.           *)
LEMMA FrameSums ==
    ASSUME NEW f, FrameFields(f)
    PROVE  FrameUnits(f) \in Nat /\ f.hdr <= FrameUnits(f) /\ FrameBytes(f) \in Nat
<1>1. Len(f.blocks) \in Nat /\ f.hdr \in Nat /\ f.skip \in Nat \union {Unknown}
    BY DEF FrameFields
<1>2. PrefixSums(BlockUnits(f))[Len(f.blocks)] \in Nat
    BY <1>1, BlockSums, PrefixSumsInNat
<1>3. PrefixSums(BlockBytes(f))[Len(f.blocks)] \in Nat
    BY <1>1, BlockSums, PrefixSumsInNat
<1>4. FrameBytes(f) \in Nat
    BY <1>3 DEF FrameBytes
<1> DEFINE c == IF f.checksum THEN ChecksumUnits ELSE 0
           u == PrefixSums(BlockUnits(f))[Len(f.blocks)]
<1>5. c \in Nat
    BY SizesAre
<1>6. FrameUnits(f) = IF f.skip # Unknown THEN f.hdr + f.skip ELSE f.hdr + u + c
    BY DEF FrameUnits
<1> HIDE DEF c, u
<1>7. u \in Nat
    BY <1>2 DEF u
<1> QED
    BY <1>1, <1>4, <1>5, <1>6, <1>7 DEF Unknown

(* The sums over the frames of the stream.                                 *)
LEMMA StreamSums ==
    ASSUME Frames \in Streams
    PROVE  /\ Len(Frames) \in Nat
           /\ UnitsThrough(0) = 0 /\ BytesThrough(0) = 0
           /\ \A n \in 0 .. Len(Frames) : UnitsThrough(n) \in Nat /\ BytesThrough(n) \in Nat
           /\ \A n \in 1 .. Len(Frames) :
                 /\ UnitsThrough(n) = UnitsThrough(n - 1) + FrameUnits(Frames[n])
                 /\ BytesThrough(n) = BytesThrough(n - 1) + FrameBytes(Frames[n])
           /\ \A m, n \in 0 .. Len(Frames) :
                 m <= n => /\ UnitsThrough(m) <= UnitsThrough(n)
                           /\ BytesThrough(m) <= BytesThrough(n)
<1> DEFINE U == [k \in 1 .. Len(Frames) |-> FrameUnits(Frames[k])]
           C == [k \in 1 .. Len(Frames) |-> FrameBytes(Frames[k])]
<1>1. Len(Frames) \in Nat
    BY StreamsAssumption
<1>2. \A k \in 1 .. Len(Frames) : FrameUnits(Frames[k]) \in Nat /\ FrameBytes(Frames[k]) \in Nat
    BY FieldsAre, FrameSums
<1>3. /\ U \in Seq(Nat) /\ C \in Seq(Nat)
      /\ Len(U) = Len(Frames) /\ Len(C) = Len(Frames)
    BY <1>1, <1>2
<1>4. \A k \in 1 .. Len(Frames) : U[k] = FrameUnits(Frames[k]) /\ C[k] = FrameBytes(Frames[k])
    OBVIOUS
<1>5. \A n : UnitsThrough(n) = PrefixSums(U)[n] /\ BytesThrough(n) = PrefixSums(C)[n]
    BY DEF UnitsThrough, BytesThrough
<1> HIDE DEF U, C
<1>6. /\ PrefixSums(U)[0] = 0
      /\ \A k \in 1 .. Len(U) : PrefixSums(U)[k] = PrefixSums(U)[k - 1] + U[k]
    BY <1>1, <1>3, PrefixSumsAre
<1>7. /\ PrefixSums(C)[0] = 0
      /\ \A k \in 1 .. Len(C) : PrefixSums(C)[k] = PrefixSums(C)[k - 1] + C[k]
    BY <1>1, <1>3, PrefixSumsAre
<1>8. \A n \in 0 .. Len(Frames) : PrefixSums(U)[n] \in Nat /\ PrefixSums(C)[n] \in Nat
    BY <1>3, PrefixSumsInNat
<1>9. \A m, n \in 0 .. Len(Frames) :
         m <= n => /\ PrefixSums(U)[m] <= PrefixSums(U)[n]
                   /\ PrefixSums(C)[m] <= PrefixSums(C)[n]
    BY <1>3, PrefixSumsGrow
<1> QED
    BY <1>1, <1>3, <1>4, <1>5, <1>6, <1>7, <1>8, <1>9

-----------------------------------------------------------------------------
(* The inductive invariant.                                                *)

(* The frame is being decoded through outBuff.  A frame that is flushed    *)
(* while its last byte is kept back is taken up again by the next call.    *)
Reading == zStage \in {"read", "load", "flush"}
Ring == Reading \/ (zStage = "init" /\ dpc = "finish" /\ hostageByte)

Typed ==
    /\ dpc \in {"out", "work", "finish", "error"}
    /\ zStage \in {"init", "loadHeader", "read", "load", "flush"}
    /\ dStage \in {"getFrameHeaderSize", "decodeBlockHeader", "decompressBlock",
                   "checkChecksum", "skipFrame"}
    /\ iAvail \in Nat /\ oRoom \in Nat /\ taken \in Nat /\ made \in Nat /\ ret \in Nat
    /\ lhSize \in Nat /\ expected \in Nat /\ inPos \in Nat
    /\ outStart \in Nat /\ outEnd \in Nat /\ noForwardProgress \in Nat
    /\ inBuffSize \in Nat /\ outBuffSize \in Nat /\ oversizedDuration \in Nat
    /\ frame \in Nat /\ frame <= Len(Frames) + 1
    /\ block \in Nat /\ decoded \in Nat /\ frameBase \in Nat
    /\ hostageByte \in BOOLEAN
Buffers ==
    /\ outBuff \in [0 .. outBuffSize - 1 -> Nat]
    /\ delivered \in Seq(Nat)

(* What the stages say about the header, the block and the piece that is   *)
(* loaded.                                                                 *)
PlaceInv ==
    /\ zStage = "init" => frame <= Len(Frames)
    /\ zStage # "init" => frame >= 1
    /\ Ring => InStream
    /\ zStage = "loadHeader" =>
          /\ dpc # "finish" /\ ~ hostageByte
          /\ inPos = 0 /\ outStart = 0 /\ outEnd = 0 /\ decoded = frameBase
          /\ IF InStream THEN lhSize <= F.hdr ELSE lhSize <= MinHdr
    /\ zStage = "init" /\ dpc = "finish" => expected = 0 /\ outStart = outEnd

PieceInv ==
    /\ dStage \in {"decodeBlockHeader", "decompressBlock"} =>
          ~ Skippable /\ block \in 1 .. Len(F.blocks)
    /\ dStage = "decodeBlockHeader" => expected = BlockHdr
    /\ InBlock => /\ expected > 0 /\ expected <= B.csize
                  /\ B.kind = "packed" => expected = B.csize
    /\ dStage = "checkChecksum" =>
          ~ Skippable /\ F.checksum /\ expected = ChecksumUnits
    /\ dStage = "skipFrame" => Skippable /\ expected = F.skip
    /\ dStage = "getFrameHeaderSize" => expected = 0
    /\ inPos = 0 \/ (zStage = "load" /\ inPos < expected)
    /\ zStage = "load" => expected > 0
    /\ hostageByte => expected = 0

(* The ring: outBuff holds the last outEnd bytes of the content from its   *)
(* start on (the current lap), and what came before up to an end E behind  *)
(* which no block was sure to fit, but for what the lap has overwritten.   *)
Small == F.fcs = Unknown \/ outBuffSize < F.fcs
FirstLap == decoded - outEnd = frameBase
LaterLap ==
    /\ Small
    /\ \E E \in 0 .. outBuffSize :
          /\ E + blockSizeMax > outBuffSize
          /\ frameBase + E <= decoded - outEnd
          /\ \A p \in DOMAIN outBuff :
                outStart + blockSizeMax + Overlength <= p /\ p < E =>
                    outBuff[p] = decoded - outEnd - E + p + 1
RingInv ==
    /\ outStart <= outEnd /\ outEnd <= outBuffSize
    /\ frameBase + outEnd <= decoded
    /\ \A p \in DOMAIN outBuff : p < outEnd => outBuff[p] = decoded - outEnd + p + 1
    /\ inBuffSize >= neededInBuffSize /\ outBuffSize >= neededOutBuffSize
    /\ FirstLap \/ LaterLap
    /\ zStage # "flush" => outStart = outEnd
    /\ Small /\ zStage # "flush" => outStart + blockSizeMax <= outBuffSize

(* What has been decoded is what has been delivered and what waits in      *)
(* outBuff; a piece that ended the frame was consumed by this call, as     *)
(* long as nothing is kept back.                                           *)
FlushInv ==
    /\ delivered = Bytes(0, Len(delivered))
    /\ decoded = Len(delivered) + (IF zStage = "flush" THEN outEnd - outStart ELSE 0)
    /\ zStage = "flush" /\ expected = 0 /\ outStart # outEnd /\ ~ hostageByte =>
          dpc # "out" /\ taken > 0
    /\ zStage = "flush" /\ dpc = "finish" => outStart # outEnd

(* The caller never offers more than there is.                             *)
CallInv ==
    /\ pos \in Nat /\ pos <= Total
    /\ dpc \in {"work", "finish"} => pos + taken + iAvail <= Total

StreamInv ==
    /\ Frames \in Streams
    /\ Typed /\ Buffers
    /\ PlaceInv
    /\ Ring => PieceInv /\ RingInv
    /\ FlushInv
    /\ CallInv

-----------------------------------------------------------------------------
(* Facts that many steps need.                                             *)

(* The frame that is read.                                                 *)
LEMMA CurrentFrame ==
    ASSUME Frames \in Streams, InStream
    PROVE  /\ FrameFields(F) /\ FrameOK(F)
           /\ FrameUnits(F) \in Nat /\ F.hdr <= FrameUnits(F) /\ FrameBytes(F) \in Nat
           /\ blockSizeMax \in Nat /\ blockSizeMax <= F.window
           /\ ~ Skippable => \A k \in 1 .. Len(F.blocks) :
                 F.blocks[k].csize <= blockSizeMax /\ F.blocks[k].rsize <= blockSizeMax
<1>1. FrameFields(F) /\ FrameOK(F)
    BY FieldsAre DEF InStream, F
<1>2. FrameUnits(F) \in Nat /\ F.hdr <= FrameUnits(F) /\ FrameBytes(F) \in Nat
    BY <1>1, FrameSums
<1>3. blockSizeMax = IF Skippable THEN 0 ELSE Smaller(F.window, BlockMax)
    BY DEF blockSizeMax
<1> DEFINE f == F
<1> HIDE DEF f
<1>4. blockSizeMax = IF Skippable THEN 0 ELSE Smaller(f.window, BlockMax)
    BY <1>3 DEF f
<1>5. FrameFields(f)
    BY <1>1 DEF f
<1>6. f.window \in Nat /\ f.window > 0
    BY <1>5 DEF FrameFields
<1>7. blockSizeMax \in Nat /\ blockSizeMax <= f.window
    BY <1>4, <1>6, SizesAre DEF Smaller
<1>8. ~ Skippable => \A k \in 1 .. Len(f.blocks) :
         f.blocks[k].csize <= blockSizeMax /\ f.blocks[k].rsize <= blockSizeMax
    BY <1>4, <1>5, <1>6, SizesAre DEF Smaller, FrameFields
<1> QED
    BY <1>1, <1>2, <1>7, <1>8 DEF f

(* The number of units of the stream.                                      *)
LEMMA TotalIs ==
    ASSUME Frames \in Streams
    PROVE  Total \in Nat /\ Len(Frames) \in Nat
BY StreamSums DEF Total

(* Less taken, and a sum that was within a bound still is.                 *)
LEMMA SumsOrder ==
    \A a, b, c, d, total \in Nat :
        a + c \in Nat /\ (a + b + d <= total /\ c <= b => a + c <= total)
OBVIOUS

(* The initial states satisfy the invariant.                               *)
LEMMA InitStreamInv ==
    ASSUME CallerInit PROVE StreamInv
<1>1. Frames \in Streams /\ Len(Frames) \in Nat /\ Total \in Nat
    BY TotalIs DEF CallerInit, DInit
<1>2. Buffers
  <2>1. outBuff = <<>> /\ outBuffSize = 0
      BY DEF CallerInit, DInit
  <2>2. 0 .. outBuffSize - 1 = {}
      BY <2>1
  <2>3. <<>> = [i \in {} |-> 0]
      OBVIOUS
  <2>4. outBuff \in [0 .. outBuffSize - 1 -> Nat]
      BY <2>1, <2>2, <2>3
  <2>5. delivered \in Seq(Nat)
      BY DEF CallerInit, DInit
  <2> QED
      BY <2>4, <2>5 DEF Buffers
<1>3. Typed
  <2>2. /\ dpc = "out" /\ zStage = "init" /\ dStage = "getFrameHeaderSize" /\ ret = 1
        /\ iAvail = 0 /\ oRoom = 0 /\ taken = 0 /\ made = 0 /\ lhSize = 0 /\ expected = 0
        /\ inPos = 0 /\ outStart = 0 /\ outEnd = 0 /\ noForwardProgress = 0
        /\ inBuffSize = 0 /\ outBuffSize = 0 /\ oversizedDuration = 0
        /\ frame = 0 /\ block = 0 /\ decoded = 0 /\ frameBase = 0 /\ hostageByte = FALSE
      BY DEF CallerInit, DInit
  <2>3. frame \in Nat /\ frame <= Len(Frames) + 1
      BY <1>1, <2>2
  <2>4. hostageByte \in BOOLEAN
      BY <2>2
  <2> QED
      BY <2>2, <2>3, <2>4 DEF Typed
<1>4. PlaceInv /\ ~ Ring
    BY <1>1 DEF CallerInit, DInit, PlaceInv, Ring, Reading
<1>5. FlushInv
  <2>1. delivered = <<>>
      BY DEF CallerInit, DInit
  <2>2. delivered = Bytes(0, Len(delivered))
      BY <2>1 DEF Bytes
  <2> QED
      BY <2>1, <2>2 DEF CallerInit, DInit, FlushInv
<1>6. CallInv
    BY <1>1 DEF CallerInit, DInit, CallInv
<1> QED
    BY <1>1, <1>2, <1>3, <1>4, <1>5, <1>6 DEF StreamInv

(* A step that leaves the ring, the buffers and the place in the stream    *)
(* alone leaves the ring correct, unless it ends a flush.                  *)
RingKept == UNCHANGED <<Frames, ringVars, sizeVars, frame, decoded, frameBase>>
LEMMA RingStays ==
    ASSUME Typed, Ring => RingInv, RingKept,
           Ring' => Ring, zStage' # "flush" => zStage # "flush"
    PROVE  Ring' => RingInv'
<1> SUFFICES ASSUME Ring' PROVE RingInv'
    OBVIOUS
<1>1. /\ outStart' = outStart /\ outEnd' = outEnd /\ outBuff' = outBuff
      /\ inBuffSize' = inBuffSize /\ outBuffSize' = outBuffSize
      /\ frame' = frame /\ decoded' = decoded /\ frameBase' = frameBase /\ Frames' = Frames
    BY DEF RingKept, ringVars, sizeVars, placeVars
<1>2. F' = F
    BY <1>1 DEF F
<1>3. blockSizeMax' = blockSizeMax
    BY <1>2 DEF blockSizeMax, Skippable
<1>4. neededInBuffSize' = neededInBuffSize /\ neededOutBuffSize' = neededOutBuffSize
    BY <1>2, <1>3 DEF neededInBuffSize, neededOutBuffSize
<1>5. Small' = Small
    BY <1>1, <1>2 DEF Small
<1>6. FirstLap' = FirstLap /\ LaterLap' = LaterLap
    BY <1>1, <1>3, <1>5 DEF FirstLap, LaterLap
<1> QED
    BY <1>1, <1>3, <1>4, <1>5, <1>6 DEF RingInv

-----------------------------------------------------------------------------
(* The steps of a call.  LibraryStep is what a step of the library does to *)
(* the caller's account of the stream.                                     *)
LibraryStep ==
    /\ UNCHANGED Frames
    /\ pos' = IF dpc' = "out" THEN pos + taken' ELSE pos

(* A new frame begins.                                                     *)
LEMMA StreamInitStep ==
    ASSUME StreamInv, StreamInit, LibraryStep PROVE StreamInv'
<1>1. Frames' \in Streams /\ Len(Frames) \in Nat /\ Total' = Total
    BY TotalIs DEF StreamInv, LibraryStep, Total, UnitsThrough
<1>2. /\ zStage = "init" /\ zStage' = "loadHeader" /\ dpc = "work" /\ dpc' = "work"
      /\ lhSize' = 0 /\ inPos' = 0 /\ outStart' = 0 /\ outEnd' = 0 /\ hostageByte' = FALSE
      /\ frame' = Smaller(frame, Len(Frames)) + 1 /\ block' = 0
      /\ frameBase' = decoded /\ decoded' = decoded /\ delivered' = delivered
      /\ iAvail' = iAvail /\ oRoom' = oRoom /\ taken' = taken /\ made' = made
      /\ ret' = ret /\ dStage' = dStage /\ expected' = expected /\ outBuff' = outBuff
      /\ noForwardProgress' = noForwardProgress /\ inBuffSize' = inBuffSize
      /\ outBuffSize' = outBuffSize /\ oversizedDuration' = oversizedDuration
      /\ Frames' = Frames /\ pos' = pos
    BY DEF StreamInit, At, callIO, sizeVars, LibraryStep
<1>3. /\ frame' \in Nat /\ frame' >= 1 /\ frame' <= Len(Frames') + 1
    BY <1>1, <1>2 DEF StreamInv, Typed, Smaller
<1>4. Typed'
    BY <1>2, <1>3 DEF StreamInv, Typed
<1>5. Buffers'
    BY <1>2 DEF StreamInv, Buffers
<1>6. PlaceInv' /\ ~ Ring'
  <2>1. InStream' => F'.hdr \in Nat
      BY <1>1, FieldsAre DEF InStream, F, FrameFields
  <2>2. IF InStream' THEN 0 <= F'.hdr ELSE 0 <= MinHdr
      BY <2>1, SizesAre
  <2> QED
      BY <1>2, <1>3, <2>2 DEF PlaceInv, Ring, Reading
<1>7. FlushInv'
    BY <1>2 DEF StreamInv, FlushInv, Typed, Bytes
<1>8. CallInv'
    BY <1>1, <1>2 DEF StreamInv, CallInv
<1> QED
    BY <1>1, <1>4, <1>5, <1>6, <1>7, <1>8 DEF StreamInv

(* Units of a header are loaded, or the call returns for want of them.     *)
LEMMA LoadHeaderStep ==
    ASSUME StreamInv, LoadHeader, LibraryStep PROVE StreamInv'
<1> USE DEF LoadHeader, At, Consume
<1>1. Frames' \in Streams /\ Len(Frames) \in Nat /\ Total \in Nat /\ Total' = Total
    BY TotalIs DEF StreamInv, LibraryStep, Total, UnitsThrough
<1>2. /\ zStage = "loadHeader" /\ zStage' = "loadHeader" /\ dpc = "work"
      /\ frame' = frame /\ block' = block /\ decoded' = decoded /\ frameBase' = frameBase
      /\ outStart' = outStart /\ outEnd' = outEnd /\ outBuff' = outBuff
      /\ inBuffSize' = inBuffSize /\ outBuffSize' = outBuffSize
      /\ oversizedDuration' = oversizedDuration
    BY DEF placeVars, ringVars, sizeVars
<1>3. F' = F /\ InStream' = InStream
    BY <1>2 DEF F, InStream, LibraryStep
<1>4. HeaderNeed \in Nat /\ lhSize <= HeaderNeed /\ HeaderNeed - lhSize \in Nat
      /\ HeaderNeed = (IF ~ InStream \/ lhSize < MinHdr THEN MinHdr ELSE F.hdr)
  <2>1. CASE InStream
    <3>1. F.hdr \in Nat /\ MinHdr <= F.hdr
        BY <2>1, CurrentFrame DEF StreamInv, FrameFields
    <3> QED
        BY <2>1, <3>1, <1>2, SizesAre DEF StreamInv, Typed, PlaceInv, HeaderNeed
  <2>2. CASE ~ InStream
      BY <2>2, <1>2, SizesAre DEF StreamInv, Typed, PlaceInv, HeaderNeed
  <2> QED
      BY <2>1, <2>2
<1> DEFINE loads == Smaller(HeaderNeed - lhSize, iAvail)
<1>5. loads \in Nat /\ loads <= iAvail /\ loads <= HeaderNeed - lhSize /\ iAvail \in Nat
      /\ lhSize \in Nat /\ taken \in Nat
    BY <1>4 DEF StreamInv, Typed, Smaller
<1>6. /\ iAvail' = iAvail - loads /\ taken' = taken + loads /\ lhSize' = lhSize + loads
      /\ HeaderNeed - lhSize > iAvail => /\ dpc' = "out" /\ loads = iAvail
                                         /\ ret' = Larger(MinHdr, HeaderNeed) - lhSize' + BlockHdr
      /\ ~ (HeaderNeed - lhSize > iAvail) => dpc' = dpc /\ ret' = ret
    BY <1>4, <1>5 DEF Smaller
<1> HIDE DEF loads
<1>7. ret' \in Nat
  <2>1. CASE HeaderNeed - lhSize > iAvail
    <3>1. lhSize' \in Nat /\ lhSize' <= HeaderNeed
        BY <1>4, <1>5, <1>6
    <3>2. Larger(MinHdr, HeaderNeed) \in Nat /\ HeaderNeed <= Larger(MinHdr, HeaderNeed)
        BY <1>4, SizesAre DEF Larger
    <3>3. ret' = Larger(MinHdr, HeaderNeed) - lhSize' + BlockHdr
        BY <1>6, <2>1
    <3> QED
        BY <1>4, <3>1, <3>2, <3>3, SizesAre
  <2>2. CASE ~ (HeaderNeed - lhSize > iAvail)
      BY <1>6, <2>2 DEF StreamInv, Typed
  <2> QED
      BY <2>1, <2>2
<1>8. Typed'
    BY <1>1, <1>2, <1>5, <1>6, <1>7 DEF StreamInv, Typed, LibraryStep
<1>9. Buffers'
    BY <1>2 DEF StreamInv, Buffers
<1>10. PlaceInv' /\ ~ Ring'
  <2>1. InStream => F.hdr \in Nat /\ MinHdr <= F.hdr
      BY CurrentFrame DEF StreamInv, FrameFields
  <2>2. IF InStream THEN lhSize' <= F.hdr ELSE lhSize' <= MinHdr
      BY <1>4, <1>5, <1>6, <2>1, SizesAre
  <2>3. dpc' # "finish"
      BY <1>2, <1>6
  <2> QED
      BY <1>2, <1>3, <2>2, <2>3 DEF StreamInv, PlaceInv, Ring, Reading
<1>11. FlushInv'
    BY <1>2 DEF StreamInv, FlushInv, Bytes
<1>12. CallInv'
    BY <1>1, <1>2, <1>5, <1>6 DEF StreamInv, CallInv, LibraryStep
<1> QED
    BY <1>1, <1>8, <1>9, <1>10, <1>11, <1>12 DEF StreamInv

(* The call ends, or fails, and nothing else changes.                      *)
LEMMA OnlyEnds ==
    ASSUME StreamInv, LibraryStep, dpc = "work",
           dpc' = "error" \/ (dpc' = "finish" /\ zStage = "read"),
           UNCHANGED <<callIO, ret, dctxVars, delivered>>
    PROVE  StreamInv'
<1>1. Frames' \in Streams /\ Total' = Total
    BY DEF StreamInv, LibraryStep, Total, UnitsThrough
<1>2. /\ zStage' = zStage /\ lhSize' = lhSize /\ inPos' = inPos /\ outStart' = outStart
      /\ outEnd' = outEnd /\ hostageByte' = hostageByte /\ frame' = frame /\ block' = block
      /\ frameBase' = frameBase /\ decoded' = decoded /\ delivered' = delivered
      /\ iAvail' = iAvail /\ oRoom' = oRoom /\ taken' = taken /\ made' = made
      /\ ret' = ret /\ dStage' = dStage /\ expected' = expected /\ outBuff' = outBuff
      /\ noForwardProgress' = noForwardProgress /\ inBuffSize' = inBuffSize
      /\ outBuffSize' = outBuffSize /\ oversizedDuration' = oversizedDuration
      /\ Frames' = Frames /\ pos' = pos
    BY DEF callIO, dctxVars, ringVars, sizeVars, placeVars, LibraryStep
<1>3. F' = F /\ InStream' = InStream /\ B' = B /\ (Skippable <=> Skippable') /\ InBlock' = InBlock
    BY <1>2 DEF F, InStream, B, Skippable, InBlock
<1>4. Typed'
    BY <1>2 DEF StreamInv, Typed
<1>5. Buffers'
    BY <1>2 DEF StreamInv, Buffers
<1>6. Ring' => Ring
    BY <1>2 DEF Ring, Reading
<1>7. PlaceInv'
    BY <1>2, <1>3, <1>6 DEF StreamInv, PlaceInv
<1>8. Ring' => PieceInv'
    BY <1>2, <1>3, <1>6 DEF StreamInv, PieceInv
<1>9. Ring' => RingInv'
  <2>1. RingKept
      BY <1>2 DEF RingKept, ringVars, sizeVars, placeVars
  <2> QED
      BY <1>2, <1>6, <2>1, RingStays DEF StreamInv
<1>10. FlushInv'
    BY <1>2 DEF StreamInv, FlushInv, Bytes
<1>11. CallInv'
    BY <1>1, <1>2 DEF StreamInv, CallInv
<1> QED
    BY <1>1, <1>4, <1>5, <1>7, <1>8, <1>9, <1>10, <1>11 DEF StreamInv

(* A header that is not one, a piece that is damaged, no input.            *)
LEMMA OnlyEndSteps ==
    ASSUME StreamInv, LibraryStep, BadHeader \/ DecodeError \/ ReadEmpty
    PROVE  StreamInv'
<1>1. CASE BadHeader
    BY <1>1, OnlyEnds DEF BadHeader, At, DError
<1>2. CASE DecodeError
    BY <1>2, OnlyEnds DEF DecodeError, At, DError
<1>3. CASE ReadEmpty
    BY <1>3, OnlyEnds DEF ReadEmpty, At
<1> QED
    BY <1>1, <1>2, <1>3

(* A window that is too large.                                             *)
LEMMA RefuseWindowStep ==
    ASSUME StreamInv, RefuseWindow, LibraryStep PROVE StreamInv'
<1>1. Frames' \in Streams /\ Total' = Total
    BY DEF StreamInv, LibraryStep, Total, UnitsThrough
<1>2. /\ zStage = "loadHeader" /\ zStage' = "loadHeader" /\ dpc = "work" /\ dpc' = "error"
      /\ expected' = BlockHdr /\ dStage' = "decodeBlockHeader"
      /\ lhSize' = lhSize /\ inPos' = inPos /\ outStart' = outStart
      /\ outEnd' = outEnd /\ hostageByte' = hostageByte /\ frame' = frame /\ block' = block
      /\ frameBase' = frameBase /\ decoded' = decoded /\ delivered' = delivered
      /\ iAvail' = iAvail /\ oRoom' = oRoom /\ taken' = taken /\ made' = made
      /\ ret' = ret /\ outBuff' = outBuff
      /\ noForwardProgress' = noForwardProgress /\ inBuffSize' = inBuffSize
      /\ outBuffSize' = outBuffSize /\ oversizedDuration' = oversizedDuration
      /\ Frames' = Frames /\ pos' = pos
    BY DEF RefuseWindow, At, DError, callIO, ringVars, sizeVars, placeVars, LibraryStep
<1>3. F' = F /\ InStream' = InStream
    BY <1>2 DEF F, InStream
<1>4. Typed'
    BY <1>2, SizesAre DEF StreamInv, Typed
<1>5. Buffers'
    BY <1>2 DEF StreamInv, Buffers
<1>6. PlaceInv' /\ ~ Ring'
    BY <1>2, <1>3 DEF StreamInv, PlaceInv, Ring, Reading
<1>7. FlushInv'
    BY <1>2 DEF StreamInv, FlushInv, Bytes
<1>8. CallInv'
    BY <1>1, <1>2 DEF StreamInv, CallInv
<1> QED
    BY <1>1, <1>4, <1>5, <1>6, <1>7, <1>8 DEF StreamInv

(* A frame is over; a piece is incomplete.                                 *)
LEMMA ReadTurns ==
    ASSUME StreamInv, LibraryStep, ReadEnd \/ ReadPart PROVE StreamInv'
<1>1. Frames' \in Streams /\ Total' = Total
    BY DEF StreamInv, LibraryStep, Total, UnitsThrough
<1>2. /\ zStage = "read" /\ dpc = "work"
      /\ \/ zStage' = "init" /\ dpc' = "finish" /\ NeededInSize = 0
         \/ zStage' = "load" /\ dpc' = "work" /\ iAvail > 0 /\ iAvail < NeededInSize
      /\ lhSize' = lhSize /\ inPos' = inPos /\ outStart' = outStart
      /\ outEnd' = outEnd /\ hostageByte' = hostageByte /\ frame' = frame /\ block' = block
      /\ frameBase' = frameBase /\ decoded' = decoded /\ delivered' = delivered
      /\ iAvail' = iAvail /\ oRoom' = oRoom /\ taken' = taken /\ made' = made
      /\ ret' = ret /\ dStage' = dStage /\ expected' = expected /\ outBuff' = outBuff
      /\ noForwardProgress' = noForwardProgress /\ inBuffSize' = inBuffSize
      /\ outBuffSize' = outBuffSize /\ oversizedDuration' = oversizedDuration
      /\ Frames' = Frames /\ pos' = pos
    BY DEF ReadEnd, ReadPart, At, callIO, ringVars, sizeVars, placeVars, LibraryStep
<1>3. F' = F /\ InStream' = InStream /\ B' = B /\ (Skippable <=> Skippable') /\ InBlock' = InBlock
    BY <1>2 DEF F, InStream, B, Skippable, InBlock
<1>4. Typed'
    BY <1>2 DEF StreamInv, Typed
<1>5. Buffers'
    BY <1>2 DEF StreamInv, Buffers
<1>6. Ring /\ InStream /\ inPos = 0 /\ PieceInv
    BY <1>2 DEF StreamInv, Ring, Reading, PlaceInv, PieceInv
<1>7. /\ NeededInSize = 0 => expected = 0
      /\ NeededInSize > iAvail => expected > 0
  <2>1. expected \in Nat /\ iAvail \in Nat
      BY DEF StreamInv, Typed
  <2> QED
      BY <2>1 DEF NeededInSize, Larger, Smaller
<1>8. PlaceInv'
  <2>1. frame <= Len(Frames) /\ frame >= 1
      BY <1>6, TotalIs DEF StreamInv, Typed, InStream
  <2> QED
      BY <1>2, <1>3, <1>6, <1>7, <2>1 DEF StreamInv, PlaceInv, RingInv
<1>9. Ring' => PieceInv'
  <2>1. inPos = 0 /\ (zStage' = "load" => expected > 0)
      BY <1>2, <1>6, <1>7 DEF StreamInv, Typed
  <2>2. hostageByte => expected = 0
      BY <1>6 DEF PieceInv
  <2> QED
      BY <1>2, <1>3, <1>6, <2>1, <2>2 DEF PieceInv
<1>10. Ring' => RingInv'
  <2>1. RingKept
      BY <1>2 DEF RingKept, ringVars, sizeVars, placeVars
  <2> QED
      BY <1>2, <1>6, <2>1, RingStays DEF StreamInv
<1>11. FlushInv'
    BY <1>2 DEF StreamInv, FlushInv, Bytes
<1>12. CallInv'
    BY <1>1, <1>2 DEF StreamInv, CallInv
<1> QED
    BY <1>1, <1>4, <1>5, <1>8, <1>9, <1>10, <1>11, <1>12 DEF StreamInv

(* A part of a piece is loaded into inBuff.                                *)
LEMMA LoadPartStep ==
    ASSUME StreamInv, LoadPart, LibraryStep PROVE StreamInv'
<1>1. Frames' \in Streams /\ Total \in Nat /\ Total' = Total
    BY TotalIs DEF StreamInv, LibraryStep, Total, UnitsThrough
<1>2. /\ zStage = "load" /\ zStage' = "load" /\ dpc = "work" /\ dpc' = "finish"
      /\ iAvail < expected - inPos
      /\ iAvail' = iAvail - iAvail /\ taken' = taken + iAvail /\ inPos' = inPos + iAvail
      /\ lhSize' = lhSize /\ outStart' = outStart
      /\ outEnd' = outEnd /\ hostageByte' = hostageByte /\ frame' = frame /\ block' = block
      /\ frameBase' = frameBase /\ decoded' = decoded /\ delivered' = delivered
      /\ oRoom' = oRoom /\ made' = made
      /\ ret' = ret /\ dStage' = dStage /\ expected' = expected /\ outBuff' = outBuff
      /\ noForwardProgress' = noForwardProgress /\ inBuffSize' = inBuffSize
      /\ outBuffSize' = outBuffSize /\ oversizedDuration' = oversizedDuration
      /\ Frames' = Frames /\ pos' = pos
    BY DEF LoadPart, ToLoadIn, Consume, At, ringVars, sizeVars, placeVars, LibraryStep
<1>3. F' = F /\ InStream' = InStream /\ B' = B /\ (Skippable <=> Skippable') /\ InBlock' = InBlock
    BY <1>2 DEF F, InStream, B, Skippable, InBlock
<1>4. /\ iAvail \in Nat /\ taken \in Nat /\ inPos \in Nat /\ expected \in Nat
      /\ iAvail' = 0 /\ taken' \in Nat /\ inPos' \in Nat /\ inPos' < expected
    BY <1>2 DEF StreamInv, Typed
<1>5. Typed'
    BY <1>2, <1>4 DEF StreamInv, Typed
<1>6. Buffers'
    BY <1>2 DEF StreamInv, Buffers
<1>7. Ring /\ PieceInv
    BY <1>2 DEF StreamInv, Ring, Reading
<1>8. PlaceInv'
    BY <1>2, <1>3, <1>7 DEF StreamInv, PlaceInv, Ring, Reading
<1>9. PieceInv'
    BY <1>2, <1>3, <1>4, <1>7 DEF PieceInv
<1>10. Ring' => RingInv'
  <2>1. RingKept
      BY <1>2 DEF RingKept, ringVars, sizeVars, placeVars
  <2> QED
      BY <1>2, <1>7, <2>1, RingStays DEF StreamInv
<1>11. FlushInv'
    BY <1>2 DEF StreamInv, FlushInv, Bytes
<1>12. CallInv'
    BY <1>1, <1>2, <1>4 DEF StreamInv, CallInv
<1> QED
    BY <1>1, <1>5, <1>6, <1>8, <1>9, <1>10, <1>11, <1>12 DEF StreamInv

(* The numbers that follow one another.                                    *)
LEMMA BytesFollow ==
    ASSUME NEW from \in Nat, NEW n \in Nat, NEW s, s = Bytes(0, from)
    PROVE  s \o Bytes(from, n) = Bytes(0, from + n) /\ Len(s) = from /\ Len(s \o Bytes(from, n)) = from + n
<1> QED
    BY DEF Bytes

(* A whole frame is decoded in one pass.                                   *)
LEMMA SinglePassStep ==
    ASSUME StreamInv, DecodeSinglePass, LibraryStep PROVE StreamInv'
<1>1. Frames' \in Streams /\ Total \in Nat /\ Total' = Total
    BY TotalIs DEF StreamInv, LibraryStep, Total, UnitsThrough
<1>2. /\ zStage = "loadHeader" /\ dpc = "work" /\ SinglePass
      /\ lhSize' = lhSize /\ inPos' = inPos /\ outStart' = outStart
      /\ outEnd' = outEnd /\ hostageByte' = hostageByte /\ frame' = frame /\ block' = block
      /\ frameBase' = frameBase /\ ret' = ret /\ dStage' = dStage /\ outBuff' = outBuff
      /\ noForwardProgress' = noForwardProgress /\ inBuffSize' = inBuffSize
      /\ outBuffSize' = outBuffSize /\ oversizedDuration' = oversizedDuration
      /\ Frames' = Frames
    BY DEF DecodeSinglePass, At, ringVars, sizeVars, placeVars, LibraryStep
<1>3. CASE F.flaw \in {"size", "checksum"}
  <2>1. /\ dpc' = "error" /\ zStage' = zStage /\ expected' = expected /\ decoded' = decoded
        /\ iAvail' = iAvail /\ oRoom' = oRoom /\ taken' = taken /\ made' = made
        /\ delivered' = delivered /\ pos' = pos
      BY <1>3 DEF DecodeSinglePass, DError, callIO, placeVars, LibraryStep
  <2>2. UNCHANGED <<callIO, ret, dctxVars, delivered>>
      BY <1>2, <2>1 DEF callIO, dctxVars, ringVars, sizeVars, placeVars
  <2> QED
      BY <1>2, <2>1, <2>2, OnlyEnds
<1>4. CASE ~ (F.flaw \in {"size", "checksum"})
  <2> DEFINE n == FrameBytes(F)
             u == FrameUnits(F)
  <2>1. /\ dpc' = "finish" /\ zStage' = "init" /\ expected' = 0 /\ decoded' = decoded + n
        /\ iAvail' = iAvail - (u - taken) /\ taken' = taken + (u - taken)
        /\ oRoom' = oRoom - n /\ made' = made + n
        /\ delivered' = delivered \o Bytes(decoded, n) /\ pos' = pos
      BY <1>4 DEF DecodeSinglePass, Consume, LibraryStep
  <2>2. InStream /\ ~ Skippable /\ F.fcs # Unknown /\ oRoom >= F.fcs /\ u <= taken + iAvail
        /\ F.hdr <= u /\ lhSize = taken
      BY <1>2, CurrentFrame DEF StreamInv, SinglePass, HeaderKnown
  <2>3. u \in Nat /\ n \in Nat /\ FrameOK(F) /\ lhSize <= F.hdr /\ F.hdr \in Nat
      BY <1>2, <2>2, CurrentFrame DEF StreamInv, PlaceInv, FrameFields
  <2>4. n = F.fcs
      BY <1>4, <2>2, <2>3 DEF FrameOK, Skippable
  <2> HIDE DEF n, u
  <2>5. /\ iAvail \in Nat /\ taken \in Nat /\ oRoom \in Nat /\ made \in Nat /\ decoded \in Nat
        /\ pos \in Nat
      BY DEF StreamInv, Typed, CallInv
  <2>6. /\ iAvail' \in Nat /\ taken' = u /\ oRoom' \in Nat /\ made' \in Nat /\ decoded' \in Nat
        /\ iAvail' = taken + iAvail - u
    <3>1. u >= taken /\ u <= taken + iAvail /\ n <= oRoom
        BY <2>2, <2>3, <2>4, <2>5
    <3>2. iAvail - (u - taken) \in Nat /\ iAvail - (u - taken) = taken + iAvail - u
        BY <2>3, <2>5, <3>1
    <3>3. taken + (u - taken) = u
        BY <2>3, <2>5
    <3>4. oRoom - n \in Nat /\ made + n \in Nat /\ decoded + n \in Nat
        BY <2>3, <2>5, <3>1
    <3> QED
        BY <2>1, <2>3, <3>2, <3>3, <3>4
  <2>7. Typed'
      BY <1>2, <2>1, <2>3, <2>6 DEF StreamInv, Typed
  <2>8. delivered = Bytes(0, decoded)
    <3>1. decoded = Len(delivered) + 0 /\ delivered = Bytes(0, Len(delivered)) /\ delivered \in Seq(Nat)
        BY <1>2 DEF StreamInv, FlushInv, Buffers
    <3> QED
        BY <3>1
  <2>9. delivered' = Bytes(0, decoded') /\ Len(delivered') = decoded'
      BY <2>1, <2>3, <2>5, <2>8, BytesFollow
  <2>10. Buffers'
    <3>1. delivered' \in Seq(Nat)
        BY <2>6, <2>9 DEF Bytes
    <3> QED
        BY <1>2, <3>1 DEF StreamInv, Buffers
  <2>11. frame' <= Len(Frames') /\ ~ hostageByte'
    <3>1. frame <= Len(Frames)
        BY <2>2, TotalIs DEF StreamInv, Typed, InStream
    <3> QED
        BY <1>2, <3>1 DEF StreamInv, PlaceInv
  <2>12. PlaceInv' /\ ~ Ring'
      BY <1>2, <2>1, <2>11 DEF StreamInv, PlaceInv, Ring, Reading
  <2>13. FlushInv'
      BY <2>1, <2>6, <2>9 DEF FlushInv
  <2>14. CallInv'
    <3>1. pos + taken + iAvail <= Total
        BY <1>2 DEF StreamInv, CallInv
    <3>2. pos + u + (taken + iAvail - u) = pos + taken + iAvail
        BY <2>3, <2>5
    <3>3. pos + taken' + iAvail' <= Total
        BY <2>6, <3>1, <3>2
    <3> QED
        BY <1>1, <2>1, <3>3 DEF StreamInv, CallInv
  <2> QED
      BY <1>1, <2>7, <2>10, <2>12, <2>13, <2>14 DEF StreamInv
<1> QED
    BY <1>3, <1>4

(* The buffers that a frame needs.                                         *)
LEMMA NeededSizes ==
    ASSUME Frames \in Streams, InStream
    PROVE  /\ neededInBuffSize \in Nat /\ blockSizeMax <= neededInBuffSize
           /\ ChecksumUnits <= neededInBuffSize
           /\ neededOutBuffSize \in Nat
           /\ \A size \in Nat : size >= neededOutBuffSize /\ (F.fcs = Unknown \/ size < F.fcs) =>
                 size >= F.window + 2 * blockSizeMax + 2 * Overlength
<1>1. blockSizeMax \in Nat /\ F.window \in Nat /\ F.fcs \in Nat \union {Unknown}
    BY CurrentFrame DEF FrameFields
<1>2. neededInBuffSize \in Nat /\ blockSizeMax <= neededInBuffSize /\ ChecksumUnits <= neededInBuffSize
    BY <1>1, SizesAre DEF neededInBuffSize, Larger
<1> DEFINE ring == F.window + 2 * blockSizeMax + 2 * Overlength
<1>3. ring \in Nat
    BY <1>1, SizesAre
<1>4. neededOutBuffSize = IF F.fcs = Unknown THEN ring ELSE Smaller(F.fcs, ring)
    BY DEF neededOutBuffSize
<1> HIDE DEF ring
<1>5. neededOutBuffSize \in Nat
    BY <1>1, <1>3, <1>4 DEF Smaller, Unknown
<1>6. \A size \in Nat : size >= neededOutBuffSize /\ (F.fcs = Unknown \/ size < F.fcs) => size >= ring
    BY <1>1, <1>3, <1>4 DEF Smaller, Unknown
<1> QED
    BY <1>2, <1>5, <1>6 DEF ring

(* The header is complete: the frame begins with an empty ring.            *)
LEMMA ConsumeHeaderStep ==
    ASSUME StreamInv, ConsumeHeader, LibraryStep PROVE StreamInv'
<1>1. Frames' \in Streams /\ Frames \in Streams /\ Total' = Total
    BY DEF StreamInv, LibraryStep, Total, UnitsThrough
<1>2. /\ zStage = "loadHeader" /\ zStage' = "read" /\ dpc = "work" /\ dpc' = "work" /\ InStream
      /\ block' = 1 /\ oversizedDuration' = Duration
      /\ lhSize' = lhSize /\ inPos' = inPos /\ outStart' = outStart
      /\ outEnd' = outEnd /\ hostageByte' = hostageByte /\ frame' = frame
      /\ frameBase' = frameBase /\ decoded' = decoded /\ delivered' = delivered
      /\ iAvail' = iAvail /\ oRoom' = oRoom /\ taken' = taken /\ made' = made
      /\ ret' = ret /\ noForwardProgress' = noForwardProgress
      /\ Frames' = Frames /\ pos' = pos
      /\ IF Skippable
         THEN expected' = F.skip /\ dStage' = "skipFrame"
         ELSE expected' = BlockHdr /\ dStage' = "decodeBlockHeader"
    BY DEF ConsumeHeader, At, HeaderKnown, callIO, LibraryStep
<1>3. \/ /\ inBuffSize' = neededInBuffSize /\ outBuffSize' = neededOutBuffSize
         /\ outBuff' = [p \in 0 .. neededOutBuffSize - 1 |-> 0]
      \/ /\ inBuffSize' = inBuffSize /\ outBuffSize' = outBuffSize /\ outBuff' = outBuff
         /\ inBuffSize >= neededInBuffSize /\ outBuffSize >= neededOutBuffSize
  <2>1. inBuffSize \in Nat /\ outBuffSize \in Nat
      BY DEF StreamInv, Typed
  <2> QED
      BY <1>1, <1>2, <2>1, NeededSizes DEF ConsumeHeader
<1>4. F' = F /\ InStream' = InStream /\ (Skippable <=> Skippable')
    BY <1>2 DEF F, InStream, Skippable
<1>5. /\ inPos = 0 /\ outStart = 0 /\ outEnd = 0 /\ decoded = frameBase /\ ~ hostageByte
      /\ frame >= 1
    BY <1>2 DEF StreamInv, PlaceInv
<1>6. Duration \in Nat
    BY DEF StreamInv, Typed, Duration
<1>7. F.skip \in Nat \union {Unknown} /\ FrameOK(F)
    BY <1>1, <1>2, CurrentFrame DEF FrameFields
<1>8. expected' \in Nat /\ dStage' \in {"skipFrame", "decodeBlockHeader"}
    BY <1>2, <1>7, SizesAre DEF Skippable
<1>9. inBuffSize' \in Nat /\ outBuffSize' \in Nat
    BY <1>1, <1>2, <1>3, NeededSizes DEF StreamInv, Typed
<1>10. Typed'
    BY <1>2, <1>6, <1>8, <1>9 DEF StreamInv, Typed
<1>11. Buffers'
    BY <1>2, <1>3 DEF StreamInv, Buffers
<1>12. PlaceInv'
    BY <1>2, <1>4, <1>5 DEF PlaceInv
<1>13. PieceInv'
  <2>1. ~ Skippable => 1 \in 1 .. Len(F.blocks)
    <3>1. ~ Skippable => F.blocks # <<>>
        BY <1>7 DEF FrameOK, Skippable
    <3>2. F.blocks \in Seq(BlockType)
      <4>1. Frames \in Seq(FrameType) /\ frame \in 1 .. Len(Frames)
          BY <1>1, <1>2, StreamsAssumption DEF InStream
      <4>2. F \in FrameType
          BY <4>1 DEF F
      <4> QED
          BY <4>2 DEF FrameType
    <3> QED
        BY <3>1, <3>2
  <2> QED
      BY <1>2, <1>4, <1>5, <2>1 DEF PieceInv, InBlock
<1>14. RingInv'
  <2>1. blockSizeMax' = blockSizeMax /\ neededInBuffSize' = neededInBuffSize
        /\ neededOutBuffSize' = neededOutBuffSize
      BY <1>4 DEF blockSizeMax, neededInBuffSize, neededOutBuffSize, Skippable
  <2>2. inBuffSize' >= neededInBuffSize' /\ outBuffSize' >= neededOutBuffSize'
      BY <1>1, <1>2, <1>3, <2>1, NeededSizes
  <2>3. FirstLap'
      BY <1>2, <1>5 DEF FirstLap, StreamInv, Typed
  <2>4. blockSizeMax \in Nat /\ F.window \in Nat
      BY <1>1, <1>2, CurrentFrame DEF FrameFields
  <2>5. Small' => blockSizeMax <= outBuffSize'
    <3>1. Small' => outBuffSize' >= F.window + 2 * blockSizeMax + 2 * Overlength
        BY <1>1, <1>2, <1>4, <1>9, <2>1, <2>2, NeededSizes DEF Small
    <3> QED
        BY <1>9, <2>4, <3>1, SizesAre
  <2>6. \A p \in DOMAIN outBuff' : ~ (p < outEnd')
      BY <1>2, <1>5, <1>11 DEF Buffers
  <2> QED
      BY <1>2, <1>5, <1>9, <2>1, <2>2, <2>3, <2>4, <2>5, <2>6 DEF RingInv, StreamInv, Typed
<1>15. FlushInv'
    BY <1>2 DEF StreamInv, FlushInv, Bytes
<1>16. CallInv'
    BY <1>1, <1>2 DEF StreamInv, CallInv
<1> QED
    BY <1>1, <1>10, <1>11, <1>12, <1>13, <1>14, <1>15, <1>16 DEF StreamInv

-----------------------------------------------------------------------------
(* A piece is decoded.                                                     *)

(* What is known when a block's content goes to outBuff: it fits.          *)
Fits(r) == r \in Nat /\ r <= blockSizeMax /\ outStart + r <= outBuffSize

(* Its content is a part of the current lap.                               *)
LEMMA ProduceRing ==
    ASSUME Frames \in Streams, InStream, Typed, Buffers, RingInv, outStart = outEnd,
           NEW r, NEW scribbles \in BOOLEAN, Fits(r), Produce(r, scribbles),
           UNCHANGED <<Frames, sizeVars>>, zStage # "flush"
    PROVE  RingInv' /\ outBuff' \in [0 .. outBuffSize' - 1 -> Nat] /\ outEnd' = outStart + r
<1>1. /\ outStart' = outStart /\ frame' = frame /\ frameBase' = frameBase /\ Frames' = Frames
      /\ inBuffSize' = inBuffSize /\ outBuffSize' = outBuffSize /\ decoded' = decoded + r
      /\ outEnd' = (IF r = 0 THEN outEnd ELSE outStart + r)
      /\ zStage' = (IF r = 0 THEN "read" ELSE "flush")
    BY DEF Produce, sizeVars
<1>2. /\ outStart \in Nat /\ outEnd \in Nat /\ decoded \in Nat /\ frameBase \in Nat
      /\ outBuffSize \in Nat /\ inBuffSize \in Nat /\ r \in Nat
    BY DEF Typed, Fits
<1>3. outEnd' = outStart + r
    BY <1>1, <1>2
<1>4. blockSizeMax \in Nat /\ r <= blockSizeMax /\ outStart + r <= outBuffSize
      /\ Overlength \in Nat
    BY CurrentFrame, SizesAre DEF Fits
<1>5. F' = F
    BY <1>1 DEF F
<1>6. blockSizeMax' = blockSizeMax
    BY <1>5 DEF blockSizeMax, Skippable
<1>7. neededInBuffSize' = neededInBuffSize /\ neededOutBuffSize' = neededOutBuffSize
    BY <1>5, <1>6 DEF neededInBuffSize, neededOutBuffSize
<1>8. Small' = Small
    BY <1>1, <1>5 DEF Small
<1>9. /\ DOMAIN outBuff = 0 .. outBuffSize - 1
      /\ DOMAIN outBuff' = DOMAIN outBuff
      /\ \A p \in DOMAIN outBuff : outBuff[p] \in Nat
    BY DEF Buffers, Produce, WriteOut
<1>10. \A p \in DOMAIN outBuff :
          /\ p \in outStart .. outStart + r - 1 => outBuff'[p] = decoded + (p - outStart) + 1
          /\ p < outStart => outBuff'[p] = outBuff[p]
          /\ p >= outStart + blockSizeMax + Overlength => outBuff'[p] = outBuff[p]
          /\ outBuff'[p] \in Nat
  <2> SUFFICES ASSUME NEW p \in DOMAIN outBuff
               PROVE  /\ p \in outStart .. outStart + r - 1 =>
                            outBuff'[p] = decoded + (p - outStart) + 1
                      /\ p < outStart => outBuff'[p] = outBuff[p]
                      /\ p >= outStart + blockSizeMax + Overlength => outBuff'[p] = outBuff[p]
                      /\ outBuff'[p] \in Nat
      OBVIOUS
  <2>1. outBuff'[p] = IF p \in outStart .. outStart + r - 1 THEN decoded + (p - outStart) + 1
                      ELSE IF scribbles /\ p \in Scribbled THEN 0 ELSE outBuff[p]
      BY DEF Produce, WriteOut
  <2>2. p \in Scribbled => outStart <= p /\ p < outStart + blockSizeMax + Overlength
      BY DEF Scribbled
  <2>3. p \in Nat /\ outBuff[p] \in Nat
      BY <1>2, <1>9
  <2> QED
      BY <1>2, <1>4, <2>1, <2>2, <2>3
<1>11. outBuff' \in [0 .. outBuffSize' - 1 -> Nat]
  <2>1. outBuff' = [p \in DOMAIN outBuff |-> outBuff'[p]]
      BY DEF Produce, WriteOut
  <2> QED
      BY <1>1, <1>9, <1>10, <2>1
<1>12. \A p \in DOMAIN outBuff' : p < outEnd' => outBuff'[p] = decoded' - outEnd' + p + 1
  <2> SUFFICES ASSUME NEW p \in DOMAIN outBuff, p < outStart + r
               PROVE  outBuff'[p] = (decoded + r) - (outStart + r) + p + 1
      BY <1>1, <1>3, <1>9
  <2>1. p \in Nat
      BY <1>2, <1>9
  <2>2. CASE p < outStart
    <3>1. outBuff[p] = decoded - outEnd + p + 1
        BY <2>2 DEF RingInv
    <3> QED
        BY <1>2, <1>10, <2>1, <2>2, <3>1
  <2>3. CASE p >= outStart
    <3>1. p \in outStart .. outStart + r - 1
        BY <1>2, <2>1, <2>3
    <3> QED
        BY <1>2, <1>10, <2>1, <3>1
  <2> QED
      BY <1>2, <2>1, <2>2, <2>3
<1>13. decoded' - outEnd' = decoded - outEnd
    BY <1>1, <1>2, <1>3
<1>14. FirstLap => FirstLap'
    BY <1>1, <1>13 DEF FirstLap
<1>15. LaterLap => LaterLap'
  <2> SUFFICES ASSUME LaterLap PROVE LaterLap'
      OBVIOUS
  <2>1. PICK E \in 0 .. outBuffSize :
           /\ E + blockSizeMax > outBuffSize
           /\ frameBase + E <= decoded - outEnd
           /\ \A p \in DOMAIN outBuff :
                 outStart + blockSizeMax + Overlength <= p /\ p < E =>
                     outBuff[p] = decoded - outEnd - E + p + 1
      BY DEF LaterLap
  <2>2. \A p \in DOMAIN outBuff' :
           outStart' + blockSizeMax' + Overlength <= p /\ p < E =>
               outBuff'[p] = decoded' - outEnd' - E + p + 1
    <3> SUFFICES ASSUME NEW p \in DOMAIN outBuff,
                        outStart + blockSizeMax + Overlength <= p, p < E
                 PROVE  outBuff'[p] = (decoded - outEnd) - E + p + 1
        BY <1>1, <1>6, <1>9, <1>13
    <3>1. outBuff[p] = decoded - outEnd - E + p + 1
        BY <2>1
    <3>2. p \in Nat
        BY <1>2, <1>9
    <3>3. outBuff'[p] = outBuff[p]
        BY <1>2, <1>4, <1>10, <3>2
    <3> QED
        BY <3>1, <3>3
  <2> QED
      BY <1>1, <1>6, <1>8, <1>13, <2>1, <2>2 DEF LaterLap
<1>16. outStart' <= outEnd' /\ outEnd' <= outBuffSize' /\ frameBase' + outEnd' <= decoded'
  <2>1. frameBase + outEnd <= decoded
      BY DEF RingInv
  <2> QED
      BY <1>1, <1>2, <1>3, <1>4, <2>1
<1>17. /\ zStage' # "flush" => outStart' = outEnd'
       /\ Small' /\ zStage' # "flush" => outStart' + blockSizeMax' <= outBuffSize'
    BY <1>1, <1>2, <1>6, <1>8 DEF RingInv
<1> QED
    BY <1>1, <1>3, <1>7, <1>11, <1>12, <1>14, <1>15, <1>16, <1>17 DEF RingInv

(* What follows a block: another one, the checksum or the end.             *)
LEMMA AfterBlockPiece ==
    ASSUME Frames \in Streams, InStream, ~ Skippable, block \in 1 .. Len(F.blocks), AfterBlock
    PROVE  \/ /\ expected' = BlockHdr /\ dStage' = "decodeBlockHeader"
              /\ block' = block + 1 /\ block' \in 1 .. Len(F.blocks) /\ ~ LastBlock
           \/ /\ expected' = ChecksumUnits /\ dStage' = "checkChecksum"
              /\ block' = block /\ F.checksum /\ LastBlock
           \/ /\ expected' = 0 /\ dStage' = "getFrameHeaderSize" /\ block' = block
              /\ LastBlock /\ ~ F.checksum
<1>1. Len(F.blocks) \in Nat
    BY CurrentFrame DEF FrameFields
<1>2. CASE LastBlock
    BY <1>2 DEF AfterBlock, AfterLastBlock, FrameEnds
<1>3. CASE ~ LastBlock
    BY <1>1, <1>3 DEF AfterBlock, LastBlock
<1> QED
    BY <1>2, <1>3

(* A piece of n units; the last c of them come from this call.             *)
DecodesPiece(n, c) ==
    /\ dpc = "work" /\ zStage \in {"read", "load"}
    /\ n \in Nat /\ n > 0 /\ n <= expected
    /\ n = expected \/ (InBlock /\ B.kind = "raw")
    /\ c \in Nat /\ c > 0 /\ c <= iAvail /\ c = n - inPos
    /\ ~ Damaged(n) /\ Continue(n)
    /\ iAvail' = iAvail - c /\ taken' = taken + c /\ inPos' = 0
    /\ UNCHANGED <<dpc, oRoom, made, ret, lhSize, hostageByte, noForwardProgress,
                   sizeVars, delivered>>

(* The ring, the content and the next piece are as they should be.         *)
LEMMA ContinueRing ==
    ASSUME StreamInv, LibraryStep, NEW n, NEW c, DecodesPiece(n, c)
    PROVE  /\ RingInv' /\ outBuff' \in [0 .. outBuffSize' - 1 -> Nat]
           /\ frame' = frame /\ frameBase' = frameBase /\ outStart' = outStart
           /\ zStage' \in {"read", "flush"}
           /\ outEnd' \in Nat /\ decoded' \in Nat /\ decoded' - decoded = outEnd' - outEnd
           /\ zStage' = "read" => outEnd' = outEnd
           /\ outStart = outEnd
<1>1. /\ Frames \in Streams /\ InStream /\ Typed /\ Buffers /\ RingInv /\ PieceInv /\ Ring
      /\ zStage # "flush"
    BY DEF StreamInv, DecodesPiece, Ring, Reading, PlaceInv
<1>2. outStart = outEnd
    BY <1>1 DEF RingInv
<1>3. outStart \in Nat /\ outEnd \in Nat /\ decoded \in Nat /\ expected \in Nat /\ n \in Nat
    BY <1>1 DEF Typed, DecodesPiece
<1>4. ASSUME NEW r, NEW scribbles \in BOOLEAN, Fits(r), Produce(r, scribbles)
      PROVE  /\ RingInv' /\ outBuff' \in [0 .. outBuffSize' - 1 -> Nat]
             /\ frame' = frame /\ frameBase' = frameBase /\ outStart' = outStart
             /\ zStage' \in {"read", "flush"}
             /\ outEnd' \in Nat /\ decoded' \in Nat /\ decoded' - decoded = outEnd' - outEnd
             /\ zStage' = "read" => outEnd' = outEnd
  <2>1. UNCHANGED <<Frames, sizeVars>>
      BY DEF DecodesPiece, LibraryStep
  <2>2. RingInv' /\ outBuff' \in [0 .. outBuffSize' - 1 -> Nat] /\ outEnd' = outStart + r
      BY <1>1, <1>2, <1>4, <2>1, ProduceRing
  <2>3. /\ decoded' = decoded + r /\ outStart' = outStart /\ frame' = frame
        /\ frameBase' = frameBase /\ zStage' = (IF r = 0 THEN "read" ELSE "flush")
      BY <1>4 DEF Produce
  <2>4. r \in Nat
      BY <1>4 DEF Fits
  <2> QED
      BY <1>2, <1>3, <2>2, <2>3, <2>4
<1>5. ASSUME UNCHANGED <<ringVars, frame, decoded, frameBase>>, zStage' \in {"read", "flush"}
      PROVE  /\ RingInv' /\ outBuff' \in [0 .. outBuffSize' - 1 -> Nat]
             /\ frame' = frame /\ frameBase' = frameBase /\ outStart' = outStart
             /\ zStage' \in {"read", "flush"}
             /\ outEnd' \in Nat /\ decoded' \in Nat /\ decoded' - decoded = outEnd' - outEnd
             /\ zStage' = "read" => outEnd' = outEnd
  <2>1. RingKept /\ Ring' /\ Ring
      BY <1>1, <1>5 DEF RingKept, DecodesPiece, LibraryStep, Ring, Reading
  <2>2. RingInv'
      BY <1>1, <2>1, RingStays
  <2>3. outBuff' = outBuff /\ outBuffSize' = outBuffSize
      BY <1>5 DEF DecodesPiece, sizeVars, ringVars
  <2>4. outStart' = outStart /\ outEnd' = outEnd /\ decoded' = decoded /\ frame' = frame
        /\ frameBase' = frameBase
      BY <1>5 DEF ringVars
  <2> QED
      BY <1>1, <1>3, <1>5, <2>2, <2>3, <2>4 DEF Buffers
<1>6. CASE DecodeBlockHeader \/ CheckChecksum
  <2>1. UNCHANGED <<ringVars, frame, decoded, frameBase>> /\ zStage' = "read"
      BY <1>6 DEF DecodeBlockHeader, CheckChecksum, Nothing
  <2> QED
      BY <1>2, <1>5, <2>1
<1>7. CASE SkipFrame
  <2>1. UNCHANGED <<ringVars, frame, decoded, frameBase>> /\ zStage' = "flush"
      BY <1>2, <1>7 DEF SkipFrame, ringVars
  <2> QED
      BY <1>2, <1>5, <2>1
<1>8. CASE DecodeRaw(n)
  <2>1. InBlock /\ B.kind = "raw" /\ Produce(n, FALSE)
      BY <1>8 DEF DecodeRaw
  <2>2. outStart + n <= outBuffSize
    <3>1. ~ (outStart + n > outBuffSize)
        BY <2>1 DEF DecodesPiece, Damaged, ContentOf
    <3> QED
        BY <1>1, <1>3, <3>1 DEF Typed
  <2>3. n <= blockSizeMax
    <3>1. B.csize \in Nat /\ B.csize <= blockSizeMax /\ blockSizeMax \in Nat
        BY <1>1, <2>1, CurrentFrame DEF PieceInv, B, InBlock, FrameFields
    <3>2. n <= expected /\ expected <= B.csize
        BY <1>1, <2>1 DEF PieceInv, DecodesPiece
    <3> QED
        BY <1>3, <3>1, <3>2
  <2> QED
      BY <1>2, <1>3, <1>4, <2>1, <2>2, <2>3 DEF Fits
<1>9. CASE DecodePacked
  <2>1. InBlock /\ B.kind = "packed" /\ Produce(B.rsize, TRUE)
      BY <1>9 DEF DecodePacked
  <2>2. B.rsize \in Nat /\ B.rsize <= blockSizeMax
      BY <1>1, <2>1, CurrentFrame DEF PieceInv, B, InBlock, FrameFields
  <2>3. outStart + B.rsize <= outBuffSize
    <3>1. ~ (outStart + B.rsize > outBuffSize)
        BY <2>1 DEF DecodesPiece, Damaged, ContentOf
    <3> QED
        BY <1>1, <1>3, <2>2, <3>1 DEF Typed
  <2> QED
      BY <1>2, <1>4, <2>1, <2>2, <2>3 DEF Fits
<1> QED
    BY <1>6, <1>7, <1>8, <1>9 DEF DecodesPiece, Continue

(* What comes next: a piece of the same block, a block, or the end.         *)
LEMMA ContinuePiece ==
    ASSUME StreamInv, LibraryStep, NEW n, NEW c, DecodesPiece(n, c)
    PROVE  /\ PieceInv' /\ F' = F /\ block' \in Nat /\ expected' \in Nat
           /\ dStage' \in {"getFrameHeaderSize", "decodeBlockHeader", "decompressBlock",
                           "checkChecksum", "skipFrame"}
<1>1. /\ Frames \in Streams /\ InStream /\ Typed /\ RingInv /\ PieceInv /\ Ring
    BY DEF StreamInv, DecodesPiece, Ring, Reading, PlaceInv
<1>2. /\ F' = F /\ zStage' # "load" /\ inPos' = 0 /\ hostageByte' = hostageByte
      /\ (Skippable <=> Skippable')
    BY ContinueRing DEF F, Skippable, LibraryStep, DecodesPiece
<1>3. ~ hostageByte
    BY <1>1 DEF PieceInv, DecodesPiece, Typed
<1>4. n \in Nat /\ n > 0 /\ n <= expected /\ expected \in Nat
    BY <1>1 DEF DecodesPiece, Typed
<1>5. F.skip \in Nat \union {Unknown} /\ Len(F.blocks) \in Nat
    BY <1>1, CurrentFrame DEF FrameFields
<1> DEFINE Goal == /\ PieceInv' /\ block' \in Nat /\ expected' \in Nat
                   /\ dStage' \in {"getFrameHeaderSize", "decodeBlockHeader",
                                   "decompressBlock", "checkChecksum", "skipFrame"}
<1>6. ASSUME ~ Skippable, block \in 1 .. Len(F.blocks), AfterBlock PROVE Goal
  <2>1. \/ /\ expected' = BlockHdr /\ dStage' = "decodeBlockHeader"
           /\ block' = block + 1 /\ block' \in 1 .. Len(F.blocks)
        \/ /\ expected' = ChecksumUnits /\ dStage' = "checkChecksum"
           /\ block' = block /\ F.checksum
        \/ /\ expected' = 0 /\ dStage' = "getFrameHeaderSize" /\ block' = block
      BY <1>1, <1>6, AfterBlockPiece
  <2> QED
      BY <1>2, <1>3, <1>5, <1>6, <2>1, SizesAre DEF PieceInv, InBlock
<1>7. ASSUME dStage' = "getFrameHeaderSize", expected' = 0, block' = block PROVE Goal
    BY <1>1, <1>2, <1>3, <1>7 DEF PieceInv, InBlock, Typed
<1> SUFFICES Goal
    BY <1>2
<1> HIDE DEF Goal
<1>8. CASE DecodeBlockHeader
  <2>1. dStage = "decodeBlockHeader" /\ ~ Skippable /\ block \in 1 .. Len(F.blocks)
      BY <1>1, <1>8 DEF DecodeBlockHeader, PieceInv
  <2>2. CASE B.csize = 0
      BY <1>6, <1>8, <2>1, <2>2 DEF DecodeBlockHeader
  <2>3. CASE B.csize # 0
    <3>1. expected' = B.csize /\ dStage' = "decompressBlock" /\ block' = block
        BY <1>8, <2>3 DEF DecodeBlockHeader
    <3>2. B.csize \in Nat /\ B' = B
        BY <1>1, <1>2, <2>1, <3>1, CurrentFrame DEF B, FrameFields
    <3> QED
        BY <1>1, <1>2, <1>3, <2>1, <2>3, <3>1, <3>2 DEF PieceInv, InBlock, Typed, Goal
  <2> QED
      BY <2>2, <2>3
<1>9. CASE DecodeRaw(n)
  <2>1. InBlock /\ dStage = "decompressBlock" /\ B.kind = "raw" /\ ~ Skippable
        /\ block \in 1 .. Len(F.blocks) /\ expected <= B.csize /\ B.csize \in Nat
      BY <1>1, <1>9, CurrentFrame DEF DecodeRaw, PieceInv, InBlock, B, FrameFields
  <2>2. CASE n < expected
    <3>1. expected' = expected - n /\ dStage' = dStage /\ block' = block
        BY <1>9, <2>2 DEF DecodeRaw
    <3>2. B' = B
        BY <1>2, <3>1 DEF B
    <3>3. expected' \in Nat /\ expected' > 0 /\ expected' <= B.csize
        BY <1>4, <2>1, <2>2, <3>1
    <3> QED
        BY <1>1, <1>2, <1>3, <2>1, <3>1, <3>2, <3>3 DEF PieceInv, InBlock, Typed, Goal
  <2>3. CASE ~ (n < expected)
      BY <1>6, <1>9, <2>1, <2>3 DEF DecodeRaw
  <2> QED
      BY <2>2, <2>3
<1>10. CASE DecodePacked
  <2>1. ~ Skippable /\ block \in 1 .. Len(F.blocks)
      BY <1>1, <1>10 DEF DecodePacked, PieceInv, InBlock
  <2> QED
      BY <1>6, <1>10, <2>1 DEF DecodePacked
<1>11. CASE CheckChecksum
    BY <1>7, <1>11 DEF CheckChecksum, FrameEnds
<1>12. CASE SkipFrame
    BY <1>7, <1>12 DEF SkipFrame, FrameEnds
<1> QED
    BY <1>8, <1>9, <1>10, <1>11, <1>12 DEF DecodesPiece, Continue

(* A piece is decoded.                                                     *)
LEMMA ContinueStep ==
    ASSUME StreamInv, LibraryStep, NEW n, NEW c, DecodesPiece(n, c) PROVE StreamInv'
<1>1. Frames' \in Streams /\ Total \in Nat /\ Total' = Total
    BY TotalIs DEF StreamInv, LibraryStep, Total, UnitsThrough
<1>2. /\ dpc = "work" /\ dpc' = "work" /\ oRoom' = oRoom /\ made' = made /\ ret' = ret
      /\ lhSize' = lhSize /\ hostageByte' = hostageByte /\ inPos' = 0
      /\ noForwardProgress' = noForwardProgress /\ inBuffSize' = inBuffSize
      /\ outBuffSize' = outBuffSize /\ oversizedDuration' = oversizedDuration
      /\ delivered' = delivered /\ iAvail' = iAvail - c /\ taken' = taken + c
      /\ Frames' = Frames /\ pos' = pos /\ zStage # "flush"
    BY DEF DecodesPiece, LibraryStep, sizeVars
<1>3. /\ RingInv' /\ outBuff' \in [0 .. outBuffSize' - 1 -> Nat]
      /\ frame' = frame /\ frameBase' = frameBase /\ outStart' = outStart
      /\ zStage' \in {"read", "flush"}
      /\ outEnd' \in Nat /\ decoded' \in Nat /\ decoded' - decoded = outEnd' - outEnd
      /\ zStage' = "read" => outEnd' = outEnd
      /\ outStart = outEnd
    BY ContinueRing
<1>4. /\ PieceInv' /\ F' = F /\ block' \in Nat /\ expected' \in Nat
      /\ dStage' \in {"getFrameHeaderSize", "decodeBlockHeader", "decompressBlock",
                      "checkChecksum", "skipFrame"}
    BY ContinuePiece
<1>5. iAvail' \in Nat /\ taken' \in Nat /\ taken' > 0 /\ taken' + iAvail' = taken + iAvail
      /\ iAvail \in Nat /\ taken \in Nat
    BY <1>2 DEF StreamInv, Typed, DecodesPiece
<1>6. Typed'
    BY <1>2, <1>3, <1>4, <1>5 DEF StreamInv, Typed
<1>7. Buffers'
    BY <1>2, <1>3 DEF StreamInv, Buffers
<1>8. Ring /\ InStream /\ InStream'
    BY <1>2, <1>3 DEF StreamInv, DecodesPiece, Ring, Reading, PlaceInv, InStream
<1>9. PlaceInv'
    BY <1>2, <1>3, <1>8 DEF StreamInv, DecodesPiece, PlaceInv
<1>10. FlushInv'
  <2>1. decoded \in Nat /\ outEnd \in Nat /\ outStart \in Nat
      BY DEF StreamInv, Typed
  <2>2. delivered = Bytes(0, Len(delivered)) /\ decoded = Len(delivered) + 0
      BY <1>2 DEF StreamInv, FlushInv
  <2>3. Len(delivered) \in Nat
      BY DEF StreamInv, Buffers
  <2>4. decoded' = Len(delivered) + (IF zStage' = "flush" THEN outEnd' - outStart' ELSE 0)
      BY <1>3, <2>1, <2>2, <2>3
  <2> QED
      BY <1>2, <1>5, <2>2, <2>4 DEF FlushInv, Bytes
<1>11. CallInv'
    BY <1>1, <1>2, <1>5 DEF StreamInv, CallInv
<1> QED
    BY <1>1, <1>3, <1>4, <1>6, <1>7, <1>9, <1>10, <1>11 DEF StreamInv

(* The piece comes from the caller's input; or its rest, through inBuff.   *)
LEMMA PieceDecoded ==
    ASSUME StreamInv, LibraryStep, ReadDirect \/ LoadWhole
    PROVE  \E n, c : DecodesPiece(n, c)
<1>1. Typed /\ (zStage \in {"read", "load"} => PieceInv)
    BY DEF StreamInv, Ring, Reading
<1>2. CASE ReadDirect
  <2> DEFINE n == NeededInSize
  <2>1. n # 0 /\ iAvail >= n /\ ~ Damaged(n) /\ Continue(n) /\ zStage = "read" /\ dpc = "work"
        /\ inPos' = inPos /\ iAvail' = iAvail - n /\ taken' = taken + n
        /\ UNCHANGED <<dpc, oRoom, made, ret, lhSize, hostageByte, noForwardProgress,
                       sizeVars, delivered>>
      BY <1>2 DEF ReadDirect, Consume, At
  <2>2. n = IF InBlock /\ B.kind = "raw" /\ expected > 0
            THEN Larger(1, Smaller(iAvail, expected)) ELSE expected
      BY DEF NeededInSize
  <2> HIDE DEF n
  <2>3. n \in Nat /\ n > 0 /\ n <= expected /\ (n = expected \/ (InBlock /\ B.kind = "raw"))
    <3>1. expected \in Nat /\ iAvail \in Nat
        BY <1>1 DEF Typed
    <3> QED
        BY <2>1, <2>2, <3>1 DEF Larger, Smaller
  <2>4. inPos = 0 /\ inPos' = 0 /\ n = n - inPos
      BY <1>1, <2>1, <2>3 DEF PieceInv
  <2>5. DecodesPiece(n, n)
      BY <2>1, <2>3, <2>4 DEF DecodesPiece
  <2> QED
      BY <2>5
<1>3. CASE LoadWhole
  <2>1. /\ zStage = "load" /\ dpc = "work" /\ iAvail >= ToLoadIn /\ ~ Damaged(expected)
        /\ Continue(expected) /\ inPos' = 0
        /\ iAvail' = iAvail - ToLoadIn /\ taken' = taken + ToLoadIn
        /\ UNCHANGED <<dpc, oRoom, made, ret, lhSize, hostageByte, noForwardProgress,
                       sizeVars, delivered>>
      BY <1>3 DEF LoadWhole, Consume, At
  <2>2. /\ ToLoadIn \in Nat /\ ToLoadIn > 0 /\ expected \in Nat /\ expected > 0
        /\ ToLoadIn = expected - inPos
      BY <1>1, <2>1 DEF ToLoadIn, PieceInv, Typed
  <2>3. DecodesPiece(expected, ToLoadIn)
      BY <1>1, <2>1, <2>2 DEF DecodesPiece, Typed
  <2> QED
      BY <2>3
<1> QED
    BY <1>2, <1>3

-----------------------------------------------------------------------------
(* The flush and the end of a call.                                        *)

(* What is flushed are the next bytes of the content.                      *)
LEMMA FlushedBytes ==
    ASSUME StreamInv, zStage = "flush", NEW n \in Nat, n <= outEnd - outStart
    PROVE  [i \in 1 .. n |-> outBuff[outStart + i - 1]] = Bytes(Len(delivered), n)
<1>1. Typed /\ Buffers /\ RingInv /\ FlushInv
    BY DEF StreamInv, Ring, Reading
<1>2. /\ outStart \in Nat /\ outEnd \in Nat /\ decoded \in Nat /\ outBuffSize \in Nat
      /\ Len(delivered) \in Nat
    BY <1>1 DEF Typed, Buffers
<1>3. decoded = Len(delivered) + (outEnd - outStart) /\ outEnd <= outBuffSize
    BY <1>1, <1>2 DEF FlushInv, RingInv
<1>4. ASSUME NEW i \in 1 .. n
      PROVE  outBuff[outStart + i - 1] = Len(delivered) + i
  <2>1. outStart + i - 1 \in 0 .. outBuffSize - 1 /\ outStart + i - 1 < outEnd
      BY <1>2, <1>3
  <2>2. outStart + i - 1 \in DOMAIN outBuff
      BY <1>1, <2>1 DEF Buffers
  <2>3. outBuff[outStart + i - 1] = decoded - outEnd + (outStart + i - 1) + 1
      BY <1>1, <2>1, <2>2 DEF RingInv
  <2> QED
      BY <1>2, <1>3, <2>3
<1> QED
    BY <1>4 DEF Bytes

(* outBuff is flushed as far as the caller's room goes, and wraps.         *)
LEMMA FlushOutStep ==
    ASSUME StreamInv, FlushOut, LibraryStep PROVE StreamInv'
<1> DEFINE toFlush == outEnd - outStart
           flushed == Smaller(oRoom, toFlush)
           start == outStart + flushed
           wraps == Small /\ start + blockSizeMax > outBuffSize
<1>1. /\ Frames \in Streams /\ Frames' \in Streams /\ Total' = Total
      /\ Typed /\ Buffers /\ RingInv /\ FlushInv /\ PieceInv /\ InStream /\ Ring
    BY DEF StreamInv, LibraryStep, Total, UnitsThrough, FlushOut, At, Ring, Reading, PlaceInv
<1>2. /\ zStage = "flush" /\ dpc = "work"
      /\ oRoom' = oRoom - flushed /\ made' = made + flushed
      /\ delivered' = delivered \o [i \in 1 .. flushed |-> outBuff[outStart + i - 1]]
      /\ IF flushed = toFlush
         THEN /\ zStage' = "read" /\ dpc' = "work"
              /\ outStart' = (IF wraps THEN 0 ELSE start)
              /\ outEnd' = (IF wraps THEN 0 ELSE outEnd)
         ELSE /\ outStart' = start /\ dpc' = "finish"
              /\ zStage' = "flush" /\ outEnd' = outEnd
    BY DEF FlushOut, At, Small
<1>3. /\ lhSize' = lhSize /\ inPos' = inPos /\ hostageByte' = hostageByte /\ frame' = frame
      /\ block' = block /\ frameBase' = frameBase /\ decoded' = decoded
      /\ iAvail' = iAvail /\ taken' = taken
      /\ ret' = ret /\ dStage' = dStage /\ expected' = expected /\ outBuff' = outBuff
      /\ noForwardProgress' = noForwardProgress /\ inBuffSize' = inBuffSize
      /\ outBuffSize' = outBuffSize /\ oversizedDuration' = oversizedDuration
      /\ Frames' = Frames /\ pos' = pos
    BY <1>2 DEF FlushOut, sizeVars, placeVars, LibraryStep
<1>4. F' = F /\ InStream' = InStream /\ B' = B /\ (Skippable <=> Skippable') /\ InBlock' = InBlock
    BY <1>3 DEF F, InStream, B, Skippable, InBlock
<1>5. /\ outStart \in Nat /\ outEnd \in Nat /\ decoded \in Nat /\ frameBase \in Nat
      /\ outBuffSize \in Nat /\ oRoom \in Nat /\ made \in Nat /\ Len(delivered) \in Nat
      /\ outStart <= outEnd /\ outEnd <= outBuffSize /\ frameBase + outEnd <= decoded
      /\ delivered = Bytes(0, Len(delivered))
      /\ decoded = Len(delivered) + (outEnd - outStart)
    BY <1>1, <1>2 DEF Typed, Buffers, RingInv, FlushInv
<1>6. /\ flushed \in Nat /\ flushed <= oRoom /\ flushed <= toFlush /\ start <= outEnd
      /\ start \in Nat /\ outStart <= start
      /\ (flushed = toFlush => start = outEnd) /\ (flushed # toFlush => start < outEnd)
    BY <1>5 DEF Smaller
<1>7. delivered' = Bytes(0, Len(delivered) + flushed)
      /\ Len(delivered') = Len(delivered) + flushed
  <2>1. [i \in 1 .. flushed |-> outBuff[outStart + i - 1]] = Bytes(Len(delivered), flushed)
      BY <1>2, <1>6, FlushedBytes
  <2>2. delivered' = delivered \o Bytes(Len(delivered), flushed)
      BY <1>2, <2>1
  <2> DEFINE d == Len(delivered)
  <2>3. d \in Nat /\ flushed \in Nat /\ delivered = Bytes(0, d)
      BY <1>5, <1>6
  <2> HIDE DEF flushed, d
  <2>4. /\ delivered \o Bytes(d, flushed) = Bytes(0, d + flushed)
        /\ Len(delivered \o Bytes(d, flushed)) = d + flushed
      BY <2>3, BytesFollow
  <2> QED
      BY <2>2, <2>4 DEF d
<1>8. blockSizeMax \in Nat /\ F.window \in Nat /\ Overlength \in Nat
    BY <1>1, CurrentFrame, SizesAre DEF FrameFields
<1>9. blockSizeMax' = blockSizeMax /\ Small' = Small
      /\ neededInBuffSize' = neededInBuffSize /\ neededOutBuffSize' = neededOutBuffSize
  <2>1. blockSizeMax' = blockSizeMax
      BY <1>4 DEF blockSizeMax, Skippable
  <2> QED
      BY <1>3, <1>4, <2>1 DEF Small, neededInBuffSize, neededOutBuffSize
<1>10. DOMAIN outBuff = 0 .. outBuffSize - 1
    BY <1>1 DEF Buffers
<1> HIDE DEF flushed, start, wraps, toFlush
<1>11. RingInv'
  <2>1. CASE flushed = toFlush /\ wraps
    <3>1. outStart' = 0 /\ outEnd' = 0 /\ zStage' = "read"
        BY <1>2, <2>1
    <3>2. Small /\ outEnd + blockSizeMax > outBuffSize
        BY <1>6, <2>1 DEF wraps
    <3>3. LaterLap'
      <4>1. \A p \in DOMAIN outBuff : p < outEnd => outBuff[p] = decoded - 0 - outEnd + p + 1
        <5> SUFFICES ASSUME NEW p \in DOMAIN outBuff, p < outEnd
                     PROVE  outBuff[p] = decoded - 0 - outEnd + p + 1
            OBVIOUS
        <5>1. outBuff[p] = decoded - outEnd + p + 1
            BY <1>1 DEF RingInv
        <5> QED
            BY <1>5, <1>10, <5>1
      <4>2. outEnd \in 0 .. outBuffSize /\ frameBase + outEnd <= decoded - 0
          BY <1>5
      <4> QED
          BY <1>3, <1>9, <3>1, <3>2, <4>1, <4>2 DEF LaterLap
    <3>4. blockSizeMax <= outBuffSize
      <4>1. outBuffSize >= F.window + 2 * blockSizeMax + 2 * Overlength
          BY <1>1, <1>5, <3>2, NeededSizes DEF Small, RingInv
      <4> QED
          BY <1>5, <1>8, <4>1
    <3>5. \A p \in DOMAIN outBuff : ~ (p < 0)
        BY <1>5, <1>10
    <3>6. inBuffSize >= neededInBuffSize /\ outBuffSize >= neededOutBuffSize
        BY <1>1 DEF RingInv
    <3>7. 0 <= outBuffSize /\ frameBase + 0 <= decoded /\ 0 + blockSizeMax <= outBuffSize
        BY <1>5, <1>8, <3>4
    <3> QED
        BY <1>3, <1>9, <3>1, <3>3, <3>5, <3>6, <3>7 DEF RingInv
  <2>2. CASE ~ (flushed = toFlush /\ wraps)
    <3>1. outStart' = start /\ outEnd' = outEnd
        BY <1>2, <2>2
    <3>2. zStage' # "flush" => start = outEnd /\ ~ wraps
        BY <1>2, <1>6, <2>2
    <3>3. Small /\ zStage' # "flush" => start + blockSizeMax <= outBuffSize
        BY <1>5, <1>6, <1>8, <3>2 DEF wraps
    <3>4. FirstLap => FirstLap'
        BY <1>3, <3>1 DEF FirstLap
    <3>5. LaterLap => LaterLap'
      <4> SUFFICES ASSUME LaterLap PROVE LaterLap'
          OBVIOUS
      <4>1. PICK E \in 0 .. outBuffSize :
               /\ E + blockSizeMax > outBuffSize
               /\ frameBase + E <= decoded - outEnd
               /\ \A p \in DOMAIN outBuff :
                     outStart + blockSizeMax + Overlength <= p /\ p < E =>
                         outBuff[p] = decoded - outEnd - E + p + 1
          BY DEF LaterLap
      <4>2. \A p \in DOMAIN outBuff :
               start + blockSizeMax + Overlength <= p /\ p < E =>
                   outBuff[p] = decoded - outEnd - E + p + 1
        <5> SUFFICES ASSUME NEW p \in DOMAIN outBuff,
                            start + blockSizeMax + Overlength <= p, p < E
                     PROVE  outBuff[p] = decoded - outEnd - E + p + 1
            OBVIOUS
        <5>1. outStart + blockSizeMax + Overlength <= p
            BY <1>5, <1>6, <1>8, <1>10
        <5> QED
            BY <4>1, <5>1
      <4>3. Small'
          BY <1>9 DEF LaterLap
      <4> QED
          BY <1>3, <1>9, <3>1, <4>1, <4>2, <4>3 DEF LaterLap
    <3>6. /\ inBuffSize >= neededInBuffSize /\ outBuffSize >= neededOutBuffSize
          /\ FirstLap \/ LaterLap
          /\ \A p \in DOMAIN outBuff : p < outEnd => outBuff[p] = decoded - outEnd + p + 1
        BY <1>1 DEF RingInv
    <3>7. FirstLap' \/ LaterLap'
        BY <3>4, <3>5, <3>6
    <3> QED
        BY <1>3, <1>5, <1>6, <1>9, <3>1, <3>2, <3>3, <3>6, <3>7 DEF RingInv
  <2> QED
      BY <2>1, <2>2
<1>12. outStart' \in Nat /\ outEnd' \in Nat /\ oRoom' \in Nat /\ made' \in Nat
    BY <1>2, <1>5, <1>6
<1>13. Typed'
    BY <1>1, <1>2, <1>3, <1>12 DEF Typed
<1>14. Buffers'
  <2>1. delivered' \in Seq(Nat)
      BY <1>5, <1>6, <1>7 DEF Bytes
  <2> QED
      BY <1>1, <1>3, <2>1 DEF Buffers
<1>15. PlaceInv'
    BY <1>1, <1>2, <1>3, <1>4 DEF StreamInv, PlaceInv
<1>16. PieceInv'
  <2>1. inPos = 0 /\ zStage' # "load"
      BY <1>1, <1>2 DEF PieceInv
  <2> QED
      BY <1>1, <1>3, <1>4, <2>1 DEF PieceInv
<1>17. FlushInv'
  <2>1. decoded = Len(delivered') + (IF zStage' = "flush" THEN outEnd' - outStart' ELSE 0)
    <3>1. CASE flushed = toFlush
        BY <1>2, <1>5, <1>6, <1>7, <3>1 DEF toFlush
    <3>2. CASE flushed # toFlush
        BY <1>2, <1>5, <1>6, <1>7, <3>2 DEF start
    <3> QED
        BY <3>1, <3>2
  <2>2. zStage' = "flush" => outStart # outEnd /\ dpc' = "finish" /\ outStart' # outEnd'
      BY <1>2, <1>5, <1>6
  <2>3. zStage' = "flush" /\ expected = 0 /\ ~ hostageByte => taken > 0
      BY <1>1, <1>2, <2>2 DEF FlushInv
  <2>4. delivered' = Bytes(0, Len(delivered'))
      BY <1>7
  <2> QED
      BY <1>2, <1>3, <2>1, <2>2, <2>3, <2>4 DEF FlushInv
<1>18. CallInv'
    BY <1>1, <1>2, <1>3 DEF StreamInv, CallInv
<1> QED
    BY <1>1, <1>11, <1>13, <1>14, <1>15, <1>16, <1>17, <1>18 DEF StreamInv

(* The call returns, or gives up.                                          *)
LEMMA FinishStep ==
    ASSUME StreamInv, Finish, LibraryStep PROVE StreamInv'
<1>1. /\ Frames \in Streams /\ Frames' \in Streams /\ Total' = Total /\ Total \in Nat
      /\ Typed /\ Buffers /\ FlushInv /\ PlaceInv /\ CallInv
    BY TotalIs DEF StreamInv, LibraryStep, Total, UnitsThrough
<1>2. /\ dpc = "finish"
      /\ iAvail' = iAvail /\ oRoom' = oRoom /\ made' = made
      /\ lhSize' = lhSize /\ inPos' = inPos /\ outStart' = outStart /\ outEnd' = outEnd
      /\ frame' = frame /\ block' = block /\ frameBase' = frameBase /\ decoded' = decoded
      /\ delivered' = delivered /\ dStage' = dStage /\ expected' = expected
      /\ outBuff' = outBuff /\ inBuffSize' = inBuffSize
      /\ outBuffSize' = outBuffSize /\ oversizedDuration' = oversizedDuration
      /\ Frames' = Frames
    BY DEF Finish, ringVars, sizeVars, placeVars, LibraryStep
<1>3. noForwardProgress' \in Nat
    BY <1>1 DEF Finish, Typed
<1>4. F' = F /\ InStream' = InStream /\ B' = B /\ (Skippable <=> Skippable') /\ InBlock' = InBlock
    BY <1>2 DEF F, InStream, B, Skippable, InBlock
<1>5. /\ expected \in Nat /\ inPos \in Nat /\ taken \in Nat /\ iAvail \in Nat
      /\ outStart \in Nat /\ outEnd \in Nat /\ pos \in Nat
    BY <1>1 DEF Typed, CallInv
<1>6. zStage # "loadHeader"
    BY <1>1, <1>2 DEF PlaceInv
<1>7. Buffers'
    BY <1>1, <1>2 DEF Buffers
<1>8. RingKept
    BY <1>2 DEF RingKept, ringVars, sizeVars
<1>9. Ring => inPos <= expected /\ (zStage = "load" => expected > 0)
      /\ (hostageByte => expected = 0)
    BY <1>5 DEF StreamInv, PieceInv
<1>10. CASE dpc' = "error"
  <2>1. ret' = ret /\ taken' = taken /\ zStage' = zStage /\ hostageByte' = hostageByte
      BY <1>10 DEF Finish, DError
  <2>2. pos' = pos
      BY <1>10 DEF LibraryStep
  <2>3. Ring' => Ring
      BY <1>10, <2>1 DEF Ring, Reading
  <2>4. Typed'
      BY <1>1, <1>2, <1>3, <1>10, <2>1 DEF Typed
  <2>5. PlaceInv'
      BY <1>1, <1>2, <1>4, <1>10, <2>1, <2>3 DEF PlaceInv
  <2>6. Ring' => PieceInv'
      BY <1>2, <1>4, <2>1, <2>3 DEF StreamInv, PieceInv
  <2>7. Ring' => RingInv'
      BY <1>8, <2>1, <2>3, RingStays DEF StreamInv
  <2>8. FlushInv'
      BY <1>1, <1>2, <1>10, <2>1 DEF FlushInv, Bytes
  <2>9. CallInv'
      BY <1>1, <1>10, <2>2 DEF CallInv
  <2> QED
      BY <1>1, <1>7, <2>4, <2>5, <2>6, <2>7, <2>8, <2>9 DEF StreamInv
<1>11. CASE dpc' # "error"
  <2>1. /\ dpc' = "out" /\ pos' = pos + taken'
        /\ FinishFrame \/ FinishWithoutHostage \/ FinishUnflushed \/ FinishMiddle
      BY <1>11 DEF Finish, DError, LibraryStep
  <2>2. /\ taken' \in Nat /\ ret' \in Nat /\ hostageByte' \in BOOLEAN
        /\ pos + taken' <= Total
        /\ zStage' = zStage \/ (zStage' = "read" /\ hostageByte /\ outStart = outEnd)
        /\ hostageByte' => expected = 0 \/ zStage = "init"
        /\ ~ hostageByte' => ~ hostageByte
        /\ zStage' = "flush" /\ expected = 0 /\ outStart # outEnd => hostageByte'
    <3>1. pos + taken + iAvail <= Total
        BY <1>1, <1>2 DEF CallInv
    <3>2. hostageByte \in BOOLEAN /\ hostageByte => expected = 0 \/ zStage = "init"
        BY <1>1, <1>6, <1>9 DEF Typed, Ring, Reading
    <3>3. CASE FinishFrame
      <4>1. /\ taken' = (IF hostageByte THEN taken + 1 ELSE taken) /\ ret' = 0
            /\ zStage' = zStage /\ hostageByte' = hostageByte /\ expected = 0
            /\ outEnd = outStart /\ (hostageByte => iAvail > 0)
          BY <3>3 DEF FinishFrame, Flushed
      <4>2. taken' \in Nat /\ pos + taken' <= Total
          BY <1>1, <1>5, <3>1, <4>1
      <4> QED
          BY <1>1, <4>1, <4>2 DEF Typed
    <3>4. CASE FinishWithoutHostage
      <4>1. /\ taken' = taken /\ ret' = 1 /\ zStage' = "read" /\ hostageByte' = hostageByte
            /\ hostageByte /\ expected = 0 /\ outEnd = outStart
          BY <3>4 DEF FinishWithoutHostage, Flushed
      <4>2. pos + taken' <= Total
          BY <1>1, <1>5, <3>1, <4>1
      <4> QED
          BY <1>5, <4>1, <4>2
    <3>5. CASE FinishUnflushed
      <4>1. /\ taken' = (IF hostageByte THEN taken ELSE taken - 1) /\ ret' = 1
            /\ zStage' = zStage /\ hostageByte' = TRUE /\ expected = 0 /\ outEnd # outStart
          BY <3>5 DEF FinishUnflushed, Flushed
      <4>2. zStage = "flush"
        <5>1. zStage # "init"
            BY <1>1, <1>2, <4>1 DEF PlaceInv
        <5>2. zStage \in {"read", "load"} => outStart = outEnd
            BY DEF StreamInv, Ring, Reading, RingInv
        <5> QED
            BY <1>1, <1>6, <4>1, <5>1, <5>2 DEF Typed
      <4>3. hostageByte \/ taken > 0
          BY <1>1, <4>1, <4>2 DEF FlushInv
      <4>4. taken' \in Nat /\ taken' <= taken
          BY <1>5, <4>1, <4>3
      <4>5. pos + taken' <= Total
        <5>1. Total \in Nat
            BY <1>1
        <5> QED
            BY <1>5, <3>1, <4>4, <5>1, SumsOrder
      <4> QED
          BY <4>1, <4>4, <4>5
    <3>6. CASE FinishMiddle
      <4>1. /\ taken' = taken /\ ret' = expected + Preload - inPos /\ zStage' = zStage
            /\ hostageByte' = hostageByte /\ expected # 0
          BY <3>6 DEF FinishMiddle
      <4>2. Ring
          BY <1>1, <1>2, <1>6, <4>1 DEF PlaceInv, Typed, Ring, Reading
      <4>3. Preload \in Nat
          BY SizesAre DEF Preload
      <4>4. ret' \in Nat
          BY <1>5, <1>9, <4>1, <4>2, <4>3
      <4>5. pos + taken' <= Total
          BY <1>1, <1>5, <3>1, <4>1
      <4> QED
          BY <1>1, <1>5, <3>2, <4>1, <4>4, <4>5 DEF Typed
    <3> QED
        BY <2>1, <3>3, <3>4, <3>5, <3>6
  <2>3. zStage' \in {"init", "read", "load", "flush"}
      BY <1>1, <1>6, <2>2 DEF Typed
  <2>4. Ring' => Ring
      BY <1>2, <1>6, <1>1, <2>1, <2>2 DEF Ring, Reading, Typed
  <2>5. Typed'
      BY <1>1, <1>2, <1>3, <2>1, <2>2, <2>3 DEF Typed
  <2>6. zStage' = "init" => zStage = "init"
      BY <2>2
  <2>7. zStage # "init" => frame >= 1
      BY <1>1 DEF PlaceInv
  <2>8. Ring => InStream /\ frame >= 1
      BY <1>1 DEF PlaceInv, Ring, Reading, InStream, Typed
  <2>9. PlaceInv'
    <3>1. zStage' # "init" => frame >= 1
        BY <2>2, <2>3, <2>4, <2>8 DEF Ring, Reading
    <3> QED
        BY <1>1, <1>2, <1>4, <2>1, <2>3, <2>4, <2>6, <2>8, <3>1 DEF PlaceInv
  <2>10. Ring' => PieceInv'
    <3> SUFFICES ASSUME Ring' PROVE PieceInv'
        OBVIOUS
    <3>1. Ring /\ PieceInv
        BY <2>4 DEF StreamInv
    <3>2. zStage # "init" \/ hostageByte
        BY <3>1 DEF Ring, Reading
    <3>3. hostageByte' => expected = 0
        BY <1>9, <2>2, <3>1, <3>2
    <3>4. zStage' = "load" => zStage = "load"
        BY <2>2
    <3>5. zStage' # "load" => inPos = 0
      <4>1. CASE zStage = "load"
          BY <1>9, <2>2, <3>1, <4>1
      <4>2. CASE zStage # "load"
          BY <3>1, <4>2 DEF PieceInv
      <4> QED
          BY <4>1, <4>2
    <3> QED
        BY <1>2, <1>4, <3>1, <3>3, <3>4, <3>5 DEF PieceInv
  <2>11. zStage' # "flush" => zStage # "flush"
      BY <1>1, <1>2, <2>2 DEF FlushInv
  <2>12. Ring' => RingInv'
      BY <1>8, <2>4, <2>11, RingStays DEF StreamInv
  <2>13. FlushInv'
    <3>1. zStage' = "flush" <=> zStage = "flush"
        BY <2>2, <2>11
    <3> QED
        BY <1>1, <1>2, <2>1, <2>2, <3>1 DEF FlushInv, Bytes
  <2>14. CallInv'
    <3>1. pos + taken' \in Nat
        BY <1>5, <2>2, SumsOrder
    <3>2. pos + taken' <= Total /\ Total' = Total /\ pos' = pos + taken'
        BY <1>1, <2>1, <2>2
    <3>3. pos' \in Nat /\ pos' <= Total'
        BY <3>1, <3>2, Zenon
    <3> QED
        BY <2>1, <3>3 DEF CallInv
  <2> QED
      BY <1>1, <1>7, <2>5, <2>9, <2>10, <2>12, <2>13, <2>14 DEF StreamInv
<1> QED
    BY <1>10, <1>11

(* The caller offers more of the stream.                                   *)
LEMMA CallStep ==
    ASSUME StreamInv, NEW a \in Offers, NEW r \in Rooms, Call(a, r) PROVE StreamInv'
<1>1. /\ Frames' \in Streams /\ Total' = Total /\ Total \in Nat
    BY TotalIs DEF StreamInv, Call, Offer, Total, UnitsThrough
<1>2. /\ dpc = "out" /\ dpc' = "work" /\ iAvail' = Smaller(a, Total - pos) /\ oRoom' = r
      /\ taken' = 0 /\ made' = 0
      /\ zStage' = zStage /\ lhSize' = lhSize /\ inPos' = inPos /\ outStart' = outStart
      /\ outEnd' = outEnd /\ hostageByte' = hostageByte /\ frame' = frame /\ block' = block
      /\ frameBase' = frameBase /\ decoded' = decoded /\ delivered' = delivered
      /\ ret' = ret /\ dStage' = dStage /\ expected' = expected /\ outBuff' = outBuff
      /\ noForwardProgress' = noForwardProgress /\ inBuffSize' = inBuffSize
      /\ outBuffSize' = outBuffSize /\ oversizedDuration' = oversizedDuration
      /\ Frames' = Frames /\ pos' = pos
    BY DEF Call, Offer, dctxVars, ringVars, sizeVars, placeVars
<1>3. F' = F /\ InStream' = InStream /\ B' = B /\ (Skippable <=> Skippable') /\ InBlock' = InBlock
    BY <1>2 DEF F, InStream, B, Skippable, InBlock
<1>4. a \in Nat /\ r \in Nat /\ pos \in Nat /\ pos <= Total
    BY OffersAssumption DEF StreamInv, CallInv
<1>5. iAvail' \in Nat /\ pos + 0 + iAvail' <= Total
    BY <1>1, <1>2, <1>4 DEF Smaller
<1>6. Typed'
    BY <1>2, <1>4, <1>5 DEF StreamInv, Typed
<1>7. Buffers'
    BY <1>2 DEF StreamInv, Buffers
<1>8. Ring' => Ring
    BY <1>2 DEF Ring, Reading
<1>9. PlaceInv'
    BY <1>2, <1>3, <1>8 DEF StreamInv, PlaceInv
<1>10. Ring' => PieceInv'
    BY <1>2, <1>3, <1>8 DEF StreamInv, PieceInv
<1>11. Ring' => RingInv'
  <2>1. RingKept
      BY <1>2 DEF RingKept, ringVars, sizeVars
  <2> QED
      BY <1>2, <1>8, <2>1, RingStays DEF StreamInv
<1>12. FlushInv'
    BY <1>2 DEF StreamInv, FlushInv, Bytes
<1>13. CallInv'
    BY <1>1, <1>2, <1>4, <1>5 DEF CallInv
<1> QED
    BY <1>1, <1>6, <1>7, <1>9, <1>10, <1>11, <1>12, <1>13 DEF StreamInv

(* The session is reset.                                                   *)
LEMMA ResetStep ==
    ASSUME StreamInv, ResetSession PROVE StreamInv'
<1>1. /\ Frames' \in Streams /\ Total' = Total /\ Total \in Nat /\ Len(Frames) \in Nat
    BY TotalIs DEF StreamInv, ResetSession, SessionReset, Total, UnitsThrough
<1>2. /\ dpc' = "out" /\ zStage' = "init" /\ noForwardProgress' = 0 /\ ret' = 1
      /\ frame' = 0 /\ block' = 0 /\ decoded' = 0 /\ frameBase' = 0 /\ delivered' = <<>>
      /\ pos' = 0 /\ Frames' = Frames
      /\ iAvail' = iAvail /\ oRoom' = oRoom /\ taken' = taken /\ made' = made
      /\ lhSize' = lhSize /\ inPos' = inPos /\ outStart' = outStart /\ outEnd' = outEnd
      /\ hostageByte' = hostageByte /\ dStage' = dStage /\ expected' = expected
      /\ outBuff' = outBuff /\ inBuffSize' = inBuffSize /\ outBuffSize' = outBuffSize
      /\ oversizedDuration' = oversizedDuration
    BY DEF ResetSession, SessionReset, callIO, ringVars, sizeVars
<1>3. Typed'
  <2>1. frame' \in Nat /\ frame' <= Len(Frames') + 1
      BY <1>1, <1>2
  <2>2. /\ block' \in Nat /\ decoded' \in Nat /\ frameBase' \in Nat /\ ret' \in Nat
        /\ noForwardProgress' \in Nat
      BY <1>2
  <2> QED
      BY <1>2, <2>1, <2>2 DEF StreamInv, Typed
<1>4. Buffers'
  <2>1. delivered' \in Seq(Nat)
      BY <1>2
  <2> QED
      BY <1>2, <2>1 DEF StreamInv, Buffers
<1>5. PlaceInv' /\ ~ Ring'
    BY <1>1, <1>2 DEF PlaceInv, Ring, Reading
<1>6. FlushInv'
  <2>1. delivered' = Bytes(0, Len(delivered')) /\ Len(delivered') = 0
      BY <1>2 DEF Bytes
  <2> QED
      BY <1>2, <2>1 DEF FlushInv
<1>7. CallInv'
    BY <1>1, <1>2 DEF CallInv
<1> QED
    BY <1>1, <1>3, <1>4, <1>5, <1>6, <1>7 DEF StreamInv

-----------------------------------------------------------------------------
(* Nothing changes.                                                        *)
LEMMA StutterStep ==
    ASSUME StreamInv, UNCHANGED callerVars PROVE StreamInv'
<1>1. /\ zStage' = zStage /\ lhSize' = lhSize /\ inPos' = inPos /\ outStart' = outStart
      /\ outEnd' = outEnd /\ hostageByte' = hostageByte /\ frame' = frame /\ block' = block
      /\ frameBase' = frameBase /\ decoded' = decoded /\ delivered' = delivered
      /\ iAvail' = iAvail /\ oRoom' = oRoom /\ taken' = taken /\ made' = made
      /\ ret' = ret /\ dStage' = dStage /\ expected' = expected /\ outBuff' = outBuff
      /\ noForwardProgress' = noForwardProgress /\ inBuffSize' = inBuffSize
      /\ outBuffSize' = outBuffSize /\ oversizedDuration' = oversizedDuration
      /\ Frames' = Frames /\ pos' = pos /\ dpc' = dpc
    BY DEF callerVars, dVars, callIO, dctxVars, ringVars, sizeVars, placeVars
<1>2. F' = F /\ InStream' = InStream /\ B' = B /\ (Skippable <=> Skippable') /\ InBlock' = InBlock
      /\ Total' = Total
    BY <1>1 DEF F, InStream, B, Skippable, InBlock, Total, UnitsThrough
<1>3. Typed' /\ Buffers' /\ Frames' \in Streams
    BY <1>1 DEF StreamInv, Typed, Buffers
<1>4. Ring' => Ring
    BY <1>1 DEF Ring, Reading
<1>5. PlaceInv'
    BY <1>1, <1>2, <1>4 DEF StreamInv, PlaceInv
<1>6. Ring' => PieceInv'
    BY <1>1, <1>2, <1>4 DEF StreamInv, PieceInv
<1>7. Ring' => RingInv'
  <2>1. RingKept
      BY <1>1 DEF RingKept, ringVars, sizeVars
  <2> QED
      BY <1>1, <1>4, <2>1, RingStays DEF StreamInv
<1>8. FlushInv' /\ CallInv'
    BY <1>1, <1>2 DEF StreamInv, FlushInv, CallInv, Bytes
<1> QED
    BY <1>3, <1>5, <1>6, <1>7, <1>8 DEF StreamInv

(* Every step keeps the invariant.                                         *)
LEMMA NextStreamInv ==
    ASSUME StreamInv, [CallerNext]_callerVars PROVE StreamInv'
<1>1. CASE Library
  <2>1. LibraryStep /\ DecompressStream
      BY <1>1 DEF Library, LibraryStep, DecompressStream
  <2>2. CASE StreamInit
      BY <2>1, <2>2, StreamInitStep
  <2>3. CASE LoadHeader
      BY <2>1, <2>3, LoadHeaderStep
  <2>4. CASE BadHeader \/ DecodeError \/ ReadEmpty
      BY <2>1, <2>4, OnlyEndSteps
  <2>5. CASE DecodeSinglePass
      BY <2>1, <2>5, SinglePassStep
  <2>6. CASE ConsumeHeader
      BY <2>1, <2>6, ConsumeHeaderStep
  <2>7. CASE RefuseWindow
      BY <2>1, <2>7, RefuseWindowStep
  <2>8. CASE ReadDirect \/ LoadWhole
      BY <2>1, <2>8, PieceDecoded, ContinueStep
  <2>9. CASE ReadEnd \/ ReadPart
      BY <2>1, <2>9, ReadTurns
  <2>10. CASE LoadPart
      BY <2>1, <2>10, LoadPartStep
  <2>11. CASE FlushOut
      BY <2>1, <2>11, FlushOutStep
  <2>12. CASE Finish
      BY <2>1, <2>12, FinishStep
  <2> QED
      BY <2>1, <2>2, <2>3, <2>4, <2>5, <2>6, <2>7, <2>8, <2>9, <2>10, <2>11, <2>12
         DEF DecompressStream
<1>2. CASE \E a \in Offers, r \in Rooms : Call(a, r)
    BY <1>2, CallStep
<1>3. CASE ResetSession
    BY <1>3, ResetStep
<1>4. CASE UNCHANGED callerVars
    BY <1>4, StutterStep
<1> QED
    BY <1>1, <1>2, <1>3, <1>4 DEF CallerNext

(* The inductive invariant holds.                                          *)
THEOREM DStreamInvariant == CallerSpec => []StreamInv
<1>1. CallerInit => StreamInv
    BY InitStreamInv
<1>2. StreamInv /\ [CallerNext]_callerVars => StreamInv'
    BY NextStreamInv
<1> QED
    BY <1>1, <1>2, PTL DEF CallerSpec

(* The variables have their types: no count of units or bytes becomes      *)
(* negative, though the hostage byte is taken back from what was consumed. *)
THEOREM DTypesCorrect == CallerSpec => []DTypeOK
<1>1. StreamInv => DTypeOK
  <2> SUFFICES ASSUME StreamInv PROVE DTypeOK
      OBVIOUS
  <2>1. Typed /\ Buffers /\ Len(Frames) \in Nat
      BY TotalIs DEF StreamInv
  <2>2. {iAvail, oRoom, taken, made, ret, lhSize, expected, inPos, outStart, outEnd,
         noForwardProgress, inBuffSize, outBuffSize, oversizedDuration, decoded,
         frameBase, block} \subseteq Nat
      BY <2>1 DEF Typed
  <2>3. frame \in 0 .. Len(Frames) + 1
      BY <2>1 DEF Typed
  <2> QED
      BY <2>1, <2>2, <2>3 DEF DTypeOK, Typed, Buffers
<1> QED
    BY <1>1, DStreamInvariant, PTL

(* The caller gets the content in order, each byte once, however input and *)
(* output are cut and wherever outBuff wraps.                              *)
THEOREM DeliveredInOrderSafe == CallerSpec => []DeliveredInOrder
<1>1. StreamInv => DeliveredInOrder
  <2> SUFFICES ASSUME StreamInv PROVE DeliveredInOrder
      OBVIOUS
  <2>1. Typed /\ Buffers /\ FlushInv
      BY DEF StreamInv
  <2>2. outStart \in Nat /\ outEnd \in Nat /\ Len(delivered) \in Nat
      BY <2>1 DEF Typed, Buffers
  <2>3. zStage = "flush" => outStart <= outEnd
      BY DEF StreamInv, Ring, Reading, RingInv
  <2>4. Len(delivered) <= decoded
      BY <2>1, <2>2, <2>3 DEF FlushInv
  <2> QED
      BY <2>1, <2>4 DEF FlushInv, DeliveredInOrder
<1> QED
    BY <1>1, DStreamInvariant, PTL

(* The bytes of the window are in outBuff, and none of them where the next *)
(* block, its literals or a copy that runs over may be written: those of   *)
(* the current lap lie before it, and those of the lap before end no more  *)
(* than a block short of the end of a ring that has room for two.          *)
THEOREM WindowIntactSafe == CallerSpec => []WindowIntact
<1>1. StreamInv => WindowIntact
  <2> SUFFICES ASSUME StreamInv, zStage \in {"read", "load"},
                      NEW s \in Larger(frameBase + 1, decoded + 1 - F.window) .. decoded
               PROVE  \E p \in DOMAIN outBuff \ Scribbled : outBuff[p] = s
      BY DEF WindowIntact
  <2>1. Frames \in Streams /\ InStream /\ Typed /\ Buffers /\ RingInv
      BY DEF StreamInv, Ring, Reading, PlaceInv
  <2>2. /\ outStart \in Nat /\ outEnd \in Nat /\ decoded \in Nat /\ frameBase \in Nat
        /\ outBuffSize \in Nat /\ outStart = outEnd /\ outEnd <= outBuffSize
        /\ frameBase + outEnd <= decoded
      BY <2>1 DEF Typed, RingInv
  <2>3. /\ blockSizeMax \in Nat /\ F.window \in Nat /\ Overlength \in Nat
      BY <2>1, CurrentFrame, SizesAre DEF FrameFields
  <2>4. DOMAIN outBuff = 0 .. outBuffSize - 1
      BY <2>1 DEF Buffers
  <2>5. s \in Int /\ frameBase < s /\ decoded - F.window < s /\ s <= decoded
      BY <2>2, <2>3 DEF Larger
  <2>6. CASE decoded - outEnd < s
    <3> DEFINE p == s - 1 - (decoded - outEnd)
    <3>1. p \in 0 .. outBuffSize - 1 /\ p < outEnd /\ s = decoded - outEnd + p + 1
        BY <2>2, <2>5, <2>6
    <3>2. p \notin Scribbled
        BY <2>2, <3>1 DEF Scribbled
    <3> HIDE DEF p
    <3>3. outBuff[p] = decoded - outEnd + p + 1
        BY <2>1, <2>4, <3>1 DEF RingInv
    <3> QED
        BY <2>4, <3>1, <3>2, <3>3
  <2>7. CASE s <= decoded - outEnd
    <3>1. LaterLap
        BY <2>1, <2>2, <2>5, <2>7 DEF RingInv, FirstLap
    <3>2. PICK E \in 0 .. outBuffSize :
             /\ E + blockSizeMax > outBuffSize
             /\ frameBase + E <= decoded - outEnd
             /\ \A p \in DOMAIN outBuff :
                   outStart + blockSizeMax + Overlength <= p /\ p < E =>
                       outBuff[p] = decoded - outEnd - E + p + 1
        BY <3>1 DEF LaterLap
    <3>3. outBuffSize >= F.window + 2 * blockSizeMax + 2 * Overlength
        BY <2>1, <2>2, <3>1, NeededSizes DEF LaterLap, Small, RingInv
    <3> DEFINE p == s - 1 - (decoded - outEnd - E)
    <3>4. /\ p \in Int /\ p < E /\ s = decoded - outEnd - E + p + 1
          /\ outStart + blockSizeMax + Overlength <= p
        BY <2>2, <2>3, <2>5, <2>7, <3>2, <3>3
    <3> HIDE DEF p
    <3>5. p \in 0 .. outBuffSize - 1
        BY <2>2, <2>3, <3>2, <3>4
    <3>6. p \notin Scribbled
        BY <2>2, <2>3, <3>4 DEF Scribbled
    <3>7. outBuff[p] = decoded - outEnd - E + p + 1
        BY <2>4, <3>2, <3>4, <3>5
    <3> QED
        BY <2>4, <3>4, <3>5, <3>6, <3>7
  <2> QED
      BY <2>2, <2>5, <2>6, <2>7
<1> QED
    BY <1>1, DStreamInvariant, PTL

=============================================================================
