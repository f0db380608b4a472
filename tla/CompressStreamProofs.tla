------------------------ MODULE CompressStreamProofs ------------------------
(***************************************************************************)
(* Proofs about CompressStream, for buffers, blocks, windows, slices and   *)
(* pledges of any size that SizesAssumption and OutLenIsBound admit.       *)
(***************************************************************************)
EXTENDS CompressStream, StreamContextProofs, SequenceTheorems

CodecLocations == {"codec", "endcodec"}

(* Where the codec is, and what output.dst and input.src look like there:  *)
(* every call of ZSTD_compressStream2 starts with an empty output buffer   *)
(* and with its input at the start of input.src.                           *)
ControlInv ==
    /\ cstep = "out" <=> pc \notin CodecLocations
    /\ cstep # "out" => in_pos <= ip /\ ip <= in_size
    /\ pc \in {"idle", "loop", "codec", "endcodec"} => out_pos = 0 /\ in_pos = 0
    /\ pc \in {"idle", "loop"} \/ cstep = "enter" => dst = <<>>
    /\ cstep = "enter" => ip = in_pos
    /\ cstep = "out" => out_pos = Len(dst)
    /\ Len(dst) <= OutLen
    /\ pc = "enddrain" => out_pos > 0
    /\ result = "codec_error" => pc = "failed"

(* The session's block size: full, or that of a frame whose content is     *)
(* known to fit in one block.                                              *)
BlockSizeInv ==
    /\ blockSizeMax > 0 /\ blockSizeMax <= InLen /\ blockSizeMax < inBuffSize
    /\ outBuffSize = CompressBound(blockSizeMax) + 1
    /\ \/ blockSizeMax = LeastOf(maxBlockSize, WindowSize)
       \/ pledgedPlusOne # 0 /\ pledgedPlusOne - 1 <= blockSizeMax
    /\ pc # "failed" /\ pledgedPlusOne # 0 => consumed < pledgedPlusOne

(* The ring: the target lies one block (one byte more for the first block  *)
(* of a frame of one block) behind inToCompress.                           *)
TargetInv ==
    /\ inToCompress <= inBuffPos
    /\ inBuffPos - inToCompress = Len(loaded)
    /\ inBuffPos <= inBuffTarget /\ inBuffTarget <= inBuffSize
    /\ pc # "failed" => inBuffPos < inBuffTarget
    /\ \/ inBuffTarget = inToCompress + blockSizeMax
       \/ /\ inBuffTarget = inToCompress + blockSizeMax + 1
          /\ pc # "failed" => pledgedPlusOne = blockSizeMax + 1 /\ consumed = 0

(* outBuff is in use only between a block that went there and its flush.   *)
FlushInv ==
    /\ streamStage = "load" => outBuff = <<>> /\ outFlushed = 0
    /\ streamStage = "flush" =>
         /\ loaded = <<>>
         /\ outFlushed < Len(outBuff) /\ Len(outBuff) <= outBuffSize
         /\ pc # "failed" => IF frameEnded THEN stage = "created" ELSE stage = "ongoing"
         /\ ~ frameEnded => /\ ToFlush <= FrameHdr + BlockHdr + blockSizeMax
                            /\ consumed >= blockSizeMax
    /\ streamStage = "load" /\ pc # "failed" => stage \in {"init", "ongoing"} /\ ~ frameEnded

SessionInv == streamStage # "init" => BlockSizeInv /\ TargetInv /\ FlushInv

(* Units of this call that are in output.dst or wait behind it.            *)
Produced == Len(dst) + IF streamStage = "flush" THEN ToFlush ELSE 0

(* What k full blocks and a frame header may take.                         *)
Largest(k) == FrameHdr + k * blockSizeMax + k * BlockHdr

(* While blocks are compressed: those the call has produced so far were    *)
(* full, and all of them but one took their bytes from input.src.          *)
WorkInv ==
    cstep \in {"enter", "work"} /\ streamStage # "init" =>
        IF streamStage = "flush" /\ frameEnded
        THEN ip = in_size /\ endOp = "end"
        ELSE \E k \in 0 .. consumed :
             /\ Produced <= Largest(k)
             /\ k = 0 => Produced = 0
             /\ k > 0 => (k - 1) * blockSizeMax <= ip /\ (streamStage = "load" => loaded = <<>>)
             /\ stage = "init" => k = 0
             /\ k * blockSizeMax <= consumed

(* compress_end needs no second call: what is left fits into output.dst.   *)
EndInv ==
    pc = "endcodec" /\ cstep \in {"enter", "work"} =>
        /\ streamStage = "init" => in_size = 0
        /\ streamStage = "load" =>
             Len(dst) + Len(loaded) + (in_size - ip) <= blockSizeMax
        /\ streamStage = "flush" /\ ~ frameEnded =>
             ip = 0 /\ dst = <<>> /\ ToFlush + in_size <= blockSizeMax
        /\ streamStage = "flush" /\ frameEnded =>
             ip = in_size /\ Produced <= OutLen

(* What a call leaves behind: nothing, or what is left to flush and to     *)
(* compress is together no more than a block.                              *)
Left(taken) ==
    /\ streamStage # "flush" => taken = in_size
    /\ streamStage = "flush" =>
         IF frameEnded THEN taken = in_size
                       ELSE ToFlush + (in_size - taken) <= blockSizeMax
ReturnInv ==
    /\ cstep = "return" =>
         /\ Thrifty(ip) /\ Left(ip)
         /\ streamStage # "flush" => ToFlush = 0
         /\ pc = "endcodec" => streamStage = "init" /\ Len(dst) > 0
         /\ endOp = "end" /\ streamStage # "init" => streamStage = "flush"
         /\ streamStage = "flush" /\ frameEnded => endOp = "end"
         /\ streamStage = "init" => pledgedPlusOne = 0 /\ endOp = "end"
    /\ pc \in {"drain", "enddrain"} => Left(in_pos)
    /\ pc = "enddrain" => streamStage = "init" /\ pledgedPlusOne = 0
    /\ pc \in {"loop", "idle"} => Left(0)
    /\ pc = "idle" => ~ (streamStage = "flush" /\ frameEnded)
    /\ pc \in {"drain", "loop"} /\ streamStage = "flush" /\ frameEnded =>
         last /\ rest_len = 0 /\ res # 0
    /\ pc \in {"drain", "loop"} /\ last /\ rest_len = 0 /\ res = 0 =>
         streamStage = "init" /\ pledgedPlusOne = 0
    /\ pc = "codec" => ~ (streamStage = "flush" /\ frameEnded /\ cstep = "enter")

(* A pledge the application did not make is that of a frame which is       *)
(* compressed by the very next step.                                       *)
PledgeInv ==
    /\ pc # "failed" /\ ~ pledging /\ pledgedPlusOne # 0 =>
         /\ cstep = "work" /\ streamStage = "load" /\ endOp = "end"
         /\ stage = "init" /\ inBuffPos = 0
         /\ dst = <<>> /\ ip = 0 /\ consumed = 0
         /\ pledgedPlusOne = in_size + 1
    /\ pc = "failed" /\ result = "codec_error" => pledging

CInv ==
    /\ CTypeOK /\ OrderInv /\ ControlInv /\ SessionInv
    /\ WorkInv /\ EndInv /\ ReturnInv /\ PledgeInv

-----------------------------------------------------------------------------
(* Arithmetic of blocks.                                                   *)

(* Products grow with their factors.                                       *)
LEMMA MulMonotone ==
    ASSUME NEW a \in Nat, NEW b \in Nat, NEW c \in Nat, a <= b
    PROVE  a * c <= b * c /\ c * a <= c * b
  OBVIOUS

(* What a quotient and its divisor make.                                   *)
LEMMA Division ==
    ASSUME NEW m \in Nat, NEW b \in Nat \ {0}
    PROVE  /\ m \div b \in Nat
           /\ b * (m \div b) <= m
           /\ m < b * (m \div b) + b
  OBVIOUS

(* The number of blocks n bytes take, rounded up.                          *)
LEMMA BlocksOfBounds ==
    ASSUME NEW n \in Nat, NEW b \in Nat \ {0}
    PROVE  /\ BlocksOf(n, b) \in Nat
           /\ n <= b * BlocksOf(n, b)
           /\ b * BlocksOf(n, b) < n + b
           /\ BlocksOf(n, b) <= n
           /\ n > 0 => BlocksOf(n, b) > 0
           /\ n > 0 /\ n <= b => BlocksOf(n, b) = 1
  <1> DEFINE q == BlocksOf(n, b)
  <1>1. n + b - 1 \in Nat
    OBVIOUS
  <1>2. q \in Nat /\ b * q <= n + b - 1 /\ n + b - 1 < b * q + b
    BY <1>1, Division DEF BlocksOf
  <1> HIDE DEF q
  <1>3. n <= b * q /\ b * q < n + b
    BY <1>2
  <1>4. n > 0 => q > 0
    BY <1>2, <1>3
  <1>5. q <= n
    <2>1. CASE q > n
      <3>1. b * (n + 1) <= b * q
        BY <1>2, <2>1, MulMonotone
      <3>2. b * (n + 1) = b * n + b
        OBVIOUS
      <3>3. 1 * n <= b * n
        BY MulMonotone
      <3> QED BY <1>2, <1>3, <3>1, <3>2, <3>3
    <2> QED BY <1>2, <2>1
  <1>6. n > 0 /\ n <= b => q = 1
    <2>1. CASE q > 1 /\ n <= b
      <3>1. b * 2 <= b * q
        BY <1>2, <2>1, MulMonotone
      <3> QED BY <1>2, <1>3, <2>1, <3>1
    <2> QED BY <1>2, <1>4, <2>1
  <1> QED BY <1>2, <1>3, <1>4, <1>5, <1>6 DEF q

(* More bytes never take fewer blocks.                                     *)
LEMMA BlocksOfMonotone ==
    ASSUME NEW n \in Nat, NEW m \in Nat, n <= m, NEW b \in Nat \ {0}
    PROVE  BlocksOf(n, b) <= BlocksOf(m, b)
  <1> DEFINE q == BlocksOf(n, b)
  <1> DEFINE r == BlocksOf(m, b)
  <1>1. q \in Nat /\ r \in Nat /\ m <= b * r /\ b * q < n + b
    BY BlocksOfBounds
  <1> HIDE DEF q, r
  <1>2. CASE r < q
    <2>1. b * (r + 1) <= b * q
      BY <1>1, <1>2, MulMonotone
    <2>2. b * (r + 1) = b * r + b
      BY <1>1
    <2> QED BY <1>1, <2>1, <2>2
  <1>3. CASE q <= r
    BY <1>3 DEF q, r
  <1> QED BY <1>1, <1>2, <1>3

(* The margin of ZSTD_compressBound pays for every header of InLen bytes.  *)
LEMMA MarginPays ==
    ASSUME NEW m \in MaxBlocks, NEW n \in 0 .. InLen
    PROVE  /\ LeastOf(m, WindowSize) \in 1 .. InLen
           /\ FrameHdr + Checksum + BlockHdr <= Margin
           /\ FrameHdr + Checksum + BlockHdr * BlocksOf(n, LeastOf(m, WindowSize)) <= Margin
  <1> DEFINE b == LeastOf(m, WindowSize)
  <1>1. b \in 1 .. InLen
    BY SizesAssumption, InLenAssumption DEF LeastOf
  <1>2. Margin >= FrameHdr + Checksum + BlockHdr * BlocksOf(InLen, b)
    BY SizesAssumption
  <1>3. /\ BlocksOf(InLen, b) \in Nat /\ BlocksOf(n, b) \in Nat
        /\ 1 <= BlocksOf(InLen, b) /\ BlocksOf(n, b) <= BlocksOf(InLen, b)
    <2>1. b \in Nat \ {0} /\ InLen \in Nat /\ n \in Nat /\ n <= InLen /\ InLen > 0
      BY <1>1, InLenAssumption
    <2> HIDE DEF b
    <2>2. BlocksOf(InLen, b) \in Nat /\ BlocksOf(InLen, b) > 0 /\ BlocksOf(n, b) \in Nat
      BY <2>1, BlocksOfBounds
    <2> QED BY <2>1, <2>2, BlocksOfMonotone
  <1> HIDE DEF b
  <1>4. BlockHdr \in Nat /\ FrameHdr \in Nat /\ Checksum \in Nat /\ Margin \in Nat
    BY SizesAssumption
  <1>5. /\ BlockHdr * 1 <= BlockHdr * BlocksOf(InLen, b)
        /\ BlockHdr * BlocksOf(n, b) <= BlockHdr * BlocksOf(InLen, b)
    BY <1>3, <1>4, MulMonotone
  <1>6. /\ BlockHdr * BlocksOf(n, b) \in Nat /\ BlockHdr * BlocksOf(InLen, b) \in Nat
        /\ BlockHdr * 1 = BlockHdr
    BY <1>3, <1>4
  <1> QED BY <1>1, <1>2, <1>4, <1>5, <1>6 DEF b

-----------------------------------------------------------------------------
(* The encoder's sizes.                                                    *)

SizesInNat ==
    /\ FrameHdr \in Nat \ {0} /\ BlockHdr \in Nat \ {0} /\ Checksum \in Nat
    /\ Margin \in Nat /\ WindowSize \in Nat \ {0} /\ InLen \in Nat \ {0}
    /\ OutLen = InLen + Margin + BlockHdr + Checksum
    /\ FrameHdr + Checksum + BlockHdr <= Margin

(* The constants are numbers, and one block's headers fit the margin.      *)
LEMMA SizesFacts == SizesInNat
  <1>1. PICK m \in MaxBlocks : TRUE
    BY SizesAssumption
  <1> QED BY <1>1, MarginPays, SizesAssumption, OutLenIsBound, InLenAssumption DEF SizesInNat

(* What n bytes become: nothing of nothing, and otherwise at most their    *)
(* own number and a header for each block.                                 *)
LEMMA BlockUnitsBounds ==
    ASSUME blockSizeMax \in Nat \ {0}, NEW n \in Nat, NEW c \in BlockUnits(n)
    PROVE  /\ c \in Nat
           /\ c <= n + BlockHdr * BlocksOf(n, blockSizeMax)
           /\ n = 0 => c = 0
           /\ n > 0 => c > BlockHdr
           /\ n > 0 /\ n <= blockSizeMax => c <= n + BlockHdr
  <1> DEFINE k == BlocksOf(n, blockSizeMax)
  <1>1. /\ k \in Nat /\ k <= n
        /\ n > 0 => k > 0
        /\ n > 0 /\ n <= blockSizeMax => k = 1
    BY BlocksOfBounds
  <1>2. IF n = 0 THEN c = 0 ELSE c \in {k * (BlockHdr + 1), n + k * BlockHdr}
    BY DEF BlockUnits
  <1> HIDE DEF k
  <1>3. BlockHdr \in Nat \ {0}
    BY SizesAssumption
  <1>4. /\ k * BlockHdr \in Nat /\ k * BlockHdr = BlockHdr * k
        /\ k * (BlockHdr + 1) = k * BlockHdr + k
    BY <1>1, <1>3
  <1>5. n > 0 => BlockHdr <= k * BlockHdr
    <2>1. CASE n > 0
      <3>1. 1 * BlockHdr <= k * BlockHdr
        BY <1>1, <1>3, <2>1, MulMonotone
      <3> QED BY <3>1, <1>3
    <2> QED BY <2>1
  <1> QED BY <1>1, <1>2, <1>3, <1>4, <1>5 DEF k

(* A chunk with its header and its end fits into what ZSTD_compressBound   *)
(* computes for it.                                                        *)
LEMMA ChunkFits ==
    ASSUME CTypeOK, BlockSizeInv,
           NEW n \in 0 .. InLen, NEW c \in BlockUnits(n), NEW fin \in BOOLEAN,
           n <= blockSizeMax \/ blockSizeMax = LeastOf(maxBlockSize, WindowSize)
    PROVE  /\ ChunkUnits(n, c, fin) \in Nat
           /\ ChunkUnits(n, c, fin) <= CompressBound(n)
           /\ fin => ChunkUnits(n, c, fin) > 0
           /\ n > 0 => ChunkUnits(n, c, fin) > 0
  <1>1. blockSizeMax \in Nat \ {0} /\ maxBlockSize \in MaxBlocks /\ n \in Nat
    BY DEF CTypeOK, BlockSizeInv
  <1> DEFINE k == BlockHdr * BlocksOf(n, blockSizeMax)
  <1>2. /\ c \in Nat /\ c <= n + k
        /\ n = 0 => c = 0
        /\ n > 0 => c > BlockHdr
        /\ n > 0 /\ n <= blockSizeMax => c <= n + BlockHdr
    BY <1>1, BlockUnitsBounds
  <1>3. blockSizeMax = LeastOf(maxBlockSize, WindowSize) => FrameHdr + Checksum + k <= Margin
    BY <1>1, MarginPays
  <1>4. SizesInNat /\ k \in Nat
    BY <1>1, SizesFacts, BlocksOfBounds DEF SizesInNat
  <1>5. c <= n + Margin - FrameHdr - Checksum
    <2> HIDE DEF k
    <2>1. CASE n <= blockSizeMax
      BY <1>2, <1>4, <2>1 DEF SizesInNat
    <2>2. CASE blockSizeMax = LeastOf(maxBlockSize, WindowSize)
      BY <1>2, <1>3, <1>4, <2>2 DEF SizesInNat
    <2> QED BY <2>1, <2>2
  <1> HIDE DEF k
  <1>6. HeaderUnits \in {0, FrameHdr}
    BY DEF HeaderUnits
  <1>7. EpilogueUnits(n) = IF n = 0 THEN BlockHdr + Checksum ELSE Checksum
    BY <1>4 DEF EpilogueUnits, SizesInNat
  <1>8. ChunkUnits(n, c, fin) = HeaderUnits + c + (IF fin THEN EpilogueUnits(n) ELSE 0)
    BY DEF ChunkUnits
  <1> HIDE DEF HeaderUnits, EpilogueUnits, ChunkUnits
  <1> QED BY <1>1, <1>2, <1>4, <1>5, <1>6, <1>7, <1>8 DEF SizesInNat, CompressBound

-----------------------------------------------------------------------------
(* Facts about a call that is working.                                     *)

(* The types of the numbers.                                               *)
NumbersTyped ==
    /\ ip \in 0 .. InLen /\ in_size \in 0 .. InLen /\ in_pos \in 0 .. in_size
    /\ out_pos \in 0 .. OutLen
    /\ pledgedPlusOne \in Nat /\ consumed \in Nat /\ blockSizeMax \in Nat
    /\ inBuffSize \in Nat /\ outBuffSize \in Nat /\ inBuffPos \in Nat
    /\ inToCompress \in Nat /\ inBuffTarget \in Nat /\ outFlushed \in Nat
    /\ emitted \in Nat /\ opened \in Nat /\ maxBlockSize \in MaxBlocks
    /\ eaten \in Nat /\ base \in Nat /\ rest_len \in Nat /\ res \in Nat
    /\ Len(dst) \in Nat /\ Len(loaded) \in Nat /\ Len(outBuff) \in Nat
    /\ SizesInNat

(* The numbers of a state that satisfies the invariant.                    *)
LEMMA NumberTypes == ASSUME CInv PROVE NumbersTyped
  <1>1. dst \in Seq(Nat) /\ loaded \in Seq(Nat) /\ outBuff \in Seq(Nat)
    BY DEF CInv, CTypeOK
  <1>2. Len(dst) \in Nat /\ Len(loaded) \in Nat /\ Len(outBuff) \in Nat
    BY <1>1
  <1>3. CTypeOK /\ TypeOK /\ BuffersInBounds
    BY DEF CInv, OrderInv, BoundsInv
  <1> QED BY <1>2, <1>3, SizesFacts DEF CTypeOK, TypeOK, BuffersInBounds, NumbersTyped

(* Loading: what there is to take and where it goes.                       *)
LEMMA LoadFacts ==
    ASSUME CInv, Working("load")
    PROVE  /\ Available \in Nat /\ Available = in_size - ip /\ Available <= InLen
           /\ ToLoad \in Nat /\ ToLoad <= Available
           /\ inBuffPos + ToLoad <= inBuffTarget
           /\ ToLoad < Available => inBuffPos + ToLoad = inBuffTarget
           /\ Len(loaded) \in Nat /\ inBuffPos = inToCompress + Len(loaded)
  <1>1. in_pos <= ip /\ ip <= in_size
    BY DEF CInv, ControlInv, Working
  <1>2. TargetInv
    <2>1. streamStage # "init"
      BY DEF Working
    <2> QED BY <2>1 DEF CInv, SessionInv
  <1>3. NumbersTyped
    BY NumberTypes
  <1>4. /\ Available \in Nat /\ Available = in_size - ip /\ Available <= InLen
    BY <1>1, <1>3 DEF NumbersTyped, SizesInNat, Available
  <1>5. /\ inBuffTarget - inBuffPos \in Nat /\ Len(loaded) \in Nat
        /\ inBuffPos = inToCompress + Len(loaded)
    BY <1>2, <1>3 DEF NumbersTyped, TargetInv
  <1>6. inBuffPos \in Nat /\ inBuffTarget \in Nat
    BY <1>3 DEF NumbersTyped
  <1> QED BY <1>4, <1>5, <1>6 DEF ToLoad, LeastOf

(* What the caller's buffer offers are bytes of input.src.                 *)
LEMMA OfferedFacts ==
    ASSUME CInv, Working("load"), NEW n \in Nat, n <= Available
    PROVE  /\ Offered(n) \in Seq(Nat) /\ Len(Offered(n)) = n
           /\ \A i \in 1 .. n : Offered(n)[i] = in_src[ip + i - 1]
  <1>0. ip \in Nat /\ in_size \in Nat /\ in_size <= InLen /\ n <= in_size - ip
    BY NumberTypes, LoadFacts DEF NumbersTyped
  <1>1. \A i \in 1 .. n : ip + i - 1 \in Indices
    BY <1>0, InLenAssumption DEF Indices
  <1>2. \A i \in 1 .. n : in_src[ip + i - 1] \in Nat
    BY <1>1 DEF CInv, CTypeOK, TypeOK
  <1>3. Offered(n) \in [1 .. n -> Nat]
    BY <1>2 DEF Offered
  <1> QED BY <1>3 DEF Offered

(* A block consists of what was loaded and what is loaded now.             *)
LEMMA AllLoadedFacts ==
    ASSUME CInv, Working("load")
    PROVE  AllLoaded \in Seq(Nat) /\ Len(AllLoaded) = Len(loaded) + ToLoad
  <1>1. loaded \in Seq(Nat)
    BY DEF CInv, CTypeOK
  <1>2. Offered(ToLoad) \in Seq(Nat) /\ Len(Offered(ToLoad)) = ToLoad
    BY LoadFacts, OfferedFacts
  <1> QED BY <1>1, <1>2 DEF AllLoaded

(* A block that is encoded: full unless it is the last, and never larger   *)
(* than the block size, because a larger one would break the pledge that   *)
(* allowed it.                                                             *)
LEMMA BlockFacts ==
    ASSUME CInv, BlockReady,
           NEW n, n = Len(AllLoaded), NEW c \in BlockUnits(n),
           NEW capacity, Encodes(n, c, LastBlock, capacity)
    PROVE  /\ n \in Nat /\ n = Len(loaded) + ToLoad /\ n <= blockSizeMax
           /\ ~ LastBlock => n = blockSizeMax
           /\ LastBlock => endOp = "end" /\ ip + ToLoad = in_size
           /\ ChunkUnits(n, c, LastBlock) \in Nat
           /\ ChunkUnits(n, c, LastBlock) > 0
           /\ ChunkUnits(n, c, LastBlock) <= capacity
           /\ ChunkUnits(n, c, LastBlock) <= HeaderUnits + n + BlockHdr + Checksum
           /\ ~ LastBlock => ChunkUnits(n, c, LastBlock) <= HeaderUnits + n + BlockHdr
           /\ pledgedPlusOne # 0 => consumed + n < pledgedPlusOne
  <1>1. Working("load") /\ pc # "failed" /\ streamStage = "load"
    BY DEF BlockReady, Working, InCodec
  <1>2. NumbersTyped /\ SizesInNat
    BY NumberTypes DEF NumbersTyped
  <1>3. BlockSizeInv /\ TargetInv
    BY <1>1 DEF CInv, SessionInv
  <1>4. n \in Nat /\ n = Len(loaded) + ToLoad
    <2>1. ToLoad \in Nat /\ Len(loaded) \in Nat
      BY <1>1, LoadFacts
    <2> QED BY <1>1, <2>1, AllLoadedFacts
  <1>5. /\ ToLoad \in Nat /\ inBuffPos + ToLoad <= inBuffTarget
        /\ inBuffPos = inToCompress + Len(loaded) /\ Len(loaded) \in Nat
        /\ ToLoad <= Available /\ Available = in_size - ip
        /\ ToLoad < Available => inBuffPos + ToLoad = inBuffTarget
    BY <1>1, LoadFacts
  <1>6. n > 0 /\ pledgedPlusOne # 0 => consumed + n + 1 <= pledgedPlusOne
    BY DEF Encodes
  <1>7. n <= blockSizeMax
    BY <1>1, <1>2, <1>3, <1>4, <1>5, <1>6 DEF NumbersTyped, TargetInv
  <1>8. LastBlock => endOp = "end" /\ ip + ToLoad = in_size
    BY DEF LastBlock
  <1>9. ~ LastBlock => n = blockSizeMax
    <2>1. CASE ~ LastBlock
      <3>1. inBuffPos + ToLoad = inBuffTarget
        <4>1. endOp = "end" => ip + ToLoad # in_size
          BY <2>1 DEF LastBlock
        <4>2. endOp = "end" \/ inBuffPos + ToLoad >= inBuffTarget
          BY DEF BlockReady
        <4> QED BY <1>2, <1>5, <4>1, <4>2 DEF NumbersTyped
      <3> QED BY <1>1, <1>2, <1>3, <1>4, <1>5, <1>7, <3>1 DEF NumbersTyped, TargetInv
    <2> QED BY <2>1
  <1>10. /\ c \in Nat
         /\ n = 0 => c = 0
         /\ n > 0 => c > BlockHdr /\ c <= n + BlockHdr
    <2>1. blockSizeMax \in Nat \ {0}
      BY <1>2, <1>3 DEF NumbersTyped, BlockSizeInv
    <2> QED BY <1>4, <1>7, <2>1, BlockUnitsBounds
  <1>11. blockSizeMax \in Nat /\ blockSizeMax > 0
    BY <1>2, <1>3 DEF NumbersTyped, BlockSizeInv
  <1>12. HeaderUnits \in Nat
    BY <1>2 DEF HeaderUnits, SizesInNat
  <1>13. /\ EpilogueUnits(n) = (IF n = 0 THEN BlockHdr ELSE 0) + Checksum
         /\ ChunkUnits(n, c, LastBlock)
              = HeaderUnits + c + IF LastBlock THEN EpilogueUnits(n) ELSE 0
    BY DEF EpilogueUnits, ChunkUnits
  <1>14. ChunkUnits(n, c, LastBlock) <= capacity
    BY DEF Encodes
  <1>15. pledgedPlusOne # 0 => consumed + n < pledgedPlusOne
    BY <1>1, <1>2, <1>3, <1>4, <1>6 DEF NumbersTyped, BlockSizeInv
  <1> HIDE DEF LastBlock
  <1>16. /\ ChunkUnits(n, c, LastBlock) \in Nat
         /\ ChunkUnits(n, c, LastBlock) > 0
         /\ ChunkUnits(n, c, LastBlock) <= HeaderUnits + n + BlockHdr + Checksum
         /\ ~ LastBlock => ChunkUnits(n, c, LastBlock) <= HeaderUnits + n + BlockHdr
    <2> DEFINE u == ChunkUnits(n, c, LastBlock)
    <2>1. CASE LastBlock
      <3>1. u = HeaderUnits + c + ((IF n = 0 THEN BlockHdr ELSE 0) + Checksum)
        BY <1>13, <2>1
      <3> HIDE DEF u
      <3>2. u \in Nat /\ u > 0 /\ u <= HeaderUnits + n + BlockHdr + Checksum
        BY <1>2, <1>4, <1>10, <1>12, <3>1 DEF SizesInNat
      <3> QED BY <2>1, <3>2 DEF u
    <2>2. CASE ~ LastBlock
      <3>1. u = HeaderUnits + c
        BY <1>10, <1>12, <1>13, <2>2
      <3> HIDE DEF u
      <3>2. u \in Nat /\ u > 0 /\ u <= HeaderUnits + n + BlockHdr
        BY <1>2, <1>4, <1>9, <1>10, <1>11, <1>12, <2>2, <3>1 DEF SizesInNat
      <3>3. u <= HeaderUnits + n + BlockHdr + Checksum
        BY <1>2, <1>4, <1>12, <3>2 DEF SizesInNat
      <3> QED BY <3>2, <3>3 DEF u
    <2> QED BY <2>1, <2>2
  <1> QED BY <1>4, <1>7, <1>8, <1>9, <1>14, <1>15, <1>16

-----------------------------------------------------------------------------
(* One lemma for each step.  The part of the invariant that is about the   *)
(* wrapper's own variables follows from StreamContextProofs.               *)

CodecInv ==
    /\ CTypeOK /\ ControlInv /\ SessionInv
    /\ WorkInv /\ EndInv /\ ReturnInv /\ PledgeInv

(* A chunk has as many units as were counted for it.                       *)
LEMMA UnitsFacts ==
    ASSUME CInv, NEW k \in Nat
    PROVE  Units(k) \in Seq(Nat) /\ Len(Units(k)) = k
  <1>0. emitted \in Nat
    <2>1. NumbersTyped
      BY NumberTypes
    <2> QED BY <2>1 DEF NumbersTyped
  <1>1. \A i \in 1 .. k : emitted + i \in Nat
    BY <1>0
  <1>2. Units(k) \in [1 .. k -> Nat]
    BY <1>1 DEF Units
  <1> QED BY <1>2 DEF Units

CodedItem == [upto : Nat, begins : BOOLEAN, fin : BOOLEAN, size : Nat \union {Unknown}]

(* The encoder's bookkeeping keeps its types.                              *)
LEMMA EncodedFacts ==
    ASSUME CInv, NEW bytes \in Seq(Nat), NEW c, NEW fin \in BOOLEAN,
           ChunkUnits(Len(bytes), c, fin) \in Nat, Encoded(bytes, c, fin)
    PROVE  /\ stage' = IF fin THEN "created" ELSE "ongoing"
           /\ consumed' = consumed + Len(bytes)
           /\ consumed' \in Nat /\ emitted' \in Nat
           /\ encoded' \in Seq(Nat) /\ coded' \in Seq(CodedItem)
  <1>1. Len(bytes) \in Nat
    OBVIOUS
  <1>2. encoded \in Seq(Nat) /\ coded \in Seq(CodedItem)
    BY DEF CInv, CTypeOK, CodedItem
  <1>3. encoded' \in Seq(Nat) /\ Len(encoded') \in Nat
    BY <1>2 DEF Encoded
  <1>4. DeclaredSize \in Nat \union {Unknown}
    <2>1. NumbersTyped
      BY NumberTypes
    <2> QED BY <2>1 DEF NumbersTyped, DeclaredSize
  <1>5. [upto |-> Len(encoded'), begins |-> stage = "init",
         fin |-> fin, size |-> DeclaredSize] \in CodedItem
    BY <1>3, <1>4 DEF CodedItem
  <1>6. coded' \in Seq(CodedItem)
    BY <1>2, <1>5 DEF Encoded
  <1>7. consumed \in Nat /\ emitted \in Nat
    BY NumberTypes DEF NumbersTyped
  <1>8. consumed' \in Nat /\ emitted' \in Nat
    BY <1>1, <1>7 DEF Encoded
  <1> QED BY <1>3, <1>6, <1>8 DEF Encoded

(* The beginning of a frame.                                               *)
LEMMA InitStreamStep ==
    ASSUME CInv, InitStream
    PROVE  CodecInv'
  <1> DEFINE pledge == IF endOp = "end" THEN in_size - in_pos + 1 ELSE pledgedPlusOne
             least == IF pledge # 0 THEN LeastOf(WindowSize, pledge - 1) ELSE WindowSize
             window == IF least = 0 THEN 1 ELSE least
             block == LeastOf(maxBlockSize, window)
  <1>1. NumbersTyped /\ SizesInNat
    BY NumberTypes DEF NumbersTyped
  <1>2. /\ pc \in CodecLocations /\ cstep = "enter" /\ streamStage = "init"
        /\ cstep' = "work" /\ streamStage' = "load"
        /\ stage' = "init" /\ consumed' = 0
        /\ loaded' = <<>> /\ outBuff' = <<>>
        /\ inBuffPos' = 0 /\ inToCompress' = 0 /\ outFlushed' = 0 /\ frameEnded' = FALSE
        /\ UNCHANGED <<vars, ip, dst, historyVars, maxBlockSize, appVars>>
    BY DEF InitStream, InCodec, CodecLocations
  <1>3. /\ pledgedPlusOne' = pledge /\ blockSizeMax' = block
        /\ inBuffSize' = window + block /\ outBuffSize' = CompressBound(block) + 1
        /\ inBuffTarget' = block + (IF pledge # 0 /\ block = pledge - 1 THEN 1 ELSE 0)
    BY DEF InitStream
  <1>4. /\ in_pos = 0 /\ out_pos = 0 /\ dst = <<>> /\ ip = 0
        /\ result # "codec_error" /\ Len(dst) = 0
    BY <1>2 DEF CInv, ControlInv, CodecLocations
  <1>5. /\ pc' = pc /\ in_pos' = in_pos /\ in_size' = in_size /\ out_pos' = out_pos
        /\ last' = last /\ rest_len' = rest_len /\ res' = res /\ result' = result
        /\ ip' = ip /\ dst' = dst /\ maxBlockSize' = maxBlockSize
        /\ opened' = opened /\ pledging' = pledging /\ drained' = drained
        /\ UNCHANGED <<emitted, encoded, coded>>
    BY <1>2 DEF vars, appVars, historyVars
  <1>6. maxBlockSize \in 1 .. InLen
    BY <1>1, SizesAssumption DEF NumbersTyped
  <1>7. endOp \in {"end", "continue"} /\ endOp' = endOp
    BY <1>5 DEF endOp
  <1>8. /\ pledge \in Nat /\ window \in Nat /\ window > 0 /\ window <= WindowSize
        /\ block \in 1 .. InLen
        /\ pledge # 0 => pledge - 1 <= window \/ window = WindowSize
        /\ pledge = 0 => window = WindowSize
    BY <1>1, <1>4, <1>6, <1>7 DEF NumbersTyped, SizesInNat, LeastOf
  <1>9. /\ block = LeastOf(maxBlockSize, WindowSize) \/ (pledge # 0 /\ pledge - 1 <= block)
        /\ block <= window
    BY <1>1, <1>6, <1>8 DEF SizesInNat, LeastOf
  <1>10. endOp = "end" => pledge = in_size + 1
    BY <1>1, <1>4 DEF NumbersTyped
  <1>11. endOp # "end" => pledge = pledgedPlusOne
    OBVIOUS
  <1> HIDE DEF pledge, least, window, block
  <1>12. Len(loaded') = 0 /\ Len(outBuff') = 0 /\ loaded' \in Seq(Nat) /\ outBuff' \in Seq(Nat)
    BY <1>2
  <1>13. CTypeOK'
    <2>1. CTypeOK /\ TypeOK'
      BY <1>2 DEF CInv, CTypeOK, TypeOK, vars
    <2>2. {pledgedPlusOne', consumed', blockSizeMax', inBuffSize', outBuffSize', inBuffPos',
           inToCompress', inBuffTarget', outFlushed', emitted', opened'} \subseteq Nat
      BY <1>1, <1>2, <1>3, <1>5, <1>8 DEF NumbersTyped, SizesInNat, CompressBound
    <2> QED BY <1>2, <1>5, <1>12, <2>1, <2>2 DEF CTypeOK
  <1>14. ControlInv'
    BY <1>1, <1>2, <1>4, <1>5 DEF CInv, ControlInv, NumbersTyped, CodecLocations
  <1>15. SessionInv'
    <2>1. BlockSizeInv'
      BY <1>1, <1>2, <1>3, <1>5, <1>8, <1>9 DEF BlockSizeInv, CompressBound, SizesInNat
    <2>2. TargetInv'
      BY <1>2, <1>3, <1>8, <1>9, <1>12 DEF TargetInv
    <2>3. FlushInv'
      BY <1>2 DEF FlushInv
    <2> QED BY <2>1, <2>2, <2>3 DEF SessionInv
  <1>16. WorkInv'
    <2>1. Produced' = 0 /\ 0 \in 0 .. consumed' /\ consumed' = 0
      BY <1>2, <1>4, <1>5 DEF Produced
    <2>2. Largest(0)' >= 0 /\ 0 * blockSizeMax' = 0
      BY <1>1, <1>3, <1>8 DEF Largest, SizesInNat
    <2> QED BY <1>2, <2>1, <2>2 DEF WorkInv
  <1>17. EndInv'
    BY <1>1, <1>2, <1>3, <1>4, <1>5, <1>8, <1>12 DEF CInv, EndInv, NumbersTyped
  <1>18. ReturnInv'
    BY <1>2, <1>5 DEF ReturnInv, CodecLocations
  <1>19. PledgeInv'
    BY <1>1, <1>2, <1>3, <1>4, <1>5, <1>7, <1>10, <1>11
    DEF CInv, PledgeInv, CodecLocations
  <1> QED BY <1>13, <1>14, <1>15, <1>16, <1>17, <1>18, <1>19 DEF CodecInv

(* What a step of the codec leaves alone.                                  *)
LEMMA CallKept ==
    ASSUME CInv, UNCHANGED vars
    PROVE  /\ pc' = pc /\ in_src' = in_src /\ in_size' = in_size /\ in_pos' = in_pos
           /\ out_pos' = out_pos /\ last' = last /\ rest_len' = rest_len
           /\ res' = res /\ result' = result /\ base' = base /\ eaten' = eaten
           /\ endOp' = endOp /\ TypeOK'
  <1>1. TypeOK
    BY DEF CInv, CTypeOK
  <1>2. TypeOK'
    BY <1>1 DEF TypeOK, vars
  <1> QED BY <1>2 DEF vars, endOp

(* The session as it is, in a step that is not about it.                   *)
SessionKept == UNCHANGED <<sessionVars, ringVars, flushVars, maxBlockSize>>

(* SessionInv is about the session's own variables.                        *)
LEMMA SessionFrame ==
    ASSUME CInv, SessionKept, pc # "failed"
    PROVE  SessionInv'
  <1>1. SessionInv
    BY DEF CInv
  <1>2. ToFlush' = ToFlush
    BY DEF SessionKept, flushVars, ToFlush
  <1> QED BY <1>1, <1>2 DEF SessionInv, SessionKept, sessionVars, ringVars, flushVars,
                            BlockSizeInv, TargetInv, FlushInv, CompressBound

(* The types of everything but the wrapper's variables.                    *)
LEMMA TypesFrame ==
    ASSUME CInv, TypeOK', SessionKept, UNCHANGED historyVars, UNCHANGED <<ip, dst>>,
           UNCHANGED appVars, cstep' \in {"out", "enter", "work", "return"}
    PROVE  CTypeOK'
  <1>1. CTypeOK
    BY DEF CInv
  <1> QED BY <1>1 DEF CTypeOK, SessionKept, sessionVars, ringVars, flushVars,
                      historyVars, appVars

(* A session that goes on.                                                 *)
LEMMA ResumeStreamStep ==
    ASSUME CInv, ResumeStream
    PROVE  CodecInv'
  <1>1. /\ pc \in CodecLocations /\ cstep = "enter" /\ streamStage # "init"
        /\ cstep' = "work" /\ pc # "failed" /\ pc # "idle" /\ pc # "loop"
        /\ UNCHANGED <<vars, ip, dst, cctxVars, appVars>>
    BY DEF ResumeStream, InCodec, CodecLocations
  <1>2. SessionKept /\ UNCHANGED historyVars /\ UNCHANGED appVars /\ UNCHANGED <<ip, dst>>
    BY <1>1 DEF cctxVars, SessionKept
  <1>3. /\ pc' = pc /\ in_size' = in_size /\ in_pos' = in_pos
        /\ out_pos' = out_pos /\ last' = last /\ rest_len' = rest_len
        /\ res' = res /\ result' = result /\ endOp' = endOp /\ TypeOK'
    BY <1>1, CallKept
  <1>4. /\ streamStage' = streamStage /\ stage' = stage /\ frameEnded' = frameEnded
        /\ loaded' = loaded /\ consumed' = consumed /\ blockSizeMax' = blockSizeMax
        /\ outBuff' = outBuff /\ outFlushed' = outFlushed
        /\ pledgedPlusOne' = pledgedPlusOne /\ pledging' = pledging
        /\ inBuffPos' = inBuffPos
    BY <1>2 DEF SessionKept, sessionVars, ringVars, flushVars, appVars
  <1>5. CTypeOK'
    BY <1>1, <1>2, <1>3, TypesFrame
  <1>6. ControlInv'
    BY <1>1, <1>2, <1>3 DEF CInv, ControlInv
  <1>7. SessionInv'
    BY <1>1, <1>2, SessionFrame
  <1>8. WorkInv'
    <2>1. Produced' = Produced /\ \A k \in Nat : Largest(k)' = Largest(k)
      BY <1>2, <1>4 DEF Produced, ToFlush, Largest
    <2> QED BY <1>1, <1>2, <1>3, <1>4, <2>1 DEF CInv, WorkInv
  <1>9. EndInv'
    <2>1. Produced' = Produced /\ ToFlush' = ToFlush
      BY <1>2, <1>4 DEF Produced, ToFlush
    <2> QED BY <1>1, <1>2, <1>3, <1>4, <2>1 DEF CInv, EndInv
  <1>10. ReturnInv'
    BY <1>1, <1>3 DEF ReturnInv, CodecLocations
  <1>11. PledgeInv'
    BY <1>1, <1>3, <1>4 DEF CInv, PledgeInv, CodecLocations
  <1> QED BY <1>5, <1>6, <1>7, <1>8, <1>9, <1>10, <1>11 DEF CodecInv

(* After a frame was finished the session waits for the next one.          *)
LEMMA FrameFinished ==
    ASSUME streamStage' = "init", pledgedPlusOne' = 0, cstep' = "return",
           pc' \in CodecLocations, endOp' = "end", ip' = in_size', in_size' \in Nat,
           outBuff' = <<>>, outFlushed' = 0, Len(dst') > 0
    PROVE  SessionInv' /\ WorkInv' /\ EndInv' /\ ReturnInv' /\ (pc' # "failed" => PledgeInv')
  <1>1. SessionInv' /\ WorkInv' /\ EndInv' /\ (pc' # "failed" => PledgeInv')
    BY DEF SessionInv, WorkInv, EndInv, PledgeInv
  <1>2. ToFlush' = 0
    <2>1. Len(outBuff') = 0
      OBVIOUS
    <2> QED BY <2>1 DEF ToFlush
  <1>3. Thrifty(ip)' /\ Left(ip)'
    BY DEF Thrifty, Left
  <1>4. ReturnInv'
    BY <1>2, <1>3 DEF ReturnInv, CodecLocations
  <1> QED BY <1>1, <1>4

(* The rest of the frame straight from the caller's buffer to the caller's *)
(* buffer.                                                                 *)
LEMMA ShortcutStep ==
    ASSUME CInv, Shortcut
    PROVE  CodecInv'
  <1>1. /\ Working("load") /\ endOp = "end" /\ oSize >= CompressBound(Available)
        /\ inBuffPos = 0 /\ pc \in CodecLocations /\ streamStage = "load"
        /\ cstep = "work" /\ pc # "failed"
    BY DEF Shortcut, MayShortcut, Working, InCodec, CodecLocations
  <1>2. PICK c \in BlockUnits(Available) :
          /\ Encodes(Available, c, TRUE, oSize)
          /\ Encoded(Offered(Available), c, TRUE)
          /\ dst' = dst \o Units(ChunkUnits(Available, c, TRUE))
          /\ ip' = in_size
          /\ frameEnded' = TRUE
          /\ SessionReset
          /\ cstep' = "return"
          /\ UNCHANGED <<vars, blockSizeMax, inBuffSize, outBuffSize, ringVars,
                         outBuff, outFlushed, maxBlockSize, appVars>>
    BY DEF Shortcut
  <1>3. /\ pc' = pc /\ in_size' = in_size /\ in_pos' = in_pos
        /\ out_pos' = out_pos /\ result' = result /\ endOp' = endOp /\ TypeOK'
    BY <1>2, CallKept
  <1>4. NumbersTyped /\ SizesInNat /\ BlockSizeInv /\ FlushInv
    <2>1. streamStage # "init"
      BY <1>1
    <2> QED BY <2>1, NumberTypes DEF NumbersTyped, CInv, SessionInv
  <1>5. Available \in Nat /\ Available <= InLen /\ in_pos <= ip /\ ip <= in_size
    BY <1>1, LoadFacts DEF CInv, ControlInv
  <1> DEFINE u == ChunkUnits(Available, c, TRUE)
  <1>6. u \in Nat /\ u > 0 /\ u <= oSize
    <2>1. c \in Nat /\ (Available = 0 => c = 0) /\ (Available > 0 => c > BlockHdr)
      <3>1. blockSizeMax \in Nat \ {0}
        BY <1>4 DEF NumbersTyped, BlockSizeInv
      <3> QED BY <1>5, <3>1, BlockUnitsBounds
    <2>2. u <= oSize
      BY <1>2 DEF Encodes
    <2>3. HeaderUnits \in Nat /\ EpilogueUnits(Available) \in Nat
          /\ (Available = 0 => EpilogueUnits(Available) > 0)
      BY <1>4, <1>5 DEF HeaderUnits, EpilogueUnits, SizesInNat
    <2>4. u = HeaderUnits + c + EpilogueUnits(Available)
      BY DEF ChunkUnits
    <2> HIDE DEF u
    <2> QED BY <1>4, <1>5, <2>1, <2>2, <2>3, <2>4 DEF SizesInNat
  <1>7. Units(u) \in Seq(Nat) /\ Len(Units(u)) = u
    BY <1>6, UnitsFacts
  <1>8. dst \in Seq(Nat) /\ dst' = dst \o Units(u)
    BY <1>2 DEF CInv, CTypeOK
  <1>9. Offered(Available) \in Seq(Nat) /\ Len(Offered(Available)) = Available
    BY <1>1, <1>5, OfferedFacts
  <1> HIDE DEF u
  <1>10. dst' \in Seq(Nat) /\ Len(dst') = Len(dst) + u
    BY <1>7, <1>8
  <1>11. Len(dst') > 0 /\ Len(dst') <= OutLen
    BY <1>4, <1>6, <1>10 DEF oSize, op, NumbersTyped, SizesInNat
  <1>12. /\ stage' = "created" /\ consumed' \in Nat /\ emitted' \in Nat
         /\ encoded' \in Seq(Nat) /\ coded' \in Seq(CodedItem)
    BY <1>2, <1>6, <1>9, EncodedFacts DEF u
  <1>13. /\ streamStage' = "init" /\ pledgedPlusOne' = 0 /\ ip' = in_size
         /\ cstep' = "return" /\ frameEnded' = TRUE
         /\ UNCHANGED <<blockSizeMax, inBuffSize, outBuffSize, loaded, inBuffPos,
                        inToCompress, inBuffTarget, outBuff, outFlushed, maxBlockSize,
                        drained, opened, pledging>>
    BY <1>2 DEF SessionReset, ringVars, appVars
  <1>14. CTypeOK'
    <2>1. CTypeOK
      BY DEF CInv
    <2>2. ip' \in 0 .. InLen
      BY <1>4, <1>13 DEF NumbersTyped
    <2>3. coded' \in Seq([upto : Nat, begins : BOOLEAN, fin : BOOLEAN,
                          size : Nat \union {Unknown}])
      BY <1>12 DEF CodedItem
    <2> QED BY <1>3, <1>10, <1>12, <1>13, <2>1, <2>2, <2>3 DEF CTypeOK
  <1>17. ControlInv'
    BY <1>1, <1>3, <1>4, <1>5, <1>11, <1>13
    DEF CInv, ControlInv, CodecLocations, NumbersTyped
  <1>15. outBuff' = <<>> /\ outFlushed' = 0
    BY <1>1, <1>2, <1>4 DEF FlushInv
  <1>16. SessionInv' /\ WorkInv' /\ EndInv' /\ ReturnInv' /\ PledgeInv'
    BY <1>1, <1>2, <1>3, <1>4, <1>11, <1>15, FrameFinished DEF SessionReset, NumbersTyped
  <1> QED BY <1>14, <1>16, <1>17 DEF CodecInv

(* Input that does not fill a block is kept.                               *)
LEMMA LoadAndStopStep ==
    ASSUME CInv, LoadAndStop
    PROVE  CodecInv'
  <1>1. /\ Working("load") /\ endOp = "continue" /\ streamStage = "load"
        /\ pc \in CodecLocations /\ cstep = "work" /\ pc # "failed"
    BY DEF LoadAndStop, Working, InCodec, CodecLocations
  <1>2. /\ inBuffPos + ToLoad < inBuffTarget
        /\ loaded' = AllLoaded
        /\ inBuffPos' = inBuffPos + ToLoad
        /\ ip' = ip + ToLoad
        /\ cstep' = "return"
        /\ UNCHANGED <<vars, dst, sessionVars, inToCompress, inBuffTarget, flushVars,
                       historyVars, maxBlockSize, appVars>>
    BY DEF LoadAndStop
  <1>3. /\ pc' = pc /\ in_size' = in_size /\ in_pos' = in_pos
        /\ out_pos' = out_pos /\ result' = result /\ endOp' = endOp /\ TypeOK'
    BY <1>2, CallKept
  <1>4. NumbersTyped /\ SizesInNat /\ BlockSizeInv /\ TargetInv /\ FlushInv
    <2>1. streamStage # "init"
      BY <1>1
    <2> QED BY <2>1, NumberTypes DEF NumbersTyped, CInv, SessionInv
  <1>5. /\ Available = in_size - ip /\ ToLoad \in Nat /\ ToLoad <= Available
        /\ ToLoad < Available => inBuffPos + ToLoad = inBuffTarget
        /\ Len(loaded) \in Nat /\ in_pos <= ip /\ ip <= in_size
    BY <1>1, LoadFacts DEF CInv, ControlInv
  <1>6. AllLoaded \in Seq(Nat) /\ Len(AllLoaded) = Len(loaded) + ToLoad
    BY <1>1, AllLoadedFacts
  <1>7. ip' = in_size /\ in_size \in Nat
    BY <1>2, <1>4, <1>5 DEF NumbersTyped
  <1>8. /\ streamStage' = streamStage /\ stage' = stage /\ frameEnded' = frameEnded
        /\ consumed' = consumed /\ blockSizeMax' = blockSizeMax
        /\ inBuffSize' = inBuffSize /\ outBuffSize' = outBuffSize
        /\ outBuff' = outBuff /\ outFlushed' = outFlushed
        /\ pledgedPlusOne' = pledgedPlusOne /\ pledging' = pledging
        /\ maxBlockSize' = maxBlockSize /\ inToCompress' = inToCompress
        /\ inBuffTarget' = inBuffTarget
    BY <1>2 DEF sessionVars, flushVars, appVars
  <1>9. CTypeOK'
    <2>1. CTypeOK
      BY DEF CInv
    <2>2. ip' \in 0 .. InLen /\ inBuffPos' \in Nat /\ loaded' \in Seq(Nat)
      BY <1>2, <1>4, <1>5, <1>6, <1>7 DEF NumbersTyped
    <2> QED BY <1>2, <1>3, <2>1, <2>2
            DEF CTypeOK, sessionVars, flushVars, historyVars, appVars
  <1>10. ControlInv'
    BY <1>1, <1>2, <1>3, <1>4, <1>5, <1>7
    DEF CInv, ControlInv, CodecLocations, NumbersTyped
  <1>11. SessionInv'
    <2>1. BlockSizeInv'
      BY <1>1, <1>3, <1>4, <1>8 DEF BlockSizeInv, CompressBound
    <2>2. TargetInv'
      BY <1>1, <1>2, <1>3, <1>4, <1>5, <1>6, <1>8 DEF TargetInv, NumbersTyped
    <2>3. FlushInv'
      BY <1>1, <1>3, <1>4, <1>8 DEF FlushInv
    <2> QED BY <2>1, <2>2, <2>3 DEF SessionInv
  <1>12. WorkInv' /\ EndInv'
    BY <1>2 DEF WorkInv, EndInv
  <1>13. pc # "endcodec"
    BY <1>1 DEF endOp
  <1>14. ReturnInv'
    <2>1. ToFlush' = 0
      BY <1>1, <1>4, <1>8 DEF FlushInv, ToFlush
    <2>2. Thrifty(ip)' /\ Left(ip)'
      BY <1>1, <1>3, <1>7, <1>8 DEF Thrifty, Left
    <2> QED BY <1>1, <1>2, <1>3, <1>8, <1>13, <2>1, <2>2 DEF ReturnInv, CodecLocations
  <1>15. PledgeInv'
    BY <1>1, <1>3, <1>8 DEF CInv, PledgeInv
  <1> QED BY <1>9, <1>10, <1>11, <1>12, <1>14, <1>15 DEF CodecInv

(* The ring after a block: empty, and with room for the next block.        *)
LEMMA NextBlockFacts ==
    ASSUME CInv, Working("load"), NextBlock
    PROVE  /\ loaded' = <<>> /\ Len(loaded') = 0 /\ loaded' \in Seq(Nat)
           /\ inBuffPos' \in Nat /\ inToCompress' = inBuffPos'
           /\ inBuffTarget' = inBuffPos' + blockSizeMax
           /\ inBuffTarget' <= inBuffSize
           /\ ip' = ip + ToLoad /\ ip' <= in_size /\ in_pos <= ip' /\ ip' \in 0 .. InLen
  <1>1. NumbersTyped /\ BlockSizeInv
    <2>1. streamStage # "init"
      BY DEF Working
    <2> QED BY <2>1, NumberTypes DEF CInv, SessionInv
  <1>2. /\ Available = in_size - ip /\ ToLoad \in Nat /\ ToLoad <= Available
        /\ in_pos <= ip /\ ip <= in_size
    BY LoadFacts DEF CInv, ControlInv, Working
  <1>3. /\ loaded' = <<>> /\ inToCompress' = inBuffPos'
        /\ inBuffTarget' = inBuffPos' + blockSizeMax
        /\ ip' = ip + ToLoad
        /\ inBuffPos' = IF inBuffPos + ToLoad + blockSizeMax > inBuffSize
                        THEN 0 ELSE inBuffPos + ToLoad
    BY DEF NextBlock
  <1>4. Len(loaded') = 0 /\ loaded' \in Seq(Nat)
    BY <1>3
  <1>5. /\ ip \in Nat /\ in_size \in Nat /\ in_pos \in Nat /\ inBuffPos \in Nat
        /\ blockSizeMax \in Nat /\ inBuffSize \in Nat /\ in_size <= InLen
        /\ blockSizeMax < inBuffSize /\ InLen \in Nat
    BY <1>1 DEF NumbersTyped, BlockSizeInv, SizesInNat
  <1>6. inBuffPos' \in Nat /\ inBuffPos' + blockSizeMax <= inBuffSize
    BY <1>2, <1>3, <1>5
  <1>7. ip' <= in_size /\ in_pos <= ip' /\ ip' \in 0 .. InLen
    BY <1>2, <1>3, <1>5
  <1> QED BY <1>3, <1>4, <1>6, <1>7

(* A frame whose size the wrapper knows goes through the shortcut.         *)
LEMMA NoOwnPledge ==
    ASSUME CInv, Working("load"), ~ MayShortcut
    PROVE  pledging \/ pledgedPlusOne = 0
  <1>1. NumbersTyped /\ SizesInNat
    BY NumberTypes DEF NumbersTyped
  <1> SUFFICES ASSUME ~ pledging, pledgedPlusOne # 0
               PROVE  FALSE
    OBVIOUS
  <1>2. endOp = "end" /\ inBuffPos = 0 /\ dst = <<>> /\ ip = 0
    BY DEF CInv, PledgeInv, Working, InCodec
  <1>3. Len(dst) = 0
    BY <1>2
  <1>4. oSize >= CompressBound(Available)
    BY <1>1, <1>2, <1>3 DEF oSize, op, CompressBound, Available, NumbersTyped, SizesInNat
  <1> QED BY <1>2, <1>4 DEF MayShortcut

(* One more full block.                                                    *)
LEMMA LargestStep ==
    ASSUME CInv, NEW k \in Nat
    PROVE  /\ Largest(k) \in Nat
           /\ Largest(k + 1) = Largest(k) + blockSizeMax + BlockHdr
  <1>1. NumbersTyped /\ SizesInNat
    BY NumberTypes DEF NumbersTyped
  <1>2. blockSizeMax \in Nat /\ BlockHdr \in Nat /\ FrameHdr \in Nat
    BY <1>1 DEF NumbersTyped, SizesInNat
  <1>3. /\ k * blockSizeMax \in Nat /\ k * BlockHdr \in Nat
        /\ (k + 1) * blockSizeMax = k * blockSizeMax + blockSizeMax
        /\ (k + 1) * BlockHdr = k * BlockHdr + BlockHdr
    BY <1>2
  <1> QED BY <1>2, <1>3 DEF Largest

(* A full block adds at most its own size to what the call has produced.   *)
LEMMA WorkGrows ==
    ASSUME CInv, BlockReady, ~ LastBlock,
           NEW n, n = Len(AllLoaded), NEW c \in BlockUnits(n),
           NEW capacity, Encodes(n, c, LastBlock, capacity),
           consumed' = consumed + n, stage' = "ongoing", blockSizeMax' = blockSizeMax,
           ip' = ip + ToLoad, loaded' = <<>>, frameEnded' = FALSE,
           Produced' = Len(dst) + ChunkUnits(n, c, LastBlock)
    PROVE  WorkInv'
  <1> DEFINE u == ChunkUnits(n, c, LastBlock)
  <1>1. /\ Working("load") /\ cstep = "work" /\ streamStage = "load"
        /\ ~ (streamStage = "flush" /\ frameEnded)
    BY DEF BlockReady, Working
  <1>2. NumbersTyped /\ SizesInNat
    BY NumberTypes DEF NumbersTyped
  <1>3. /\ n = blockSizeMax /\ n \in Nat /\ n = Len(loaded) + ToLoad
        /\ u \in Nat /\ u <= HeaderUnits + n + BlockHdr
    BY BlockFacts
  <1>4. blockSizeMax > 0 /\ ToLoad \in Nat
    <2>1. streamStage # "init"
      BY <1>1
    <2> QED BY <1>1, <2>1, LoadFacts DEF CInv, SessionInv, BlockSizeInv
  <1>5. PICK k \in 0 .. consumed :
             /\ Produced <= Largest(k)
             /\ k = 0 => Produced = 0
             /\ k > 0 => (k - 1) * blockSizeMax <= ip /\ loaded = <<>>
             /\ stage = "init" => k = 0
             /\ k * blockSizeMax <= consumed
    BY <1>1 DEF CInv, WorkInv
  <1>6. Produced = Len(dst)
    BY <1>1, <1>2 DEF Produced, NumbersTyped
  <1>7. /\ k \in Nat /\ consumed \in Nat /\ ip \in Nat /\ blockSizeMax \in Nat
        /\ FrameHdr \in Nat /\ BlockHdr \in Nat /\ Len(dst) \in Nat
    BY <1>2 DEF NumbersTyped, SizesInNat
  <1>8. /\ k * blockSizeMax \in Nat /\ k * BlockHdr \in Nat
        /\ (k + 1) * blockSizeMax = k * blockSizeMax + blockSizeMax
        /\ (k + 1) * BlockHdr = k * BlockHdr + BlockHdr
        /\ (k + 1) - 1 = k
        /\ (k - 1) * blockSizeMax = k * blockSizeMax - blockSizeMax
    BY <1>7
  <1>9. HeaderUnits = IF stage = "init" THEN FrameHdr ELSE 0
    BY DEF HeaderUnits
  <1> HIDE DEF u
  <1>10. Len(dst) + u <= Largest(k + 1)
    <2>1. CASE k = 0
      <3>1. Len(dst) = 0
        BY <1>5, <1>6, <2>1
      <3> QED BY SMTT(30), <1>3, <1>7, <1>9, <2>1, <3>1 DEF Largest
    <2>2. CASE k > 0
      <3>1. HeaderUnits = 0
        BY <1>5, <1>9, <2>2
      <3>2. Len(dst) <= Largest(k)
        BY <1>5, <1>6
      <3>3. /\ Largest(k) \in Nat
            /\ Largest(k + 1) = Largest(k) + blockSizeMax + BlockHdr
        BY <1>7, LargestStep
      <3>4. u <= blockSizeMax + BlockHdr /\ u \in Nat
        BY <1>3, <1>7, <3>1
      <3> QED BY <1>7, <3>2, <3>3, <3>4
    <2> QED BY <1>7, <2>1, <2>2
  <1>11. k * blockSizeMax <= ip'
    <2>1. CASE k = 0
      BY <1>4, <1>7, <2>1
    <2>2. CASE k > 0
      <3>1. Len(loaded) = 0
        BY <1>5, <2>2
      <3> QED BY <1>3, <1>4, <1>5, <1>7, <1>8, <2>2, <3>1
    <2> QED BY <1>7, <2>1, <2>2
  <1>12. (k + 1) * blockSizeMax <= consumed' /\ k + 1 \in 0 .. consumed'
    <2>1. k + 1 <= (k + 1) * blockSizeMax
      <3>1. (k + 1) * 1 <= (k + 1) * blockSizeMax
        BY <1>4, <1>7, MulMonotone
      <3> QED BY <1>7, <3>1
    <2>2. k * blockSizeMax + blockSizeMax <= consumed + blockSizeMax
      BY <1>5, <1>7, <1>8
    <2>3. consumed' = consumed + blockSizeMax
      BY <1>3
    <2>4. (k + 1) * blockSizeMax <= consumed'
      BY <1>8, <2>2, <2>3
    <2>5. (k + 1) * blockSizeMax \in Nat /\ consumed' \in Nat
      BY <1>7, <1>8, <2>3
    <2>6. k + 1 <= consumed'
      BY <1>7, <2>1, <2>4, <2>5
    <2> QED BY <1>7, <2>4, <2>5, <2>6
  <1>13. Largest(k + 1)' = Largest(k + 1)
    BY DEF Largest
  <1>14. /\ Produced' <= Largest(k + 1)'
         /\ k + 1 # 0
         /\ ((k + 1) - 1) * blockSizeMax' <= ip'
         /\ stage' # "init"
         /\ (k + 1) * blockSizeMax' <= consumed'
    BY <1>7, <1>8, <1>10, <1>11, <1>12, <1>13 DEF u
  <1> QED BY <1>12, <1>14 DEF WorkInv

(* compress_end never meets a block that is not the last.                  *)
LEMMA OnlyLastBlockAtEnd ==
    ASSUME CInv, BlockReady, ~ LastBlock,
           NEW n, n = Len(AllLoaded), NEW c \in BlockUnits(n),
           NEW capacity, Encodes(n, c, LastBlock, capacity)
    PROVE  pc = "codec"
  <1>1. Working("load") /\ cstep = "work" /\ streamStage = "load" /\ pc \in CodecLocations
    BY DEF BlockReady, Working, InCodec, CodecLocations
  <1>2. NumbersTyped
    BY NumberTypes
  <1>3. /\ n = blockSizeMax /\ n \in Nat /\ n = Len(loaded) + ToLoad
        /\ Len(loaded) \in Nat /\ ToLoad \in Nat
        /\ ToLoad <= Available /\ Available = in_size - ip
    BY <1>1, BlockFacts, LoadFacts
  <1>4. ASSUME pc = "endcodec"
        PROVE  FALSE
    <2>1. Len(dst) + Len(loaded) + (in_size - ip) <= blockSizeMax
      BY <1>1, <1>4 DEF CInv, EndInv
    <2>2. ip + ToLoad # in_size
      BY <1>4 DEF LastBlock, endOp
    <2>3. /\ Len(dst) \in Nat /\ in_size \in Nat /\ ip \in Nat /\ blockSizeMax \in Nat
      BY <1>2 DEF NumbersTyped
    <2> QED BY <1>3, <2>1, <2>2, <2>3
  <1> QED BY <1>1, <1>4 DEF CodecLocations

(* An empty ring with room for a block.                                    *)
LEMMA EmptyRing ==
    ASSUME Len(loaded') = 0, inBuffPos' \in Nat, inToCompress' = inBuffPos',
           inBuffPos' + blockSizeMax' = inBuffTarget',
           inBuffTarget' <= inBuffSize', blockSizeMax' \in Nat \ {0}, inBuffSize' \in Nat
    PROVE  TargetInv'
  <1>1. inToCompress' \in Nat
    OBVIOUS
  <1>2. inBuffPos' - inToCompress' = Len(loaded') /\ inToCompress' <= inBuffPos'
    <2>1. \A x, y \in Nat : x = y => y - x = 0 /\ x <= y
      OBVIOUS
    <2> QED BY <1>1, <2>1
  <1>3. inBuffPos' < inBuffTarget' /\ inBuffPos' <= inBuffTarget'
    OBVIOUS
  <1>4. inBuffTarget' = inToCompress' + blockSizeMax'
    OBVIOUS
  <1> QED BY <1>2, <1>3, <1>4 DEF TargetInv

(* The sizes and the ring after a block.                                   *)
LEMMA BlockKeepsSizes ==
    ASSUME CInv, BlockReady,
           NEW n, n = Len(AllLoaded), NEW c \in BlockUnits(n),
           NEW capacity, Encodes(n, c, LastBlock, capacity),
           NextBlock, consumed' = consumed + n, pc' = pc,
           UNCHANGED <<pledgedPlusOne, blockSizeMax, inBuffSize, outBuffSize, maxBlockSize>>
    PROVE  BlockSizeInv' /\ TargetInv'
  <1>1. Working("load") /\ streamStage # "init" /\ pc # "failed"
    BY DEF BlockReady, Working, InCodec
  <1>2. NumbersTyped /\ BlockSizeInv
    BY <1>1, NumberTypes DEF CInv, SessionInv
  <1>3. /\ Len(loaded') = 0
        /\ inBuffPos' \in Nat /\ inToCompress' = inBuffPos'
        /\ inBuffTarget' = inBuffPos' + blockSizeMax
        /\ inBuffTarget' <= inBuffSize
    BY <1>1, NextBlockFacts
  <1>4. pledgedPlusOne # 0 => consumed + n < pledgedPlusOne
    BY BlockFacts
  <1>5. BlockSizeInv'
    BY <1>1, <1>2, <1>4 DEF BlockSizeInv, CompressBound
  <1>6. blockSizeMax \in Nat /\ blockSizeMax > 0
    BY <1>2 DEF NumbersTyped, BlockSizeInv
  <1>7. blockSizeMax' \in Nat \ {0} /\ inBuffSize' \in Nat
    BY <1>2, <1>6 DEF NumbersTyped
  <1>8. TargetInv'
    BY <1>3, <1>7, EmptyRing
  <1> QED BY <1>5, <1>8

(* A block goes straight into the caller's buffer.                         *)
LEMMA CompressDirectStep ==
    ASSUME CInv, CompressDirect
    PROVE  CodecInv'
  <1> DEFINE n == Len(AllLoaded)
  <1>1. /\ BlockReady /\ Working("load") /\ streamStage = "load" /\ ~ MayShortcut
        /\ pc \in CodecLocations /\ cstep = "work" /\ pc # "failed"
    BY DEF CompressDirect, BlockReady, Working, InCodec, CodecLocations
  <1>2. PICK c \in BlockUnits(n) :
          /\ Encodes(n, c, LastBlock, oSize)
          /\ Encoded(AllLoaded, c, LastBlock)
          /\ NextBlock
          /\ dst' = dst \o Units(ChunkUnits(n, c, LastBlock))
          /\ frameEnded' = LastBlock
          /\ IF LastBlock THEN SessionReset /\ cstep' = "return"
                          ELSE UNCHANGED <<streamStage, pledgedPlusOne, cstep>>
          /\ UNCHANGED <<vars, blockSizeMax, inBuffSize, outBuffSize, outBuff,
                         outFlushed, maxBlockSize, appVars>>
    BY DEF CompressDirect
  <1> DEFINE u == ChunkUnits(n, c, LastBlock)
  <1>3. /\ pc' = pc /\ in_size' = in_size /\ in_pos' = in_pos
        /\ out_pos' = out_pos /\ result' = result /\ endOp' = endOp /\ TypeOK'
    BY <1>2, CallKept
  <1>4. NumbersTyped /\ SizesInNat /\ FlushInv
    <2>1. streamStage # "init"
      BY <1>1
    <2> QED BY <2>1, NumberTypes DEF NumbersTyped, CInv, SessionInv
  <1>5. /\ n \in Nat /\ u \in Nat /\ u > 0 /\ u <= oSize
        /\ LastBlock => endOp = "end" /\ ip + ToLoad = in_size
    BY <1>1, <1>2, BlockFacts
  <1>6. AllLoaded \in Seq(Nat) /\ LastBlock \in BOOLEAN
    BY <1>1, AllLoadedFacts DEF LastBlock
  <1>7. /\ stage' = IF LastBlock THEN "created" ELSE "ongoing"
        /\ consumed' = consumed + n /\ consumed' \in Nat /\ emitted' \in Nat
        /\ encoded' \in Seq(Nat) /\ coded' \in Seq(CodedItem)
    BY <1>2, <1>5, <1>6, EncodedFacts
  <1>8. /\ loaded' \in Seq(Nat)
        /\ inBuffPos' \in Nat /\ inToCompress' = inBuffPos'
        /\ inBuffTarget' = inBuffPos' + blockSizeMax
        /\ ip' = ip + ToLoad /\ ip' <= in_size /\ in_pos <= ip' /\ ip' \in 0 .. InLen
    BY <1>1, <1>2, NextBlockFacts
  <1>9. Units(u) \in Seq(Nat) /\ Len(Units(u)) = u
    BY <1>5, UnitsFacts
  <1>10. dst \in Seq(Nat) /\ dst' = dst \o Units(u)
    BY <1>2 DEF CInv, CTypeOK
  <1> HIDE DEF u, n
  <1>11. dst' \in Seq(Nat) /\ Len(dst') = Len(dst) + u
    BY <1>9, <1>10
  <1>12. Len(dst') > 0 /\ Len(dst') <= OutLen
    BY <1>4, <1>5, <1>11 DEF oSize, op, NumbersTyped, SizesInNat
  <1>13. /\ frameEnded' = LastBlock
         /\ UNCHANGED <<blockSizeMax, inBuffSize, outBuffSize, outBuff, outFlushed,
                        maxBlockSize, drained, opened, pledging>>
         /\ LastBlock => streamStage' = "init" /\ pledgedPlusOne' = 0 /\ cstep' = "return"
         /\ ~ LastBlock => UNCHANGED <<streamStage, pledgedPlusOne, cstep>>
    BY <1>2 DEF SessionReset, appVars
  <1>14. CTypeOK'
    <2>1. CTypeOK
      BY DEF CInv
    <2>2. coded' \in Seq([upto : Nat, begins : BOOLEAN, fin : BOOLEAN,
                          size : Nat \union {Unknown}])
      BY <1>7 DEF CodedItem
    <2>3. inBuffTarget' \in Nat
      <3>1. blockSizeMax \in Nat
        BY <1>4 DEF NumbersTyped
      <3>2. inBuffPos' \in Nat /\ inBuffPos' + blockSizeMax = inBuffTarget'
        BY <1>8
      <3> QED BY <3>1, <3>2
    <2>4. stage' \in {"created", "ongoing"} /\ loaded' \in Seq(Nat)
      BY <1>7, <1>8
    <2>5. /\ consumed' \in Nat /\ emitted' \in Nat /\ inBuffPos' \in Nat
          /\ inToCompress' \in Nat /\ ip' \in 0 .. InLen /\ encoded' \in Seq(Nat)
      BY <1>7, <1>8
    <2>6. /\ pledgedPlusOne' \in Nat /\ streamStage' \in {"init", "load", "flush"}
          /\ cstep' \in {"work", "return"}
      BY <1>1, <1>4, <1>6, <1>13 DEF NumbersTyped
    <2> QED BY <1>3, <1>6, <1>11, <1>13, <2>1, <2>2, <2>3, <2>4, <2>5, <2>6 DEF CTypeOK
  <1>15. ControlInv'
    BY <1>1, <1>3, <1>4, <1>8, <1>12, <1>13
    DEF CInv, ControlInv, CodecLocations, NumbersTyped
  <1>16. outBuff' = <<>> /\ outFlushed' = 0
    BY <1>1, <1>4, <1>13 DEF FlushInv
  <1>17. CASE LastBlock
    <2>1. SessionInv' /\ WorkInv' /\ EndInv' /\ ReturnInv' /\ PledgeInv'
      BY <1>1, <1>3, <1>4, <1>5, <1>8, <1>12, <1>13, <1>16, <1>17, FrameFinished
      DEF NumbersTyped
    <2> QED BY <1>14, <1>15, <2>1 DEF CodecInv
  <1>18. CASE ~ LastBlock
    <2>1. /\ streamStage' = "load" /\ cstep' = "work" /\ pledgedPlusOne' = pledgedPlusOne
          /\ frameEnded' = FALSE /\ stage' = "ongoing"
      BY <1>1, <1>7, <1>13, <1>18
    <2>2. SessionInv'
      <3>1. BlockSizeInv' /\ TargetInv'
        BY <1>1, <1>2, <1>3, <1>7, <1>13, <2>1, BlockKeepsSizes DEF n
      <3>2. FlushInv'
        BY <1>16, <2>1 DEF FlushInv
      <3> QED BY <3>1, <3>2 DEF SessionInv
    <2>3. WorkInv'
      <3>1. Produced' = Len(dst) + u
        BY <1>4, <1>5, <1>11, <2>1 DEF Produced, NumbersTyped
      <3>2. loaded' = <<>>
        BY <1>2 DEF NextBlock
      <3> QED BY <1>1, <1>2, <1>7, <1>8, <1>13, <1>18, <2>1, <3>1, <3>2, WorkGrows DEF u, n
    <2>4. pc = "codec"
      BY <1>1, <1>2, <1>18, OnlyLastBlockAtEnd DEF n
    <2>5. EndInv' /\ ReturnInv'
      BY <1>3, <2>1, <2>4 DEF EndInv, ReturnInv
    <2>6. PledgeInv'
      <3>1. pledging \/ pledgedPlusOne = 0
        BY <1>1, NoOwnPledge
      <3> QED BY <1>1, <1>3, <1>13, <2>1, <3>1 DEF PledgeInv
    <2> QED BY <1>14, <1>15, <2>2, <2>3, <2>5, <2>6 DEF CodecInv
  <1> QED BY <1>17, <1>18

(* A block goes into outBuff.                                              *)
LEMMA CompressToOutBuffStep ==
    ASSUME CInv, CompressToOutBuff
    PROVE  CodecInv'
  <1> DEFINE n == Len(AllLoaded)
  <1>1. /\ BlockReady /\ Working("load") /\ streamStage = "load" /\ ~ MayShortcut
        /\ pc \in CodecLocations /\ cstep = "work" /\ pc # "failed"
    BY DEF CompressToOutBuff, BlockReady, Working, InCodec, CodecLocations
  <1>2. PICK c \in BlockUnits(n) :
          /\ Encodes(n, c, LastBlock, outBuffSize)
          /\ Encoded(AllLoaded, c, LastBlock)
          /\ NextBlock
          /\ outBuff' = Units(ChunkUnits(n, c, LastBlock))
          /\ outFlushed' = 0
          /\ frameEnded' = LastBlock
          /\ streamStage' = "flush"
          /\ UNCHANGED <<vars, cstep, dst, pledgedPlusOne, blockSizeMax, inBuffSize,
                         outBuffSize, maxBlockSize, appVars>>
    BY DEF CompressToOutBuff
  <1> DEFINE u == ChunkUnits(n, c, LastBlock)
  <1>3. /\ pc' = pc /\ in_size' = in_size /\ in_pos' = in_pos
        /\ out_pos' = out_pos /\ result' = result /\ endOp' = endOp /\ TypeOK'
    BY <1>2, CallKept
  <1>4. NumbersTyped /\ SizesInNat /\ BlockSizeInv
    <2>1. streamStage # "init"
      BY <1>1
    <2> QED BY <2>1, NumberTypes DEF NumbersTyped, CInv, SessionInv
  <1>5. /\ n \in Nat /\ u \in Nat /\ u > 0 /\ u <= outBuffSize
        /\ n = Len(loaded) + ToLoad /\ n <= blockSizeMax
        /\ u <= HeaderUnits + n + BlockHdr + Checksum
        /\ ~ LastBlock => u <= HeaderUnits + n + BlockHdr /\ n = blockSizeMax
        /\ LastBlock => endOp = "end" /\ ip + ToLoad = in_size
    BY <1>1, <1>2, BlockFacts
  <1>6. AllLoaded \in Seq(Nat) /\ LastBlock \in BOOLEAN
    BY <1>1, AllLoadedFacts DEF LastBlock
  <1>7. /\ stage' = IF LastBlock THEN "created" ELSE "ongoing"
        /\ consumed' = consumed + n /\ consumed' \in Nat /\ emitted' \in Nat
        /\ encoded' \in Seq(Nat) /\ coded' \in Seq(CodedItem)
    BY <1>2, <1>5, <1>6, EncodedFacts
  <1>8. /\ loaded' \in Seq(Nat)
        /\ inBuffPos' \in Nat /\ inToCompress' = inBuffPos'
        /\ inBuffPos' + blockSizeMax = inBuffTarget'
        /\ ip' = ip + ToLoad /\ ip' <= in_size /\ in_pos <= ip' /\ ip' \in 0 .. InLen
    BY <1>1, <1>2, NextBlockFacts
  <1>9. Units(u) \in Seq(Nat) /\ Len(Units(u)) = u
    BY <1>5, UnitsFacts
  <1>10. outBuff' \in Seq(Nat) /\ Len(outBuff') = u /\ dst' = dst
    BY <1>2, <1>9
  <1>11. loaded' = <<>>
    BY <1>2 DEF NextBlock
  <1> HIDE DEF u, n
  <1>12. /\ frameEnded' = LastBlock /\ streamStage' = "flush" /\ cstep' = "work"
         /\ outFlushed' = 0
         /\ UNCHANGED <<pledgedPlusOne, blockSizeMax, inBuffSize, outBuffSize, maxBlockSize,
                        drained, opened, pledging>>
    BY <1>1, <1>2 DEF appVars
  <1>13. CTypeOK'
    <2>1. CTypeOK
      BY DEF CInv
    <2>2. coded' \in Seq([upto : Nat, begins : BOOLEAN, fin : BOOLEAN,
                          size : Nat \union {Unknown}])
      BY <1>7 DEF CodedItem
    <2>3. inBuffTarget' \in Nat
      <3>1. blockSizeMax \in Nat
        BY <1>4 DEF NumbersTyped
      <3> QED BY <1>8, <3>1
    <2>4. stage' \in {"created", "ongoing"} /\ loaded' \in Seq(Nat)
      BY <1>7, <1>8
    <2>5. /\ consumed' \in Nat /\ emitted' \in Nat /\ inBuffPos' \in Nat
          /\ inToCompress' \in Nat /\ ip' \in 0 .. InLen /\ encoded' \in Seq(Nat)
      BY <1>7, <1>8
    <2> QED BY <1>3, <1>6, <1>10, <1>12, <2>1, <2>2, <2>3, <2>4, <2>5 DEF CTypeOK
  <1>14. ControlInv'
    BY <1>1, <1>3, <1>4, <1>8, <1>10, <1>12
    DEF CInv, ControlInv, CodecLocations, NumbersTyped
  <1>15. ToFlush' = u /\ Produced' = Len(dst) + u
    <2>1. ToFlush' = u
      BY <1>5, <1>10, <1>12 DEF ToFlush
    <2> QED BY <1>10, <1>12, <2>1 DEF Produced
  <1>16. HeaderUnits \in {0, FrameHdr}
    BY DEF HeaderUnits
  <1>17. FlushInv'
    <2>1. 0 < Len(outBuff') /\ Len(outBuff') <= outBuffSize
      BY <1>5, <1>10
    <2>2. ~ LastBlock => /\ u <= FrameHdr + BlockHdr + blockSizeMax
                         /\ consumed' >= blockSizeMax
      <3>1. /\ FrameHdr \in Nat /\ BlockHdr \in Nat /\ blockSizeMax \in Nat
            /\ consumed \in Nat /\ consumed' = consumed + n
        BY <1>4, <1>7 DEF NumbersTyped, SizesInNat
      <3> QED BY SMTT(30), <1>5, <1>16, <3>1
    <2>3. stage' = IF frameEnded' THEN "created" ELSE "ongoing"
      BY <1>7, <1>12
    <2> QED BY <1>11, <1>12, <1>15, <2>1, <2>2, <2>3 DEF FlushInv
  <1>18. SessionInv'
    <2>1. BlockSizeInv' /\ TargetInv'
      BY <1>1, <1>2, <1>3, <1>7, <1>12, BlockKeepsSizes DEF n
    <2> QED BY <1>17, <2>1 DEF SessionInv
  <1>19. ReturnInv'
    BY <1>1, <1>3, <1>12 DEF ReturnInv, CodecLocations
  <1>20. PledgeInv'
    <2>1. pledging \/ pledgedPlusOne = 0
      BY <1>1, NoOwnPledge
    <2> QED BY <1>1, <1>3, <1>12, <2>1 DEF PledgeInv
  <1>21. CASE LastBlock
    <2>1. ip' = in_size /\ endOp' = "end" /\ frameEnded'
      BY <1>3, <1>5, <1>8, <1>12, <1>21
    <2>2. WorkInv'
      BY <1>3, <1>12, <2>1 DEF WorkInv
    <2>3. pc = "endcodec" => Len(dst) + u <= OutLen
      <3>1. ASSUME pc = "endcodec"
            PROVE  Len(dst) + Len(loaded) + (in_size - ip) <= blockSizeMax
        BY <1>1, <3>1 DEF CInv, EndInv
      <3>2. /\ Len(dst) \in Nat /\ Len(loaded) \in Nat /\ blockSizeMax \in Nat
            /\ blockSizeMax <= InLen /\ ip \in Nat /\ in_size \in Nat
        BY <1>4 DEF NumbersTyped, BlockSizeInv
      <3>3. ToLoad \in Nat /\ ToLoad = in_size - ip
        BY <1>1, <1>5, <1>21, <3>2, LoadFacts
      <3>4. u <= FrameHdr + n + BlockHdr + Checksum
        BY SMTT(30), <1>4, <1>5, <1>16 DEF SizesInNat
      <3> QED BY <1>4, <1>5, <3>1, <3>2, <3>3, <3>4 DEF SizesInNat
    <2>4. EndInv'
      BY <1>3, <1>12, <1>15, <2>1, <2>3 DEF EndInv
    <2> QED BY <1>13, <1>14, <1>18, <1>19, <1>20, <2>2, <2>4 DEF CodecInv
  <1>22. CASE ~ LastBlock
    <2>1. frameEnded' = FALSE /\ stage' = "ongoing"
      BY <1>6, <1>7, <1>12, <1>22
    <2>2. WorkInv'
      BY <1>1, <1>2, <1>7, <1>8, <1>11, <1>12, <1>15, <1>22, <2>1, WorkGrows DEF u, n
    <2>3. pc = "codec"
      BY <1>1, <1>2, <1>22, OnlyLastBlockAtEnd DEF n
    <2>4. EndInv'
      BY <1>3, <2>3 DEF EndInv
    <2> QED BY <1>13, <1>14, <1>18, <1>19, <1>20, <2>2, <2>4 DEF CodecInv
  <1> QED BY <1>21, <1>22

(* Output that does not fit comes from a call with at least two full       *)
(* blocks, because output.dst holds one with its headers, and all of them  *)
(* but one were taken from input.src: the call has consumed at least half  *)
(* of it, and what is left to flush and to compress is one block.          *)
LEMMA FullOutputIsThrifty ==
    ASSUME CInv, Working("flush"), ~ frameEnded, Len(dst) + ToFlush > OutLen
    PROVE  /\ in_size - ip <= ip
           /\ Len(dst) + ToFlush - OutLen + (in_size - ip) <= blockSizeMax
  <1>1. /\ cstep = "work" /\ streamStage = "flush" /\ pc # "failed"
    BY DEF Working, InCodec
  <1>2. NumbersTyped /\ SizesInNat /\ BlockSizeInv /\ FlushInv
    <2>1. streamStage # "init"
      BY <1>1
    <2> QED BY <2>1, NumberTypes DEF NumbersTyped, CInv, SessionInv
  <1> DEFINE b == blockSizeMax
             p == Len(dst) + ToFlush
  <1>3. PICK k \in 0 .. consumed :
             /\ Produced <= Largest(k)
             /\ k = 0 => Produced = 0
             /\ k > 0 => (k - 1) * blockSizeMax <= ip
             /\ k * blockSizeMax <= consumed
    BY <1>1 DEF CInv, WorkInv
  <1>4. Produced = p
    BY <1>1 DEF Produced
  <1>5. /\ k \in Nat /\ consumed \in Nat /\ ip \in Nat /\ in_size \in Nat /\ b \in Nat
        /\ b > 0 /\ b <= InLen /\ in_size <= InLen /\ InLen \in Nat /\ in_size >= ip
        /\ FrameHdr \in Nat /\ BlockHdr \in Nat /\ Margin \in Nat /\ Checksum \in Nat
        /\ OutLen = InLen + Margin + BlockHdr + Checksum /\ OutLen \in Nat
        /\ FrameHdr <= Margin
    <2>1. in_size >= ip
      BY <1>1, <1>2 DEF CInv, ControlInv, NumbersTyped
    <2> QED BY <1>2, <2>1 DEF NumbersTyped, SizesInNat, BlockSizeInv
  <1>6. p \in Nat /\ p > OutLen
    <2>1. ToFlush \in Nat /\ Len(dst) \in Nat
      BY <1>1, <1>2 DEF FlushInv, ToFlush, NumbersTyped
    <2> QED BY <2>1
  <1> HIDE DEF b, p
  <1> DEFINE kb == k * b
             kh == k * BlockHdr
  <1>7. kb \in Nat /\ kh \in Nat /\ p <= FrameHdr + kb + kh
    BY <1>3, <1>4, <1>5 DEF Largest, b
  <1>8. k > 0
    BY <1>3, <1>4, <1>5, <1>6
  <1>9. kb - b <= ip
    <2>1. (k - 1) * b = kb - b
      BY <1>5
    <2> QED BY <1>3, <1>8, <2>1 DEF b
  <1>10. kb <= consumed
    BY <1>3 DEF b
  <1>11. k = 1 => kb = b /\ kh = BlockHdr
    BY <1>5
  <1>12. k >= 2 => 2 * b <= kb
    BY <1>5, MulMonotone
  <1> HIDE DEF kb
  <1>13. k # 1
    <2>1. CASE k = 1
      <3>1. p <= FrameHdr + b + BlockHdr
        BY <1>5, <1>6, <1>7, <1>11, <2>1
      <3> QED BY <1>5, <1>6, <3>1
    <2> QED BY <2>1
  <1>14. k >= 2 /\ 2 * b <= kb
    BY <1>5, <1>8, <1>12, <1>13
  <1>15. kh <= Margin - FrameHdr - Checksum + BlockHdr
    <2>1. b = LeastOf(maxBlockSize, WindowSize)
      <3>1. b = LeastOf(maxBlockSize, WindowSize)
            \/ (pledgedPlusOne # 0 /\ pledgedPlusOne - 1 <= b)
        BY <1>2 DEF BlockSizeInv, b
      <3>2. ASSUME pledgedPlusOne # 0, pledgedPlusOne - 1 <= b
            PROVE  FALSE
        <4>1. consumed < pledgedPlusOne /\ pledgedPlusOne \in Nat
          BY <1>1, <1>2, <3>2 DEF BlockSizeInv, NumbersTyped
        <4> QED BY <1>5, <1>7, <1>10, <1>14, <3>2, <4>1
      <3> QED BY <3>1, <3>2
    <2> DEFINE K == BlocksOf(InLen, b)
    <2>2. K \in Nat /\ InLen <= b * K
      BY <1>5, BlocksOfBounds
    <2>3. FrameHdr + Checksum + BlockHdr * K <= Margin
      <3>1. InLen \in 0 .. InLen /\ maxBlockSize \in MaxBlocks
        BY <1>2, <1>5 DEF NumbersTyped
      <3> QED BY <2>1, <3>1, MarginPays
    <2> HIDE DEF K
    <2>4. k <= K + 1
      <3>1. CASE k > K + 1
        <4>1. b * (K + 2) <= b * k
          BY <1>5, <2>2, <3>1, MulMonotone
        <4>2. b * (K + 2) = b * K + b + b /\ b * k = kb
          BY <1>5, <2>2 DEF kb
        <4>3. b * K \in Nat
          BY <1>5, <2>2
        <4> QED BY <1>5, <1>7, <1>9, <2>2, <4>1, <4>2, <4>3
      <3> QED BY <1>5, <2>2, <3>1
    <2>5. kh <= BlockHdr * (K + 1)
      <3>1. k * BlockHdr <= (K + 1) * BlockHdr
        BY <1>5, <2>2, <2>4, MulMonotone
      <3>2. (K + 1) * BlockHdr = BlockHdr * (K + 1)
        BY <1>5, <2>2
      <3> QED BY <3>1, <3>2
    <2>6. BlockHdr * (K + 1) = BlockHdr * K + BlockHdr /\ BlockHdr * K \in Nat
      BY <1>5, <2>2
    <2> HIDE DEF kh
    <2> QED BY <1>5, <1>7, <2>3, <2>5, <2>6
  <1> HIDE DEF kh
  <1>16. p <= kb + Margin + BlockHdr - Checksum
    BY <1>5, <1>6, <1>7, <1>15
  <1>17. kb > InLen
    BY <1>5, <1>6, <1>7, <1>16
  <1>18. in_size - ip <= ip
    BY <1>5, <1>7, <1>9, <1>14, <1>17
  <1>19. p - OutLen + (in_size - ip) <= b
    <2>1. p - OutLen <= kb - InLen
      BY <1>5, <1>6, <1>7, <1>16
    <2>2. kb - InLen + (in_size - ip) <= b
      BY <1>5, <1>7, <1>9
    <2> QED BY <1>5, <1>6, <1>7, <2>1, <2>2
  <1>20. /\ b = blockSizeMax /\ p = Len(dst) + ToFlush
         /\ ToFlush \in Nat /\ Len(dst) \in Nat
    BY <1>1, <1>2 DEF b, p, FlushInv, ToFlush, NumbersTyped
  <1> QED BY <1>5, <1>6, <1>18, <1>19, <1>20

(* outBuff is flushed into output.dst, all of it or what fits.             *)
LEMMA FlushStep ==
    ASSUME CInv, Flush
    PROVE  CodecInv'
  <1> DEFINE flushed == LeastOf(oSize, ToFlush)
             moved == SubSeq(outBuff, outFlushed + 1, outFlushed + flushed)
  <1>1. /\ Working("flush") /\ cstep = "work" /\ streamStage = "flush"
        /\ pc \in CodecLocations /\ pc # "failed" /\ pc \notin {"idle", "loop", "drain", "enddrain"}
    BY DEF Flush, Working, InCodec, CodecLocations
  <1>2. /\ dst' = dst \o moved
        /\ UNCHANGED <<vars, ip, stage, consumed, blockSizeMax, inBuffSize, outBuffSize,
                       ringVars, frameEnded, historyVars, maxBlockSize, appVars>>
    BY DEF Flush
  <1>3. flushed # ToFlush =>
          /\ outFlushed' = outFlushed + flushed
          /\ cstep' = "return"
          /\ UNCHANGED <<streamStage, pledgedPlusOne, outBuff>>
    BY DEF Flush
  <1>4. flushed = ToFlush =>
          /\ outBuff' = <<>> /\ outFlushed' = 0
          /\ frameEnded => SessionReset /\ cstep' = "return"
          /\ ~ frameEnded => streamStage' = "load" /\ UNCHANGED <<pledgedPlusOne, cstep>>
    BY DEF Flush
  <1>5. /\ pc' = pc /\ in_size' = in_size /\ in_pos' = in_pos
        /\ out_pos' = out_pos /\ result' = result /\ endOp' = endOp /\ TypeOK'
    BY <1>2, CallKept
  <1>6. NumbersTyped /\ SizesInNat /\ BlockSizeInv /\ TargetInv /\ FlushInv
    <2>1. streamStage # "init"
      BY <1>1
    <2> QED BY <2>1, NumberTypes DEF NumbersTyped, CInv, SessionInv
  <1>7. /\ ip' = ip /\ stage' = stage /\ frameEnded' = frameEnded /\ consumed' = consumed
        /\ blockSizeMax' = blockSizeMax /\ inBuffSize' = inBuffSize
        /\ outBuffSize' = outBuffSize /\ maxBlockSize' = maxBlockSize
        /\ loaded' = loaded /\ inBuffPos' = inBuffPos /\ inToCompress' = inToCompress
        /\ inBuffTarget' = inBuffTarget /\ pledging' = pledging
        /\ UNCHANGED <<drained, opened, emitted, encoded, coded>>
    BY <1>2 DEF ringVars, appVars, historyVars
  <1>8. /\ ToFlush \in Nat /\ ToFlush > 0 /\ outFlushed < Len(outBuff)
        /\ Len(outBuff) \in Nat /\ outFlushed \in Nat /\ Len(outBuff) <= outBuffSize
        /\ ToFlush = Len(outBuff) - outFlushed /\ loaded = <<>>
        /\ stage \in {"created", "ongoing"} /\ (~ frameEnded => stage = "ongoing")
        /\ ~ frameEnded => /\ ToFlush <= FrameHdr + BlockHdr + blockSizeMax
                           /\ consumed >= blockSizeMax
    BY <1>1, <1>6 DEF FlushInv, ToFlush, NumbersTyped
  <1>9. /\ oSize = OutLen - Len(dst) /\ oSize \in Nat /\ Len(dst) \in Nat /\ OutLen \in Nat
    BY <1>6 DEF CInv, ControlInv, oSize, op, NumbersTyped, SizesInNat
  <1>10. /\ flushed \in Nat /\ flushed <= oSize /\ flushed <= ToFlush
         /\ flushed # ToFlush => flushed = oSize /\ oSize < ToFlush
    BY <1>8, <1>9 DEF LeastOf
  <1>11. frameEnded => ip = in_size /\ endOp = "end"
    BY <1>1 DEF CInv, WorkInv
  <1>12. frameEnded \in BOOLEAN
    BY DEF CInv, CTypeOK
  <1> HIDE DEF flushed
  <1>13. dst' \in Seq(Nat) /\ Len(dst') = Len(dst) + flushed
    <2>1. dst \in Seq(Nat) /\ outBuff \in Seq(Nat)
      BY DEF CInv, CTypeOK
    <2>2. outFlushed + flushed <= Len(outBuff)
      BY <1>8, <1>10
    <2>3. moved \in Seq(Nat) /\ Len(moved) = flushed
      BY <1>8, <1>10, <2>1, <2>2
    <2> QED BY <1>2, <2>1, <2>3
  <1>14. Len(dst') <= OutLen /\ Len(dst') \in Nat
    BY <1>9, <1>10, <1>13
  <1>15. PledgeInv'
    <2>1. pledging \/ pledgedPlusOne = 0
      BY <1>1 DEF CInv, PledgeInv
    <2>2. pledgedPlusOne' \in {pledgedPlusOne, 0}
      BY <1>3, <1>4, <1>12 DEF SessionReset
    <2> QED BY <1>1, <1>5, <1>7, <2>1, <2>2 DEF PledgeInv
  <1>16. CTypeOK'
    <2>1. CTypeOK
      BY DEF CInv
    <2>2. /\ outBuff' \in Seq(Nat) /\ outFlushed' \in Nat /\ pledgedPlusOne' \in Nat
          /\ streamStage' \in {"init", "load", "flush"} /\ cstep' \in {"work", "return"}
      <3>1. CASE flushed # ToFlush
        BY SMTT(30), <1>1, <1>3, <1>6, <1>8, <1>10, <2>1, <3>1 DEF CTypeOK, NumbersTyped
      <3>2. CASE flushed = ToFlush
        <4>1. outBuff' \in Seq(Nat)
          BY <1>4, <3>2
        <4> QED BY <1>1, <1>4, <1>6, <1>12, <3>2, <4>1 DEF SessionReset, NumbersTyped
      <3> QED BY <3>1, <3>2
    <2> QED BY <1>5, <1>7, <1>13, <2>1, <2>2 DEF CTypeOK
  <1>17. cstep' \in {"work", "return"}
    BY <1>1, <1>3, <1>4, <1>12
  <1>18. ControlInv'
    <2>1. in_pos <= ip /\ ip <= in_size /\ in_pos = 0 /\ out_pos = 0 /\ result # "codec_error"
      BY <1>1 DEF CInv, ControlInv, CodecLocations
    <2> QED BY <1>1, <1>5, <1>7, <1>14, <1>17, <2>1 DEF ControlInv, CodecLocations
  <1>19. CASE flushed # ToFlush
    <2>1. /\ outFlushed' = outFlushed + oSize /\ outBuff' = outBuff /\ cstep' = "return"
          /\ streamStage' = "flush" /\ pledgedPlusOne' = pledgedPlusOne
          /\ oSize < ToFlush /\ Len(dst') = OutLen
      BY <1>1, <1>3, <1>9, <1>10, <1>13, <1>19
    <2>2. /\ Len(outBuff') = Len(outBuff) /\ outFlushed' < Len(outBuff')
          /\ ToFlush' = ToFlush - oSize
      BY <1>8, <1>9, <2>1 DEF ToFlush
    <2>3. FlushInv'
      <3>1. IF frameEnded THEN stage = "created" ELSE stage = "ongoing"
        BY <1>1, <1>6 DEF FlushInv
      <3>2. ~ frameEnded => ToFlush' <= FrameHdr + BlockHdr + blockSizeMax
        <4>1. FrameHdr + BlockHdr + blockSizeMax \in Nat
          BY <1>6 DEF NumbersTyped, SizesInNat
        <4> QED BY <1>8, <1>9, <2>2, <4>1
      <3> QED BY <1>7, <1>8, <2>1, <2>2, <3>1, <3>2 DEF FlushInv
    <2>4. SessionInv'
      <3>1. BlockSizeInv'
        BY <1>1, <1>6, <1>7, <2>1 DEF BlockSizeInv, CompressBound
      <3>2. TargetInv'
        BY <1>1, <1>6, <1>7, <2>1 DEF TargetInv
      <3> QED BY <2>3, <3>1, <3>2 DEF SessionInv
    <2>5. WorkInv' /\ EndInv'
      BY <2>1 DEF WorkInv, EndInv
    <2>6. /\ ~ frameEnded => /\ in_size - ip <= ip
                             /\ Len(dst) + ToFlush - OutLen + (in_size - ip) <= blockSizeMax
      <3>1. Len(dst) + ToFlush > OutLen
        BY <1>8, <1>9, <2>1
      <3> QED BY <1>1, <3>1, FullOutputIsThrifty
    <2>7. Thrifty(ip)' /\ Left(ip)'
      <3>1. CASE frameEnded
        BY <1>5, <1>7, <1>11, <2>1, <3>1 DEF Thrifty, Left
      <3>2. CASE ~ frameEnded
        <4>1. ToFlush' + (in_size - ip) <= blockSizeMax
          <5>1. ToFlush' = Len(dst) + ToFlush - OutLen
            BY <1>8, <1>9, <2>2
          <5> QED BY <2>6, <3>2, <5>1
        <4> QED BY <1>5, <1>7, <2>1, <2>6, <3>2, <4>1 DEF Thrifty, Left
      <3> QED BY <3>1, <3>2
    <2>8. pc = "codec"
      <3>1. ASSUME pc = "endcodec"
            PROVE  FALSE
        <4>1. CASE frameEnded
          <5>1. Len(dst) + ToFlush <= OutLen
            BY <1>1, <3>1, <4>1 DEF CInv, EndInv, Produced
          <5> QED BY <1>8, <1>9, <2>1, <5>1
        <4>2. CASE ~ frameEnded
          <5>1. dst = <<>> /\ ToFlush + in_size <= blockSizeMax
            BY <1>1, <3>1, <4>2 DEF CInv, EndInv
          <5>2. Len(dst) = 0
            BY <5>1
          <5>3. /\ blockSizeMax <= InLen /\ blockSizeMax \in Nat /\ in_size \in Nat
                /\ InLen \in Nat /\ InLen <= OutLen
            BY <1>6 DEF BlockSizeInv, NumbersTyped, SizesInNat
          <5>4. ToFlush <= OutLen
            BY <1>8, <1>9, <5>1, <5>3
          <5> QED BY <1>8, <1>9, <2>1, <5>2, <5>4
        <4> QED BY <4>1, <4>2
      <3> QED BY <1>1, <3>1 DEF CodecLocations
    <2>9. ReturnInv'
      BY <1>1, <1>5, <1>7, <1>11, <2>1, <2>7, <2>8 DEF ReturnInv
    <2> QED BY <1>15, <1>16, <1>18, <2>4, <2>5, <2>9 DEF CodecInv
  <1>20. CASE flushed = ToFlush /\ frameEnded
    <2>1. /\ streamStage' = "init" /\ pledgedPlusOne' = 0 /\ cstep' = "return"
          /\ outBuff' = <<>> /\ outFlushed' = 0
      BY <1>4, <1>20 DEF SessionReset
    <2>2. Len(dst') > 0
      BY <1>8, <1>9, <1>13, <1>20
    <2>3. ip' = in_size' /\ in_size' \in Nat /\ endOp' = "end" /\ pc' \in CodecLocations
      BY <1>1, <1>5, <1>6, <1>7, <1>11, <1>20 DEF NumbersTyped
    <2>4. SessionInv' /\ WorkInv' /\ EndInv' /\ ReturnInv'
      BY <2>1, <2>2, <2>3, FrameFinished
    <2> QED BY <1>15, <1>16, <1>18, <2>4 DEF CodecInv
  <1>21. CASE flushed = ToFlush /\ ~ frameEnded
    <2>1. /\ streamStage' = "load" /\ pledgedPlusOne' = pledgedPlusOne /\ cstep' = "work"
          /\ outBuff' = <<>> /\ outFlushed' = 0
      BY <1>1, <1>4, <1>21
    <2>2. SessionInv'
      <3>1. BlockSizeInv'
        BY <1>1, <1>6, <1>7, <2>1 DEF BlockSizeInv, CompressBound
      <3>2. TargetInv'
        BY <1>1, <1>6, <1>7, <2>1 DEF TargetInv
      <3>3. FlushInv'
        BY <1>7, <1>8, <1>21, <2>1 DEF FlushInv
      <3> QED BY <3>1, <3>2, <3>3 DEF SessionInv
    <2>3. WorkInv'
      <3>1. PICK k \in 0 .. consumed :
             /\ Produced <= Largest(k)
             /\ k = 0 => Produced = 0
             /\ k > 0 => (k - 1) * blockSizeMax <= ip
             /\ stage = "init" => k = 0
             /\ k * blockSizeMax <= consumed
        BY <1>1, <1>21 DEF CInv, WorkInv
      <3>2. Produced' = Produced
        BY <1>1, <1>8, <1>9, <1>13, <1>21, <2>1 DEF Produced
      <3>3. Largest(k)' = Largest(k) /\ loaded' = <<>>
        BY <1>7, <1>8 DEF Largest
      <3>4. /\ k \in 0 .. consumed' /\ Produced' <= Largest(k)' /\ (k = 0 => Produced' = 0)
            /\ k > 0 => (k - 1) * blockSizeMax' <= ip'
            /\ (stage' = "init" => k = 0)
            /\ k * blockSizeMax' <= consumed'
        BY <1>7, <3>1, <3>2, <3>3
      <3> QED BY <2>1, <3>3, <3>4 DEF WorkInv
    <2>4. EndInv'
      <3>1. ASSUME pc = "endcodec"
            PROVE  Len(dst') + Len(loaded') + (in_size' - ip') <= blockSizeMax'
        <4>1. ip = 0 /\ dst = <<>> /\ ToFlush + in_size <= blockSizeMax
          BY <1>1, <1>21, <3>1 DEF CInv, EndInv
        <4>2. Len(dst) = 0 /\ Len(loaded) = 0
          BY <1>8, <4>1
        <4>3. Len(dst') = ToFlush /\ Len(loaded') = 0
          BY <1>7, <1>8, <1>9, <1>13, <1>21, <4>2
        <4>4. in_size \in Nat /\ ip' = 0 /\ in_size' = in_size /\ blockSizeMax' = blockSizeMax
          BY <1>5, <1>6, <1>7, <4>1 DEF NumbersTyped
        <4>5. ToFlush + in_size <= blockSizeMax
          BY <4>1
        <4> QED BY <1>8, <4>3, <4>4, <4>5
      <3> QED BY <1>5, <2>1, <3>1 DEF EndInv
    <2>5. ReturnInv'
      BY <1>1, <1>5, <2>1 DEF ReturnInv, CodecLocations
    <2> QED BY <1>15, <1>16, <1>18, <2>2, <2>3, <2>4, <2>5 DEF CodecInv
  <1> QED BY <1>19, <1>20, <1>21

(* A frame whose size was not pledged is never refused: what               *)
(* ZSTD_compressBound computes is enough for a block and its headers.      *)
LEMMA RefusedOnPledge ==
    ASSUME CInv, EncodeError
    PROVE  pledging
  <1> SUFFICES ASSUME ~ pledging
               PROVE  FALSE
    OBVIOUS
  <1>1. Working("load") /\ streamStage = "load" /\ pc # "failed"
    BY DEF EncodeError, BlockReady, Working, InCodec
  <1>2. NumbersTyped /\ SizesInNat /\ BlockSizeInv /\ TargetInv /\ FlushInv /\ CTypeOK
    <2>1. streamStage # "init"
      BY <1>1
    <2> QED BY <2>1, NumberTypes DEF NumbersTyped, CInv, SessionInv
  <1>3. stage # "created"
    BY <1>1, <1>2 DEF FlushInv
  <1>4. CASE MayShortcut
    <2> DEFINE n == Available
    <2>1. PICK c \in BlockUnits(n) : Refused(n, c, TRUE, oSize)
      BY <1>4 DEF EncodeError, BlockReady
    <2>2. ~ Encodes(n, c, TRUE, oSize)
      BY <2>1 DEF Refused
    <2>3. n \in Nat /\ n \in 0 .. InLen /\ n = in_size - ip
      BY <1>1, LoadFacts
    <2>4. pledgedPlusOne = 0 \/ (consumed = 0 /\ ip = 0 /\ pledgedPlusOne = in_size + 1)
      BY <1>1 DEF CInv, PledgeInv
    <2>5. n <= blockSizeMax \/ blockSizeMax = LeastOf(maxBlockSize, WindowSize)
      BY <1>2, <2>3, <2>4 DEF BlockSizeInv, NumbersTyped
    <2>6. ChunkUnits(n, c, TRUE) <= CompressBound(n) /\ ChunkUnits(n, c, TRUE) \in Nat
      BY <1>2, <2>3, <2>5, ChunkFits
    <2>7. ChunkUnits(n, c, TRUE) <= oSize
      <3>1. CompressBound(n) <= oSize
        BY <1>4 DEF MayShortcut
      <3>2. oSize \in Int /\ CompressBound(n) \in Nat
        BY <1>2, <2>3 DEF oSize, op, CompressBound, NumbersTyped, SizesInNat
      <3> DEFINE u == ChunkUnits(n, c, TRUE)
      <3>3. u <= CompressBound(n) /\ u \in Nat
        BY <2>6
      <3> HIDE DEF n, u
      <3>4. u <= oSize
        BY <3>1, <3>2, <3>3
      <3> QED BY <3>4 DEF u
    <2>8. pledgedPlusOne # 0 => pledgedPlusOne = consumed + n + 1
      BY <1>2, <2>3, <2>4 DEF NumbersTyped
    <2> HIDE DEF n
    <2>9. (n > 0 /\ pledgedPlusOne # 0) => consumed + n + 1 <= pledgedPlusOne
      BY <1>2, <2>3, <2>8 DEF NumbersTyped
    <2> QED BY <1>3, <2>2, <2>7, <2>8, <2>9 DEF Encodes
  <1>5. CASE ~ MayShortcut
    <2> DEFINE n == Len(AllLoaded)
               capacity == IF oSize >= CompressBound(n) THEN oSize ELSE outBuffSize
    <2>1. BlockReady /\ \E c \in BlockUnits(n) : Refused(n, c, LastBlock, capacity)
      BY <1>5 DEF EncodeError
    <2>2. PICK c \in BlockUnits(n) : Refused(n, c, LastBlock, capacity)
      BY <2>1
    <2>3. ~ Encodes(n, c, LastBlock, capacity)
      BY <2>2 DEF Refused
    <2>4. pledgedPlusOne = 0
      BY <1>1, <1>5, NoOwnPledge
    <2>5. n = Len(loaded) + ToLoad
      BY <1>1, AllLoadedFacts
    <2>6. /\ ToLoad \in Nat /\ inBuffPos + ToLoad <= inBuffTarget
          /\ Len(loaded) \in Nat /\ inBuffPos = inToCompress + Len(loaded)
      BY <1>1, LoadFacts
    <2>7. LastBlock \in BOOLEAN
      BY DEF LastBlock
    <2> HIDE DEF n
    <2>8. n \in Nat /\ n <= blockSizeMax /\ n \in 0 .. InLen
      <3>1. inBuffTarget = inToCompress + blockSizeMax
        BY <1>1, <1>2, <2>4 DEF TargetInv, NumbersTyped
      <3>2. n \in Nat /\ n <= blockSizeMax
        BY <1>2, <2>5, <2>6, <3>1 DEF NumbersTyped
      <3> QED BY <1>2, <3>2 DEF BlockSizeInv, NumbersTyped, SizesInNat
    <2>9. /\ ChunkUnits(n, c, LastBlock) <= CompressBound(n)
          /\ ChunkUnits(n, c, LastBlock) \in Nat
      BY <1>2, <2>7, <2>8, ChunkFits
    <2>10. ChunkUnits(n, c, LastBlock) <= capacity
      <3>1. CASE oSize >= CompressBound(n)
        <4>1. oSize \in Int /\ CompressBound(n) \in Nat
          BY <1>2, <2>8 DEF oSize, op, CompressBound, NumbersTyped, SizesInNat
        <4> QED BY <2>9, <3>1, <4>1
      <3>2. CASE ~ (oSize >= CompressBound(n))
        <4>1. outBuffSize >= CompressBound(n) /\ CompressBound(n) \in Nat
          BY <1>2, <2>8 DEF BlockSizeInv, CompressBound, NumbersTyped, SizesInNat
        <4>2. outBuffSize \in Nat
          BY <1>2 DEF NumbersTyped
        <4> QED BY <2>9, <3>2, <4>1, <4>2
      <3> QED BY <3>1, <3>2
    <2> HIDE DEF capacity
    <2> QED BY <1>3, <2>3, <2>4, <2>10 DEF Encodes
  <1> QED BY <1>4, <1>5

(* The call fails and the session stays as it is.                          *)
LEMMA EncodeErrorStep ==
    ASSUME CInv, TypeOK', EncodeError
    PROVE  CodecInv'
  <1>1. /\ Working("load") /\ streamStage = "load" /\ pc # "failed"
        /\ pc \in CodecLocations /\ cstep = "work"
    BY DEF EncodeError, BlockReady, Working, InCodec, CodecLocations
  <1>2. /\ pc' = "failed" /\ result' = "codec_error" /\ in_size' = in_size
        /\ in_pos' = in_pos /\ out_pos' = out_pos
        /\ cstep' = "out" /\ ip' = 0
        /\ dst' = SubSeq(dst, 1, out_pos)
        /\ UNCHANGED <<streamStage, pledgedPlusOne, blockSizeMax, inBuffSize, outBuffSize,
                       flushVars, historyVars, maxBlockSize, appVars>>
    BY DEF EncodeError, CodecFail, Fail
  <1>3. /\ NumbersTyped /\ SizesInNat /\ BlockSizeInv /\ TargetInv /\ FlushInv /\ CTypeOK
    <2>1. streamStage # "init"
      BY <1>1
    <2> QED BY <2>1, NumberTypes DEF NumbersTyped, CInv, SessionInv
  <1>4. in_pos = 0 /\ out_pos = 0
    BY <1>1 DEF CInv, ControlInv, CodecLocations
  <1>5. dst' \in Seq(Nat) /\ Len(dst') = 0
    <2>1. dst \in Seq(Nat)
      BY <1>3 DEF CTypeOK
    <2> QED BY <1>2, <1>4, <2>1
  <1>6. /\ ToLoad \in Nat /\ inBuffPos + ToLoad <= inBuffTarget
        /\ Len(loaded) \in Nat /\ inBuffPos = inToCompress + Len(loaded)
        /\ Available \in Nat
    BY <1>1, LoadFacts
  <1>7. AllLoaded \in Seq(Nat) /\ Len(AllLoaded) = Len(loaded) + ToLoad
    BY <1>1, AllLoadedFacts
  <1>8. /\ loaded' \in Seq(Nat) /\ inBuffPos' \in Nat
        /\ inToCompress' = inToCompress /\ inBuffTarget' = inBuffTarget
        /\ Len(loaded') \in Nat /\ inToCompress + Len(loaded') = inBuffPos'
        /\ inBuffPos' <= inBuffTarget
    <2>1. CASE UNCHANGED ringVars
      BY <1>3, <2>1 DEF ringVars, CTypeOK, TargetInv, NumbersTyped
    <2>2. CASE /\ loaded' = AllLoaded
               /\ inBuffPos' = inBuffPos + ToLoad
               /\ UNCHANGED <<inToCompress, inBuffTarget>>
      <3>1. inToCompress \in Nat /\ inBuffPos \in Nat
        BY <1>3 DEF NumbersTyped
      <3>2. Len(loaded') = Len(loaded) + ToLoad /\ loaded' \in Seq(Nat)
        BY <1>7, <2>2
      <3>3. inBuffPos + ToLoad = inBuffPos'
        BY <2>2
      <3> QED BY <1>6, <2>2, <3>1, <3>2, <3>3
    <2> QED BY <2>1, <2>2 DEF EncodeError
  <1>9. /\ stage' \in {"created", "init", "ongoing", "ending"} /\ consumed' \in Nat
    <2>1. PICK n \in Nat : \E c, fin, capacity : Refused(n, c, fin, capacity)
      <3>1. Len(AllLoaded) \in Nat
        BY <1>7
      <3> QED BY <1>6, <3>1 DEF EncodeError
    <2>2. /\ consumed' \in {consumed, consumed + n}
          /\ stage' \in {"created", "ending", "ongoing"}
      BY <2>1 DEF Refused
    <2>3. consumed \in Nat
      BY <1>3 DEF NumbersTyped
    <2> QED BY <2>2, <2>3
  <1>10. /\ outBuff' = outBuff /\ outFlushed' = outFlushed /\ frameEnded' = frameEnded
         /\ UNCHANGED <<emitted, encoded, coded, drained, opened, pledging>>
    BY <1>2 DEF flushVars, historyVars, appVars
  <1>11. CTypeOK'
    <2>1. {pledgedPlusOne', consumed', blockSizeMax', inBuffSize', outBuffSize', inBuffPos',
           inToCompress', inBuffTarget', outFlushed', emitted', opened'} \subseteq Nat
      BY <1>2, <1>3, <1>8, <1>9, <1>10 DEF NumbersTyped
    <2>2. ip' \in 0 .. InLen
      BY <1>2, InLenAssumption
    <2> QED BY <1>2, <1>3, <1>5, <1>8, <1>9, <1>10, <2>1, <2>2 DEF CTypeOK
  <1>12. ControlInv'
    <2>1. OutLen \in Nat
      BY <1>3 DEF SizesInNat
    <2> QED BY <1>2, <1>4, <1>5, <2>1 DEF ControlInv, CodecLocations
  <1>13. SessionInv'
    <2>1. BlockSizeInv'
      BY <1>2, <1>3 DEF BlockSizeInv, CompressBound
    <2>2. TargetInv'
      <3>1. inToCompress \in Nat /\ inBuffTarget \in Nat
        BY <1>3 DEF NumbersTyped
      <3>2. inBuffPos' - inToCompress = Len(loaded') /\ inToCompress <= inBuffPos'
        <4>1. \A x, y, z \in Nat : x + y = z => z - x = y /\ x <= z
          OBVIOUS
        <4> QED BY <1>8, <3>1, <4>1
      <3> QED BY <1>2, <1>3, <1>8, <3>2 DEF TargetInv
    <2>3. FlushInv'
      BY <1>1, <1>2, <1>3, <1>10 DEF FlushInv
    <2> QED BY <2>1, <2>2, <2>3 DEF SessionInv
  <1>14. WorkInv' /\ EndInv' /\ ReturnInv'
    BY <1>2 DEF WorkInv, EndInv, ReturnInv
  <1>15. PledgeInv'
    BY <1>2, <1>10, RefusedOnPledge DEF PledgeInv
  <1> QED BY <1>11, <1>12, <1>13, <1>14, <1>15 DEF CodecInv

(* Back in the wrapper.                                                    *)
LEMMA StreamReturnStep ==
    ASSUME CInv, TypeOK', StreamReturn
    PROVE  CodecInv' /\ Thrifty(ip) /\ ToFlush \in Nat
  <1>1. /\ cstep = "return" /\ pc \in CodecLocations /\ pc # "failed"
        /\ pc' = IF pc = "codec" THEN "drain" ELSE "enddrain"
        /\ in_pos' = ip /\ out_pos' = op /\ res' = ToFlush
        /\ cstep' = "out" /\ ip' = 0
        /\ UNCHANGED <<in_size, rest_len, last, result>>
        /\ UNCHANGED <<dst, cctxVars, appVars>>
    BY DEF StreamReturn, CodecReturn, CodecLocations
  <1>2. SessionKept /\ UNCHANGED historyVars /\ UNCHANGED appVars
    BY <1>1 DEF cctxVars, SessionKept
  <1>3. SessionInv'
    BY <1>1, <1>2, SessionFrame
  <1>4. /\ streamStage' = streamStage /\ frameEnded' = frameEnded
        /\ blockSizeMax' = blockSizeMax /\ outBuff' = outBuff /\ outFlushed' = outFlushed
        /\ pledgedPlusOne' = pledgedPlusOne /\ pledging' = pledging
    BY <1>2 DEF SessionKept, sessionVars, flushVars, appVars
  <1>5. NumbersTyped
    BY NumberTypes
  <1>6. CTypeOK'
    <2>1. CTypeOK
      BY DEF CInv
    <2>2. ip' \in 0 .. InLen
      BY <1>1, InLenAssumption
    <2> QED BY <1>1, <1>2, <2>1, <2>2
            DEF CTypeOK, SessionKept, sessionVars, ringVars, flushVars, historyVars, appVars
  <1>7. /\ Thrifty(ip) /\ Left(ip)
        /\ streamStage # "flush" => ToFlush = 0
        /\ pc = "endcodec" => streamStage = "init" /\ Len(dst) > 0
        /\ endOp = "end" /\ streamStage # "init" => streamStage = "flush"
        /\ streamStage = "flush" /\ frameEnded => endOp = "end"
        /\ streamStage = "init" => pledgedPlusOne = 0 /\ endOp = "end"
    BY <1>1 DEF CInv, ReturnInv
  <1>8. /\ streamStage = "flush" => ToFlush > 0
        /\ ToFlush \in Nat
    <2>1. CASE streamStage = "flush"
      <3>1. FlushInv
        BY <2>1 DEF CInv, SessionInv
      <3> QED BY <1>5, <2>1, <3>1 DEF FlushInv, ToFlush, NumbersTyped
    <2> QED BY <1>7, <2>1
  <1>9. ControlInv'
    BY <1>1, <1>7 DEF CInv, ControlInv, CodecLocations, op
  <1>10. WorkInv' /\ EndInv'
    BY <1>1 DEF WorkInv, EndInv
  <1>11. PledgeInv'
    BY <1>1, <1>4 DEF CInv, PledgeInv
  <1>12. ReturnInv'
    <2>1. Left(in_pos)'
      <3>1. ToFlush' = ToFlush
        BY <1>4 DEF ToFlush
      <3> QED BY <1>1, <1>4, <1>7, <3>1 DEF Left
    <2>2. pc = "codec" /\ endOp = "end" <=> pc = "codec" /\ last /\ rest_len = 0
      BY DEF endOp
    <2>3. pc' = "enddrain" => streamStage' = "init" /\ pledgedPlusOne' = 0
      BY <1>1, <1>4, <1>7 DEF CodecLocations
    <2>4. pc' = "drain" /\ streamStage' = "flush" /\ frameEnded' =>
             last' /\ rest_len' = 0 /\ res' # 0
      BY <1>1, <1>4, <1>7, <1>8, <2>2
    <2>5. pc' = "drain" /\ last' /\ rest_len' = 0 /\ res' = 0 =>
             streamStage' = "init" /\ pledgedPlusOne' = 0
      BY <1>1, <1>4, <1>7, <1>8, <2>2
    <2>6. pc' \in {"drain", "enddrain"} /\ cstep' # "return"
      BY <1>1
    <2> QED BY <2>1, <2>3, <2>4, <2>5, <2>6 DEF ReturnInv
  <1> QED BY <1>3, <1>6, <1>7, <1>8, <1>9, <1>10, <1>11, <1>12 DEF CodecInv

(* A call into the codec starts with nothing produced, or with the one     *)
(* block the last call could not flush.                                    *)
LEMMA EnterWork ==
    ASSUME CInv, pc \in {"idle", "loop"}, ~ (streamStage = "flush" /\ frameEnded),
           SessionKept, dst' = dst, ip' \in Nat
    PROVE  WorkInv'
  <1>1. NumbersTyped /\ SizesInNat /\ pc # "failed"
    BY NumberTypes DEF NumbersTyped
  <1>2. Len(dst) = 0
    <2>1. dst = <<>>
      BY DEF CInv, ControlInv
    <2> QED BY <2>1
  <1>3. /\ streamStage' = streamStage /\ frameEnded' = frameEnded /\ stage' = stage
        /\ blockSizeMax' = blockSizeMax /\ outBuff' = outBuff /\ outFlushed' = outFlushed
        /\ consumed' = consumed
    BY DEF SessionKept, sessionVars, flushVars
  <1>4. CASE streamStage # "flush"
    <2>1. Produced' = 0
      BY <1>2, <1>3, <1>4 DEF Produced
    <2>2. Largest(0)' >= 0 /\ 0 * blockSizeMax' = 0 /\ 0 \in 0 .. consumed'
      BY <1>1, <1>3 DEF Largest, NumbersTyped, SizesInNat
    <2>3. consumed' \in Nat
      BY <1>1, <1>3 DEF NumbersTyped
    <2> QED BY <1>3, <1>4, <2>1, <2>2, <2>3 DEF WorkInv
  <1>5. CASE streamStage = "flush" /\ ~ frameEnded
    <2>1. FlushInv /\ BlockSizeInv
      BY <1>5 DEF CInv, SessionInv
    <2>2. /\ ToFlush <= FrameHdr + BlockHdr + blockSizeMax /\ ToFlush \in Nat
          /\ consumed >= blockSizeMax /\ blockSizeMax > 0 /\ stage = "ongoing"
          /\ consumed \in Nat /\ blockSizeMax \in Nat
          /\ FrameHdr \in Nat /\ BlockHdr \in Nat
      BY <1>1, <1>5, <2>1 DEF FlushInv, BlockSizeInv, ToFlush, NumbersTyped, SizesInNat
    <2>3. Produced' = ToFlush
      <3>1. ToFlush' = ToFlush
        BY <1>3 DEF ToFlush
      <3> QED BY <1>2, <1>3, <1>5, <2>2, <3>1 DEF Produced
    <2>4. Largest(1)' = FrameHdr + blockSizeMax + BlockHdr
      BY <1>3, <2>2 DEF Largest
    <2>5. /\ 1 \in 0 .. consumed' /\ (1 - 1) * blockSizeMax' <= ip'
          /\ 1 * blockSizeMax' <= consumed'
      BY <1>3, <1>5, <2>2
    <2>6. Produced' <= Largest(1)'
      BY <2>2, <2>3, <2>4
    <2> QED BY <1>3, <1>5, <2>2, <2>5, <2>6 DEF WorkInv
  <1> QED BY <1>4, <1>5

(* The application passes a slice.                                         *)
LEMMA CompressChunkStep ==
    ASSUME CInv, TypeOK', NEW n \in ChunkLens, NEW l \in BOOLEAN, ~ (n = 0 /\ l),
           CompressChunk(n, l)
    PROVE  CodecInv'
  <1>1. /\ pc = "idle" /\ pc' = "loop" /\ rest_len' = n /\ last' = l
        /\ UNCHANGED <<in_size, in_pos, out_pos, result>>
        /\ UNCHANGED <<codecVars, appVars>>
    BY DEF CompressChunk, ChunkBegin
  <1>2. /\ SessionKept /\ UNCHANGED historyVars /\ UNCHANGED appVars
        /\ UNCHANGED <<cstep, ip, dst>>
    BY <1>1 DEF codecVars, cctxVars, SessionKept
  <1>3. cstep = "out"
    BY <1>1 DEF CInv, ControlInv, CodecLocations
  <1>4. CTypeOK' /\ SessionInv'
    BY <1>1, <1>2, <1>3, TypesFrame, SessionFrame
  <1>5. ControlInv'
    BY <1>1, <1>2, <1>3 DEF CInv, ControlInv, CodecLocations
  <1>6. WorkInv' /\ EndInv'
    BY <1>1, <1>2, <1>3 DEF WorkInv, EndInv
  <1>7. /\ streamStage' = streamStage /\ frameEnded' = frameEnded
        /\ blockSizeMax' = blockSizeMax /\ ToFlush' = ToFlush
        /\ pledgedPlusOne' = pledgedPlusOne /\ pledging' = pledging
    BY <1>2 DEF SessionKept, sessionVars, flushVars, appVars, ToFlush
  <1>8. ReturnInv'
    <2>1. Left(0) /\ ~ (streamStage = "flush" /\ frameEnded)
      BY <1>1 DEF CInv, ReturnInv
    <2>2. Left(0)'
      BY <1>1, <1>7, <2>1 DEF Left
    <2>3. ~ (last' /\ rest_len' = 0)
      BY <1>1
    <2> QED BY <1>1, <1>2, <1>3, <1>7, <2>1, <2>2, <2>3 DEF ReturnInv
  <1>9. PledgeInv'
    BY <1>1, <1>3, <1>7 DEF CInv, PledgeInv
  <1> QED BY <1>4, <1>5, <1>6, <1>8, <1>9 DEF CodecInv

(* A part of the slice is copied and the codec called.                     *)
LEMMA CompressFillStep ==
    ASSUME CInv, TypeOK', BoundsInv', CompressFill
    PROVE  CodecInv'
  <1>1. /\ pc = "loop" /\ pc' = "codec" /\ rest_len > 0
        /\ UNCHANGED <<in_pos, out_pos, last, result>>
        /\ cstep' = "enter" /\ ip' = in_pos
        /\ UNCHANGED <<dst, cctxVars, appVars>>
    BY DEF CompressFill, Fill, Enter
  <1>2. /\ SessionKept /\ UNCHANGED historyVars /\ UNCHANGED appVars /\ dst' = dst
    BY <1>1 DEF cctxVars, SessionKept
  <1>3. /\ cstep = "out" /\ in_pos = 0 /\ out_pos = 0 /\ dst = <<>>
        /\ result # "codec_error"
    BY <1>1 DEF CInv, ControlInv, CodecLocations
  <1>4. NumbersTyped
    BY NumberTypes
  <1>5. CTypeOK'
    <2>1. CTypeOK
      BY DEF CInv
    <2>2. ip' \in 0 .. InLen
      BY <1>1, <1>3, InLenAssumption
    <2> QED BY <1>1, <1>2, <2>1, <2>2
            DEF CTypeOK, SessionKept, sessionVars, ringVars, flushVars, historyVars, appVars
  <1>6. SessionInv'
    BY <1>1, <1>2, SessionFrame
  <1>7. /\ streamStage' = streamStage /\ frameEnded' = frameEnded
        /\ pledgedPlusOne' = pledgedPlusOne /\ pledging' = pledging
    BY <1>2 DEF SessionKept, sessionVars, flushVars, appVars
  <1>8. ControlInv'
    <2>1. in_pos' <= in_size'
      BY DEF BoundsInv, BuffersInBounds
    <2>2. in_pos' <= ip' /\ Len(dst) <= OutLen
      BY <1>1, <1>3 DEF CInv, ControlInv
    <2> QED BY <1>1, <1>3, <2>1, <2>2 DEF ControlInv, CodecLocations
  <1>9. ~ (streamStage = "flush" /\ frameEnded)
    <2>1. rest_len # 0
      BY <1>1, <1>4 DEF NumbersTyped
    <2> QED BY <1>1, <2>1 DEF CInv, ReturnInv
  <1>10. WorkInv'
    <2>1. ip' \in Nat
      BY <1>1, <1>3
    <2> QED BY <1>1, <1>2, <1>9, <2>1, EnterWork
  <1>11. EndInv' /\ ReturnInv'
    BY <1>1, <1>7, <1>9 DEF EndInv, ReturnInv
  <1>12. PledgeInv'
    BY <1>1, <1>3, <1>7 DEF CInv, PledgeInv
  <1> QED BY <1>5, <1>6, <1>8, <1>10, <1>11, <1>12 DEF CodecInv

(* The callback takes the output and drain_buffer moves the input.         *)
LEMMA CompressDrainStep ==
    ASSUME CInv, TypeOK', CompressDrain
    PROVE  CodecInv'
  <1>1. /\ pc = "drain" /\ pc' = "loop" /\ out_pos' = 0 /\ in_pos' = 0
        /\ in_size' = in_size - in_pos
        /\ UNCHANGED <<rest_len, last, res, result>>
        /\ drained' = drained \o dst /\ dst' = <<>>
        /\ UNCHANGED <<cstep, ip, cctxVars, opened, pledging>>
    BY DEF CompressDrain, DrainBuffer, Compact, Accept, callVars
  <1>2. SessionKept /\ UNCHANGED historyVars
    BY <1>1 DEF cctxVars, SessionKept
  <1>3. cstep = "out" /\ result # "codec_error"
    BY <1>1 DEF CInv, ControlInv, CodecLocations
  <1>4. NumbersTyped /\ SizesInNat
    BY NumberTypes DEF NumbersTyped
  <1>5. drained' \in Seq(Nat) /\ dst' \in Seq(Nat) /\ Len(dst') = 0
    <2>1. drained \in Seq(Nat) /\ dst \in Seq(Nat)
      BY DEF CInv, CTypeOK
    <2> QED BY <1>1, <2>1
  <1>6. CTypeOK'
    <2>1. CTypeOK
      BY DEF CInv
    <2> QED BY <1>1, <1>2, <1>5, <2>1
            DEF CTypeOK, SessionKept, sessionVars, ringVars, flushVars, historyVars
  <1>7. SessionInv'
    BY <1>1, <1>2, SessionFrame
  <1>8. /\ streamStage' = streamStage /\ frameEnded' = frameEnded
        /\ blockSizeMax' = blockSizeMax /\ ToFlush' = ToFlush
        /\ pledgedPlusOne' = pledgedPlusOne
    BY <1>2 DEF SessionKept, sessionVars, flushVars, ToFlush
  <1>9. ControlInv'
    <2>1. 0 <= OutLen
      BY <1>4 DEF SizesInNat
    <2> QED BY <1>1, <1>3, <1>5, <2>1 DEF ControlInv, CodecLocations
  <1>10. WorkInv' /\ EndInv'
    BY <1>1, <1>3 DEF WorkInv, EndInv
  <1>11. ReturnInv'
    <2>1. Left(in_pos)
      BY <1>1 DEF CInv, ReturnInv
    <2>2. Left(0)'
      BY <1>1, <1>4, <1>8, <2>1 DEF Left, NumbersTyped
    <2>3. /\ streamStage = "flush" /\ frameEnded => last /\ rest_len = 0 /\ res # 0
          /\ last /\ rest_len = 0 /\ res = 0 => streamStage = "init" /\ pledgedPlusOne = 0
      BY <1>1 DEF CInv, ReturnInv
    <2> QED BY <1>1, <1>3, <1>8, <2>2, <2>3 DEF ReturnInv
  <1>12. PledgeInv'
    BY <1>1, <1>3, <1>8 DEF CInv, PledgeInv
  <1> QED BY <1>6, <1>7, <1>9, <1>10, <1>11, <1>12 DEF CodecInv

(* The callback fails.                                                     *)
LEMMA CompressDrainFailStep ==
    ASSUME CInv, TypeOK', CompressDrainFail
    PROVE  CodecInv'
  <1>1. /\ pc \in {"drain", "enddrain"} /\ pc' = "failed" /\ result' = "drain_error"
        /\ UNCHANGED <<in_size, in_pos, out_pos, last, res>>
        /\ drained' \in {drained, drained \o dst}
        /\ UNCHANGED <<codecVars, opened, pledging>>
    BY DEF CompressDrainFail, DrainFail, Fail, bufVars
  <1>2. SessionKept /\ UNCHANGED historyVars /\ UNCHANGED <<cstep, ip, dst>>
    BY <1>1 DEF codecVars, cctxVars, SessionKept
  <1>3. cstep = "out" /\ pc # "failed"
    BY <1>1 DEF CInv, ControlInv, CodecLocations
  <1>4. drained' \in Seq(Nat)
    <2>1. drained \in Seq(Nat) /\ dst \in Seq(Nat)
      BY DEF CInv, CTypeOK
    <2>2. drained \o dst \in Seq(Nat)
      BY <2>1
    <2>3. drained' = drained \/ drained' = drained \o dst
      BY <1>1
    <2> HIDE DEF CInv
    <2> QED BY <2>1, <2>2, <2>3
  <1>5. CTypeOK'
    <2>1. CTypeOK
      BY DEF CInv
    <2> QED BY <1>1, <1>2, <1>4, <2>1
            DEF CTypeOK, SessionKept, sessionVars, ringVars, flushVars, historyVars
  <1>6. SessionInv'
    BY <1>2, <1>3, SessionFrame
  <1>7. ControlInv'
    BY <1>1, <1>2, <1>3 DEF CInv, ControlInv, CodecLocations
  <1>8. WorkInv' /\ EndInv' /\ ReturnInv' /\ PledgeInv'
    BY <1>1, <1>2, <1>3 DEF WorkInv, EndInv, ReturnInv, PledgeInv
  <1> QED BY <1>5, <1>6, <1>7, <1>8 DEF CodecInv

(* The end of compress_chunk.                                              *)
LEMMA CompressChunkEndStep ==
    ASSUME CInv, TypeOK', CompressChunkEnd
    PROVE  CodecInv'
  <1>1. /\ pc = "loop" /\ rest_len = 0 /\ rest_len' = 0
        /\ UNCHANGED <<in_size, in_pos, out_pos, last, res>>
        /\ UNCHANGED <<codecVars, drained>>
    BY DEF CompressChunkEnd, ChunkEnd, Fail, bufVars
  <1>2. \/ pc' = "failed" /\ result' = "unfinished"
        \/ pc' = "idle" /\ result' = "ok" /\ (last => res = 0)
    BY DEF CompressChunkEnd, ChunkEnd, Fail
  <1>3. IF last /\ result' = "ok"
        THEN opened' = base' /\ pledging' = FALSE
        ELSE opened' = opened /\ pledging' = pledging
    BY DEF CompressChunkEnd
  <1>4. SessionKept /\ UNCHANGED historyVars /\ UNCHANGED <<cstep, ip, dst>>
    BY <1>1 DEF codecVars, cctxVars, SessionKept
  <1>5. cstep = "out" /\ pc # "failed" /\ result # "codec_error"
    BY <1>1 DEF CInv, ControlInv, CodecLocations
  <1>6. /\ streamStage' = streamStage /\ frameEnded' = frameEnded
        /\ blockSizeMax' = blockSizeMax /\ ToFlush' = ToFlush
        /\ pledgedPlusOne' = pledgedPlusOne
    BY <1>4 DEF SessionKept, sessionVars, flushVars, ToFlush
  <1>7. CTypeOK'
    <2>1. CTypeOK
      BY DEF CInv
    <2>2. base' \in Nat
      BY DEF TypeOK
    <2>3. opened' \in Nat /\ pledging' \in BOOLEAN
      BY <1>3, <2>1, <2>2 DEF CTypeOK
    <2> QED BY <1>1, <1>4, <2>1, <2>3
            DEF CTypeOK, SessionKept, sessionVars, ringVars, flushVars, historyVars
  <1>8. SessionInv'
    BY <1>4, <1>5, SessionFrame
  <1>9. ControlInv'
    BY <1>1, <1>2, <1>4, <1>5 DEF CInv, ControlInv, CodecLocations
  <1>10. WorkInv' /\ EndInv'
    BY <1>4, <1>5 DEF WorkInv, EndInv
  <1>11. /\ Left(0)
         /\ streamStage = "flush" /\ frameEnded => last /\ res # 0
         /\ last /\ res = 0 => pledgedPlusOne = 0
    BY <1>1 DEF CInv, ReturnInv
  <1>12. ReturnInv'
    <2>1. Left(0)'
      BY <1>1, <1>6, <1>11 DEF Left
    <2> QED BY <1>2, <1>4, <1>5, <1>6, <1>11, <2>1 DEF ReturnInv
  <1>13. PledgeInv'
    <2>1. ~ pledging => pledgedPlusOne = 0
      BY <1>5 DEF CInv, PledgeInv
    <2> QED BY <1>2, <1>3, <1>6, <1>11, <2>1 DEF PledgeInv
  <1> QED BY <1>7, <1>8, <1>9, <1>10, <1>12, <1>13 DEF CodecInv

(* compress_end calls the codec: what is left is no more than a block.     *)
LEMMA CompressEndStep ==
    ASSUME CInv, TypeOK', CompressEnd
    PROVE  CodecInv'
  <1>1. /\ pc = "idle" /\ pc' = "endcodec" /\ last' = TRUE
        /\ UNCHANGED <<in_size, in_pos, out_pos, rest_len, res, result>>
        /\ cstep' = "enter" /\ ip' = in_pos
        /\ UNCHANGED <<dst, cctxVars, appVars>>
    BY DEF CompressEnd, EndBegin, Enter, bufVars
  <1>2. /\ SessionKept /\ UNCHANGED historyVars /\ UNCHANGED appVars /\ dst' = dst
    BY <1>1 DEF cctxVars, SessionKept
  <1>3. /\ cstep = "out" /\ in_pos = 0 /\ out_pos = 0 /\ dst = <<>> /\ ip' = 0
        /\ result # "codec_error"
    BY <1>1 DEF CInv, ControlInv, CodecLocations
  <1>4. NumbersTyped
    BY NumberTypes
  <1>5. CTypeOK'
    <2>1. CTypeOK
      BY DEF CInv
    <2>2. ip' \in 0 .. InLen
      BY <1>3, InLenAssumption
    <2> QED BY <1>1, <1>2, <2>1, <2>2
            DEF CTypeOK, SessionKept, sessionVars, ringVars, flushVars, historyVars, appVars
  <1>6. SessionInv'
    BY <1>1, <1>2, SessionFrame
  <1>7. /\ streamStage' = streamStage /\ frameEnded' = frameEnded
        /\ blockSizeMax' = blockSizeMax /\ ToFlush' = ToFlush /\ loaded' = loaded
        /\ pledgedPlusOne' = pledgedPlusOne /\ pledging' = pledging
    BY <1>2 DEF SessionKept, sessionVars, ringVars, flushVars, appVars, ToFlush
  <1>8. ControlInv'
    <2>1. 0 <= in_size'
      BY <1>1, <1>4 DEF NumbersTyped
    <2> QED BY <1>1, <1>3, <2>1 DEF CInv, ControlInv, CodecLocations
  <1>9. ~ (streamStage = "flush" /\ frameEnded) /\ Left(0)
    BY <1>1 DEF CInv, ReturnInv
  <1>10. WorkInv'
    <2>1. ip' \in Nat
      BY <1>3
    <2> QED BY <1>1, <1>2, <1>9, <2>1, EnterWork
  <1>11. EndInv'
    <2>1. in_size' = in_size /\ ip' = 0 /\ dst' = <<>> /\ Len(dst') = 0
      BY <1>1, <1>3
    <2>2. CASE streamStage = "init"
      BY <1>7, <1>9, <2>1, <2>2 DEF EndInv, Left
    <2>3. CASE streamStage = "load"
      <3>1. TargetInv /\ pc # "failed"
        BY <1>1, <2>3 DEF CInv, SessionInv
      <3>2. Len(loaded) <= blockSizeMax
        BY <1>4, <3>1 DEF NumbersTyped, TargetInv
      <3>3. in_size = 0
        BY <1>9, <2>3 DEF Left
      <3>4. Len(dst') + Len(loaded') + (in_size' - ip') <= blockSizeMax'
        BY <1>4, <1>7, <2>1, <3>2, <3>3 DEF NumbersTyped
      <3> QED BY <1>7, <2>3, <3>4 DEF EndInv
    <2>4. CASE streamStage = "flush"
      <3>1. ToFlush + (in_size - 0) <= blockSizeMax /\ ~ frameEnded
        BY <1>9, <2>4 DEF Left
      <3>2. ToFlush' + in_size' <= blockSizeMax'
        BY <1>4, <1>7, <2>1, <3>1 DEF NumbersTyped
      <3> QED BY <1>7, <2>1, <2>4, <3>1, <3>2 DEF EndInv
    <2> QED BY <2>2, <2>3, <2>4 DEF CInv, CTypeOK
  <1>12. ReturnInv'
    BY <1>1 DEF ReturnInv
  <1>13. PledgeInv'
    BY <1>1, <1>3, <1>7 DEF CInv, PledgeInv
  <1> QED BY <1>5, <1>6, <1>8, <1>10, <1>11, <1>12, <1>13 DEF CodecInv

(* compress_end hands the last output over: the frame is complete.         *)
LEMMA CompressEndDrainStep ==
    ASSUME CInv, TypeOK', CompressEndDrain
    PROVE  CodecInv'
  <1>1. /\ pc = "enddrain" /\ pc' = "idle" /\ out_pos' = 0 /\ result' = "ok"
        /\ UNCHANGED <<rest_len, last, res, base>>
        /\ drained' = drained \o dst /\ dst' = <<>>
        /\ opened' = base /\ pledging' = FALSE
        /\ UNCHANGED <<cstep, ip, cctxVars>>
    BY DEF CompressEndDrain, EndDrain, Accept, callVars
  <1>2. SessionKept /\ UNCHANGED historyVars
    BY <1>1 DEF cctxVars, SessionKept
  <1>3. cstep = "out" /\ out_pos > 0 /\ streamStage = "init" /\ pledgedPlusOne = 0
    BY <1>1 DEF CInv, ControlInv, ReturnInv, CodecLocations
  <1>4. in_pos' = 0 /\ in_size' = 0
    <2>1. in_pos = in_size /\ in_size \in Nat
      <3>1. Left(in_pos)
        BY <1>1 DEF CInv, ReturnInv
      <3>2. NumbersTyped
        BY NumberTypes
      <3> QED BY <1>3, <3>1, <3>2 DEF Left, NumbersTyped
    <2>2. in_pos' = 0 /\ in_size' = in_size - in_pos
      BY <1>3 DEF CompressEndDrain, EndDrain, Compact
    <2> QED BY <2>1, <2>2
  <1>5. drained' \in Seq(Nat) /\ dst' \in Seq(Nat) /\ Len(dst') = 0
    <2>1. drained \in Seq(Nat) /\ dst \in Seq(Nat)
      BY DEF CInv, CTypeOK
    <2> QED BY <1>1, <2>1
  <1>6. CTypeOK'
    <2>1. CTypeOK
      BY DEF CInv
    <2>2. base \in Nat
      BY <2>1 DEF CTypeOK, TypeOK
    <2> QED BY ZenonT(60), <1>1, <1>2, <1>5, <2>1, <2>2
            DEF CTypeOK, SessionKept, sessionVars, ringVars, flushVars, historyVars
  <1>7. streamStage' = "init" /\ pledgedPlusOne' = 0
    BY <1>2, <1>3 DEF SessionKept, sessionVars
  <1>8. ControlInv'
    <2>1. SizesInNat
      BY SizesFacts
    <2> QED BY <1>1, <1>3, <1>4, <1>5, <2>1 DEF ControlInv, CodecLocations, SizesInNat
  <1>9. SessionInv' /\ WorkInv' /\ EndInv' /\ PledgeInv'
    BY <1>1, <1>3, <1>7 DEF SessionInv, WorkInv, EndInv, PledgeInv
  <1>10. ReturnInv'
    BY <1>1, <1>3, <1>4, <1>7 DEF ReturnInv, Left
  <1> QED BY <1>6, <1>8, <1>9, <1>10 DEF CodecInv

(* The application prepares a frame, or gives one up: there is no session. *)
LEMMA BetweenFramesStep ==
    ASSUME CInv, TypeOK',
           \/ \E n \in Pledges : SetPledgedSrcSize(n)
           \/ \E b \in MaxBlocks : SetMaxBlockSize(b)
           \/ Restart
    PROVE  CodecInv'
  <1>1. /\ pc \in {"idle", "failed"} /\ pc' = "idle" /\ result' # "codec_error"
        /\ cstep' = cstep /\ ip' = ip /\ streamStage' = "init"
        /\ UNCHANGED <<stage, consumed, blockSizeMax, inBuffSize, outBuffSize,
                       ringVars, flushVars>>
    BY DEF CInv, ControlInv, SetPledgedSrcSize, SetMaxBlockSize, Restart, Reset, SessionReset,
           sessionVars, vars
  <1>2. cstep = "out"
    BY <1>1 DEF CInv, ControlInv, CodecLocations
  <1>3. /\ in_pos' = 0 /\ in_size' = 0 /\ out_pos' = 0 /\ Len(dst') = 0 /\ dst' = <<>>
        /\ pledging' = FALSE => pledgedPlusOne' = 0
    <2>1. CASE Restart
      BY <2>1 DEF Restart, Reset, SessionReset
    <2>2. CASE ~ Restart
      <3>1. /\ pc = "idle" /\ streamStage = "init"
            /\ UNCHANGED <<in_pos, in_size, out_pos, dst>>
            /\ pledging' = TRUE \/ UNCHANGED <<pledging, pledgedPlusOne>>
        BY <2>2 DEF SetPledgedSrcSize, SetMaxBlockSize, vars, sessionVars, appVars
      <3>2. in_pos = 0 /\ out_pos = 0 /\ dst = <<>>
        BY <3>1 DEF CInv, ControlInv
      <3>3. in_size = 0
        BY <3>1 DEF CInv, ReturnInv, Left
      <3>4. pledging = FALSE => pledgedPlusOne = 0
        BY <1>2, <3>1 DEF CInv, PledgeInv
      <3> QED BY <3>1, <3>2, <3>3, <3>4
    <2> QED BY <2>1, <2>2
  <1>4. CTypeOK'
    <2>1. CTypeOK
      BY DEF CInv
    <2>2. CASE Restart
      <3>1. /\ emitted' = 0 /\ opened' = base' /\ pledging' = FALSE /\ pledgedPlusOne' = 0
            /\ maxBlockSize' = maxBlockSize
        BY <2>2 DEF Restart, Reset, SessionReset
      <3>2. base' \in Nat
        BY DEF TypeOK
      <3>3. drained' \in Seq(Nat) /\ encoded' \in Seq(Nat) /\ dst' \in Seq(Nat)
        BY <2>2 DEF Restart
      <3>4. coded' \in Seq(CodedItem)
        BY <2>2 DEF Restart
      <3>5. {pledgedPlusOne', consumed', blockSizeMax', inBuffSize', outBuffSize',
             inBuffPos', inToCompress', inBuffTarget', outFlushed', emitted', opened'}
              \subseteq Nat
        BY <1>1, <2>1, <3>1, <3>2 DEF CTypeOK, ringVars, flushVars
      <3>6. /\ ip' \in 0 .. InLen /\ cstep' \in {"out", "enter", "work", "return"}
            /\ stage' \in {"created", "init", "ongoing", "ending"}
            /\ maxBlockSize' \in MaxBlocks /\ {frameEnded', pledging'} \subseteq BOOLEAN
            /\ loaded' \in Seq(Nat) /\ outBuff' \in Seq(Nat)
        BY <1>1, <2>1, <3>1 DEF CTypeOK, ringVars, flushVars
      <3> QED BY <1>1, <3>3, <3>4, <3>5, <3>6 DEF CTypeOK, CodedItem
    <2>3. CASE \E n \in Pledges : SetPledgedSrcSize(n)
      <3>1. PICK n \in Pledges : SetPledgedSrcSize(n)
        BY <2>3
      <3>2. pledgedPlusOne' \in Nat
        BY <3>1, SizesAssumption DEF SetPledgedSrcSize
      <3>3. /\ pledging' = TRUE /\ opened' = opened /\ drained' = drained
            /\ maxBlockSize' = maxBlockSize /\ UNCHANGED historyVars /\ dst' = dst
        BY <3>1 DEF SetPledgedSrcSize
      <3> QED BY <1>1, <2>1, <3>2, <3>3 DEF CTypeOK, ringVars, flushVars, historyVars
    <2>4. CASE \E b \in MaxBlocks : SetMaxBlockSize(b)
      BY <1>1, <2>1, <2>4 DEF SetMaxBlockSize, CTypeOK, sessionVars, ringVars, flushVars,
         historyVars, appVars
    <2> QED BY <2>2, <2>3, <2>4
  <1>5. ControlInv'
    <2>1. SizesInNat
      BY SizesFacts
    <2> QED BY <1>1, <1>2, <1>3, <2>1 DEF ControlInv, CodecLocations, SizesInNat
  <1>6. PledgeInv'
    <2>1. pledging' \in BOOLEAN
      BY <1>4 DEF CTypeOK
    <2> QED BY <1>1, <1>3, <2>1 DEF PledgeInv
  <1>7. SessionInv' /\ WorkInv' /\ EndInv'
    BY <1>1, <1>2 DEF SessionInv, WorkInv, EndInv
  <1>8. ReturnInv'
    BY <1>1, <1>2, <1>3 DEF ReturnInv, Left
  <1> QED BY <1>4, <1>5, <1>6, <1>7, <1>8 DEF CodecInv

(* Nothing happens.                                                        *)
LEMMA CompressStutter ==
    ASSUME CInv, UNCHANGED allVars
    PROVE  CodecInv'
  <1> USE DEF allVars, codecVars, cctxVars, sessionVars, ringVars, flushVars, historyVars,
              appVars, vars
  <1>1. CTypeOK' /\ ControlInv'
    BY DEF CInv, CTypeOK, TypeOK, ControlInv
  <1>2. SessionInv' /\ PledgeInv'
    BY DEF CInv, SessionInv, BlockSizeInv, TargetInv, FlushInv, ToFlush, CompressBound,
           PledgeInv, endOp
  <1>3. WorkInv' /\ EndInv' /\ ReturnInv'
    BY DEF CInv, WorkInv, EndInv, ReturnInv, Produced, ToFlush, Largest, Left, Thrifty, endOp
  <1> QED BY <1>1, <1>2, <1>3 DEF CodecInv

-----------------------------------------------------------------------------
(* Every step.                                                             *)

(* A new pair of contexts satisfies the invariant.                         *)
LEMMA InitCInv == CInit => CInv
  <1> SUFFICES ASSUME CInit PROVE CInv
    OBVIOUS
  <1>1. Init /\ OrderInv
    BY InitOrder DEF CInit
  <1>2. TypeOK
    BY <1>1 DEF OrderInv, BoundsInv
  <1>3. /\ pc = "idle" /\ in_size = 0 /\ in_pos = 0 /\ out_pos = 0 /\ result = "none"
    BY <1>1 DEF Init
  <1>4. /\ cstep = "out" /\ ip = 0 /\ dst = <<>> /\ streamStage = "init"
        /\ pledgedPlusOne = 0 /\ pledging = FALSE
    BY DEF CInit
  <1>5. CTypeOK
    <2>1. coded \in Seq([upto : Nat, begins : BOOLEAN, fin : BOOLEAN,
                         size : Nat \union {Unknown}])
      BY DEF CInit
    <2>2. ip \in 0 .. InLen
      BY <1>4, InLenAssumption
    <2>3. loaded \in Seq(Nat) /\ outBuff \in Seq(Nat) /\ drained \in Seq(Nat)
          /\ dst \in Seq(Nat) /\ encoded \in Seq(Nat)
      BY DEF CInit
    <2>4. {pledgedPlusOne, consumed, blockSizeMax, inBuffSize, outBuffSize, inBuffPos,
           inToCompress, inBuffTarget, outFlushed, emitted, opened} \subseteq Nat
      BY DEF CInit
    <2>5. /\ cstep \in {"out", "enter", "work", "return"}
          /\ streamStage \in {"init", "load", "flush"}
          /\ stage \in {"created", "init", "ongoing", "ending"}
          /\ maxBlockSize \in MaxBlocks /\ {frameEnded, pledging} \subseteq BOOLEAN
      BY DEF CInit
    <2> QED BY <1>2, <2>1, <2>2, <2>3, <2>4, <2>5 DEF CTypeOK
  <1>6. ControlInv
    <2>1. SizesInNat /\ Len(dst) = 0
      BY <1>4, SizesFacts
    <2> QED BY <1>3, <1>4, <2>1 DEF ControlInv, CodecLocations, SizesInNat
  <1>7. SessionInv /\ WorkInv /\ EndInv
    BY <1>3, <1>4 DEF SessionInv, WorkInv, EndInv
  <1>8. ReturnInv /\ PledgeInv
    BY <1>3, <1>4 DEF ReturnInv, Left, PledgeInv
  <1> QED BY <1>1, <1>5, <1>6, <1>7, <1>8 DEF CInv

(* To the wrapper every step of the codec is a step of a thrifty codec     *)
(* that hints how much it has left to flush.                               *)
LEMMA StepIsHint ==
    ASSUME CInv, [CNext]_allVars
    PROVE  [ThriftyHintNext]_vars
  <1> USE DEF ThriftyHintNext, Wrapper
  <1>1. NumbersTyped
    BY NumberTypes
  <1>2. CASE Application(AnyChunk \ {<<0, TRUE>>})
    <2>1. ASSUME NEW call \in AnyChunk, CompressChunk(call[1], call[2])
          PROVE  \E n \in ChunkLens, l \in BOOLEAN : ChunkBegin(n, l)
      BY <2>1 DEF AnyChunk, CompressChunk
    <2>2. CompressEnd => EndBegin
      BY DEF CompressEnd
    <2>3. (\E n \in Pledges : SetPledgedSrcSize(n)) => UNCHANGED vars
      BY DEF SetPledgedSrcSize
    <2>4. (\E b \in MaxBlocks : SetMaxBlockSize(b)) => UNCHANGED vars
      BY DEF SetMaxBlockSize
    <2>5. Restart => Reset
      BY DEF Restart
    <2> QED BY <1>2, <2>1, <2>2, <2>3, <2>4, <2>5 DEF Application
  <1>3. CASE WrapperSteps
    BY <1>3 DEF WrapperSteps, CompressFill, CompressDrain, CompressDrainFail,
                CompressChunkEnd, CompressEndDrain
  <1>4. CASE EncodeError
    <2>1. CodecFail(in_pos, out_pos)
      BY <1>4 DEF EncodeError
    <2>2. in_pos \in in_pos .. in_size /\ out_pos \in out_pos .. OutLen
      BY <1>1 DEF NumbersTyped, SizesInNat
    <2> QED BY <2>1, <2>2 DEF CodecError
  <1>5. CASE StreamReturn
    <2>1. /\ cstep = "return" /\ CodecReturn(ip, op, ToFlush)
      BY <1>5 DEF StreamReturn
    <2>2. Thrifty(ip) /\ ToFlush \in Nat
      <3>1. Thrifty(ip) /\ (streamStage # "flush" => ToFlush = 0)
        BY <2>1 DEF CInv, ReturnInv
      <3>2. streamStage = "flush" => ToFlush \in Nat
        BY <1>1 DEF CInv, SessionInv, FlushInv, NumbersTyped, ToFlush
      <3> QED BY <3>1, <3>2
    <2>3. /\ pc \in CodecLocations
          /\ in_pos <= ip /\ ip <= in_size /\ out_pos = 0 /\ Len(dst) <= OutLen
      BY <2>1 DEF CInv, ControlInv, CodecLocations
    <2>4. ip \in in_pos .. in_size /\ op \in out_pos .. OutLen
      BY <1>1, <2>3 DEF NumbersTyped, SizesInNat, op
    <2> QED BY <2>1, <2>2, <2>4 DEF ThriftyHintingCodec
  <1>6. CASE CompressStream2 /\ ~ EncodeError /\ ~ StreamReturn
    BY <1>6 DEF CompressStream2, InitStream, ResumeStream, Shortcut, LoadAndStop,
                CompressDirect, CompressToOutBuff, Flush
  <1>7. CASE UNCHANGED allVars
    BY <1>7 DEF allVars
  <1> QED BY <1>2, <1>3, <1>4, <1>5, <1>6, <1>7 DEF CNext

(* Every step keeps the invariant.                                         *)
LEMMA StepCInv == CInv /\ [CNext]_allVars => CInv'
  <1> SUFFICES ASSUME CInv, [CNext]_allVars
               PROVE  CInv'
    OBVIOUS
  <1>1. OrderInv'
    <2>1. OrderInv
      BY DEF CInv
    <2> QED BY <2>1, StepIsHint, StepOrder
  <1>2. BoundsInv' /\ TypeOK'
    BY <1>1 DEF OrderInv, BoundsInv
  <1> SUFFICES CodecInv'
    BY <1>1 DEF CInv, CodecInv
  <1>3. CASE Application(AnyChunk \ {<<0, TRUE>>})
    <2>1. ASSUME NEW call \in AnyChunk \ {<<0, TRUE>>}, CompressChunk(call[1], call[2])
          PROVE  CodecInv'
      <3>1. /\ call[1] \in ChunkLens /\ call[2] \in BOOLEAN
            /\ ~ (call[1] = 0 /\ call[2])
        <4>1. PICK n \in ChunkLens, l \in BOOLEAN : call = <<n, l>>
          BY DEF AnyChunk
        <4>2. call[1] = n /\ call[2] = l
          BY <4>1
        <4>3. n = 0 => l # TRUE
          <5>1. n = 0 /\ l = TRUE => call = <<0, TRUE>>
            BY <4>1
          <5> QED BY <5>1
        <4> QED BY <4>2, <4>3
      <3> QED BY <1>2, <2>1, <3>1, CompressChunkStep
    <2> QED BY <1>2, <1>3, <2>1, CompressEndStep, BetweenFramesStep DEF Application
  <1>4. CASE WrapperSteps
    BY <1>2, <1>4, CompressFillStep, CompressDrainStep, CompressDrainFailStep,
       CompressChunkEndStep, CompressEndDrainStep DEF WrapperSteps
  <1>5. CASE CompressStream2
    BY <1>2, <1>5, InitStreamStep, ResumeStreamStep, ShortcutStep, LoadAndStopStep,
       CompressDirectStep, CompressToOutBuffStep, FlushStep, EncodeErrorStep,
       StreamReturnStep DEF CompressStream2
  <1>6. CASE UNCHANGED allVars
    BY <1>6, CompressStutter
  <1> QED BY <1>3, <1>4, <1>5, <1>6 DEF CNext

-----------------------------------------------------------------------------
(* Type correctness of the wrapper, its application and the codec.         *)
THEOREM CompressTypeCorrect == CSpec => []CTypeOK
  <1>1. CInv => CTypeOK
    BY DEF CInv
  <1> QED BY <1>1, InitCInv, StepCInv, PTL DEF CSpec

(* Neither the ring nor the flush buffer is ever overrun: not when the     *)
(* target of a frame of one block is one byte larger than the block, not   *)
(* when the ring wraps, and not by a block that does not compress.         *)
THEOREM RingSafe == CSpec => []RingInBounds
  <1>1. CInv => RingInBounds
    <2> SUFFICES ASSUME CInv, streamStage # "init" PROVE RingInBounds
      BY DEF RingInBounds
    <2>1. TargetInv /\ FlushInv /\ NumbersTyped
      BY NumberTypes DEF CInv, SessionInv
    <2>2. CASE streamStage = "load"
      <3>1. Len(outBuff) = 0 /\ outFlushed = 0
        BY <2>1, <2>2 DEF FlushInv
      <3> QED BY <2>1, <3>1 DEF RingInBounds, TargetInv, NumbersTyped
    <2>3. CASE streamStage = "flush"
      BY <2>1, <2>3 DEF RingInBounds, TargetInv, FlushInv, NumbersTyped
    <2> QED BY <2>2, <2>3 DEF CInv, CTypeOK
  <1> QED BY <1>1, InitCInv, StepCInv, PTL DEF CSpec

(* An application that pledges no size sees no error of the codec, however *)
(* it cuts its data and whatever block size it asks for: output.dst and    *)
(* outBuff always have room for the block that is sent there.              *)
THEOREM FailuresArePledges == CSpec => []FailsOnlyOnPledge
  <1>1. CInv => FailsOnlyOnPledge
    BY DEF CInv, ControlInv, PledgeInv, FailsOnlyOnPledge
  <1> QED BY <1>1, InitCInv, StepCInv, PTL DEF CSpec

(* The codec reads the application's bytes in order although drain_buffer  *)
(* moves input.pos bytes and not what is left: ZSTD_compressStream2 is     *)
(* thrifty enough.                                                         *)
THEOREM CompressInputOrderSafe == CSpec => []InputInOrder
  <1>1. CInv => InputInOrder
    BY DEF CInv, OrderInv
  <1> QED BY <1>1, InitCInv, StepCInv, PTL DEF CSpec

-----------------------------------------------------------------------------
(* The codec implements the thrifty one of StreamContext; its hint counts  *)
(* only as zero or not.                                                    *)

(* The same helpers.                                                       *)
LEMMA SameOperators ==
    /\ SC!Indices = Indices /\ SC!FillLen = FillLen /\ SC!max_len = max_len
    /\ \A len : SC!Copied(len) = Copied(len)
    /\ SC!Moved = Moved /\ (SC!Compact <=> Compact)
    /\ \A taken : SC!Thrifty(taken) <=> Thrifty(taken)
    /\ \A why : SC!Fail(why) <=> Fail(why)
  BY DEF SC!Indices, Indices, SC!FillLen, FillLen, SC!max_len, max_len, SC!LeastOf, LeastOf,
         SC!Copied, Copied, SC!Moved, Moved, SC!Foreign, Foreign, SC!Compact, Compact,
         SC!Thrifty, Thrifty, SC!Fail, Fail

(* A step of the wrapper is one where the hint counts as zero or not.      *)
LEMMA SameStep ==
    ASSUME res \in Nat, [ThriftyHintNext]_vars
    PROVE  [SC!ThriftyNext]_(SC!vars)
  <1> USE SameOperators
  <1> USE DEF SC!ThriftyNext, SC!Wrapper, SC!bufVars, bufVars, SC!callVars, callVars
  <1>1. CASE Reset
    BY <1>1 DEF Reset, SC!Reset
  <1>2. ASSUME NEW n \in ChunkLens, NEW l \in BOOLEAN, ChunkBegin(n, l)
        PROVE  SC!ThriftyNext
    BY <1>2 DEF ChunkBegin, SC!ChunkBegin
  <1>3. CASE Fill
    BY <1>3 DEF Fill, SC!Fill
  <1>4. ASSUME NEW taken \in in_pos .. in_size, NEW made \in out_pos .. OutLen,
               NEW r \in Nat, Thrifty(taken), CodecReturn(taken, made, r)
        PROVE  SC!ThriftyNext
    <2>1. SC!CodecReturn(taken, made, IF r = 0 THEN 0 ELSE 1)
      BY <1>4 DEF CodecReturn, SC!CodecReturn
    <2>2. (IF r = 0 THEN 0 ELSE 1) \in {0, 1}
      OBVIOUS
    <2> QED BY <1>4, <2>1, <2>2 DEF SC!ThriftyCodec
  <1>5. ASSUME NEW taken \in in_pos .. in_size, NEW made \in out_pos .. OutLen,
               CodecFail(taken, made)
        PROVE  SC!ThriftyNext
    <2>1. SC!CodecFail(taken, made)
      BY <1>5 DEF CodecFail, SC!CodecFail
    <2> QED BY <2>1 DEF SC!CodecError
  <1>6. CASE DrainBuffer
    BY <1>6 DEF DrainBuffer, SC!DrainBuffer
  <1>7. CASE DrainFail
    BY <1>7 DEF DrainFail, SC!DrainFail
  <1>8. CASE ChunkEnd
    BY <1>8 DEF ChunkEnd, SC!ChunkEnd
  <1>9. CASE EndBegin
    BY <1>9 DEF EndBegin, SC!EndBegin
  <1>10. CASE EndDrain
    BY <1>10 DEF EndDrain, SC!EndDrain
  <1>11. CASE UNCHANGED vars
    BY <1>11 DEF vars, SC!vars
  <1> QED
    BY <1>1, <1>2, <1>3, <1>4, <1>5, <1>6, <1>7, <1>8, <1>9, <1>10, <1>11
    DEF ThriftyHintNext, Wrapper, ThriftyHintingCodec, CodecError

(* The wrapper around ZSTD_compressStream2 is the wrapper around a thrifty *)
(* codec, for buffers, blocks, windows and slices of any size: what is     *)
(* proved of StreamContext with a thrifty codec holds for compression.     *)
THEOREM CodecIsThrifty == CSpec => ThriftyWrapper
  <1>1. CInit => SC!Init
    BY DEF CInit, Init, SC!Init, SC!Indices, Indices, SC!Foreign, Foreign
  <1>2. CInv /\ [CNext]_allVars => [SC!ThriftyNext]_(SC!vars)
    <2> SUFFICES ASSUME CInv, [CNext]_allVars PROVE [SC!ThriftyNext]_(SC!vars)
      OBVIOUS
    <2>1. res \in Nat
      BY DEF CInv, CTypeOK, TypeOK
    <2> QED BY <2>1, StepIsHint, SameStep
  <1> QED BY <1>1, <1>2, InitCInv, StepCInv, PTL DEF CSpec, ThriftyWrapper, SC!ThriftySpec

-----------------------------------------------------------------------------
(***************************************************************************)
(* What CompressStream writes: no byte and no unit is lost, repeated or    *)
(* reordered, and the frames tell the truth about themselves.              *)
(***************************************************************************)

(* A frame is begun and not finished.                                      *)
FrameOpen == streamStage # "init" /\ stage = "ongoing"

(* A frame is finished and the call that asked for its end has not come    *)
(* back yet.                                                               *)
FramePending ==
    /\ pc \notin {"idle", "failed"} /\ last /\ rest_len = 0 /\ cstep # "enter"
    /\ streamStage = "init" \/ (streamStage = "flush" /\ frameEnded)

Buffered == IF streamStage = "init" THEN <<>> ELSE loaded

(* Everything the codec has taken.                                         *)
Taken == encoded \o Buffered

(* The number of the last byte before the first one in `encoded`.          *)
Start == EatenNow - Len(Taken)

(* The items of the last frame, whatever happened to the session.          *)
ItemsInv ==
    /\ coded = <<>> => encoded = <<>>
    /\ coded # <<>> => /\ coded[Len(coded)].upto = Len(encoded)
                       /\ FrameStart \in 1 .. Len(coded) /\ FrameFrom \in 0 .. Len(encoded)
                       /\ coded[FrameStart].begins
    /\ HeaderIsTrue

(* The last frame is the one the session writes, or is finished; and it    *)
(* holds what was taken since the application closed a frame.              *)
FrameTrue ==
    /\ FrameOpen => /\ coded # <<>> /\ ~ coded[Len(coded)].fin
                    /\ coded[FrameStart].size = DeclaredSize
                    /\ consumed = Len(encoded) - FrameFrom
    /\ ~ FrameOpen => coded = <<>> \/ coded[Len(coded)].fin
    /\ FramePending => coded # <<>>
    /\ opened = Start + IF FrameOpen \/ FramePending THEN FrameFrom ELSE Len(encoded)
    /\ streamStage # "init" /\ stage = "init" => consumed = 0

FrameInv ==
    /\ pc # "failed" => FrameTrue
    /\ pc \in {"endcodec", "enddrain"} => last
    /\ cstep = "enter" => ~ (streamStage = "flush" /\ frameEnded)

-----------------------------------------------------------------------------
(* Sequences of consecutive numbers.                                       *)

Ascending(s, e) == \A i \in 1 .. Len(s) : s[i] = e - Len(s) + i

(* Numbers, item by item.                                                  *)
LEMMA AscendingNumbers ==
    ASSUME NEW s \in Seq(Nat), NEW e \in Nat
    PROVE  s = Numbers(e - Len(s) + 1, e) <=> Ascending(s, e)
  <1> DEFINE n == Len(s)
             t == Numbers(e - n + 1, e)
  <1>1. n \in Nat /\ s = [i \in 1 .. n |-> s[i]]
    OBVIOUS
  <1> HIDE DEF n
  <1>2. e - (e - n + 1) + 1 = n
    BY <1>1
  <1>3. t = [i \in 1 .. n |-> e - n + 1 + i - 1]
    BY <1>2 DEF Numbers
  <1>4. \A i \in 1 .. n : e - n + 1 + i - 1 = e - n + i
    BY <1>1
  <1>5. t = [i \in 1 .. n |-> e - n + i]
    BY <1>3, <1>4
  <1> HIDE DEF t
  <1>6. s = t <=> \A i \in 1 .. n : s[i] = e - n + i
    BY <1>1, <1>5
  <1> QED BY <1>6 DEF t, n, Ascending

(* The numbers that follow are put behind.                                 *)
LEMMA AscendingGrows ==
    ASSUME NEW s \in Seq(Nat), NEW t \in Seq(Nat), NEW e \in Nat, Ascending(s, e),
           \A i \in 1 .. Len(t) : t[i] = e + i
    PROVE  /\ s \o t \in Seq(Nat) /\ Len(s \o t) = Len(s) + Len(t)
           /\ Ascending(s \o t, e + Len(t))
  <1>1. /\ s \o t \in Seq(Nat) /\ Len(s \o t) = Len(s) + Len(t)
        /\ \A i \in 1 .. Len(s) + Len(t) :
              (s \o t)[i] = IF i <= Len(s) THEN s[i] ELSE t[i - Len(s)]
    BY ConcatProperties
  <1>2. Len(s) \in Nat /\ Len(t) \in Nat
    OBVIOUS
  <1>3. ASSUME NEW i \in 1 .. Len(s) + Len(t)
        PROVE  (s \o t)[i] = (e + Len(t)) - (Len(s) + Len(t)) + i
    <2>1. CASE i <= Len(s)
      <3>1. s[i] = e - Len(s) + i
        BY <1>2, <2>1 DEF Ascending
      <3> QED BY <1>1, <1>2, <2>1, <3>1
    <2>2. CASE ~ (i <= Len(s))
      <3>1. i - Len(s) \in 1 .. Len(t)
        BY <1>2, <2>2
      <3>2. t[i - Len(s)] = e + (i - Len(s))
        BY <3>1
      <3> QED BY <1>1, <1>2, <2>2, <3>2
    <2> QED BY <2>1, <2>2
  <1> QED BY <1>1, <1>3 DEF Ascending

-----------------------------------------------------------------------------
(* Units.                                                                  *)

Output == drained \o dst \o Unflushed

(* The types of the sequences.                                             *)
LEMMA SequenceTypes ==
    ASSUME CInv
    PROVE  /\ drained \in Seq(Nat) /\ dst \in Seq(Nat) /\ Unflushed \in Seq(Nat)
           /\ outBuff \in Seq(Nat) /\ Output \in Seq(Nat)
           /\ loaded \in Seq(Nat) /\ encoded \in Seq(Nat) /\ coded \in Seq(CodedItem)
  <1>1. /\ drained \in Seq(Nat) /\ dst \in Seq(Nat) /\ outBuff \in Seq(Nat)
        /\ loaded \in Seq(Nat) /\ encoded \in Seq(Nat) /\ coded \in Seq(CodedItem)
    BY DEF CInv, CTypeOK, CodedItem
  <1>2. Unflushed \in Seq(Nat)
    <2>1. outFlushed \in Nat
      BY NumberTypes DEF NumbersTyped
    <2>2. \A i \in outFlushed + 1 .. Len(outBuff) : outBuff[i] \in Nat
      BY <1>1, <2>1
    <2>3. SubSeq(outBuff, outFlushed + 1, Len(outBuff)) \in Seq(Nat)
      BY <1>1, <2>1, <2>2, SubSeqProperties
    <2> QED BY <2>3 DEF Unflushed
  <1> QED BY <1>1, <1>2 DEF Output

(* In order means: as many as were numbered, and ascending.                *)
LEMMA OutputMeans ==
    ASSUME NEW s \in Seq(Nat), NEW e \in Nat
    PROVE  s = Numbers(1, e) <=> Len(s) = e /\ Ascending(s, e)
  <1>1. CASE s = Numbers(1, e)
    <2>1. Len(s) = e
      <3>1. e - 1 + 1 = e
        OBVIOUS
      <3>2. s = [i \in 1 .. e |-> 1 + i - 1]
        BY <1>1, <3>1 DEF Numbers
      <3> QED BY <3>2
    <2>2. e - Len(s) + 1 = 1
      BY <2>1
    <2>3. s = Numbers(e - Len(s) + 1, e)
      BY <1>1, <2>2
    <2> QED BY <2>1, <2>3, AscendingNumbers
  <1>2. CASE Len(s) = e /\ Ascending(s, e)
    <2>1. e - Len(s) + 1 = 1
      BY <1>2
    <2>2. s = Numbers(e - Len(s) + 1, e)
      BY <1>2, AscendingNumbers
    <2> QED BY <1>2, <2>1, <2>2
  <1> QED BY <1>1, <1>2

(* The encoder writes its next units.                                      *)
LEMMA OutputGrows ==
    ASSUME CInv, OutputInOrder, pc # "failed", NEW k \in Nat,
           Output' = Output \o Units(k), emitted + k = emitted'
    PROVE  OutputInOrder'
  <1>1. Output \in Seq(Nat) /\ emitted \in Nat
    BY SequenceTypes, NumberTypes DEF NumbersTyped
  <1>2. Output = Numbers(1, emitted)
    BY DEF OutputInOrder, Output
  <1>3. Len(Output) = emitted /\ Ascending(Output, emitted)
    BY <1>1, <1>2, OutputMeans
  <1>4. /\ Units(k) \in Seq(Nat) /\ Len(Units(k)) = k
        /\ \A i \in 1 .. k : Units(k)[i] = emitted + i
    BY UnitsFacts DEF Units
  <1>5. /\ Output' \in Seq(Nat) /\ Len(Output') = emitted + k
        /\ Ascending(Output', emitted + k)
    BY <1>1, <1>3, <1>4, AscendingGrows
  <1>6. Output' = Numbers(1, emitted + k)
    <2>1. emitted + k \in Nat
      BY <1>1
    <2>2. \A s \in Seq(Nat), e \in Nat :
             Len(s) = e /\ Ascending(s, e) => s = Numbers(1, e)
      BY OutputMeans
    <2> QED BY <1>5, <2>1, <2>2
  <1>7. Output' = Numbers(1, emitted')
    BY <1>6
  <1> QED BY <1>7 DEF OutputInOrder, Output

(* Units that only move stay in order.                                     *)
LEMMA OutputMoves ==
    ASSUME OutputInOrder, pc' # "failed" => pc # "failed",
           pc # "failed" /\ pc' # "failed" => Output' = Output /\ emitted' = emitted
    PROVE  OutputInOrder'
  BY DEF OutputInOrder, Output

-----------------------------------------------------------------------------
(* The three steps that encode have the same effect: n bytes of input.src  *)
(* follow the loaded ones into a chunk, and its units go out.              *)
Writes(n, c, fin, capacity) ==
    LET bytes == loaded \o Offered(n)
        u == ChunkUnits(Len(bytes), c, fin)
    IN  /\ Working("load") /\ n <= Available /\ ip' = ip + n
        /\ bytes \in Seq(Nat) /\ u \in Nat
        /\ Encodes(Len(bytes), c, fin, capacity) /\ Encoded(bytes, c, fin)
        /\ Output' = Output \o Units(u)
        /\ UNCHANGED <<vars, opened>>
        /\ streamStage' # "init" => loaded' = <<>>
        /\ fin => /\ endOp = "end"
                  /\ \/ streamStage' = "init" /\ cstep' = "return"
                     \/ streamStage' = "flush" /\ frameEnded' /\ cstep' = "work"
        /\ ~ fin => /\ streamStage' \in {"load", "flush"} /\ ~ frameEnded' /\ cstep' = "work"
                    /\ pledgedPlusOne' = pledgedPlusOne

(* While nothing waits in outBuff, what is put behind output.dst is put    *)
(* behind everything.                                                      *)
LEMMA DirectOutput ==
    ASSUME CInv, NEW t \in Seq(Nat), streamStage # "flush", streamStage' # "flush",
           drained' = drained, dst' = dst \o t
    PROVE  Output' = Output \o t
  <1>1. drained \in Seq(Nat) /\ dst \in Seq(Nat)
    BY SequenceTypes
  <1>2. Unflushed = <<>> /\ Unflushed' = <<>>
    BY DEF Unflushed
  <1>3. Output = drained \o dst
    <2>1. drained \o dst \in Seq(Nat)
      BY <1>1
    <2>2. Output = (drained \o dst) \o <<>>
      BY <1>2 DEF Output
    <2> QED BY <2>1, <2>2, ConcatEmptySeq
  <1>4. Output' = drained \o (dst \o t)
    <2>1. drained \o (dst \o t) \in Seq(Nat)
      BY <1>1
    <2>2. Output' = (drained \o (dst \o t)) \o <<>>
      BY <1>2 DEF Output
    <2> QED BY <2>1, <2>2, ConcatEmptySeq
  <1>5. (drained \o dst) \o t = drained \o (dst \o t)
    BY SMTT(30), <1>1, ConcatAssociative
  <1> QED BY <1>3, <1>4, <1>5

(* A chunk that goes to outBuff comes next, too.                           *)
LEMMA BufferedOutput ==
    ASSUME CInv, NEW t \in Seq(Nat), streamStage # "flush", streamStage' = "flush",
           drained' = drained, dst' = dst, outBuff' = t, outFlushed' = 0
    PROVE  Output' = Output \o t
  <1>1. drained \in Seq(Nat) /\ dst \in Seq(Nat)
    BY SequenceTypes
  <1>2. Unflushed = <<>>
    BY DEF Unflushed
  <1>3. Unflushed' = t
    <2>1. SubSeq(t, 1, Len(t)) = t
      BY SubSeqFull
    <2>2. Unflushed' = SubSeq(t, 0 + 1, Len(t))
      BY DEF Unflushed
    <2> QED BY <2>1, <2>2
  <1>4. Output = drained \o dst
    <2>1. drained \o dst \in Seq(Nat)
      BY <1>1
    <2>2. Output = (drained \o dst) \o <<>>
      BY <1>2 DEF Output
    <2> QED BY <2>1, <2>2, ConcatEmptySeq
  <1> QED BY <1>3, <1>4 DEF Output

(* The short cut is such a step: nothing is loaded.                        *)
LEMMA ShortcutWrites ==
    ASSUME CInv, Shortcut
    PROVE  \E n \in Nat, fin \in BOOLEAN : \E c, capacity : Writes(n, c, fin, capacity)
  <1>1. /\ Working("load") /\ endOp = "end" /\ inBuffPos = 0 /\ streamStage = "load"
    BY DEF Shortcut, MayShortcut, Working
  <1> DEFINE n == Available
             bytes == loaded \o Offered(n)
  <1>2. n \in Nat /\ n = in_size - ip /\ Offered(n) \in Seq(Nat) /\ Len(Offered(n)) = n
    BY <1>1, LoadFacts, OfferedFacts
  <1>3. bytes = Offered(n)
    <2>1. Len(loaded) = 0
      <3>1. TargetInv /\ NumbersTyped
        BY <1>1, NumberTypes DEF CInv, SessionInv
      <3> QED BY <1>1, <3>1 DEF TargetInv, NumbersTyped
    <2>2. loaded \in Seq(Nat)
      BY SequenceTypes
    <2>3. loaded = <<>>
      BY <2>1, <2>2, EmptySeq
    <2> QED BY <1>2, <2>3, ConcatEmptySeq
  <1>4. PICK c \in BlockUnits(n) :
          /\ Encodes(n, c, TRUE, oSize)
          /\ Encoded(Offered(n), c, TRUE)
          /\ dst' = dst \o Units(ChunkUnits(n, c, TRUE))
          /\ ip' = in_size
          /\ streamStage' = "init" /\ cstep' = "return"
          /\ UNCHANGED <<vars, drained, opened>>
    BY DEF Shortcut, SessionReset, appVars
  <1> DEFINE u == ChunkUnits(n, c, TRUE)
  <1>5. u \in Nat
    <2>1. NumbersTyped /\ SizesInNat
      BY NumberTypes DEF NumbersTyped
    <2>2. c \in Nat
      <3>1. blockSizeMax \in Nat \ {0}
        BY <1>1, <2>1 DEF CInv, SessionInv, BlockSizeInv, NumbersTyped
      <3> QED BY <1>2, <3>1, BlockUnitsBounds
    <2>3. HeaderUnits \in Nat /\ EpilogueUnits(n) \in Nat
      BY <2>1 DEF HeaderUnits, EpilogueUnits, SizesInNat
    <2>4. u = HeaderUnits + c + EpilogueUnits(n)
      BY DEF ChunkUnits
    <2> HIDE DEF u
    <2> QED BY <2>2, <2>3, <2>4
  <1>6. Output' = Output \o Units(u)
    <2>1. Units(u) \in Seq(Nat) /\ dst' = dst \o Units(u)
      BY <1>4, <1>5, UnitsFacts
    <2> QED BY <1>1, <1>4, <2>1, DirectOutput
  <1>7. ip' = ip + n
    <2>1. NumbersTyped
      BY NumberTypes
    <2>2. ip \in Nat /\ in_size \in Nat /\ ip' = in_size
      BY <1>4, <2>1 DEF NumbersTyped
    <2> HIDE DEF n
    <2> QED BY <1>2, <2>2
  <1>8. Writes(n, c, TRUE, oSize)
    <2>1. /\ Encodes(Len(bytes), c, TRUE, oSize) /\ Encoded(bytes, c, TRUE)
          /\ Len(bytes) = n /\ bytes \in Seq(Nat)
      BY <1>2, <1>3, <1>4
    <2> HIDE DEF bytes, u
    <2>2. ChunkUnits(Len(bytes), c, TRUE) = u
      BY <2>1 DEF u
    <2>3. n <= Available
      BY <1>2
    <2> QED BY <1>1, <1>4, <1>5, <1>6, <1>7, <2>1, <2>2, <2>3 DEF Writes, bytes
  <1> QED BY <1>2, <1>8

(* So is a block of the ring, wherever it goes.                            *)
LEMMA BlockWrites ==
    ASSUME CInv, CompressDirect \/ CompressToOutBuff
    PROVE  \E n \in Nat, fin \in BOOLEAN : \E c, capacity : Writes(n, c, fin, capacity)
  <1> DEFINE n == Len(AllLoaded)
             capacity == IF oSize >= CompressBound(n) THEN oSize ELSE outBuffSize
  <1>1. /\ BlockReady /\ Working("load") /\ streamStage = "load" /\ cstep = "work"
    BY DEF CompressDirect, CompressToOutBuff, BlockReady, Working
  <1>2. PICK c \in BlockUnits(n) :
          /\ Encodes(n, c, LastBlock, capacity)
          /\ Encoded(AllLoaded, c, LastBlock)
          /\ ip' = ip + ToLoad /\ loaded' = <<>>
          /\ frameEnded' = LastBlock
          /\ UNCHANGED <<vars, drained, opened>>
          /\ LastBlock => \/ streamStage' = "init" /\ cstep' = "return"
                          \/ streamStage' = "flush" /\ cstep' = "work"
          /\ ~ LastBlock => /\ streamStage' \in {"load", "flush"} /\ cstep' = "work"
                            /\ pledgedPlusOne' = pledgedPlusOne
          /\ \/ /\ streamStage' # "flush" /\ dst' = dst \o Units(ChunkUnits(n, c, LastBlock))
             \/ /\ streamStage' = "flush" /\ dst' = dst /\ outFlushed' = 0
                /\ outBuff' = Units(ChunkUnits(n, c, LastBlock))
    <2>1. CASE CompressDirect
      BY <1>1, <2>1 DEF CompressDirect, NextBlock, SessionReset, appVars
    <2>2. CASE CompressToOutBuff
      <3>1. ~ (oSize >= CompressBound(n))
        <4>1. oSize < CompressBound(n) /\ n \in Nat
          BY <1>1, <2>2, AllLoadedFacts DEF CompressToOutBuff
        <4>2. NumbersTyped
          BY NumberTypes
        <4> HIDE DEF n
        <4>3. oSize \in Int /\ CompressBound(n) \in Int
          BY <4>1, <4>2 DEF NumbersTyped, SizesInNat, oSize, op, CompressBound
        <4> QED BY <4>1, <4>3
      <3> QED BY <1>1, <2>2, <3>1 DEF CompressToOutBuff, NextBlock, appVars
    <2> QED BY <2>1, <2>2
  <1> DEFINE u == ChunkUnits(n, c, LastBlock)
  <1>3. u \in Nat /\ (LastBlock => endOp = "end")
    BY <1>1, <1>2, BlockFacts
  <1>4. Output' = Output \o Units(u)
    <2>1. Units(u) \in Seq(Nat)
      BY <1>3, UnitsFacts
    <2> QED BY <1>1, <1>2, <2>1, DirectOutput, BufferedOutput
  <1>5. /\ AllLoaded \in Seq(Nat) /\ AllLoaded = loaded \o Offered(ToLoad)
        /\ ToLoad \in Nat /\ ToLoad <= Available /\ LastBlock \in BOOLEAN
    BY <1>1, AllLoadedFacts, LoadFacts DEF AllLoaded, LastBlock
  <1> HIDE DEF capacity
  <1>6. Writes(ToLoad, c, LastBlock, capacity)
    BY <1>1, <1>2, <1>3, <1>4, <1>5 DEF Writes
  <1> QED BY <1>5, <1>6

(* The encoding steps of CompressStream2 are writes.                       *)
LEMMA EncodingWrites ==
    ASSUME CInv, Shortcut \/ CompressDirect \/ CompressToOutBuff
    PROVE  \E n \in Nat, fin \in BOOLEAN : \E c, capacity : Writes(n, c, fin, capacity)
  BY ShortcutWrites, BlockWrites

-----------------------------------------------------------------------------
(* The order of the units.                                                 *)

(* Where the borders are does not matter.                                  *)
LEMMA Associative ==
    ASSUME NEW s \in Seq(Nat), NEW t \in Seq(Nat), NEW u \in Seq(Nat)
    PROVE  (s \o t) \o u = s \o (t \o u)
  BY SMTT(30), ConcatAssociative

(* The same with four pieces.                                              *)
LEMMA Regrouped ==
    ASSUME NEW s \in Seq(Nat), NEW t \in Seq(Nat), NEW u \in Seq(Nat), NEW v \in Seq(Nat)
    PROVE  (s \o (t \o u)) \o v = (s \o t) \o (u \o v)
  <1>1. s \o t \in Seq(Nat)
    OBVIOUS
  <1>2. (s \o t) \o u = s \o (t \o u)
    BY Associative, Zenon
  <1>3. ((s \o t) \o u) \o v = (s \o t) \o (u \o v)
    BY <1>1, Associative, Zenon
  <1> QED BY <1>2, <1>3, Zenon

(* A flush, partial or not, only moves units.                              *)
LEMMA FlushMoves ==
    ASSUME CInv, Flush
    PROVE  Output' = Output
  <1> DEFINE flushed == LeastOf(oSize, ToFlush)
             moved == SubSeq(outBuff, outFlushed + 1, outFlushed + flushed)
             kept == SubSeq(outBuff, outFlushed + flushed + 1, Len(outBuff))
  <1>1. /\ dst' = dst \o moved /\ drained' = drained /\ streamStage = "flush"
        /\ flushed # ToFlush =>
              /\ outFlushed' = outFlushed + flushed
              /\ UNCHANGED <<streamStage, outBuff>>
        /\ flushed = ToFlush => streamStage' # "flush"
    BY DEF Flush, Working, SessionReset, appVars
  <1>2. /\ outFlushed \in Nat /\ Len(outBuff) \in Nat /\ outFlushed <= Len(outBuff)
        /\ ToFlush = Len(outBuff) - outFlushed /\ oSize \in Nat
    <2>1. FlushInv /\ NumbersTyped
      BY <1>1, NumberTypes DEF CInv, SessionInv
    <2>2. Len(dst) <= OutLen
      BY DEF CInv, ControlInv
    <2> QED BY <1>1, <2>1, <2>2 DEF FlushInv, ToFlush, oSize, op, NumbersTyped, SizesInNat
  <1>3. flushed \in Nat /\ flushed <= ToFlush
    BY <1>2 DEF LeastOf
  <1>4. /\ drained \in Seq(Nat) /\ dst \in Seq(Nat) /\ outBuff \in Seq(Nat)
        /\ Unflushed \in Seq(Nat)
    BY SequenceTypes
  <1> HIDE DEF flushed
  <1>5. Unflushed = moved \o kept /\ moved \in Seq(Nat) /\ kept \in Seq(Nat)
    <2>1. /\ outFlushed + 1 \in 1 .. Len(outBuff) + 1
          /\ outFlushed + flushed \in (outFlushed + 1) - 1 .. Len(outBuff)
          /\ Len(outBuff) \in outFlushed + flushed .. Len(outBuff)
      BY <1>2, <1>3
    <2>2. moved \o kept = SubSeq(outBuff, outFlushed + 1, Len(outBuff))
      BY <1>4, <2>1, ConcatAdjacentSubSeq
    <2>3. /\ \A i \in outFlushed + 1 .. outFlushed + flushed : outBuff[i] \in Nat
          /\ \A i \in outFlushed + flushed + 1 .. Len(outBuff) : outBuff[i] \in Nat
      BY <1>2, <1>3, <1>4
    <2>4. moved \in Seq(Nat) /\ kept \in Seq(Nat)
      BY <1>2, <1>3, <2>3, SubSeqProperties
    <2> QED BY <1>1, <2>2, <2>4 DEF Unflushed
  <1>6. Unflushed' = kept
    <2>1. CASE flushed = ToFlush
      <3>1. outFlushed + flushed + 1 > Len(outBuff)
        BY <1>2, <1>3, <2>1
      <3>2. kept = <<>>
        BY <1>2, <1>3, <3>1, SubSeqEmpty
      <3> QED BY <1>1, <2>1, <3>2 DEF Unflushed
    <2>2. CASE flushed # ToFlush
      <3>1. /\ streamStage' = "flush" /\ outBuff' = outBuff
            /\ outFlushed' = outFlushed + flushed
        BY <1>1, <2>2
      <3> QED BY <3>1 DEF Unflushed
    <2> QED BY <2>1, <2>2
  <1> HIDE DEF moved, kept
  <1>7. (drained \o (dst \o moved)) \o kept = (drained \o dst) \o (moved \o kept)
    <2>1. /\ drained \in Seq(Nat) /\ dst \in Seq(Nat)
          /\ moved \in Seq(Nat) /\ kept \in Seq(Nat)
      BY <1>4, <1>5
    <2>2. \A u, v \in Seq(Nat) :
             (drained \o (dst \o u)) \o v = (drained \o dst) \o (u \o v)
      BY <2>1, Regrouped, Zenon
    <2> QED BY <2>1, <2>2, Zenon
  <1>8. Output' = (drained \o (dst \o moved)) \o kept
    BY <1>1, <1>6 DEF Output
  <1>9. Output = (drained \o dst) \o (moved \o kept)
    <2>1. Unflushed = moved \o kept
      BY <1>5
    <2> QED BY <2>1, Zenon DEF Output
  <1> QED BY <1>7, <1>8, <1>9, Zenon

(* The callback takes output.dst.                                          *)
LEMMA AcceptMoves ==
    ASSUME CInv, Accept, UNCHANGED <<streamStage, outBuff, outFlushed>>
    PROVE  Output' = Output
  <1>1. drained \in Seq(Nat) /\ dst \in Seq(Nat)
    BY SequenceTypes
  <1>2. Unflushed' = Unflushed
    BY DEF Unflushed
  <1>3. drained' \o dst' = drained \o dst
    <2>1. drained \o dst \in Seq(Nat)
      BY <1>1
    <2>2. drained' \o dst' = (drained \o dst) \o <<>>
      BY DEF Accept
    <2> QED BY <2>1, <2>2, ConcatEmptySeq
  <1> QED BY <1>2, <1>3 DEF Output

(* A new start.                                                            *)
LEMMA RestartOutput ==
    ASSUME Restart
    PROVE  OutputInOrder'
  <1>1. Unflushed' = <<>>
    BY DEF Restart, SessionReset, Unflushed
  <1>2. Output' = <<>>
    BY <1>1 DEF Restart, Output
  <1>3. emitted' = 0
    BY DEF Restart
  <1>4. Numbers(1, 0) = <<>>
    <2>1. Numbers(1, 0) = [i \in 1 .. 0 |-> 1 + i - 1]
      BY DEF Numbers
    <2> QED BY <2>1
  <1> QED BY <1>2, <1>3, <1>4 DEF OutputInOrder, Output

(* Every step keeps the order of the units.                                *)
LEMMA StepOutput == CInv /\ OutputInOrder /\ [CNext]_allVars => OutputInOrder'
  <1> SUFFICES ASSUME CInv, OutputInOrder, [CNext]_allVars
               PROVE  OutputInOrder'
    OBVIOUS
  <1>1. CASE Shortcut \/ CompressDirect \/ CompressToOutBuff
    <2>1. PICK n \in Nat, fin \in BOOLEAN : \E c, capacity : Writes(n, c, fin, capacity)
      BY <1>1, EncodingWrites
    <2>2. \E k \in Nat : Output' = Output \o Units(k) /\ emitted + k = emitted'
      BY <2>1 DEF Writes, Encoded
    <2>3. pc # "failed"
      BY <2>1 DEF Writes, Working, InCodec
    <2> QED BY <2>2, <2>3, OutputGrows
  <1>2. CASE Flush
    <2>1. pc' = pc /\ emitted' = emitted
      BY <1>2 DEF Flush, vars, historyVars
    <2> QED BY <1>2, <2>1, FlushMoves, OutputMoves
  <1>3. CASE CompressDrain \/ CompressEndDrain
    <2>1. /\ Accept /\ UNCHANGED <<streamStage, outBuff, outFlushed>>
          /\ emitted' = emitted /\ pc # "failed"
      BY <1>3 DEF CompressDrain, DrainBuffer, CompressEndDrain, EndDrain, cctxVars,
                  sessionVars, flushVars, historyVars
    <2> QED BY <2>1, AcceptMoves, OutputMoves
  <1>4. CASE CompressDrainFail \/ EncodeError
    <2>1. pc' = "failed"
      BY <1>4 DEF CompressDrainFail, DrainFail, EncodeError, CodecFail, Fail
    <2> QED BY <2>1 DEF OutputInOrder
  <1>5. CASE Restart
    BY <1>5, RestartOutput
  <1>6. CASE InitStream
    <2>1. /\ streamStage = "init" /\ streamStage' = "load" /\ dst' = dst
          /\ UNCHANGED <<vars, historyVars, appVars>>
      BY <1>6 DEF InitStream
    <2>2. Unflushed' = Unflushed
      BY <2>1 DEF Unflushed
    <2> QED BY <2>1, <2>2 DEF OutputInOrder, vars, historyVars, appVars
  <1>7. CASE \/ ResumeStream \/ LoadAndStop \/ StreamReturn
             \/ CompressFill \/ CompressChunkEnd \/ CompressEnd
             \/ \E call \in AnyChunk : CompressChunk(call[1], call[2])
             \/ \E n \in Pledges : SetPledgedSrcSize(n)
             \/ \E b \in MaxBlocks : SetMaxBlockSize(b)
             \/ UNCHANGED allVars
    <2>1. UNCHANGED <<drained, dst, emitted, streamStage, outBuff, outFlushed>>
      BY <1>7 DEF ResumeStream, LoadAndStop, StreamReturn, CompressFill, CompressChunkEnd,
         CompressEnd, CompressChunk, SetPledgedSrcSize, SetMaxBlockSize, allVars, codecVars,
         cctxVars, sessionVars, flushVars, historyVars, appVars
    <2>2. pc' # "failed" => pc # "failed"
      BY <1>7 DEF ResumeStream, LoadAndStop, StreamReturn, CodecReturn, CompressFill, Fill,
         CompressChunkEnd, ChunkEnd, CompressEnd, EndBegin, CompressChunk, ChunkBegin,
         SetPledgedSrcSize, SetMaxBlockSize, allVars, vars
    <2>3. Output' = Output
      BY <2>1 DEF Output, Unflushed
    <2> QED BY <2>1, <2>2, <2>3, OutputMoves
  <1>8. Application(AnyChunk \ {<<0, TRUE>>}) =>
           \/ \E call \in AnyChunk : CompressChunk(call[1], call[2])
           \/ CompressEnd
           \/ \E n \in Pledges : SetPledgedSrcSize(n)
           \/ \E b \in MaxBlocks : SetMaxBlockSize(b)
           \/ Restart
    BY DEF Application
  <1> QED
    BY <1>1, <1>2, <1>3, <1>4, <1>5, <1>6, <1>7, <1>8
    DEF CNext, WrapperSteps, CompressStream2

-----------------------------------------------------------------------------
(* The order of the bytes.                                                 *)

(* The types.                                                              *)
LEMMA TakenTypes ==
    ASSUME CInv
    PROVE  Taken \in Seq(Nat) /\ Buffered \in Seq(Nat) /\ EatenNow \in Nat
  <1>1. encoded \in Seq(Nat) /\ loaded \in Seq(Nat)
    BY SequenceTypes
  <1>2. Buffered \in Seq(Nat)
    BY <1>1 DEF Buffered
  <1>3. EatenNow \in Nat
    <2>1. NumbersTyped
      BY NumberTypes
    <2>2. cstep # "out" => in_pos <= ip
      BY DEF CInv, ControlInv
    <2> QED BY <2>1, <2>2 DEF NumbersTyped, EatenNow
  <1> QED BY <1>1, <1>2, <1>3 DEF Taken

(* What is offered are the next bytes of the application.                  *)
LEMMA OfferedOrder ==
    ASSUME CInv, Working("load"), NEW n \in Nat, n <= Available
    PROVE  /\ Offered(n) \in Seq(Nat) /\ Len(Offered(n)) = n
           /\ \A i \in 1 .. n : Offered(n)[i] = EatenNow + i
           /\ EatenNow = eaten + (ip - in_pos)
  <1>1. /\ Offered(n) \in Seq(Nat) /\ Len(Offered(n)) = n
        /\ \A i \in 1 .. n : Offered(n)[i] = in_src[ip + i - 1]
    BY OfferedFacts
  <1>2. /\ pc # "failed" /\ cstep # "out"
        /\ in_pos \in Nat /\ ip \in Nat /\ in_size \in Nat /\ eaten \in Nat
        /\ in_pos <= ip /\ n <= in_size - ip /\ in_size <= InLen
    <2>1. NumbersTyped
      BY NumberTypes
    <2> QED BY <2>1, LoadFacts DEF CInv, ControlInv, Working, InCodec, NumbersTyped
  <1>3. ASSUME NEW i \in 1 .. n
        PROVE  in_src[ip + i - 1] = eaten + (ip - in_pos) + i
    <2> DEFINE j == ip + i - 1
    <2>1. j \in Indices /\ in_pos <= j /\ j < in_size
      BY <1>2, InLenAssumption DEF Indices
    <2>2. in_src[j] = eaten + 1 + (j - in_pos)
      <3>1. InputInOrder
        BY DEF CInv, OrderInv
      <3> HIDE DEF j
      <3> QED BY <1>2, <2>1, <3>1 DEF InputInOrder
    <2> QED BY <1>2, <2>2
  <1> QED BY <1>1, <1>2, <1>3 DEF EatenNow

(* The codec takes the next bytes of the application, or none.             *)
Takes ==
    /\ pc # "failed"
    /\ \E t \in Seq(Nat) : /\ \A i \in 1 .. Len(t) : t[i] = EatenNow + i
                           /\ Taken' = Taken \o t /\ EatenNow + Len(t) = EatenNow'
TakesNothing ==
    /\ pc' # "failed" => pc # "failed"
    /\ Taken' = Taken /\ EatenNow' = EatenNow

(* Taking them keeps the order.                                            *)
LEMMA TakenGrows ==
    ASSUME CInv, EncodedInOrder, Takes
    PROVE  EncodedInOrder'
  <1>1. PICK t \in Seq(Nat) : /\ \A i \in 1 .. Len(t) : t[i] = EatenNow + i
                              /\ Taken' = Taken \o t /\ EatenNow + Len(t) = EatenNow'
    BY DEF Takes
  <1>2. Taken \in Seq(Nat) /\ EatenNow \in Nat
    BY TakenTypes
  <1>3. Ascending(Taken, EatenNow)
    <2>1. pc # "failed"
      BY DEF Takes
    <2> QED BY <1>2, <2>1, AscendingNumbers DEF EncodedInOrder, Taken, Buffered
  <1>4. /\ Taken' \in Seq(Nat) /\ Ascending(Taken', EatenNow + Len(t))
    BY <1>1, <1>2, <1>3, AscendingGrows
  <1>5. \A s \in Seq(Nat), e \in Nat : Ascending(s, e) => s = Numbers(e - Len(s) + 1, e)
    BY AscendingNumbers
  <1>6. EatenNow + Len(t) \in Nat
    BY <1>2
  <1>7. Taken' = Numbers((EatenNow + Len(t)) - Len(Taken') + 1, EatenNow + Len(t))
    BY <1>4, <1>5, <1>6
  <1>8. Taken' = Numbers(EatenNow' - Len(Taken') + 1, EatenNow')
    BY <1>1, <1>7
  <1> QED BY <1>8 DEF EncodedInOrder, Taken, Buffered

(* So does taking nothing.                                                 *)
LEMMA TakenKept ==
    ASSUME EncodedInOrder, TakesNothing
    PROVE  EncodedInOrder'
  BY DEF EncodedInOrder, TakesNothing, Taken, Buffered

(* A write takes what was loaded and n bytes more.                         *)
LEMMA WritesTake ==
    ASSUME CInv, NEW n \in Nat, NEW c, NEW fin \in BOOLEAN, NEW capacity,
           Writes(n, c, fin, capacity)
    PROVE  /\ Taken' = Taken \o Offered(n)
           /\ encoded' = Taken' /\ Buffered' = <<>>
           /\ EatenNow + n = EatenNow'
  <1>1. /\ Working("load") /\ n <= Available /\ streamStage = "load"
        /\ ip' = ip + n /\ UNCHANGED vars /\ cstep' # "out"
        /\ encoded' = encoded \o (loaded \o Offered(n))
        /\ streamStage' # "init" => loaded' = <<>>
    BY DEF Writes, Encoded, Working
  <1>2. /\ Offered(n) \in Seq(Nat) /\ EatenNow = eaten + (ip - in_pos)
    BY <1>1, OfferedOrder
  <1>3. encoded \in Seq(Nat) /\ loaded \in Seq(Nat)
    BY SequenceTypes
  <1>4. encoded' = (encoded \o loaded) \o Offered(n)
    BY <1>1, <1>2, <1>3, Associative
  <1>5. Buffered' = <<>>
    BY <1>1 DEF Buffered
  <1>6. Taken' = encoded'
    <2>1. (encoded \o loaded) \o Offered(n) \in Seq(Nat)
      BY <1>2, <1>3
    <2>2. Taken' = ((encoded \o loaded) \o Offered(n)) \o <<>>
      BY <1>4, <1>5 DEF Taken
    <2> QED BY <1>4, <2>1, <2>2, ConcatEmptySeq
  <1>7. Taken = encoded \o loaded
    BY <1>1 DEF Taken, Buffered
  <1>8. EatenNow + n = EatenNow'
    <2>1. EatenNow' = eaten + ((ip + n) - in_pos)
      BY <1>1 DEF EatenNow, vars
    <2>2. NumbersTyped
      BY NumberTypes
    <2> QED BY <1>2, <2>1, <2>2 DEF NumbersTyped
  <1> QED BY <1>4, <1>5, <1>6, <1>7, <1>8

(* Every step but an error and a restart takes what comes next.            *)
LEMMA StepTakes ==
    CInv /\ [CNext]_allVars => Takes \/ TakesNothing \/ pc' = "failed" \/ Restart
  <1> SUFFICES ASSUME CInv, [CNext]_allVars
               PROVE  Takes \/ TakesNothing \/ pc' = "failed" \/ Restart
    OBVIOUS
  <1>1. CASE Shortcut \/ CompressDirect \/ CompressToOutBuff
    <2>1. PICK n \in Nat, fin \in BOOLEAN : \E c, capacity : Writes(n, c, fin, capacity)
      BY <1>1, EncodingWrites
    <2>2. pc # "failed" /\ Working("load") /\ n <= Available
      BY <2>1 DEF Writes, Working, InCodec
    <2>3. Taken' = Taken \o Offered(n) /\ EatenNow + n = EatenNow'
      BY <2>1, WritesTake
    <2>4. /\ Offered(n) \in Seq(Nat) /\ Len(Offered(n)) = n
          /\ \A i \in 1 .. n : Offered(n)[i] = EatenNow + i
      BY <2>2, OfferedOrder
    <2>5. EatenNow + Len(Offered(n)) = EatenNow'
      BY <2>3, <2>4
    <2>6. \A i \in 1 .. Len(Offered(n)) : Offered(n)[i] = EatenNow + i
      BY <2>4
    <2> QED BY <2>2, <2>3, <2>4, <2>5, <2>6 DEF Takes
  <1>2. CASE LoadAndStop
    <2>1. /\ Working("load") /\ loaded' = loaded \o Offered(ToLoad) /\ ip' = ip + ToLoad
          /\ UNCHANGED <<vars, streamStage, encoded>> /\ cstep' = "return"
          /\ streamStage = "load" /\ pc # "failed"
      BY <1>2 DEF LoadAndStop, Working, InCodec, AllLoaded, sessionVars, historyVars
    <2>2. ToLoad \in Nat /\ ToLoad <= Available
      BY <2>1, LoadFacts
    <2>3. /\ Offered(ToLoad) \in Seq(Nat) /\ Len(Offered(ToLoad)) = ToLoad
          /\ \A i \in 1 .. ToLoad : Offered(ToLoad)[i] = EatenNow + i
          /\ EatenNow = eaten + (ip - in_pos)
      BY <2>1, <2>2, OfferedOrder
    <2>4. Taken' = Taken \o Offered(ToLoad)
      <3>1. encoded \in Seq(Nat) /\ loaded \in Seq(Nat)
        BY SequenceTypes
      <3>2. Taken = encoded \o loaded /\ Taken' = encoded \o (loaded \o Offered(ToLoad))
        BY <2>1 DEF Taken, Buffered
      <3> QED BY <2>3, <3>1, <3>2, Associative
    <2>5. EatenNow + ToLoad = EatenNow'
      <3>1. EatenNow' = eaten + ((ip + ToLoad) - in_pos)
        BY <2>1 DEF EatenNow, vars
      <3>2. NumbersTyped
        BY NumberTypes
      <3> QED BY <2>2, <2>3, <3>1, <3>2 DEF NumbersTyped
    <2>6. EatenNow + Len(Offered(ToLoad)) = EatenNow'
      BY <2>3, <2>5
    <2>7. \A i \in 1 .. Len(Offered(ToLoad)) : Offered(ToLoad)[i] = EatenNow + i
      BY <2>3
    <2> QED BY <2>1, <2>3, <2>4, <2>6, <2>7 DEF Takes
  <1>3. CASE InitStream \/ ResumeStream \/ Flush
    <2>1. /\ UNCHANGED <<vars, ip, encoded>> /\ cstep # "out" /\ cstep' # "out"
      BY <1>3 DEF InitStream, ResumeStream, Flush, Working, cctxVars, historyVars
    <2>2. Buffered' = Buffered
      <3>1. CASE InitStream
        BY <3>1 DEF InitStream, Buffered
      <3>2. CASE ResumeStream
        BY <3>2 DEF ResumeStream, Buffered, cctxVars, sessionVars, ringVars
      <3>3. CASE Flush
        <4>1. loaded' = loaded /\ streamStage = "flush"
          BY <3>3 DEF Flush, Working, ringVars
        <4>2. loaded = <<>>
          BY <4>1 DEF CInv, SessionInv, FlushInv
        <4> QED BY <4>1, <4>2 DEF Buffered
      <3> QED BY <1>3, <3>1, <3>2, <3>3
    <2>3. Taken' = Taken /\ EatenNow' = EatenNow /\ pc' = pc
      BY <2>1, <2>2 DEF Taken, EatenNow, vars
    <2> QED BY <2>3 DEF TakesNothing
  <1>4. CASE StreamReturn
    <2>1. /\ cstep = "return" /\ cstep' = "out" /\ eaten' = eaten + (ip - in_pos)
          /\ UNCHANGED <<encoded, loaded, streamStage>> /\ pc # "failed"
      BY <1>4 DEF StreamReturn, CodecReturn, cctxVars, sessionVars, ringVars, historyVars
    <2>2. Taken' = Taken /\ EatenNow' = EatenNow
      BY <2>1 DEF Taken, Buffered, EatenNow
    <2> QED BY <2>1, <2>2 DEF TakesNothing
  <1>5. CASE CompressFill \/ CompressEnd
    <2>1. /\ pc # "failed" /\ cstep' = "enter" /\ ip' = in_pos /\ in_pos' = in_pos
          /\ UNCHANGED <<encoded, loaded, streamStage, eaten>> /\ pc \in {"loop", "idle"}
      BY <1>5 DEF CompressFill, Fill, CompressEnd, EndBegin, Enter, bufVars, cctxVars,
                  sessionVars, ringVars, historyVars
    <2>2. cstep = "out"
      BY <2>1 DEF CInv, ControlInv, CodecLocations
    <2>3. EatenNow' = EatenNow
      <3>1. NumbersTyped
        BY NumberTypes
      <3> QED BY <2>1, <2>2, <3>1 DEF EatenNow, NumbersTyped
    <2>4. Taken' = Taken
      BY <2>1 DEF Taken, Buffered
    <2> QED BY <2>1, <2>3, <2>4 DEF TakesNothing
  <1>6. CASE CompressDrainFail \/ EncodeError
    <2>1. pc' = "failed"
      BY <1>6 DEF CompressDrainFail, DrainFail, EncodeError, CodecFail, Fail
    <2> QED BY <2>1
  <1>7. CASE Restart
    BY <1>7
  <1>8. CASE \/ CompressDrain \/ CompressEndDrain \/ CompressChunkEnd
             \/ \E call \in AnyChunk : CompressChunk(call[1], call[2])
             \/ \E n \in Pledges : SetPledgedSrcSize(n)
             \/ \E b \in MaxBlocks : SetMaxBlockSize(b)
    <2>1. /\ UNCHANGED <<encoded, loaded, streamStage, eaten, cstep>>
          /\ pc \in {"idle", "loop", "drain", "enddrain"}
      BY <1>8 DEF CompressDrain, DrainBuffer, CompressEndDrain, EndDrain, CompressChunkEnd,
         ChunkEnd, CompressChunk, ChunkBegin, SetPledgedSrcSize, SetMaxBlockSize, codecVars,
         cctxVars, sessionVars, ringVars, historyVars, vars
    <2>2. cstep = "out"
      BY <2>1 DEF CInv, ControlInv, CodecLocations
    <2>3. Taken' = Taken /\ EatenNow' = EatenNow
      BY <2>1, <2>2 DEF Taken, Buffered, EatenNow
    <2> QED BY <2>1, <2>3 DEF TakesNothing
  <1>9. CASE UNCHANGED allVars
    BY <1>9 DEF TakesNothing, Taken, Buffered, EatenNow, allVars, codecVars, cctxVars, sessionVars,
                ringVars, historyVars, vars
  <1> QED
    BY <1>1, <1>2, <1>3, <1>4, <1>5, <1>6, <1>7, <1>8, <1>9
    DEF CNext, Application, WrapperSteps, CompressStream2

(* A new start.                                                            *)
LEMMA RestartTaken ==
    ASSUME CInv, Restart
    PROVE  Taken' = <<>> /\ EatenNow' = base /\ EncodedInOrder'
  <1>1. cstep = "out" /\ cstep' = "out"
    BY DEF Restart, Reset, CInv, ControlInv, CodecLocations
  <1>2. EatenNow' = base /\ base \in Nat
    BY <1>1, NumberTypes DEF Restart, Reset, EatenNow, NumbersTyped
  <1>3. Taken' = <<>>
    BY DEF Restart, SessionReset, Taken, Buffered
  <1>4. <<>> \in Seq(Nat) /\ Ascending(<<>>, base)
    BY DEF Ascending
  <1>5. <<>> = Numbers(base - Len(<<>>) + 1, base)
    BY <1>2, <1>4, AscendingNumbers
  <1>6. Taken' = Numbers(EatenNow' - Len(Taken') + 1, EatenNow')
    BY <1>2, <1>3, <1>5
  <1> QED BY <1>2, <1>3, <1>6 DEF EncodedInOrder, Taken, Buffered

(* Every step keeps the order of the bytes.                                *)
LEMMA StepEncoded == CInv /\ EncodedInOrder /\ [CNext]_allVars => EncodedInOrder'
  <1>1. pc' = "failed" => EncodedInOrder'
    BY DEF EncodedInOrder
  <1> QED BY <1>1, StepTakes, TakenGrows, TakenKept, RestartTaken

-----------------------------------------------------------------------------
(* The items of a frame.                                                   *)

(* The greatest number of a set.                                           *)
LEMMA MaxIs ==
    ASSUME NEW S, S \subseteq Int, NEW m \in S, \A x \in S : m >= x
    PROVE  Max(S) = m
  <1>1. \E x \in S : \A y \in S : x >= y
    OBVIOUS
  <1>2. Max(S) \in S /\ \A y \in S : Max(S) >= y
    BY <1>1 DEF Max
  <1>3. Max(S) \in Int /\ m \in Int /\ Max(S) >= m /\ m >= Max(S)
    BY <1>2
  <1>4. \A x, y \in Int : x >= y /\ y >= x => x = y
    OBVIOUS
  <1> QED BY <1>3, <1>4

(* What Append does to the items.                                          *)
LEMMA ItemsAppended ==
    ASSUME CInv, NEW x \in CodedItem, coded' = Append(coded, x)
    PROVE  /\ Len(coded) \in Nat /\ Len(coded') = Len(coded) + 1
           /\ \A i \in 1 .. Len(coded) : coded'[i] = coded[i]
           /\ coded'[Len(coded) + 1] = x
           /\ coded = <<>> <=> Len(coded) = 0
           /\ coded' # <<>>
           /\ \A i \in 1 .. Len(coded) : coded[i] \in CodedItem
  <1>1. coded \in Seq(CodedItem)
    BY SequenceTypes
  <1>2. /\ Len(coded') = Len(coded) + 1 /\ coded'[Len(coded) + 1] = x
        /\ \A i \in 1 .. Len(coded) : coded'[i] = coded[i]
    BY <1>1, AppendProperties
  <1>3. Len(coded) \in Nat /\ (coded = <<>> <=> Len(coded) = 0)
    BY <1>1, EmptySeq
  <1>4. coded' # <<>>
    <2>1. CASE coded' = <<>>
      <3>1. Len(coded') = 0
        BY <2>1
      <3> QED BY <1>2, <1>3, <3>1
    <2> QED BY <2>1
  <1>5. \A i \in 1 .. Len(coded) : coded[i] \in CodedItem
    BY <1>1
  <1> QED BY <1>2, <1>3, <1>4, <1>5

(* Behind a finished frame the next item begins another one.               *)
LEMMA NewFrame ==
    ASSUME CInv, NEW x \in CodedItem, coded' = Append(coded, x),
           coded = <<>> \/ coded[Len(coded)].fin
    PROVE  /\ FrameStart' = Len(coded')
           /\ FrameFrom' = IF coded = <<>> THEN 0 ELSE coded[Len(coded)].upto
  <1> DEFINE ends == {i \in 1 .. Len(coded') - 1 : coded'[i].fin}
  <1>1. /\ Len(coded) \in Nat /\ Len(coded') = Len(coded) + 1
        /\ \A i \in 1 .. Len(coded) : coded'[i] = coded[i]
        /\ coded = <<>> <=> Len(coded) = 0
    BY ItemsAppended
  <1>2. FrameStart' = IF ends = {} THEN 1 ELSE Max(ends) + 1
    BY DEF FrameStart
  <1>3. Len(coded') - 1 = Len(coded)
    BY <1>1
  <1>4. FrameStart' = Len(coded) + 1
    <2>1. CASE Len(coded) = 0
      <3>1. ends = {}
        BY <1>3, <2>1
      <3> QED BY <1>2, <2>1, <3>1
    <2>2. CASE Len(coded) # 0
      <3>1. Len(coded) \in 1 .. Len(coded) /\ coded[Len(coded)].fin
        BY <1>1, <2>2
      <3>2. coded'[Len(coded)] = coded[Len(coded)]
        BY <1>1, <3>1
      <3>3. Len(coded) \in ends
        BY <1>3, <3>1, <3>2
      <3>4. ends \subseteq Int /\ \A i \in ends : Len(coded) >= i
        BY <1>1, <1>3
      <3> HIDE DEF ends
      <3>5. Max(ends) = Len(coded)
        BY <3>3, <3>4, MaxIs
      <3> QED BY <1>2, <3>3, <3>5
    <2> QED BY <2>1, <2>2
  <1>5. FrameFrom' = IF Len(coded) + 1 = 1 THEN 0 ELSE coded'[Len(coded) + 1 - 1].upto
    BY <1>4 DEF FrameFrom
  <1>6. Len(coded) # 0 => coded'[Len(coded) + 1 - 1] = coded[Len(coded)]
    <2>1. Len(coded) + 1 - 1 = Len(coded)
      BY <1>1
    <2>2. Len(coded) # 0 => Len(coded) \in 1 .. Len(coded)
      BY <1>1
    <2>3. Len(coded) # 0 => coded'[Len(coded)] = coded[Len(coded)]
      BY <1>1, <2>2
    <2> QED BY <2>1, <2>3
  <1> QED BY <1>1, <1>4, <1>5, <1>6

(* Behind an unfinished frame it continues it.                             *)
LEMMA SameFrame ==
    ASSUME CInv, NEW x \in CodedItem, coded' = Append(coded, x),
           coded # <<>>, ~ coded[Len(coded)].fin, FrameStart \in 1 .. Len(coded)
    PROVE  /\ FrameStart' = FrameStart /\ FrameFrom' = FrameFrom
           /\ coded'[FrameStart] = coded[FrameStart]
  <1> DEFINE ends == {i \in 1 .. Len(coded) - 1 : coded[i].fin}
             ends2 == {i \in 1 .. Len(coded') - 1 : coded'[i].fin}
  <1>1. /\ Len(coded) \in Nat /\ Len(coded') = Len(coded) + 1
        /\ \A i \in 1 .. Len(coded) : coded'[i] = coded[i]
    BY ItemsAppended
  <1>2. ends2 = ends
    <2>1. Len(coded') - 1 = Len(coded)
      BY <1>1
    <2>2. ASSUME NEW i PROVE i \in ends2 <=> i \in ends
      <3>1. i \in ends2 <=> i \in 1 .. Len(coded) /\ coded[i].fin
        BY <1>1, <2>1
      <3>2. i \in ends <=> i \in 1 .. Len(coded) - 1 /\ coded[i].fin
        OBVIOUS
      <3>3. i = Len(coded) => ~ coded[i].fin
        OBVIOUS
      <3>4. i \in 1 .. Len(coded) - 1 <=> i \in 1 .. Len(coded) /\ i # Len(coded)
        BY <1>1
      <3> QED BY <3>1, <3>2, <3>3, <3>4
    <2> QED BY <2>2
  <1>3. FrameStart' = FrameStart
    <2>1. FrameStart' = (IF ends2 = {} THEN 1 ELSE Max(ends2) + 1)
      BY DEF FrameStart
    <2>2. FrameStart = (IF ends = {} THEN 1 ELSE Max(ends) + 1)
      BY DEF FrameStart
    <2> HIDE DEF ends, ends2
    <2> QED BY <1>2, <2>1, <2>2
  <1>4. FrameStart # 1 => coded'[FrameStart - 1] = coded[FrameStart - 1]
    <2>1. FrameStart # 1 => FrameStart - 1 \in 1 .. Len(coded)
      BY <1>1
    <2> QED BY <1>1, <2>1
  <1>5. FrameFrom' = IF FrameStart = 1 THEN 0 ELSE coded'[FrameStart - 1].upto
    BY <1>3 DEF FrameFrom
  <1>6. FrameFrom = IF FrameStart = 1 THEN 0 ELSE coded[FrameStart - 1].upto
    BY DEF FrameFrom
  <1> QED BY <1>1, <1>3, <1>4, <1>5, <1>6


(* What was taken before the remembered bytes does not change.             *)
LEMMA StartKept ==
    ASSUME CInv, Takes \/ TakesNothing
    PROVE  Start' = Start
  <1>1. CASE Takes
    <2>1. PICK t \in Seq(Nat) : Taken' = Taken \o t /\ EatenNow + Len(t) = EatenNow'
      BY <1>1 DEF Takes
    <2>2. Taken \in Seq(Nat) /\ EatenNow \in Nat
      BY TakenTypes
    <2>3. Len(Taken') = Len(Taken) + Len(t)
      BY <2>1, <2>2
    <2>4. Len(Taken) \in Nat /\ Len(t) \in Nat
      BY <2>2
    <2>5. Start' = (EatenNow + Len(t)) - (Len(Taken) + Len(t))
      BY <2>1, <2>3 DEF Start
    <2> QED BY <2>2, <2>4, <2>5 DEF Start
  <1>2. CASE TakesNothing
    BY <1>2 DEF TakesNothing, Start
  <1> QED BY <1>1, <1>2

(* The initial state.                                                      *)
LEMMA InitFrame == CInit => OutputInOrder /\ EncodedInOrder /\ ItemsInv /\ FrameInv
  <1> SUFFICES ASSUME CInit
               PROVE  OutputInOrder /\ EncodedInOrder /\ ItemsInv /\ FrameInv
    OBVIOUS
  <1>1. /\ drained = <<>> /\ dst = <<>> /\ streamStage = "init" /\ emitted = 0
        /\ encoded = <<>> /\ coded = <<>> /\ opened = 0 /\ pc = "idle"
        /\ cstep = "out" /\ eaten = 0
    BY DEF CInit, Init
  <1>2. Taken = <<>> /\ Output = <<>> /\ EatenNow = 0
    BY <1>1 DEF Taken, Buffered, Output, Unflushed, EatenNow
  <1>3. <<>> \in Seq(Nat) /\ Len(<<>>) = 0 /\ Ascending(<<>>, 0)
    BY DEF Ascending
  <1>4. <<>> = Numbers(1, 0) /\ <<>> = Numbers(0 - Len(<<>>) + 1, 0)
    BY <1>3, OutputMeans, AscendingNumbers
  <1>5. OutputInOrder
    BY <1>1, <1>2, <1>4 DEF OutputInOrder, Output
  <1>6. EncodedInOrder
    <2>1. Taken = Numbers(EatenNow - Len(Taken) + 1, EatenNow)
      BY <1>2, <1>4
    <2> QED BY <2>1 DEF EncodedInOrder, Taken, Buffered
  <1>7. ItemsInv
    BY <1>1 DEF ItemsInv, HeaderIsTrue
  <1>8. Start = 0 /\ Len(encoded) = 0
    <2>1. Len(encoded) = 0 /\ Len(Taken) = 0
      BY <1>1, <1>2
    <2>2. Start = 0 - 0
      BY <1>2, <2>1 DEF Start
    <2> QED BY <2>1, <2>2
  <1>9. FrameInv
    BY <1>1, <1>8 DEF FrameInv, FrameTrue, FrameOpen, FramePending
  <1> QED BY <1>5, <1>6, <1>7, <1>9

-----------------------------------------------------------------------------
(* A write extends the open frame or begins a new one.                     *)
LEMMA WritesFrameStart ==
    ASSUME CInv, ItemsInv, FrameInv, NEW n \in Nat, NEW c, NEW fin \in BOOLEAN,
           NEW capacity, Writes(n, c, fin, capacity)
    PROVE  /\ coded' # <<>> /\ coded'[Len(coded')].fin = fin
           /\ coded'[Len(coded')].upto = Len(encoded')
           /\ FrameStart' \in 1 .. Len(coded') /\ FrameFrom' \in 0 .. Len(encoded')
           /\ coded'[FrameStart'].begins
           /\ coded'[FrameStart'].size = DeclaredSize
           /\ consumed' = Len(encoded') - FrameFrom'
           /\ opened = Start + FrameFrom'
           /\ consumed \in Nat /\ Len(loaded \o Offered(n)) \in Nat
           /\ Len(encoded') \in Nat /\ encoded' \in Seq(Nat)
  <1> DEFINE bytes == loaded \o Offered(n)
             m == Len(bytes)
             x == [upto |-> Len(encoded'), begins |-> stage = "init",
                   fin |-> fin, size |-> DeclaredSize]
  <1>1. /\ bytes \in Seq(Nat) /\ Encoded(bytes, c, fin) /\ Working("load")
        /\ ChunkUnits(Len(bytes), c, fin) \in Nat
    BY DEF Writes
  <1>2. /\ pc # "failed" /\ streamStage = "load" /\ cstep = "work"
    BY <1>1 DEF Working, InCodec
  <1>3. stage \in {"init", "ongoing"}
    BY <1>2 DEF CInv, SessionInv, FlushInv
  <1>4. /\ coded' = Append(coded, x) /\ consumed' = consumed + m
        /\ encoded' = encoded \o bytes
    BY <1>1 DEF Encoded
  <1>5. m \in Nat /\ encoded \in Seq(Nat) /\ Len(encoded) \in Nat
    BY <1>1, SequenceTypes
  <1>6. encoded' \in Seq(Nat) /\ Len(encoded') = Len(encoded) + m
    BY <1>1, <1>4, <1>5
  <1>7. consumed \in Nat
    BY NumberTypes DEF NumbersTyped
  <1>8. x \in CodedItem
    <2>1. DeclaredSize \in Nat \union {Unknown}
      <3>1. NumbersTyped
        BY NumberTypes
      <3> QED BY <3>1 DEF NumbersTyped, DeclaredSize
    <2>2. Len(encoded') \in Nat
      BY <1>5, <1>6
    <2> QED BY <2>1, <2>2 DEF CodedItem
  <1>9. /\ x.upto = Len(encoded') /\ x.begins = (stage = "init") /\ x.fin = fin
        /\ x.size = DeclaredSize
    OBVIOUS
  <1> HIDE DEF bytes, m, x
  <1>10. /\ Len(coded) \in Nat /\ Len(coded') = Len(coded) + 1
         /\ coded'[Len(coded')] = x /\ coded' # <<>>
         /\ coded = <<>> <=> Len(coded) = 0
    BY <1>4, <1>8, ItemsAppended
  <1>11. FrameTrue /\ ~ FramePending
    BY <1>2 DEF FrameInv, FramePending
  <1>12. CASE stage = "init"
    <2>1. ~ FrameOpen /\ consumed = 0
      BY <1>2, <1>11, <1>12 DEF FrameOpen, FrameTrue
    <2>2. coded = <<>> \/ coded[Len(coded)].fin
      BY <1>11, <2>1 DEF FrameTrue
    <2>3. /\ FrameStart' = Len(coded')
          /\ FrameFrom' = IF coded = <<>> THEN 0 ELSE coded[Len(coded)].upto
      BY <1>4, <1>8, <2>2, NewFrame
    <2>4. FrameFrom' = Len(encoded)
      <3>1. CASE coded = <<>>
        <4>1. encoded = <<>>
          BY <3>1 DEF ItemsInv
        <4> QED BY <2>3, <3>1, <4>1
      <3>2. CASE coded # <<>>
        BY <2>3, <3>2 DEF ItemsInv
      <3> QED BY <3>1, <3>2
    <2>5. opened = Start + Len(encoded)
      BY <1>11, <2>1 DEF FrameTrue
    <2>6. coded'[FrameStart'] = x /\ FrameStart' \in 1 .. Len(coded')
      <3>1. Len(coded') \in 1 .. Len(coded')
        BY <1>10
      <3> QED BY <1>10, <2>3, <3>1
    <2>7. FrameFrom' \in 0 .. Len(encoded') /\ consumed' = Len(encoded') - FrameFrom'
      <3>1. FrameFrom' = Len(encoded) /\ consumed' = 0 + m
        BY <1>4, <2>1, <2>4
      <3> QED BY <1>5, <1>6, <3>1
    <2>8. opened = Start + FrameFrom'
      BY <2>4, <2>5
    <2>9. coded'[FrameStart'].begins
      <3>1. x.begins
        BY <1>9, <1>12
      <3> QED BY <2>6, <3>1
    <2> QED BY <1>5, <1>6, <1>7, <1>9, <1>10, <2>6, <2>7, <2>8, <2>9 DEF m, bytes
  <1>13. CASE stage = "ongoing"
    <2>1. FrameOpen
      BY <1>2, <1>13 DEF FrameOpen
    <2>2. /\ coded # <<>> /\ ~ coded[Len(coded)].fin
          /\ coded[FrameStart].size = DeclaredSize
          /\ consumed = Len(encoded) - FrameFrom
          /\ opened = Start + FrameFrom
      BY <1>11, <2>1 DEF FrameTrue
    <2>3. /\ FrameStart \in 1 .. Len(coded) /\ FrameFrom \in 0 .. Len(encoded)
          /\ coded[FrameStart].begins
      BY <2>2 DEF ItemsInv
    <2>4. /\ FrameStart' = FrameStart /\ FrameFrom' = FrameFrom
          /\ coded'[FrameStart] = coded[FrameStart]
      BY <1>4, <1>8, <2>2, <2>3, SameFrame
    <2>5. FrameStart' \in 1 .. Len(coded')
      BY <1>10, <2>3, <2>4
    <2>6. FrameFrom' \in 0 .. Len(encoded') /\ consumed' = Len(encoded') - FrameFrom'
      <3>1. consumed' = (Len(encoded) - FrameFrom) + m
        BY <1>4, <2>2
      <3> QED BY <1>5, <1>6, <2>3, <2>4, <3>1
    <2>7. coded'[FrameStart'] = coded[FrameStart] /\ opened = Start + FrameFrom'
      BY <2>2, <2>4
    <2> QED BY <1>5, <1>6, <1>7, <1>9, <1>10, <2>2, <2>3, <2>5, <2>6, <2>7 DEF m, bytes
  <1> QED BY <1>3, <1>12, <1>13

(* And leaves the frames as they should be.                                *)
LEMMA WritesFrame ==
    ASSUME CInv, ItemsInv, FrameInv, NEW n \in Nat, NEW c, NEW fin \in BOOLEAN,
           NEW capacity, Writes(n, c, fin, capacity), Start' = Start
    PROVE  ItemsInv' /\ FrameInv'
  <1> DEFINE m == Len(loaded \o Offered(n))
  <1>1. /\ coded' # <<>> /\ coded'[Len(coded')].fin = fin
        /\ coded'[Len(coded')].upto = Len(encoded')
        /\ FrameStart' \in 1 .. Len(coded') /\ FrameFrom' \in 0 .. Len(encoded')
        /\ coded'[FrameStart'].begins
        /\ coded'[FrameStart'].size = DeclaredSize
        /\ consumed' = Len(encoded') - FrameFrom'
        /\ opened = Start + FrameFrom'
        /\ consumed \in Nat /\ m \in Nat
        /\ Len(encoded') \in Nat /\ encoded' \in Seq(Nat)
    BY WritesFrameStart
  <1>2. /\ Encodes(m, c, fin, capacity) /\ consumed' = consumed + m
        /\ stage' = IF fin THEN "created" ELSE "ongoing"
        /\ UNCHANGED <<vars, opened>> /\ Working("load")
        /\ fin => /\ endOp = "end"
                  /\ \/ streamStage' = "init" /\ cstep' = "return"
                     \/ streamStage' = "flush" /\ frameEnded' /\ cstep' = "work"
        /\ ~ fin => /\ streamStage' \in {"load", "flush"} /\ ~ frameEnded' /\ cstep' = "work"
                    /\ pledgedPlusOne' = pledgedPlusOne
    BY DEF Writes, Encoded
  <1> HIDE DEF m
  <1>3. HeaderIsTrue'
    <2>1. CASE ~ fin
      BY <1>1, <2>1 DEF HeaderIsTrue
    <2>2. CASE fin
      <3>1. DeclaredSize \in {Unknown, consumed'}
        <4>1. pledgedPlusOne # 0 => pledgedPlusOne = consumed + m + 1
          BY <1>2, <2>2 DEF Encodes
        <4>2. pledgedPlusOne # 0 => pledgedPlusOne - 1 = consumed + m
          BY <1>1, <4>1
        <4> QED BY <1>2, <4>2 DEF DeclaredSize
      <3>2. Len(FrameBytes') = Len(encoded') - FrameFrom'
        <4> DEFINE e == encoded'
                   f == FrameFrom'
        <4>1. e \in Seq(Nat) /\ f \in 0 .. Len(e) /\ Len(e) \in Nat
          BY <1>1
        <4>2. FrameBytes' = SubSeq(e, f + 1, Len(e))
          BY DEF FrameBytes
        <4> HIDE DEF e, f
        <4>3. \A i \in f + 1 .. Len(e) : e[i] \in Nat
          BY <4>1
        <4>4. Len(SubSeq(e, f + 1, Len(e))) =
                 IF f + 1 <= Len(e) THEN Len(e) - (f + 1) + 1 ELSE 0
          BY <4>1, <4>3, SubSeqProperties
        <4>5. Len(SubSeq(e, f + 1, Len(e))) = Len(e) - f
          BY <4>1, <4>4
        <4> QED BY <4>2, <4>5 DEF e, f
      <3> QED BY <1>1, <3>1, <3>2 DEF HeaderIsTrue
    <2> QED BY <2>1, <2>2
  <1>4. ItemsInv'
    BY <1>1, <1>3 DEF ItemsInv
  <1>5. pc' = pc /\ last' = last /\ rest_len' = rest_len /\ opened' = opened
    BY <1>2 DEF vars
  <1>6. FrameTrue'
    <2>1. CASE ~ fin
      <3>1. FrameOpen' /\ stage' # "init"
        BY <1>2, <2>1 DEF FrameOpen
      <3>2. DeclaredSize' = DeclaredSize
        BY <1>2, <2>1 DEF DeclaredSize
      <3> QED BY <1>1, <1>5, <2>1, <3>1, <3>2 DEF FrameTrue
    <2>2. CASE fin
      <3>1. ~ FrameOpen' /\ stage' # "init"
        BY <1>2, <2>2 DEF FrameOpen
      <3>2. pc \in {"codec", "endcodec"}
        BY <1>2 DEF Working, InCodec
      <3>3. last /\ rest_len = 0
        <4>1. pc = "endcodec" => last /\ rest_len = 0
          BY DEF FrameInv, CInv, OrderInv, BoundsInv, LoopInv
        <4> QED BY <1>2, <2>2, <4>1 DEF endOp
      <3>4. FramePending'
        BY <1>2, <1>5, <2>2, <3>2, <3>3 DEF FramePending
      <3> QED BY <1>1, <1>5, <2>2, <3>1, <3>4 DEF FrameTrue
    <2> QED BY <2>1, <2>2
  <1>7. pc' \in {"endcodec", "enddrain"} => last'
    BY <1>5 DEF FrameInv
  <1>8. cstep' # "enter"
    BY <1>2
  <1> QED BY <1>4, <1>6, <1>7, <1>8 DEF FrameInv


-----------------------------------------------------------------------------
(* The steps that write nothing.                                           *)

(* Only a write and a restart change what was written.                     *)
LEMMA ItemsSteps ==
    [CNext]_allVars => \/ Shortcut \/ CompressDirect \/ CompressToOutBuff \/ Restart
                       \/ UNCHANGED <<coded, encoded>>
  BY DEF CNext, Application, WrapperSteps, CompressStream2, InitStream, ResumeStream,
     LoadAndStop, Flush, EncodeError, StreamReturn, CompressChunk, CompressFill,
     CompressDrain, CompressDrainFail, CompressChunkEnd, CompressEnd, CompressEndDrain,
     SetPledgedSrcSize, SetMaxBlockSize, allVars, codecVars, cctxVars, historyVars

(* Then the frames stay what they are.                                     *)
LEMMA ItemsKept ==
    ASSUME ItemsInv, UNCHANGED <<coded, encoded>>
    PROVE  ItemsInv' /\ FrameStart' = FrameStart /\ FrameFrom' = FrameFrom
  <1>1. FrameStart' = FrameStart
    BY DEF FrameStart
  <1>2. FrameFrom' = FrameFrom
    BY <1>1 DEF FrameFrom
  <1>3. FrameBytes' = FrameBytes
    BY <1>2 DEF FrameBytes
  <1> QED BY <1>1, <1>2, <1>3 DEF ItemsInv, HeaderIsTrue

(* What a step must keep besides.                                          *)
LEMMA FrameKept ==
    ASSUME ItemsInv, FrameTrue, UNCHANGED <<coded, encoded>>, Start' = Start,
           FrameOpen' <=> FrameOpen,
           FrameOpen => pledgedPlusOne' = pledgedPlusOne /\ consumed' = consumed,
           \/ opened' = opened /\ (FramePending' <=> FramePending)
           \/ opened' = Start + Len(encoded) /\ ~ FrameOpen /\ ~ FramePending',
           streamStage' # "init" /\ stage' = "init" => consumed' = 0
    PROVE  FrameTrue'
  <1>1. FrameFrom' = FrameFrom /\ FrameStart' = FrameStart
    BY ItemsKept
  <1>2. FrameOpen => DeclaredSize' = DeclaredSize
    BY DEF DeclaredSize
  <1>3. opened' = Start' + IF FrameOpen' \/ FramePending' THEN FrameFrom' ELSE Len(encoded')
    BY <1>1 DEF FrameTrue
  <1>4. FramePending' => coded' # <<>>
    BY DEF FrameTrue
  <1> QED BY <1>1, <1>2, <1>3, <1>4 DEF FrameTrue

(* The steps of a call of ZSTD_compressStream2.                            *)
LEMMA CodecFrame ==
    ASSUME CInv, ItemsInv, FrameInv, Start' = Start,
           InitStream \/ ResumeStream \/ LoadAndStop \/ Flush \/ StreamReturn
    PROVE  FrameInv'
  <1>1. /\ pc \in {"codec", "endcodec"} /\ FrameTrue
        /\ UNCHANGED <<coded, encoded, opened, last, rest_len>>
    <2>1. pc \in {"codec", "endcodec"}
      BY DEF InitStream, ResumeStream, LoadAndStop, Flush, StreamReturn, CodecReturn,
             Working, InCodec
    <2>2. UNCHANGED <<coded, encoded, opened, last, rest_len>>
      BY DEF InitStream, ResumeStream, LoadAndStop, Flush, StreamReturn, CodecReturn,
             vars, cctxVars, historyVars, appVars
    <2> QED BY <2>1, <2>2 DEF FrameInv
  <1>2. CASE InitStream
    <2>1. /\ cstep = "enter" /\ streamStage = "init" /\ streamStage' = "load"
          /\ stage' = "init" /\ consumed' = 0 /\ cstep' = "work" /\ pc' = pc
      BY <1>2 DEF InitStream, vars
    <2>2. ~ FrameOpen /\ ~ FrameOpen' /\ ~ FramePending /\ ~ FramePending'
      BY <2>1 DEF FrameOpen, FramePending
    <2>3. FrameTrue'
      BY <1>1, <2>1, <2>2, FrameKept
    <2> QED BY <1>1, <2>1, <2>3 DEF FrameInv
  <1>3. CASE ResumeStream
    <2>1. /\ cstep = "enter" /\ streamStage # "init" /\ cstep' = "work" /\ pc' = pc
          /\ UNCHANGED <<streamStage, stage, consumed, pledgedPlusOne, frameEnded>>
      BY <1>3 DEF ResumeStream, vars, cctxVars, sessionVars, flushVars
    <2>2. ~ FramePending /\ ~ FramePending'
      BY <2>1 DEF FramePending, FrameInv
    <2>3. FrameOpen' <=> FrameOpen
      BY <2>1 DEF FrameOpen
    <2>4. streamStage' # "init" /\ stage' = "init" => consumed' = 0
      BY <1>1, <2>1 DEF FrameTrue
    <2>5. FrameTrue'
      BY <1>1, <2>1, <2>2, <2>3, <2>4, FrameKept
    <2> QED BY <1>1, <2>1, <2>5 DEF FrameInv
  <1>4. CASE LoadAndStop
    <2>1. /\ streamStage = "load" /\ cstep' = "return" /\ pc' = pc
          /\ UNCHANGED <<streamStage, stage, consumed, pledgedPlusOne>>
      BY <1>4 DEF LoadAndStop, Working, vars, sessionVars
    <2>2. ~ FramePending /\ ~ FramePending'
      BY <2>1 DEF FramePending
    <2>3. FrameOpen' <=> FrameOpen
      BY <2>1 DEF FrameOpen
    <2>4. streamStage' # "init" /\ stage' = "init" => consumed' = 0
      BY <1>1, <2>1 DEF FrameTrue
    <2>5. FrameTrue'
      BY <1>1, <2>1, <2>2, <2>3, <2>4, FrameKept
    <2> QED BY <1>1, <2>1, <2>5 DEF FrameInv
  <1>5. CASE Flush
    <2>1. /\ streamStage = "flush" /\ cstep = "work" /\ pc' = pc
          /\ UNCHANGED <<stage, consumed, frameEnded>> /\ cstep' \in {"work", "return"}
          /\ \/ UNCHANGED <<streamStage, pledgedPlusOne>>
             \/ frameEnded /\ streamStage' = "init"
             \/ ~ frameEnded /\ streamStage' = "load" /\ pledgedPlusOne' = pledgedPlusOne
      BY <1>5 DEF Flush, Working, SessionReset, vars
    <2>2. frameEnded => stage = "created"
      BY <1>1, <2>1 DEF CInv, SessionInv, FlushInv
    <2>3. FramePending' <=> FramePending
      BY <1>1, <2>1 DEF FramePending
    <2>4. FrameOpen' <=> FrameOpen
      BY <2>1, <2>2 DEF FrameOpen
    <2>5. FrameOpen => pledgedPlusOne' = pledgedPlusOne
      BY <2>1, <2>2 DEF FrameOpen
    <2>6. streamStage' # "init" /\ stage' = "init" => consumed' = 0
      BY <1>1, <2>1 DEF FrameTrue
    <2>7. FrameTrue'
      BY <1>1, <2>1, <2>3, <2>4, <2>5, <2>6, FrameKept
    <2> QED BY <1>1, <2>1, <2>7 DEF FrameInv
  <1>6. CASE StreamReturn
    <2>1. /\ cstep = "return" /\ cstep' = "out"
          /\ pc' = IF pc = "codec" THEN "drain" ELSE "enddrain"
          /\ UNCHANGED <<streamStage, stage, consumed, pledgedPlusOne, frameEnded>>
      BY <1>6 DEF StreamReturn, CodecReturn, cctxVars, sessionVars, flushVars
    <2>2. FramePending' <=> FramePending
      BY <1>1, <2>1 DEF FramePending
    <2>3. FrameOpen' <=> FrameOpen
      BY <2>1 DEF FrameOpen
    <2>4. streamStage' # "init" /\ stage' = "init" => consumed' = 0
      BY <1>1, <2>1 DEF FrameTrue
    <2>5. FrameTrue'
      BY <1>1, <2>1, <2>2, <2>3, <2>4, FrameKept
    <2> QED BY <1>1, <2>1, <2>5 DEF FrameInv
  <1> QED BY <1>2, <1>3, <1>4, <1>5, <1>6

(* Between two frames the ring counts for nothing.                         *)
LEMMA TakenWritten ==
    ASSUME CInv, streamStage = "init"
    PROVE  Taken = encoded
  <1>1. encoded \in Seq(Nat)
    BY SequenceTypes
  <1>2. Taken = encoded \o <<>>
    BY DEF Taken, Buffered
  <1> QED BY <1>1, <1>2, ConcatEmptySeq

(* When nothing waits in the wrapper or the ring, all of the input is in   *)
(* blocks.                                                                 *)
LEMMA AllWritten ==
    ASSUME CInv, cstep = "out", pc # "failed", streamStage = "init",
           in_pos = in_size, rest_len = 0
    PROVE  Start + Len(encoded) = base + src_len
  <1>1. Taken = encoded
    BY TakenWritten
  <1>2. EatenNow = eaten
    BY DEF EatenNow
  <1>3. eaten + (in_size - in_pos) + rest_len = base + src_len
    BY DEF CInv, OrderInv, NothingLost
  <1>4. TypeOK /\ Len(encoded) \in Nat
    <2>1. encoded \in Seq(Nat)
      BY SequenceTypes
    <2> QED BY <2>1 DEF CInv, OrderInv, BoundsInv
  <1>5. Start = eaten - Len(encoded)
    BY <1>1, <1>2 DEF Start
  <1> QED BY <1>3, <1>4, <1>5 DEF TypeOK

(* The end of a call: it closes the frame if that was asked for.           *)
LEMMA ClosingFrame ==
    ASSUME CInv, ItemsInv, FrameInv, Start' = Start, pc' # "failed",
           CompressChunkEnd \/ CompressEndDrain
    PROVE  /\ FrameInv'
           /\ last => /\ streamStage = "init" /\ FramePending
                      /\ base' = Start + Len(encoded)
  <1>1. /\ pc \in {"loop", "enddrain"} /\ pc' = "idle" /\ last' = last
        /\ rest_len = 0
        /\ UNCHANGED <<coded, encoded, streamStage, stage, consumed, pledgedPlusOne, cstep>>
        /\ base' = base + src_len
        /\ last => opened' = base' /\ in_pos = in_size /\ streamStage = "init"
        /\ ~ last => opened' = opened
    <2>1. CASE CompressChunkEnd
      <3>1. /\ pc = "loop" /\ rest_len = 0 /\ ~ (last /\ (res # 0 \/ in_pos # in_size))
            /\ pc' = "idle" /\ result' = "ok" /\ base' = base + src_len
            /\ last' = last
        BY <2>1 DEF CompressChunkEnd, ChunkEnd, Fail
      <3>2. last => streamStage = "init"
        BY <3>1 DEF CInv, ReturnInv
      <3> QED BY <2>1, <3>1, <3>2 DEF CompressChunkEnd, codecVars, cctxVars, sessionVars,
                 historyVars
    <2>2. CASE CompressEndDrain
      <3>1. /\ pc = "enddrain" /\ pc' = "idle" /\ last' = last /\ base' = base
            /\ opened' = base
        BY <2>2 DEF CompressEndDrain, EndDrain, callVars
      <3>2. streamStage = "init" /\ last
        BY <3>1 DEF CInv, ReturnInv, FrameInv
      <3>3. in_pos = in_size
        BY <3>1, <3>2 DEF CInv, ReturnInv, Left
      <3>4. src_len = 0 /\ rest_len = 0
        BY <3>1 DEF CInv, OrderInv, BoundsInv, LoopInv
      <3>5. base' = base + src_len
        <4>1. base \in Nat
          BY NumberTypes DEF NumbersTyped
        <4> QED BY <3>1, <3>4, <4>1
      <3> QED BY <2>2, <3>1, <3>2, <3>3, <3>4, <3>5
              DEF CompressEndDrain, cctxVars, sessionVars, historyVars
    <2> QED BY <2>1, <2>2
  <1>2. cstep = "out"
    BY <1>1 DEF CInv, ControlInv, CodecLocations
  <1>3. last => base' = Start + Len(encoded) /\ FramePending
    <2>1. last => Start + Len(encoded) = base + src_len
      BY <1>1, <1>2, AllWritten
    <2> QED BY <1>1, <1>2, <2>1 DEF FramePending
  <1>4. ~ FramePending' /\ (FrameOpen' <=> FrameOpen) /\ FrameTrue
    BY <1>1 DEF FramePending, FrameOpen, FrameInv
  <1>5. last => ~ FrameOpen
    BY <1>1 DEF FrameOpen
  <1>6. ~ last => ~ FramePending
    BY DEF FramePending
  <1>7. streamStage' # "init" /\ stage' = "init" => consumed' = 0
    BY <1>1, <1>4 DEF FrameTrue
  <1>8. \/ opened' = opened /\ (FramePending' <=> FramePending)
        \/ opened' = Start + Len(encoded) /\ ~ FrameOpen /\ ~ FramePending'
    BY <1>1, <1>3, <1>4, <1>5, <1>6
  <1>9. FrameTrue'
    BY <1>1, <1>4, <1>7, <1>8, FrameKept
  <1> QED BY <1>1, <1>2, <1>3, <1>9 DEF FrameInv

(* The other steps of the wrapper and the application.                     *)
LEMMA WrapperFrame ==
    ASSUME CInv, ItemsInv, FrameInv, Start' = Start,
           \/ CompressFill \/ CompressDrain \/ CompressEnd
           \/ \E call \in AnyChunk \ {<<0, TRUE>>} : CompressChunk(call[1], call[2])
           \/ \E n \in Pledges : SetPledgedSrcSize(n)
           \/ \E b \in MaxBlocks : SetMaxBlockSize(b)
    PROVE  FrameInv'
  <1>1. /\ pc \in {"idle", "loop", "drain"}
        /\ UNCHANGED <<coded, encoded, opened, streamStage, stage, consumed, frameEnded>>
    BY DEF CompressFill, Fill, CompressDrain, DrainBuffer, CompressEnd, EndBegin,
           CompressChunk, ChunkBegin, SetPledgedSrcSize, SetMaxBlockSize, codecVars,
           cctxVars, sessionVars, flushVars, historyVars, appVars
  <1>2. cstep = "out" /\ FrameTrue
    BY <1>1 DEF CInv, ControlInv, CodecLocations, FrameInv
  <1>3. FrameOpen' <=> FrameOpen
    BY <1>1 DEF FrameOpen
  <1>4. streamStage' # "init" /\ stage' = "init" => consumed' = 0
    BY <1>1, <1>2 DEF FrameTrue
  <1>5. CASE CompressFill
    <2>1. /\ pc = "loop" /\ rest_len > 0 /\ cstep' = "enter" /\ pc' = "codec"
          /\ pledgedPlusOne' = pledgedPlusOne
      BY <1>5 DEF CompressFill, Fill, Enter, cctxVars, sessionVars
    <2>2. rest_len # 0
      <3>1. rest_len \in Nat
        <4>1. NumbersTyped
          BY NumberTypes
        <4> QED BY <4>1 DEF NumbersTyped
      <3> QED BY <2>1, <3>1
    <2>3. ~ FramePending /\ ~ FramePending'
      BY <2>1, <2>2 DEF FramePending
    <2>4. FrameTrue'
      BY <1>1, <1>2, <1>3, <1>4, <2>1, <2>3, FrameKept
    <2>5. ~ (streamStage' = "flush" /\ frameEnded')
      BY <1>1, <2>1, <2>2 DEF CInv, ReturnInv
    <2> QED BY <2>1, <2>4, <2>5 DEF FrameInv
  <1>6. CASE CompressDrain
    <2>1. /\ pc = "drain" /\ pc' = "loop" /\ last' = last /\ rest_len' = rest_len
          /\ cstep' = cstep /\ pledgedPlusOne' = pledgedPlusOne
      BY <1>6 DEF CompressDrain, DrainBuffer, callVars, cctxVars, sessionVars
    <2>2. FramePending' <=> FramePending
      BY <1>1, <2>1 DEF FramePending
    <2>3. FrameTrue'
      BY <1>1, <1>2, <1>3, <1>4, <2>1, <2>2, FrameKept
    <2> QED BY <1>2, <2>1, <2>3 DEF FrameInv
  <1>7. CASE CompressEnd
    <2>1. /\ pc = "idle" /\ cstep' = "enter" /\ pc' = "endcodec" /\ last'
          /\ pledgedPlusOne' = pledgedPlusOne
      BY <1>7 DEF CompressEnd, EndBegin, Enter, cctxVars, sessionVars
    <2>2. ~ FramePending /\ ~ FramePending'
      BY <2>1 DEF FramePending
    <2>3. FrameTrue'
      BY <1>1, <1>2, <1>3, <1>4, <2>1, <2>2, FrameKept
    <2>4. ~ (streamStage' = "flush" /\ frameEnded')
      BY <1>1, <2>1 DEF CInv, ReturnInv
    <2> QED BY <2>1, <2>3, <2>4 DEF FrameInv
  <1>8. CASE \E call \in AnyChunk \ {<<0, TRUE>>} : CompressChunk(call[1], call[2])
    <2>1. PICK call \in AnyChunk \ {<<0, TRUE>>} : CompressChunk(call[1], call[2])
      BY <1>8
    <2>2. /\ pc = "idle" /\ pc' = "loop" /\ rest_len' = call[1] /\ last' = call[2]
          /\ cstep' = cstep /\ pledgedPlusOne' = pledgedPlusOne
      BY <2>1 DEF CompressChunk, ChunkBegin, codecVars, cctxVars, sessionVars
    <2>3. ~ (last' /\ rest_len' = 0)
      <3>1. call \in ChunkLens \X BOOLEAN /\ call # <<0, TRUE>>
        BY DEF AnyChunk
      <3>2. PICK k \in ChunkLens, l \in BOOLEAN : call = <<k, l>>
        BY <3>1
      <3>3. ~ (k = 0 /\ l)
        BY <3>1, <3>2
      <3> QED BY <2>2, <3>2, <3>3
    <2>4. ~ FramePending /\ ~ FramePending'
      BY <2>2, <2>3 DEF FramePending
    <2>5. FrameTrue'
      BY <1>1, <1>2, <1>3, <1>4, <2>2, <2>4, FrameKept
    <2> QED BY <1>2, <2>2, <2>5 DEF FrameInv
  <1>9. CASE \/ \E n \in Pledges : SetPledgedSrcSize(n)
             \/ \E b \in MaxBlocks : SetMaxBlockSize(b)
    <2>1. /\ pc = "idle" /\ streamStage = "init" /\ UNCHANGED <<vars, cstep>>
      BY <1>9 DEF SetPledgedSrcSize, SetMaxBlockSize
    <2>2. pc' = "idle"
      BY <2>1 DEF vars
    <2>3. ~ FramePending /\ ~ FramePending' /\ ~ FrameOpen
      BY <2>1, <2>2 DEF FramePending, FrameOpen
    <2>4. FrameTrue'
      BY <1>1, <1>2, <1>3, <1>4, <2>3, FrameKept
    <2> QED BY <1>2, <2>1, <2>2, <2>4 DEF FrameInv
  <1> QED BY <1>5, <1>6, <1>7, <1>8, <1>9


(* A new start leaves no frame.                                            *)
LEMMA RestartFrame ==
    ASSUME CInv, Restart
    PROVE  ItemsInv' /\ FrameInv'
  <1>1. /\ pc' = "idle" /\ cstep' = cstep /\ pc \in {"idle", "failed"}
        /\ streamStage' = "init" /\ coded' = <<>> /\ encoded' = <<>> /\ opened' = base
    BY DEF Restart, Reset, SessionReset
  <1>2. cstep = "out"
    BY <1>1 DEF CInv, ControlInv, CodecLocations
  <1>3. ItemsInv'
    BY <1>1 DEF ItemsInv, HeaderIsTrue
  <1>4. Start' = base
    <2>1. Taken' = <<>> /\ EatenNow' = base
      BY RestartTaken
    <2>2. Len(Taken') = 0
      BY <2>1
    <2>3. NumbersTyped
      BY NumberTypes
    <2>4. Start' = base - 0
      BY <2>1, <2>2 DEF Start
    <2> QED BY <2>3, <2>4 DEF NumbersTyped
  <1>5. opened' = Start' + Len(encoded')
    <2>1. Len(encoded') = 0
      BY <1>1
    <2>2. NumbersTyped
      BY NumberTypes
    <2> QED BY <1>1, <1>4, <2>1, <2>2 DEF NumbersTyped
  <1>6. ~ FrameOpen' /\ ~ FramePending'
    BY <1>1 DEF FrameOpen, FramePending
  <1>7. FrameTrue'
    BY <1>1, <1>5, <1>6 DEF FrameTrue
  <1> QED BY <1>1, <1>2, <1>3, <1>7 DEF FrameInv

(* Every step keeps the frames as they should be.                          *)
LEMMA StepFrame ==
    CInv /\ ItemsInv /\ FrameInv /\ [CNext]_allVars => ItemsInv' /\ FrameInv'
  <1> SUFFICES ASSUME CInv, ItemsInv, FrameInv, [CNext]_allVars
               PROVE  ItemsInv' /\ FrameInv'
    OBVIOUS
  <1>1. CASE Restart
    BY <1>1, RestartFrame
  <1>2. CASE pc' = "failed" /\ UNCHANGED <<coded, encoded>>
    <2>1. ItemsInv'
      BY <1>2, ItemsKept
    <2>2. CInv'
      BY StepCInv
    <2>3. cstep' = "out"
      BY <1>2, <2>2 DEF CInv, ControlInv, CodecLocations
    <2> QED BY <1>2, <2>1, <2>3 DEF FrameInv
  <1>3. CASE ~ Restart /\ pc' # "failed"
    <2>1. Takes \/ TakesNothing
      BY <1>3, StepTakes
    <2>2. Start' = Start
      BY <2>1, StartKept
    <2>3. CASE Shortcut \/ CompressDirect \/ CompressToOutBuff
      <3>1. PICK n \in Nat, fin \in BOOLEAN : \E c, capacity : Writes(n, c, fin, capacity)
        BY <2>3, EncodingWrites
      <3> QED BY <2>2, <3>1, WritesFrame
    <2>4. CASE UNCHANGED <<coded, encoded>>
      <3>1. ItemsInv'
        BY <2>4, ItemsKept
      <3>2. CASE InitStream \/ ResumeStream \/ LoadAndStop \/ Flush \/ StreamReturn
        BY <2>2, <3>1, <3>2, CodecFrame
      <3>3. CASE CompressChunkEnd \/ CompressEndDrain
        BY <1>3, <2>2, <3>1, <3>3, ClosingFrame
      <3>4. CASE \/ CompressFill \/ CompressDrain \/ CompressEnd
                 \/ \E call \in AnyChunk \ {<<0, TRUE>>} : CompressChunk(call[1], call[2])
                 \/ \E n \in Pledges : SetPledgedSrcSize(n)
                 \/ \E b \in MaxBlocks : SetMaxBlockSize(b)
        BY <2>2, <3>1, <3>4, WrapperFrame
      <3>5. CASE CompressDrainFail \/ EncodeError
        BY <1>3, <3>5 DEF CompressDrainFail, DrainFail, EncodeError, CodecFail, Fail
      <3>6. CASE UNCHANGED allVars
        <4>1. FrameInv'
          BY <2>2, <3>6 DEF FrameInv, FrameTrue, FrameOpen, FramePending, FrameStart,
             FrameFrom, DeclaredSize, allVars, vars, codecVars, cctxVars, sessionVars,
             flushVars, historyVars, appVars
        <4> QED BY <3>1, <4>1
      <3> QED BY <1>3, <2>3, <3>2, <3>3, <3>4, <3>5, <3>6
              DEF CNext, Application, WrapperSteps, CompressStream2
    <2> QED BY <1>3, <2>3, <2>4, ItemsSteps
  <1>4. CASE pc' = "failed" /\ (Shortcut \/ CompressDirect \/ CompressToOutBuff)
    BY <1>4 DEF Shortcut, CompressDirect, CompressToOutBuff, BlockReady, Working, InCodec, vars
  <1> QED BY <1>1, <1>2, <1>3, <1>4, ItemsSteps

-----------------------------------------------------------------------------
(* The theorems.                                                           *)

StreamInv == CInv /\ OutputInOrder /\ EncodedInOrder /\ ItemsInv /\ FrameInv

(* The inductive invariant: the order of units and bytes and the frames,   *)
(* on top of what holds of the codec itself.                               *)
THEOREM StreamInvariant == CSpec => []StreamInv
  <1>1. CInit => StreamInv
    BY InitCInv, InitFrame DEF StreamInv
  <1>2. StreamInv /\ [CNext]_allVars => StreamInv'
    BY StepCInv, StepOutput, StepEncoded, StepFrame DEF StreamInv
  <1> QED BY <1>1, <1>2, PTL DEF CSpec

(* OutputInOrder: from the encoder through outBuff and output.dst to the   *)
(* callback no unit is lost, repeated or reordered, wherever the flushes   *)
(* of ZSTD_compressStream2 stop and whatever sizes the buffers have.       *)
THEOREM OutputOrderSafe == CSpec => []OutputInOrder
  <1>1. StreamInv => OutputInOrder
    BY DEF StreamInv
  <1> QED BY <1>1, StreamInvariant, PTL

(* EncodedInOrder: from input.src through the ring into the blocks no byte *)
(* is lost, repeated or reordered, wherever the ring wraps.                *)
THEOREM EncodedOrderSafe == CSpec => []EncodedInOrder
  <1>1. StreamInv => EncodedInOrder
    BY DEF StreamInv
  <1> QED BY <1>1, StreamInvariant, PTL

(* HeaderIsTrue: the content size written at the beginning of a frame that *)
(* is finished is the number of bytes the frame holds.                     *)
THEOREM HeadersAreTrue == CSpec => []HeaderIsTrue
  <1>1. StreamInv => HeaderIsTrue
    BY DEF StreamInv, ItemsInv
  <1> QED BY <1>1, StreamInvariant, PTL

(* The tail of ascending numbers.                                          *)
LEMMA AscendingTail ==
    ASSUME NEW s \in Seq(Nat), NEW e \in Nat, Ascending(s, e), NEW f \in 0 .. Len(s)
    PROVE  SubSeq(s, f + 1, Len(s)) = Numbers(e - Len(s) + f + 1, e)
  <1> DEFINE n == Len(s)
             t == SubSeq(s, f + 1, n)
  <1>1. n \in Nat /\ f \in Nat /\ f <= n
    OBVIOUS
  <1>2. \A i \in f + 1 .. n : s[i] \in Nat /\ s[i] = e - n + i
    BY <1>1 DEF Ascending
  <1> HIDE DEF n
  <1>3. /\ t \in Seq(Nat) /\ Len(t) = IF f + 1 <= n THEN n - (f + 1) + 1 ELSE 0
        /\ \A i \in 1 .. n - (f + 1) + 1 : t[i] = s[(f + 1) + i - 1]
    <2> DEFINE b == f + 1
    <2>1. b \in Int /\ n \in Int /\ \A i \in b .. n : s[i] \in Nat
      BY <1>1, <1>2
    <2> HIDE DEF b
    <2>2. /\ SubSeq(s, b, n) \in Seq(Nat)
          /\ Len(SubSeq(s, b, n)) = IF b <= n THEN n - b + 1 ELSE 0
          /\ \A i \in 1 .. n - b + 1 : SubSeq(s, b, n)[i] = s[b + i - 1]
      BY <2>1, SubSeqProperties
    <2> QED BY <2>2 DEF b
  <1> HIDE DEF t
  <1>4. Len(t) = n - f
    BY <1>1, <1>3
  <1>5. ASSUME NEW i \in 1 .. Len(t)
        PROVE  t[i] = e - Len(t) + i
    <2>1. (f + 1) + i - 1 = f + i /\ f + i \in f + 1 .. n
      BY <1>1, <1>4
    <2>2. t[i] = s[f + i]
      BY SMTT(30), <1>1, <1>3, <1>4, <2>1
    <2>3. s[f + i] = e - n + (f + i)
      BY <1>2, <2>1
    <2> QED BY <1>1, <1>4, <2>2, <2>3
  <1>6. t = Numbers(e - Len(t) + 1, e)
    <2>1. Ascending(t, e)
      BY <1>5 DEF Ascending
    <2>2. \A u \in Seq(Nat) : Ascending(u, e) => u = Numbers(e - Len(u) + 1, e)
      BY AscendingNumbers
    <2> QED BY <1>3, <2>1, <2>2
  <1>7. e - Len(t) + 1 = e - n + f + 1
    BY <1>1, <1>4
  <1> QED BY <1>6, <1>7 DEF t, n

(* The step that reports the end of a frame.                               *)
LEMMA ClosingStep ==
    ASSUME StreamInv, [CNext]_allVars, pc \in {"loop", "enddrain"}, pc' = "idle", last
    PROVE  /\ coded' # <<>> /\ coded'[Len(coded')].fin /\ coded'[FrameStart'].begins
           /\ FrameBytes' = Numbers(opened + 1, base')
           /\ drained' = Numbers(1, emitted')
  <1>1. CInv /\ EncodedInOrder /\ ItemsInv /\ FrameInv /\ FrameTrue
    BY DEF StreamInv, FrameInv
  <1>2. CInv' /\ OutputInOrder'
    BY StepCInv, StepOutput DEF StreamInv
  <1>3. CompressChunkEnd \/ CompressEndDrain
    BY DEF CNext, Application, WrapperSteps, CompressStream2, InitStream, ResumeStream,
       Shortcut, LoadAndStop, CompressDirect, CompressToOutBuff, BlockReady, Flush,
       EncodeError, CodecFail, StreamReturn, CodecReturn, Working, InCodec, CompressChunk,
       ChunkBegin, CompressFill, Fill, CompressDrain, DrainBuffer, CompressDrainFail,
       DrainFail, Fail, CompressEnd, EndBegin, SetPledgedSrcSize, SetMaxBlockSize, Restart,
       Reset, allVars, vars
  <1>4. Start' = Start
    <2>1. ~ Restart
      BY DEF Restart, Reset
    <2>2. Takes \/ TakesNothing
      BY <1>1, <2>1, StepTakes
    <2> QED BY <1>1, <2>2, StartKept
  <1>5. streamStage = "init" /\ FramePending /\ base' = Start + Len(encoded)
    BY <1>1, <1>3, <1>4, ClosingFrame
  <1>6. UNCHANGED <<coded, encoded, streamStage>>
    BY <1>3 DEF CompressChunkEnd, CompressEndDrain, codecVars, cctxVars, sessionVars,
               historyVars
  <1>7. FrameStart' = FrameStart /\ FrameFrom' = FrameFrom /\ FrameBytes' = FrameBytes
    <2>1. FrameStart' = FrameStart /\ FrameFrom' = FrameFrom
      BY <1>1, <1>6, ItemsKept
    <2> QED BY <1>6, <2>1 DEF FrameBytes
  <1>8. ~ FrameOpen
    BY <1>5 DEF FrameOpen
  <1>9. /\ coded # <<>> /\ coded[Len(coded)].fin /\ coded[FrameStart].begins
        /\ FrameFrom \in 0 .. Len(encoded) /\ opened = Start + FrameFrom
    BY <1>1, <1>5, <1>8 DEF FrameTrue, ItemsInv
  <1>10. FrameBytes = Numbers(opened + 1, base')
    <2>1. encoded \in Seq(Nat) /\ EatenNow \in Nat /\ Taken = encoded
      BY <1>1, <1>5, SequenceTypes, TakenTypes, TakenWritten
    <2>2. Ascending(encoded, EatenNow)
      <3>1. encoded = Numbers(EatenNow - Len(encoded) + 1, EatenNow)
        BY <1>1, <2>1 DEF EncodedInOrder, Taken, Buffered
      <3> QED BY <2>1, <3>1, AscendingNumbers
    <2>3. FrameBytes = Numbers(EatenNow - Len(encoded) + FrameFrom + 1, EatenNow)
      BY <1>9, <2>1, <2>2, AscendingTail DEF FrameBytes
    <2>4. Start = EatenNow - Len(encoded) /\ Len(encoded) \in Nat
      BY <2>1 DEF Start
    <2>5. EatenNow = base'
      BY <1>5, <2>1, <2>4
    <2>6. EatenNow - Len(encoded) + FrameFrom + 1 = opened + 1
      BY <1>9, <2>1, <2>4
    <2> QED BY <2>3, <2>5, <2>6
  <1>11. drained' = Numbers(1, emitted')
    <2>1. drained' \in Seq(Nat) /\ dst' = <<>>
      BY <1>2 DEF CInv, CTypeOK, ControlInv
    <2>2. Unflushed' = <<>>
      BY <1>5, <1>6 DEF Unflushed
    <2>3. drained' \o <<>> = drained'
      BY <2>1, ConcatEmptySeq
    <2>4. Output' = (drained' \o <<>>) \o <<>>
      BY <2>1, <2>2 DEF Output
    <2>5. Output' = drained'
      BY <2>3, <2>4
    <2> QED BY <1>2, <2>5 DEF OutputInOrder, Output
  <1> QED BY <1>6, <1>7, <1>9, <1>10, <1>11

(* ClosesFrame: when a last compress_chunk or compress_end returns without *)
(* an error, the callback has every unit of a finished frame that holds    *)
(* exactly the bytes of the frame, in order.                               *)
THEOREM FramesAreClosed == CSpec => ClosesFrame
  <1>1. StreamInv /\ [CNext]_allVars =>
           [(pc \in {"loop", "enddrain"} /\ pc' = "idle" /\ last) =>
              /\ coded' # <<>> /\ coded'[Len(coded')].fin /\ coded'[FrameStart'].begins
              /\ FrameBytes' = Numbers(opened + 1, base')
              /\ drained' = Numbers(1, emitted')]_allVars
    BY ClosingStep
  <1> QED BY <1>1, StreamInvariant, PTL DEF CSpec, ClosesFrame

=============================================================================
