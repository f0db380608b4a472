----------------------- MODULE DecompressChunkProofs -----------------------
(***************************************************************************)
(* Proofs about DecompressChunk, for buffers, slices and streams of any    *)
(* size.  decompress_chunk is a caller of ZSTD_decompressStream that keeps *)
(* to its contract, so what DStreamProofs and DStreamFrameProofs prove     *)
(* about every such caller holds of the decoder inside the wrapper: P is   *)
(* those modules, with what the wrapper has seen consumed since the last   *)
(* reset as the position of the caller.                                    *)
(***************************************************************************)
EXTENDS DecompressChunk, StreamContextProofs

P == INSTANCE DStreamFrameProofs
        WITH pos <- eaten - origin, persists <- FALSE, Offers <- Nat, Rooms <- Nat

-----------------------------------------------------------------------------
(* The decoder of this module is the one of the instance.                  *)
LEMMA SameDecoder ==
    /\ DecompressStream <=> P!DecompressStream
    /\ SessionReset <=> P!SessionReset
    /\ DInit <=> P!DInit
    /\ \A a, r : Offer(a, r) <=> P!Offer(a, r)
    /\ Total = P!Total
    /\ \A n : UnitsThrough(n) = P!UnitsThrough(n) /\ BytesThrough(n) = P!BytesThrough(n)
    /\ dVars = P!dVars
BY DEF
        dVars, callIO, dctxVars, ringVars, sizeVars, placeVars,
        P!dVars, P!callIO, P!dctxVars, P!ringVars, P!sizeVars, P!placeVars,
        DecompressStream, SessionReset, DInit, Offer, Total, BytesThrough,
        StreamInit, LoadHeader, BadHeader, DecodeSinglePass, ConsumeHeader,
        RefuseWindow, ReadDirect, ReadEnd, ReadEmpty, ReadPart, LoadPart,
        LoadWhole, DecodeError, FlushOut, Finish, UnitsThrough, PrefixSums, FrameBytes, At,
        Smaller, HeaderNeed, HeaderIsBad, HeaderKnown, Consume, Larger,
        DError, SinglePass, F, FrameUnits, Bytes, Skippable,
        Duration, neededInBuffSize, neededOutBuffSize, NeededInSize,
        Damaged, Continue, LoadFits, ToLoadIn, Unknown, blockSizeMax, Idled,
        FinishFrame, FinishWithoutHostage, FinishUnflushed, FinishMiddle,
        BlockBytes, InStream, BlockUnits, Oversized, InBlock, B, ContentOf,
        LastBlock, DecodeBlockHeader, DecodeRaw, DecodePacked,
        CheckChecksum, SkipFrame, Flushed, Preload, Nothing, AfterBlock,
        Produce, FrameEnds, AfterLastBlock, WriteOut, Scribbled,
        P!DecompressStream, P!SessionReset, P!DInit, P!Offer, P!Total,
        P!BytesThrough, P!StreamInit, P!LoadHeader, P!BadHeader,
        P!DecodeSinglePass, P!ConsumeHeader, P!RefuseWindow, P!ReadDirect,
        P!ReadEnd, P!ReadEmpty, P!ReadPart, P!LoadPart, P!LoadWhole,
        P!DecodeError, P!FlushOut, P!Finish, P!UnitsThrough, P!PrefixSums, P!FrameBytes,
        P!At, P!Smaller, P!HeaderNeed, P!HeaderIsBad, P!HeaderKnown,
        P!Consume, P!Larger, P!DError, P!SinglePass, P!F,
        P!FrameUnits, P!Bytes, P!Skippable, P!Duration, P!neededInBuffSize,
        P!neededOutBuffSize, P!NeededInSize, P!Damaged, P!Continue,
        P!LoadFits, P!ToLoadIn, P!Unknown, P!blockSizeMax, P!Idled,
        P!FinishFrame, P!FinishWithoutHostage, P!FinishUnflushed,
        P!FinishMiddle, P!BlockBytes, P!InStream, P!BlockUnits, P!Oversized,
        P!InBlock, P!B, P!ContentOf, P!LastBlock, P!DecodeBlockHeader,
        P!DecodeRaw, P!DecodePacked, P!CheckChecksum, P!SkipFrame,
        P!Flushed, P!Preload, P!Nothing, P!AfterBlock, P!Produce,
        P!FrameEnds, P!AfterLastBlock, P!WriteOut, P!Scribbled

(* The streams of the instance are sequences of frames, as here.           *)
LEMMA SameStreams ==
    /\ Streams \subseteq Seq(P!FrameType)
    /\ \A s \in Streams : \A k \in 1 .. Len(s) : P!FrameOK(s[k])
<1>1. Streams \subseteq Seq(P!FrameType)
    BY StreamsAssumption
       DEF P!FrameType, FrameType, P!BlockType, BlockType, P!Unknown, Unknown
<1>2. \A s \in Streams : \A k \in 1 .. Len(s) : P!FrameOK(s[k])
    BY FramesAssumption
       DEF P!FrameOK, FrameOK, P!BlockOK, BlockOK, P!Unknown, Unknown, P!Smaller,
           Smaller, P!FrameBytes, FrameBytes, P!BlockBytes, BlockBytes,
           P!PrefixSums, PrefixSums
<1> QED
    BY <1>1, <1>2

(* The state of the decoder at the start, and after every step a caller    *)
(* may take.                                                               *)
LEMMA DecoderInit ==
    ASSUME P!CallerInit PROVE P!StreamInv /\ P!FrameInv
<1>1. P!StreamInv
    BY P!InitStreamInv, SameStreams, SizesAssumption
<1>2. P!FrameInv
    BY P!InitFrameInv, SameStreams, SizesAssumption
<1> QED
    BY <1>1, <1>2

(* Every step of a caller keeps them.                                      *)
LEMMA DecoderStep ==
    ASSUME P!StreamInv, P!FrameInv, [P!CallerNext]_P!callerVars
    PROVE  P!StreamInv' /\ P!FrameInv'
<1>1. P!StreamInv'
    BY P!NextStreamInv, SameStreams, SizesAssumption
<1>2. P!FrameInv'
    BY P!NextFrameInv, SameStreams, SizesAssumption
<1> QED
    BY <1>1, <1>2

(* What a call takes and makes is bounded by what it was offered.          *)
LEMMA DecoderSums ==
    ASSUME P!StreamInv, DecompressStream
    PROVE  /\ dpc \in {"work", "finish"}
           /\ dpc' \in {"work", "finish"} =>
                 taken' + iAvail' = taken + iAvail /\ made' + oRoom' = made + oRoom
           /\ dpc' = "out" => taken' <= taken + iAvail /\ made' <= made + oRoom
           /\ dpc' # "error" => taken' \in Int /\ made' \in Int
<1>1. P!DecompressStream
    BY SameDecoder
<1> QED
    BY <1>1, P!CallSums, SameStreams, SizesAssumption

(* The types of the variables of the decoder.                              *)
LEMMA DecoderTypes ==
    ASSUME P!StreamInv
    PROVE  /\ Frames \in Streams /\ Total \in Nat /\ eaten - origin <= Total
           /\ dpc \in {"out", "work", "finish", "error"}
           /\ iAvail \in Nat /\ oRoom \in Nat /\ taken \in Nat /\ made \in Nat
           /\ ret \in Nat
<1>1. Frames \in Streams /\ P!Typed /\ P!CallInv
    BY DEF P!StreamInv
<1>2. P!Total \in Nat
    BY <1>1, P!TotalIs, SameStreams, SizesAssumption
<1> QED
    BY <1>1, <1>2, SameDecoder DEF P!Typed, P!CallInv

-----------------------------------------------------------------------------
(* The wrapper around the decoder.                                         *)

(* The slices are cut from what the application has of the stream, and     *)
(* the last one ends it.                                                   *)
SliceInv ==
    /\ given \in Nat /\ origin \in Nat /\ given <= Total /\ origin <= base
    /\ pc # "failed" => HandedOver + src_len <= given
    /\ pc \in {"codec", "drain"} => src_len > 0
    /\ last /\ pc \in {"loop", "codec", "drain"} => HandedOver + src_len = given

(* The decoder runs between the two halves of an iteration and nowhere     *)
(* else, on what is in the buffers.                                        *)
OfferInv ==
    /\ pc \in {"idle", "loop", "codec", "drain", "failed"}
    /\ pc = "codec" => /\ dpc \in {"work", "finish"}
                       /\ taken + iAvail = in_size - in_pos
                       /\ made + oRoom = OutLen - out_pos
    /\ pc \in {"idle", "loop", "drain"} => dpc = "out"
    /\ pc = "failed" => dpc \in {"out", "error"}
    /\ pc \in {"idle", "loop", "codec"} => in_pos = 0 /\ out_pos = 0

(* The loop looks at the answer of the last call of the decoder, or at 0   *)
(* for an empty slice.                                                     *)
HintInv ==
    /\ pc = "drain" => res = ret
    /\ pc = "loop" /\ rest_len < src_len => res = ret
    /\ pc = "loop" /\ src_len = 0 => res = 0

WrapInv == BoundsInv /\ NothingLost /\ SliceInv /\ OfferInv /\ HintInv
ChunkInv == WrapInv /\ P!StreamInv /\ P!FrameInv

(* What the steps may use of the types.                                    *)
LEMMA WrapTypes ==
    ASSUME ChunkInv
    PROVE  /\ in_size \in Nat /\ in_pos \in Nat /\ out_pos \in Nat
           /\ src_len \in Nat /\ pos \in Nat /\ rest_len \in Nat
           /\ base \in Nat /\ eaten \in Nat /\ given \in Nat /\ origin \in Nat
           /\ in_pos <= in_size /\ in_size <= InLen /\ out_pos <= OutLen
           /\ InLen \in Nat /\ OutLen \in Nat /\ OutLen > 0 /\ InLen > 0
           /\ Frames \in Streams /\ Total \in Nat /\ eaten - origin <= Total
           /\ iAvail \in Nat /\ oRoom \in Nat /\ taken \in Nat /\ made \in Nat
           /\ ret \in Nat /\ dpc \in {"out", "work", "finish", "error"}
<1>1. TypeOK /\ BuffersInBounds /\ SliceInv
    BY DEF ChunkInv, WrapInv, BoundsInv
<1>2. InLen \in Nat /\ OutLen \in Nat /\ OutLen > 0 /\ InLen > 0
    BY InLenAssumption, OutLenAssumption
<1>3. /\ Frames \in Streams /\ Total \in Nat /\ eaten - origin <= Total
      /\ iAvail \in Nat /\ oRoom \in Nat /\ taken \in Nat /\ made \in Nat
      /\ ret \in Nat /\ dpc \in {"out", "work", "finish", "error"}
    BY DecoderTypes DEF ChunkInv
<1> QED
    BY <1>1, <1>2, <1>3 DEF TypeOK, BuffersInBounds, SliceInv

(* A new pair of contexts.                                                 *)
LEMMA InitChunkInv ==
    ASSUME DCInit PROVE ChunkInv
<1>1. P!CallerInit
  <2>1. P!DInit /\ eaten = 0 /\ origin = 0
      BY SameDecoder DEF DCInit, Init
  <2> QED
      BY <2>1 DEF P!CallerInit
<1>2. P!StreamInv /\ P!FrameInv
    BY <1>1, DecoderInit
<1>3. Total \in Nat
    BY <1>2, DecoderTypes
<1>4. BoundsInv /\ NothingLost
    BY InitBounds DEF DCInit, Init, NothingLost
<1>5. /\ origin = 0 /\ base = 0 /\ src_len = 0 /\ pc = "idle" /\ result = "none"
      /\ in_pos = 0 /\ out_pos = 0 /\ dpc = "out"
    BY DEF DCInit, Init, DInit
<1>6. given \in Nat /\ given <= Total
  <2>1. PICK m \in Missing : given = Larger(0, Total - m)
      BY DEF DCInit
  <2>2. m \in Nat
      BY MissingAssumption
  <2> QED
      BY <1>3, <2>1, <2>2 DEF Larger
<1>7. SliceInv
    BY <1>5, <1>6 DEF SliceInv, HandedOver
<1>8. OfferInv /\ HintInv
    BY <1>5 DEF OfferInv, HintInv
<1> QED
    BY <1>2, <1>4, <1>7, <1>8 DEF ChunkInv, WrapInv

(* One iteration of the loop offers the decoder what waits in input.src,   *)
(* which is no more than the rest of the stream, and what is free in       *)
(* output.dst.                                                             *)
LEMMA FillIsCall ==
    ASSUME ChunkInv, DecompressFill
    PROVE  /\ \E a \in Nat, r \in Nat : P!Call(a, r)
           /\ iAvail' = in_size' - in_pos /\ iAvail' \in Nat \ {0}
           /\ oRoom' = OutLen - out_pos /\ oRoom' \in Nat \ {0}
           /\ taken' = 0 /\ made' = 0 /\ dpc' = "work"
           /\ P!Offer(iAvail', oRoom')
<1> DEFINE a == in_size' - in_pos
           r == OutLen - out_pos
<1>1. /\ Fill /\ Offer(a, r) /\ UNCHANGED <<given, origin>>
      /\ in_size' = in_size + FillLen /\ rest_len' = rest_len - FillLen
      /\ pc = "loop" /\ rest_len > 0 /\ eaten' = eaten
    BY DEF DecompressFill, Fill
<1>2. FillLen \in Nat /\ FillLen <= rest_len /\ (in_size < InLen => FillLen > 0)
    BY <1>1, WrapTypes DEF FillLen, max_len, LeastOf
<1>3. in_pos = 0 /\ out_pos = 0
    BY <1>1 DEF ChunkInv, WrapInv, OfferInv
<1>4. eaten + (in_size - in_pos) + rest_len = base + src_len
    BY <1>1 DEF ChunkInv, WrapInv, NothingLost
<1>5. base - origin + src_len <= given /\ given <= Total
    BY <1>1 DEF ChunkInv, WrapInv, SliceInv, HandedOver
<1>6. a \in Nat /\ a > 0
    BY <1>1, <1>2, <1>3, WrapTypes
<1>7. r \in Nat /\ r > 0
    BY <1>3, WrapTypes
<1>8. a <= Total - (eaten - origin) /\ Total - (eaten - origin) \in Nat
    BY <1>1, <1>2, <1>4, <1>5, WrapTypes
<1>9. P!Smaller(a, Total - (eaten - origin)) = a
    BY <1>6, <1>8 DEF P!Smaller
<1>10. /\ iAvail' = a /\ oRoom' = r /\ taken' = 0 /\ made' = 0 /\ dpc' = "work"
    BY <1>1 DEF Offer
<1>11. P!Offer(a, r)
    BY <1>1, SameDecoder
<1> HIDE DEF a, r
<1>12. P!Call(a, r)
    BY <1>1, <1>9, <1>11, SameDecoder DEF P!Call
<1> QED
    BY <1>6, <1>7, <1>10, <1>11, <1>12 DEF a, r

(* What a step of ZSTD_decompressStream is for the wrapper: it goes on, or *)
(* returns within the contract of the buffers, or fails.                   *)
LEMMA StepIsLibrary ==
    ASSUME ChunkInv, DecompressStep
    PROVE  /\ P!Library /\ UNCHANGED <<given, origin>>
           /\ \/ dpc' \in {"work", "finish"} /\ UNCHANGED vars
                 /\ taken' + iAvail' = in_size - in_pos
                 /\ made' + oRoom' = OutLen - out_pos
              \/ /\ dpc' = "out"
                 /\ \E ip \in in_pos .. in_size, op \in out_pos .. OutLen :
                       CodecReturn(ip, op, ret')
              \/ dpc' = "error" /\ CodecFail(in_pos, out_pos)
<1>1. pc = "codec" /\ DecompressStream /\ UNCHANGED <<given, origin>>
    BY DEF DecompressStep
<1>2. in_pos = 0 /\ out_pos = 0 /\ taken + iAvail = in_size - in_pos
      /\ made + oRoom = OutLen - out_pos
    BY <1>1 DEF ChunkInv, WrapInv, OfferInv
<1>3. /\ dpc' \in {"work", "finish"} =>
            taken' + iAvail' = taken + iAvail /\ made' + oRoom' = made + oRoom
      /\ dpc' = "out" => taken' <= taken + iAvail /\ made' <= made + oRoom
      /\ dpc' # "error" => taken' \in Int /\ made' \in Int
    BY <1>1, DecoderSums DEF ChunkInv
<1>4. P!DecompressStream
    BY <1>1, SameDecoder
<1>5. CASE dpc' = "out" /\ CodecReturn(in_pos + taken', out_pos + made', ret')
  <2>1. eaten' = eaten + ((in_pos + taken') - in_pos)
      BY <1>5 DEF CodecReturn
  <2>2. eaten' - origin' = eaten - origin + taken'
      BY <1>1, <1>3, <1>5, <2>1, WrapTypes
  <2>3. P!Library
      BY <1>4, <1>5, <2>2 DEF P!Library
  <2>4. P!StreamInv'
    <3>1. [P!CallerNext]_P!callerVars
        BY <2>3 DEF P!CallerNext
    <3> QED
        BY <3>1, DecoderStep DEF ChunkInv
  <2>5. taken' \in Nat /\ made' \in Nat
      BY <2>4 DEF P!StreamInv, P!Typed
  <2>6. in_pos + taken' \in in_pos .. in_size /\ out_pos + made' \in out_pos .. OutLen
    <3>1. taken' <= in_size - in_pos /\ made' <= OutLen - out_pos
        BY <1>2, <1>3, <1>5
    <3> QED
        BY <2>5, <3>1, WrapTypes
  <2> QED
      BY <1>1, <1>5, <2>3, <2>6
<1>6. CASE dpc' = "error" /\ CodecFail(in_pos, out_pos)
  <2>1. eaten' - origin' = eaten - origin
      BY <1>1, <1>6 DEF CodecFail
  <2>2. P!Library
      BY <1>4, <1>6, <2>1 DEF P!Library
  <2> QED
      BY <1>1, <1>6, <2>2
<1>7. CASE dpc' \in {"work", "finish"} /\ UNCHANGED vars
  <2>1. eaten' - origin' = eaten - origin
      BY <1>1, <1>7 DEF vars
  <2>2. P!Library
      BY <1>4, <1>7, <2>1 DEF P!Library
  <2> QED
      BY <1>1, <1>2, <1>3, <1>7, <2>2
<1> QED
    BY <1>5, <1>6, <1>7 DEF DecompressStep

(* Every step is one of the wrapper around some codec, and one of a caller *)
(* that keeps to the contract of ZSTD_decompressStream.                    *)
LEMMA StepIsBoth ==
    ASSUME ChunkInv, [DCNext]_dcVars
    PROVE  [HintNext]_vars /\ [P!CallerNext]_P!callerVars
<1>1. ASSUME UNCHANGED dVars, UNCHANGED <<eaten, origin>> PROVE UNCHANGED P!callerVars
    BY <1>1 DEF P!callerVars, dVars, callIO, dctxVars, ringVars, sizeVars, placeVars,
                P!dVars, P!callIO, P!dctxVars, P!ringVars, P!sizeVars, P!placeVars
<1>2. ASSUME NEW n \in ChunkLens, NEW l \in BOOLEAN, DecompressChunk(n, l)
      PROVE  [HintNext]_vars /\ [P!CallerNext]_P!callerVars
  <2>1. HintNext
      BY <1>2 DEF HintNext, Wrapper, DecompressChunk
  <2>2. UNCHANGED dVars /\ UNCHANGED <<eaten, origin>>
      BY <1>2 DEF DecompressChunk, ChunkBegin
  <2> QED
      BY <1>1, <2>1, <2>2
<1>3. CASE DecompressFill
  <2>1. Fill
      BY <1>3 DEF DecompressFill
  <2>2. P!CallerNext
      BY <1>3, FillIsCall DEF P!CallerNext
  <2> QED
      BY <2>1, <2>2 DEF HintNext, Wrapper
<1>4. CASE DecompressStep
  <2>1. P!CallerNext
      BY <1>4, StepIsLibrary DEF P!CallerNext
  <2>2. P!StreamInv'
      BY <2>1, DecoderStep DEF ChunkInv
  <2>3. ret' \in Nat
      BY <2>2 DEF P!StreamInv, P!Typed
  <2>4. in_pos \in in_pos .. in_size /\ out_pos \in out_pos .. OutLen
      BY WrapTypes
  <2>5. [HintNext]_vars
      BY <1>4, <2>3, <2>4, StepIsLibrary DEF HintNext, HintingCodec, CodecError
  <2> QED
      BY <2>1, <2>5
<1>5. CASE DecompressDrain \/ DecompressDrainFail \/ DecompressChunkEnd
  <2>1. HintNext
      BY <1>5 DEF DecompressDrain, DecompressDrainFail, DecompressChunkEnd, HintNext,
                  Wrapper
  <2>2. UNCHANGED dVars /\ UNCHANGED <<eaten, origin>>
      BY <1>5 DEF DecompressDrain, DecompressDrainFail, DecompressChunkEnd, DrainBuffer,
                  DrainFail, ChunkEnd
  <2> QED
      BY <1>1, <2>1, <2>2
<1>6. CASE DecompressRestart
  <2>1. Reset /\ P!SessionReset /\ eaten' = base /\ origin' = base
      BY <1>6, SameDecoder DEF DecompressRestart, Reset
  <2>2. eaten' - origin' = 0
      BY <2>1, WrapTypes
  <2>3. P!ResetSession
      BY <2>1, <2>2 DEF P!ResetSession
  <2> QED
      BY <2>1, <2>3 DEF HintNext, Wrapper, P!CallerNext
<1>7. CASE UNCHANGED dcVars
    BY <1>1, <1>7 DEF dcVars, vars
<1> QED
    BY <1>2, <1>3, <1>4, <1>5, <1>6, <1>7 DEF DCNext, DCSteps

-----------------------------------------------------------------------------
(* The steps one by one.                                                   *)

(* The slices stay within what the application has.                        *)
LEMMA StepSlice ==
    ASSUME ChunkInv, [DCNext]_dcVars PROVE SliceInv'
<1>1. /\ given \in Nat /\ origin \in Nat /\ given <= Total /\ origin <= base
      /\ pc # "failed" => base - origin + src_len <= given
      /\ pc \in {"codec", "drain"} => src_len > 0
      /\ last /\ pc \in {"loop", "codec", "drain"} => base - origin + src_len = given
    BY DEF ChunkInv, WrapInv, SliceInv, HandedOver
<1>2. Total' = Total /\ given' = given
  <2>1. Frames' = Frames /\ given' = given
      BY DEF DCNext, DCSteps, DecompressChunk, DecompressFill, Offer, DecompressStep,
             DecompressStream, DecompressDrain, DecompressDrainFail, DecompressChunkEnd,
             DecompressRestart, SessionReset, dcVars, dVars
  <2> QED
      BY <2>1 DEF Total, UnitsThrough
<1>3. /\ base \in Nat /\ src_len \in Nat
      /\ pc \in {"idle", "failed"} => src_len = 0
    BY WrapTypes DEF ChunkInv, WrapInv, BoundsInv, LoopInv
<1>4. ASSUME UNCHANGED <<origin, base, src_len, last, result>>,
             pc \in {"loop", "codec", "drain"}, pc' \in {"loop", "codec", "drain"},
             pc' = "loop" \/ src_len > 0
      PROVE  SliceInv'
    BY <1>1, <1>2, <1>4 DEF SliceInv, HandedOver
<1>5. ASSUME NEW n \in ChunkLens, NEW l \in BOOLEAN, DecompressChunk(n, l)
      PROVE  SliceInv'
  <2>1. /\ pc = "idle" /\ pc' = "loop" /\ src_len' = n /\ last' = l
        /\ HandedOver + n <= given /\ (l => HandedOver + n = given)
        /\ UNCHANGED <<origin, base>>
      BY <1>5 DEF DecompressChunk, ChunkBegin
  <2> QED
      BY <1>1, <1>2, <2>1 DEF SliceInv, HandedOver
<1>6. CASE DecompressFill
  <2>1. /\ pc = "loop" /\ pc' = "codec"
        /\ UNCHANGED <<origin, base, src_len, last, result>> /\ rest_len > 0
      BY <1>6 DEF DecompressFill, Fill
  <2>2. src_len > 0
      BY <1>3, <2>1, WrapTypes DEF ChunkInv, WrapInv, BoundsInv, LoopInv
  <2> QED
      BY <1>4, <2>1, <2>2
<1>7. ASSUME NEW why, why # "ok", Fail(why), UNCHANGED origin
      PROVE  SliceInv'
  <2>1. pc' = "failed" /\ base' = base + src_len
      BY <1>7 DEF Fail
  <2> QED
      BY <1>1, <1>2, <1>3, <1>7, <2>1 DEF SliceInv
<1>8. CASE DecompressStep
  <2>1. pc = "codec" /\ UNCHANGED origin
      BY <1>8 DEF DecompressStep
  <2>2. CASE UNCHANGED vars
      BY <1>1, <1>4, <2>1, <2>2 DEF vars
  <2>3. ASSUME NEW ip, NEW op, CodecReturn(ip, op, ret') PROVE SliceInv'
    <3>1. pc' = "drain" /\ UNCHANGED <<base, src_len, last, result>>
        BY <2>1, <2>3 DEF CodecReturn
    <3> QED
        BY <1>1, <1>4, <2>1, <3>1
  <2>4. CASE CodecFail(in_pos, out_pos)
      BY <1>7, <2>1, <2>4 DEF CodecFail
  <2> QED
      BY <1>8, <2>2, <2>3, <2>4, StepIsLibrary
<1>9. CASE DecompressDrain
  <2>1. /\ pc = "drain" /\ pc' = "loop"
        /\ UNCHANGED <<origin, base, src_len, last, result>>
      BY <1>9 DEF DecompressDrain, DrainBuffer, callVars
  <2> QED
      BY <1>4, <2>1
<1>10. CASE DecompressDrainFail
    BY <1>7, <1>10 DEF DecompressDrainFail, DrainFail
<1>11. CASE DecompressChunkEnd
  <2>1. pc = "loop" /\ UNCHANGED <<last, origin>>
      BY <1>11 DEF DecompressChunkEnd, ChunkEnd
  <2>2. CASE Fail("unfinished")
      BY <1>7, <2>1, <2>2
  <2>3. CASE pc' = "idle" /\ base' = base + src_len /\ src_len' = 0
    <3>1. base' - origin' + src_len' = base - origin + src_len
        BY <1>1, <1>3, <2>1, <2>3
    <3> QED
        BY <1>1, <1>2, <1>3, <2>1, <2>3, <3>1 DEF SliceInv, HandedOver
  <2> QED
      BY <1>11, <2>2, <2>3 DEF DecompressChunkEnd, ChunkEnd
<1>12. CASE DecompressRestart
  <2>1. /\ pc \in {"idle", "failed"} /\ pc' = "idle" /\ result' = "none"
        /\ origin' = base /\ base' = base /\ src_len' = src_len
      BY <1>12 DEF DecompressRestart, Reset
  <2>2. base' - origin' + src_len' = 0
      BY <1>3, <2>1
  <2> QED
      BY <1>1, <1>2, <1>3, <2>1, <2>2 DEF SliceInv, HandedOver
<1>13. CASE UNCHANGED dcVars
    BY <1>1, <1>2, <1>13 DEF dcVars, vars, SliceInv, HandedOver
<1> QED
    BY <1>5, <1>6, <1>8, <1>9, <1>10, <1>11, <1>12, <1>13 DEF DCNext, DCSteps

(* The decoder runs in the middle of an iteration only.                    *)
LEMMA StepOffer ==
    ASSUME ChunkInv, [DCNext]_dcVars PROVE OfferInv'
<1>1. OfferInv
    BY DEF ChunkInv, WrapInv
<1>2. ASSUME NEW n \in ChunkLens, NEW l \in BOOLEAN, DecompressChunk(n, l)
      PROVE  OfferInv'
    BY <1>1, <1>2 DEF DecompressChunk, ChunkBegin, OfferInv, dVars
<1>3. CASE DecompressFill
  <2>1. /\ pc = "loop" /\ pc' = "codec" /\ UNCHANGED <<in_pos, out_pos>>
      BY <1>3 DEF DecompressFill, Fill
  <2>2. /\ iAvail' = in_size' - in_pos /\ iAvail' \in Nat
        /\ oRoom' = OutLen - out_pos /\ oRoom' \in Nat
        /\ taken' = 0 /\ made' = 0 /\ dpc' = "work"
      BY <1>3, FillIsCall
  <2>3. taken' + iAvail' = in_size' - in_pos' /\ made' + oRoom' = OutLen - out_pos'
      BY <2>1, <2>2
  <2> QED
      BY <1>1, <2>1, <2>2, <2>3 DEF OfferInv
<1>4. CASE DecompressStep
  <2>1. pc = "codec" /\ in_pos = 0 /\ out_pos = 0
      BY <1>1, <1>4 DEF DecompressStep, OfferInv
  <2>2. CASE /\ dpc' \in {"work", "finish"} /\ UNCHANGED vars
             /\ taken' + iAvail' = in_size - in_pos /\ made' + oRoom' = OutLen - out_pos
      BY <2>1, <2>2 DEF OfferInv, vars
  <2>3. ASSUME dpc' = "out", NEW ip, NEW op, CodecReturn(ip, op, ret') PROVE OfferInv'
      BY <2>1, <2>3 DEF CodecReturn, OfferInv
  <2>4. CASE dpc' = "error" /\ CodecFail(in_pos, out_pos)
      BY <2>4 DEF CodecFail, Fail, OfferInv
  <2> QED
      BY <1>4, <2>2, <2>3, <2>4, StepIsLibrary
<1>5. CASE DecompressDrain
    BY <1>1, <1>5 DEF DecompressDrain, DrainBuffer, Compact, dVars, OfferInv
<1>6. CASE DecompressDrainFail
    BY <1>1, <1>6 DEF DecompressDrainFail, DrainFail, Fail, dVars, OfferInv
<1>7. CASE DecompressChunkEnd
    BY <1>1, <1>7 DEF DecompressChunkEnd, ChunkEnd, Fail, bufVars, dVars, OfferInv
<1>8. CASE DecompressRestart
    BY <1>1, <1>8 DEF DecompressRestart, Reset, SessionReset, OfferInv
<1>9. CASE UNCHANGED dcVars
    BY <1>1, <1>9 DEF dcVars, vars, dVars, callIO, OfferInv
<1> QED
    BY <1>2, <1>3, <1>4, <1>5, <1>6, <1>7, <1>8, <1>9 DEF DCNext, DCSteps

(* What the loop looks at at its end is the answer of its last call.       *)
LEMMA StepHint ==
    ASSUME ChunkInv, [DCNext]_dcVars PROVE HintInv'
<1>1. HintInv /\ OfferInv /\ rest_len <= src_len
    BY DEF ChunkInv, WrapInv, BoundsInv, LoopInv
<1>2. ASSUME NEW n \in ChunkLens, NEW l \in BOOLEAN, DecompressChunk(n, l)
      PROVE  HintInv'
  <2>1. pc' = "loop" /\ rest_len' = n /\ src_len' = n /\ res' = 0
      BY <1>2 DEF DecompressChunk, ChunkBegin
  <2>2. ~ (n < n)
      BY ChunkLensAssumption
  <2> QED
      BY <2>1, <2>2 DEF HintInv
<1>3. CASE DecompressFill
    BY <1>3 DEF DecompressFill, Fill, HintInv
<1>4. CASE DecompressStep
  <2>1. pc = "codec"
      BY <1>4 DEF DecompressStep
  <2>2. CASE UNCHANGED vars
      BY <2>1, <2>2 DEF HintInv, vars
  <2>3. ASSUME NEW ip, NEW op, CodecReturn(ip, op, ret') PROVE HintInv'
      BY <2>1, <2>3 DEF CodecReturn, HintInv
  <2>4. CASE CodecFail(in_pos, out_pos)
      BY <2>4 DEF CodecFail, Fail, HintInv
  <2> QED
      BY <1>4, <2>2, <2>3, <2>4, StepIsLibrary
<1>5. CASE DecompressDrain
  <2>1. pc = "drain" /\ src_len > 0 /\ pc' = "loop" /\ UNCHANGED <<res, ret, src_len>>
      BY <1>5 DEF DecompressDrain, DrainBuffer, callVars, dVars, ChunkInv, WrapInv,
                  SliceInv
  <2> QED
      BY <1>1, <2>1, WrapTypes DEF HintInv
<1>6. CASE DecompressDrainFail
    BY <1>6 DEF DecompressDrainFail, DrainFail, Fail, HintInv
<1>7. CASE DecompressChunkEnd
    BY <1>7 DEF DecompressChunkEnd, ChunkEnd, Fail, HintInv
<1>8. CASE DecompressRestart
    BY <1>8 DEF DecompressRestart, Reset, HintInv
<1>9. CASE UNCHANGED dcVars
    BY <1>1, <1>9 DEF dcVars, vars, dVars, HintInv
<1> QED
    BY <1>2, <1>3, <1>4, <1>5, <1>6, <1>7, <1>8, <1>9 DEF DCNext, DCSteps

(* Every step keeps the invariant.                                         *)
LEMMA NextChunkInv ==
    ASSUME ChunkInv, [DCNext]_dcVars PROVE ChunkInv'
<1>1. BoundsInv' /\ NothingLost'
    BY StepIsBoth, StepBounds, StepNothingLost DEF ChunkInv, WrapInv
<1>2. P!StreamInv' /\ P!FrameInv'
    BY StepIsBoth, DecoderStep DEF ChunkInv
<1> QED
    BY <1>1, <1>2, StepSlice, StepOffer, StepHint DEF ChunkInv, WrapInv

-----------------------------------------------------------------------------
(* What holds of decompress_chunk in every state.                          *)
THEOREM DecompressChunkInvariant == DCSpec => []ChunkInv
<1>1. DCInit => ChunkInv
    BY InitChunkInv
<1>2. ChunkInv /\ [DCNext]_dcVars => ChunkInv'
    BY NextChunkInv
<1> QED
    BY <1>1, <1>2, PTL DEF DCSpec

(* No cursor leaves its buffer, and the copy of the loop neither: what     *)
(* ZSTD_decompressStream reports as consumed and produced, with the byte   *)
(* it keeps back, is never more than the wrapper offered.                  *)
THEOREM DecompressBoundsSafe == DCSpec => [](BuffersInBounds /\ CopyInBounds)
<1>1. ChunkInv => BuffersInBounds /\ CopyInBounds
    BY FillFits DEF ChunkInv, WrapInv, BoundsInv, CopyInBounds
<1> QED
    BY <1>1, DecompressChunkInvariant, PTL

(* When a last decompress_chunk with a slice that is not empty succeeds,   *)
(* the stream ended with a frame, and the callback has received the        *)
(* content of all its frames: no truncated stream is taken for a whole     *)
(* one.  An empty last slice is left out: for it the code does not look at *)
(* any answer of the decoder.                                              *)
THEOREM SuccessIsCompleteSafe == DCSpec => SuccessIsComplete
<1>1. ChunkInv /\ [DCNext]_dcVars => [LastCallSucceeds /\ src_len > 0 => Complete']_dcVars
  <2> SUFFICES ASSUME ChunkInv, DCNext, LastCallSucceeds, src_len > 0
               PROVE  Complete'
      BY DEF LastCallSucceeds, dcVars, vars
  <2>9. ChunkEnd /\ UNCHANGED <<dVars, given, origin>>
      BY DEF LastCallSucceeds, DCNext, DCSteps, DecompressChunk, ChunkBegin, DecompressFill,
             Fill, DecompressStep, DecompressDrain, DrainBuffer, DecompressDrainFail,
             DrainFail, DecompressChunkEnd, DecompressRestart, Reset
  <2>10. /\ pc = "loop" /\ last /\ rest_len = 0 /\ res = 0 /\ in_pos = in_size
         /\ out_pos' = out_pos
      BY <2>9 DEF LastCallSucceeds, ChunkEnd, Fail, bufVars
  <2>11. Complete' <=> Complete
      BY <2>9, <2>10 DEF Complete, UnitsThrough, BytesThrough, dVars
  <2>1. /\ dpc = "out" /\ in_pos = 0 /\ out_pos = 0 /\ ret = 0 /\ in_size = 0
    <3>1. /\ dpc = "out" /\ in_pos = 0 /\ out_pos = 0
        BY <2>10 DEF ChunkInv, WrapInv, OfferInv
    <3>2. ret = 0
        BY <2>10, WrapTypes DEF ChunkInv, WrapInv, HintInv
    <3> QED
        BY <2>10, <3>1, <3>2
  <2>2. eaten - origin = given
    <3>1. eaten + (in_size - in_pos) + rest_len = base + src_len
        BY <2>10 DEF ChunkInv, WrapInv, NothingLost
    <3>2. base - origin + src_len = given
        BY <2>10 DEF ChunkInv, WrapInv, SliceInv, HandedOver
    <3> QED
        BY <2>1, <2>10, <3>1, <3>2, WrapTypes
  <2>3. P!UnitsInv /\ P!BytesInv /\ P!AnswerInv /\ P!FlushInv /\ P!PlaceInv /\ P!Typed
      BY DEF ChunkInv, P!StreamInv, P!FrameInv
  <2>4. zStage = "init"
      BY <2>1, <2>3 DEF P!AnswerInv
  <2>5. ~ P!Ring
      BY <2>1, <2>4 DEF P!Ring, P!Reading
  <2>6. frame \in 0 .. Len(Frames)
    <3>1. Frames \in Streams
        BY WrapTypes
    <3>2. Len(Frames) \in Nat
        BY <3>1, P!TotalIs, SameStreams, SizesAssumption
    <3> QED
        BY <2>3, <2>4, <3>2 DEF P!Typed, P!PlaceInv
  <2>7. given = UnitsThrough(frame)
    <3>1. P!Used = P!UnitsThrough(frame)
        BY <2>1, <2>3, <2>4 DEF P!UnitsInv
    <3>2. P!Used = (eaten - origin) + 0 + 0
        BY <2>1, <2>5 DEF P!Used
    <3>3. P!Used = given
        BY <2>2, <3>2, WrapTypes
    <3> QED
        BY <3>1, <3>3, SameDecoder
  <2>8. delivered = Bytes(0, BytesThrough(frame))
    <3>1. delivered = P!Bytes(0, Len(delivered))
        BY <2>3 DEF P!FlushInv
    <3>2. decoded = Len(delivered) + 0
        BY <2>3, <2>4 DEF P!FlushInv
    <3>3. decoded = P!BytesThrough(frame)
        BY <2>3, <2>4 DEF P!BytesInv
    <3>4. Len(delivered) \in Nat
        BY DEF ChunkInv, P!StreamInv, P!Buffers
    <3>5. Len(delivered) = BytesThrough(frame)
        BY <3>2, <3>3, <3>4, SameDecoder
    <3> QED
        BY <3>1, <3>5 DEF Bytes, P!Bytes
  <2> QED
      BY <2>1, <2>6, <2>7, <2>8, <2>11 DEF Complete
<1> QED
    BY <1>1, DecompressChunkInvariant, PTL DEF DCSpec, SuccessIsComplete

-----------------------------------------------------------------------------
(* A sound stream is accepted.                                             *)
Flawed == \E n \in 1 .. Len(Frames) : Frames[n].flaw # "none"

(* The wrapper never calls without input or without room, so each call     *)
(* makes progress, and only a flaw can make one fail.                      *)
SoundInv ==
    /\ dpc = "error" \/ P!ProgressInv
    /\ dpc = "error" \/ result = "codec_error" => Flawed

(* Every step keeps it.                                                    *)
LEMMA NextSoundInv ==
    ASSUME ChunkInv, SoundInv, [DCNext]_dcVars, NoProgressMax > 0 PROVE SoundInv'
<1>1. Flawed' = Flawed
  <2>1. Frames' = Frames
      BY DEF DCNext, DCSteps, DecompressChunk, DecompressFill, Offer, DecompressStep,
             DecompressStream, DecompressDrain, DecompressDrainFail, DecompressChunkEnd,
             DecompressRestart, SessionReset, dcVars, dVars
  <2> QED
      BY <2>1 DEF Flawed
<1>2. ASSUME UNCHANGED dVars, result' \in {result, "ok", "unfinished", "drain_error"}
      PROVE  SoundInv'
  <2>1. P!ProgressInv' = P!ProgressInv /\ dpc' = dpc
      BY <1>2 DEF P!ProgressInv, dVars, callIO, dctxVars, ringVars, placeVars,
                  P!HeaderNeed, P!InStream, P!F
  <2> QED
      BY <1>1, <1>2, <2>1 DEF SoundInv
<1>3. ASSUME NEW n \in ChunkLens, NEW l \in BOOLEAN, DecompressChunk(n, l)
      PROVE  SoundInv'
    BY <1>2, <1>3 DEF DecompressChunk, ChunkBegin
<1>4. CASE DecompressFill
  <2>1. P!ProgressInv
      BY <1>4 DEF SoundInv, DecompressFill, Offer
  <2>2. /\ P!Offer(iAvail', oRoom') /\ iAvail' \in Nat \ {0} /\ oRoom' \in Nat \ {0}
        /\ dpc' = "work"
      BY <1>4, FillIsCall
  <2>3. P!ProgressInv'
      BY <2>1, <2>2, P!ProgressOffer, SameStreams, SizesAssumption DEF ChunkInv
  <2>4. result' = result
      BY <1>4 DEF DecompressFill, Fill
  <2> QED
      BY <1>1, <2>2, <2>3, <2>4 DEF SoundInv
<1>5. CASE DecompressStep
  <2>1. P!DecompressStream /\ dpc # "error" /\ pc = "codec"
      BY <1>5, SameDecoder, DecoderSums DEF DecompressStep, ChunkInv
  <2>2. P!ProgressInv' \/ (dpc' = "error" /\ noForwardProgress' = 0)
      BY <2>1, P!ProgressStep, SameStreams, SizesAssumption DEF ChunkInv, SoundInv
  <2>3. dpc' = "error" => Flawed
    <3>1. noForwardProgress' = 0
        BY <2>2 DEF P!ProgressInv
    <3>2. P!FailsOnlyForCause'
        BY NextChunkInv DEF ChunkInv, P!FrameInv
    <3>3. ~ (noForwardProgress' >= NoProgressMax)
        BY <3>1, SizesAssumption
    <3>4. dpc' = "error" => (P!InStream /\ P!F.flaw # "none")'
        BY <3>2, <3>3 DEF P!FailsOnlyForCause
    <3>5. (P!InStream /\ P!F.flaw # "none")' => Flawed'
        BY DEF P!InStream, P!F, Flawed
    <3> QED
        BY <1>1, <3>4, <3>5
  <2>4. result' = "codec_error" => dpc' = "error" \/ result = "codec_error"
      BY <1>5, StepIsLibrary DEF CodecReturn, vars
  <2> QED
      BY <1>1, <2>2, <2>3, <2>4 DEF SoundInv
<1>6. CASE DecompressDrain \/ DecompressDrainFail \/ DecompressChunkEnd
  <2>1. UNCHANGED dVars /\ result' \in {result, "ok", "unfinished", "drain_error"}
      BY <1>6 DEF DecompressDrain, DecompressDrainFail, DecompressChunkEnd, DrainBuffer,
                  DrainFail, ChunkEnd, Fail
  <2> QED
      BY <1>2, <2>1
<1>7. CASE DecompressRestart
  <2>1. /\ dpc' = "out" /\ zStage' = "init" /\ noForwardProgress' = 0
        /\ result' = "none"
      BY <1>7 DEF DecompressRestart, SessionReset, Reset
  <2> QED
      BY <2>1 DEF SoundInv, P!ProgressInv
<1>8. CASE UNCHANGED dcVars
    BY <1>2, <1>8 DEF dcVars, vars
<1> QED
    BY <1>3, <1>4, <1>5, <1>6, <1>7, <1>8 DEF DCNext, DCSteps

(* A sound stream does not make the decoder fail, however it is sliced:    *)
(* the wrapper never runs into the limit of calls without progress, which  *)
(* is positive.                                                            *)
THEOREM SoundIsAcceptedSafe ==
    NoProgressMax > 0 => (DCSpec => []SoundIsAccepted)
<1> SUFFICES ASSUME NoProgressMax > 0 PROVE DCSpec => []SoundIsAccepted
    OBVIOUS
<1>1. DCInit => SoundInv
    BY DEF DCInit, Init, DInit, SoundInv, P!ProgressInv
<1>2. ChunkInv /\ SoundInv /\ [DCNext]_dcVars => SoundInv'
    BY NextSoundInv
<1>3. SoundInv => SoundIsAccepted
    BY DEF SoundInv, SoundIsAccepted, Flawed
<1> QED
    BY <1>1, <1>2, <1>3, DecompressChunkInvariant, PTL DEF DCSpec

-----------------------------------------------------------------------------
(* When a stream of whole frames is reported as unfinished.                *)

(* A call that ends without output in outBuff and not with a frame has     *)
(* taken all that is in the buffer.                                        *)
LeftInv ==
    /\ P!StopInv
    /\ pc = "drain" => ret = 0 \/ zStage = "flush" \/ in_pos = in_size
    /\ pc \in {"idle", "loop"} => ret = 0 \/ zStage = "flush" \/ in_size = 0
    /\ result = "unfinished" => pc = "failed"
    /\ WholeIsFinished

(* When a last slice ends the stream, the loop finds it finished, unless   *)
(* the decoder has answered 0 or keeps output back.                        *)
LEMMA EndIsReached ==
    ASSUME ChunkInv, LeftInv, pc = "loop", rest_len = 0, last, WholeFrames(given),
           ret # 0, zStage # "flush"
    PROVE  res = 0 /\ in_pos = in_size
<1>1. P!StreamInv /\ P!FrameInv /\ P!StopInv
    BY DEF ChunkInv, LeftInv
<1>2. /\ dpc = "out" /\ in_pos = 0 /\ in_size = 0 /\ (src_len = 0 => res = 0)
      /\ base - origin + src_len = given /\ origin <= base
    BY WrapTypes DEF ChunkInv, WrapInv, OfferInv, SliceInv, HandedOver, HintInv, LeftInv
<1>3. SUFFICES ASSUME src_len > 0 PROVE FALSE
    BY <1>2, WrapTypes
<1>4. eaten - origin = given /\ given > 0
  <2>1. eaten + (in_size - in_pos) + rest_len = base + src_len
      BY DEF ChunkInv, WrapInv, NothingLost
  <2> QED
      BY <1>2, <1>3, <2>1, WrapTypes
<1>5. PICK n \in 0 .. Len(Frames) : given = P!UnitsThrough(n)
    BY SameDecoder DEF WholeFrames
<1>6. CASE zStage = "init"
  <2>1. frame = 0 /\ ~ P!Ring
      BY <1>1, <1>2, <1>6 DEF P!FrameInv, P!AnswerInv, P!Ring, P!Reading
  <2>2. P!UnitsThrough(0) = 0
      BY <1>1, P!StreamSums, SameStreams, SizesAssumption DEF P!StreamInv
  <2>3. (eaten - origin) + 0 + 0 = 0
      BY <1>1, <1>2, <1>6, <2>1, <2>2 DEF P!FrameInv, P!UnitsInv, P!Used
  <2> QED
      BY <1>4, <2>3, WrapTypes
<1>7. CASE zStage # "init"
    BY <1>1, <1>2, <1>4, <1>5, <1>7, P!InsideAFrame, SameStreams, SizesAssumption
<1> QED
    BY <1>6, <1>7

(* Every step keeps it.                                                    *)
LEMMA NextLeftInv ==
    ASSUME ChunkInv, LeftInv, [DCNext]_dcVars PROVE LeftInv'
<1>1. P!StopInv /\ WholeIsFinished /\ (result = "unfinished" => pc = "failed")
    BY DEF LeftInv
<1>2. ASSUME UNCHANGED dVars
      PROVE  P!StopInv' /\ ret' = ret /\ zStage' = zStage
    BY <1>1, <1>2 DEF P!StopInv, dVars, callIO, dctxVars, placeVars
<1>3. ASSUME result' # "unfinished" PROVE WholeIsFinished'
    BY <1>3 DEF WholeIsFinished
<1>4. ASSUME UNCHANGED dVars, given' = given PROVE WholeFrames(given)' <=> WholeFrames(given)
    BY <1>4 DEF WholeFrames, UnitsThrough, dVars
<1>5. ASSUME NEW n \in ChunkLens, NEW l \in BOOLEAN, DecompressChunk(n, l)
      PROVE  LeftInv'
  <2>1. /\ pc = "idle" /\ pc' = "loop" /\ result' = result
        /\ UNCHANGED dVars /\ in_size' = in_size
      BY <1>5 DEF DecompressChunk, ChunkBegin
  <2> QED
      BY <1>1, <1>2, <1>3, <2>1 DEF LeftInv
<1>6. CASE DecompressFill
  <2>1. pc = "loop" /\ pc' = "codec" /\ result' = result
      BY <1>6 DEF DecompressFill, Fill
  <2>2. iAvail' \in Nat \ {0} /\ dpc' = "work"
      BY <1>6, FillIsCall
  <2>3. UNCHANGED <<hostageByte, frame, zStage, Frames, lhSize>>
      BY <1>6 DEF DecompressFill, Offer, dctxVars, placeVars
  <2>4. P!StopInv'
      BY <1>1, <2>2, <2>3 DEF P!StopInv
  <2> QED
      BY <1>1, <1>3, <2>1, <2>4 DEF LeftInv
<1>7. CASE DecompressStep
  <2>1. pc = "codec" /\ P!DecompressStream /\ result # "unfinished"
      BY <1>1, <1>7, SameDecoder DEF DecompressStep
  <2>2. /\ P!StopInv'
        /\ dpc' = "out" => ret' = 0 \/ zStage' = "flush" \/ taken' = taken + iAvail
      BY <1>1, <2>1, P!StopStep, SameStreams, SizesAssumption DEF ChunkInv
  <2>3. CASE dpc' = "out" /\ CodecReturn(in_pos + taken', out_pos + made', ret')
    <3>1. /\ pc' = "drain" /\ in_pos' = in_pos + taken' /\ in_size' = in_size
          /\ result' = result
        BY <2>1, <2>3 DEF CodecReturn
    <3>2. taken + iAvail = in_size - in_pos
        BY <2>1 DEF ChunkInv, WrapInv, OfferInv
    <3>3. ret' = 0 \/ zStage' = "flush" \/ in_pos' = in_size'
        BY <2>2, <2>3, <3>1, <3>2, WrapTypes
    <3> QED
        BY <1>3, <2>1, <2>2, <3>1, <3>3 DEF LeftInv
  <2>4. CASE CodecFail(in_pos, out_pos)
    <3>1. pc' = "failed" /\ result' = "codec_error"
        BY <2>4 DEF CodecFail, Fail
    <3> QED
        BY <1>3, <2>2, <3>1 DEF LeftInv
  <2>5. CASE UNCHANGED vars
      BY <1>3, <2>1, <2>2, <2>5 DEF LeftInv, vars
  <2> QED
      BY <1>7, <2>3, <2>4, <2>5 DEF DecompressStep
<1>8. CASE DecompressDrain
  <2>1. /\ pc = "drain" /\ pc' = "loop" /\ in_size' = in_size - in_pos
        /\ result' = result /\ UNCHANGED dVars
      BY <1>8 DEF DecompressDrain, DrainBuffer, Compact
  <2>2. ret' = 0 \/ zStage' = "flush" \/ in_size' = 0
      BY <1>2, <2>1, WrapTypes DEF LeftInv
  <2> QED
      BY <1>1, <1>2, <1>3, <2>1, <2>2 DEF LeftInv
<1>9. CASE DecompressDrainFail
  <2>1. pc' = "failed" /\ result' = "drain_error" /\ UNCHANGED dVars
      BY <1>9 DEF DecompressDrainFail, DrainFail, Fail
  <2> QED
      BY <1>2, <1>3, <2>1 DEF LeftInv
<1>10. CASE DecompressChunkEnd
  <2>1. /\ pc = "loop" /\ rest_len = 0 /\ UNCHANGED dVars /\ given' = given
        /\ in_size' = in_size
      BY <1>10 DEF DecompressChunkEnd, ChunkEnd, bufVars
  <2>2. CASE pc' = "idle" /\ result' = "ok"
      BY <1>2, <1>3, <2>1, <2>2 DEF LeftInv
  <2>3. CASE Fail("unfinished") /\ last /\ (res # 0 \/ in_pos # in_size)
    <3>1. ~ WholeFrames(given) \/ zStage = "flush" \/ ret = 0
        BY <2>1, <2>3, EndIsReached
    <3>2. WholeIsFinished'
        BY <1>2, <1>4, <2>1, <3>1 DEF WholeIsFinished
    <3>3. pc' = "failed"
        BY <2>3 DEF Fail
    <3> QED
        BY <1>2, <2>1, <3>2, <3>3 DEF LeftInv
  <2> QED
      BY <1>10, <2>2, <2>3 DEF DecompressChunkEnd, ChunkEnd
<1>11. CASE DecompressRestart
  <2>1. /\ pc' = "idle" /\ result' = "none" /\ dpc' = "out" /\ frame' = 0
        /\ zStage' = "init" /\ in_size' = 0 /\ Frames' = Frames
      BY <1>11 DEF DecompressRestart, SessionReset, Reset
  <2>2. Len(Frames) \in Nat
      BY P!TotalIs, SameStreams, SizesAssumption DEF ChunkInv, P!StreamInv
  <2>3. P!StopInv'
      BY <2>1, <2>2 DEF P!StopInv
  <2> QED
      BY <1>3, <2>1, <2>3 DEF LeftInv
<1>12. CASE UNCHANGED dcVars
  <2>1. UNCHANGED dVars /\ UNCHANGED vars /\ given' = given
      BY <1>12 DEF dcVars
  <2>2. WholeIsFinished'
      BY <1>1, <1>2, <1>4, <2>1 DEF WholeIsFinished, vars
  <2> QED
      BY <1>2, <2>1, <2>2 DEF LeftInv, vars
<1> QED
    BY <1>5, <1>6, <1>7, <1>8, <1>9, <1>10, <1>11, <1>12 DEF DCNext, DCSteps

(* WholeIsFinished: for frames and slices of any size, whole frames are    *)
(* only reported as unfinished when outBuff holds content for which        *)
(* output.dst had no room, or when a frame ended in the middle of the last *)
(* piece; each would have asked for another call of the decoder.           *)
THEOREM WholeIsFinishedSafe == DCSpec => []WholeIsFinished
<1>1. DCInit => LeftInv
  <2> SUFFICES ASSUME DCInit PROVE LeftInv
      OBVIOUS
  <2>1. /\ pc = "idle" /\ result = "none" /\ dpc = "out" /\ frame = 0
        /\ zStage = "init" /\ hostageByte = FALSE /\ in_size = 0
      BY DEF DCInit, Init, DInit
  <2>2. Len(Frames) \in Nat
      BY InitChunkInv, P!TotalIs, SameStreams, SizesAssumption DEF ChunkInv, P!StreamInv
  <2> QED
      BY <2>1, <2>2 DEF LeftInv, P!StopInv, WholeIsFinished
<1>2. ChunkInv /\ LeftInv /\ [DCNext]_dcVars => LeftInv'
    BY NextLeftInv
<1>3. LeftInv => WholeIsFinished
    BY DEF LeftInv
<1> QED
    BY <1>1, <1>2, <1>3, DecompressChunkInvariant, PTL DEF DCSpec

-----------------------------------------------------------------------------
(* A stream that is one frame with no more content than output.dst holds   *)
(* is decompressed: no call of the decoder has to be repeated.             *)
SmallStreams == \A s \in Streams : Len(s) = 1 /\ FrameBytes(s[1]) <= OutLen

(* A call takes all that is in the buffer, or ends with the frame.         *)
WholeInv ==
    /\ P!RoomInv
    /\ pc = "drain" => ret = 0 \/ in_pos = in_size
    /\ pc \in {"idle", "loop"} => ret = 0 \/ in_size = 0
    /\ UnfinishedIsCut

(* The sums over the one frame of such a stream.                           *)
LEMMA SmallSums ==
    ASSUME SmallStreams, P!StreamInv
    PROVE  /\ Len(Frames) = 1 /\ UnitsThrough(0) = 0
           /\ P!BytesThrough(1) \in Nat /\ P!BytesThrough(1) <= OutLen
           /\ UnitsThrough(1) \in Nat /\ P!UnitsThrough(1) = UnitsThrough(1)
           /\ P!UnitsThrough(0) = 0
<1>1. Frames \in Streams
    BY DEF P!StreamInv
<1>2. Len(Frames) = 1 /\ FrameBytes(Frames[1]) <= OutLen
    BY <1>1 DEF SmallStreams
<1>3. /\ P!UnitsThrough(0) = 0 /\ P!BytesThrough(0) = 0
      /\ \A n \in 0 .. Len(Frames) : P!UnitsThrough(n) \in Nat /\ P!BytesThrough(n) \in Nat
      /\ \A n \in 1 .. Len(Frames) :
            P!BytesThrough(n) = P!BytesThrough(n - 1) + P!FrameBytes(Frames[n])
    BY <1>1, P!StreamSums, SameStreams, SizesAssumption
<1>4. P!BytesThrough(1) = P!BytesThrough(0) + P!FrameBytes(Frames[1])
  <2>1. 1 \in 1 .. Len(Frames) /\ 1 - 1 = 0
      BY <1>2
  <2> QED
      BY <1>3, <2>1
<1>5. P!UnitsThrough(1) \in Nat /\ P!BytesThrough(1) \in Nat
    BY <1>2, <1>3
<1>6. P!FrameBytes(Frames[1]) = FrameBytes(Frames[1])
    BY DEF P!FrameBytes, FrameBytes, P!BlockBytes, BlockBytes, P!PrefixSums, PrefixSums
<1>7. P!BytesThrough(1) = FrameBytes(Frames[1])
  <2>1. P!FrameFields(Frames[1])
      BY <1>1, <1>2, P!FieldsAre, SameStreams, SizesAssumption
  <2>2. P!FrameBytes(Frames[1]) \in Nat
      BY <2>1, P!FrameSums, SameStreams, SizesAssumption
  <2> QED
      BY <1>3, <1>4, <1>6, <2>2
<1>8. P!UnitsThrough(1) = UnitsThrough(1) /\ P!UnitsThrough(0) = UnitsThrough(0)
    BY SameDecoder
<1> QED
    BY <1>2, <1>3, <1>5, <1>7, <1>8

(* What waits in outBuff fits into output.dst.                             *)
LEMMA RoomForAll ==
    ASSUME SmallStreams, ChunkInv, P!RoomInv, pc = "codec", zStage = "flush"
    PROVE  outEnd - outStart <= oRoom
<1>1. P!StreamInv /\ P!FrameInv /\ P!Ring
    BY DEF ChunkInv, P!Ring, P!Reading
<1>2. /\ decoded <= P!BytesThrough(frame) /\ P!BytesThrough(frame) \in Nat
      /\ frame \in Nat
    BY <1>1, P!ContentInFrame, SameStreams, SizesAssumption
<1>3. frame = 1
  <2>1. frame >= 1
      BY <1>1 DEF P!StreamInv, P!PlaceInv
  <2>2. frame <= 1
      BY <1>1, SmallSums DEF P!RoomInv
  <2> QED
      BY <1>2, <2>1, <2>2
<1>4. decoded = Len(delivered) + (outEnd - outStart)
    BY <1>1 DEF P!StreamInv, P!FlushInv
<1>5. /\ Len(delivered) \in Nat /\ decoded \in Nat /\ outEnd \in Nat /\ outStart \in Nat
      /\ oRoom \in Nat /\ made \in Nat /\ OutLen \in Nat
  <2>1. Len(delivered) \in Nat /\ decoded \in Nat /\ outEnd \in Nat /\ outStart \in Nat
      BY <1>1 DEF P!StreamInv, P!Buffers, P!Typed
  <2>2. oRoom \in Nat /\ made \in Nat /\ OutLen \in Nat
      BY WrapTypes
  <2> QED
      BY <2>1, <2>2
<1>6. made <= Len(delivered) /\ made + oRoom = OutLen
  <2>1. /\ dpc \in {"work", "finish"} /\ made + oRoom = OutLen - out_pos /\ out_pos = 0
      BY DEF ChunkInv, WrapInv, OfferInv
  <2> QED
      BY <2>1, WrapTypes DEF P!RoomInv
<1>7. decoded <= OutLen
  <2>1. P!BytesThrough(frame) <= OutLen
      BY <1>1, <1>3, SmallSums
  <2> QED
      BY <1>2, <1>5, <2>1
<1> QED
    BY <1>4, <1>5, <1>6, <1>7

(* When a last slice ends the stream, the loop finds it finished.          *)
LEMMA EndIsFinished ==
    ASSUME SmallStreams, ChunkInv, WholeInv, pc = "loop", rest_len = 0, last,
           WholeFrames(given)
    PROVE  res = 0 /\ in_pos = in_size
<1>1. P!StreamInv /\ P!FrameInv /\ P!RoomInv
    BY DEF ChunkInv, WholeInv
<1>2. /\ dpc = "out" /\ in_pos = 0 /\ src_len \in Nat
      /\ base - origin + src_len = given /\ origin <= base
    BY WrapTypes DEF ChunkInv, WrapInv, OfferInv, SliceInv, HandedOver
<1>3. (src_len > 0 => res = ret) /\ (src_len = 0 => res = 0) /\ (ret = 0 \/ in_size = 0)
    BY <1>2 DEF ChunkInv, WrapInv, HintInv, WholeInv
<1>0. /\ base \in Nat /\ origin \in Nat /\ given \in Nat
      /\ eaten \in Nat /\ in_size \in Nat
      /\ Len(Frames) = 1
    BY <1>1, WrapTypes, SmallSums
<1>4. given <= UnitsThrough(1) /\ (src_len > 0 => given = UnitsThrough(1) /\ given > 0)
  <2>1. PICK n \in 0 .. Len(Frames) : given = UnitsThrough(n)
      BY DEF WholeFrames
  <2>2. src_len > 0 => given > 0
      BY <1>0, <1>2
  <2>3. n \in {0, 1}
      BY <1>0
  <2> QED
      BY <1>1, <2>1, <2>2, <2>3, SmallSums
<1>5. eaten - origin + in_size = given
  <2>1. eaten + (in_size - in_pos) + rest_len = base + src_len
      BY DEF ChunkInv, WrapInv, NothingLost
  <2> QED
      BY <1>0, <1>2, <2>1
<1>6. frame \in 0 .. 1
    BY <1>0, <1>1 DEF P!RoomInv, P!StreamInv, P!Typed
<1>7. zStage = "init" => eaten - origin = P!UnitsThrough(frame)
  <2> SUFFICES ASSUME zStage = "init" PROVE eaten - origin = P!UnitsThrough(frame)
      OBVIOUS
  <2>1. ~ P!Ring
      BY <1>2 DEF P!Ring, P!Reading
  <2>2. P!Used = P!UnitsThrough(frame)
      BY <1>1, <1>2 DEF P!FrameInv, P!UnitsInv
  <2>3. P!Used = (eaten - origin) + 0 + 0
      BY <1>2, <2>1 DEF P!Used
  <2> QED
      BY <2>2, <2>3, WrapTypes
<1>8. CASE ret = 0
  <2>1. zStage = "init"
      BY <1>1, <1>2, <1>8 DEF P!FrameInv, P!AnswerInv
  <2>2. frame = 1
      BY <1>1, <1>6, <1>8 DEF P!RoomInv
  <2>3. eaten - origin = UnitsThrough(1)
      BY <1>1, <1>7, <2>1, <2>2, SmallSums
  <2>4. in_size = 0
      BY <1>0, <1>1, <1>4, <1>5, <2>3, SmallSums
  <2> QED
      BY <1>2, <1>3, <1>8, <2>4
<1>9. CASE ret # 0
  <2>1. in_size = 0 /\ eaten - origin = given
      BY <1>3, <1>5, <1>9, WrapTypes
  <2>4. SUFFICES ASSUME src_len > 0 PROVE FALSE
      BY <1>2, <1>3, <2>1
  <2>2. CASE zStage = "init"
    <3>1. frame = 0
        BY <1>1, <1>2, <1>9, <2>2 DEF P!FrameInv, P!AnswerInv
    <3> QED
        BY <1>1, <1>4, <1>7, <2>1, <2>2, <2>4, <3>1, SmallSums
  <2>3. CASE zStage # "init"
    <3>1. frame = 1 /\ P!InStream
      <4>1. frame >= 1
          BY <1>1, <2>3 DEF P!StreamInv, P!PlaceInv
      <4> QED
          BY <1>0, <1>6, <4>1 DEF P!InStream
    <3>2. eaten - origin < P!UnitsThrough(frame)
        BY <1>1, <1>2, <2>3, <3>1, P!BehindTheEnd, SameStreams, SizesAssumption
    <3> QED
        BY <1>1, <1>4, <2>1, <2>4, <3>1, <3>2, SmallSums, WrapTypes
  <2> QED
      BY <2>2, <2>3
<1> QED
    BY <1>8, <1>9

(* Every step keeps it.                                                    *)
LEMMA NextWholeInv ==
    ASSUME SmallStreams, ChunkInv, WholeInv, [DCNext]_dcVars PROVE WholeInv'
<1>1. /\ WholeFrames(given)' <=> WholeFrames(given)
      /\ Frames' = Frames
  <2>1. Frames' = Frames /\ given' = given
      BY DEF DCNext, DCSteps, DecompressChunk, DecompressFill, Offer, DecompressStep,
             DecompressStream, DecompressDrain, DecompressDrainFail, DecompressChunkEnd,
             DecompressRestart, SessionReset, dcVars, dVars
  <2> QED
      BY <2>1 DEF WholeFrames, UnitsThrough
<1>2. UnfinishedIsCut /\ P!RoomInv
    BY DEF WholeInv
<1>3. ASSUME UNCHANGED dVars PROVE P!RoomInv'
    BY <1>2, <1>3 DEF P!RoomInv, dVars, callIO, dctxVars, placeVars
<1>4. ASSUME result' # "unfinished" \/ result' = result PROVE UnfinishedIsCut'
    BY <1>1, <1>2, <1>4 DEF UnfinishedIsCut
<1>5. ASSUME NEW n \in ChunkLens, NEW l \in BOOLEAN, DecompressChunk(n, l)
      PROVE  WholeInv'
  <2>1. /\ pc = "idle" /\ pc' = "loop" /\ result' = result
        /\ UNCHANGED dVars /\ ret' = ret /\ in_size' = in_size
      BY <1>5 DEF DecompressChunk, ChunkBegin, dVars
  <2> QED
      BY <1>3, <1>4, <2>1 DEF WholeInv
<1>6. CASE DecompressFill
  <2>1. pc' = "codec" /\ result' = result
      BY <1>6 DEF DecompressFill, Fill
  <2>2. iAvail' \in Nat \ {0} /\ made' = 0 /\ dpc' = "work"
      BY <1>6, FillIsCall
  <2>3. UNCHANGED <<ret, hostageByte, frame, zStage, delivered>>
      BY <1>6 DEF DecompressFill, Offer, dctxVars, placeVars
  <2>4. Len(delivered) \in Nat
      BY DEF ChunkInv, P!StreamInv, P!Buffers
  <2>5. P!RoomInv'
      BY <1>1, <1>2, <2>2, <2>3, <2>4 DEF P!RoomInv
  <2> QED
      BY <1>4, <2>1, <2>5 DEF WholeInv
<1>7. CASE DecompressStep
  <2>1. pc = "codec" /\ P!DecompressStream
      BY <1>7, SameDecoder DEF DecompressStep
  <2>2. P!RoomInv' /\ (dpc' = "out" => ret' = 0 \/ taken' = taken + iAvail)
    <3>1. zStage = "flush" => outEnd - outStart <= oRoom
        BY <1>2, <2>1, RoomForAll
    <3> QED
        BY <1>2, <2>1, <3>1, P!RoomStep, SameStreams, SizesAssumption DEF ChunkInv
  <2>3. CASE dpc' = "out" /\ CodecReturn(in_pos + taken', out_pos + made', ret')
    <3>1. /\ pc' = "drain" /\ in_pos' = in_pos + taken' /\ in_size' = in_size
          /\ result' = result
        BY <2>1, <2>3 DEF CodecReturn
    <3>2. taken + iAvail = in_size - in_pos
        BY <2>1 DEF ChunkInv, WrapInv, OfferInv
    <3>3. ret' = 0 \/ in_pos' = in_size'
        BY <2>2, <2>3, <3>1, <3>2, WrapTypes
    <3> QED
        BY <1>4, <2>2, <3>1, <3>3 DEF WholeInv
  <2>4. CASE CodecFail(in_pos, out_pos)
    <3>1. pc' = "failed" /\ result' = "codec_error"
        BY <2>4 DEF CodecFail, Fail
    <3> QED
        BY <1>4, <2>2, <3>1 DEF WholeInv
  <2>5. CASE UNCHANGED vars
      BY <1>4, <2>1, <2>2, <2>5 DEF WholeInv, vars
  <2> QED
      BY <1>7, <2>3, <2>4, <2>5 DEF DecompressStep
<1>8. CASE DecompressDrain
  <2>1. /\ pc = "drain" /\ pc' = "loop" /\ in_size' = in_size - in_pos
        /\ result' = result /\ UNCHANGED dVars /\ ret' = ret
      BY <1>8 DEF DecompressDrain, DrainBuffer, Compact, dVars
  <2>2. ret' = 0 \/ in_size' = 0
      BY <2>1, WrapTypes DEF WholeInv
  <2> QED
      BY <1>3, <1>4, <2>1, <2>2 DEF WholeInv
<1>9. CASE DecompressDrainFail
    BY <1>3, <1>4, <1>9 DEF DecompressDrainFail, DrainFail, Fail, WholeInv
<1>10. CASE DecompressChunkEnd
  <2>1. /\ pc = "loop" /\ rest_len = 0 /\ UNCHANGED dVars
        /\ ret' = ret /\ in_size' = in_size
      BY <1>10 DEF DecompressChunkEnd, ChunkEnd, bufVars, dVars
  <2>2. CASE pc' = "idle" /\ result' = "ok"
      BY <1>3, <1>4, <2>1, <2>2 DEF WholeInv
  <2>3. CASE Fail("unfinished") /\ last /\ (res # 0 \/ in_pos # in_size)
    <3>1. ~ WholeFrames(given)
        BY <2>1, <2>3, EndIsFinished
    <3>2. UnfinishedIsCut' /\ pc' = "failed"
        BY <1>1, <2>3, <3>1 DEF UnfinishedIsCut, Fail
    <3> QED
        BY <1>3, <2>1, <3>2 DEF WholeInv
  <2> QED
      BY <1>10, <2>2, <2>3 DEF DecompressChunkEnd, ChunkEnd
<1>11. CASE DecompressRestart
  <2>1. /\ pc' = "idle" /\ result' = "none" /\ dpc' = "out" /\ ret' = 1 /\ frame' = 0
        /\ hostageByte' = hostageByte /\ in_size' = 0
      BY <1>11 DEF DecompressRestart, SessionReset, Reset
  <2>2. Len(Frames) = 1
      BY SmallSums DEF ChunkInv
  <2>3. P!RoomInv'
      BY <1>1, <1>2, <2>1, <2>2 DEF P!RoomInv
  <2> QED
      BY <1>4, <2>1, <2>3 DEF WholeInv
<1>12. CASE UNCHANGED dcVars
  <2>1. UNCHANGED dVars /\ UNCHANGED vars /\ ret' = ret
      BY <1>12 DEF dcVars, dVars
  <2> QED
      BY <1>3, <1>4, <2>1 DEF WholeInv, vars
<1> QED
    BY <1>5, <1>6, <1>7, <1>8, <1>9, <1>10, <1>11, <1>12 DEF DCNext, DCSteps

(* UnfinishedIsCut: the last slice of a whole stream of one frame, whose   *)
(* content fits into output.dst, is not reported as unfinished, however    *)
(* the application slices it and whatever attempts failed before.          *)
THEOREM SmallIsFinished ==
    SmallStreams => (DCSpec => []UnfinishedIsCut)
<1> SUFFICES ASSUME SmallStreams PROVE DCSpec => []UnfinishedIsCut
    OBVIOUS
<1>1. DCInit => WholeInv
  <2> SUFFICES ASSUME DCInit PROVE WholeInv
      OBVIOUS
  <2>1. /\ pc = "idle" /\ result = "none" /\ dpc = "out" /\ ret = 1 /\ frame = 0
        /\ hostageByte = FALSE /\ in_size = 0
      BY DEF DCInit, Init, DInit
  <2>2. Len(Frames) = 1
      BY InitChunkInv, SmallSums DEF ChunkInv
  <2> QED
      BY <2>1, <2>2 DEF WholeInv, P!RoomInv, UnfinishedIsCut
<1>2. ChunkInv /\ WholeInv /\ [DCNext]_dcVars => WholeInv'
    BY NextWholeInv
<1>3. WholeInv => UnfinishedIsCut
    BY DEF WholeInv
<1> QED
    BY <1>1, <1>2, <1>3, DecompressChunkInvariant, PTL DEF DCSpec

-----------------------------------------------------------------------------
(* decompress_chunk is the wrapper of StreamContext.                       *)

(* What the mapping leaves as it is.                                       *)
LEMMA SameWrapper ==
    /\ DSC!FillLen = FillLen /\ DSC!max_len = max_len
    /\ \A len : DSC!Copied(len) = Copied(len)
    /\ DSC!Moved = Moved /\ (DSC!Compact <=> Compact)
    /\ \A why : DSC!Fail(why) <=> Fail(why)
BY DEF DSC!FillLen, FillLen, DSC!max_len, max_len, DSC!LeastOf, LeastOf, DSC!Copied,
       Copied, DSC!Indices, Indices, DSC!Moved, Moved, DSC!Foreign, Foreign,
       DSC!Compact, Compact, DSC!Fail, Fail

(* A step around a decoder that answers with any number is one around a    *)
(* codec that answers whether it is done.                                  *)
LEMMA HintIsAnswer ==
    ASSUME res \in Nat, [HintNext]_vars
    PROVE  [DSC!Next]_(DSC!vars)
<1> USE SameWrapper
<1> USE DEF DSC!Next, DSC!Wrapper, DSC!bufVars, bufVars, DSC!callVars, callVars
<1>1. CASE Reset
    BY <1>1 DEF Reset, DSC!Reset
<1>2. ASSUME NEW n \in ChunkLens, NEW l \in BOOLEAN, ChunkBegin(n, l)
      PROVE  DSC!Next
    BY <1>2 DEF ChunkBegin, DSC!ChunkBegin
<1>3. CASE Fill
    BY <1>3 DEF Fill, DSC!Fill
<1>4. ASSUME NEW ip \in in_pos .. in_size, NEW op \in out_pos .. OutLen,
             NEW r \in Nat, CodecReturn(ip, op, r)
      PROVE  DSC!Next
  <2>1. DSC!CodecReturn(ip, op, IF r = 0 THEN 0 ELSE 1)
      BY <1>4 DEF CodecReturn, DSC!CodecReturn
  <2>2. (IF r = 0 THEN 0 ELSE 1) \in {0, 1}
      OBVIOUS
  <2> QED
      BY <1>4, <2>1, <2>2 DEF DSC!Codec
<1>5. ASSUME NEW ip \in in_pos .. in_size, NEW op \in out_pos .. OutLen,
             CodecFail(ip, op)
      PROVE  DSC!Next
  <2>1. DSC!CodecFail(ip, op)
      BY <1>5 DEF CodecFail, DSC!CodecFail
  <2> QED
      BY <2>1 DEF DSC!CodecError
<1>6. CASE DrainBuffer \/ DrainFail
    BY <1>6 DEF DrainBuffer, DSC!DrainBuffer, DrainFail, DSC!DrainFail
<1>7. CASE ChunkEnd
    BY <1>7 DEF ChunkEnd, DSC!ChunkEnd
<1>8. CASE EndBegin \/ EndDrain
    BY <1>8 DEF EndBegin, DSC!EndBegin, EndDrain, DSC!EndDrain
<1>9. CASE UNCHANGED vars
    BY <1>9 DEF vars, DSC!vars
<1> QED
    BY <1>1, <1>2, <1>3, <1>4, <1>5, <1>6, <1>7, <1>8, <1>9
       DEF HintNext, Wrapper, HintingCodec, CodecError

(* decompress_chunk with this decoder is the wrapper with some codec, for  *)
(* buffers, slices and streams of any size: what is proved of              *)
(* StreamContext with any codec holds for decompression.                   *)
THEOREM DecompressIsWrapper == DCSpec => ChunkWrapper
<1>1. DCInit => DSC!Init
    BY DEF DCInit, Init, DSC!Init, DSC!Indices, Indices, DSC!Foreign, Foreign
<1>2. ChunkInv /\ [DCNext]_dcVars => [DSC!Next]_(DSC!vars)
  <2> SUFFICES ASSUME ChunkInv, [DCNext]_dcVars PROVE [DSC!Next]_(DSC!vars)
      OBVIOUS
  <2>1. res \in Nat
      BY DEF ChunkInv, WrapInv, BoundsInv, TypeOK
  <2> QED
      BY <2>1, StepIsBoth, HintIsAnswer
<1> QED
    BY <1>1, <1>2, DecompressChunkInvariant, PTL DEF DCSpec, ChunkWrapper, DSC!Spec

=============================================================================
