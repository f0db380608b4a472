-------------------------- MODULE DecompressChunk --------------------------
(***************************************************************************)
(* decompress_chunk of the V wrapper (src/decompress_stream.v) around      *)
(* ZSTD_decompressStream.  The application hands over a stream of frames,  *)
(* whole or cut off, in slices, the last one with last = true; after an    *)
(* error it may reset both contexts and start again.                       *)
(*                                                                         *)
(* Bytes of the wrapper are units of the stream; base counts them over all *)
(* attempts.  Once the input buffer holds anything but the next units of   *)
(* the stream, what the decoder does is not modelled.                      *)
(***************************************************************************)
EXTENDS StreamContext, DStream

CONSTANT
    Missing     \* bound: numbers of units that may be cut off the stream

ASSUME MissingAssumption == Missing \subseteq Nat

VARIABLES
    given,      \* units of the stream the application has
    origin      \* base when the current attempt started

dcVars == <<vars, dVars, given, origin>>

(* new_decompress_stream_context and new_decompress_context.               *)
DCInit ==
    /\ Init /\ DInit
    /\ given \in {Larger(0, Total - m) : m \in Missing}
    /\ origin = 0

HandedOver == base - origin

(* decompress_chunk with a slice of n units, which may be empty; nothing   *)
(* follows the one that is passed with last = true.                        *)
DecompressChunk(n, isLast) ==
    /\ HandedOver + n <= given
    /\ isLast => HandedOver + n = given
    /\ last => HandedOver = 0
    /\ ChunkBegin(n, isLast)
    /\ UNCHANGED <<dVars, given, origin>>

(* Mutant: the decoder is offered what was in the buffer before.           *)
DecompressFillStale ==
    /\ Fill
    /\ Offer(in_size - in_pos, OutLen - out_pos)
    /\ UNCHANGED <<given, origin>>

(* Copying into the input buffer, up to the call of ZSTD_decompressStream. *)
DecompressFill ==
    /\ Fill
    /\ Offer(in_size' - in_pos, OutLen - out_pos)
    /\ UNCHANGED <<given, origin>>

(* A step of ZSTD_decompressStream; with the last one it returns.  When it *)
(* fails it leaves input.pos and output.pos as they were.                  *)
DecompressStep ==
    /\ pc = "codec" /\ InputInOrder
    /\ DecompressStream
    /\ \/ dpc' = "out" /\ CodecReturn(in_pos + taken', out_pos + made', ret')
       \/ dpc' = "error" /\ CodecFail(in_pos, out_pos)
       \/ dpc' \in {"work", "finish"} /\ UNCHANGED vars
    /\ UNCHANGED <<given, origin>>

DecompressDrain == DrainBuffer /\ UNCHANGED <<dVars, given, origin>>
DecompressDrainFail == DrainFail /\ UNCHANGED <<dVars, given, origin>>
DecompressChunkEnd == ChunkEnd /\ UNCHANGED <<dVars, given, origin>>

(* StreamContext.reset and DecompressContext.reset(session_only).          *)
DecompressRestart ==
    /\ Reset
    /\ SessionReset
    /\ origin' = base
    /\ UNCHANGED given

DCSteps ==
    \/ DecompressFill \/ DecompressStep
    \/ DecompressDrain \/ DecompressDrainFail \/ DecompressChunkEnd
    \/ DecompressRestart

DCNext ==
    \/ \E n \in ChunkLens, isLast \in BOOLEAN : DecompressChunk(n, isLast)
    \/ DCSteps
DCSpec == DCInit /\ [][DCNext]_dcVars

-----------------------------------------------------------------------------
WholeFrames(units) == \E n \in 0 .. Len(Frames) : units = UnitsThrough(n)

(* The stream ended with a frame, and the callback has received the        *)
(* content of all its frames.                                              *)
Complete ==
    /\ out_pos = 0
    /\ \E n \in 0 .. Len(Frames) :
          given = UnitsThrough(n) /\ delivered = Bytes(0, BytesThrough(n))

LastCallSucceeds == pc = "loop" /\ pc' = "idle" /\ last

(* When a last decompress_chunk with a slice that is not empty succeeds,   *)
(* the stream is complete: no truncated one is taken for a whole one.  An  *)
(* empty last slice is left out, because the loop does not run for it and  *)
(* res keeps its initial 0.                                                *)
SuccessIsComplete == [][LastCallSucceeds /\ src_len > 0 => Complete']_dcVars

(* No last decompress_chunk succeeds before the stream is complete: what   *)
(* else is reported as an unfinished decompression.                        *)
LastIsComplete == [][LastCallSucceeds => Complete']_dcVars

(* The last chunk of a stream of whole and sound frames is reported as     *)
(* unfinished in two cases only, however the application slices it: when   *)
(* outBuff still holds content for which output.dst had no room, and when  *)
(* a frame ended in the middle of the piece.  Each asks for another call   *)
(* of ZSTD_decompressStream, which decompress_chunk does not make.         *)
WholeIsFinished ==
    result = "unfinished" => ~ WholeFrames(given) \/ zStage = "flush" \/ ret = 0

(* A stream of whole and sound frames is never reported as unfinished.     *)
UnfinishedIsCut == result = "unfinished" => ~ WholeFrames(given)

(* A sound stream does not make the decoder fail.                          *)
SoundIsAccepted ==
    result = "codec_error" => \E n \in 1 .. Len(Frames) : Frames[n].flaw # "none"

(* The wrapper with this decoder is the wrapper with some codec.           *)
DSC == INSTANCE StreamContext WITH res <- IF res = 0 THEN 0 ELSE 1
ChunkWrapper == DSC!Spec

=============================================================================
