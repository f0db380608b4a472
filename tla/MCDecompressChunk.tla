------------------------- MODULE MCDecompressChunk -------------------------
(* Streams for the models of decompress_chunk.                             *)
EXTENDS DecompressChunk, FrameShapes

(* One frame, of which any input buffer full expands to no more than an    *)
(* output buffer: data that does not compress, or less than a buffer.      *)
RawFrame == <<ZFrame(2, Unknown, 3, <<Raw(3), Raw(2)>>, TRUE, "none")>>
RawSized == <<ZFrame(2, 4, 3, <<Raw(3), Raw(1)>>, FALSE, "none")>>
RawFlawed == <<ZFrame(2, 4, 3, <<Raw(3), Raw(1)>>, TRUE, "checksum")>>
PackedLittle == <<ZFrame(2, Unknown, 3, <<Packed(2, 3)>>, TRUE, "none")>>
FittingStreams == {RawFrame, RawSized, RawFlawed, PackedLittle}

(* A short frame and a longer one, which may lie in one input buffer.      *)
RawFrames == {<<ZFrame(2, 1, 1, <<Raw(1)>>, FALSE, "none"), RawFrame[1]>>}

(* Data that compresses: two blocks of three bytes lie in one buffer, and  *)
(* expand to more than output.dst holds.                                   *)
PackedStreams == {<<ZFrame(1, Unknown, 3, <<Packed(1, 3), Packed(1, 3)>>, FALSE, "none")>>}

(* Two short frames, which may lie in one buffer.                          *)
ShortStreams ==
    {<<ZFrame(1, 1, 1, <<Raw(1)>>, FALSE, "none"), ZFrame(1, 0, 1, <<Raw(0)>>, FALSE, "none")>>}
SliceStreams == FittingStreams \union PackedStreams \union ShortStreams
=============================================================================
