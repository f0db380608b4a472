----------------------------- MODULE MCDStream ------------------------------
(* Streams for the models of ZSTD_decompressStream.                        *)
EXTENDS DStreamCaller, FrameShapes

(* One long frame: the content is larger than the ring.                    *)
LongFrame ==
    <<ZFrame(2, Unknown, 3,
             <<Packed(2, 3), Raw(3), Packed(1, 3), Packed(2, 2), Raw(1), Packed(1, 3),
               Packed(2, 3)>>,
             FALSE, "none")>>

(* Several short ones: of known size, empty, skippable, with a checksum.   *)
ShortFrames ==
    <<ZFrame(2, 2, 2, <<Packed(1, 2)>>, FALSE, "none"),
      SkipFrameOf(2, 2),
      ZFrame(1, 0, 1, <<Raw(0)>>, TRUE, "none"),
      ZFrame(2, Unknown, 2, <<Raw(2), Packed(1, 1), Raw(0)>>, TRUE, "none")>>

(* Frames with one flaw each, after a sound one.                           *)
Sound == ZFrame(1, 1, 1, <<Packed(1, 1)>>, FALSE, "none")
Flawed(f) == <<Sound, f>>
FlawedStreams ==
    {Flawed(ZFrame(2, Unknown, 2, <<Packed(2, 2)>>, FALSE, "header")),
     Flawed(ZFrame(2, Unknown, 2, <<Packed(2, 2)>>, FALSE, "window")),
     Flawed(ZFrame(1, 1, 2, <<Raw(1)>>, FALSE, "window")),
     Flawed(ZFrame(2, 3, 2, <<Packed(2, 2), Raw(2)>>, FALSE, "size")),
     Flawed(ZFrame(2, 3, 2, <<Raw(2)>>, TRUE, "size")),
     Flawed(ZFrame(2, 3, 2, <<Raw(2), Raw(0)>>, FALSE, "size")),
     Flawed(ZFrame(2, 1, 2, <<Packed(1, 2), Raw(0)>>, TRUE, "size")),
     Flawed(ZFrame(1, 2, 2, <<Packed(1, 2)>>, TRUE, "checksum")),
     Flawed(ZFrame(2, Unknown, 2, <<Raw(1), Packed(2, 1)>>, TRUE, "checksum"))}

SoundStreams == {LongFrame, ShortFrames}
AllStreams == SoundStreams \union FlawedStreams
=============================================================================
