---------------------------- MODULE FrameShapes ----------------------------
(* Shorthands for the frames and blocks of DStream's streams.              *)
EXTENDS Integers

Packed(c, r) == [kind |-> "packed", csize |-> c, rsize |-> r]
Raw(n) == [kind |-> "raw", csize |-> n, rsize |-> n]
ZFrame(hdr, fcs, window, blocks, checksum, flaw) ==
    [hdr |-> hdr, fcs |-> fcs, window |-> window, blocks |-> blocks,
     checksum |-> checksum, skip |-> -1, flaw |-> flaw]
SkipFrameOf(hdr, n) ==
    [hdr |-> hdr, fcs |-> n, window |-> 1, blocks |-> <<>>,
     checksum |-> FALSE, skip |-> n, flaw |-> "none"]

=============================================================================
