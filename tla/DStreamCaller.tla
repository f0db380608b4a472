---------------------------- MODULE DStreamCaller ----------------------------
(***************************************************************************)
(* A caller of ZSTD_decompressStream that keeps to its contract: it offers *)
(* the stream in pieces of any size with any amount of room, offers again  *)
(* what was not consumed, and resets the session after an error.           *)
(***************************************************************************)
EXTENDS DStream

CONSTANTS
    Offers,     \* bound: numbers of units the caller offers in a call
    Rooms       \* bound: sizes of its output buffer

ASSUME OffersAssumption == Offers \subseteq Nat /\ Rooms \subseteq Nat

VARIABLES
    pos,        \* units of the stream that were reported as consumed
    persists    \* the caller goes on with input and room until its input is used up

callerVars == <<dVars, pos, persists>>

CallerInit == DInit /\ pos = 0 /\ persists \in BOOLEAN

(* A loop over the stream offers something and some room every time, and   *)
(* ends with the stream; another caller may offer nothing.                 *)
Call(a, r) ==
    /\ persists => pos < Total /\ a > 0 /\ r > 0
    /\ Offer(Smaller(a, Total - pos), r)
    /\ UNCHANGED <<pos, persists>>

Library ==
    /\ DecompressStream
    /\ pos' = IF dpc' = "out" THEN pos + taken' ELSE pos
    /\ UNCHANGED persists

(* The session is reset, and the stream offered from its start.            *)
ResetSession == ~persists /\ SessionReset /\ pos' = 0 /\ UNCHANGED persists

CallerNext ==
    \/ \E a \in Offers, r \in Rooms : Call(a, r)
    \/ Library
    \/ ResetSession

(* A call runs to its end, and a caller that persists calls again.         *)
GoOn == persists /\ \E a \in Offers, r \in Rooms : Call(a, r)
CallerSpec ==
    /\ CallerInit /\ [][CallerNext]_callerVars
    /\ WF_callerVars(Library)
    /\ WF_callerVars(GoOn)

-----------------------------------------------------------------------------
(* The caller gets the content in order, each byte once, however the input *)
(* and the output are cut and wherever outBuff wraps.                      *)
DeliveredInOrder ==
    /\ delivered = Bytes(0, Len(delivered))
    /\ Len(delivered) <= decoded

(* A block never overwrites the part of the window it may still refer to:  *)
(* the ring of ZSTD_decodingBufferSize_internal is large enough for the    *)
(* block, its literals and copies that run over.                           *)
WindowIntact ==
    (dpc = "work" /\ zStage \in {"read", "load"} /\ InBlock /\ B.kind = "packed") =>
        \A s \in Larger(frameBase + 1, decoded + 1 - F.window) .. decoded :
            \E p \in DOMAIN outBuff \ Scribbled : outBuff[p] = s

(* 0 is returned exactly when a call consumes the last unit of a frame,    *)
(* and then the frame is completely decoded and flushed.  And when every   *)
(* unit of a frame is reported as consumed, all its content has been       *)
(* handed out: this is what the hostage byte is for, and what a caller     *)
(* relies on who stops when the input is used up.                          *)
ZeroAtFrameEnd ==
    /\ (dpc = "out" /\ InStream) =>
          /\ ret = 0 => pos = UnitsThrough(frame) /\ Len(delivered) = BytesThrough(frame)
          /\ taken > 0 /\ pos = UnitsThrough(frame) => ret = 0
    /\ dpc = "out" =>
          \A n \in 1 .. Len(Frames) :
              pos >= UnitsThrough(n) => Len(delivered) >= BytesThrough(n)

(* Only a flawed frame or a caller that offers nothing again and again     *)
(* makes the decoder fail: the piece that is loaded always fits into       *)
(* inBuff and the block that is decoded into outBuff.                      *)
FailsOnlyForCause ==
    dpc = "error" => (InStream /\ F.flaw # "none") \/ noForwardProgress >= NoProgressMax

(* What the decoder reports as complete is damaged in one case only: the   *)
(* size it declares is wrong and its last block is empty, and it was       *)
(* decoded block by block.  And a frame with too large a window is         *)
(* accepted only in a single pass, which allocates none.                   *)
FlawIsFound ==
    (dpc = "out" /\ ret = 0 /\ InStream) =>
        \/ F.flaw = "none"
        \/ F.flaw = "window" /\ F.fcs # Unknown /\ block = 0
        \/ F.flaw = "size" /\ F.blocks[Len(F.blocks)].csize = 0 /\ block # 0

(* No frame whose content has not the declared size is reported as         *)
(* complete: the single pass and the end of a last block with content both *)
(* compare the two, and refuse such a frame as corrupted.                  *)
SizeIsChecked == (dpc = "out" /\ ret = 0 /\ InStream) => F.flaw # "size"

(* A caller that goes on until its input is used up gets everything, or an *)
(* error for a frame that is flawed.                                       *)
Completes ==
    persists =>
        <>[](\/ dpc = "out" /\ pos = Total /\ Len(delivered) = BytesThrough(Len(Frames))
             \/ dpc = "error" /\ InStream /\ F.flaw # "none")

=============================================================================
