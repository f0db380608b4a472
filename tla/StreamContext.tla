--------------------------- MODULE StreamContext ---------------------------
(***************************************************************************)
(* The streaming half of the V wrapper: the StreamContext of               *)
(* src/stream_context.v with the two staging buffers, and the chunk loop   *)
(* that compress_chunk_at, decompress_chunk_at and compress_end run        *)
(* around a call into libzstd.                                             *)
(*                                                                         *)
(* The codec is any routine that honours the buffer contract of            *)
(* ZSTD_inBuffer / ZSTD_outBuffer: it moves input.pos forward up to        *)
(* input.size, moves output.pos forward up to output.size, and returns an  *)
(* error, 0 or a positive hint.  CompressStream and DecompressStream       *)
(* replace it by the two state machines of libzstd.                        *)
(*                                                                         *)
(* A byte is the number of its place in everything the application has     *)
(* handed over: byte k is the k-th.  Position i of the C buffer is index   *)
(* i of the function in_src, counted from 0.                               *)
(***************************************************************************)
EXTENDS Integers

CONSTANTS
    InLen,      \* capacity of input.src (compress_stream_in_size, ...)
    OutLen,     \* capacity of output.dst
    ChunkLens,  \* bound: lengths of the slices the application passes
    MaxBytes    \* bound: bytes the application passes in all

ASSUME InLenAssumption == InLen \in Nat \ {0}
ASSUME OutLenAssumption == OutLen \in Nat \ {0}
ASSUME ChunkLensAssumption == ChunkLens \subseteq Nat
ASSUME MaxBytesAssumption == MaxBytes \in Nat

VARIABLES
    pc,         \* where the wrapper is
    in_src,     \* contents of input.src
    in_size,    \* input.size
    in_pos,     \* input.pos
    out_pos,    \* output.pos
    src_len,    \* length of the slice of the current call
    pos,        \* the loop's offset into that slice
    rest_len,   \* bytes of the slice that are not copied yet
    last,       \* the call's argument `last`
    res,        \* value of the last codec call
    result,     \* what the last finished call returned to the application
    base,       \* bytes handed over before the current call
    eaten       \* number of the last byte the codec has consumed or reset() dropped

bufVars == <<in_src, in_size, in_pos, out_pos>>
callVars == <<src_len, pos, rest_len, last, res>>
vars == <<pc, in_src, in_size, in_pos, out_pos, src_len, pos, rest_len, last,
          res, result, base, eaten>>

Foreign == 0    \* a byte that is not the application's: unset or out of bounds

(* "idle" no call; "loop" head of the for loop; "codec" inside libzstd;    *)
(* "drain" about to run drain_buffer; "end..." the same in compress_end;   *)
(* "failed" the last call returned an error and nothing was reset since.   *)
Locations == {"idle", "loop", "codec", "drain", "endcodec", "enddrain", "failed"}
Results == {"none", "ok", "codec_error", "drain_error", "unfinished"}

Indices == 0 .. InLen - 1
LeastOf(a, b) == IF a <= b THEN a ELSE b

TypeOK ==
    /\ pc \in Locations
    /\ in_src \in [Indices -> Nat]
    /\ in_size \in Nat /\ in_pos \in Nat /\ out_pos \in Nat
    /\ src_len \in Nat /\ pos \in Nat /\ rest_len \in Nat
    /\ last \in BOOLEAN
    /\ res \in Nat
    /\ result \in Results
    /\ base \in Nat /\ eaten \in Nat

-----------------------------------------------------------------------------
(* new_stream_context: two zeroed arrays, empty.                           *)
Init ==
    /\ pc = "idle"
    /\ in_src = [i \in Indices |-> Foreign]
    /\ in_size = 0 /\ in_pos = 0 /\ out_pos = 0
    /\ src_len = 0 /\ pos = 0 /\ rest_len = 0
    /\ last = FALSE
    /\ res = 0
    /\ result = "none"
    /\ base = 0 /\ eaten = 0

(* StreamContext.reset: forgets the contents of both buffers.              *)
Reset ==
    /\ pc \in {"idle", "failed"}
    /\ pc' = "idle"
    /\ out_pos' = 0 /\ in_size' = 0 /\ in_pos' = 0
    /\ result' = "none"
    /\ eaten' = base
    /\ UNCHANGED <<in_src, src_len, pos, rest_len, last, res, base>>

(* A call of compress_chunk or decompress_chunk with a slice of n bytes.   *)
ChunkBegin(n, isLast) ==
    /\ pc = "idle"
    /\ base + n <= MaxBytes
    /\ pc' = "loop"
    /\ src_len' = n /\ rest_len' = n
    /\ pos' = 0 /\ res' = 0
    /\ last' = isLast
    /\ UNCHANGED <<in_src, in_size, in_pos, out_pos, result, base, eaten>>

(* How much of the slice one iteration takes: what fits behind input.size. *)
max_len == InLen - in_size
FillLenUncapped == rest_len   \* mutant: the branch on max_len is forgotten
FillLen == LeastOf(rest_len, max_len)

(* vmemcpy(input.src + input.size, src + pos, len).                        *)
Copied(len) ==
    [i \in Indices |-> IF i \in in_size .. in_size + len - 1
                       THEN base + pos + (i - in_size) + 1
                       ELSE in_src[i]]

(* Mutant: rest_len is reduced by max_len in both branches.                *)
FillRestUnchecked ==
    /\ pc = "loop"
    /\ rest_len > 0
    /\ in_src' = Copied(FillLen)
    /\ in_size' = in_size + FillLen
    /\ rest_len' = rest_len - max_len
    /\ pos' = pos + max_len
    /\ pc' = "codec"
    /\ UNCHANGED <<in_pos, out_pos, src_len, last, res, result, base, eaten>>

(* One iteration of the loop up to the codec call.                         *)
Fill ==
    /\ pc = "loop"
    /\ rest_len > 0
    /\ in_src' = Copied(FillLen)
    /\ in_size' = in_size + FillLen
    /\ rest_len' = rest_len - FillLen
    /\ pos' = pos + max_len
    /\ pc' = "codec"
    /\ UNCHANGED <<in_pos, out_pos, src_len, last, res, result, base, eaten>>

(* The codec returns without an error: check_error passes.                 *)
CodecReturn(ip, op, r) ==
    /\ pc \in {"codec", "endcodec"}
    /\ in_pos' = ip /\ out_pos' = op /\ res' = r
    /\ eaten' = eaten + (ip - in_pos)
    /\ pc' = IF pc = "codec" THEN "drain" ELSE "enddrain"
    /\ UNCHANGED <<in_src, in_size, src_len, pos, rest_len, last, result, base>>

(* The call ends with an error: the slice counts as handed over.           *)
Fail(why) ==
    /\ pc' = "failed"
    /\ result' = why
    /\ base' = base + src_len
    /\ src_len' = 0 /\ pos' = 0 /\ rest_len' = 0

(* The codec reports an error: check_error leaves the call.                *)
CodecFail(ip, op) ==
    /\ pc \in {"codec", "endcodec"}
    /\ in_pos' = ip /\ out_pos' = op
    /\ Fail("codec_error")
    /\ UNCHANGED <<in_src, in_size, last, res, eaten>>

(* Mutant: vmemmove(input.src, input.src, input.pos).                      *)
MovedNowhere == in_src

(* vmemmove(input.src, input.src + input.pos, input.pos).  What it reads   *)
(* beyond the array is foreign.                                            *)
Moved ==
    [i \in Indices |-> IF i < in_pos
                       THEN IF in_pos + i < InLen THEN in_src[in_pos + i] ELSE Foreign
                       ELSE in_src[i]]

(* The second half of drain_buffer: make room in the input buffer.         *)
Compact ==
    /\ in_pos' = 0
    /\ in_size' = in_size - in_pos
    /\ in_src' = IF in_pos = in_size THEN in_src ELSE Moved

(* drain_buffer after a codec call of the loop; the callback succeeds.     *)
DrainBuffer ==
    /\ pc = "drain"
    /\ out_pos' = 0
    /\ Compact
    /\ pc' = "loop"
    /\ UNCHANGED <<callVars, result, base, eaten>>

(* The callback returns an error: output.pos and the input stay as they    *)
(* are and the error leaves the call.                                      *)
DrainFail ==
    /\ pc \in {"drain", "enddrain"}
    /\ out_pos > 0
    /\ Fail("drain_error")
    /\ UNCHANGED <<bufVars, last, res, eaten>>

(* Mutant: the value of the last codec call is not looked at.              *)
ChunkEndUnchecked ==
    /\ pc = "loop"
    /\ rest_len = 0
    /\ IF last /\ in_pos # in_size
       THEN Fail("unfinished")
       ELSE /\ pc' = "idle"
            /\ result' = "ok"
            /\ base' = base + src_len
            /\ src_len' = 0 /\ pos' = 0 /\ UNCHANGED rest_len
    /\ UNCHANGED <<bufVars, last, res, eaten>>

(* The loop is done: `unfinished` when this was the last chunk and the     *)
(* codec still wants something.                                            *)
ChunkEnd ==
    /\ pc = "loop"
    /\ rest_len = 0
    /\ IF last /\ (res # 0 \/ in_pos # in_size)
       THEN Fail("unfinished")
       ELSE /\ pc' = "idle"
            /\ result' = "ok"
            /\ base' = base + src_len
            /\ src_len' = 0 /\ pos' = 0 /\ UNCHANGED rest_len
    /\ UNCHANGED <<bufVars, last, res, eaten>>

(* compress_end: one codec call, then drain_buffer if it produced anything. *)
EndBegin ==
    /\ pc = "idle"
    /\ pc' = "endcodec"
    /\ last' = TRUE
    /\ UNCHANGED <<bufVars, src_len, pos, rest_len, res, result, base, eaten>>

EndDrain ==
    /\ pc = "enddrain"
    /\ out_pos' = 0
    /\ IF out_pos > 0 THEN Compact ELSE UNCHANGED <<in_src, in_size, in_pos>>
    /\ pc' = "idle"
    /\ result' = "ok"
    /\ UNCHANGED <<callVars, base, eaten>>

(* What every codec call obeys.                                            *)
Codec ==
    \E ip \in in_pos .. in_size, op \in out_pos .. OutLen, r \in {0, 1} :
        CodecReturn(ip, op, r)
CodecError ==
    \E ip \in in_pos .. in_size, op \in out_pos .. OutLen : CodecFail(ip, op)

(* A thrifty codec takes nothing, everything, or at least half of what the *)
(* buffer holds.                                                           *)
Thrifty(ip) == ip = 0 \/ ip = in_size \/ in_size - ip <= ip
ThriftyCodec ==
    \E ip \in in_pos .. in_size, op \in out_pos .. OutLen, r \in {0, 1} :
        Thrifty(ip) /\ CodecReturn(ip, op, r)

Wrapper ==
    \/ Reset
    \/ \E n \in ChunkLens, l \in BOOLEAN : ChunkBegin(n, l)
    \/ Fill
    \/ DrainBuffer
    \/ DrainFail
    \/ ChunkEnd
    \/ EndBegin
    \/ EndDrain

Next == Wrapper \/ Codec \/ CodecError
Spec == Init /\ [][Next]_vars

ThriftyNext == Wrapper \/ ThriftyCodec \/ CodecError
ThriftySpec == Init /\ [][ThriftyNext]_vars

-----------------------------------------------------------------------------
(* The cursors stay inside the two buffers, input.pos <= input.size <=     *)
(* capacity and output.pos <= capacity, so libzstd and vmemcpy do.  This   *)
(* is not true of drain_buffer's vmemmove, which reads up to 2 * input.pos *)
(* (see Moved).                                                            *)
BuffersInBounds ==
    /\ in_pos <= in_size
    /\ in_size <= InLen
    /\ out_pos <= OutLen

(* The vmemcpy of the loop neither writes behind input.src nor reads       *)
(* behind the caller's slice: pos advances by max_len and not by the       *)
(* copied length, and input left by an earlier call shortens what fits.    *)
CopyInBounds ==
    (pc = "loop" /\ rest_len > 0) =>
        /\ in_size + FillLen <= InLen
        /\ pos + FillLen <= src_len

(* The codec is fed the application's bytes in order, each once: what is   *)
(* waiting in input.src is exactly the stretch that follows what the codec *)
(* has consumed.  drain_buffer's vmemmove keeps this for a thrifty codec.  *)
InputInOrder ==
    pc # "failed" =>
        \A i \in Indices :
            in_pos <= i /\ i < in_size => in_src[i] = eaten + 1 + (i - in_pos)

(* No byte is lost between two calls: what the codec consumed, what waits  *)
(* in the buffer and what is still in the slice add up to what the         *)
(* application handed over.                                                *)
NothingLost ==
    pc # "failed" => eaten + (in_size - in_pos) + rest_len = base + src_len

=============================================================================
