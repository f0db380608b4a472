------------------------ MODULE StreamContextProofs ------------------------
(***************************************************************************)
(* Proofs about StreamContext, for buffers, slices and streams of any      *)
(* length and for every codec that honours the buffer contract.            *)
(***************************************************************************)
EXTENDS StreamContext, TLAPS

(* The loop's bookkeeping: outside a call there is no slice, and as long   *)
(* as bytes of the slice are left, pos is their offset.                    *)
LoopInv ==
    /\ pc \notin {"loop", "codec", "drain"} => src_len = 0 /\ rest_len = 0
    /\ rest_len <= src_len
    /\ pc \in {"loop", "drain"} /\ rest_len > 0 => pos + rest_len = src_len
    /\ pc = "codec" /\ rest_len > 0 => pos + rest_len = src_len

BoundsInv == TypeOK /\ BuffersInBounds /\ LoopInv

(* The steps with a codec whose hint is any number, as a codec that tells  *)
(* how much it has left to flush returns it.                               *)
HintingCodec ==
    \E ip \in in_pos .. in_size, op \in out_pos .. OutLen, r \in Nat :
        CodecReturn(ip, op, r)
HintNext == Wrapper \/ HintingCodec \/ CodecError
ThriftyHintingCodec ==
    \E ip \in in_pos .. in_size, op \in out_pos .. OutLen, r \in Nat :
        Thrifty(ip) /\ CodecReturn(ip, op, r)
ThriftyHintNext == Wrapper \/ ThriftyHintingCodec \/ CodecError

(* The codec of StreamContext hints 0 or 1.                                *)
LEMMA NextIsHinting == [Next]_vars => [HintNext]_vars
  BY DEF Next, HintNext, Codec, HintingCodec
(* So does the thrifty one.                                                *)
LEMMA ThriftyIsHinting == [ThriftyNext]_vars => [ThriftyHintNext]_vars
  BY DEF ThriftyNext, ThriftyHintNext, ThriftyCodec, ThriftyHintingCodec

USE InLenAssumption, OutLenAssumption, ChunkLensAssumption, MaxBytesAssumption

(* The states new_stream_context builds satisfy the bounds.                *)
LEMMA InitBounds == Init => BoundsInv
  <1> SUFFICES ASSUME Init PROVE BoundsInv
    OBVIOUS
  <1>1. in_src \in [Indices -> Nat]
    BY DEF Init, Foreign
  <1>2. last \in BOOLEAN
    BY DEF Init
  <1> QED BY <1>1, <1>2 DEF Init, BoundsInv, TypeOK, BuffersInBounds, LoopInv,
                            Locations, Results

(* Filling keeps the contents of the array bytes.                          *)
LEMMA CopiedType ==
    ASSUME TypeOK, NEW len \in Nat
    PROVE  Copied(len) \in [Indices -> Nat]
  <1>1. \A i \in Indices : i \in in_size .. in_size + len - 1
                           => base + pos + (i - in_size) + 1 \in Nat
    BY DEF TypeOK, Indices
  <1> QED BY <1>1 DEF Copied, TypeOK

(* So does moving.                                                         *)
LEMMA MovedType ==
    ASSUME TypeOK
    PROVE  Moved \in [Indices -> Nat]
  <1>1. \A i \in Indices : in_pos + i < InLen => in_src[in_pos + i] \in Nat
    BY DEF TypeOK, Indices
  <1> QED BY <1>1 DEF Moved, TypeOK, Foreign

(* What one iteration copies fits behind input.size and is part of the     *)
(* slice.                                                                  *)
LEMMA FillFits ==
    ASSUME BoundsInv, pc = "loop", rest_len > 0
    PROVE  /\ FillLen \in Nat
           /\ max_len \in Nat
           /\ in_size + FillLen <= InLen
           /\ FillLen <= rest_len
           /\ FillLen <= max_len
           /\ rest_len - FillLen \in Nat
           /\ rest_len - FillLen > 0 => FillLen = max_len
           /\ pos + FillLen <= src_len
  BY DEF BoundsInv, TypeOK, BuffersInBounds, LoopInv, FillLen, max_len, LeastOf

(* Every step of the wrapper and of the codec keeps the bounds.            *)
LEMMA StepBounds == BoundsInv /\ [HintNext]_vars => BoundsInv'
  <1> SUFFICES ASSUME BoundsInv, [HintNext]_vars
               PROVE  BoundsInv'
    OBVIOUS
  <1> USE DEF BoundsInv, TypeOK, BuffersInBounds, LoopInv, Locations, Results
  <1>1. CASE Reset
    BY <1>1 DEF Reset
  <1>2. ASSUME NEW n \in ChunkLens, NEW l \in BOOLEAN, ChunkBegin(n, l)
        PROVE  BoundsInv'
    BY <1>2 DEF ChunkBegin
  <1>3. CASE Fill
    <2>1. /\ FillLen \in Nat /\ max_len \in Nat
          /\ in_size + FillLen <= InLen
          /\ FillLen <= rest_len
          /\ rest_len - FillLen \in Nat
          /\ rest_len - FillLen > 0 => FillLen = max_len
      BY <1>3, FillFits DEF Fill
    <2>2. in_src' \in [Indices -> Nat]
      BY <1>3, <2>1, CopiedType DEF Fill
    <2> QED BY <1>3, <2>1, <2>2 DEF Fill
  <1>4. ASSUME NEW ip \in in_pos .. in_size, NEW op \in out_pos .. OutLen,
               NEW r \in Nat, CodecReturn(ip, op, r)
        PROVE  BoundsInv'
    BY <1>4 DEF CodecReturn
  <1>5. ASSUME NEW ip \in in_pos .. in_size, NEW op \in out_pos .. OutLen,
               CodecFail(ip, op)
        PROVE  BoundsInv'
    BY <1>5 DEF CodecFail, Fail
  <1>6. CASE DrainBuffer
    <2>1. in_src' \in [Indices -> Nat]
      BY <1>6, MovedType DEF DrainBuffer, Compact
    <2> QED BY <1>6, <2>1 DEF DrainBuffer, Compact, callVars
  <1>7. CASE DrainFail
    BY <1>7 DEF DrainFail, Fail, bufVars
  <1>8. CASE ChunkEnd
    BY <1>8 DEF ChunkEnd, Fail, bufVars
  <1>9. CASE EndBegin
    BY <1>9 DEF EndBegin, bufVars
  <1>10. CASE EndDrain
    <2>1. in_src' \in [Indices -> Nat]
      BY <1>10, MovedType DEF EndDrain, Compact
    <2> QED BY <1>10, <2>1 DEF EndDrain, Compact, callVars
  <1>11. CASE UNCHANGED vars
    BY <1>11 DEF vars
  <1> QED
    BY <1>1, <1>2, <1>3, <1>4, <1>5, <1>6, <1>7, <1>8, <1>9, <1>10, <1>11
    DEF HintNext, Wrapper, HintingCodec, CodecError

(* Type correctness of the wrapper's state, with any codec.                *)
THEOREM TypeCorrect == Spec => []TypeOK
  <1>1. BoundsInv => TypeOK
    BY DEF BoundsInv
  <1> QED BY <1>1, InitBounds, NextIsHinting, StepBounds, PTL DEF Spec

(* No cursor of the two buffers ever leaves them, whatever slices the      *)
(* application passes and whatever the codec does within its contract.     *)
THEOREM BoundsSafe == Spec => []BuffersInBounds
  <1>1. BoundsInv => BuffersInBounds
    BY DEF BoundsInv
  <1> QED BY <1>1, InitBounds, NextIsHinting, StepBounds, PTL DEF Spec

(* The loop's memory copy stays inside input.src and inside the slice,     *)
(* for every combination of lengths.                                       *)
THEOREM CopySafe == Spec => []CopyInBounds
  <1>1. BoundsInv => CopyInBounds
    BY FillFits DEF CopyInBounds
  <1> QED BY <1>1, InitBounds, NextIsHinting, StepBounds, PTL DEF Spec

-----------------------------------------------------------------------------
(* Every step keeps the count of bytes.                                    *)
LEMMA StepNothingLost ==
    BoundsInv /\ NothingLost /\ [HintNext]_vars => NothingLost'
  <1> SUFFICES ASSUME BoundsInv, NothingLost, [HintNext]_vars
               PROVE  NothingLost'
    OBVIOUS
  <1> USE DEF BoundsInv, TypeOK, BuffersInBounds, LoopInv, Locations, Results,
              NothingLost
  <1>1. CASE Reset
    BY <1>1 DEF Reset
  <1>2. ASSUME NEW n \in ChunkLens, NEW l \in BOOLEAN, ChunkBegin(n, l)
        PROVE  NothingLost'
    BY <1>2 DEF ChunkBegin
  <1>3. CASE Fill
    BY <1>3, FillFits DEF Fill
  <1>4. ASSUME NEW ip \in in_pos .. in_size, NEW op \in out_pos .. OutLen,
               NEW r \in Nat, CodecReturn(ip, op, r)
        PROVE  NothingLost'
    BY <1>4 DEF CodecReturn
  <1>5. ASSUME NEW ip \in in_pos .. in_size, NEW op \in out_pos .. OutLen,
               CodecFail(ip, op)
        PROVE  NothingLost'
    BY <1>5 DEF CodecFail, Fail
  <1>6. CASE DrainBuffer
    BY <1>6 DEF DrainBuffer, Compact, callVars
  <1>7. CASE DrainFail
    BY <1>7 DEF DrainFail, Fail
  <1>8. CASE ChunkEnd
    BY <1>8 DEF ChunkEnd, Fail, bufVars
  <1>9. CASE EndBegin
    BY <1>9 DEF EndBegin, bufVars
  <1>10. CASE EndDrain
    BY <1>10 DEF EndDrain, Compact, callVars
  <1>11. CASE UNCHANGED vars
    BY <1>11 DEF vars
  <1> QED
    BY <1>1, <1>2, <1>3, <1>4, <1>5, <1>6, <1>7, <1>8, <1>9, <1>10, <1>11
    DEF HintNext, Wrapper, HintingCodec, CodecError

(* As long as no call has failed, no byte the application handed over is   *)
(* dropped between the slice, the staging buffer and the codec, although   *)
(* drain_buffer may leave input behind after every codec call.             *)
THEOREM NothingLostSafe == Spec => []NothingLost
  <1>1. Init => NothingLost
    BY DEF Init, NothingLost
  <1> QED BY <1>1, InitBounds, NextIsHinting, StepBounds, StepNothingLost, PTL DEF Spec

-----------------------------------------------------------------------------
(* Before drain_buffer moves the input, a thrifty codec has taken nothing, *)
(* all or at least half of it.                                             *)
ThriftInv == pc \in {"drain", "enddrain"} => Thrifty(in_pos)

OrderInv == BoundsInv /\ NothingLost /\ ThriftInv /\ InputInOrder

(* A thrifty step is a step.                                               *)
LEMMA ThriftyHintIsHint == [ThriftyHintNext]_vars => [HintNext]_vars
  BY DEF ThriftyHintNext, HintNext, ThriftyHintingCodec, HintingCodec

(* The copy puts the next bytes of the slice behind the ones that wait.    *)
LEMMA FillKeepsOrder ==
    ASSUME BoundsInv, NothingLost, InputInOrder, Fill
    PROVE  InputInOrder'
  <1> DEFINE n == FillLen
  <1>1. /\ n \in Nat /\ in_size + n <= InLen
        /\ base + pos = eaten + (in_size - in_pos)
    BY FillFits DEF Fill, BoundsInv, TypeOK, BuffersInBounds, LoopInv, NothingLost
  <1>2. /\ in_size' = in_size + n /\ in_pos' = in_pos /\ eaten' = eaten
        /\ in_src' = Copied(n) /\ pc = "loop"
    BY DEF Fill
  <1> SUFFICES ASSUME NEW i \in Indices, in_pos <= i, i < in_size + n
               PROVE  Copied(n)[i] = eaten + 1 + (i - in_pos)
    BY <1>2 DEF InputInOrder
  <1>3. CASE i < in_size
    <2>1. Copied(n)[i] = in_src[i]
      BY <1>1, <1>3 DEF Copied, Indices, BoundsInv, TypeOK
    <2> QED BY <2>1, <1>2, <1>3 DEF InputInOrder
  <1>4. CASE i >= in_size
    <2>1. Copied(n)[i] = base + pos + (i - in_size) + 1
      BY <1>1, <1>4 DEF Copied, Indices, BoundsInv, TypeOK
    <2> QED BY <2>1, <1>1 DEF BoundsInv, TypeOK, Indices
  <1> QED BY <1>3, <1>4 DEF Indices, BoundsInv, TypeOK

(* The move keeps the order when the codec was thrifty: the input.pos      *)
(* bytes it copies cover everything that waits.                            *)
LEMMA CompactKeepsOrder ==
    ASSUME BoundsInv, InputInOrder, pc # "failed", Thrifty(in_pos), Compact,
           eaten' = eaten
    PROVE  InputInOrder'
  <1>1. in_pos' = 0 /\ in_size' = in_size - in_pos
    BY DEF Compact
  <1> SUFFICES ASSUME NEW i \in Indices, 0 <= i, i < in_size - in_pos
               PROVE  in_src'[i] = eaten + 1 + i
    BY <1>1 DEF InputInOrder, Indices
  <1>2. in_src' = Moved
    <2>1. in_pos # in_size
      BY DEF BoundsInv, TypeOK, Indices
    <2> QED BY <2>1 DEF Compact
  <1>3. in_pos + i \in Indices /\ in_pos + i < in_size /\ in_pos <= in_pos + i
    BY DEF BoundsInv, TypeOK, BuffersInBounds, Indices
  <1>4. in_src[in_pos + i] = eaten + 1 + i
    BY <1>3 DEF InputInOrder, BoundsInv, TypeOK, Indices
  <1>5. CASE in_pos = 0
    <2>1. in_pos + i = i /\ ~ (i < in_pos)
      BY <1>5 DEF Indices
    <2>2. Moved[i] = in_src[i]
      BY <2>1 DEF Moved
    <2> QED BY <1>2, <1>4, <2>1, <2>2
  <1>6. CASE in_pos # 0
    <2>1. i < in_pos
      BY <1>6 DEF Thrifty, BoundsInv, TypeOK, Indices
    <2> QED BY <1>2, <1>3, <1>4, <2>1 DEF Moved, Indices, BoundsInv, TypeOK
  <1> QED BY <1>5, <1>6

(* Nothing waits in a new context.                                         *)
LEMMA InitOrder == Init => OrderInv
  <1>1. Init => NothingLost /\ ThriftInv /\ InputInOrder
    BY DEF Init, NothingLost, ThriftInv, InputInOrder, Indices
  <1> QED BY <1>1, InitBounds DEF OrderInv

(* Every step with a thrifty codec keeps the order.                        *)
LEMMA StepOrder == OrderInv /\ [ThriftyHintNext]_vars => OrderInv'
  <1> SUFFICES ASSUME OrderInv, [ThriftyHintNext]_vars
               PROVE  OrderInv'
    OBVIOUS
  <1>0. BoundsInv' /\ NothingLost'
    BY ThriftyHintIsHint, StepBounds, StepNothingLost DEF OrderInv
  <1> SUFFICES ThriftInv' /\ InputInOrder'
    BY <1>0 DEF OrderInv
  <1> USE DEF OrderInv, ThriftInv
  <1>1. CASE Reset
    BY <1>1 DEF Reset, InputInOrder, BoundsInv, TypeOK, Indices
  <1>2. ASSUME NEW n \in ChunkLens, NEW l \in BOOLEAN, ChunkBegin(n, l)
        PROVE  ThriftInv' /\ InputInOrder'
    BY <1>2 DEF ChunkBegin, InputInOrder
  <1>3. CASE Fill
    <2>1. ThriftInv'
      BY <1>3 DEF Fill
    <2> QED BY <1>3, <2>1, FillKeepsOrder
  <1>4. ASSUME NEW ip \in in_pos .. in_size, NEW op \in out_pos .. OutLen,
               NEW r \in Nat, Thrifty(ip), CodecReturn(ip, op, r)
        PROVE  ThriftInv' /\ InputInOrder'
    <2>1. ThriftInv'
      BY <1>4 DEF CodecReturn, Thrifty
    <2>2. ASSUME NEW i \in Indices, ip <= i, i < in_size
          PROVE  in_src[i] = eaten + (ip - in_pos) + 1 + (i - ip)
      <3>1. in_pos <= i
        BY <2>2 DEF Indices, BoundsInv, TypeOK
      <3>2. in_src[i] = eaten + 1 + (i - in_pos)
        BY <1>4, <2>2, <3>1 DEF InputInOrder, CodecReturn
      <3> QED BY <3>2 DEF Indices, BoundsInv, TypeOK
    <2>3. InputInOrder'
      BY <1>4, <2>2 DEF CodecReturn, InputInOrder
    <2> QED BY <2>1, <2>3
  <1>5. ASSUME NEW ip \in in_pos .. in_size, NEW op \in out_pos .. OutLen,
               CodecFail(ip, op)
        PROVE  ThriftInv' /\ InputInOrder'
    BY <1>5 DEF CodecFail, Fail, InputInOrder
  <1>6. CASE DrainBuffer
    <2>1. ThriftInv'
      BY <1>6 DEF DrainBuffer
    <2>2. InputInOrder'
      BY <1>6, CompactKeepsOrder DEF DrainBuffer
    <2> QED BY <2>1, <2>2
  <1>7. CASE DrainFail
    BY <1>7 DEF DrainFail, Fail, InputInOrder
  <1>8. CASE ChunkEnd
    BY <1>8 DEF ChunkEnd, Fail, bufVars, InputInOrder
  <1>9. CASE EndBegin
    BY <1>9 DEF EndBegin, bufVars, InputInOrder
  <1>10. CASE EndDrain
    <2>1. ThriftInv'
      BY <1>10 DEF EndDrain
    <2>2. CASE out_pos > 0
      BY <1>10, <2>1, <2>2, CompactKeepsOrder DEF EndDrain
    <2>3. CASE ~ (out_pos > 0)
      BY <1>10, <2>1, <2>3 DEF EndDrain, InputInOrder
    <2> QED BY <2>2, <2>3
  <1>11. CASE UNCHANGED vars
    BY <1>11 DEF vars, InputInOrder, Thrifty
  <1> QED
    BY <1>1, <1>2, <1>3, <1>4, <1>5, <1>6, <1>7, <1>8, <1>9, <1>10, <1>11
    DEF ThriftyHintNext, Wrapper, ThriftyHintingCodec, CodecError

(* With a thrifty codec the bytes reach it in the order in which the       *)
(* application handed them over, for buffers and slices of any length:     *)
(* the vmemmove of drain_buffer, which copies input.pos bytes and not      *)
(* input.size - input.pos, is harmless exactly under this condition.       *)
THEOREM InputOrderSafe == ThriftySpec => []InputInOrder
  <1>1. OrderInv => InputInOrder
    BY DEF OrderInv
  <1> QED BY <1>1, InitOrder, ThriftyIsHinting, StepOrder, PTL DEF ThriftySpec
=============================================================================
