-------------------------------- MODULE HUFD -------------------------------
(******************************************************************************)
(* Huffman decoding of literals (huf_decompress.c): the tables of one and of  *)
(* two symbols per look-up, one stream, and four streams decoded in turn,     *)
(* either stream by stream or by the fast loop, whose bit containers may look *)
(* below the stream they belong to.                                           *)
(*   A table is [log, x2, cell]; cell is the sequence of its runs of equal    *)
(* entries [start, len, out, nb]: the symbols a look-up yields and the bits   *)
(* they take.                                                                 *)
(******************************************************************************)
EXTENDS HUF

HUF_DECODER_FAST_TABLELOG == 11

(* -------------------------------- tables ----------------------------------- *)

\* The symbols of a weight, in order.
OfWeight(st, w) ==
  SelectSeq([i \in 1 .. Cardinality(DOMAIN st.weights) |-> i - 1], LAMBDA s : st.weights[s] = w)
Run(start, len, out, nb) == [start |-> start, len |-> len, out |-> out, nb |-> nb]

\* HUF_rescaleStats and HUF_readDTableX1: the lightest symbols, with the longest
\* codes, come first.
TableX1(st, maxLog) ==
  LET log   == MostNat(st.log, LeastNat(maxLog + 1, HUF_DECODER_FAST_TABLELOG))
      order == FoldLeftDomain(LAMBDA q, w : q \o OfWeight(st, w), <<>>, [w \in 1 .. st.log |-> 0])
      fill(t, s) == LET w == st.weights[s] + log - st.log
                    IN [next |-> t.next + 2^(w - 1),
                        cell |-> Append(t.cell, Run(t.next, 2^(w - 1), <<s>>, log + 1 - w))]
  IN [ok |-> log <= maxLog + 1, log |-> log, x2 |-> FALSE,
      cell |-> FoldLeft(fill, [next |-> 0, cell |-> <<>>], order).cell]

\* HUF_fillDTableX2ForWeight: the symbols of one weight, one after the other.
FillForWeight(start, symbols, nb, log, base) ==
  [k \in 1 .. Len(symbols) |-> Run(start + (k - 1) * 2^(log - nb), 2^(log - nb),
                                   Append(base, symbols[k]), nb)]

\* HUF_fillDTableX2: after a symbol of nb bits, where the shortest code still fits, the
\* cells hold a second symbol as well; those whose second code would be too long none.
TableX2(st, maxLog0) ==
  LET maxLog == IF st.log <= HUF_DECODER_FAST_TABLELOG
                THEN LeastNat(maxLog0, HUF_DECODER_FAST_TABLELOG) ELSE maxLog0
      maxW   == CHOOSE w \in 1 .. st.log : /\ OfWeight(st, w) # <<>>
                                           /\ \A v \in w + 1 .. st.log : OfWeight(st, v) = <<>>
      base   == st.log + 1
      scale  == base - maxLog
      \* The first cell of a weight, in the part of the table after the consumed bits.
      At(w, consumed) ==
        FoldLeftDomain(LAMBDA t, v : t + Len(OfWeight(st, v)) * 2^(v - scale),
                       0, [v \in 1 .. w - 1 |-> 0]) \div 2^consumed
      Second(s, start, nb) ==
        LET least == MostNat(nb + scale, 1)
            alone == IF least > 1 THEN <<Run(start, At(least, nb), <<s>>, nb)>> ELSE <<>>
        IN FoldLeftDomain(LAMBDA q, v : IF v < least THEN q ELSE q \o
             FillForWeight(start + At(v, nb), OfWeight(st, v), base - v + nb, maxLog, <<s>>),
             alone, [v \in 1 .. maxW |-> 0])
      First(q, w) ==
        LET nb   == base - w
            list == OfWeight(st, w)
        IN IF maxLog - nb >= base - maxW
           THEN FoldLeftDomain(LAMBDA p, k :
                  p \o Second(list[k], At(w, 0) + (k - 1) * 2^(maxLog - nb), nb), q, list)
           ELSE q \o FillForWeight(At(w, 0), list, nb, maxLog, <<>>)
  IN [ok |-> st.log <= maxLog0, log |-> maxLog, x2 |-> TRUE,
      cell |-> FoldLeftDomain(First, <<>>, [w \in 1 .. maxW |-> 0])]

(* ----------------------------- one stream ---------------------------------- *)

\* One look-up (HUF_decodeSymbolX1, HUF_decodeSymbolX2).
Entry(dt, d) ==
  LET val == LookBits(d, dt.log)
      i   == CHOOSE i \in DOMAIN dt.cell :
               dt.cell[i].start <= val /\ val < dt.cell[i].start + dt.cell[i].len
  IN dt.cell[i]
\* r: [out, d]
DecodeSymbol(dt, r) ==
  LET e == Entry(dt, r.d) IN [r EXCEPT !.out = @ \o e.out, !.d = SkipBits(@, e.nb)]
\* HUF_decodeLastSymbolX2: the entry may hold a second symbol that is not there.
DecodeLast(dt, r) ==
  LET e == Entry(dt, r.d)
  IN [r EXCEPT !.out = Append(@, e.out[1]),
               !.d = IF Len(e.out) = 1 THEN SkipBits(@, e.nb)
                     ELSE IF @.left > 0 THEN [@ EXCEPT !.left = MostNat(@ - e.nb, 0)] ELSE @]

\* HUF_decodeStreamX1 and X2: r.out grows to n symbols.
RECURSIVE DecodeStream(_, _, _)
DecodeStream(dt, r, n) ==
  CASE Len(r.out) >= n -> r
    [] dt.x2 /\ Len(r.out) = n - 1 -> DecodeLast(dt, r)
    [] OTHER -> DecodeStream(dt, DecodeSymbol(dt, r), n)

WhenEnded(r) == IF EndOfDStream(r.d) THEN [ok |-> TRUE, out |-> r.out] ELSE NoSymbols
FromStart(d, dt, n) ==
  IF d.ok THEN WhenEnded(DecodeStream(dt, [out |-> <<>>, d |-> d], n)) ELSE NoSymbols
Decompress1X(bits, dt, n) == IF dt.ok THEN FromStart(InitDStream(bits), dt, n) ELSE NoSymbols

(* ----------------------------- four streams -------------------------------- *)

Four(Each(_)) == <<Each(1), Each(2), Each(3), Each(4)>>
\* A stream with the place (in bytes) its container was loaded from.
RECURSIVE DecodeTimes(_, _, _)
DecodeTimes(dt, r, times) ==
  IF times = 0 THEN r ELSE DecodeTimes(dt, DecodeSymbol(dt, r), times - 1)
\* The container moves down by the whole bytes consumed.
Reload(r) == [r EXCEPT !.ip = @ - (8 * (@ + Register) - r.d.left) \div 8]
Segment(n, i) == LET s == (n + 3) \div 4 IN IF i < 4 THEN s ELSE n - 3 * s

\* HUF_decompress4X1/4X2_usingDTable_internal_body: four look-ups per stream while
\* every stream has a full container left; then one stream after the other.
RECURSIVE InTurn(_, _, _, _)
NextTurn(dt, four, n) ==
  InTurn(dt, Four(LAMBDA i : IF four[i].ip >= Register THEN Reload(four[i]) ELSE four[i]), n,
         \A i \in 1 .. 4 : four[i].ip >= Register)
InTurn(dt, rs, n, going) ==
  IF ~going \/ Len(rs[4].out) >= Segment(n, 4) - (IF dt.x2 THEN 7 ELSE 3) THEN rs
  ELSE NextTurn(dt, Four(LAMBDA i : DecodeTimes(dt, rs[i], 4)), n)

AllEnded(rs) ==
  IF \E i \in 1 .. 4 : ~EndOfDStream(rs[i].d) THEN NoSymbols
  ELSE [ok |-> TRUE, out |-> rs[1].out \o rs[2].out \o rs[3].out \o rs[4].out]
Remainders(rs, dt, n) ==
  IF \E i \in 1 .. 3 : Len(rs[i].out) > Segment(n, i) THEN NoSymbols
  ELSE AllEnded(Four(LAMBDA i : DecodeStream(dt, rs[i], Segment(n, i))))
FromStarts(rs, dt, n) ==
  IF \E i \in 1 .. 4 : ~rs[i].d.ok THEN NoSymbols
  ELSE Remainders(IF Segment(n, 4) >= Register THEN InTurn(dt, rs, n, TRUE) ELSE rs, dt, n)
Decompress4X(streams, dt, n) ==
  LET size == FoldLeft(LAMBDA t, s : t + Bytes8(s), 6, streams)
  IN IF size < 10 \/ n < 6 \/ Segment(n, 4) < 0 \/ ~dt.ok THEN NoSymbols
     ELSE FromStarts(Four(LAMBDA i : [out |-> <<>>, d |-> InitDStream(streams[i]),
                                      ip |-> MostNat(Bytes8(streams[i]) - Register, 0)]), dt, n)

(* ------------------------------ the fast loop ------------------------------ *)

\* The four streams in one string of bits, behind the table of their sizes; a stream
\* that is read too far reads the one before it.
JumpTable(streams) ==
  Bits(Bytes8(streams[1]), 16) \o Bits(Bytes8(streams[2]), 16) \o Bits(Bytes8(streams[3]), 16)
StreamStart(streams, i) ==
  FoldLeftDomain(LAMBDA t, k : t + Bytes8(streams[k]), 6, [k \in 1 .. i - 1 |-> 0])

\* HUF_DecompressFastArgs_init: may the fast loop be used, and its start.
FastUsable(streams, dt, n) ==
  /\ n > 0 /\ dt.log = HUF_DECODER_FAST_TABLELOG
  /\ \A i \in 1 .. 4 : Bytes8(streams[i]) >= Register
  /\ Segment(n, 4) > 0
FastStartIn(all, streams) ==
  Four(LAMBDA i : [out |-> <<>>, ip |-> StreamStart(streams, i) + Bytes8(streams[i]) - Register,
                   d |-> [ok |-> TRUE, bits |-> all,
                          left |-> 8 * StreamStart(streams, i) + InitDStream(streams[i]).left]])
FastStart(streams) ==
  FastStartIn(JumpTable(streams) \o streams[1] \o streams[2] \o streams[3] \o streams[4], streams)

\* Five look-ups per stream, as often as the first stream's input (7 bytes) and the
\* outputs allow; X1 has room when the last stream has.
FastIterations(dt, rs, n) ==
  LET room == IF dt.x2 THEN {(Segment(n, i) - Len(rs[i].out)) \div 10 : i \in 1 .. 4}
              ELSE {(Segment(n, 4) - Len(rs[4].out)) \div 5}
  IN CHOOSE k \in room \cup {rs[1].ip \div 7} :
       \A j \in room \cup {rs[1].ip \div 7} : k <= j
RECURSIVE FastRun(_, _, _), FastLoop(_, _, _)
FastAgain(dt, five, limit) == IF Len(five[4].out) < limit THEN FastRun(dt, five, limit) ELSE five
FastRun(dt, rs, limit) == FastAgain(dt, Four(LAMBDA i : Reload(DecodeTimes(dt, rs[i], 5))), limit)
FastLoop(dt, rs, n) ==
  LET iters == FastIterations(dt, rs, n)
  IN IF iters = 0 \/ \E i \in 2 .. 4 : rs[i].ip < rs[i - 1].ip THEN rs
     ELSE FastLoop(dt, FastRun(dt, rs, Len(rs[4].out) + 5 * iters), n)

\* HUF_initRemainingDStream and the rest of each stream.
FastRest(rs, streams, dt, n) ==
  LET Rest(i) == DecodeStream(dt, rs[i], Segment(n, i)).out
  IN IF \E i \in 1 .. 4 : \/ Len(rs[i].out) > Segment(n, i)
                          \/ rs[i].ip < StreamStart(streams, i) - Register
     THEN NoSymbols
     ELSE [ok |-> TRUE, out |-> Rest(1) \o Rest(2) \o Rest(3) \o Rest(4)]
DecompressFast(streams, dt, n) == FastRest(FastLoop(dt, FastStart(streams), n), streams, dt, n)

DecompressFour(streams, dt, n) ==
  IF FastUsable(streams, dt, n) THEN DecompressFast(streams, dt, n)
  ELSE Decompress4X(streams, dt, n)

(* -------------------------------- selection -------------------------------- *)

\* algoTime: for each sixteenth of compression, the time of the table and of 256
\* symbols, for one and for two symbols per look-up.
AlgoTime ==
  << <<0, 0, 1, 1>>, <<0, 0, 1, 1>>, <<150, 216, 381, 119>>, <<170, 205, 514, 112>>,
     <<177, 199, 539, 110>>, <<197, 194, 644, 107>>, <<221, 192, 735, 107>>,
     <<256, 189, 881, 106>>, <<359, 188, 1167, 109>>, <<582, 187, 1570, 114>>,
     <<688, 187, 1712, 122>>, <<825, 186, 1965, 136>>, <<976, 185, 2131, 150>>,
     <<1180, 186, 2070, 175>>, <<1377, 185, 1731, 202>>, <<1412, 185, 1695, 202>> >>
SelectDecoder(dstSize, srcSize) ==
  LET t    == AlgoTime[IF srcSize >= dstSize THEN 16 ELSE 1 + ((srcSize * 16) \div dstSize)]
      d256 == dstSize \div 256
      one  == t[1] + t[2] * d256
      two  == t[3] + t[4] * d256
  IN two + two \div 32 < one

\* A new table (header), decoded by the kind the sizes or the build (forceX2) select.
TableOfStats(st, x2, maxLog) ==
  IF ~st.ok THEN [ok |-> FALSE] ELSE IF x2 THEN TableX2(st, maxLog) ELSE TableX1(st, maxLog)
TableFor(header, x2, maxLog) == TableOfStats(ReadStats(header), x2, maxLog)
\* HUF_decompress1X_usingDTable, 4X_usingDTable: the kind is the table's.
UsingDTable(streams, dt, n) ==
  IF Len(streams) = 1 THEN Decompress1X(streams[1], dt, n) ELSE DecompressFour(streams, dt, n)
=============================================================================
