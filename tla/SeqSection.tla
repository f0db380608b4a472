----------------------------- MODULE SeqSection -----------------------------
(*****************************************************************************)
(* The sequences section of a compressed block: for the codes of the literal *)
(* lengths ("ll"), the offsets ("of") and the match lengths ("ml") a table   *)
(* each - the default one, one symbol, a new one or the last one - and one   *)
(* bit stream, written from the last sequence to the first.                  *)
(*   The encoder's tables are fse[kind] = [ct, repeat]; the decoder's        *)
(* dec.fse[kind] and the flag dec.fseEntropy, that there has been one.       *)
(*****************************************************************************)
EXTENDS SeqCodes, FSE

Kinds == <<"ll", "of", "ml">>             \* in the order of the tables
LL_bits == <<0, 0, 0, 0, 0, 0, 0, 0, 0, 0, 0, 0, 0, 0, 0, 0, 1, 1, 1, 1, 2, 2, 3, 3,
             4, 6, 7, 8, 9, 10, 11, 12, 13, 14, 15, 16>>
ML_bits == <<0, 0, 0, 0, 0, 0, 0, 0, 0, 0, 0, 0, 0, 0, 0, 0, 0, 0, 0, 0, 0, 0, 0, 0,
             0, 0, 0, 0, 0, 0, 0, 0, 1, 1, 1, 1, 2, 2, 3, 3, 4, 4, 5, 7, 8, 9, 10, 11,
             12, 13, 14, 15, 16>>
LL_defaultNorm == <<4, 3, 2, 2, 2, 2, 2, 2, 2, 2, 2, 2, 2, 1, 1, 1, 2, 2, 2, 2, 2, 2, 2, 2,
                    2, 3, 2, 1, 1, 1, 1, 1, -1, -1, -1, -1>>
ML_defaultNorm == <<1, 4, 3, 2, 2, 2, 2, 2, 2>> \o [k \in 1 .. 37 |-> 1]
                  \o <<-1, -1, -1, -1, -1, -1, -1>>
OF_defaultNorm == <<1, 1, 1, 1, 1, 1, 2, 2, 2>> \o [k \in 1 .. 15 |-> 1] \o <<-1, -1, -1, -1, -1>>

FromZero(seq) == [s \in 0 .. Len(seq) - 1 |-> seq[s + 1]]
DefaultNorm == [ll |-> FromZero(LL_defaultNorm), of |-> FromZero(OF_defaultNorm),
                ml |-> FromZero(ML_defaultNorm)]
DefaultNormLog == [ll |-> 6, of |-> 5, ml |-> 6]
DefaultMax == [ll |-> 35, of |-> 28, ml |-> 52]
MaxCode == [ll |-> 35, of |-> 31, ml |-> 52]
FSELog  == [ll |-> 9, of |-> 8, ml |-> 9]
ExtraBits(kind, code) ==
  CASE kind = "ll" -> LL_bits[code + 1]
    [] kind = "ml" -> ML_bits[code + 1]
    [] OTHER       -> code
DefaultCTable == [k \in DOMAIN DefaultNorm |-> BuildCTable(DefaultNorm[k], DefaultNormLog[k])]
DefaultDTable == [k \in DOMAIN DefaultNorm |-> BuildDTable(DefaultNorm[k], DefaultNormLog[k])]

(* --------------------------------- codes ------------------------------------ *)

\* LL_base, ML_base, OF_base: the least value of a code.
BaseOf(bits) == LET base[c \in 0 .. Len(bits) - 1] ==
                      IF c = 0 THEN 0 ELSE base[c - 1] + 2^bits[c]
                IN [c \in 0 .. Len(bits) - 1 |-> base[c]]
LL_base == BaseOf(LL_bits)
ML_base == BaseOf(ML_bits)
LLcode(v) == IF v > 63 THEN Highbit(v) + 19
             ELSE CHOOSE c \in 0 .. 24 : LL_base[c] <= v /\ v < LL_base[c] + 2^LL_bits[c + 1]
MLcode(v) == IF v > 127 THEN Highbit(v) + 36
             ELSE CHOOSE c \in 0 .. 42 : ML_base[c] <= v /\ v < ML_base[c] + 2^ML_bits[c + 1]

\* ZSTD_seqToCodes: the one long length of a block has the greatest code.
SeqToCodes(store) ==
  [ll |-> [i \in DOMAIN store.seqs |-> IF IsLong(store, i, "literal") THEN MaxCode.ll
                                       ELSE LLcode(store.seqs[i].ll)],
   of |-> [i \in DOMAIN store.seqs |-> Highbit(store.seqs[i].ob)],
   ml |-> [i \in DOMAIN store.seqs |-> IF IsLong(store, i, "match") THEN MaxCode.ml
                                       ELSE MLcode(store.seqs[i].ml)]]

(* ------------------------------- costs -------------------------------------- *)

InverseProbability ==                     \* floor(-log2(x / 256) * 256), from 1 on
  <<2048, 1792, 1642, 1536, 1453, 1386, 1329, 1280, 1236, 1197, 1162, 1130, 1100, 1073, 1047,
    1024, 1001, 980, 960, 941, 923, 906, 889, 874, 859, 844, 830, 817, 804, 791, 779,
    768, 756, 745, 734, 724, 714, 704, 694, 685, 676, 667, 658, 650, 642, 633, 626,
    618, 610, 603, 595, 588, 581, 574, 567, 561, 554, 548, 542, 535, 529, 523, 517,
    512, 506, 500, 495, 489, 484, 478, 473, 468, 463, 458, 453, 448, 443, 438, 434,
    429, 424, 420, 415, 411, 407, 402, 398, 394, 390, 386, 382, 377, 373, 370, 366,
    362, 358, 354, 350, 347, 343, 339, 336, 332, 329, 325, 322, 318, 315, 311, 308,
    305, 302, 298, 295, 292, 289, 286, 282, 279, 276, 273, 270, 267, 264, 261, 258,
    256, 253, 250, 247, 244, 241, 239, 236, 233, 230, 228, 225, 222, 220, 217, 215,
    212, 209, 207, 204, 202, 199, 197, 194, 192, 190, 187, 185, 182, 180, 178, 175,
    173, 171, 168, 166, 164, 162, 159, 157, 155, 153, 151, 149, 146, 144, 142, 140,
    138, 136, 134, 132, 130, 128, 126, 123, 121, 119, 117, 115, 114, 112, 110, 108,
    106, 104, 102, 100, 98, 96, 94, 93, 91, 89, 87, 85, 83, 82, 80, 78,
    76, 74, 73, 71, 69, 67, 66, 64, 62, 61, 59, 57, 55, 54, 52, 50,
    49, 47, 46, 44, 42, 41, 39, 37, 36, 34, 33, 31, 30, 28, 26, 25,
    23, 22, 20, 19, 17, 16, 14, 13, 11, 10, 8, 7, 5, 4, 2, 1>>

Impossible == 2^29                        \* the cost that is an error
SumCost(count, Cost(_)) ==
  FoldLeftDomain(LAMBDA t, i : IF count[i - 1] = 0 THEN t ELSE t + count[i - 1] * Cost(i - 1),
                 0, [i \in 1 .. Cardinality(DOMAIN count) |-> 0])
UseLowProbCount(nbSeq) == nbSeq >= 2048
NCountCost(count, nbSeq, log0) ==
  LET log == OptimalTableLog(log0, nbSeq, Cardinality(DOMAIN count) - 1, 2)
  IN Bytes8(WriteNCount(NormalizeCount(log, count, nbSeq, UseLowProbCount(nbSeq)).norm, log))
EntropyCost(count, total) ==
  SumCost(count, LAMBDA s : InverseProbability[MostNat((256 * count[s]) \div total, 1)]) \div 256
\* Impossible when the table lacks a symbol.
FseBitCost(ct, count) ==
  LET used == {s \in DOMAIN count : count[s] # 0}
      max  == Cardinality(DOMAIN count) - 1
  IN CASE ct.max < max -> Impossible
       [] ct.max >= max /\ \E s \in used : BitCost(ct, s) >= (ct.log + 1) * 256 -> Impossible
       [] OTHER -> SumCost(count, LAMBDA s : BitCost(ct, s)) \div 256
CrossEntropyCost(norm, log, count) ==
  SumCost(count, LAMBDA s : InverseProbability[Absolute(norm[s]) * 2^(8 - log)]) \div 256

(* ------------------------- which table, and the table ------------------------ *)

\* ZSTD_selectEncodingType.  Fast strategies take the last table without a look at the
\* symbols, when it is "valid" (a dictionary's that codes all of them); the others compare.
Selected(type, repeat) == [type |-> type, repeat |-> repeat]
Cheapest(prev, basic, repeated, new) ==
  IF basic <= repeated /\ basic <= new THEN Selected("basic", "none")
  ELSE IF repeated <= new THEN Selected("repeat", prev.repeat)
  ELSE Selected("compressed", "check")
SelectEncodingType(kind, count, nbSeq, prev, strategy) ==
  LET most    == LargestCount(count)
      allowed == kind # "of" \/ Cardinality(DOMAIN count) - 1 <= DefaultMax.of
      log     == DefaultNormLog[kind]
      fewest  == (2^log * (10 - strategy)) \div 8
  IN CASE most = nbSeq -> Selected(IF allowed /\ nbSeq <= 2 THEN "basic" ELSE "rle", "none")
       [] most # nbSeq /\ strategy < Lazy ->
            IF allowed /\ prev.repeat = "valid" /\ nbSeq < 1000 THEN Selected("repeat", prev.repeat)
            ELSE IF allowed /\ (nbSeq < fewest \/ most < nbSeq \div 2^(log - 1))
            THEN Selected("basic", "none") ELSE Selected("compressed", "check")
       [] OTHER -> Cheapest(prev,
            IF allowed THEN CrossEntropyCost(DefaultNorm[kind], log, count) ELSE Impossible,
            IF prev.repeat = "none" THEN Impossible ELSE FseBitCost(prev.ct, count),
            8 * NCountCost(count, nbSeq, FSELog[kind]) + EntropyCost(count, nbSeq))

\* ZSTD_buildCTable: the last sequence's symbol costs nothing, so it counts once less.
WithHeader(ct, header) == [ct |-> ct, header |-> header, size |-> Bytes8(header)]
TableOfNorm(norm, log) == WithHeader(BuildCTable(norm, log), WriteNCount(norm, log))
BuildSeqCTable(kind, type, count, codes, prev) ==
  LET n     == Len(codes)
      max   == Cardinality(DOMAIN count) - 1
      log   == OptimalTableLog(FSELog[kind], n, max, 2)
      spare == IF count[codes[n]] > 1 THEN 1 ELSE 0
  IN CASE type = "rle"    -> [ct |-> RleCTable(max), header |-> codes[1], size |-> 1]
       [] type = "repeat" -> [ct |-> prev.ct, header |-> <<>>, size |-> 0]
       [] type = "basic"  -> [ct |-> DefaultCTable[kind], header |-> <<>>, size |-> 0]
       [] OTHER -> TableOfNorm(NormalizeCount(log, [count EXCEPT ![codes[n]] = @ - spare], n - spare,
                                              UseLowProbCount(n - spare)).norm, log)

\* ZSTD_buildSequencesStatistics: the three tables; lastCountSize is the size of the last
\* new one.
StatOf(sel, built) ==
  [type |-> sel.type, header |-> built.header, size |-> built.size,
   fse |-> [ct |-> built.ct, repeat |-> sel.repeat]]
StatBy(kind, sel, count, codes, prev) ==
  StatOf(sel, BuildSeqCTable(kind, sel.type, count, codes, prev))
SymbolStatistics(kind, codes, prev, strategy) ==
  LET count == Histogram(codes, MaxSymbolOf(codes))
  IN StatBy(kind, SelectEncodingType(kind, count, Len(codes), prev, strategy), count, codes, prev)
Statistics(t) ==
  LET news == SelectSeq(Kinds, LAMBDA k : t[k].type = "compressed")
  IN [type |-> [k \in DOMAIN t |-> t[k].type], header |-> [k \in DOMAIN t |-> t[k].header],
      fse |-> [k \in DOMAIN t |-> t[k].fse], size |-> t.ll.size + t.of.size + t.ml.size,
      lastCountSize |-> IF news = <<>> THEN 0 ELSE t[news[Len(news)]].size]
SequencesStatistics(store, prev, strategy) ==
  LET codes == SeqToCodes(store)
  IN Statistics(Tabulate([k \in DOMAIN MaxCode |-> SymbolStatistics(k, codes[k], prev[k], strategy)]))

\* ZSTD_buildDummySequencesStatistics: a superblock without sequences; the tables are
\* left as they are, but may not be repeated.
DummyStatistics(next) ==
  [type |-> [k \in DOMAIN MaxCode |-> "basic"], header |-> [k \in DOMAIN MaxCode |-> <<>>],
   fse |-> [k \in DOMAIN MaxCode |-> [next[k] EXCEPT !.repeat = "none"]], size |-> 0,
   lastCountSize |-> 0]

(* ------------------------------ the bit stream ------------------------------- *)

\* ZSTD_encodeSequences: <<>> when it does not fit.  A sequence's symbols go into the
\* stream in the order offset, match, literals, then its extra bits.
ExtraOf(bits, seqs, codes, i) ==
  bits \o Bits(seqs[i].ll, ExtraBits("ll", codes.ll[i]))
       \o Bits(seqs[i].ml, ExtraBits("ml", codes.ml[i])) \o Bits(seqs[i].ob, codes.of[i])
EncodeSequence(e, seqs, codes, fse, i) ==
  LET Encode(bits, state, kind) ==
        EncodeSymbol([bits |-> bits, state |-> state], fse[kind].ct, codes[kind][i])
      of == Encode(e.bits, e.of, "of")
      ml == Encode(of.bits, e.ml, "ml")
      ll == Encode(ml.bits, e.ll, "ll")
  IN [of |-> of.state, ml |-> ml.state, ll |-> ll.state, bits |-> ExtraOf(ll.bits, seqs, codes, i)]
Flushed(e, fse, capacity) ==
  LET Flush(bits, kind) == FlushCState(bits, fse[kind].ct, e[kind])
  IN CloseCStream(Flush(Flush(Flush(e.bits, "ml"), "of"), "ll"), capacity)
EncodeSequences(seqs, codes, fse, capacity) ==
  LET n == Len(seqs)
      Start(kind) == InitCState(fse[kind].ct, codes[kind][n])
  IN IF capacity <= Register THEN <<>>
     ELSE Flushed(FoldRightDomain(LAMBDA i, e : EncodeSequence(e, seqs, codes, fse, i),
                    [k \in 1 .. n - 1 |-> 0],
                    [bits |-> ExtraOf(<<>>, seqs, codes, n), of |-> Start("of"), ml |-> Start("ml"),
                     ll |-> Start("ll")]),
                  fse, capacity)

(* -------------------------------- estimates ---------------------------------- *)

\* ZSTD_estimateBlockSize_symbolType
EstimateSymbols(kind, type, codes, ct) ==
  LET count == Histogram(codes, MaxSymbolOf(codes))
      cost  == CASE type = "basic" -> CrossEntropyCost(DefaultNorm[kind], DefaultNormLog[kind], count)
                 [] type = "rle"   -> 0
                 [] OTHER          -> FseBitCost(ct, count)
  IN IF codes = <<>> THEN 0
     ELSE IF cost = Impossible THEN Len(codes) * 10
     ELSE FoldLeft(LAMBDA t, c : t + ExtraBits(kind, c), cost, codes) \div 8
EstimateSequences(store, st, headSize) ==
  LET codes == SeqToCodes(store)
  IN FoldLeft(LAMBDA t, k : t + EstimateSymbols(k, st.type[k], codes[k], st.fse[k].ct),
              headSize + st.size, Kinds)

(* -------------------------------- the decoder -------------------------------- *)

\* ZSTD_buildSeqTable
NoTable == [ok |-> FALSE]
TableOfHeader(h, kind) ==
  IF ~h.ok \/ h.log > FSELog[kind] THEN NoTable ELSE BuildDTable(h.norm, h.log)
SeqTable(kind, type, header, dec) ==
  CASE type = "rle"    -> IF header > MaxCode[kind] THEN NoTable ELSE RleDTable(header)
    [] type = "basic"  -> DefaultDTable[kind]
    [] type = "repeat" -> IF dec.fseEntropy THEN dec.fse[kind] ELSE NoTable
    [] OTHER           -> TableOfHeader(ReadNCount(header, MaxCode[kind]), kind)

\* ZSTD_decodeSequence: the extra bits in the order offset, match, literals; the states in
\* the order literals, match, offset, but not after the last sequence.
DecodeSequence(r, fse, isLast) ==
  LET ofCode == fse.of.cell[r.of].symbol
      mlCode == fse.ml.cell[r.ml].symbol
      llCode == fse.ll.cell[r.ll].symbol
      of   == ReadBits(r.d, ofCode)
      ml   == ReadBits(of.d, ML_bits[mlCode + 1])
      ll   == ReadBits(ml.d, LL_bits[llCode + 1])
      litLength == LL_base[llCode] + ll.val
      off  == DecodeOffset(r.reps, 2^ofCode + of.val, litLength = 0)
      llState == UpdateState(ll.d, fse.ll, r.ll)
      mlState == UpdateState(llState.d, fse.ml, r.ml)
      ofState == UpdateState(mlState.d, fse.of, r.of)
      read == [r EXCEPT !.reps = off.prev, !.d = ll.d,
                        !.out = Append(@, [ll |-> litLength, of |-> off.offset,
                                           ml |-> ML_base[mlCode] + ml.val + MinMatch])]
  IN IF isLast THEN read
     ELSE [read EXCEPT !.d = ofState.d, !.ll = llState.val, !.ml = mlState.val, !.of = ofState.val]

\* ZSTD_decodeSeqHeaders and the bit stream: the sequences, with what they are applied to.
\* The stream must be used up, to the last bit.
NoSequences(dec) == [ok |-> FALSE, out |-> <<>>, dec |-> dec]
SequencesBlock(r, fse, dec) ==
  IF ~EndOfDStream(r.d) THEN NoSequences(dec)
  ELSE [ok |-> TRUE, out |-> r.out, dec |-> [dec EXCEPT !.fse = fse, !.reps = r.reps, !.fseEntropy = TRUE]]
DecodeAll(sec, fse, dec, ll, of, ml) ==
  SequencesBlock(FoldLeftDomain(LAMBDA r, i : DecodeSequence(r, fse, i = sec.nbSeq),
                   [d |-> ml.d, ll |-> ll.val, of |-> of.val, ml |-> ml.val, reps |-> dec.reps, out |-> <<>>],
                   [i \in 1 .. sec.nbSeq |-> 0]),
                 fse, dec)
DecodeFrom(sec, fse, dec, d) ==
  LET ll == InitDState(d, fse.ll)
      of == InitDState(ll.d, fse.of)
  IN IF d.ok THEN DecodeAll(sec, fse, dec, ll, of, InitDState(of.d, fse.ml)) ELSE NoSequences(dec)
DecodeWith(sec, fse, dec) ==
  IF \E k \in DOMAIN MaxCode : ~fse[k].ok THEN NoSequences(dec)
  ELSE DecodeFrom(sec, fse, dec, InitDStream(sec.stream))
DecodeSequences(sec, dec) ==
  IF sec.nbSeq = 0 THEN [ok |-> TRUE, out |-> <<>>, dec |-> dec]
  ELSE DecodeWith(sec, Tabulate([k \in DOMAIN MaxCode |-> SeqTable(k, sec.type[k], sec.header[k], dec)]), dec)
=============================================================================
