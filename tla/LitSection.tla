----------------------------- MODULE LitSection -----------------------------
(******************************************************************************)
(* The literals section of a compressed block: raw, one repeated byte, or     *)
(* Huffman coded with a table of its own or ("repeat") the last one.  The     *)
(* encoder keeps its table as huf = [ct, repeat], where repeat says what it   *)
(* knows about the table: "none" there is none, "check" it may lack symbols,  *)
(* "valid" it codes every byte.  The decoder keeps dec = [table, litEntropy]. *)
(*   A section is a record with its type; sizes are in bytes as the code      *)
(* counts them, size -1 is dstSize_tooSmall.                                  *)
(******************************************************************************)
EXTENDS HUFD

CONSTANTS
  SmallLiterals,      \* COMPRESS_LITERALS_SIZE_MIN: (63) not tried in split and super blocks
  ForceX2             \* is HUF_FORCE_DECOMPRESS_X2 set?  (the choice is by size otherwise)


LitHufLog == 11
TooSmall == -1

MinGain(srcSize, strategy) ==
  srcSize \div 2^(IF strategy >= BtUltra THEN strategy - 1 ELSE 6) + 2

(* ------------------------------- the encoder ------------------------------- *)

HeadSize(n) == 1 + (IF n > 31 THEN 1 ELSE 0) + (IF n > 4095 THEN 1 ELSE 0)
NoCompressLiterals(lits, capacity) ==
  [type |-> "basic", lits |-> lits,
   size |-> IF Len(lits) + HeadSize(Len(lits)) > capacity THEN TooSmall
            ELSE Len(lits) + HeadSize(Len(lits))]
AllBytesIdentical(lits) == \A k \in DOMAIN lits : lits[k] = lits[1]
CompressRleLiterals(lits) ==
  [type |-> "rle", n |-> Len(lits), byte |-> lits[1], size |-> HeadSize(Len(lits)) + 1]
Coded(type, n, header, streams, size) ==
  [type |-> type, n |-> n, header |-> header, streams |-> streams, size |-> size]

MinLiteralsToCompress(strategy, repeat) ==
  IF repeat = "valid" THEN 6 ELSE 8 * 2^LeastNat(9 - strategy, 3)
LitHeadSize(n) == 3 + (IF n >= 1024 THEN 1 ELSE 0) + (IF n >= 16384 THEN 1 ELSE 0)

\* ZSTD_compressLiterals: the section, and the table the next block may repeat.  Only a
\* new table that is really sent replaces the last one.
UncompressedLiterals(lits, prev, capacity) == [sec |-> NoCompressLiterals(lits, capacity), huf |-> prev]
LiteralsBy(r, lits, prev, strategy, capacity) ==
  LET n  == Len(lits)
      lh == LitHeadSize(n)
  IN IF r.size = 0 \/ r.size >= n - MinGain(n, strategy) THEN UncompressedLiterals(lits, prev, capacity)
     ELSE IF r.size = 1 /\ (n >= 8 \/ AllBytesIdentical(lits))
     THEN [sec |-> CompressRleLiterals(lits), huf |-> prev]
     ELSE IF r.repeat = "none"
     THEN [sec |-> Coded("compressed", n, r.header, r.streams, lh + r.size),
           huf |-> [ct |-> r.ct, repeat |-> "check"]]
     ELSE [sec |-> Coded("repeat", n, r.header, r.streams, lh + r.size), huf |-> prev]
CompressLiterals(lits, prev, strategy, disabled, suspect, capacity) ==
  LET n      == Len(lits)
      lh     == LitHeadSize(n)
      single == n < 256 \/ (prev.repeat = "valid" /\ lh = 3)
  IN IF disabled \/ n < MinLiteralsToCompress(strategy, prev.repeat)
     THEN UncompressedLiterals(lits, prev, capacity)
     ELSE IF capacity < lh + 1 THEN [sec |-> [type |-> "basic", size |-> TooSmall], huf |-> prev]
     ELSE LiteralsBy(HufCompress(lits, ~single, prev.ct, prev.repeat, strategy < Lazy /\ n <= 1024,
                                 strategy >= BtUltra, suspect, LitHufLog, capacity - lh),
                     lits, prev, strategy, capacity)

\* ZSTD_buildBlockEntropyStats_literals: the table of a whole block, to estimate its
\* size or to share it among the parts of a superblock.
KeepTable(type, prev) == [type |-> type, header |-> [size |-> 0], huf |-> prev]
OldOrNew(n, prev, oldSize, ct, newSize, header) ==
  IF oldSize < n /\ (oldSize <= header.size + newSize \/ header.size + 12 >= n)
  THEN KeepTable("repeat", prev)
  ELSE IF newSize + header.size >= n THEN KeepTable("basic", prev)
  ELSE [type |-> "compressed", header |-> header, huf |-> [ct |-> ct, repeat |-> "check"]]
\* repeat is what is known of the last table for these literals; n is too much for no table.
NewLitStats(n, prev, repeat, count, ct) ==
  OldOrNew(n, prev, IF repeat = "none" THEN n ELSE EstimateSize(prev.ct, count),
           ct, EstimateSize(ct, count), WriteCTable(ct, 2^12))
LitStats(lits, prev, strategy, disabled) ==
  LET n       == Len(lits)
      count   == Histogram(lits, MaxSymbolOf(lits))
      largest == LargestCount(count)
      repeat  == IF prev.repeat = "check" /\ ~ValidateCTable(prev.ct, count) THEN "none"
                 ELSE prev.repeat
  IN IF disabled \/ n <= (IF prev.repeat = "valid" THEN 6 ELSE SmallLiterals) THEN KeepTable("basic", prev)
     ELSE IF largest = n THEN KeepTable("rle", prev)
     ELSE IF largest <= n \div 128 + 4 THEN KeepTable("basic", prev)
     ELSE NewLitStats(n, prev, repeat, count,
            BuildHufTable(count, OptimalHufLog(count, n, LitHufLog, strategy >= BtUltra)))

\* ZSTD_estimateBlockSize_literal, ZSTD_estimateSubBlockSize_literal (which knows one
\* header size and no jump table).
EstimateLiterals(lits, st, writeEntropy, inSuper) ==
  LET count == Histogram(lits, MaxSymbolOf(lits))
  IN CASE st.type = "basic" -> Len(lits)
       [] st.type = "rle"   -> 1
       [] OTHER -> EstimateSize(st.huf.ct, count) + (IF writeEntropy THEN st.header.size ELSE 0)
                   + (IF inSuper THEN 3
                      ELSE LitHeadSize(Len(lits)) + IF Len(lits) < 256 THEN 0 ELSE 6)

\* ZSTD_compressSubBlock_literal: the literals of a part of a superblock, with the table
\* if no part before has brought it.  Size 0: not compressible.
PlainPart(sec) == [sec |-> sec, written |-> FALSE]
LitPart(lits, st, writeEntropy, capacity, lh, hSize, r) ==
  LET n     == Len(lits)
      total == hSize + r.size
  IN IF r.size = 0 THEN PlainPart([type |-> "basic", size |-> 0])
     ELSE IF (~writeEntropy /\ total >= n) \/ lh < LitHeadSize(total)
     THEN PlainPart(NoCompressLiterals(lits, capacity))
     ELSE [sec |-> Coded(IF writeEntropy THEN st.type ELSE "repeat", n, st.header, r.streams, lh + total),
           written |-> TRUE]
SubBlockLiterals(lits, st, writeEntropy, capacity) ==
  LET n      == Len(lits)
      slack  == IF writeEntropy THEN 200 ELSE 0
      lh     == 3 + (IF n >= 1024 - slack THEN 1 ELSE 0) + (IF n >= 16384 - slack THEN 1 ELSE 0)
      hSize  == IF writeEntropy /\ st.type = "compressed" THEN st.header.size ELSE 0
  IN CASE n = 0 \/ st.type = "basic" -> PlainPart(NoCompressLiterals(lits, capacity))
       [] n # 0 /\ st.type = "rle"   -> PlainPart(CompressRleLiterals(lits))
       [] OTHER -> LitPart(lits, st, writeEntropy, capacity, lh, hSize,
                           UsingCTable(lits, st.huf.ct, lh # 3, capacity - lh - hSize))

(* ------------------------------- the decoder ------------------------------- *)

\* ZSTD_decodeLiteralsBlock.  The table of a single stream has one symbol per look-up,
\* that of four streams the kind the sizes suggest.
NoLiterals(dec) == [ok |-> FALSE, lits |-> <<>>, dec |-> dec]
LiteralsBlock(r, table) == [ok |-> r.ok, lits |-> r.out, dec |-> [table |-> table, litEntropy |-> TRUE]]
DecodeBy(sec, table, dec) ==
  IF table.ok THEN LiteralsBlock(UsingDTable(sec.streams, table, sec.n), table) ELSE NoLiterals(dec)
DecodeLiterals(sec, dec, blockSizeMax) ==
  LET x2 == IF Len(sec.streams) = 1 THEN ForceX2
            ELSE ForceX2 \/ SelectDecoder(sec.n, sec.size - LitHeadSize(sec.n))
  IN CASE sec.type = "basic" -> [ok |-> Len(sec.lits) <= blockSizeMax, lits |-> sec.lits, dec |-> dec]
       [] sec.type = "rle" -> [ok |-> sec.n <= blockSizeMax, dec |-> dec,
                               lits |-> [k \in 1 .. sec.n |-> sec.byte]]
       [] OTHER -> IF \/ sec.type = "repeat" /\ ~dec.litEntropy
                      \/ sec.n > blockSizeMax
                      \/ Len(sec.streams) = 4 /\ sec.n < 6
                   THEN NoLiterals(dec)
                   ELSE DecodeBy(sec, IF sec.type = "repeat" THEN dec.table ELSE TableFor(sec.header, x2, 12), dec)
=============================================================================
