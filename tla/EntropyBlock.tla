---------------------------- MODULE EntropyBlock ----------------------------
(*******************************************************************************)
(* Blocks from the sequence store to the decoder's output.  The encoder has    *)
(* three ways: a block as a whole (ZSTD_compressBlock_internal), a block split *)
(* where that seems cheaper, or a superblock.  Each may turn out raw or as one *)
(* repeated byte, and then nothing of it - tables, last offsets - is known to  *)
(* the decoder.  What the encoder may repeat in the next block must be what    *)
(* the decoder still has.                                                      *)
(*   enc = [huf, fse, rep, first] is the confirmed state (prevCBlock): nothing *)
(* of the scratch one (nextCBlock) is read before it is written.               *)
(*******************************************************************************)
EXTENDS SuperBlock

CONSTANTS
  Blocks,             \* Blocks[k]: the blocks that may be the k-th, each
                      \* [store, same (all its bytes are equal), tiny]
  NbBlocks,           \* a bound: the blocks of a frame
  Settings,           \* [flow, strategy, noLits, target, slack]; slack is what the
                      \* destination has beyond the block and its header
  Dictionaries,       \* [huf header, norm, log, rep, size], or [none |-> TRUE]
  SuspectRatio,       \* SUSPECT_UNCOMPRESSIBLE_LITERAL_RATIO (20)
  MinSeqSplit,        \* MIN_SEQUENCES_BLOCK_SPLITTING (300)
  MaxSplits           \* ZSTD_MAX_NB_BLOCK_SPLITS (196)

VARIABLES set, enc, dec, blocks, want, got, nb
vars == <<set, enc, dec, blocks, want, got, nb>>

BlockSizeMax == 2^17
RleMaxLength == 25
SrcSize(store) == Len(store.lits) + MatchBytes(store)

(* ---------------------------- the block compressors -------------------------- *)

\* ZSTD_entropyCompressSeqStore: size 0 when it does not shrink, or does not fit.
NotCompressed == [size |-> 0]
IfSmaller(c, srcSize, s) ==
  IF c.size = 0 \/ c.size >= srcSize - MinGain(srcSize, s.strategy) THEN NotCompressed ELSE c
WithSequences(l, st, n, used, stream) ==
  IF \/ stream = <<>>
     \/ st.lastCountSize # 0 /\ st.lastCountSize + Bytes8(stream) < 4
  THEN NotCompressed
  ELSE [size |-> used + Bytes8(stream), lit |-> l.sec, huf |-> l.huf, fse |-> st.fse,
        seq |-> [nbSeq |-> n, type |-> st.type, header |-> st.header, stream |-> stream]]
SequencesAfter(store, l, capacity, st) ==
  LET n    == Len(store.seqs)
      used == l.sec.size + NbSeqSize(n) + 1 + st.size
  IN WithSequences(l, st, n, used, EncodeSequences(store.seqs, SeqToCodes(store), st.fse, capacity - used))
AfterLiterals(store, e, s, capacity, l) ==
  CASE l.sec.size = TooSmall \/ l.sec.size + 4 > capacity -> NotCompressed
    [] l.sec.size # TooSmall /\ l.sec.size + 4 <= capacity /\ store.seqs = <<>> ->
         [size |-> l.sec.size + 1, lit |-> l.sec, huf |-> l.huf, fse |-> e.fse, seq |-> [nbSeq |-> 0]]
    [] OTHER -> SequencesAfter(store, l, capacity, SequencesStatistics(store, e.fse, s.strategy))

\* Many literals for each sequence: HUF samples them before it counts them all.
SuspectUncompressible(store) ==
  store.seqs = <<>> \/ Len(store.lits) \div Len(store.seqs) >= SuspectRatio

EntropyCompress(store, srcSize, e, s, capacity) ==
  IfSmaller(AfterLiterals(store, e, s, capacity,
              CompressLiterals(store.lits, e.huf, s.strategy, s.noLits,
                               SuspectUncompressible(store), capacity)), srcSize, s)

\* ZSTD_blockState_confirmRepcodesAndEntropyTables, for a compressed block only.
Confirmed(e, c, rep) == [e EXCEPT !.huf = c.huf, !.fse = c.fse, !.rep = rep]

\* Mutant: a dictionary's offset table is trusted in every block.
Trusted(e) == e
\* The offset codes of a dictionary are known to do for the first block only.
Checked(e) == [e EXCEPT !.fse.of.repeat = IF @ = "valid" THEN "check" ELSE @]

\* ZSTD_compressBlock_internal, with the block header of ZSTD_compress_frameChunk.
Uncompressed(block, e) == [blocks |-> <<block>>, e |-> Checked(e)]
WholeAs(b, e, n, c) ==
  IF ~e.first /\ c.size < RleMaxLength /\ b.same THEN Uncompressed(RleBlock(0, n), e)
  ELSE IF c.size <= 1 THEN Uncompressed(RawBlock(0, n), e)
  ELSE [blocks |-> <<CompressedBlock(c.lit, c.seq, BlockHeaderSize + c.size)>>,
        e |-> Checked(Confirmed(e, c, RegeneratedReps(e.rep, b.store, Len(b.store.seqs))))]
WholeBlock(b, e, s) ==
  LET n == SrcSize(b.store)
  IN IF b.tiny THEN Uncompressed(RawBlock(0, n), e)
     ELSE WholeAs(b, e, n, EntropyCompress(b.store, n, e, s, n + s.slack))

\* ZSTD_compressSeqStore_singleBlock.  r: [blocks, e, d, c, ip]; d and c are the last
\* offsets of the decoder and of the encoder, which part when a partition is sent raw.
SentRaw(r, block, n, c) ==
  [blocks |-> Append(r.blocks, block), e |-> Checked(r.e), d |-> r.d, c |-> c, ip |-> r.ip + n]
SingleAs(r, store, n, same, resolved, c) ==
  IF ~r.e.first /\ c.size < RleMaxLength /\ same THEN SentRaw(r, RleBlock(r.ip, n), n, resolved.c)
  ELSE IF c.size = 0 THEN SentRaw(r, RawBlock(r.ip, n), n, resolved.c)
  ELSE [blocks |-> Append(r.blocks, CompressedBlock(c.lit, c.seq, BlockHeaderSize + c.size)),
        e |-> Checked(Confirmed(r.e, c, RegeneratedReps(r.e.rep, store, Len(store.seqs)))),
        d |-> resolved.d, c |-> resolved.c, ip |-> r.ip + n]
SingleBlock(r, store, srcSize, same, s, capacity, isPartition) ==
  LET resolved == IF isPartition THEN ResolveOffCodes(r.d, r.c, store)
                  ELSE [d |-> r.d, c |-> r.c, store |-> store]
  IN SingleAs(r, store, srcSize, same, resolved,
              EntropyCompress(resolved.store, srcSize, r.e, s, capacity))

\* ZSTD_buildEntropyStatisticsAndEstimateSubBlockSize
SizeBy(store, st) ==
  EstimateLiterals(store.lits, st.lit, st.lit.type = "compressed", FALSE)
  + EstimateSequences(store, st.seq, 1 + NbSeqSize(Len(store.seqs))) + BlockHeaderSize
EstimatedSize(store, e, s) == SizeBy(store, EntropyStats(store, e, s))

\* ZSTD_deriveBlockSplits: halved as long as the halves are estimated smaller.
RECURSIVE Splits(_, _, _, _, _, _)
Splits(acc, lo, hi, store, e, s) ==
  LET mid == (lo + hi) \div 2
      Size(part) == EstimatedSize(DeriveChunk(store, part[1], part[2]), e, s)
      size == Tabulate([part \in {<<lo, mid>>, <<mid, hi>>, <<lo, hi>>} |-> Size(part)])
  IN IF hi - lo < MinSeqSplit \/ Len(acc) >= MaxSplits THEN acc
     ELSE IF size[<<lo, mid>>] + size[<<mid, hi>>] >= size[<<lo, hi>>] THEN acc
     ELSE Splits(Append(Splits(acc, lo, mid, store, e, s), mid), mid, hi, store, e, s)

\* Mutant: the encoder's own last offsets go on, whatever was sent.
RepsOfEncoder(r) == r.c
\* The decoder's last offsets are the next block's.
RepsAfterSplit(r) == r.d

\* ZSTD_compressBlock_splitBlock
PartitionOf(r, b, s, n, at, i) ==
  LET nbSeq == Len(b.store.seqs)
      chunk == IF at = <<>> THEN b.store
               ELSE DeriveChunk(b.store, IF i = 1 THEN 0 ELSE at[i - 1], IF i > Len(at) THEN nbSeq ELSE at[i])
      bytes == IF i > Len(at) THEN n - r.ip ELSE LiteralsBytes(chunk) + MatchBytes(chunk)
  IN SingleBlock(r, chunk, bytes, b.same, s, n + s.slack - SizeOfBlocks(r.blocks), at # <<>>)
AfterSplit(r, at) ==
  [blocks |-> r.blocks, e |-> IF at = <<>> THEN r.e ELSE [r.e EXCEPT !.rep = RepsAfterSplit(r)]]
SplitAt(b, e, s, n, at) ==
  AfterSplit(FoldLeftDomain(LAMBDA r, i : PartitionOf(r, b, s, n, at, i),
               [blocks |-> <<>>, e |-> e, d |-> e.rep, c |-> e.rep, ip |-> 0],
               [i \in 1 .. Len(at) + 1 |-> 0]), at)
SplitBlock(b, e, s) ==
  LET n     == SrcSize(b.store)
      nbSeq == Len(b.store.seqs)
  IN IF b.tiny THEN Uncompressed(RawBlock(0, n), e)
     ELSE SplitAt(b, e, s, n, IF nbSeq <= 4 THEN <<>> ELSE Splits(<<>>, 0, nbSeq, b.store, e, s))

\* ZSTD_compressBlock_targetCBlockSize
TargetAs(e, s, n, m) ==
  IF m.blocks = <<>> \/ SizeOfBlocks(m.blocks) >= n - MinGain(n, s.strategy) + BlockHeaderSize
  THEN Uncompressed(RawBlock(0, n), e)
  ELSE [blocks |-> m.blocks, e |-> Checked(m.e)]
TargetBlock(b, e, s) ==
  LET n == SrcSize(b.store)
  IN CASE b.tiny -> Uncompressed(RawBlock(0, n), e)
       [] OTHER ->
            IF ~e.first /\ Len(b.store.seqs) < 4 /\ Len(b.store.lits) < 10 /\ b.same
            THEN Uncompressed(RleBlock(0, n), e)
            ELSE TargetAs(e, s, n, SubBlockMulti(b.store, n, e, s, n + s.slack + BlockHeaderSize))

(* -------------------------------- the decoder -------------------------------- *)

\* The bytes a block stands for: a literal, or the k-th byte a match of that offset copies.
Copied(lits, seqs) ==
  LET done == FoldLeft(LAMBDA r, q :
        [out |-> r.out \o SubSeq(lits, r.lp + 1, r.lp + q.ll) \o [k \in 1 .. q.ml |-> <<q.of, k>>],
         lp |-> r.lp + q.ll], [out |-> <<>>, lp |-> 0], seqs)
  IN [ok |-> done.lp <= Len(lits), out |-> done.out \o SubSeq(lits, done.lp + 1, Len(lits))]
Source(store, rep) ==
  LET Offset(r, i) == LET ob == store.seqs[i].ob
                      IN IF IsRepcode(ob) THEN RepOffset(r, ob, LL0(store, i)) ELSE OffsetOf(ob)
      meant == FoldLeftDomain(LAMBDA r, i :
                 [rep |-> UpdateRep(r.rep, store.seqs[i].ob, LL0(store, i)),
                  seqs |-> Append(r.seqs, [ll |-> LitLength(store, i), of |-> Offset(r.rep, i),
                                           ml |-> MatchLength(store, i)])],
               [rep |-> rep, seqs |-> <<>>], store.seqs)
  IN Copied(store.lits, meant.seqs).out

\* ZSTD_decompressBlock_internal: the literals, then the sequences applied to them.
Refused(d) == [ok |-> FALSE, out |-> <<>>, dec |-> d]
Executed(x, l, q) == [ok |-> x.ok, out |-> x.out, dec |-> [lit |-> l.dec, seq |-> q.dec]]
Applied(l, q, d) == IF q.ok THEN Executed(Copied(l.lits, q.out), l, q) ELSE Refused(d)
SequencesTo(b, d, l) == IF l.ok THEN Applied(l, DecodeSequences(b.seq, d.seq), d) ELSE Refused(d)
Decompressed(b, d) == SequencesTo(b, d, DecodeLiterals(b.lit, d.lit, BlockSizeMax))

(* ------------------------------- dictionaries --------------------------------- *)

\* ZSTD_dictNCountRepeat
DictRepeat(norm, max) ==
  IF Cardinality(DOMAIN norm) - 1 < max \/ \E s \in 0 .. max : norm[s] = 0 THEN "check" ELSE "valid"
\* ZSTD_loadCEntropy: the tables a dictionary brings, "valid" when they code everything.
DictEnc(dict, ct) ==
  LET all == [ll |-> 35, ml |-> 52, of |-> LeastNat(31, Highbit(dict.size + BlockSizeMax))]
  IN [huf |-> [ct |-> ct, repeat |-> IF ct.max = 255 /\ \A s \in 0 .. 255 : ct.nb[s] # 0
                                     THEN "valid" ELSE "check"],
      fse |-> [k \in DOMAIN MaxCode |-> [ct |-> BuildCTable(dict.norm[k], dict.log[k]),
                                         repeat |-> DictRepeat(dict.norm[k], all[k])]],
      rep |-> dict.rep, first |-> TRUE]
LoadCEntropy(dict) == DictEnc(dict, ReadCTable(dict.huf))
\* ZSTD_loadDEntropy: always a table of two symbols per look-up, as no size suggests one.
LoadDEntropy(dict) ==
  [lit |-> [table |-> TableFor(dict.huf, TRUE, 12), litEntropy |-> TRUE],
   seq |-> [fse |-> [k \in DOMAIN MaxCode |-> BuildDTable(dict.norm[k], dict.log[k])],
            fseEntropy |-> TRUE, reps |-> dict.rep]]

\* ZSTD_reset_compressedBlockState, ZSTD_decompressBegin
StartRep == <<1, 4, 8>>
FreshEnc == [huf |-> [ct |-> TableOf([s \in 0 .. 0 |-> 0], 0), repeat |-> "none"],
             fse |-> [k \in DOMAIN MaxCode |-> [ct |-> RleCTable(0), repeat |-> "none"]],
             rep |-> StartRep, first |-> TRUE]
FreshDec == [lit |-> [table |-> [ok |-> FALSE], litEntropy |-> FALSE],
             seq |-> [fse |-> [k \in DOMAIN MaxCode |-> RleDTable(0)], fseEntropy |-> FALSE,
                      reps |-> StartRep]]

(* -------------------------------- the machine --------------------------------- *)

Init ==
  \E s \in Settings, dict \in Dictionaries :
    /\ set = s
    /\ enc = IF dict.none THEN FreshEnc ELSE LoadCEntropy(dict)
    /\ dec = IF dict.none THEN FreshDec ELSE LoadDEntropy(dict)
    /\ blocks = <<>> /\ want = <<>> /\ got = [ok |-> TRUE, out |-> <<>>] /\ nb = 0

Send(b, r) ==
  /\ enc' = [r.e EXCEPT !.first = FALSE]
  /\ blocks' = r.blocks
  /\ want' = Source(b.store, enc.rep)
  /\ got' = [ok |-> TRUE, out |-> <<>>]
  /\ nb' = nb + 1
  /\ UNCHANGED <<set, dec>>

Idle == blocks = <<>> /\ got.ok /\ nb < NbBlocks
EmitWhole ==
  Idle /\ set.flow = "whole" /\ \E b \in Blocks[nb + 1] : \E r \in {WholeBlock(b, enc, set)} : Send(b, r)
EmitSplit ==
  Idle /\ set.flow = "split" /\ \E b \in Blocks[nb + 1] : \E r \in {SplitBlock(b, enc, set)} : Send(b, r)
EmitSuper ==
  Idle /\ set.flow = "super" /\ \E b \in Blocks[nb + 1] : \E r \in {TargetBlock(b, enc, set)} : Send(b, r)

DecodePlain ==
  /\ blocks # <<>> /\ got.ok
  /\ LET b == blocks[1]
     IN /\ b.type \in {"raw", "rle"}
        /\ got' = [got EXCEPT !.out = @ \o SubSeq(want, b.ip + 1, b.ip + b.n)]
  /\ blocks' = Tail(blocks)
  /\ UNCHANGED <<set, enc, dec, want, nb>>
DecodeBlockInternal ==
  /\ blocks # <<>> /\ got.ok
  /\ blocks[1].type = "compressed"
  /\ \E r \in {Decompressed(blocks[1], dec)} :
        /\ got' = [ok |-> r.ok, out |-> got.out \o r.out]
        /\ dec' = r.dec
  /\ blocks' = Tail(blocks)
  /\ UNCHANGED <<set, enc, want, nb>>

Next == EmitWhole \/ EmitSplit \/ EmitSuper \/ DecodePlain \/ DecodeBlockInternal
Spec == Init /\ [][Next]_vars

(* --------------------------------- properties ---------------------------------- *)

\* Whatever way a block took - whole, split, in parts, raw, with new tables, repeated ones
\* or a dictionary's - the decoder, with its own tables and its own last offsets, has the
\* bytes of the source (HUF_validateCTable, ZSTD_selectEncodingType, resolveOffCodes,
\* ZSTD_compressSubBlock_multi).
Decodable == /\ got.ok
             /\ IsPrefix(got.out, want)
             /\ blocks = <<>> => got.out = want

\* An encoder's table and a decoder's that agree.
SameHuf(ct, dt) ==
  \A s \in DOMAIN ct.nb : ct.nb[s] # 0 =>
    \E i \in DOMAIN dt.cell :
      LET v == ct.val[s] * 2^(dt.log - ct.nb[s])
      IN /\ dt.cell[i].start <= v /\ v < dt.cell[i].start + dt.cell[i].len
         /\ dt.cell[i].out[1] = s
SameFse(ct, dt) ==
  /\ ct.log = dt.log
  /\ \A s \in DOMAIN ct.cells : \A i \in DOMAIN ct.cells[s] : dt.cell[ct.cells[s][i]].symbol = s

\* Between blocks, every table the encoder might repeat is the one the decoder has, code by
\* code and state by state, and both have the same last offsets
\* (ZSTD_blockState_confirmRepcodesAndEntropyTables against ZSTD_decodeLiteralsBlock and
\* ZSTD_buildSeqTable).
TablesAgree ==
  blocks = <<>> =>
    /\ enc.rep = dec.seq.reps
    /\ enc.huf.repeat # "none" => dec.lit.litEntropy /\ SameHuf(enc.huf.ct, dec.lit.table)
    /\ \A k \in DOMAIN MaxCode : enc.fse[k].repeat # "none" =>
         dec.seq.fseEntropy /\ SameFse(enc.fse[k].ct, dec.seq.fse[k])
=============================================================================
