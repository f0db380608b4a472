----------------------------- MODULE SuperBlock -----------------------------
(****************************************************************************)
(* A block that is sent as several small ones ("targetCBlockSize",          *)
(* zstd_compress_superblock.c): the entropy tables are made once, for the   *)
(* whole block, and are sent with the first part that needs them; the parts *)
(* after it repeat them.  A part that does not shrink is joined to the next *)
(* one, and what is left at the end is sent raw.                            *)
(****************************************************************************)
EXTENDS LitSection, SeqSection

CONSTANTS
  TargetCBlockSizeMin,  \* ZSTD_TARGETCBLOCKSIZE_MIN (1340)
  HeaderBudget          \* what the tables of the first part may take (120)

BlockHeaderSize == 3
ByteScale == 256
NbSeqSize(n) == 1 + (IF n >= 128 THEN 1 ELSE 0) + (IF n >= 32512 THEN 1 ELSE 0)

\* ZSTD_buildBlockEntropyStats: the tables of a whole block.
\* e: [huf, fse, rep, first]; set: [strategy, noLits, target]
EntropyStats(store, e, set) ==
  [lit |-> LitStats(store.lits, e.huf, set.strategy, set.noLits),
   seq |-> IF store.seqs = <<>> THEN DummyStatistics(e.fse)
           ELSE SequencesStatistics(store, e.fse, set.strategy)]

RawBlock(ip, n) == [type |-> "raw", ip |-> ip, n |-> n, size |-> BlockHeaderSize + n]
RleBlock(ip, n) == [type |-> "rle", ip |-> ip, n |-> n, size |-> BlockHeaderSize + 1]
CompressedBlock(lit, seq, size) == [type |-> "compressed", lit |-> lit, seq |-> seq, size |-> size]

\* ZSTD_compressSubBlock_sequences: nothing (size 0) when old decoders would fail.
NoSeqPart(n, size) == [seq |-> [nbSeq |-> n], size |-> size, written |-> FALSE]
SeqPart(n, st, writeEntropy, tables, stream) ==
  LET body == 1 + tables + Bytes8(stream)
  IN IF stream = <<>> THEN NoSeqPart(n, TooSmall)
     ELSE IF \/ body < 4
             \/ writeEntropy /\ st.lastCountSize # 0 /\ st.lastCountSize + Bytes8(stream) < 4
     THEN NoSeqPart(n, 0)
     ELSE [seq |-> [nbSeq |-> n, stream |-> stream, header |-> st.header,
                    type |-> IF writeEntropy THEN st.type ELSE [k \in DOMAIN st.type |-> "repeat"]],
           size |-> NbSeqSize(n) + body, written |-> TRUE]
SubBlockSequences(seqs, codes, st, writeEntropy, capacity) ==
  LET n      == Len(seqs)
      tables == IF writeEntropy THEN st.size ELSE 0
  IN CASE capacity < 4 -> NoSeqPart(n, TooSmall)
       [] capacity >= 4 /\ n = 0 -> NoSeqPart(n, 1)
       [] OTHER -> SeqPart(n, st, writeEntropy, tables,
                           EncodeSequences(seqs, codes, st.fse, capacity - NbSeqSize(n) - 1 - tables))

\* ZSTD_estimateSubBlockSize
SizeWith(lit, seq) == [lit |-> lit, block |-> lit + BlockHeaderSize + seq]
EstimateSubBlock(store, st, writeLit) ==
  SizeWith(EstimateLiterals(store.lits, st.lit, writeLit, TRUE),
           IF store.seqs = <<>> THEN 3 ELSE EstimateSequences(store, st.seq, 3))

NeedSequenceTables(st) == \E k \in DOMAIN st.type : st.type[k] \in {"compressed", "rle"}

\* sizeBlockSequences: how many sequences, from sequence from on, make a part.
SizeBlockSequences(store, from, budget, litCost, seqCost, isFirst) ==
  LET n == Len(store.seqs) - from
      Cost(k) == store.seqs[from + k].ll * litCost + seqCost
      In(k)   == store.seqs[from + k].ll + store.seqs[from + k].ml + MinMatch
      Add(r, k) ==
        IF r.stop THEN r
        ELSE LET cost == r.cost + Cost(k)
                 in   == r.in + In(k)
             IN IF cost > budget /\ (k = 1 \/ cost < in * ByteScale)
                THEN [r EXCEPT !.stop = TRUE, !.n = MostNat(@, 1)]
                ELSE [cost |-> cost, in |-> in, n |-> k, stop |-> FALSE]
  IN FoldLeftDomain(Add, [cost |-> IF isFirst THEN HeaderBudget * ByteScale ELSE 0, in |-> 0,
                          n |-> 0, stop |-> FALSE], [k \in 1 .. n |-> 0]).n

\* The sequences from + 1 .. from + count of a store, and the bytes they make.
PartOf(store, from, count) ==
  LET sub == DeriveChunk(store, from, from + count)
  IN [lits |-> LiteralsBytes(sub), bytes |-> LiteralsBytes(sub) + MatchBytes(sub)]

SizeOfBlocks(blocks) == FoldLeft(LAMBDA t, b : t + b.size, 0, blocks)
\* One part, committed when it shrinks.  r: [sp, lp, ip, litTable, seqTable, blocks, end]:
\* the tables tell whether they are still to be sent, end is "last" once all sequences but
\* those of the last part are done, "error" when the destination is full.
Shipped(r, count, litSize, bytes, lit, seq) ==
  LET size == BlockHeaderSize + lit.sec.size + seq.size
  IN IF seq.size = TooSmall THEN [r EXCEPT !.end = "error"]
     ELSE IF seq.size = 0 \/ size >= bytes THEN r
     ELSE [sp |-> r.sp + count, lp |-> r.lp + litSize, ip |-> r.ip + bytes,
           litTable |-> r.litTable /\ ~lit.written, seqTable |-> r.seqTable /\ ~seq.written,
           blocks |-> Append(r.blocks, CompressedBlock(lit.sec, seq.seq, size)), end |-> r.end]
SequencesOf(r, job, st, count, litSize, bytes, room, lit) ==
  CASE lit.sec.size = 0 -> r
    [] lit.sec.size = TooSmall -> [r EXCEPT !.end = "error"]
    [] OTHER -> Shipped(r, count, litSize, bytes, lit,
         SubBlockSequences(SubSeq(job.store.seqs, r.sp + 1, r.sp + count),
                           [k \in DOMAIN job.codes |-> SubSeq(job.codes[k], r.sp + 1, r.sp + count)],
                           st.seq, r.seqTable, room - lit.sec.size))
\* job: [store, codes, capacity]
SubBlock(r, job, st, count, litSize, bytes) ==
  LET room == job.capacity - SizeOfBlocks(r.blocks) - BlockHeaderSize
  IN IF r.end = "error" THEN r
     ELSE SequencesOf(r, job, st, count, litSize, bytes, room,
            SubBlockLiterals(SubSeq(job.store.lits, r.lp + 1, r.lp + litSize), st.lit, r.litTable, room))

\* Mutant: the table of the literals is confirmed although no part has brought it.
KeptLitTable(e, st, unsent) == st.lit.huf
\* The literals' table is the next block's to repeat only if a part has brought it.
LitTableAfter(e, st, unsent) == IF unsent THEN e.huf ELSE st.lit.huf

\* ZSTD_compressSubBlock_multi: the parts, and the state to confirm; no parts: failed.
\* What no part has taken (left) goes raw.
Confirm(all, job, e, st, srcSize) ==
  LET left == srcSize - all.ip
      sent == IF left = 0 THEN Len(job.store.seqs) ELSE all.sp
  IN IF \/ all.end = "error"
        \/ all.seqTable /\ NeedSequenceTables(st.seq)
        \/ left > 0 /\ SizeOfBlocks(all.blocks) + BlockHeaderSize + left > job.capacity
     THEN [blocks |-> <<>>, e |-> e]
     ELSE [blocks |-> IF left = 0 THEN all.blocks ELSE Append(all.blocks, RawBlock(all.ip, left)),
           e |-> [e EXCEPT !.huf = LitTableAfter(e, st, all.litTable), !.fse = st.seq.fse,
                           !.rep = RegeneratedReps(e.rep, job.store, sent)]]
LastPart(r, job, st) ==
  LET nbSeqs == Len(job.store.seqs)
      rest   == Len(job.store.lits) - r.lp
  IN SubBlock(r, job, st, nbSeqs - r.sp, rest, rest + MatchBytes(DeriveChunk(job.store, r.sp, nbSeqs)))
NextPart(r, job, st, count, size) ==
  IF r.sp + count = Len(job.store.seqs) THEN [r EXCEPT !.end = "last"]
  ELSE SubBlock(r, job, st, count, size.lits, size.bytes)
PartFrom(r, job, st, count) == NextPart(r, job, st, count, PartOf(job.store, r.sp, count))
AllParts(job, st, srcSize, target, writeLit, est) ==
  LET nbLits  == Len(job.store.lits)
      litCost == IF nbLits = 0 THEN ByteScale ELSE (est.lit * ByteScale) \div nbLits
      seqCost == ((est.block - est.lit) * ByteScale) \div Len(job.store.seqs)
      parts   == MostNat((est.block + target \div 2) \div target, 1)
      budget  == (est.block * ByteScale) \div parts
      start   == [sp |-> 0, lp |-> 0, ip |-> 0, litTable |-> writeLit, seqTable |-> TRUE,
                  blocks |-> <<>>, end |-> "no"]
  IN LastPart(
       CASE job.store.seqs = <<>> -> start
         [] job.store.seqs # <<>> /\ est.block > srcSize -> [start EXCEPT !.end = "error"]
         [] OTHER -> FoldLeftDomain(LAMBDA r, n : IF r.end # "no" THEN r
                         ELSE PartFrom(r, job, st, SizeBlockSequences(job.store, r.sp, budget,
                                                     litCost, seqCost, n = 1)),
                       start, [n \in 1 .. parts - 1 |-> 0]),
       job, st)
CompressParts(job, srcSize, e, target, st) ==
  LET writeLit == st.lit.type = "compressed"
  IN Confirm(AllParts(job, st, srcSize, target, writeLit, EstimateSubBlock(job.store, st, writeLit)),
             job, e, st, srcSize)
SubBlockMulti(store, srcSize, e, set, capacity) ==
  CompressParts([store |-> store, codes |-> SeqToCodes(store), capacity |-> capacity], srcSize, e,
                MostNat(TargetCBlockSizeMin, set.target), Tabulate(EntropyStats(store, e, set)))
=============================================================================
