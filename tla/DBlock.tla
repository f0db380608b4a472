------------------------------- MODULE DBlock -------------------------------
(****************************************************************************)
(* ZSTD_decompressBlock_internal in memory: where the literals of a block   *)
(* are put while its content is written, and how the sequences are executed *)
(* with copies that read and write more than they were asked for.           *)
(*                                                                          *)
(* All the memory the decoder may touch is one array of cells: the segment  *)
(* of an older buffer (extDict), the prefix followed by dst, litExtraBuffer *)
(* with its slack, and the compressed block.  Guard cells lie between them. *)
(****************************************************************************)
EXTENDS Integers, SequencesExt

CONSTANTS
  CopyUnit,     \* what ZSTD_copy8 copies
  VecLen,       \* WILDCOPY_VECLEN
  Overlength,   \* WILDCOPY_OVERLENGTH
  ExtraSize,    \* ZSTD_LITBUFFEREXTRASIZE
  BlockMax,     \* ZSTD_blockSizeMax
  StoredSeqs,   \* STORED_SEQS
  Blocks        \* the blocks, the room for them, and the history before them

ASSUME DBlockSizes ==
  /\ CopyUnit \in Nat \ {0} /\ VecLen = 2 * CopyUnit /\ Overlength = 2 * VecLen
  /\ ExtraSize >= 2 * Overlength /\ StoredSeqs \in Nat \ {0}

VARIABLES
  blk,       \* the block that is decoded
  mem,       \* the cells
  lit,       \* litBufferLocation, litBuffer, litBufferEnd and litPtr
  op,        \* where the next byte of the content goes
  seqNb,     \* sequences decoded (executed, without the prefetching decoder)
  stored,    \* sequences[]: decoded, not yet executed
  phase
dbVars == <<blk, mem, lit, op, seqNb, stored, phase>>

Least(a, b) == IF a < b THEN a ELSE b
Ceil(n, d) == (n + d - 1) \div d
nbSeq == Len(blk.seqs)

(* -------------------------------- memory -------------------------------- *)

Outside == -1       \* content of a guard cell
Unset == 0          \* content of a cell nothing was written to; literals are 1, 2, ...
Past(k) == 1000 + k

Guard          == 2 * Overlength
DictEnd(b)     == b.ext + 1
PrefixStart(b) == b.ext + Guard + 1
Dst(b)         == PrefixStart(b) + b.prefix
Extra(b)       == Dst(b) + b.cap + Guard
Src(b)         == Extra(b) + ExtraSize + Overlength + Guard
Oend(b)        == Dst(b) + b.cap

Between(b, a) ==
  \/ a >= DictEnd(b) /\ a < PrefixStart(b)
  \/ a >= Oend(b) /\ a < Extra(b)
  \/ a >= Extra(b) + ExtraSize + Overlength /\ a < Src(b)
  \/ a >= Src(b) + b.lit + Overlength
Blank(b) ==
  [a \in 1 .. Src(b) + b.lit + Overlength + Guard |->
     IF Between(b, a) THEN Outside
     ELSE IF a < DictEnd(b) THEN Past(a)
     ELSE IF a < Dst(b) THEN Past(b.ext + 1 + (a - PrefixStart(b)))
     ELSE IF Src(b) <= a /\ a < Src(b) + b.lit THEN 1 + (a - Src(b)) ELSE Unset]

\* memcpy, memmove or one vector: everything is read before anything is written.
Move(m, to, from, n) ==
  [a \in DOMAIN m |-> IF to <= a /\ a < to + n THEN m[from + (a - to)] ELSE m[a]]
\* One byte after the other: a source that overlaps the target is repeated.
Bytes(m, to, from, n) ==
  IF from >= to THEN Move(m, to, from, n)
  ELSE [a \in DOMAIN m |-> IF to <= a /\ a < to + n
                           THEN m[from + ((a - to) % (to - from))] ELSE m[a]]
Vectors(m, to, from, size, n) ==
  LET step[k \in 0 .. n] ==
        IF k = 0 THEN m
        ELSE Move(step[k - 1], to + (k - 1) * size, from + (k - 1) * size, size)
  IN step[n]
\* Literals first .. first + n - 1, from the compressed block.
Literals(m, to, first, n) ==
  [a \in DOMAIN m |-> IF to <= a /\ a < to + n THEN first + (a - to) ELSE m[a]]

(* -------------------------------- copies -------------------------------- *)

\* ZSTD_wildcopy
WildCopy(m, to, from, length, overlap) ==
  IF overlap /\ to - from < VecLen
  THEN Vectors(m, to, from, CopyUnit, IF length <= 0 THEN 1 ELSE Ceil(length, CopyUnit))
  ELSE Vectors(m, to, from, VecLen,
               IF length <= VecLen THEN 1 ELSE 1 + 2 * Ceil(length - VecLen, 2 * VecLen))

\* ZSTD_overlapCopy8: how far source and target are apart after it.
Spread(offset) == IF offset < CopyUnit THEN offset * Ceil(CopyUnit, offset) ELSE offset

\* ZSTD_safecopy
SafeCopy(m, to, wildEnd, from, length, overlap) ==
  LET end  == to + length
      to1  == IF overlap THEN to + CopyUnit ELSE to
      diff == IF overlap THEN Spread(to - from) ELSE to - from
      m1   == IF overlap THEN Bytes(m, to, from, CopyUnit) ELSE m
      m2   == IF to1 <= wildEnd THEN WildCopy(m1, to1, to1 - diff, wildEnd - to1, overlap) ELSE m1
      to2  == IF to1 <= wildEnd THEN wildEnd ELSE to1
  IN CASE length < CopyUnit -> Bytes(m, to, from, length)
       [] length >= CopyUnit /\ end <= wildEnd ->
            WildCopy(m1, to1, to1 - diff, end - to1, overlap)
       [] OTHER -> Bytes(m2, to2, to2 - diff, end - to2)

\* ZSTD_safecopyDstBeforeSrc
SafeCopyDown(m, to, from, length) ==
  LET wild == length - Overlength
  IN IF length < CopyUnit \/ from - to < CopyUnit \/ wild < 0 \/ from - to <= VecLen
     THEN Bytes(m, to, from, length)
     ELSE Bytes(WildCopy(m, to, from, wild, FALSE), to + wild, from + wild, Overlength)

(* ------------------------------- sequences ------------------------------ *)

Failed(m) == [ok |-> FALSE, mem |-> m, ptr |-> 0, size |-> 0]
Done(m, ptr, s) == [ok |-> TRUE, mem |-> m, ptr |-> ptr, size |-> s.ll + s.ml]

\* The match of s, after the literals that end at `to`: in the prefix, in the
\* older segment, or beginning there and going on at the start of the prefix.
WithMatch(b, m, to, ptr, s, Copy(_, _, _, _)) ==
  LET before == s.of - (to - PrefixStart(b))
  IN CASE before <= 0 -> Done(Copy(m, to, to - s.of, s.ml), ptr, s)
       [] before > b.ext -> Failed(m)
       [] before > 0 /\ before <= b.ext /\ s.ml <= before ->
            Done(Move(m, to, DictEnd(b) - before, s.ml), ptr, s)
       [] OTHER -> Done(Copy(Move(m, to, DictEnd(b) - before, before),
                             to + before, PrefixStart(b), s.ml - before), ptr, s)

\* ZSTD_execSequenceEnd and, with `split`, ZSTD_execSequenceEndSplitLitBuffer:
\* close to the end of the room or of the literals.
ExecSequenceEnd(b, m, at, l, s, oend, wildEnd, split) ==
  IF \/ s.ll + s.ml > oend - at
     \/ s.ll > l.end - l.ptr
     \/ split /\ at > l.ptr /\ at < l.ptr + s.ll
  THEN Failed(m)
  ELSE WithMatch(b, IF split THEN SafeCopyDown(m, at, l.ptr, s.ll)
                             ELSE SafeCopy(m, at, wildEnd, l.ptr, s.ll, FALSE),
                 at + s.ll, l.ptr + s.ll, s,
                 LAMBDA t, to, from, n : SafeCopy(t, to, wildEnd, from, n, TRUE))

\* The copy of a match: a short offset is first spread to one copy unit.
WildMatch(t, to, from, n, offset) ==
  IF offset >= VecLen THEN WildCopy(t, to, from, n, FALSE)
  ELSE LET t1  == Bytes(t, to, from, CopyUnit)
           to1 == to + CopyUnit
       IN IF n > CopyUnit THEN WildCopy(t1, to1, to1 - Spread(offset), n - CopyUnit, TRUE) ELSE t1

\* ZSTD_execSequence, ZSTD_execSequenceSplitLitBuffer
ExecSequence(b, m, at, l, s, oend, wildEnd, split) ==
  IF l.ptr + s.ll > l.end \/ at + s.ll + s.ml > wildEnd
  THEN ExecSequenceEnd(b, m, at, l, s, oend, wildEnd, split)
  ELSE LET m1 == Move(m, at, l.ptr, VecLen)
           m2 == IF s.ll > VecLen
                 THEN WildCopy(m1, at + VecLen, l.ptr + VecLen, s.ll - VecLen, FALSE) ELSE m1
       IN WithMatch(b, m2, at + s.ll, l.ptr + s.ll, s,
                    LAMBDA t, to, from, n : WildMatch(t, to, from, n, s.of))

(* ------------------------------- literals ------------------------------- *)

Where(place, at, end) == [place |-> place, buffer |-> at, end |-> end, ptr |-> at]

\* Mutant: no room is kept behind literals in dst, though copies read beyond them.
AllocateLiteralsTight(b, splitImmediately) ==
  LET expected == Dst(b) + Least(BlockMax, b.cap)
      behind   == Dst(b) + BlockMax + Overlength
      inDst    == ~b.streaming /\ b.cap >= BlockMax + Overlength + b.lit
  IN CASE inDst -> Where("in_dst", behind, behind + b.lit)
       [] ~inDst /\ b.lit <= ExtraSize -> Where("not_in_dst", Extra(b), Extra(b) + b.lit)
       [] OTHER -> IF splitImmediately
                   THEN Where("split", expected - b.lit + ExtraSize - Overlength, expected - Overlength)
                   ELSE Where("split", expected - b.lit, expected)

\* ZSTD_allocateLiteralsBuffer
AllocateLiterals(b, splitImmediately) ==
  LET expected == Dst(b) + Least(BlockMax, b.cap)
      behind   == Dst(b) + BlockMax + Overlength
      inDst    == ~b.streaming /\ b.cap > BlockMax + Overlength + b.lit + Overlength
  IN CASE inDst -> Where("in_dst", behind, behind + b.lit)
       [] ~inDst /\ b.lit <= ExtraSize -> Where("not_in_dst", Extra(b), Extra(b) + b.lit)
       [] OTHER -> IF splitImmediately
                   THEN Where("split", expected - b.lit + ExtraSize - Overlength, expected - Overlength)
                   ELSE Where("split", expected - b.lit, expected)

Placed(l, m) == [lit |-> l, mem |-> m]

\* Huffman-coded: all of them are decoded to one place, and moved apart.
HuffmanLiterals(b) ==
  LET l    == AllocateLiterals(b, FALSE)
      m    == Literals(Blank(b), l.buffer, 1, b.lit)
      ahead == ExtraSize - Overlength
  IN IF l.place # "split" THEN Placed(l, m)
     ELSE Placed([l EXCEPT !.buffer = @ + ahead, !.ptr = @ + ahead, !.end = @ - Overlength],
                 Move(Move(m, Extra(b), l.end - ExtraSize, ExtraSize),
                      l.buffer + ahead, l.buffer, b.lit - ExtraSize))

\* Stored or repeated: copied, or referred to where they are.
StoredLiterals(b) ==
  LET l == AllocateLiterals(b, TRUE)
      m == Blank(b)
  IN CASE b.kind = "direct" -> Placed(Where("not_in_dst", Src(b), Src(b) + b.lit), m)
       [] b.kind = "stored" /\ l.place = "split" ->
            Placed(l, Literals(Literals(m, l.buffer, 1, b.lit - ExtraSize),
                               Extra(b), b.lit - ExtraSize + 1, ExtraSize))
       [] OTHER -> Placed(l, Literals(m, l.buffer, 1, b.lit))

(* -------------------------------- the block ----------------------------- *)

DBInit ==
  /\ blk \in Blocks
  /\ mem = <<>> /\ lit = Where("not_in_dst", 0, 0)
  /\ op = Dst(blk) /\ seqNb = 0 /\ stored = <<>> /\ phase = "literals"

Refuse ==
  /\ phase = "literals"
  /\ \/ blk.lit > Least(BlockMax, blk.cap)
     \/ blk.cap = 0 /\ nbSeq > 0
  /\ phase' = "failed"
  /\ UNCHANGED <<blk, mem, lit, op, seqNb, stored>>

\* ZSTD_decodeLiteralsBlock; the prefetching decoder then decodes its first sequences.
DecodeLiterals ==
  /\ phase = "literals"
  /\ blk.lit <= Least(BlockMax, blk.cap)
  /\ blk.cap > 0 \/ nbSeq = 0
  /\ LET p == IF blk.kind = "huffman" THEN HuffmanLiterals(blk) ELSE StoredLiterals(blk)
     IN lit' = p.lit /\ mem' = p.mem
  /\ LET n == IF blk.prefetch THEN Least(nbSeq, StoredSeqs) ELSE 0
     IN seqNb' = n /\ stored' = [k \in 0 .. n - 1 |-> blk.seqs[k + 1]]
  /\ phase' = "sequences"
  /\ UNCHANGED <<blk, op>>

SeqEnd == IF lit.place = "in_dst" THEN lit.buffer ELSE Oend(blk)

\* The split literals in dst do not last for s: what is left of them is written
\* out, and s goes on with litExtraBuffer.
CrossSplit(s) ==
  LET left == lit.end - lit.ptr
      next == Where("not_in_dst", Extra(blk), Extra(blk) + ExtraSize)
  IN [ok  |-> left <= Oend(blk) - op,
      lit |-> next, op |-> op + left, seq |-> [s EXCEPT !.ll = @ - left],
      mem |-> SafeCopyDown(mem, op, lit.ptr, left)]

\* Execute s.
Execute(s) ==
  LET split   == lit.place = "split"
      crosses == split /\ lit.ptr + s.ll > lit.end
      c == IF crosses THEN CrossSplit(s)
                      ELSE [ok |-> TRUE, lit |-> lit, op |-> op, seq |-> s, mem |-> mem]
      r == IF ~c.ok THEN Failed(mem)
           ELSE ExecSequence(blk, c.mem, c.op, c.lit, c.seq, SeqEnd,
                  IF c.lit.place = "split" THEN lit.ptr + s.ll - Overlength ELSE SeqEnd - Overlength,
                  c.lit.place = "split")
  IN /\ mem' = r.mem
     /\ lit' = [c.lit EXCEPT !.ptr = r.ptr]
     /\ op' = c.op + r.size
     /\ phase' = IF r.ok THEN phase ELSE "failed"

\* ZSTD_decompressSequences_body, ZSTD_decompressSequences_bodySplitLitBuffer
ShortSequence ==
  /\ phase = "sequences" /\ ~blk.prefetch /\ seqNb < nbSeq
  /\ Execute(blk.seqs[seqNb + 1])
  /\ seqNb' = seqNb + 1
  /\ UNCHANGED <<blk, stored>>

\* ZSTD_decompressSequencesLong_body: one is executed, its place taken by the next.
LongSequence ==
  /\ phase = "sequences" /\ blk.prefetch /\ seqNb < nbSeq
  /\ Execute(stored[(seqNb - StoredSeqs) % StoredSeqs])
  /\ stored' = [stored EXCEPT ![seqNb % StoredSeqs] = blk.seqs[seqNb + 1]]
  /\ seqNb' = seqNb + 1
  /\ UNCHANGED blk

EndOfSequences ==
  /\ phase = "sequences" /\ seqNb = nbSeq
  /\ seqNb' = IF blk.prefetch THEN nbSeq - Least(nbSeq, StoredSeqs) ELSE nbSeq
  /\ phase' = IF blk.prefetch THEN "queue" ELSE "last"
  /\ UNCHANGED <<blk, mem, lit, op, stored>>

QueuedSequence ==
  /\ phase = "queue" /\ seqNb < nbSeq
  /\ Execute(stored[seqNb % StoredSeqs])
  /\ seqNb' = seqNb + 1
  /\ UNCHANGED <<blk, stored>>

\* The literals after the last sequence: those in dst, then those in litExtraBuffer.
LastLiterals ==
  /\ phase = "last" \/ (phase = "queue" /\ seqNb = nbSeq)
  /\ LET left  == lit.end - lit.ptr
         split == lit.place = "split"
         all   == left + (IF split THEN ExtraSize ELSE 0)
         m     == IF left <= SeqEnd - op THEN Move(mem, op, lit.ptr, left) ELSE mem
     IN /\ mem' = IF split /\ all <= SeqEnd - op THEN Move(m, op + left, Extra(blk), ExtraSize) ELSE m
        /\ op' = IF all <= SeqEnd - op THEN op + all ELSE op
        /\ phase' = IF all <= SeqEnd - op THEN "done" ELSE "failed"
  /\ UNCHANGED <<blk, lit, seqNb, stored>>

DBNext ==
  \/ Refuse \/ DecodeLiterals
  \/ ShortSequence \/ LongSequence \/ EndOfSequences \/ QueuedSequence
  \/ LastLiterals
DBSpec == DBInit /\ [][DBNext]_dbVars

-----------------------------------------------------------------------------
(* What the block means: history, then literals and matches in turn.        *)
History(b) == [k \in 1 .. b.ext + b.prefix |-> Past(k)]
WithSequence(t, s) ==
  LET t1 == t.out \o [k \in 1 .. s.ll |-> t.lits + k]
      n  == Len(t1)
  IN [lits |-> t.lits + s.ll,
      ok |-> t.ok /\ s.of <= n,
      out |-> IF t.ok /\ s.of <= n
              THEN t1 \o [k \in 1 .. s.ml |-> t1[n - s.of + 1 + ((k - 1) % s.of)]] ELSE <<>>]
Meaning(b) ==
  LET t == FoldLeft(WithSequence, [lits |-> 0, ok |-> TRUE, out |-> History(b)], b.seqs)
      w == t.out \o [k \in 1 .. b.lit - t.lits |-> t.lits + k]
      n == Len(w) - b.ext - b.prefix
  IN [sound |-> t.ok /\ t.lits <= b.lit /\ n <= BlockMax,
      content |-> [k \in 1 .. n |-> w[b.ext + b.prefix + k]]]

\* However the copies overlap and run over, no cell outside of the buffers is
\* written, none is read into them, and the streaming decoder writes no further
\* than Overlength behind a block of the largest size, where the window may begin.
\* A sound block is regenerated exactly when there is room for it - the output
\* never catches up with literals that wait in the same buffer - and refused
\* when there is none.
DecodedInPlace ==
  /\ \A a \in DOMAIN mem : mem[a] = Outside <=> Between(blk, a)
  /\ (blk.streaming /\ phase # "literals" /\ Meaning(blk).sound) =>
       \A a \in Dst(blk) + BlockMax + Overlength .. Oend(blk) - 1 : mem[a] = Unset
  /\ phase \in {"done", "failed"} =>
       LET w == Meaning(blk)
       IN w.sound =>
            IF phase = "failed" THEN Len(w.content) > blk.cap
            ELSE /\ op = Dst(blk) + Len(w.content)
                 /\ \A k \in 1 .. Len(w.content) : mem[Dst(blk) + k - 1] = w.content[k]

=============================================================================
