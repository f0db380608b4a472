------------------------------ MODULE LdmTable ------------------------------
(*******************************************************************************)
(* The long distance matcher (compress/zstd_ldm.c): a rolling hash of the last *)
(* LdmMinMatch bytes chooses the positions that go to a table of buckets, and  *)
(* the sequences found for a stretch of input are listed for the block         *)
(* compressors.                                                                *)
(*   y is what it sees: [w, mem, end], its own window and loadedDictEnd; ldm   *)
(* is its table: [bucket, at], the entries [offset, check] by hash and the     *)
(* position in the ring of each bucket.                                        *)
(*******************************************************************************)
EXTENDS TableSearch

CONSTANTS
  LdmMinMatch,   \* ldmParams.minMatchLength
  LdmBuckets,    \* 1 << (hashLog - bucketSizeLog)
  LdmPerBucket,  \* 1 << bucketSizeLog
  LdmChunk,      \* kMaxChunkSize
  BatchSize      \* LDM_BATCH_SIZE

EmptyLdm == [h \in 0 .. LdmBuckets - 1 |->
               [at |-> 0, entry |-> [k \in 0 .. LdmPerBucket - 1 |-> [offset |-> 0, check |-> 0]]]]

LdmAt(y, i) == y.mem[Address(y.w, i)]
LdmBytes(y, i) == [k \in 1 .. LdmMinMatch |-> LdmAt(y, i + k - 1)]

\* The two halves of the hash of the bytes at a split.
Weight(bytes)    == FoldLeft(LAMBDA n, v : 2 * n + v, 0, bytes)
LdmHash(bytes)   == Weight(bytes) % LdmBuckets
Checksum(bytes)  == Weight(bytes) % 3

(* The rolling hash: the last bytes fed, none after ZSTD_ldm_gear_init.  A split *)
(* follows a byte when the mask meets the hash of the last LdmMinMatch bytes.    *)
GearInit == <<>>
Rolled(rolling, v) ==
  SubSeq(Append(rolling, v), MostOf2(1, Len(rolling) + 2 - LdmMinMatch), Len(rolling) + 1)
IsSplit(rolling) == Len(rolling) = LdmMinMatch /\ Last(rolling) = 1

\* ZSTD_ldm_gear_reset: its result is not stored.
GearReset(rolling, bytes) == rolling

\* ZSTD_ldm_gear_feed: up to `size` bytes from ip, or a full batch of splits.
RECURSIVE GearFeed(_, _, _, _)
GearFeed(y, ip, size, g) ==
  IF g.n = size \/ Len(g.splits) = BatchSize THEN g
  ELSE LET r == Rolled(g.rolling, LdmAt(y, ip + g.n))
       IN GearFeed(y, ip, size,
                   [n |-> g.n + 1, rolling |-> r,
                    splits |-> IF IsSplit(r) THEN Append(g.splits, g.n + 1) ELSE g.splits])
Feed(y, ip, size, rolling) == GearFeed(y, ip, size, [n |-> 0, rolling |-> rolling, splits |-> <<>>])

\* ZSTD_ldm_insertEntry: a bucket is a ring.
InsertEntry(ldm, bytes, offset) ==
  [ldm EXCEPT ![LdmHash(bytes)] =
     [at |-> (@.at + 1) % LdmPerBucket,
      entry |-> [@.entry EXCEPT ![ldm[LdmHash(bytes)].at] = [offset |-> offset, check |-> Checksum(bytes)]]]]

\* ZSTD_ldm_fillHashTable: the splits of a dictionary.
RECURSIVE FillFrom(_, _, _, _, _, _)
FillFrom(y, ldm, ip, start, end, rolling) ==
  IF ip >= end THEN ldm
  ELSE LET f   == Feed(y, ip, end - ip, rolling)
           ok  == SelectSeq(f.splits, LAMBDA n : ip + n >= start + LdmMinMatch)
           put == FoldLeft(LAMBDA l, n : InsertEntry(l, LdmBytes(y, ip + n - LdmMinMatch), ip + n - LdmMinMatch),
                           ldm, ok)
       IN FillFrom(y, put, ip + f.n, start, end, f.rolling)
LdmFillHashTable(y, ldm, ip, end) == FillFrom(y, ldm, ip, ip, end, GearInit)

\* The lowest index a match may use.
LdmLow(y) == IF HasExtDict(y.w) THEN y.w.lowLimit ELSE y.w.dictLimit
\* Mutant: into the previous sequence.
CountBackwardsFree(y, split, anchor, m) ==
  Max({n \in 0 .. LeastOf2(split, m - LdmLow(y)) :
         \A k \in 1 .. n : LdmAt(y, split - k) = LdmAt(y, m - k)})

\* ZSTD_ldm_countBackwardsMatch, and its variant that goes on from the prefix into the
\* extDict: as far as the anchor and the first valid byte.
CountBackwards(y, split, anchor, m) ==
  Max({n \in 0 .. LeastOf2(split - anchor, m - LdmLow(y)) :
         \A k \in 1 .. n : LdmAt(y, split - k) = LdmAt(y, m - k)})
CountForward(y, split, m, iend) ==
  Max({n \in 0 .. iend - split : \A k \in 0 .. n - 1 : LdmAt(y, split + k) = LdmAt(y, m + k)})

\* The best entry of the bucket of a split, [ml |-> 0] if none is long enough.
LdmBest(y, ldm, split, anchor, iend) ==
  LET bytes == LdmBytes(y, split)
      Try(b, k) ==
        LET e == ldm[LdmHash(bytes)].entry[k - 1]
            f == CountForward(y, split, e.offset, iend)
            back == CountBackwards(y, split, anchor, e.offset)
        IN IF e.check # Checksum(bytes) \/ e.offset <= LdmLow(y) THEN b
           ELSE IF f < LdmMinMatch \/ f + back <= b.ml THEN b
                ELSE [ml |-> f + back, forward |-> f, back |-> back, at |-> e.offset]
  IN FoldLeft(Try, [ml |-> 0], [k \in 1 .. LdmPerBucket |-> k])

\* One split of a batch.  A match that ends beyond what has been fed repeats itself: the
\* rest of the batch is dropped and the feeding goes on behind it.
LdmSplit(y, iend, fedTo, g, split) ==
  LET bytes == LdmBytes(y, split)
      m     == LdmBest(y, g.ldm, split, g.anchor, iend)
      put   == InsertEntry(g.ldm, bytes, split)
  IN IF g.jump THEN g
     ELSE IF split < g.anchor THEN [g EXCEPT !.ldm = put]
     ELSE IF m.ml = 0 THEN [g EXCEPT !.ldm = put]
     ELSE LET end == split + m.forward
          IN [g EXCEPT !.ldm = put, !.anchor = end, !.jump = end > fedTo,
                       !.seqs = Append(@, [ip |-> split - m.back, ll |-> split - m.back - g.anchor,
                                           of |-> split - m.at, ml |-> m.ml])]

\* ZSTD_ldm_generateSequences_internal; the bytes behind the last sequence are left over.
RECURSIVE LdmLoop(_, _, _, _)
LdmGoOn(y, iend, fedTo, r) ==
  IF r.jump THEN LdmLoop(y, iend, r.anchor,
                         [r EXCEPT !.rolling = GearReset(@, LdmBytes(y, r.anchor - LdmMinMatch))])
  ELSE LdmLoop(y, iend, fedTo, r)
LdmLoop(y, iend, ip, g) ==
  IF ip >= iend - HashReadSize THEN g
  ELSE LET f == Feed(y, ip, iend - HashReadSize - ip, g.rolling)
           r == FoldLeft(LAMBDA h, n : LdmSplit(y, iend, ip + f.n, h, ip + n - LdmMinMatch),
                         [g EXCEPT !.jump = FALSE, !.rolling = f.rolling], f.splits)
       IN LdmGoOn(y, iend, ip + f.n, r)

LdmGenerateInternal(y, ldm, istart, iend) ==
  IF iend - istart < LdmMinMatch THEN [ldm |-> ldm, seqs |-> <<>>, anchor |-> istart]
  ELSE LET g == [ldm |-> ldm, seqs |-> <<>>, anchor |-> istart, jump |-> FALSE,
                 rolling |-> GearReset(GearInit, LdmBytes(y, istart))]
           r == LdmLoop(y, iend, istart + LdmMinMatch, g)
       IN [ldm |-> r.ldm, seqs |-> r.seqs, anchor |-> r.anchor]

\* ZSTD_ldm_reduceTable.
LdmReduce(ldm, correction) ==
  [h \in DOMAIN ldm |->
     [ldm[h] EXCEPT !.entry = [k \in DOMAIN ldm[h].entry |->
        [@[k] EXCEPT !.offset = IF @ < correction THEN 0 ELSE @ - correction]]]]

\* ZSTD_ldm_generateSequences: chunk by chunk the indices are corrected, the window is
\* enforced for the end of the chunk, and what was left over becomes literals of the
\* next sequence.  src is an address.
LdmWindow(y, from, to, maxDist) ==
  LET over == NeedOverflowCorrection(y.w, to)
      cor  == Correction(y.w, 1, maxDist, from)
      w1   == IF over THEN CorrectOverflow(y.w, cor) ELSE y.w
      end1 == IF over THEN 0 ELSE y.end
  IN [y   |-> [y EXCEPT !.w = EnforceMaxDist(w1, to, maxDist, end1),
                        !.end = IF BeyondMaxDist(w1, to, maxDist, end1) THEN 0 ELSE end1],
      cut |-> IF over THEN cor ELSE 0]

\* What the chunk [from, to) has generated (g) is added to the sequences so far (r).
LdmJoin(y, from, to, r, g) ==
  [y |-> y, ldm |-> g.ldm,
   seqs |-> r.seqs \o [k \in DOMAIN g.seqs |->
              [g.seqs[k] EXCEPT !.ip = @ + y.w.base, !.ll = @ + IF k = 1 THEN r.left ELSE 0]],
   left |-> IF g.seqs = <<>> THEN r.left + (to - from) ELSE to - y.w.base - g.anchor]

LdmChunkOf(maxDist, from, to, r) ==
  LET v == LdmWindow(r.y, from, to, maxDist)
  IN LdmJoin(v.y, from, to, r,
             LdmGenerateInternal(v.y, IF v.cut = 0 THEN r.ldm ELSE LdmReduce(r.ldm, v.cut),
                                 from - v.y.w.base, to - v.y.w.base))

RECURSIVE LdmGenerateFrom(_, _, _, _, _)
LdmGenerateFrom(maxDist, capacity, from, to, r) ==
  IF from >= to \/ Len(r.seqs) >= capacity THEN r
  ELSE LdmGenerateFrom(maxDist, capacity, from + LdmChunk, to,
                       LdmChunkOf(maxDist, from, LeastOf2(from + LdmChunk, to), r))

\* ZSTD_ldm_getMaxNbSeq.
LdmMaxNbSeq(size) == size \div LdmMinMatch
LdmGenerate(y, ldm, src, size, maxDist) ==
  LdmGenerateFrom(maxDist, LdmMaxNbSeq(size), src, src + size, [y |-> y, ldm |-> ldm, seqs |-> <<>>, left |-> 0])
=============================================================================
