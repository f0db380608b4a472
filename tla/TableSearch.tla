---------------------------- MODULE TableSearch ----------------------------
(******************************************************************************)
(* The tables in which the lazy parsers look for matches: hash chains,        *)
(* rows with tags, and the dedicated structure of a dictionary                *)
(* (compress/zstd_lazy.c).  A table holds indices of the window (Window.tla); *)
(* 0 is "none".                                                               *)
(*   x is what a search sees of the context: [w, mem, mode, windowSize, end,  *)
(* iend, dms]: the window, the memory, the dictionary mode, loadedDictEnd,    *)
(* the end of the block, and the attached dictionary [w, ms] (its window and  *)
(* its tables).                                                               *)
(*   ms is the part of ZSTD_MatchState_t that changes: [next, hash, chain,    *)
(* hash3, next3, rows, cache, skipping, fresh]; next is nextToUpdate, fresh   *)
(* says whether every hash taken from the cache was that of its position.     *)
(******************************************************************************)
EXTENDS Window, Sequences, SequencesExt, FiniteSetsExt

CONSTANTS
  MinMatch,        \* the bytes compared at once (4), MINMATCH
  HashSize,        \* 1 << hashLog
  ChainSize,       \* 1 << chainLog of a hash chain
  Attempts,        \* 1 << searchLog
  TagSize,         \* the values of a tag
  RowEntries,      \* 1 << rowLog
  CacheSize,       \* ZSTD_ROW_HASH_CACHE_SIZE
  SkipThreshold, StartUpdates, EndUpdates,   \* 384, 96, 32 of ZSTD_row_update_internal
  BucketCache,     \* cacheSize of a bucket: (1 << ZSTD_LAZY_DDSS_BUCKET_LOG) - 1
  DdsChainSize     \* 1 << chainLog of a dedicated dictionary

LeastOf2(a, b) == IF a < b THEN a ELSE b
MostOf2(a, b)  == IF a > b THEN a ELSE b

\* The byte behind an index: only the extDict modes look at the second segment.
At(x, i) == x.mem[IF x.mode = "ext" THEN Address(x.w, i) ELSE x.w.base + i]

\* ... and behind an index of the attached dictionary, which goes on at the prefix.
DictHigh(x)  == EndIndex(x.dms.w)
DictDelta(x) == x.w.dictLimit - DictHigh(x)
DictAt(x, j) == IF j < DictHigh(x) THEN x.mem[x.dms.w.base + j] ELSE At(x, j + DictDelta(x))

\* The common length of two strings, known to be at least `from`.
Longest(f(_), g(_), from, limit) ==
  Max({n \in from .. limit : \A k \in from .. n - 1 : f(k) = g(k)})
CountAt(x, ip, m)   == Longest(LAMBDA k : At(x, ip + k), LAMBDA k : At(x, m + k), 0, x.iend - ip)
CountDict(x, ip, m) == Longest(LAMBDA k : At(x, ip + k), LAMBDA k : DictAt(x, m + k), 0, x.iend - ip)
SameStart(f(_), g(_)) == \A k \in 0 .. MinMatch - 1 : f(k) = g(k)

Hash(x, i) == At(x, i) % HashSize
Tag(x, i)  == At(x, i + 1) % TagSize

LowestAt(x, curr) == LowestMatchIndex(x.w, curr, x.windowSize, x.end)

NoTables ==
  [next |-> StartIndex, hash |-> [h \in 0 .. HashSize - 1 |-> 0], chain |-> <<>>,
   hash3 |-> <<>>, next3 |-> 0, rows |-> <<>>, cache |-> <<>>, skipping |-> FALSE, fresh |-> TRUE]

\* The longest of the candidates so far, and where it is.
NoneFound == [ml |-> MinMatch - 1, at |-> 0]
Better(best, ml, at) == IF ml > best.ml THEN [ml |-> ml, at |-> at] ELSE best

(* ----------------------------- hash chains ------------------------------ *)

EmptyChain == [i \in 0 .. ChainSize - 1 |-> 0]

Insert(x, ms, i) ==
  [ms EXCEPT !.chain[i % ChainSize] = ms.hash[Hash(x, i)], !.hash[Hash(x, i)] = i]

\* When skipping, only the first of the positions that were jumped over is inserted.
InsertAndFindFirstIndex(x, ms, ip) ==
  LET upTo == IF ms.skipping THEN LeastOf2(ms.next, ip - 1) ELSE ip - 1
      done == FoldLeft(LAMBDA m, i : Insert(x, m, i), ms, [k \in 1 .. upTo - ms.next + 1 |-> ms.next + k - 1])
  IN [ms |-> [done EXCEPT !.next = ip], first |-> done.hash[Hash(x, ip)]]

\* The length of the match at m, 0 unless it can be longer than the best one.
LengthAt(x, ip, m, best) ==
  IF x.mode # "ext" \/ m >= x.w.dictLimit
  THEN IF \A k \in best.ml - MinMatch + 1 .. best.ml : At(x, m + k) = At(x, ip + k)
       THEN CountAt(x, ip, m) ELSE 0
  ELSE IF SameStart(LAMBDA k : At(x, m + k), LAMBDA k : At(x, ip + k))
       THEN CountAt(x, ip, m) ELSE 0

LengthInDict(x, ip, m) ==
  IF SameStart(LAMBDA k : DictAt(x, m + k), LAMBDA k : At(x, ip + k)) THEN CountDict(x, ip, m) ELSE 0

RECURSIVE SearchChain(_, _, _, _, _, _)
SearchChain(x, chain, ip, m, n, best) ==
  IF n = 0 \/ m < LowestAt(x, ip) THEN [best |-> best, n |-> n]
  ELSE LET now == Better(best, LengthAt(x, ip, m, best), m)
           old == m <= (IF ip > ChainSize THEN ip - ChainSize ELSE 0)
       IN IF ip + now.ml = x.iend \/ old THEN [best |-> now, n |-> n]
          ELSE SearchChain(x, chain, ip, chain[m % ChainSize], n - 1, now)

RECURSIVE SearchDictChain(_, _, _, _, _)
SearchDictChain(x, ip, m, n, best) ==
  IF n = 0 \/ m < x.dms.w.dictLimit THEN best
  ELSE LET now == Better(best, LengthInDict(x, ip, m), m + DictDelta(x))
           old == m <= (IF DictHigh(x) > ChainSize THEN DictHigh(x) - ChainSize ELSE 0)
       IN IF ip + now.ml = x.iend \/ old THEN now
          ELSE SearchDictChain(x, ip, x.dms.ms.chain[m % ChainSize], n - 1, now)

(* ----------------------- dedicated dictionary search --------------------- *)

\* The positions of the dictionary with hash h, the latest first: temporary chains
\* reach back to tmpMin, and the index before that is the last one of the list.
Chained(x, first, target, tmpMin, h) ==
  LET all  == SelectSeq([k \in 1 .. target - first |-> target - k], LAMBDA i : Hash(x, i) = h)
      kept == Len(SelectSeq(all, LAMBDA i : i >= tmpMin))
  IN SubSeq(all, 1, LeastOf2(Len(all), kept + 1))

\* What of a list goes to the chain table: as many entries from before minChain as the
\* cache has taken out of it.
DdsRest(list, minChain, limit) ==
  LET Old(n) == Cardinality({k \in 1 .. n : list[k] < minChain})
      upTo   == Max({n \in BucketCache .. LeastOf2(Len(list), BucketCache + limit) :
                       n = BucketCache \/ Old(n) <= BucketCache})
  IN SubSeq(list, BucketCache + 1, upTo)

\* ZSTD_dedicatedDictSearch_lazy_loadDictionary.  The bucket holds the latest
\* positions, the chain table what comes behind them, if anything does.
DdsLoad(x, ms, target) ==
  LET first    == ms.next
      minChain == IF DdsChainSize < target - first THEN target - DdsChainSize ELSE first
      tmpSize  == BucketCache * HashSize
      tmpMin   == IF tmpSize < target THEN target - tmpSize ELSE first
      Lists    == [h \in 0 .. HashSize - 1 |-> Chained(x, first, target, MostOf2(tmpMin, first), h)]
      Long(h)  == Cardinality({k \in DOMAIN Lists[h] : Lists[h][k] >= tmpMin}) >= BucketCache
      Rest(h)  == IF Long(h) THEN DdsRest(Lists[h], minChain, Attempts - BucketCache) ELSE <<>>
      Before(h) == FoldLeft(LAMBDA n, g : n + Len(Rest(g)), 0, [k \in 1 .. h |-> k - 1])
      Bucket(h) == LET all == SelectSeq([k \in 1 .. target - first |-> target - k], LAMBDA i : Hash(x, i) = h)
                   IN SubSeq(all, 1, LeastOf2(BucketCache, Len(all)))
  IN [ms EXCEPT !.next = target,
                !.hash = [h \in 0 .. HashSize - 1 |->
                            [cache |-> Bucket(h), start |-> Before(h), count |-> Len(Rest(h))]],
                !.chain = FlattenSeq([k \in 1 .. HashSize |-> Rest(k - 1)])]

\* ZSTD_dedicatedDictSearch_lazy_search: the bucket, then its part of the chain table;
\* a bucket that is not full ends the search.
DdsSearch(x, ip, n, best) ==
  LET bucket == x.dms.ms.hash[Hash(x, ip)]
      limit  == LeastOf2(n, BucketCache)
      near   == SubSeq(bucket.cache, 1, LeastOf2(limit, Len(bucket.cache)))
      far    == IF Len(bucket.cache) < limit THEN <<>>
                ELSE SubSeq(x.dms.ms.chain, bucket.start + 1,
                            bucket.start + LeastOf2(bucket.count, n - limit))
      Try(b, m) == IF ip + b.ml = x.iend THEN b
                   ELSE Better(b, LengthInDict(x, ip, m), m + DictDelta(x))
  IN FoldLeft(Try, best, near \o far)

\* ZSTD_HcFindBestMatch.
HcFindBestMatch(x, ms, ip) ==
  LET r    == InsertAndFindFirstIndex(x, ms, ip)
      here == SearchChain(x, r.ms.chain, ip, r.first, Attempts, NoneFound)
  IN [ms |-> r.ms,
      best |-> CASE x.mode = "dms" -> SearchDictChain(x, ip, x.dms.ms.hash[Hash(x, ip)], here.n, here.best)
                 [] x.mode = "dds" -> DdsSearch(x, ip, here.n, here.best)
                 [] OTHER -> here.best]

(* -------------------------------- rows ----------------------------------- *)

\* A row is a ring whose position 0 is not used: head is where the latest entry is.
EmptyRows ==
  [h \in 0 .. HashSize - 1 |->
     [head |-> 0, tag |-> [p \in 0 .. RowEntries - 1 |-> 0], at |-> [p \in 0 .. RowEntries - 1 |-> 0]]]
EmptyCache == [i \in 0 .. CacheSize - 1 |-> [row |-> 0, tag |-> 0]]

NextIndex(row) ==
  LET next == (row.head + RowEntries - 1) % RowEntries IN IF next = 0 THEN RowEntries - 1 ELSE next

RowHash(x, i) == [row |-> Hash(x, i), tag |-> Tag(x, i)]

InRow(row, tag, i) ==
  [head |-> NextIndex(row), tag |-> [row.tag EXCEPT ![NextIndex(row)] = tag],
   at |-> [row.at EXCEPT ![NextIndex(row)] = i]]

\* ZSTD_row_fillHashCache: not beyond limit.
FillCache(x, ms, from, limit) ==
  LET upTo == from + LeastOf2(CacheSize, IF from > limit THEN 0 ELSE limit - from + 1) - 1
  IN [ms EXCEPT !.cache = [c \in 0 .. CacheSize - 1 |->
        IF \E i \in from .. upTo : i % CacheSize = c
        THEN RowHash(x, CHOOSE i \in from .. upTo : i % CacheSize = c) ELSE ms.cache[c]]]

\* ZSTD_row_nextCachedHash: the cached hash of i; that of a later position replaces it.
NextCachedHash(x, ms, i) ==
  LET hash == ms.cache[i % CacheSize]
  IN [hash |-> hash,
      ms |-> [ms EXCEPT !.cache[i % CacheSize] = RowHash(x, i + CacheSize),
                        !.fresh = @ /\ hash = RowHash(x, i)]]

\* ZSTD_row_update_internalImpl.
RowInsert(x, ms, from, to, useCache) ==
  LET One(m, i) ==
        LET c == IF useCache THEN NextCachedHash(x, m, i) ELSE [hash |-> RowHash(x, i), ms |-> m]
        IN [c.ms EXCEPT !.rows[c.hash.row] = InRow(@, c.hash.tag, i)]
  IN FoldLeft(One, ms, [k \in 1 .. to - from |-> from + k - 1])

\* ZSTD_row_update_internal: in a long stretch only its two ends are inserted.
RowUpdateInternal(x, ms, ip, useCache) ==
  IF useCache /\ ip - ms.next > SkipThreshold
  THEN LET start == RowInsert(x, ms, ms.next, ms.next + StartUpdates, useCache)
           cached == FillCache(x, start, ip - EndUpdates, ip + 1)
       IN [RowInsert(x, cached, ip - EndUpdates, ip, useCache) EXCEPT !.next = ip]
  ELSE [RowInsert(x, ms, ms.next, ip, useCache) EXCEPT !.next = ip]
RowUpdate(x, ms, ip) == RowUpdateInternal(x, ms, ip, FALSE)

\* The entries of a row with this tag from the head on (ZSTD_row_getMatchMask), at
\* most n of them and not below low.
Tagged(row, tag, low, n) ==
  LET ring == [k \in 1 .. RowEntries |-> (row.head + k - 1) % RowEntries]
      same == SelectSeq(ring, LAMBDA p : p # 0 /\ row.tag[p] = tag)
      at   == [k \in DOMAIN same |-> row.at[same[k]]]
      upTo == Max({j \in 0 .. LeastOf2(Len(at), n) : \A k \in 1 .. j : at[k] >= low})
  IN SubSeq(at, 1, upTo)

\* ZSTD_RowFindBestMatch: the rows are brought up to ip, the position itself is
\* inserted, and the candidates are compared.
RowUpdated(x, ms, ip) ==
  IF ~ms.skipping THEN NextCachedHash(x, RowUpdateInternal(x, ms, ip, TRUE), ip)
  ELSE [hash |-> RowHash(x, ip), ms |-> [ms EXCEPT !.next = ip]]

RowSearch(x, ms, hash, ip) ==
  LET row  == ms.rows[hash.row]
      list == Tagged(row, hash.tag, LowestAt(x, ip), LeastOf2(Attempts, RowEntries))
      Try(b, m) == IF ip + b.ml = x.iend THEN b ELSE Better(b, LengthAt(x, ip, m, b), m)
  IN [ms   |-> [ms EXCEPT !.rows[hash.row] = InRow(row, hash.tag, ms.next), !.next = @ + 1],
      n    |-> LeastOf2(Attempts, RowEntries) - Len(list),
      best |-> FoldLeft(Try, NoneFound, list)]

RowSearchDict(x, ip, n, best) ==
  LET list == Tagged(x.dms.ms.rows[Hash(x, ip)], Tag(x, ip), x.dms.w.dictLimit, n)
      Try(b, m) == IF ip + b.ml = x.iend THEN b
                   ELSE Better(b, LengthInDict(x, ip, m), m + DictDelta(x))
  IN FoldLeft(Try, best, list)

RowFindBestMatch(x, ms, ip) ==
  LET up == RowUpdated(x, ms, ip)
      r  == RowSearch(x, up.ms, up.hash, ip)
      extra == IF Attempts > RowEntries THEN Attempts \div RowEntries ELSE 0
  IN [ms |-> r.ms,
      best |-> CASE x.mode = "dms" -> RowSearchDict(x, ip, r.n, r.best)
                 [] x.mode = "dds" -> DdsSearch(x, ip, r.n + extra, r.best)
                 [] OTHER -> r.best]
=============================================================================
