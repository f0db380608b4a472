-------------------------------- MODULE HUF --------------------------------
(******************************************************************************)
(* Huffman coding of literals, the encoder (huf_compress.c): the tree of a    *)
(* histogram, its height limit, the canonical code, the header (weights, raw  *)
(* or by FSE), the streams, and the choice between a new table and the last.  *)
(*   A table is [log, max, nb, val]: nb[s] bits of value val[s] for symbol s, *)
(* no bits for a symbol that does not occur.  An error of the code is <<>>    *)
(* or size 0, as its callers take it: not compressible.                       *)
(******************************************************************************)
EXTENDS FSE

CONSTANTS
  SampleSize,         \* SUSPECT_INCOMPRESSIBLE_SAMPLE_SIZE (4096)
  SampleRatio         \* SUSPECT_INCOMPRESSIBLE_SAMPLE_RATIO (10)

HUF_TABLELOG_MAX == 12
HufHeaderLog == 6                         \* MAX_FSE_TABLELOG_FOR_HUFF_HEADER

(* ------------------------------- the tree ---------------------------------- *)

\* HUF_sort: by decreasing count, symbols of one count in order (as the buckets of
\* small counts keep them).
Sorted(count) ==
  SortSeq([i \in 1 .. Cardinality(DOMAIN count) |-> i - 1],
          LAMBDA s, t : count[s] > count[t] \/ (count[s] = count[t] /\ s < t))

\* The depths of the m leaves, given their counts from the largest to the smallest:
\* the two smallest nodes become one, an inner node before a leaf of the same count.
Take(leaf, t) ==
  IF t.s >= 1 /\ (t.n > Len(t.inner) \/ leaf[t.s] < t.inner[t.n])
  THEN [node |-> t.s, t |-> [t EXCEPT !.s = @ - 1]]
  ELSE [node |-> Len(leaf) + t.n, t |-> [t EXCEPT !.n = @ + 1]]
Merge(leaf, t, i) ==
  LET m == Len(leaf)
      a == Take(leaf, t)
      b == Take(leaf, a.t)
      Count(k) == IF k <= m THEN leaf[k] ELSE t.inner[k - m]
  IN [b.t EXCEPT !.inner = Append(@, Count(a.node) + Count(b.node)),
                 !.parent = [k \in 1 .. 2 * m - 1 |->
                    IF k \in {a.node, b.node} THEN m + i ELSE t.parent[k]]]
DepthsIn(m, parent) ==
  LET depth[k \in 1 .. 2 * m - 1] == IF k = 2 * m - 1 THEN 0 ELSE depth[parent[k]] + 1
  IN [k \in 1 .. m |-> depth[k]]
TreeDepths(leaf) ==
  LET m == Len(leaf)
  IN DepthsIn(m, FoldLeftDomain(LAMBDA t, i : Merge(leaf, t, i),
       [s |-> m, n |-> 1, inner |-> <<>>, parent |-> [k \in 1 .. 2 * m - 1 |-> 0]],
       [i \in 1 .. m - 1 |-> 0]).parent)

(* --------------------------- the height limit ------------------------------ *)

\* last[d]: the rarest symbol whose code is d bits shorter than the target; 0 for none.
RECURSIVE Repay(_, _, _), GiveBack(_, _, _)
\* Symbols get a bit more until the cost of the shortened codes is repaid, ...
Repay(h, count, target) ==
  IF h.cost <= 0 THEN h
  ELSE LET Stop(d) == \/ d = 1
                      \/ /\ h.last[d] # 0
                         /\ \/ h.last[d - 1] = 0
                            \/ count[h.last[d]] <= 2 * count[h.last[d - 1]]
           d0  == CHOOSE d \in 1 .. Highbit(h.cost) + 1 :
                    Stop(d) /\ \A e \in d + 1 .. Highbit(h.cost) + 1 : ~Stop(e)
           d   == CHOOSE d \in d0 .. HUF_TABLELOG_MAX :
                    h.last[d] # 0 /\ \A e \in d0 .. d - 1 : h.last[e] = 0
           pos == h.last[d]
           nb  == [h.nb EXCEPT ![pos] = @ + 1]
           rest == IF pos > 1 /\ nb[pos - 1] = target - d THEN pos - 1 ELSE 0
       IN Repay([nb |-> nb, cost |-> h.cost - 2^(d - 1), n |-> h.n,
                 last |-> [h.last EXCEPT ![d] = rest,
                                         ![d - 1] = IF @ = 0 THEN pos ELSE @]], count, target)
\* ... and of the longest codes some a bit less, when that was too much.
GiveBack(h, count, target) ==
  IF h.cost >= 0 THEN h
  ELSE LET n   == CHOOSE n \in 0 .. h.n : /\ n = 0 \/ h.nb[n] # target
                                          /\ \A k \in n + 1 .. h.n : h.nb[k] = target
           pos == IF h.last[1] = 0 THEN n + 1 ELSE h.last[1] + 1
       IN GiveBack([nb |-> [h.nb EXCEPT ![pos] = @ - 1], cost |-> h.cost + 1,
                    n |-> IF h.last[1] = 0 THEN n ELSE h.n,
                    last |-> [h.last EXCEPT ![1] = pos]], count, target)

SetMaxHeight(nb, count, target) ==
  LET m       == Len(nb)
      largest == nb[m]
      over    == FoldLeft(LAMBDA c, b : IF b > target THEN c + 2^(largest - target) - 2^(largest - b)
                                        ELSE c, 0, nb)
      clipped == [k \in 1 .. m |-> LeastNat(nb[k], target)]
      n       == Cardinality({k \in 1 .. m : nb[k] < target})
      Rarest(d) == {k \in 1 .. n : nb[k] = target - d}
      h0      == [nb |-> clipped, cost |-> over \div 2^(largest - target), n |-> n,
                  last |-> [d \in 0 .. HUF_TABLELOG_MAX + 1 |->
                              IF Rarest(d) = {} THEN 0
                              ELSE CHOOSE k \in Rarest(d) : \A j \in Rarest(d) : j <= k]]
  IN IF largest <= target THEN [nb |-> nb, max |-> largest]
     ELSE [nb |-> GiveBack(Repay(h0, count, target), count, target).nb, max |-> target]

(* --------------------------- the canonical code ----------------------------- *)

\* The longest codes start at 0; codes of one length follow each other, in the order
\* of the symbols.
Canonical(nb, log) ==
  LET Of(n) == {s \in DOMAIN nb : nb[s] = n}
      start[n \in 1 .. log] ==
        IF n = log THEN 0 ELSE (start[n + 1] + Cardinality(Of(n + 1))) \div 2
  IN [s \in DOMAIN nb |->
        IF nb[s] = 0 THEN 0 ELSE start[nb[s]] + Cardinality({t \in Of(nb[s]) : t < s})]
TableOf(nb, log) ==
  [log |-> log, max |-> Cardinality(DOMAIN nb) - 1, nb |-> nb, val |-> Canonical(nb, log)]

\* HUF_buildCTable_wksp: used lists the symbols that occur, h has their heights.
HufTableOf(count, used, h) ==
  LET Nth(s) == CHOOSE k \in 1 .. Len(used) : used[k] = s
  IN TableOf([s \in DOMAIN count |-> IF count[s] = 0 THEN 0 ELSE h.nb[Nth(s)]], h.max)
TableOfLeaves(count, used, leaf, maxLog) ==
  HufTableOf(count, used, SetMaxHeight(TreeDepths(leaf), leaf, maxLog))
BuildHufTable(count, maxLog) ==
  LET used == SelectSeq(Sorted(count), LAMBDA s : count[s] > 0)
  IN TableOfLeaves(count, used, [k \in 1 .. Len(used) |-> count[used[k]]], maxLog)

NbBits(ct, s) == IF s > ct.max THEN 0 ELSE ct.nb[s]
EstimateSize(ct, count) ==
  FoldLeftDomain(LAMBDA t, i : t + NbBits(ct, i - 1) * count[i - 1], 0,
                 [i \in 1 .. Cardinality(DOMAIN count) |-> 0]) \div 8
\* Can the last table code this histogram?
ValidateCTable(ct, count) ==
  /\ Cardinality(DOMAIN count) - 1 <= ct.max
  /\ \A s \in DOMAIN count : count[s] # 0 => NbBits(ct, s) # 0

(* -------------------------------- the header -------------------------------- *)

Weights(ct) == [k \in 1 .. ct.max |-> IF ct.nb[k - 1] = 0 THEN 0 ELSE ct.log + 1 - ct.nb[k - 1]]

\* <<>> when it does not pay.
Joined(head, body) == IF body = <<>> THEN <<>> ELSE head \o body
PackedBy(weights, norm, log, capacity, head) ==
  Joined(head, CompressUsingCTable(weights, BuildCTable(norm, log), capacity - Bytes8(head)))
PackWeights(weights, n, log, capacity) ==
  IF n.ok THEN PackedBy(weights, n.norm, log, capacity, WriteNCount(n.norm, log)) ELSE <<>>
CompressWeights(weights, capacity) ==
  LET n     == Len(weights)
      count == Histogram(weights, MaxSymbolOf(weights))
      log   == OptimalTableLog(HufHeaderLog, n, MaxSymbolOf(weights), 2)
  IN IF n <= 1 \/ LargestCount(count) \in {1, n} THEN <<>>
     ELSE PackWeights(weights, NormalizeCount(log, count, n, FALSE), log, capacity)

\* HUF_writeCTable: the last weight is implied.
TableHeader(ct, packed) ==
  IF Bytes8(packed) > 1 /\ Bytes8(packed) < ct.max \div 2
  THEN [byFse |-> TRUE, body |-> packed, size |-> Bytes8(packed) + 1]
  ELSE [byFse |-> FALSE, body |-> Weights(ct), size |-> (ct.max + 1) \div 2 + 1]
WriteCTable(ct, capacity) == TableHeader(ct, CompressWeights(Weights(ct), capacity - 1))

\* HUF_readStats: what is missing to a power of 2 is the weight of the last symbol.
WeightsWithLast(got, log, all) ==
  LET ones == Len(SelectSeq(all, LAMBDA w : w = 1))
  IN [ok |-> /\ \A k \in DOMAIN got : got[k] <= HUF_TABLELOG_MAX
             /\ log <= HUF_TABLELOG_MAX
             /\ ones >= 2 /\ ones % 2 = 0,
      log |-> log, weights |-> [s \in 0 .. Len(all) - 1 |-> all[s + 1]]]
StatsOf(got, total) ==
  LET log  == Highbit(total) + 1
      rest == 2^log - total
  IN IF total = 0 \/ 2^Highbit(rest) # rest THEN [ok |-> FALSE]
     ELSE WeightsWithLast(got, log, Append(got, Highbit(rest) + 1))
StatsOfWeights(got) ==
  IF got.ok THEN StatsOf(got.out, FoldLeft(LAMBDA t, w : t + (2^w) \div 2, 0, got.out)) ELSE [ok |-> FALSE]
ReadStats(header) ==
  StatsOfWeights(IF header.byFse THEN FseDecompress(header.body, HUF_TABLELOG_MAX, HufHeaderLog, 255)
                 ELSE [ok |-> TRUE, out |-> header.body])

\* HUF_readCTable: the encoder's table of a dictionary.
CTableOf(st) ==
  TableOf([s \in DOMAIN st.weights |->
             IF st.weights[s] = 0 THEN 0 ELSE st.log + 1 - st.weights[s]], st.log)
ReadCTable(header) == CTableOf(ReadStats(header))

(* -------------------------------- the streams -------------------------------- *)

\* HUF_addBits
CodeOf(bits, ct, s) == AddBits(bits, ct.val[s], ct.nb[s])
\* From the last symbol to the first; <<>> when it does not fit.
CompressStream1(src, ct, capacity) ==
  CloseCStream(FoldRight(LAMBDA s, bits : CodeOf(bits, ct, s), src, <<>>), capacity)

\* One stream, or four for the quarters, with 6 bytes for the sizes of three; size 0:
\* not compressible.
Streams1X(src, ct, capacity) ==
  LET s == CompressStream1(src, ct, capacity)
  IN [streams |-> <<s>>, size |-> Bytes8(s)]
AddStream(r, s) ==
  [streams |-> Append(r.streams, s), size |-> r.size + Bytes8(s),
   ok |-> r.ok /\ s # <<>> /\ Bytes8(s) <= 65535]
NoStreams == [streams |-> <<>>, size |-> 0]
AllStreams(r) == IF r.ok THEN [streams |-> r.streams, size |-> r.size] ELSE NoStreams
Streams4X(src, ct, capacity) ==
  LET quarter == (Len(src) + 3) \div 4
      Part(q) == SubSeq(src, (q - 1) * quarter + 1, LeastNat(q * quarter, Len(src)))
  IN IF capacity < 17 \/ Len(src) < 12 THEN NoStreams
     ELSE AllStreams(FoldLeft(LAMBDA r, q : AddStream(r, CompressStream1(Part(q), ct, capacity - r.size)),
                              [streams |-> <<>>, size |-> 6, ok |-> TRUE], <<1, 2, 3, 4>>))
UsingCTable(src, ct, four, capacity) ==
  IF four THEN Streams4X(src, ct, capacity) ELSE Streams1X(src, ct, capacity)

\* HUF_compressCTable_internal, after a header of hSize bytes.
IfShorter(r, hSize, srcSize) ==
  IF r.size = 0 \/ hSize + r.size >= srcSize - 1 THEN NoStreams
  ELSE [streams |-> r.streams, size |-> hSize + r.size]
CompressCTable(src, ct, four, hSize, capacity) ==
  IfShorter(UsingCTable(src, ct, four, capacity - hSize), hSize, Len(src))

(* ------------------------------ a new table or the last ----------------------- *)

\* The cheapest height by trial, or (optimal = FALSE) one from the size.
TrySize(r, log, least, ctLog, size) ==
  CASE (ctLog < log /\ log > least) \/ size > r.size + 1 -> [r EXCEPT !.stop = TRUE]
    [] ~(ctLog < log /\ log > least) /\ size < r.size -> [r EXCEPT !.size = size, !.log = log]
    [] OTHER -> r
TryTable(r, log, least, count, ct) ==
  TrySize(r, log, least, ct.log, EstimateSize(ct, count) + WriteCTable(ct, 2^12).size)
OptimalHufLog(count, total, maxLog, optimal) ==
  LET least == Highbit(Cardinality({s \in DOMAIN count : count[s] # 0})) + 1
      Try(r, log) == TryTable(r, log, least, count, BuildHufTable(count, log))
  IN IF ~optimal THEN OptimalTableLog(maxLog, total, Cardinality(DOMAIN count) - 1, 1)
     ELSE FoldLeftDomain(LAMBDA r, i : IF r.stop THEN r ELSE Try(r, least + i - 1),
                         [stop |-> FALSE, size |-> 2^20, log |-> maxLog],
                         [i \in 1 .. maxLog - least + 1 |-> 0]).log

\* HUF_compress_internal.  repeat: "none", "check" or "valid", for the last table.
\* A result of size 1 is one symbol, 0 not compressible; header "last" means none.
NoHuf(repeat, ct) == [size |-> 0, streams |-> <<>>, header |-> [size |-> 0], repeat |-> repeat, ct |-> ct]
WithStreams(res, r) == [res EXCEPT !.size = r.size, !.streams = r.streams]
WithLast(src, last, repeat, four, capacity) ==
  WithStreams(NoHuf(repeat, last), CompressCTable(src, last, four, 0, capacity))
WithNew(src, ct, header, four, capacity) ==
  WithStreams([NoHuf("none", ct) EXCEPT !.header = header],
              CompressCTable(src, ct, four, header.size, capacity))

\* The last table is kept when it is not dearer, or the literals are too few for a new one.
NewOrLast(h, four, last, repeat, capacity, ct, header) ==
  IF /\ repeat # "none"
     /\ \/ EstimateSize(last, h.count) <= header.size + EstimateSize(ct, h.count)
        \/ header.size + 12 >= Len(h.src)
  THEN WithLast(h.src, last, repeat, four, capacity)
  ELSE IF header.size + 12 >= Len(h.src) THEN NoHuf(repeat, last)
  ELSE WithNew(h.src, ct, header, four, capacity)
NewTable(h, four, last, repeat, capacity, ct) ==
  NewOrLast(h, four, last, repeat, capacity, ct, WriteCTable(ct, capacity))

\* Literals under suspicion are given up when a sample of either end has no symbol that is
\* frequent enough.
SampleLargest(sample) == LargestCount(Histogram(sample, MaxSymbolOf(sample)))
LooksUncompressible(src) ==
  /\ Len(src) >= SampleSize * SampleRatio
  /\ SampleLargest(SubSeq(src, 1, SampleSize)) + SampleLargest(SubSeq(src, Len(src) - SampleSize + 1, Len(src)))
       <= (2 * SampleSize) \div 128 + 4

HufCompress(src, four, last, repeat0, preferRepeat, optimal, suspect, maxLog, capacity) ==
  LET count   == Histogram(src, MaxSymbolOf(src))
      largest == LargestCount(count)
      repeat  == IF repeat0 = "check" /\ ~ValidateCTable(last, count) THEN "none" ELSE repeat0
  IN CASE Len(src) = 0 \/ capacity = 0 -> NoHuf(repeat0, last)
       [] preferRepeat /\ repeat0 = "valid" /\ Len(src) > 0 ->
            WithLast(src, last, repeat0, four, capacity)
       [] suspect /\ LooksUncompressible(src) -> NoHuf(repeat0, last)
       [] largest = Len(src)  -> [NoHuf(repeat0, last) EXCEPT !.size = 1]
       [] largest <= Len(src) \div 128 + 4 -> NoHuf(repeat0, last)
       [] OTHER ->
            IF preferRepeat /\ repeat # "none" THEN WithLast(src, last, repeat, four, capacity)
            ELSE NewTable([src |-> src, count |-> count], four, last, repeat, capacity,
                          BuildHufTable(count, OptimalHufLog(count, Len(src), maxLog, optimal)))
=============================================================================
