----------------------------- MODULE TreeSearch -----------------------------
(******************************************************************************)
(* The binary trees of btlazy2 (compress/zstd_lazy.c) and of the optimal      *)
(* parser (compress/zstd_opt.c).  A node is a position of the window: slots   *)
(* 2*(i % TreeSize) and 2*(i % TreeSize) + 1 of ms.chain hold a position with *)
(* a smaller and one with a larger string.  btlazy2 first links new positions *)
(* in a list, marks them unsorted, and sorts them when a search meets them.   *)
(******************************************************************************)
EXTENDS TableSearch

CONSTANTS
  TreeSize,        \* 1 << (chainLog - 1)
  OptNum,          \* ZSTD_OPT_NUM
  SufficientLen,   \* targetLength
  Hash3Size,       \* 1 << hashLog3, 0 for none
  LongBest, LongSkip   \* 384 and 192 of ZSTD_insertBt1

Unsorted  == 1     \* ZSTD_DUBT_UNSORTED_MARK
Nowhere   == -1    \* dummy32
EmptyTree == [i \in 0 .. 2 * TreeSize - 1 |-> 0]
Slot(i)   == 2 * (i % TreeSize)
Put(chain, slot, i) == IF slot = Nowhere THEN chain ELSE [chain EXCEPT ![slot] = i]
TreeLow(curr) == IF TreeSize - 1 >= curr THEN 0 ELSE curr - (TreeSize - 1)

(*******************************************************************************)
(* The way down from t.m, shared by the four functions that walk a tree.  The  *)
(* strings to the left of the walk share t.cs bytes with the searched one, and *)
(* those to the right t.cl, so each node shares the lesser of them at least.   *)
(* q: [x, curr, end, low, btLow, cap]; t: [chain, m, cs, cl, smaller, larger,  *)
(* n, seen, full]: seen is the list of the nodes and their common lengths.     *)
(*******************************************************************************)
Descent(chain, m, curr, n) ==
  [chain |-> chain, m |-> m, cs |-> 0, cl |-> 0, smaller |-> Slot(curr), larger |-> Slot(curr) + 1,
   n |-> n, seen |-> <<>>, full |-> FALSE]

\* Mutant: the greater of the two lengths.
CommonMost(t) == MostOf2(t.cs, t.cl)
Common(t) == LeastOf2(t.cs, t.cl)

RECURSIVE Descend(_, _)
Descend(q, t) ==
  IF t.n = 0 \/ t.m < q.low THEN t
  ELSE LET Mine(k)   == At(q.x, q.curr + k)
           Theirs(k) == At(q.x, t.m + k)
           len  == Longest(Mine, Theirs, LeastOf2(Common(t), q.end - q.curr), q.end - q.curr)
           u    == [t EXCEPT !.seen = Append(@, [m |-> t.m, ml |-> len])]
           left == [u EXCEPT !.chain = Put(@, t.smaller, t.m), !.cs = len]
           right == [u EXCEPT !.chain = Put(@, t.larger, t.m), !.cl = len]
       IN CASE q.curr + len = q.end \/ len > q.cap -> [u EXCEPT !.full = TRUE]
            [] OTHER ->
                 IF Theirs(len) < Mine(len)
                 THEN IF t.m <= q.btLow THEN [left EXCEPT !.smaller = Nowhere]
                      ELSE Descend(q, [left EXCEPT !.smaller = Slot(t.m) + 1,
                                                   !.m = left.chain[Slot(t.m) + 1], !.n = @ - 1])
                 ELSE IF t.m <= q.btLow THEN [right EXCEPT !.larger = Nowhere]
                      ELSE Descend(q, [right EXCEPT !.larger = Slot(t.m),
                                                    !.m = right.chain[Slot(t.m)], !.n = @ - 1])

Closed(t) == Put(Put(t.chain, t.smaller, 0), t.larger, 0)

\* The tree of the dictionary is only read.
RECURSIVE DescendDict(_, _, _, _)
DescendDict(x, ip, cap, t) ==
  IF t.n = 0 \/ t.m <= x.dms.w.lowLimit THEN t
  ELSE LET Mine(k)   == At(x, ip + k)
           Theirs(k) == DictAt(x, t.m + k)
           len  == Longest(Mine, Theirs, Common(t), x.iend - ip)
           u    == [t EXCEPT !.seen = Append(@, [m |-> t.m + DictDelta(x), ml |-> len])]
           span == DictHigh(x) - x.dms.w.lowLimit
           btLow == IF TreeSize - 1 >= span THEN x.dms.w.lowLimit ELSE DictHigh(x) - (TreeSize - 1)
       IN IF ip + len = x.iend \/ len > cap \/ t.m <= btLow THEN u
          ELSE IF Theirs(len) < Mine(len)
               THEN DescendDict(x, ip, cap, [u EXCEPT !.cs = len, !.n = @ - 1,
                                                 !.m = x.dms.ms.chain[Slot(t.m) + 1]])
               ELSE DescendDict(x, ip, cap, [u EXCEPT !.cl = len, !.n = @ - 1,
                                                 !.m = x.dms.ms.chain[Slot(t.m)]])

\* The farthest byte a match refers to: positions up to it repeat and are not inserted.
\* least is the length from which on a match counts.
MatchEnd(curr, seen, least) ==
  Max({curr + HashReadSize + 1} \union {seen[k].m + seen[k].ml : k \in {j \in DOMAIN seen : seen[j].ml > least}})

(* -------------------------------- btlazy2 -------------------------------- *)

\* ZSTD_updateDUBT: the new positions are linked in a list and marked.
UpdateDUBT(x, ms, ip) ==
  LET One(m, i) == [m EXCEPT !.chain = Put(Put(@, Slot(i), m.hash[Hash(x, i)]), Slot(i) + 1, Unsorted),
                             !.hash[Hash(x, i)] = i]
      done == FoldLeft(One, ms, [k \in 1 .. MostOf2(ip - ms.next, 0) |-> ms.next + k - 1])
  IN [done EXCEPT !.next = ip]

\* ZSTD_insertDUBT1: one marked position is sorted in; it may be in the extDict.
InsertDUBT1(x, chain, curr, n, btLow) ==
  LET low == LowestIndex(x.w.lowLimit, curr, x.windowSize, 0)
      q == [x |-> x, curr |-> curr, end |-> IF curr >= x.w.dictLimit THEN x.iend ELSE x.w.dictLimit,
            low |-> low + 1, btLow |-> btLow, cap |-> x.iend]
  IN Closed(Descend(q, Descent(chain, chain[Slot(curr)], curr, n)))

\* The marked candidates at the head of the list, at most n - 1 of them; the last one
\* that is still marked is dropped.
RECURSIVE UnsortedList(_, _, _, _, _)
UnsortedList(chain, m, limit, n, list) ==
  IF m > limit /\ chain[Slot(m) + 1] = Unsorted
  THEN IF n > 1 THEN UnsortedList(chain, chain[Slot(m)], limit, n - 1, Append(list, m))
       ELSE [chain |-> Put(Put(chain, Slot(m), 0), Slot(m) + 1, 0), list |-> list, n |-> n]
  ELSE [chain |-> chain, list |-> list, n |-> n]

\* ... and they are sorted, the oldest first.
BatchSort(x, u, limit) ==
  LET k == Len(u.list)
      One(chain, j) == InsertDUBT1(x, chain, u.list[k + 1 - j], u.n + j - 1, limit)
  IN FoldLeft(One, u.chain, [j \in 1 .. k |-> j])

Log2(n) == CHOOSE k \in 0 .. 29 : 2 ^ k <= n /\ n < 2 * 2 ^ k

\* A longer match is taken when it is worth its offset: the offset code of the best
\* one, plus more, is weighed against its length.
Worth(curr, best, cand, more) ==
  /\ cand.ml > best.ml
  /\ 4 * (cand.ml - best.ml) > Log2(curr - cand.m + 1)
       - (IF best.at = 0 THEN 29 ELSE Log2(curr - best.at + 3 + more))
Choose(curr, best, seen, more) ==
  FoldLeft(LAMBDA b, c : IF Worth(curr, b, c, more) THEN [ml |-> c.ml, at |-> c.m] ELSE b, best, seen)

\* ZSTD_DUBT_findBestMatch, after the candidates are sorted.
DUBTSearch(x, ms, chain, ip) ==
  LET first == ms.hash[Hash(x, ip)]
      q == [x |-> x, curr |-> ip, end |-> x.iend, low |-> LowestAt(x, ip) + 1,
            btLow |-> TreeLow(ip), cap |-> x.iend]
      t == Descend(q, Descent(chain, first, ip, Attempts))
      best == Choose(ip, [ml |-> 0, at |-> 0], t.seen, 0)
  IN [ms |-> [ms EXCEPT !.hash[Hash(x, ip)] = ip, !.chain = Closed(t),
                        !.next = MatchEnd(ip, t.seen, 0) - HashReadSize],
      n |-> IF t.full THEN 0 ELSE t.n, best |-> best]

\* ZSTD_DUBT_findBetterDictMatch.
DUBTBetterDictMatch(x, ip, n, best) ==
  Choose(ip, best, DescendDict(x, ip, x.iend, Descent(<<>>, x.dms.ms.hash[Hash(x, ip)], ip, n)).seen, 1)

DUBTFindBestMatch(x, ms, ip) ==
  LET limit == MostOf2(TreeLow(ip), LowestAt(x, ip))
      u == UnsortedList(ms.chain, ms.hash[Hash(x, ip)], limit, Attempts, <<>>)
      r == DUBTSearch(x, ms, BatchSort(x, u, limit), ip)
  IN [ms |-> r.ms,
      best |-> IF x.mode = "dms" /\ r.n > 0 THEN DUBTBetterDictMatch(x, ip, r.n, r.best) ELSE r.best]

\* ZSTD_BtFindBestMatch: nothing is looked for in an area that was skipped.
BtFindBestMatch(x, ms, ip) ==
  IF ip < ms.next THEN [ms |-> ms, best |-> [ml |-> 0, at |-> 0]]
  ELSE DUBTFindBestMatch(x, UpdateDUBT(x, ms, ip), ip)

(* ----------------------------- optimal parser ---------------------------- *)

\* After a very long match some positions are passed over in any case.
SpeedUp(seen) ==
  LET best == Max({0} \union {seen[k].ml : k \in DOMAIN seen})
  IN IF best > LongBest THEN LeastOf2(LongSkip, best - LongBest) ELSE 0

\* ZSTD_insertBt1: a position is inserted and sorted at once.  The positions a long
\* match repeats are passed over.
InsertBt1(x, ms, curr, target) ==
  LET q == [x |-> x, curr |-> curr, end |-> x.iend, low |-> LowestAt(x, target),
            btLow |-> TreeLow(curr), cap |-> x.iend]
      t == Descend(q, Descent(ms.chain, ms.hash[Hash(x, curr)], curr, Attempts))
  IN [ms EXCEPT !.hash[Hash(x, curr)] = curr, !.chain = Closed(t),
                !.next = MostOf2(MatchEnd(curr, t.seen, HashReadSize) - HashReadSize,
                                 curr + SpeedUp(t.seen))]

\* ZSTD_updateTree.
RECURSIVE UpdateFrom(_, _, _)
UpdateFrom(x, ms, target) ==
  IF ms.next >= target THEN ms ELSE UpdateFrom(x, InsertBt1(x, ms, ms.next, target), target)
UpdateTree(x, ms, target) == [UpdateFrom(x, ms, target) EXCEPT !.next = target]

NoOverlap(prefix, i) == i >= prefix \/ prefix - 1 - i >= MinMatch - 1

\* The length of the match at the offset with code c, 0 for none.
RepLength(x, ip, of) ==
  LET m     == ip - of
      inDict == x.mode = "dms" /\ m >= x.w.dictLimit - (DictHigh(x) - x.dms.w.lowLimit)
      Theirs(k) == IF m >= x.w.dictLimit \/ x.mode = "ext" THEN At(x, m + k)
                   ELSE DictAt(x, m - DictDelta(x) + k)
  IN IF /\ of > 0
        /\ IF m >= x.w.dictLimit THEN m >= LowestAt(x, ip)
           ELSE /\ NoOverlap(x.w.dictLimit, m)
                /\ inDict \/ (x.mode = "ext" /\ m >= LowestAt(x, ip))
     THEN IF SameStart(LAMBDA k : At(x, ip + k), Theirs)
          THEN Longest(LAMBDA k : At(x, ip + k), Theirs, MinMatch, x.iend - ip) ELSE 0
     ELSE 0

\* Each candidate that is longer than the ones before it goes to the list.
Longer(list, ml, at, base) ==
  IF ml > (IF list = <<>> THEN base ELSE Last(list).ml) THEN Append(list, [ml |-> ml, at |-> at]) ELSE list

\* The repcodes come first; with no literals before the match they are the second, the
\* third, and the first one less one.
RepMatches(x, ip, reps, ll0) ==
  LET of == IF ll0 THEN <<reps[2], reps[3], reps[1] - 1>> ELSE reps
      Ends(list) == list # <<>> /\ (Last(list).ml > SufficientLen \/ ip + Last(list).ml = x.iend)
      list == FoldLeft(LAMBDA l, o : IF Ends(l) THEN l ELSE Longer(l, RepLength(x, ip, o), ip - o, MinMatch - 1),
                       <<>>, of)
  IN [list |-> list, ends |-> Ends(list)]

\* ZSTD_insertAndFindFirstIndexHash3.
InsertHash3(x, ms, ip) ==
  LET Hash3(i) == At(x, i) % Hash3Size
      table == [h \in 0 .. Hash3Size - 1 |->
                  IF \E i \in ms.next3 .. ip - 1 : Hash3(i) = h
                  THEN Max({i \in ms.next3 .. ip - 1 : Hash3(i) = h}) ELSE ms.hash3[h]]
  IN [ms |-> [ms EXCEPT !.hash3 = table, !.next3 = ip], first |-> table[Hash3(ip)]]

ShortMatch(x, ip, m) ==
  IF m >= MostOf2(LowestAt(x, ip), 1) /\ CountAt(x, ip, m) >= MinMatch
  THEN <<[ml |-> CountAt(x, ip, m), at |-> m]>> ELSE <<>>

\* The tree, then the tree of the dictionary.
TreeMatches(x, ms, ip, list) ==
  LET q == [x |-> x, curr |-> ip, end |-> x.iend, low |-> MostOf2(LowestAt(x, ip), 1),
            btLow |-> TreeLow(ip), cap |-> OptNum]
      t == Descend(q, Descent(ms.chain, ms.hash[Hash(x, ip)], ip, Attempts))
      base == IF list = <<>> THEN MinMatch - 1 ELSE Last(list).ml
      dict == IF x.mode # "dms" \/ t.full \/ t.n = 0 THEN <<>>
              ELSE DescendDict(x, ip, OptNum, Descent(<<>>, x.dms.ms.hash[Hash(x, ip)], ip, t.n)).seen
      all  == FoldLeft(LAMBDA l, c : Longer(l, c.ml, c.m, MinMatch - 1), list, t.seen \o dict)
  IN [ms |-> [ms EXCEPT !.hash[Hash(x, ip)] = ip, !.chain = Closed(t),
                        !.next = MatchEnd(ip, t.seen \o dict, base) - HashReadSize],
      list |-> all]

\* ZSTD_insertBtAndGetAllMatches: what is long enough ends the search.
InsertBtAndGetAllMatches(x, ms, ip, reps, ll0) ==
  LET r  == RepMatches(x, ip, reps, ll0)
      h3 == Hash3Size > 0 /\ r.list = <<>>
      h  == IF h3 THEN InsertHash3(x, ms, ip) ELSE [ms |-> ms, first |-> 0]
      s  == IF h3 THEN ShortMatch(x, ip, h.first) ELSE r.list
  IN CASE r.ends -> [ms |-> ms, list |-> r.list]
       [] ~r.ends /\ h3 /\ s # <<>> /\ (s[1].ml > SufficientLen \/ ip + s[1].ml = x.iend)
            -> [ms |-> [h.ms EXCEPT !.next = ip + 1], list |-> s]
       [] OTHER -> TreeMatches(x, h.ms, ip, s)

\* ZSTD_btGetAllMatches.
BtGetAllMatches(x, ms, ip, reps, ll0) ==
  IF ip < ms.next THEN [ms |-> ms, list |-> <<>>]
  ELSE InsertBtAndGetAllMatches(x, UpdateTree(x, ms, ip), ip, reps, ll0)
=============================================================================
