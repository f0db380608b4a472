----------------------------- MODULE BlockParse -----------------------------
(*******************************************************************************)
(* What all block compressors share: the bytes a block may refer to, and a     *)
(* parse of the block that stores one sequence after the other.                *)
(*   A block is a record b.  b.bytes maps each index that can be referred to   *)
(* to its byte; indices are those of the window, and an attached dictionary    *)
(* (dictMatchState) takes the indices just below the prefix, as the code       *)
(* translates them with dictIndexDelta.  b.mode is the dictMode, b.prefix      *)
(* the start of the prefix, b.dictLow the start of the other segment.          *)
(*   A parse is a record s: ip, the literals since anchor, the offsets o (o[1] *)
(* is offset_1), those put aside because they reach out of the window, and     *)
(* the seqStore.  A byte that cannot be referred to may hold anything: it is   *)
(* taken to match, so that a search that reads it without need is seen.        *)
(*******************************************************************************)
EXTENDS SeqCodes, Window

CONSTANTS
  LongMatch,     \* 8: the read of the long hash of doubleFast
  ReadSize       \* HASH_READ_SIZE: no search in the last ReadSize bytes

Least(S) == CHOOSE x \in S : \A y \in S : x <= y
Most(S)  == CHOOSE x \in S : \A y \in S : x >= y

Same(b, i, j) ==
  i \notin DOMAIN b.bytes \/ j \notin DOMAIN b.bytes \/ b.bytes[i] = b.bytes[j]

\* The first bytes are compared as they lie in memory: behind the other segment
\* there is anything.
Reads(b, i, j, n) ==
  \A k \in 0 .. n - 1 : (j < b.w.dictLimit /\ j + k >= b.w.dictLimit) \/ Same(b, i + k, j + k)

\* They are trusted, and counting goes on behind them (ZSTD_count, and
\* ZSTD_count_2segments, whose index goes on from the end of the other segment to
\* the start of the prefix).
Count(b, i, j) ==
  Most({n \in MinMatch .. b.iend - i :
          \A k \in MinMatch .. n - 1 : Same(b, i + k, j + k)})

\* The catch up loop: no further back than the anchor and the start of the segment.
Backward(b, s, i, j, floor) ==
  Most({n \in 0 .. i - s.anchor :
          j - n >= floor /\ \A k \in 1 .. n : Same(b, i - k, j - k)})

FloorOf(b, j) == IF j < b.prefix THEN b.dictLow ELSE b.prefix
ilimit(b) == b.iend - ReadSize

\* ZSTD_index_overlap_check: the match does not start in the last bytes of the
\* other segment.
\* Mutant: no check.
NoOverlapCheck(b, j) == TRUE
NoOverlap(b, j) == j + MinMatch <= b.prefix \/ j >= b.prefix

\* What a table may hold when position p is looked up: an earlier position of the
\* prefix, a position of an older segment that was far enough from its end, or
\* a position that has long left the window.
Entries(b, p) ==
  {j \in 0 .. p - 1 : j < b.w.dictLimit => j + ReadSize <= b.w.dictLimit}

\* What the tables of an attached dictionary may hold.
DictEntries(b) == {j \in b.dictLow .. b.prefix - ReadSize : b.mode = "dms"}

Literals(b, from, to) == [k \in 1 .. to - from |-> b.bytes[from + k - 1]]

Stored(b, s, p, offBase, ml) ==
  [s EXCEPT !.store = StoreSeq(@, Literals(b, s.anchor, p), offBase, ml),
            !.ip = p + ml, !.anchor = p + ml]

\* A match of p with index j is stored, grown backward, as a new offset.
OffsetMatch(b, s, p, j) ==
  LET back == Backward(b, s, p, j, FloorOf(b, j))
  IN [Stored(b, s, p - back, OffBaseOf(p - j), back + Count(b, p, j))
      EXCEPT !.o = <<p - j, s.o[1], s.o[3]>>]

\* A match at offset_1, grown backward by at most `most` bytes.
RepMatch(b, s, p, most) ==
  LET back == IF most = 1 /\ Same(b, p - 1, p - 1 - s.o[1]) THEN 1 ELSE 0
  IN Stored(b, s, p - back, 1, back + Count(b, p, p - s.o[1]))

Repeats(b, p, o) == Reads(b, p, p - o, MinMatch)
RepMatches(b, s, P, most) == {RepMatch(b, s, p, most) : p \in P}
OffsetMatches(b, s, P, Found(_)) ==
  UNION {{OffsetMatch(b, s, p, j) : j \in Found(p)} : p \in P}

\* After a match: while the bytes at ip match at offset_2, that is a sequence
\* without literals, and the two offsets are swapped.
ImmediateReps(b, s, Usable(_, _)) ==
  LET RECURSIVE More(_)
      More(t) ==
        IF /\ t.ip <= ilimit(b)
           /\ Usable(t.ip, t.o[2])
           /\ Reads(b, t.ip, t.ip - t.o[2], MinMatch)
        THEN More([Stored(b, t, t.ip, 1, Count(b, t.ip, t.ip - t.o[2]))
                   EXCEPT !.o = <<t.o[2], t.o[1], t.o[3]>>])
        ELSE t
  IN More(s)

\* An offset that reaches out of the prefix is put aside for this block ...
PutAside(s, tooFar(_)) ==
  [s EXCEPT !.o = [k \in 1 .. 3 |-> IF k < 3 /\ tooFar(@[k]) THEN 0 ELSE @[k]],
            !.saved = [k \in 1 .. 2 |-> IF tooFar(s.o[k]) THEN s.o[k] ELSE 0]]

\* ... and is there again for the next one, as the last or the last but one.
RepsAfter(s) ==
  LET second == IF s.saved[1] # 0 /\ s.o[1] # 0 THEN s.saved[1] ELSE s.saved[2]
  IN <<IF s.o[1] # 0 THEN s.o[1] ELSE s.saved[1],
       IF s.o[2] # 0 THEN s.o[2] ELSE second, s.o[3]>>

ParseStart(b, rep) ==
  [ip |-> b.istart, anchor |-> b.istart, o |-> rep, saved |-> <<0, 0>>, store |-> EmptyStore]

\* The two segments of a search: bounds as seen from the end of the block.
LowestIn(b, curr)  == LowestMatchIndex(b.w, curr, b.windowSize, b.loadedDictEnd)
LowestPrefixIn(b, curr) == LowestPrefixIndex(b.w, curr, b.windowSize, b.loadedDictEnd)

NoDictBlock(b) == [b EXCEPT !.mode = "noDict", !.prefix = LowestPrefixIn(b, b.iend),
                            !.dictLow = LowestPrefixIn(b, b.iend)]
ExtDictBlock(b) == LET low == LowestIn(b, b.iend)
                   IN [b EXCEPT !.dictLow = low, !.prefix = Most({low, b.w.dictLimit})]
=============================================================================
