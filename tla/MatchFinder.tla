----------------------------- MODULE MatchFinder -----------------------------
(***********************************************************************************************************)
(* The match finders at work: a window that moves over the input, is corrected                             *)
(* and cut, and the tables of one finder (a hash chain, rows, a tree sorted                                *)
(* late, the tree of the optimal parser, or the table of the long distance                                 *)
(* matcher) that are kept from block to block and from frame to frame.                                     *)
(*   LZ.tla takes any true match for granted; here it is found: the property                               *)
(* is that what the tables say is true.                                                                    *)
(*   A plan fixes the finder, the window (1 << windowLog), the dictionary [kind, addr, data] (kind "none", *)
(* "loaded", "attached" or "dedicated") and the input <<[kind, addr, data]>>                               *)
(* (kind "frame" starts a frame, "more" continues one).                                                    *)
(***********************************************************************************************************)
EXTENDS TreeSearch, LdmTable

CONSTANTS
  Plans,          \* the sessions
  BlockMax,       \* blockSizeMax
  TooSmall,       \* a smaller block is sent raw without a look
  UpdateGap, UpdateKeep,   \* 384, 192 of ZSTD_buildSeqStore
  LongStep,       \* a step that is longer than kLazySkippingStep
  RepChoices      \* what the optimal parser may try: [rep, ll0]

VARIABLES
  plan, todo,     \* the session and its chunks still to come
  mem,            \* the caller's memory
  src, left,      \* the part of the chunk that is not compressed yet
  text,           \* the dictionary and the input of the frame up to src + left
  win, loadedDictEnd, dms,   \* of the ZSTD_MatchState_t; dms is <<>> or <<[w, ms]>>
  ms,             \* its tables
  ldm,            \* ldmState: [y, table]
  x, ip,          \* the block that is searched (<<>> for none), the next position
  found           \* the matches of the last search: [pos, of, ml], pos bytes before it

inputVars == <<plan, todo, mem, src, left, text>>
vars == <<inputVars, win, loadedDictEnd, dms, ms, ldm, x, ip, found>>

Bytes(addr, n) == [k \in 1 .. n |-> mem[addr + k - 1]]
Written(addr, data) ==
  [a \in DOMAIN mem |-> IF a \in addr .. addr + Len(data) - 1 THEN data[a - addr + 1] ELSE mem[a]]
EmptyMem == [a \in 0 .. 255 |-> 2]

Tables(p) ==
  [NoTables EXCEPT
     !.chain = CASE p.finder = "hc" -> EmptyChain [] p.finder \in {"dubt", "opt"} -> EmptyTree [] OTHER -> <<>>,
     !.rows  = IF p.finder = "row" THEN EmptyRows ELSE <<>>,
     !.cache = IF p.finder = "row" THEN EmptyCache ELSE <<>>,
     !.hash3 = IF p.finder = "opt" /\ Hash3Size > 0 THEN [h \in 0 .. Hash3Size - 1 |-> 0] ELSE <<>>]

(* ----------------------------- a dictionary ------------------------------ *)

\* ZSTD_loadDictionaryContent, after the window has taken the content in: all but its
\* end goes to the tables.
FillTables(p, m, w, memory, from, end) ==
  LET v == [w |-> w, mem |-> memory, mode |-> "noDict", windowSize |-> p.window, end |-> 0, iend |-> end]
      upTo == end - HashReadSize
      start == [m EXCEPT !.next = from]
      filled == CASE p.dict.kind = "dedicated" -> DdsLoad(v, start, upTo)
                  [] p.dict.kind # "dedicated" /\ p.finder = "hc" -> InsertAndFindFirstIndex(v, start, upTo).ms
                  [] p.dict.kind # "dedicated" /\ p.finder = "row" ->
                       RowUpdate(v, [start EXCEPT !.rows =
                         [h \in DOMAIN @ |-> [@[h] EXCEPT !.head = 0, !.tag = [k \in DOMAIN @ |-> 0]]]], upTo)
                  [] p.finder \in {"dubt", "opt"} -> UpdateTree(v, start, upTo)
                  [] OTHER -> start
  IN [(IF end - from <= HashReadSize THEN start ELSE filled) EXCEPT !.next = end]

\* ZSTD_createCDict: tables of its own over the content.
Digested(p, memory) ==
  LET w == WindowUpdate(WindowInit, p.dict.addr, Len(p.dict.data), FALSE)
  IN <<[w |-> w, ms |-> FillTables(p, Tables(p), w, memory, w.dictLimit, EndIndex(w))]>>

(* --------------------------- a frame begins ------------------------------ *)

\* ZSTD_reduceTable and its variant that keeps the mark of unsorted positions.
ReduceEntry(i, correction, preserveMark) ==
  IF preserveMark /\ i = Unsorted THEN i
  ELSE IF i < correction + StartIndex THEN 0 ELSE i - correction
\* ZSTD_reduceIndex, and nextToUpdate.
ReduceIndex(p, m, correction) ==
  [m EXCEPT !.hash  = [h \in DOMAIN @ |-> ReduceEntry(@[h], correction, FALSE)],
            !.chain = [k \in DOMAIN @ |-> ReduceEntry(@[k], correction, p.finder = "dubt")],
            !.hash3 = [h \in DOMAIN @ |-> ReduceEntry(@[h], correction, FALSE)],
            !.rows  = [h \in DOMAIN @ |->
                         [@[h] EXCEPT !.at = [k \in DOMAIN @ |-> ReduceEntry(@[k], correction, FALSE)]]],
            !.next  = MostOf2(@ - correction, 0)]

\* ZSTD_cycleLog: a tree has half as many nodes as its table has slots.
CycleSize(p) == IF p.finder \in {"dubt", "opt"} THEN TreeSize ELSE ChainSize

\* ZSTD_overflowCorrectIfNeeded for a stretch of memory.
Corrected(p, w, m, end, from, to) ==
  IF NeedOverflowCorrection(w, to)
  THEN LET c == Correction(w, CycleSize(p), p.window, from)
       IN [w |-> CorrectOverflow(w, c), ms |-> ReduceIndex(p, m, c), end |-> 0, over |-> TRUE]
  ELSE [w |-> w, ms |-> m, end |-> end, over |-> FALSE]

\* The tables keep what the last frame left in them; only the limits of the window say
\* that it is not to be used (ZSTD_invalidateMatchState).
BeginFrame ==
  /\ x = <<>> /\ left = 0 /\ todo # <<>> /\ Head(todo).kind = "frame"
  /\ LET cleared == WindowClear(win)
         d       == plan.dict
         len     == Len(d.data)
         moved   == IF cleared.dictLimit < StartIndex + len
                    THEN WindowClear([cleared EXCEPT !.nextSrc = cleared.base + StartIndex + len])
                    ELSE cleared
         loaded  == WindowUpdate(cleared, d.addr, len, FALSE)
         fixed   == Corrected(plan, loaded, ms, EndIndex(loaded), d.addr, d.addr + len)
         fresh   == [ms EXCEPT !.next = cleared.dictLimit, !.skipping = FALSE]
     IN CASE d.kind = "none" ->
               win' = cleared /\ loadedDictEnd' = 0 /\ dms' = <<>> /\ ms' = fresh
          [] d.kind = "loaded" ->
               /\ win' = fixed.w /\ loadedDictEnd' = fixed.end /\ dms' = <<>>
               /\ ms' = FillTables(plan, [fixed.ms EXCEPT !.skipping = FALSE], fixed.w, mem,
                                   EndIndex(fixed.w) - len, EndIndex(fixed.w))
          [] OTHER ->
               /\ win' = moved /\ loadedDictEnd' = moved.dictLimit
               /\ dms' = Digested(plan, mem)
               /\ ms' = [fresh EXCEPT !.next = moved.dictLimit]
  /\ ldm' = LET w == WindowUpdate(WindowInit, plan.dict.addr, Len(plan.dict.data), FALSE)
                y == [w |-> w, mem |-> mem, end |-> EndIndex(w)]
            IN IF plan.finder # "ldm" THEN ldm
               ELSE IF plan.dict.kind = "loaded"
                    THEN [y |-> y, table |-> LdmFillHashTable(y, EmptyLdm, w.dictLimit, EndIndex(w))]
                    ELSE [y |-> [w |-> WindowInit, mem |-> mem, end |-> 0], table |-> EmptyLdm]
  /\ text' = plan.dict.data
  /\ todo' = [todo EXCEPT ![1].kind = "more"]
  /\ found' = <<>>
  /\ UNCHANGED <<plan, mem, src, left, x, ip>>

\* ZSTD_compressContinue_internal.
NextChunk ==
  /\ x = <<>> /\ left = 0 /\ todo # <<>> /\ Head(todo).kind = "more"
  /\ LET chunk == Head(todo)
         size  == Len(chunk.data)
     IN /\ mem' = Written(chunk.addr, chunk.data)
        /\ src' = chunk.addr /\ left' = size
        /\ text' = text \o chunk.data
        /\ win' = WindowUpdate(win, chunk.addr, size, FALSE)
        /\ ms' = IF Contiguous(win, chunk.addr, size, FALSE) THEN ms ELSE [ms EXCEPT !.next = win'.dictLimit]
        /\ ldm' = [ldm EXCEPT !.y.w = WindowUpdate(@, chunk.addr, size, FALSE), !.y.mem = mem']
  /\ todo' = Tail(todo)
  /\ found' = <<>>
  /\ UNCHANGED <<plan, loadedDictEnd, dms, x, ip>>

(* ---------------------------- a block begins ----------------------------- *)

\* ZSTD_compress_frameChunk: correction, validity of the dictionary, the window.
WindowFor(size) ==
  LET c      == Corrected(plan, win, ms, loadedDictEnd, src, src + size)
      valid  == DictStaysValid(c.w, src + size, plan.window, c.end)
      end    == IF valid THEN c.end ELSE 0
      beyond == BeyondMaxDist(c.w, src, plan.window, end)
      w      == EnforceMaxDist(c.w, src, plan.window, end)
  IN [w |-> w, end |-> IF beyond THEN 0 ELSE end,
      dms |-> IF c.over \/ ~valid \/ beyond THEN <<>> ELSE dms,
      ms |-> [c.ms EXCEPT !.next = MostOf2(@, w.lowLimit)]]

\* After a very long match only the last positions before the block are inserted.
LimitedUpdate(m, curr) ==
  IF curr > m.next + UpdateGap
  THEN [m EXCEPT !.next = curr - LeastOf2(UpdateKeep, curr - m.next - UpdateGap)] ELSE m

ModeOf(r) ==
  CASE HasExtDict(r.w) -> "ext"
    [] ~HasExtDict(r.w) /\ r.dms # <<>> -> IF plan.dict.kind = "dedicated" THEN "dds" ELSE "dms"
    [] OTHER -> "noDict"

SearchOf(r, size) ==
  [w |-> r.w, mem |-> mem, mode |-> ModeOf(r), windowSize |-> plan.window, end |-> r.end,
   iend |-> src + size - r.w.base, dms |-> IF r.dms = <<>> THEN <<>> ELSE r.dms[1]]

\* The last position that is searched, and the first one.
Ilimit(v) == v.iend - HashReadSize - (IF plan.finder = "row" THEN CacheSize ELSE 0)
FirstIp(v, istart) ==
  IF istart = v.w.dictLimit /\ (plan.finder = "opt" \/ v.mode \notin {"dms", "dds"}) THEN istart + 1 ELSE istart

Position(i, v) == Len(text) - left + (i + v.w.base - src)

BlockSize == LeastOf2(left, BlockMax)
Opened(r) == win' = r.w /\ loadedDictEnd' = r.end /\ dms' = r.dms

\* A block compressor starts: the cache of the rows is filled from nextToUpdate on.
BeginBlock ==
  /\ x = <<>> /\ left > 0 /\ plan.finder # "ldm"
  /\ LET r == WindowFor(BlockSize)
         v == SearchOf(r, BlockSize)
         m == [LimitedUpdate(r.ms, src - r.w.base) EXCEPT !.skipping = FALSE, !.next3 = LimitedUpdate(r.ms, src - r.w.base).next]
     IN /\ Opened(r)
        /\ IF BlockSize < TooSmall
           THEN ms' = r.ms /\ src' = src + BlockSize /\ left' = left - BlockSize /\ UNCHANGED <<x, ip>>
           ELSE /\ ms' = IF plan.finder = "row" THEN FillCache(v, m, m.next, Ilimit(v)) ELSE m
                /\ x' = v /\ ip' = FirstIp(v, src - r.w.base)
                /\ UNCHANGED <<src, left>>
  /\ found' = <<>>
  /\ UNCHANGED <<plan, todo, mem, text, ldm>>

\* The long distance matcher lists its sequences for all of the input at hand (a block,
\* or the section of a job).
GenerateSequences ==
  /\ x = <<>> /\ left > 0 /\ plan.finder = "ldm"
  /\ \E g \in {LdmGenerate(ldm.y, ldm.table, src, left, plan.window)} :
        /\ ldm' = [y |-> g.y, table |-> g.ldm]
        /\ found' = [k \in DOMAIN g.seqs |->
                       [pos |-> Len(text) - left + g.seqs[k].ip - src, of |-> g.seqs[k].of, ml |-> g.seqs[k].ml,
                        ll |-> g.seqs[k].ll]]
  /\ src' = src + left /\ left' = 0
  /\ UNCHANGED <<plan, todo, mem, text, win, loadedDictEnd, dms, ms, x, ip>>

(* ------------------------------- searches -------------------------------- *)

Match(i, at, ml) == [pos |-> Position(i, x), of |-> i - at, ml |-> ml, ll |-> 0]

\* ZSTD_searchMax: the finder of the session.
SearchMax ==
  CASE plan.finder = "hc"   -> HcFindBestMatch(x, ms, ip)
    [] plan.finder = "row"  -> RowFindBestMatch(x, ms, ip)
    [] plan.finder = "dubt" -> BtFindBestMatch(x, ms, ip)

\* Mutant: the cache is not filled again when the skipping ends.
StopSkippingOnly(m) == [m EXCEPT !.skipping = FALSE]

\* A sequence was stored: the parser leaves the skipping mode.
StopSkipping(m) ==
  IF m.skipping /\ plan.finder = "row"
  THEN [FillCache(x, m, m.next, Ilimit(x)) EXCEPT !.skipping = FALSE]
  ELSE [m EXCEPT !.skipping = FALSE]

\* A step of the lazy parsers: without a match they go on by one or by a long step, or
\* store a repeated offset; with one they look at the next position, or store it.
LazySearch ==
  /\ x # <<>> /\ ip <= Ilimit(x) /\ plan.finder \in {"hc", "row", "dubt"}
  /\ \E r \in {SearchMax} : LET hit == r.best.ml >= MinMatch IN
        /\ found' = IF hit THEN <<Match(ip, r.best.at, r.best.ml)>> ELSE <<>>
        /\ \/ ip' = ip + 1 /\ (hit \/ ~r.ms.skipping) /\ ms' = r.ms
           \/ ~hit /\ ip' = ip + LongStep /\ ms' = [r.ms EXCEPT !.skipping = TRUE]
           \/ ~hit /\ ip' = ip + 1 + MinMatch /\ ms' = StopSkipping(r.ms)
           \/ hit /\ ip' = ip + r.best.ml /\ ms' = StopSkipping(r.ms)
  /\ UNCHANGED <<inputVars, win, loadedDictEnd, dms, ldm, x>>

\* A step of the optimal parser.
OptSearch ==
  /\ x # <<>> /\ ip <= Ilimit(x) /\ plan.finder = "opt"
  /\ \E r \in {BtGetAllMatches(x, ms, ip, c.rep, c.ll0) : c \in RepChoices} :
        /\ found' = [k \in DOMAIN r.list |-> Match(ip, r.list[k].at, r.list[k].ml)]
        /\ ms' = r.ms
        /\ ip' \in {ip + 1} \union {ip + r.list[k].ml : k \in DOMAIN r.list}
  /\ UNCHANGED <<inputVars, win, loadedDictEnd, dms, ldm, x>>

EndBlock ==
  /\ x # <<>> /\ ip >= Ilimit(x)
  /\ src' = src + BlockSize /\ left' = left - BlockSize
  /\ x' = <<>> /\ ip' = 0 /\ found' = <<>>
  /\ UNCHANGED <<plan, todo, mem, text, win, loadedDictEnd, dms, ms, ldm>>

Init ==
  /\ plan \in Plans /\ todo = plan.input
  /\ mem = [a \in DOMAIN EmptyMem |->
              IF a \in plan.dict.addr .. plan.dict.addr + Len(plan.dict.data) - 1
              THEN plan.dict.data[a - plan.dict.addr + 1] ELSE EmptyMem[a]]
  /\ src = 0 /\ left = 0 /\ text = <<>>
  /\ win = WindowInit /\ loadedDictEnd = 0 /\ dms = <<>> /\ ms = Tables(plan)
  /\ ldm = [y |-> [w |-> WindowInit, mem |-> mem, end |-> 0], table |-> EmptyLdm]
  /\ x = <<>> /\ ip = 0 /\ found = <<>>

Next == BeginFrame \/ NextChunk \/ BeginBlock \/ GenerateSequences \/ LazySearch \/ OptSearch \/ EndBlock

Spec == Init /\ [][Next]_vars

(* ------------------------------ properties ------------------------------- *)

DictLen == Len(plan.dict.data)
\* What the decoder still has: the window, or all of the dictionary while the content
\* is not longer than the window.
Reachable(m) ==
  m.of <= m.pos /\ (m.of <= plan.window \/ m.pos + m.ml - DictLen <= plan.window)

\* Whatever the tables hold (positions of earlier frames, of a segment that has been
\* overwritten, indices that were corrected, trees sorted late), a match that is found
\* repeats the bytes it says it does, within the block, and the decoder has them.
MatchesAreTrue ==
  \A k \in DOMAIN found :
    LET m == found[k]
    IN /\ Reachable(m)
       /\ m.pos + m.ml <= Len(text)
       /\ \A i \in 1 .. m.ml : text[m.pos + i] = text[m.pos + i - m.of]

\* A hash taken from the cache of the row finder is that of the position it is used for
\* (the assertion of ZSTD_row_update_internalImpl).
CacheIsFresh == ms.fresh

\* What is produced fits where it is put: the list of the long distance matcher in the
\* space reserved for it (ZSTD_ldm_getMaxNbSeq), its literals and matches following each
\* other, and the chains of a dedicated dictionary in its table ("assert(chainPos <=
\* chainSize); /* I believe this is guaranteed... */").
TablesFit ==
  /\ plan.finder = "ldm" /\ found # <<>> =>
       /\ Len(found) <= LdmMaxNbSeq(Len(text) - DictLen)
       /\ \A k \in DOMAIN found : found[k].ll >= 0
       /\ \A k \in 1 .. Len(found) - 1 : found[k + 1].pos = found[k].pos + found[k].ml + found[k + 1].ll
  /\ dms # <<>> /\ plan.dict.kind = "dedicated" => Len(dms[1].ms.chain) <= DdsChainSize
=============================================================================
