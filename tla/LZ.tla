--------------------------------- MODULE LZ ---------------------------------
(************************************************************************************)
(* The way of the input through a compression context: the window moves over        *)
(* it (zstd_compress_internal.h), a block compressor, the long distance             *)
(* matcher, an external producer or the application finds sequences                 *)
(* (ZSTD_buildSeqStore), the block is sent compressed, raw, in partitions or        *)
(* in sub-blocks, and the last offsets are carried to the next block.               *)
(*   The decoder follows with its own copy of the last offsets and its own          *)
(* output; it is what the encoder's bookkeeping is compared with.                   *)
(*   A plan fixes the parameters of a session and its input:                        *)
(*     strat     "fast", "dfast", "lazy" or "opt"                                   *)
(*     source    where sequences come from: "internal", "ldm", "producer",          *)
(*               "noDelim" (ZSTD_compressSequences without delimiters)              *)
(*     search, fallback   searchForExternalRepcodes, enableMatchFinderFallback      *)
(*     emit      "plain", "split" (post block splitter), "super" (targetCBlockSize) *)
(*     dict      [kind, addr, data]: kind "none", "loaded" or "attached"            *)
(*     input     the chunks <<[kind, addr, data]>>: kind "frame" starts a           *)
(*               frame, "job" a ZSTDMT job with the data before it as prefix,       *)
(*               "more" continues                                                   *)
(************************************************************************************)
EXTENDS RawSeqs

CONSTANTS
  Plans,         \* the sessions
  WindowSize,    \* 1 << windowLog
  BlockMax,      \* blockSizeMax
  TooSmall,      \* smaller blocks are sent raw without a look
  SplitMin,      \* MIN_SEQUENCES_BLOCK_SPLITTING
  OverlapSize,   \* the prefix of a ZSTDMT job
  MaxRaw         \* bound: raw sequences in a list

VARIABLES
  plan, todo,    \* the session, its chunks still to come
  mem,           \* the caller's memory: address -> byte
  src, left,     \* the part of the chunk that is not compressed yet
  win, forced,   \* ms->window, ms->forceNonContiguous
  loadedDictEnd, \* ms->loadedDictEnd
  dms,           \* the content of ms->dictMatchState, <<>> for none
  rep,           \* prevCBlock->rep
  raw,           \* externSeqStore, extSeqBuf or inSeqs
  phase, b, s,   \* the block that is being parsed, and its parse
  text,          \* the dictionary and the whole input of the frame up to src + left
  dec            \* the decoder: [out, reps, ok, near]

inputVars  == <<plan, todo, mem, src, left, text>>
windowVars == <<win, forced, loadedDictEnd, dms>>
vars == <<inputVars, windowVars, rep, raw, phase, b, s, dec>>

StartReps == <<1, 4, 8>>
NoBlock   == [istart |-> 0]
NoParse   == [ip |-> 0]

Bytes(addr, n) == [k \in 1 .. n |-> mem[addr + k - 1]]
Written(addr, data) ==
  [a \in DOMAIN mem \union (addr .. addr + Len(data) - 1) |->
     IF a \in addr .. addr + Len(data) - 1 THEN data[a - addr + 1] ELSE mem[a]]

(* --------------------------- a frame begins ----------------------------- *)

\* ZSTD_reset_matchState keeps the indices and clears the window; a dictionary is
\* loaded into it as content (ZSTD_loadDictionaryContent), or attached so that its
\* indices end where the window begins (ZSTD_resetCCtx_byAttachingCDict).
BeginFrame(chunk) ==
  LET cleared == WindowClear(win)
      d       == plan.dict
      len     == Len(d.data)
      moved   == IF cleared.dictLimit < StartIndex + len
                 THEN WindowClear([cleared EXCEPT !.nextSrc = cleared.base + StartIndex + len])
                 ELSE cleared
  IN /\ CASE d.kind = "none"     -> win' = cleared /\ loadedDictEnd' = 0 /\ dms' = <<>>
          [] d.kind = "loaded"   -> /\ win' = WindowUpdate(cleared, d.addr, len, FALSE)
                                    /\ loadedDictEnd' = EndIndex(win')
                                    /\ dms' = <<>>
          [] d.kind = "attached" -> /\ win' = moved
                                    /\ loadedDictEnd' = moved.dictLimit
                                    /\ dms' = d.data
     /\ rep' = StartReps
     /\ text' = d.data
     /\ dec' = [out |-> d.data, reps |-> StartReps, ok |-> dec.ok, near |-> dec.near]

\* A job has a context of its own: the end of the previous section is loaded as raw
\* content (forceMaxWindow: not as a dictionary), and the repcodes are invalidated.
BeginJob(chunk) ==
  /\ win' = WindowUpdate(WindowInit, chunk.addr - OverlapSize, OverlapSize, FALSE)
  /\ loadedDictEnd' = 0
  /\ dms' = <<>>
  /\ rep' = <<0, 0, 0>>
  /\ UNCHANGED <<text, dec>>

\* ZSTD_compressBegin: the chunk itself is taken by NextChunk.
Begin ==
  /\ phase = "idle" /\ left = 0 /\ todo # <<>>
  /\ \/ Head(todo).kind = "frame" /\ BeginFrame(Head(todo))
     \/ Head(todo).kind = "job" /\ BeginJob(Head(todo))
  /\ forced' = FALSE
  /\ todo' = [todo EXCEPT ![1].kind = "more"]
  /\ UNCHANGED <<plan, mem, src, left, raw, phase, b, s>>

\* ZSTD_compressContinue_internal: the window takes the chunk in.
NextChunk ==
  /\ phase = "idle" /\ left = 0 /\ todo # <<>>
  /\ LET chunk == Head(todo)
         size  == Len(chunk.data)
     IN /\ chunk.kind = "more"
        /\ mem' = Written(chunk.addr, chunk.data)
        /\ src' = chunk.addr
        /\ left' = size
        /\ win' = WindowUpdate(win, chunk.addr, size, forced)
        /\ forced' = (forced /\ size = 0)
        /\ text' = text \o chunk.data
        /\ raw' = RawSeqs(<<>>)
  /\ todo' = Tail(todo)
  /\ phase' = IF plan.source \in {"ldm", "noDelim"} THEN "produce" ELSE "idle"
  /\ UNCHANGED <<plan, loadedDictEnd, dms, rep, b, s, dec>>

(* ---------------------- sequences from elsewhere ------------------------- *)

\* The part of the input the list is for: the rest of the chunk, or one block.
Target == IF plan.source = "producer" THEN Least({left, BlockMax}) ELSE left
Done   == FoldLeft(LAMBDA n, q : n + RawSeqLen(q), 0, raw.seqs)
TextAt(i) == text[Len(text) - left + i]          \* the i-th byte to come

\* The matches that may be listed at offset position i: true ones, no further than
\* the window; the long distance matcher keeps them valid up to the end of the chunk.
Reach(i) == IF plan.source = "ldm" THEN WindowSize - (left - i) ELSE WindowSize
Available(i) == Len(text) - left + i - Len(plan.dict.data) - 1
TrueMatches(i) ==
  {m \in [of : 1 .. Least({Reach(i), Available(i)}), ml : MinMatch .. Target - i + 1] :
     \A k \in 0 .. m.ml - 1 : TextAt(i + k) = TextAt(i + k - m.of)}
Maximal(S) == {m \in S : ~\E n \in S : n.of = m.of /\ n.ml > m.ml}

\* External: one more sequence of the producer (or the long distance matcher).
Produce ==
  /\ phase = "produce" /\ Len(raw.seqs) < MaxRaw
  /\ \E i \in Done + 1 .. Target :
       \E m \in Maximal(TrueMatches(i)) :
         raw' = [raw EXCEPT !.seqs = Append(@, [ll |-> i - Done - 1, of |-> m.of, ml |-> m.ml])]
  /\ UNCHANGED <<inputVars, windowVars, rep, phase, b, s, dec>>

\* ... and what it has left over is literals.
Produced ==
  /\ phase = "produce" /\ plan.source # "producer"
  /\ phase' = "idle"
  /\ UNCHANGED <<inputVars, windowVars, rep, raw, b, s, dec>>

(* ---------------------------- a block begins ---------------------------- *)

\* ZSTD_compress_frameChunk: overflow correction, ZSTD_checkDictValidity and
\* ZSTD_window_enforceMaxDist, in this order.
WindowFor(ip, size) ==
  LET over   == NeedOverflowCorrection(win, ip + size)
      w1     == IF over THEN CorrectOverflow(win, Correction(win, WindowSize, WindowSize, ip)) ELSE win
      end1   == IF over THEN 0 ELSE loadedDictEnd
      valid  == DictStaysValid(w1, ip + size, WindowSize, end1)
      end2   == IF valid THEN end1 ELSE 0
      beyond == BeyondMaxDist(w1, ip, WindowSize, end2)
  IN [w   |-> EnforceMaxDist(w1, ip, WindowSize, end2),
      end |-> IF beyond THEN 0 ELSE end2,
      dms |-> IF over \/ ~valid \/ beyond THEN <<>> ELSE dms]

\* What the block compressor sees: ZSTD_matchState_dictMode, and the bytes behind
\* the indices it may use.
BlockOf(r, ip, size) ==
  LET istart == ip - r.w.base
      low    == r.w.dictLimit - Len(r.dms)
  IN [w |-> r.w, istart |-> istart, iend |-> istart + size, blockEnd |-> istart + size,
      windowSize |-> WindowSize, loadedDictEnd |-> r.end,
      mode    |-> CASE HasExtDict(r.w) -> "ext" [] r.dms # <<>> -> "dms" [] OTHER -> "noDict",
      prefix  |-> r.w.dictLimit,
      dictLow |-> IF r.dms # <<>> THEN low ELSE r.w.lowLimit,
      bytes   |-> [i \in Least({low, r.w.lowLimit}) .. istart + size - 1 |->
                     IF i < r.w.dictLimit /\ r.dms # <<>> THEN r.dms[i - low + 1]
                     ELSE mem[Address(r.w, i)]],
      ldm     |-> IF plan.source = "ldm" THEN raw ELSE RawSeqs(<<>>),
      then    |-> Delimiter(0)]

Prepared(blk) ==
  CASE plan.strat \in {"fast", "dfast"} -> FastBlock(blk)
    [] plan.strat = "lazy"  -> LazyBlock(blk)
    [] plan.strat = "opt"   -> OptBlock(blk)
Started(blk, reps) ==
  CASE plan.strat = "fast"  -> FastStart(blk, reps)
    [] plan.strat = "dfast" -> DFastStart(blk, reps)
    [] plan.strat = "lazy"  -> LazyStart(blk, reps)
    [] plan.strat = "opt"   -> OptStart(blk, reps)

\* ZSTD_ldm_blockCompress: a block compressor that is not optimal gets the literals
\* before each long match (b.then) as a block of its own.
Segment(blk, ip, rawSeqs) ==
  LET next == NextRawSeq(rawSeqs, blk.blockEnd - ip)
  IN [b   |-> [blk EXCEPT !.istart = ip, !.iend = ip + next.q.ll, !.then = next.q],
      raw |-> next.raw]

\* The parse of the block (or of its first segment) begins.
StartParse(r, ip, size) ==
  LET whole == BlockOf(r, ip, size)
      seg   == IF plan.source = "ldm" /\ plan.strat # "opt" THEN Segment(whole, whole.istart, raw)
               ELSE [b |-> whole, raw |-> raw]
      blk   == Prepared(seg.b)
  IN /\ b' = blk
     /\ s' = Started(blk, rep)
     /\ raw' = seg.raw

BlockSize == Least({left, BlockMax})
Opened(r) == win' = r.w /\ loadedDictEnd' = r.end /\ dms' = r.dms

\* The next block of the chunk, by the internal parsers or an external producer.
BeginBlock ==
  /\ phase = "idle" /\ left > 0 /\ plan.source # "noDelim"
  /\ BlockSize >= TooSmall
  /\ LET r == WindowFor(src, BlockSize)
     IN /\ Opened(r)
        /\ IF plan.source = "producer" THEN phase' = "produce" /\ raw' = RawSeqs(<<>>) /\ UNCHANGED <<b, s>>
           ELSE phase' = "parse" /\ StartParse(r, src, BlockSize)
  /\ UNCHANGED <<inputVars, forced, rep, dec>>

\* ZSTDbss_noCompress: sent raw; the long distance matches that begin in it are cut.
SmallBlock ==
  /\ phase = "idle" /\ left > 0 /\ plan.source # "noDelim"
  /\ BlockSize < TooSmall
  /\ Opened(WindowFor(src, BlockSize))
  /\ dec' = DecodeRaw(dec, Bytes(src, BlockSize))
  /\ raw' = IF plan.strat = "opt" THEN SkipRawBytes(raw, BlockSize) ELSE SkipSequences(raw, BlockSize)
  /\ src' = src + BlockSize
  /\ left' = left - BlockSize
  /\ UNCHANGED <<plan, todo, mem, text, forced, rep, phase, b, s>>

\* The producer gave up: the internal parser takes the block (enableMatchFinderFallback).
Fallback ==
  /\ phase = "produce" /\ plan.source = "producer" /\ plan.fallback /\ raw.seqs = <<>>
  /\ phase' = "parse"
  /\ StartParse([w |-> win, end |-> loadedDictEnd, dms |-> dms], src, BlockSize)
  /\ UNCHANGED <<inputVars, windowVars, rep, dec>>

Search ==
  /\ phase = "parse"
  /\ s' \in CASE plan.strat = "fast"  -> FastSearch(b, s)
              [] plan.strat = "dfast" -> DFastSearch(b, s)
              [] plan.strat = "lazy"  -> LazySearch(b, s)
              [] plan.strat = "opt"   -> OptSearch(b, s)
  /\ UNCHANGED <<inputVars, windowVars, rep, raw, phase, b, dec>>

ParseMayEnd == phase = "parse" /\ (plan.strat = "opt" => s.opt = <<>>)

\* The long match behind a segment is stored; the next segment begins behind it.
StoreLongMatch ==
  /\ ParseMayEnd /\ ~IsDelimiter(b.then)
  /\ LET q    == b.then
         r    == RepsAfter(s)
         done == StoreSeq(s.store, Literals(b, s.anchor, b.iend), OffBaseOf(q.of), q.ml)
         whole == BlockOf([w |-> win, end |-> loadedDictEnd, dms |-> dms], src, BlockSize)
         seg  == Segment(whole, b.iend + q.ml, raw)
         blk  == Prepared(seg.b)
     IN /\ b' = blk
        /\ s' = [Started(blk, <<q.of, r[1], r[2]>>) EXCEPT !.store = done]
        /\ raw' = seg.raw
  /\ UNCHANGED <<inputVars, windowVars, rep, phase, dec>>

(* --------------------------- a block is sent ---------------------------- *)

\* The dictionary can be referred to while the content is not longer than the window.
Decoded(d, store) == DecodeBlock(d, store, WindowSize, WindowSize + Len(plan.dict.data))

\* Mutant: the offsets are taken over from a block that was sent raw.
SentPlainConfirmed(store, next, data) ==
  {[dec |-> Decoded(dec, store), rep |-> next], [dec |-> DecodeRaw(dec, data), rep |-> next]}

\* Sent as one block: nextCBlock becomes prevCBlock only if it is compressed.
SentPlain(store, next, data) ==
  {[dec |-> Decoded(dec, store), rep |-> next],
   [dec |-> DecodeRaw(dec, data), rep |-> rep]}

\* The cuts ZSTD_deriveBlockSplitsHelper may find between sequences lo and hi.
RECURSIVE BlockSplits(_, _)
BlockSplits(lo, hi) ==
  LET mid == (lo + hi) \div 2
  IN {<<>>} \union
     (IF hi - lo < SplitMin THEN {}
      ELSE {l \o <<mid>> \o r : l \in BlockSplits(lo, mid), r \in BlockSplits(mid, hi)})

\* Sent in partitions, those in `compressed` as compressed blocks.  The offset codes
\* are resolved before a partition is encoded; dRep is what the decoder will have.
Partitioned(store, data, cuts, compressed) ==
  LET ends == Append(cuts, NbSeq(store))
      Send(r, i) ==
        LET from  == IF i = 1 THEN 0 ELSE ends[i - 1]
            part  == DeriveChunk(store, from, ends[i])
            codes == ResolveOffCodes(r.d, r.c, part)
            size  == IF i = Len(ends) THEN Len(data) - r.ip
                     ELSE LiteralsBytes(part) + MatchBytes(part)
        IN [ip  |-> r.ip + size, c |-> codes.c,
            d   |-> IF i \in compressed THEN codes.d ELSE r.d,
            dec |-> IF i \in compressed THEN Decoded(r.dec, codes.store)
                    ELSE DecodeRaw(r.dec, SubSeq(data, r.ip + 1, r.ip + size))]
      sent == FoldLeftDomain(Send, [ip |-> 0, c |-> rep, d |-> rep, dec |-> dec], ends)
  IN [dec |-> sent.dec, rep |-> sent.d]

SentSplit(store, next, data) ==
  UNION {IF cuts = <<>> THEN SentPlain(store, next, data)
         ELSE {Partitioned(store, data, cuts, C) : C \in SUBSET (1 .. Len(cuts) + 1)} :
         cuts \in IF NbSeq(store) < SplitMin THEN {<<>>} ELSE BlockSplits(0, NbSeq(store))}

\* Sent in sub-blocks: the first n sequences compressed, what is left of the block raw.
SentSuper(store, next, data) ==
  SentPlain(store, next, data)
  \union {LET part == DeriveChunk(store, 0, n)
              size == LiteralsBytes(part) + MatchBytes(part)
          IN [dec |-> DecodeRaw(Decoded(dec, part),
                                SubSeq(data, size + 1, Len(data))),
              rep |-> RegeneratedReps(rep, store, n)]
          : n \in 1 .. NbSeq(store) - 1}

Send(store, next, data) ==
  /\ \E sent \in CASE plan.emit = "plain" -> SentPlain(store, next, data)
                   [] plan.emit = "split" -> SentSplit(store, next, data)
                   [] plan.emit = "super" -> SentSuper(store, next, data) :
       dec' = sent.dec /\ rep' = sent.rep
  /\ src' = src + Len(data)
  /\ left' = left - Len(data)
  /\ phase' = "idle" /\ b' = NoBlock /\ s' = NoParse
  /\ UNCHANGED <<plan, todo, mem, text>>

\* The parse is over: the last literals are stored and the block is sent.
EndBlock ==
  /\ ParseMayEnd /\ IsDelimiter(b.then)
  /\ Send(StoreLastLiterals(s.store, Literals(b, s.anchor, b.blockEnd)), RepsAfter(s),
          Bytes(src, BlockSize))
  /\ raw' = IF plan.source = "ldm" /\ plan.strat = "opt" THEN SkipRawBytes(raw, BlockSize) ELSE raw
  /\ UNCHANGED windowVars

\* The producer's sequences, up to the delimiter that is added to them.
ProducedBlock ==
  /\ phase = "produce" /\ plan.source = "producer" /\ raw.seqs # <<>>
  /\ LET data == Bytes(src, BlockSize)
         t    == TransferWithDelim(Append(raw.seqs, Delimiter(BlockSize - Done)), rep, data, plan.search)
     IN Send(t.store, t.rep, data)
  /\ UNCHANGED <<windowVars, raw>>

\* ZSTD_compressSequences_internal without delimiters: the block may end early.
SequencesBlock ==
  /\ phase = "idle" /\ left > 0 /\ plan.source = "noDelim"
  /\ LET t == TransferNoDelim(raw, rep, Bytes(src, BlockSize))
     IN /\ raw' = t.raw
        /\ IF t.size < TooSmall
           THEN /\ dec' = DecodeRaw(dec, Bytes(src, t.size))
                /\ src' = src + t.size /\ left' = left - t.size
                /\ UNCHANGED <<plan, todo, mem, text, rep, phase, b, s>>
           ELSE Send(t.store, t.rep, Bytes(src, t.size))
  /\ UNCHANGED windowVars

(* ------------------------------- the machine ---------------------------- *)

Init ==
  /\ plan \in Plans
  /\ todo = plan.input
  /\ mem = [a \in plan.dict.addr .. plan.dict.addr + Len(plan.dict.data) - 1 |->
              plan.dict.data[a - plan.dict.addr + 1]]
  /\ src = 0 /\ left = 0
  /\ win = WindowInit /\ forced = FALSE /\ loadedDictEnd = 0 /\ dms = <<>>
  /\ rep = StartReps /\ raw = RawSeqs(<<>>)
  /\ phase = "idle" /\ b = NoBlock /\ s = NoParse
  /\ text = <<>>
  /\ dec = [out |-> <<>>, reps |-> StartReps, ok |-> TRUE, near |-> TRUE]

Next ==
  \/ Begin \/ NextChunk
  \/ Produce \/ Produced
  \/ BeginBlock \/ SmallBlock \/ Fallback
  \/ Search \/ StoreLongMatch \/ EndBlock
  \/ ProducedBlock \/ SequencesBlock

Spec == Init /\ [][Next]_vars

(* ------------------------------ properties ------------------------------ *)

\* Whatever the parsers found and however the block was sent, the decoder has
\* regenerated exactly the input that is compressed so far.
RoundTrip ==
  /\ dec.ok
  /\ phase = "idle" => dec.out = SubSeq(text, 1, Len(text) - left)

\* The parsers of two offsets leave the third behind.
TracksThree == plan.strat = "opt" \/ plan.source = "noDelim"
               \/ (plan.source = "producer" /\ ~plan.fallback)

\* The last offsets the encoder will refer to by code are those the decoder has: the
\* first two always, the third for the parser that uses it; 0 stands for "unknown".
RepsAgree ==
  \A i \in 1 .. NumRep : i < 3 \/ TracksThree => rep[i] \in {0, dec.reps[i]}

\* No match reaches further back than a decoder must keep: the window, or everything
\* (a dictionary included) while the output is still shorter than the window.
MatchesInWindow == dec.near

\* The seqStore of a block has room for its sequences, and a name for at most one
\* long length.
StoreFits ==
  phase = "parse" =>
    /\ NbSeq(s.store) <= BlockMax \div MinMatch
    /\ Len(s.store.lits) + MatchBytes(s.store) = s.anchor - (b.blockEnd - BlockSize)
    /\ s.store.longPos <= NbSeq(s.store)
=============================================================================
