------------------------------ MODULE RawSeqs -------------------------------
(******************************************************************************)
(* Sequences that no block compressor found: those of the long distance       *)
(* matcher (raw sequences without a match behind the last one), those of an   *)
(* external sequence producer, and those an application hands to              *)
(* ZSTD_compressSequences.  A raw sequence is [ll, of, ml]; a list of them is *)
(* [seqs, pos, inSeq], pos the sequence that comes next (from 1).             *)
(******************************************************************************)
EXTENDS ParseOpt

RawSeqs(seqs) == [seqs |-> seqs, pos |-> 1, inSeq |-> 0]
Delimiter(ll) == [ll |-> ll, of |-> 0, ml |-> 0]
IsDelimiter(q) == q.of = 0 /\ q.ml = 0

(* ------------------- the long distance matcher's list ------------------- *)

\* ZSTD_ldm_skipSequences: what is left of a match and too short becomes literals.
SkipSequences(raw, nbBytes) ==
  LET RECURSIVE Skip(_, _)
      Skip(r, n) ==
        IF n = 0 \/ Exhausted(r) THEN r
        ELSE LET q    == r.seqs[r.pos]
                 rest == RawSeqLen(q) - n
             IN IF n <= q.ll THEN [r EXCEPT !.seqs[r.pos].ll = @ - n]
                ELSE IF rest <= 0 THEN Skip([r EXCEPT !.pos = @ + 1], -rest)
                ELSE IF rest >= MinMatch THEN [r EXCEPT !.seqs[r.pos].ll = 0, !.seqs[r.pos].ml = rest]
                ELSE [r EXCEPT !.pos = @ + 1,
                               !.seqs = IF r.pos = Len(@) THEN @
                                        ELSE [@ EXCEPT ![r.pos + 1].ll = @ + rest]]
  IN Skip(raw, nbBytes)

\* maybeSplitSequence: the next sequence, cut at the end of the block; offset 0
\* when the rest of the block is literals.
NextRawSeq(raw, remaining) ==
  IF Exhausted(raw) THEN [q |-> Delimiter(remaining), raw |-> raw]
  ELSE LET q == raw.seqs[raw.pos]
       IN IF RawSeqLen(q) <= remaining THEN [q |-> q, raw |-> [raw EXCEPT !.pos = @ + 1]]
          ELSE [q |-> IF remaining - q.ll < MinMatch THEN Delimiter(remaining)
                      ELSE [q EXCEPT !.ml = remaining - q.ll],
                raw |-> SkipSequences(raw, remaining)]

(* ---------------- sequences of a producer or an application ------------- *)

\* One external sequence becomes the next of the store.  r is [store, rep, ip],
\* ip the number of bytes of the block that are done.
Transferred(r, data, ll, of, ml, search) ==
  LET offBase == IF search THEN FinalizeOffBase(of, r.rep, ll = 0) ELSE OffBaseOf(of)
  IN [store |-> StoreSeq(r.store, SubSeq(data, r.ip + 1, r.ip + ll), offBase, ml),
      rep   |-> IF search THEN UpdateRep(r.rep, offBase, ll = 0) ELSE r.rep,
      ip    |-> r.ip + ll + ml]

TransferStart(rep) == [store |-> EmptyStore, rep |-> rep, ip |-> 0]
WithLastLiterals(r, data, ll) ==
  [r EXCEPT !.store = StoreLastLiterals(@, SubSeq(data, r.ip + 1, r.ip + ll)), !.ip = @ + ll]

\* ZSTD_transferSequences_wBlockDelim: seqs ends with its delimiter.  When offsets are not
\* looked up, the last three of the list and of those before it are the next block's.
RepsBehind(seqs, rep) == SubSeq(Reverse([i \in DOMAIN seqs |-> seqs[i].of]) \o rep, 1, 3)
TransferWithDelim(seqs, rep, data, search) ==
  LET all == FoldLeft(LAMBDA r, q : Transferred(r, data, q.ll, q.of, q.ml, search),
                      TransferStart(rep), Front(seqs))
  IN WithLastLiterals(IF search THEN all ELSE [all EXCEPT !.rep = RepsBehind(Front(seqs), rep)],
                      data, Last(seqs).ll)

\* ZSTD_transferSequences_noDelim: the list goes on into the next block.  A match
\* across the end of the block is only split when it is longer than a block;
\* otherwise the block ends before it.
TransferNoDelim(raw, rep, data) ==
  LET blockSize == Len(data)
      Stop(r, idx, endPos, dropped) ==
        LET size == blockSize - dropped
        IN [store |-> WithLastLiterals(r, data, size - r.ip).store, rep |-> r.rep,
            size |-> size, raw |-> [raw EXCEPT !.pos = idx, !.inSeq = endPos]]
      RECURSIVE Scan(_, _, _, _)
      Scan(r, idx, startPos, endPos) ==
        IF endPos = 0 \/ idx > Len(raw.seqs) THEN Stop(r, idx, endPos, 0)
        ELSE
        LET q       == raw.seqs[idx]
            litLeft == IF startPos >= q.ll THEN 0 ELSE q.ll - startPos
            first   == endPos - startPos - litLeft
            second  == RawSeqLen(q) - endPos
            back    == IF second < MinMatch THEN MinMatch - second ELSE 0
        IN CASE endPos >= RawSeqLen(q) ->
                  Scan(Transferred(r, data, litLeft, q.of,
                                   IF startPos >= q.ll THEN q.ml - (startPos - q.ll) ELSE q.ml, TRUE),
                       idx + 1, 0, endPos - RawSeqLen(q))
             [] endPos < RawSeqLen(q) /\ endPos <= q.ll -> Stop(r, idx, endPos, 0)
             [] endPos < RawSeqLen(q) /\ endPos > q.ll ->
                  IF q.ml > blockSize /\ first >= MinMatch
                  THEN Stop(Transferred(r, data, litLeft, q.of, first - back, TRUE),
                            idx, endPos - back, back)
                  ELSE Stop(r, idx, q.ll, endPos - q.ll)
  IN Scan(TransferStart(rep), raw.pos, raw.inSeq, raw.inSeq + blockSize)
=============================================================================
