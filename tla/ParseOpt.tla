------------------------------ MODULE ParseOpt ------------------------------
(******************************************************************************)
(* The optimal parser (ZSTD_btopt, btultra).  s.opt is the price table of a   *)
(* forward pass, empty between passes: s.opt[c + 1] is the cheapest way found *)
(* to reach position s.ip + c, as a stretch, "a match followed by literals",  *)
(* with the last offsets after it.  Prices are abstracted: any comparison of  *)
(* two prices may go either way, but a position not reached yet (price MAX)   *)
(* always loses.  s.cur is the position being priced.  s.ldm are the matches  *)
(* of the long distance matcher (ZSTD_optLdm_t) still to be offered.          *)
(******************************************************************************)
EXTENDS ParseLazy

NotReached == [mlen |-> 0, off |-> 0, litlen |-> 1, rep |-> <<0, 0, 0>>, max |-> TRUE]

OptBlock(b) ==
  CASE b.mode = "ext" -> [b EXCEPT !.prefix = b.w.dictLimit, !.dictLow = b.w.lowLimit]
    [] OTHER          -> b

(* ---------------- candidates of the long distance matcher --------------- *)

RawSeqLen(q) == q.ll + q.ml

\* ZSTD_optLdm_skipRawSeqStoreBytes, ZSTD_ldm_skipRawSeqStoreBytes
SkipRawBytes(raw, nbBytes) ==
  LET RECURSIVE Skip(_, _)
      Skip(pos, left) ==
        IF left = 0 \/ pos > Len(raw.seqs) THEN [raw EXCEPT !.pos = pos, !.inSeq = 0]
        ELSE IF left >= RawSeqLen(raw.seqs[pos]) THEN Skip(pos + 1, left - RawSeqLen(raw.seqs[pos]))
        ELSE [raw EXCEPT !.pos = pos, !.inSeq = left]
  IN Skip(raw.pos, raw.inSeq + nbBytes)

NoLdmMatch(ldm) == [ldm EXCEPT !.start = -1, !.end = -1]
Exhausted(raw)  == raw.pos > Len(raw.seqs)

\* The next match of the long distance matcher, as positions in the block.
NextLdmMatch(ldm, currPos, remaining) ==
  IF Exhausted(ldm.raw) THEN NoLdmMatch(ldm)
  ELSE LET q        == ldm.raw.seqs[ldm.raw.pos]
           litLeft  == IF ldm.raw.inSeq < q.ll THEN q.ll - ldm.raw.inSeq ELSE 0
           matchLeft == IF litLeft = 0 THEN q.ml - (ldm.raw.inSeq - q.ll) ELSE q.ml
           end      == currPos + litLeft + matchLeft
       IN IF litLeft >= remaining
          THEN [NoLdmMatch(ldm) EXCEPT !.raw = SkipRawBytes(@, remaining)]
          ELSE [raw |-> SkipRawBytes(ldm.raw, IF end > currPos + remaining THEN remaining
                                              ELSE litLeft + matchLeft),
                start |-> currPos + litLeft, offset |-> q.of,
                end |-> IF end > currPos + remaining THEN currPos + remaining ELSE end]

\* ZSTD_optLdm_processMatchCandidate: past the end of the match, catch up.
AdvanceLdm(ldm, currPos, remaining) ==
  IF Exhausted(ldm.raw) \/ ldm.end = -1 \/ currPos < ldm.end THEN ldm
  ELSE NextLdmMatch([ldm EXCEPT !.raw = SkipRawBytes(@, currPos - ldm.end)], currPos, remaining)

LdmCandidates(ldm, currPos) ==
  IF /\ ~Exhausted(ldm.raw) /\ ldm.end # -1 /\ currPos >= ldm.start /\ currPos < ldm.end
     /\ ldm.end - currPos >= MinMatch
  THEN {[off |-> OffBaseOf(ldm.offset), len |-> ldm.end - currPos]} ELSE {}

(* ------------------------- the matches at a position -------------------- *)

\* A repcode stands for itself; 0 and -1 are discarded.
OptRepUsable(b, p, o) ==
  /\ o > 0
  /\ IF o <= p - b.prefix THEN p - o >= LowestIn(b, p)
     ELSE b.mode # "noDict" /\ NoOverlap(b, p - o)
          /\ o <= p - (IF b.mode = "dms" THEN b.dictLow ELSE LowestIn(b, p))

RepCandidates(b, p, rep, ll0) ==
  {[off |-> c, len |-> Count(b, p, p - RepOffset(rep, c, ll0))] :
     c \in {c \in 1 .. NumRep : /\ OptRepUsable(b, p, RepOffset(rep, c, ll0))
                                /\ Reads(b, p, p - RepOffset(rep, c, ll0), MinMatch)}}

TreeCandidates(b, p) ==
  {[off |-> OffBaseOf(p - j), len |-> Count(b, p, j)] : j \in SearchMax(b, p)}

GetAllMatches(b, s, p, rep, ll0) ==
  RepCandidates(b, p, rep, ll0) \union TreeCandidates(b, p)
  \union LdmCandidates(s.ldm, p - b.istart)

(* ----------------------------- the forward pass ------------------------- *)

OptStart(b, rep) ==
  LET s == [ParseStart(b, rep) EXCEPT !.ip = b.istart + B2N(b.istart = b.w.dictLimit)]
  IN [ip |-> s.ip, anchor |-> s.anchor, o |-> s.o, saved |-> s.saved, store |-> s.store,
      opt |-> <<>>, cur |-> 0,
      ldm |-> NextLdmMatch([raw |-> b.ldm, start |-> 0, end |-> 0, offset |-> 0],
                           0, b.iend - b.istart)]

LastPos(s) == Len(s.opt) - 1
At(s, c)   == s.opt[c + 1]

\* ZSTD_newRep at the end of the match of entry e, which ends at position c.
RepsAfterMatch(s, e, c) ==
  LET from == At(s, c - e.mlen) IN UpdateRep(from.rep, e.off, from.litlen = 0)

\* One match found at cur: each position it can end at may be reached cheaper with
\* it (all of them, or only its end); positions beyond the last are new.
WithMatch(s, cur, m, all) ==
  LET last == Most({LastPos(s), cur + m.len})
      entry(pos) == [mlen |-> pos - cur, off |-> m.off, litlen |-> 0, rep |-> <<0, 0, 0>>, max |-> FALSE]
  IN [s EXCEPT !.opt =
       [k \in 1 .. last + 1 |->
          LET pos == k - 1
              old == IF pos <= LastPos(s) THEN s.opt[k] ELSE NotReached
          IN IF \/ pos = cur + m.len
                \/ pos >= cur + MinMatch /\ pos <= cur + m.len /\ (all \/ pos > LastPos(s))
             THEN entry(pos) ELSE old]]

\* The path is read back from its last stretch; the sequences are stored in order.
\* Literals after the last match are searched again.
StorePath(b, s, stretch, last) ==
  LET from == last - stretch.mlen - stretch.litlen
      rep  == IF stretch.litlen = 0
              THEN UpdateRep(At(s, from).rep, stretch.off, At(s, from).litlen = 0)
              ELSE stretch.rep
      RECURSIVE Path(_, _)
      Path(c, matches) ==        \* the matches before c, each with its literals
        LET e == At(s, c)
        IN IF e.mlen = 0 THEN <<[ll |-> e.litlen, m |-> matches[1]]>> \o Tail(matches)
           ELSE Path(c - e.litlen - e.mlen,
                     <<[off |-> e.off, len |-> e.mlen], [ll |-> e.litlen, m |-> matches[1]]>>
                     \o Tail(matches))
      Store(t, q) == Stored(b, t, t.anchor + q.ll, q.m.off, q.m.len)
  IN [FoldLeft(Store, s, Path(from, <<[off |-> stretch.off, len |-> stretch.mlen]>>))
      EXCEPT !.o = rep, !.opt = <<>>, !.cur = 0]

AdvancedTo(b, s, p) ==
  [s EXCEPT !.ldm = AdvanceLdm(@, p - b.istart, b.iend - p)]

\* The first match of a pass, at any position from ip on.
OptFirst(b, s) ==
  UNION {LET t  == AdvancedTo(b, s, p)
             ll == p - s.anchor
             e0 == [mlen |-> 0, off |-> 0, litlen |-> ll, rep |-> s.o, max |-> FALSE]
             begun == [t EXCEPT !.ip = p, !.opt = <<e0>>, !.cur = 0]
             ms == GetAllMatches(b, t, p, s.o, ll = 0)
         IN {[WithMatch(begun, 0, m, TRUE) EXCEPT !.cur = 1] : m \in ms}
            \union {StorePath(b, begun,
                      [mlen |-> m.len, off |-> m.off, litlen |-> 0], m.len) : m \in ms}
         : p \in s.ip .. ilimit(b) - 1}

\* Position cur is reached by one more literal (always when nothing else reaches
\* it); the match that was there may then be kept for cur + 1, with a literal.
LiteralChoices(s) ==
  LET before == At(s, s.cur - 1)
      here   == At(s, s.cur)
      byLit  == [before EXCEPT !.litlen = @ + 1]
      kept   == [s EXCEPT !.opt[s.cur + 1] = byLit]
      with1  == [here EXCEPT !.litlen = 1, !.rep = RepsAfterMatch(s, here, s.cur)]
      next   == s.cur + 2
  IN {kept}
     \union (IF here.max THEN {} ELSE {s})
     \union (IF here.max \/ here.litlen # 0 THEN {}
             ELSE {[kept EXCEPT !.opt = IF next <= Len(@) THEN [@ EXCEPT ![next] = with1]
                                        ELSE Append(@, with1)]})

Confirmed(s) ==
  IF At(s, s.cur).litlen # 0 THEN s
  ELSE [s EXCEPT !.opt[s.cur + 1].rep = RepsAfterMatch(s, At(s, s.cur), s.cur)]

\* The last stretch of a finished pass; a pass without any match starts over behind it.
ClosePass(b, s) ==
  LET stretch == At(s, LastPos(s))
  IN IF stretch.mlen = 0 THEN [s EXCEPT !.ip = @ + LastPos(s), !.opt = <<>>, !.cur = 0]
     ELSE StorePath(b, s, stretch, LastPos(s))

\* One position of the pass.
OptStep(b, s) ==
  UNION {LET c   == Confirmed(r)
             inr == c.ip + c.cur
             moved(t) == IF t.cur = LastPos(t) THEN ClosePass(b, t) ELSE [t EXCEPT !.cur = @ + 1]
             t   == AdvancedTo(b, c, inr)
             here == At(c, c.cur)
             ms  == IF inr > ilimit(b) \/ c.cur = LastPos(c) THEN {}
                    ELSE GetAllMatches(b, t, inr, here.rep, here.litlen = 0)
         IN {moved(c)}
            \union {moved(WithMatch(t, c.cur, m, all)) :
                      m \in {m \in ms : inr + m.len < b.iend}, all \in BOOLEAN}
            \union {StorePath(b, t, [mlen |-> m.len, off |-> m.off, litlen |-> 0],
                              c.cur + m.len) : m \in ms}
         : r \in LiteralChoices(s)}

OptSearch(b, s) == IF s.opt = <<>> THEN OptFirst(b, s) ELSE OptStep(b, s)
=============================================================================
