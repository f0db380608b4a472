------------------------------ MODULE SeqCodes ------------------------------
(****************************************************************************)
(* The sequences a block is made of, from the match finders to the decoder. *)
(* A sequence is stored as [ll, ob, ml]: literals, offset code ("offBase")  *)
(* and match.  Offset code 1, 2 or 3 names one of the last three offsets,   *)
(* which one depends on whether there are literals; o + 3 is the offset o.  *)
(* The encoder and the decoder keep the last offsets each on its own; the   *)
(* operators here are the places where the two could come to disagree.      *)
(*   SeqStore_t is [seqs, lits, longType, longPos]: ll and ml are stored    *)
(* modulo LenMod (2^16), and at most one sequence of a block has a longer   *)
(* length, which longType and longPos name.                                 *)
(****************************************************************************)
EXTENDS Integers, SequencesExt

CONSTANTS
  MinMatch,      \* the shortest match (4 in most match finders)
  LenMod         \* lengths are stored modulo LenMod (2^16)

NumRep == 3
NoOffset == -1                        \* the decoder's marker of corruption

OffBaseOf(offset)   == offset + NumRep
IsRepcode(offBase)  == offBase \in 1 .. NumRep
OffsetOf(offBase)   == offBase - NumRep
B2N(b)              == IF b THEN 1 ELSE 0

(* ------------------------- the seqStore -------------------------------- *)

EmptyStore == [seqs |-> <<>>, lits |-> <<>>, longType |-> "none", longPos |-> 0]

\* Mutant: a length of exactly LenMod is not long.
StoreSeqStrict(store, lits, offBase, ml) ==
  LET long == IF Len(lits) > LenMod THEN "literal" ELSE "none"
  IN [seqs |-> Append(store.seqs, [ll |-> Len(lits) % LenMod, ob |-> offBase,
                                   ml |-> (ml - MinMatch) % LenMod]),
      lits |-> store.lits \o lits, longType |-> long, longPos |-> Len(store.seqs)]

\* A literal run or a match of LenMod or more takes the one long length.
StoreSeq(store, lits, offBase, ml) ==
  LET pos  == Len(store.seqs)
      long == CASE Len(lits) >= LenMod   -> "literal"
                [] ml - MinMatch >= LenMod -> "match"
                [] OTHER -> "none"
  IN [seqs |-> Append(store.seqs, [ll |-> Len(lits) % LenMod, ob |-> offBase,
                                   ml |-> (ml - MinMatch) % LenMod]),
      lits |-> store.lits \o lits,
      longType |-> IF long = "none" THEN store.longType ELSE long,
      longPos  |-> IF long = "none" THEN store.longPos ELSE pos]

StoreLastLiterals(store, lits) == [store EXCEPT !.lits = @ \o lits]

IsLong(store, i, type) == store.longType = type /\ store.longPos = i - 1

\* The lengths of the i-th sequence (from 1), as ZSTD_getSequenceLength finds them.
LitLength(store, i) ==
  store.seqs[i].ll + IF IsLong(store, i, "literal") THEN LenMod ELSE 0
MatchLength(store, i) ==
  store.seqs[i].ml + MinMatch + IF IsLong(store, i, "match") THEN LenMod ELSE 0

NbSeq(store) == Len(store.seqs)
LiteralsBytes(store) == FoldLeftDomain(LAMBDA n, i : n + LitLength(store, i), 0, store.seqs)
MatchBytes(store) == FoldLeftDomain(LAMBDA n, i : n + MatchLength(store, i), 0, store.seqs)

\* The sequences from startIdx up to endIdx (from 0), with their literals.
DeriveChunk(store, startIdx, endIdx) ==
  LET Before == [store EXCEPT !.seqs = SubSeq(store.seqs, 1, startIdx)]
      moved  == [seqs |-> SubSeq(store.seqs, startIdx + 1, endIdx),
                 lits |-> SubSeq(store.lits, LiteralsBytes(Before) + 1, Len(store.lits)),
                 longType |-> IF store.longPos < startIdx \/ store.longPos > endIdx
                              THEN "none" ELSE store.longType,
                 longPos |-> store.longPos - startIdx]
  IN IF endIdx = NbSeq(store) THEN moved
     ELSE [moved EXCEPT !.lits = SubSeq(@, 1, LiteralsBytes(moved))]

(* ------------------------- the last offsets ----------------------------- *)

\* The offset a repcode stands for; 0 (of rep[0] - 1) is not a valid offset.
RepOffset(rep, offBase, ll0) ==
  LET repCode == offBase - 1 + B2N(ll0)
  IN IF repCode = NumRep THEN rep[1] - 1 ELSE rep[repCode + 1]

UpdateRep(rep, offBase, ll0) ==
  IF ~IsRepcode(offBase) THEN <<OffsetOf(offBase), rep[1], rep[2]>>
  ELSE LET repCode == offBase - 1 + B2N(ll0)
       IN IF repCode = 0 THEN rep
          ELSE <<RepOffset(rep, offBase, ll0), rep[1],
                 IF repCode >= 2 THEN rep[2] ELSE rep[3]>>

\* The shortest code of a given offset.
FinalizeOffBase(offset, rep, ll0) ==
  CASE ~ll0 /\ offset = rep[1]    -> 1
    [] offset = rep[2]            -> 2 - B2N(ll0)
    [] offset = rep[3]            -> 3 - B2N(ll0)
    [] ll0 /\ offset = rep[1] - 1 -> 3
    [] OTHER                      -> OffBaseOf(offset)

\* Is this sequence without literals?  A long length of exactly LenMod is stored as 0.
LL0(store, i) == store.seqs[i].ll = 0 /\ ~IsLong(store, i, "literal")

\* A block cut in partitions, some of them sent raw: a code whose meaning has
\* changed for the decoder (dRep) is replaced by the offset the encoder meant (cRep).
ResolveOffCodes(dRep, cRep, store) ==
  FoldLeftDomain(LAMBDA r, i :
      LET ll0     == LL0(store, i)
          offBase == store.seqs[i].ob
          meant   == RepOffset(r.c, offBase, ll0)
          sent    == IF IsRepcode(offBase) /\ RepOffset(r.d, offBase, ll0) # meant
                     THEN OffBaseOf(meant) ELSE offBase
      IN [d |-> UpdateRep(r.d, sent, ll0), c |-> UpdateRep(r.c, offBase, ll0),
          store |-> [r.store EXCEPT !.seqs[i].ob = sent]],
    [d |-> dRep, c |-> cRep, store |-> store], store.seqs)

\* The offsets after the first n sequences, for a superblock whose tail is sent raw.
RegeneratedReps(rep, store, n) ==
  FoldLeftDomain(LAMBDA r, i : UpdateRep(r, store.seqs[i].ob, LitLength(store, i) = 0),
    rep, SubSeq(store.seqs, 1, n))

(* --------------------------- the decoder -------------------------------- *)

\* ZSTD_decodeSequence: the offset of a code, and the last offsets after it.
DecodeOffset(prev, offBase, ll0) ==
  LET l == B2N(ll0)
  IN CASE offBase > NumRep ->
            [offset |-> OffsetOf(offBase), prev |-> <<OffsetOf(offBase), prev[1], prev[2]>>]
       [] offBase = 1 ->
            [offset |-> prev[l + 1], prev |-> <<prev[l + 1], prev[2 - l], prev[3]>>]
       [] OTHER ->
            LET which == offBase - 1 + l
                named == IF which = NumRep THEN prev[1] - 1 ELSE prev[which + 1]
                temp  == IF named = 0 THEN NoOffset ELSE named
            IN [offset |-> temp,
                prev |-> <<temp, prev[1], IF which # 1 THEN prev[2] ELSE prev[3]>>]

\* ZSTD_execSequence on the history `out`: an offset that reaches before it is
\* corruption; a match may overlap what it produces.
ExecSequence(out, lits, offset, ml) ==
  LET op == out \o lits
  IN IF offset \notin 1 .. Len(op) THEN [out |-> op, ok |-> FALSE]
     ELSE [out |-> op \o [k \in 1 .. ml |-> op[Len(op) - offset + 1 + ((k - 1) % offset)]],
           ok |-> TRUE]

\* A compressed block: all sequences, then the literals that are left.  d.near: no
\* offset is larger than the window, once the output has passed wholeUntil.
DecodeBlock(dec, store, windowSize, wholeUntil) ==
  LET done == FoldLeftDomain(LAMBDA d, i :
            IF ~d.ok THEN d
            ELSE LET ll == LitLength(store, i)
                     o  == DecodeOffset(d.reps, store.seqs[i].ob, ll = 0)
                     x  == ExecSequence(d.out, SubSeq(store.lits, d.lp + 1, d.lp + ll),
                                        o.offset, MatchLength(store, i))
                 IN [out |-> x.out, reps |-> o.prev, ok |-> x.ok, lp |-> d.lp + ll,
                     near |-> d.near /\ (o.offset <= windowSize \/ Len(x.out) <= wholeUntil)],
          [out |-> dec.out, reps |-> dec.reps, ok |-> dec.ok, near |-> dec.near, lp |-> 0],
          store.seqs)
  IN [out |-> done.out \o SubSeq(store.lits, done.lp + 1, Len(store.lits)),
      reps |-> done.reps, ok |-> done.ok, near |-> done.near]

DecodeRaw(dec, bytes) == [dec EXCEPT !.out = @ \o bytes]
=============================================================================
