------------------------------ MODULE ParseFast ------------------------------
(*****************************************************************************)
(* The block compressors of ZSTD_fast and ZSTD_dfast, each in three forms:   *)
(* without a dictionary, with an attached one (Dms), and with an older       *)
(* segment of the input (Ext).  How far apart the searched positions are and *)
(* what the tables hold is left open; what is accepted as a match is not.    *)
(*****************************************************************************)
EXTENDS BlockParse

\* From where the parse may search; first byte of the prefix: nothing is before it.
First(b) == b.istart + B2N(b.istart = b.prefix)
NoDictStart(b, rep) ==
  PutAside([ParseStart(b, rep) EXCEPT !.ip = First(b)],
           LAMBDA o : o > First(b) - LowestPrefixIn(b, First(b)))

(* ------------------------------- fast ----------------------------------- *)

\* An extDict that is out of the window leaves the regular variant.
FastBlock(b) ==
  CASE b.mode = "noDict" -> NoDictBlock(b)
    [] b.mode = "ext" -> LET e == ExtDictBlock(b)
                         IN IF e.prefix = e.dictLow THEN NoDictBlock(b) ELSE e
    [] b.mode = "dms" -> b

FastStartNoDict(b, rep) == NoDictStart(b, rep)
FastStartDms(b, rep) == ParseStart(b, rep)
FastStartExt(b, rep) == PutAside(ParseStart(b, rep), LAMBDA o : o >= b.istart - b.dictLow)

\* The repcode is tried two positions ahead (one ahead with an attached dictionary).
FastSearchNoDict(b, s) ==
  RepMatches(b, s, {p \in s.ip + 2 .. ilimit(b) : s.o[1] > 0 /\ Repeats(b, p, s.o[1])}, 1)
  \union OffsetMatches(b, s, s.ip .. ilimit(b) - 1,
            LAMBDA p : {j \in Entries(b, p) : j >= b.prefix /\ Reads(b, p, j, MinMatch)})

FastSearchDms(b, s) ==
  RepMatches(b, s, {p \in s.ip + 1 .. ilimit(b) :
                      NoOverlap(b, p - s.o[1]) /\ Repeats(b, p, s.o[1])}, 0)
  \union OffsetMatches(b, s, s.ip .. ilimit(b) - 1,
            LAMBDA p : {j \in Entries(b, p) : j >= b.prefix /\ Reads(b, p, j, MinMatch)}
                       \union {j \in DictEntries(b) : j > b.dictLow /\ Reads(b, p, j, MinMatch)})

FastSearchExt(b, s) ==
  RepMatches(b, s, {p \in s.ip + 2 .. ilimit(b) :
                      /\ s.o[1] > 0 /\ NoOverlap(b, p - s.o[1]) /\ p - s.o[1] # b.prefix
                      /\ Repeats(b, p, s.o[1])}, 1)
  \union OffsetMatches(b, s, s.ip .. ilimit(b) - 1,
            LAMBDA p : {j \in Entries(b, p) : j >= b.dictLow /\ Reads(b, p, j, MinMatch)})

FastRepsNoDict(b, t) == ImmediateReps(b, t, LAMBDA p, o : o > 0)
FastRepsDms(b, t) == ImmediateReps(b, t, LAMBDA p, o : NoOverlap(b, p - o))
FastRepsExt(b, t) == ImmediateReps(b, t, LAMBDA p, o : NoOverlap(b, p - o) /\ o > 0)

FastStart(b, rep) ==
  CASE b.mode = "noDict" -> FastStartNoDict(b, rep)
    [] b.mode = "dms"    -> FastStartDms(b, rep)
    [] b.mode = "ext"    -> FastStartExt(b, rep)

FastSearch(b, s) ==
  CASE b.mode = "noDict" -> {FastRepsNoDict(b, t) : t \in FastSearchNoDict(b, s)}
    [] b.mode = "dms"    -> {FastRepsDms(b, t) : t \in FastSearchDms(b, s)}
    [] b.mode = "ext"    -> {FastRepsExt(b, t) : t \in FastSearchExt(b, s)}

(* ---------------------------- doubleFast -------------------------------- *)

DFastStartNoDict(b, rep) == NoDictStart(b, rep)
DFastStartDms(b, rep) == ParseStart(b, rep)
DFastStartExt(b, rep) == ParseStart(b, rep)

\* Candidates of the long table and of the short one, with the bounds of each form.
DFastLong(b, p) == {j \in Entries(b, p) : j >= b.prefix /\ Reads(b, p, j, LongMatch)}
DFastShort(b, p) == {j \in Entries(b, p) : j >= b.prefix /\ Reads(b, p, j, MinMatch)}
DFastLongDms(b, p) ==
  DFastLong(b, p) \union {j \in DictEntries(b) : j > b.dictLow /\ Reads(b, p, j, LongMatch)}
DFastShortDms(b, p) ==
  {j \in DFastShort(b, p) : j > b.prefix}
  \union {j \in DictEntries(b) : j > b.dictLow /\ Reads(b, p, j, MinMatch)}
DFastLongExt(b, p) == {j \in Entries(b, p) : j > b.dictLow /\ Reads(b, p, j, LongMatch)}
DFastShortExt(b, p) == {j \in Entries(b, p) : j > b.dictLow /\ Reads(b, p, j, MinMatch)}

\* _search_next_long: a short match at p yields to a long one at p + 1; without a
\* dictionary only when that one is longer.
DFastNextLong(b, p) ==
  {j \in DFastLong(b, p + 1) :
     j > b.prefix /\ \E short \in DFastShort(b, p) : Count(b, p + 1, j) > Count(b, p, short)}
DFastNextLongDms(b, p) == {j \in DFastLongDms(b, p + 1) : DFastShortDms(b, p) # {}}
DFastNextLongExt(b, p) == {j \in DFastLongExt(b, p + 1) : DFastShortExt(b, p) # {}}

DFastSearchNoDict(b, s) ==
  RepMatches(b, s, {p \in s.ip + 1 .. ilimit(b) : s.o[1] > 0 /\ Repeats(b, p, s.o[1])}, 0)
  \union OffsetMatches(b, s, s.ip .. ilimit(b) - 1,
                       LAMBDA p : DFastLong(b, p) \union DFastShort(b, p))
  \union OffsetMatches(b, s, s.ip + 1 .. ilimit(b), LAMBDA p : DFastNextLong(b, p - 1))

DFastSearchDms(b, s) ==
  RepMatches(b, s, {p \in s.ip + 1 .. ilimit(b) :
                      NoOverlap(b, p - s.o[1]) /\ Repeats(b, p, s.o[1])}, 0)
  \union OffsetMatches(b, s, s.ip .. ilimit(b) - 1,
                       LAMBDA p : DFastLongDms(b, p) \union DFastShortDms(b, p))
  \union OffsetMatches(b, s, s.ip + 1 .. ilimit(b), LAMBDA p : DFastNextLongDms(b, p - 1))

DFastSearchExt(b, s) ==
  RepMatches(b, s, {p \in s.ip + 1 .. ilimit(b) :
                      /\ NoOverlap(b, p - s.o[1]) /\ s.o[1] <= p - b.dictLow
                      /\ Repeats(b, p, s.o[1])}, 0)
  \union OffsetMatches(b, s, s.ip .. ilimit(b) - 1,
                       LAMBDA p : DFastLongExt(b, p) \union DFastShortExt(b, p))
  \union OffsetMatches(b, s, s.ip + 1 .. ilimit(b), LAMBDA p : DFastNextLongExt(b, p - 1))

DFastRepsNoDict(b, t) == ImmediateReps(b, t, LAMBDA p, o : o > 0)
DFastRepsDms(b, t) == ImmediateReps(b, t, LAMBDA p, o : NoOverlap(b, p - o))
DFastRepsExt(b, t) == ImmediateReps(b, t, LAMBDA p, o : NoOverlap(b, p - o) /\ o <= p - b.dictLow)

DFastStart(b, rep) ==
  CASE b.mode = "noDict" -> DFastStartNoDict(b, rep)
    [] b.mode = "dms"    -> DFastStartDms(b, rep)
    [] b.mode = "ext"    -> DFastStartExt(b, rep)

DFastSearch(b, s) ==
  CASE b.mode = "noDict" -> {DFastRepsNoDict(b, t) : t \in DFastSearchNoDict(b, s)}
    [] b.mode = "dms"    -> {DFastRepsDms(b, t) : t \in DFastSearchDms(b, s)}
    [] b.mode = "ext"    -> {DFastRepsExt(b, t) : t \in DFastSearchExt(b, s)}
=============================================================================
