------------------------------ MODULE ParseLazy ------------------------------
(*******************************************************************************)
(* The block compressor of ZSTD_greedy, lazy, lazy2 and btlazy2, in the same   *)
(* three forms.  Which of the repcodes and the matches found at ip, ip + 1 ... *)
(* wins is a matter of estimated gain and left open; that a match which        *)
(* ZSTD_searchMax returns is a real one and inside the window is what          *)
(* MatchFinder.tla shows of the searches.                                      *)
(*******************************************************************************)
EXTENDS ParseFast

LazyBlock(b) ==
  CASE b.mode = "ext" -> [b EXCEPT !.prefix = b.w.dictLimit, !.dictLow = b.w.lowLimit]
    [] OTHER          -> b

LazyStartNoDict(b, rep) == NoDictStart(b, rep)
LazyStartDms(b, rep) == ParseStart(b, rep)
LazyStartExt(b, rep) == [ParseStart(b, rep) EXCEPT !.ip = First(b)]
LazyStart(b, rep) ==
  CASE b.mode = "noDict" -> LazyStartNoDict(b, rep)
    [] b.mode = "dms"    -> LazyStartDms(b, rep)
    [] b.mode = "ext"    -> LazyStartExt(b, rep)

\* ZSTD_searchMax: a real match inside the window, or in an attached dictionary.
SearchMax(b, p) ==
  {j \in Entries(b, p) \union DictEntries(b) :
     /\ j >= (IF b.mode = "dms" THEN b.dictLow ELSE LowestIn(b, p))
     /\ Reads(b, p, j, MinMatch)}

LazyRep(b, p, o) ==
  /\ IF b.mode = "noDict" THEN o > 0 ELSE NoOverlap(b, p - o)
  /\ Repeats(b, p, o)
LazyRepExt(b, p, o) == NoOverlap(b, p - o) /\ o <= p - LowestIn(b, p) /\ Repeats(b, p, o)

\* Depth 0: the repcode at ip + 1 or a match at ip; then, at each further position,
\* either of them may be better.
LazyFirst(b, s) ==
  RepMatches(b, s, {p \in s.ip + 1 .. ilimit(b) : LazyRep(b, p, s.o[1])}, 0)
  \union OffsetMatches(b, s, s.ip .. ilimit(b) - 1, LAMBDA p : SearchMax(b, p))
LazyBetter(b, s) ==
  RepMatches(b, s, {p \in s.ip + 1 .. ilimit(b) : LazyRep(b, p, s.o[1])}, 0)
  \union OffsetMatches(b, s, s.ip + 1 .. ilimit(b), LAMBDA p : SearchMax(b, p))

LazyFirstExt(b, s) ==
  RepMatches(b, s, {p \in s.ip + 1 .. ilimit(b) : LazyRepExt(b, p, s.o[1])}, 0)
  \union OffsetMatches(b, s, s.ip .. ilimit(b) - 1, LAMBDA p : SearchMax(b, p))
LazyBetterExt(b, s) ==
  RepMatches(b, s, {p \in s.ip + 1 .. ilimit(b) : LazyRepExt(b, p, s.o[1])}, 0)
  \union OffsetMatches(b, s, s.ip + 1 .. ilimit(b), LAMBDA p : SearchMax(b, p))

LazyReps(b, t) ==
  ImmediateReps(b, t, LAMBDA p, o : IF b.mode = "noDict" THEN o > 0 ELSE NoOverlap(b, p - o))
LazyRepsExt(b, t) ==
  ImmediateReps(b, t, LAMBDA p, o : NoOverlap(b, p - o) /\ o <= p - LowestIn(b, p))

LazySearch(b, s) ==
  IF b.mode = "ext"
  THEN {LazyRepsExt(b, t) : t \in LazyFirstExt(b, s) \union LazyBetterExt(b, s)}
  ELSE {LazyReps(b, t) : t \in LazyFirst(b, s) \union LazyBetter(b, s)}
=============================================================================
