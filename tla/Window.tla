------------------------------- MODULE Window -------------------------------
(*****************************************************************************)
(* ZSTD_window_t: how the compressor names the bytes it may refer to.  An    *)
(* index i stands for the byte at address base + i when i >= dictLimit (the  *)
(* prefix) and at dictBase + i when lowLimit <= i < dictLimit (the extDict,  *)
(* a segment that is not contiguous with the prefix).  Addresses and indices *)
(* are integers.  The operators are the functions of                         *)
(* compress/zstd_compress_internal.h; they are used by ZSTDMT (the window of *)
(* the long distance matcher) and by LZ (the window of a CCtx).              *)
(*****************************************************************************)
EXTENDS Integers

CONSTANTS
  StartIndex,    \* ZSTD_WINDOW_START_INDEX
  CurrentMax,    \* ZSTD_CURRENT_MAX: indices are corrected once they pass it
  HashReadSize   \* HASH_READ_SIZE: a shorter extDict is dropped

ASSUME WindowConstants ==
  StartIndex \in Nat /\ CurrentMax \in Nat /\ HashReadSize \in Nat

LimitMax(a, b) == IF a < b THEN b ELSE a
LimitMin(a, b) == IF a < b THEN a ELSE b

WindowInit ==
  [base |-> 0, dictBase |-> 0, lowLimit |-> StartIndex,
   dictLimit |-> StartIndex, nextSrc |-> StartIndex]

EndIndex(w) == w.nextSrc - w.base
Address(w, i) == IF i >= w.dictLimit THEN w.base + i ELSE w.dictBase + i

WindowClear(w) == [w EXCEPT !.lowLimit = EndIndex(w), !.dictLimit = EndIndex(w)]
HasExtDict(w)  == w.lowLimit < w.dictLimit

WindowIsEmpty(w) ==
  /\ w.dictLimit = StartIndex /\ w.lowLimit = StartIndex
  /\ EndIndex(w) = StartIndex

Contiguous(w, src, size, forced) == size = 0 \/ (src = w.nextSrc /\ ~forced)

\* The current prefix becomes the extDict and the old extDict is forgotten.
NewSegment(w, src) ==
  LET end == EndIndex(w)
      low == IF end - w.dictLimit < HashReadSize THEN end ELSE w.dictLimit
  IN [w EXCEPT !.lowLimit = low, !.dictLimit = end,
               !.dictBase = w.base, !.base = src - end]

\* What the input overwrites of the extDict can no longer be referred to.
DropOverlap(w, src, size) ==
  IF src + size > w.dictBase + w.lowLimit /\ src < w.dictBase + w.dictLimit
  THEN [w EXCEPT !.lowLimit = LimitMin(src + size - w.dictBase, w.dictLimit)]
  ELSE w

WindowUpdate(w, src, size, forced) ==
  IF size = 0 THEN w
  ELSE LET moved == IF Contiguous(w, src, size, forced) THEN w ELSE NewSegment(w, src)
       IN DropOverlap([moved EXCEPT !.nextSrc = src + size], src, size)

NeedOverflowCorrection(w, srcEnd) == srcEnd - w.base > CurrentMax

\* The index that replaces src - base: same position in the cycle of the tables,
\* and maxDist bytes of history stay above the start index.
NewCurrent(curr, cycleSize, maxDist) ==
  LET currentCycle == curr % cycleSize
  IN currentCycle + LimitMax(maxDist, cycleSize)
     + IF currentCycle < StartIndex THEN LimitMax(cycleSize, StartIndex) ELSE 0

Correction(w, cycleSize, maxDist, src) ==
  src - w.base - NewCurrent(src - w.base, cycleSize, maxDist)

Reduced(limit, correction) ==
  IF limit < correction + StartIndex THEN StartIndex ELSE limit - correction

CorrectOverflow(w, correction) ==
  [w EXCEPT !.base = w.base + correction, !.dictBase = w.dictBase + correction,
            !.lowLimit = Reduced(w.lowLimit, correction),
            !.dictLimit = Reduced(w.dictLimit, correction)]

\* The dictionary can be referred to as a whole until the input has gone beyond
\* the window; then only maxDist bytes can.
BeyondMaxDist(w, blockEnd, maxDist, loadedDictEnd) ==
  blockEnd - w.base > maxDist + loadedDictEnd

EnforceMaxDist(w, blockEnd, maxDist, loadedDictEnd) ==
  IF ~BeyondMaxDist(w, blockEnd, maxDist, loadedDictEnd) THEN w
  ELSE LET low == LimitMax(w.lowLimit, blockEnd - w.base - maxDist)
       IN [w EXCEPT !.lowLimit = low, !.dictLimit = LimitMax(w.dictLimit, low)]

DictStaysValid(w, blockEnd, maxDist, loadedDictEnd) ==
  /\ blockEnd - w.base <= loadedDictEnd + maxDist
  /\ loadedDictEnd = w.dictLimit

\* Mutant: the limit of the window of indices, not of the window size.
LowestIndexLimit(limit, curr, windowSize, loadedDictEnd) == limit
LowestIndex(limit, curr, windowSize, loadedDictEnd) ==
  IF loadedDictEnd = 0 /\ curr - limit > windowSize THEN curr - windowSize ELSE limit

\* The lowest index a match may have, and the lowest one in the prefix.
LowestMatchIndex(w, curr, windowSize, loadedDictEnd) ==
  LowestIndex(w.lowLimit, curr, windowSize, loadedDictEnd)
LowestPrefixIndex(w, curr, windowSize, loadedDictEnd) ==
  LowestIndex(w.dictLimit, curr, windowSize, loadedDictEnd)
=============================================================================
