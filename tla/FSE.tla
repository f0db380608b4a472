-------------------------------- MODULE FSE --------------------------------
(*******************************************************************************)
(* Finite state entropy: the bit streams (bitstream.h), the normalised         *)
(* counts and their header (fse_compress.c, entropy_common.c), the encoder's   *)
(* and the decoder's tables.  The two tables are built apart, from the same    *)
(* counts, and must agree state by state.                                      *)
(*   A bit stream is a sequence of bits.  It is written from its first bit     *)
(* on, closed with a 1 and zeros up to a byte, and read backwards from the 1.  *)
(* A header (NCount) is read forwards.  The logarithms and the alphabets are   *)
(* those of the code; the 62-bit fixed point of FSE_normalizeCount is replaced *)
(* by exact fractions, which agree with it for totals below 2^11.              *)
(*******************************************************************************)
EXTENDS Integers, SequencesExt

FSE_MIN_TABLELOG == 5
FSE_MAX_TABLELOG == 12
Register == 8                             \* sizeof(size_t): a stream's slack

Lazy == 4                                 \* ZSTD_lazy: stronger strategies compare costs
BtUltra == 8                              \* ZSTD_btultra
Tabulate(f) == f @@ <<>>                  \* f, evaluated

LeastNat(a, b) == IF a <= b THEN a ELSE b
MostNat(a, b)  == IF a >= b THEN a ELSE b
Highbit(n) == CHOOSE k \in 0 .. 29 : 2^k <= n /\ n < 2^(k + 1)

(* ---------------------------- bit streams -------------------------------- *)

Bits(v, n) == [k \in 1 .. n |-> (v \div 2^(k - 1)) % 2]
AddBits(bits, v, n) == bits \o Bits(v, n)
Padded(bits) == bits \o [k \in 1 .. (-Len(bits)) % 8 |-> 0]
Bytes8(bits) == (Len(bits) + 7) \div 8

\* BIT_initCStream and BIT_closeCStream: <<>> when the stream does not fit.
CloseCStream(bits, capacity) ==
  IF capacity <= Register \/ (Len(bits) + 1) \div 8 >= capacity - Register THEN <<>>
  ELSE Padded(Append(bits, 1))

\* left: the bits that have not been read; below 0 once more were asked for.
InitDStream(stream) ==
  LET last == {k \in 1 .. LeastNat(8, Len(stream)) : stream[Len(stream) - k + 1] = 1}
  IN IF last = {} THEN [ok |-> FALSE, bits |-> stream, left |-> 0]
     ELSE [ok |-> TRUE, bits |-> stream,
           left |-> Len(stream) - CHOOSE k \in last : \A j \in last : k <= j]
LookBits(d, n) ==
  LET val[k \in 0 .. n] ==                  \* of the first k bits looked at
        IF k = 0 THEN 0
        ELSE 2 * val[k - 1] + IF d.left < k THEN 0 ELSE d.bits[d.left - k + 1]
  IN val[n]
SkipBits(d, n) == [d EXCEPT !.left = @ - n]
ReadBits(d, n) == [val |-> LookBits(d, n), d |-> SkipBits(d, n)]
\* The states of BIT_reloadDStream that a decoder acts on.
Overflowed(d)   == d.left < 0
EndOfDStream(d) == d.left = 0

(* ------------------------------ histograms -------------------------------- *)

MaxSymbolOf(seq) == Max(Range(seq) \cup {0})
Histogram(seq, maxSymbol) ==
  [s \in 0 .. maxSymbol |-> Len(SelectSeq(seq, LAMBDA x : x = s))]
LargestCount(count) == CHOOSE m \in {count[s] : s \in DOMAIN count} :
                         \A s \in DOMAIN count : count[s] <= m

(* -------------------------- normalised counts ----------------------------- *)

MinTableLog(total, maxSymbol) ==
  LeastNat(Highbit(total) + 1, (IF maxSymbol = 0 THEN 0 ELSE Highbit(maxSymbol)) + 2)
OptimalTableLog(maxLog, total, maxSymbol, minus) ==
  LET fromSize == LeastNat(maxLog, Highbit(total - 1) - minus)
      enough   == MostNat(fromSize, MinTableLog(total, maxSymbol))
  IN LeastNat(FSE_MAX_TABLELOG, MostNat(FSE_MIN_TABLELOG, enough))

RestToBeat == <<473195, 504333, 520860, 550000, 700000, 750000, 830000>>

\* count * 2^log / total, rounded down; the reciprocal of a total that is not a
\* power of 2 is a little too small.
Share(count, total, log) ==
  IF 2^Highbit(total) = total THEN (count * 2^log) \div total
  ELSE (count * 2^log - 1) \div total
Proba(count, total, log) ==
  LET p == Share(count, total, log)
  IN IF p < 8 /\ (count * 2^log - p * total) * 2^20 > (IF p = 0 THEN 0 ELSE RestToBeat[p]) * total
     THEN p + 1 ELSE p

\* The symbols that have their one cell, and what the others count.
Weighed(count, total, n) ==
  [dist  |-> Cardinality({s \in DOMAIN count : n[s] \in {-1, 1}}),
   total |-> total - FoldLeftDomain(LAMBDA t, i :
               t + IF n[i - 1] \in {-1, 1} THEN count[i - 1] ELSE 0, 0,
               [i \in 1 .. Cardinality(DOMAIN count) |-> 0])]
\* What is left is shared by the count, all of it to the largest when nobody waits, or
\* in turn when the others count nothing.  w = Weighed(n).
M2Share(log, count, n, w) ==
  LET symbols == DOMAIN count
      todo == 2^log - w.dist
      top  == CHOOSE s \in symbols : \A t \in symbols :
                count[s] > count[t] \/ (count[s] = count[t] /\ s <= t)
      ones == SelectSeq([i \in 1 .. Cardinality(symbols) |-> i - 1], LAMBDA s : n[s] > 0)
      Nth(s) == CHOOSE i \in 1 .. Len(ones) : ones[i] = s
      Cum(s) == FoldLeftDomain(LAMBDA t, i : t + IF n[i - 1] = -2 THEN count[i - 1] ELSE 0, 0,
                               [i \in 1 .. s |-> 0])
      Cell(c) == (w.total + c * (2 * todo + 1) - 1) \div (2 * w.total)
      shared == [s \in symbols |-> IF n[s] = -2 THEN Cell(Cum(s + 1)) - Cell(Cum(s)) ELSE n[s]]
  IN CASE w.dist = Cardinality(symbols) -> [ok |-> TRUE, norm |-> [n EXCEPT ![top] = @ + todo]]
       [] w.dist # Cardinality(symbols) /\ w.total = 0 ->
            [ok |-> TRUE, norm |-> [s \in symbols |-> IF n[s] <= 0 THEN n[s]
               ELSE n[s] + todo \div Len(ones) + IF Nth(s) <= todo % Len(ones) THEN 1 ELSE 0]]
       [] OTHER -> [ok |-> \A s \in symbols : n[s] = -2 => shared[s] >= 1, norm |-> shared]
M2Weigh(log, count, total, n) == M2Share(log, count, n, Weighed(count, total, n))
\* When the rest is worth more than the symbols of one cell, more of them get just one.
M2Raise(log, count, total, lowOne, n, w) ==
  LET todo  == 2^log - w.dist
      risky == w.total \div todo > lowOne
      Poor(s) == n[s] = -2 /\ count[s] <= (w.total * 3) \div (todo * 2)
  IN IF todo = 0 THEN [ok |-> TRUE, norm |-> n]
     ELSE M2Weigh(log, count, total, [s \in DOMAIN count |-> IF risky /\ Poor(s) THEN 1 ELSE n[s]])
M2First(log, count, total, lowOne, n) ==
  M2Raise(log, count, total, lowOne, n, Weighed(count, total, n))
\* FSE_normalizeM2: the poor symbols get one cell, the others (-2) wait for their share.
NormalizeM2(log, count, total, lowProb) ==
  LET lowOne == (total * 3) \div 2^(log + 1)
  IN M2First(log, count, total, lowOne,
       [s \in DOMAIN count |-> CASE count[s] = 0                    -> 0
                                 [] count[s] \in 1 .. total \div 2^log -> lowProb
                                 [] OTHER -> IF count[s] <= lowOne THEN 1 ELSE -2])

\* The largest count takes the rest, if it can.
GiveRest(log, count, total, lowProb, norm) ==
  LET scored  == {s \in DOMAIN count : count[s] > total \div 2^log}
      largest == CHOOSE s \in scored : \A t \in scored :
                   norm[s] > norm[t] \/ (norm[s] = norm[t] /\ s <= t)
      rest    == 2^log - FoldLeftDomain(LAMBDA t, i : t + IF norm[i - 1] = -1 THEN 1 ELSE norm[i - 1],
                                        0, [i \in 1 .. Cardinality(DOMAIN count) |-> 0])
  IN IF scored = {} \/ -rest >= norm[largest] \div 2
     THEN NormalizeM2(log, count, total, lowProb)
     ELSE [ok |-> TRUE, norm |-> [norm EXCEPT ![largest] = @ + rest]]
\* FSE_normalizeCount; one symbol only (rle) is left to the caller.
NormalizeCount(log, count, total, useLowProb) ==
  LET lowProb == IF useLowProb THEN -1 ELSE 1
  IN IF \/ log < MinTableLog(total, Cardinality(DOMAIN count) - 1)
        \/ \E s \in DOMAIN count : count[s] = total
     THEN [ok |-> FALSE, norm |-> count]
     ELSE GiveRest(log, count, total, lowProb,
            [s \in DOMAIN count |-> CASE count[s] = 0                       -> 0
                                      [] count[s] \in 1 .. total \div 2^log -> lowProb
                                      [] OTHER -> Proba(count[s], total, log)])

(* ------------------------- the header of a table --------------------------- *)

\* After a count of 0 the number of further zeros, in 2-bit digits: 3 means 3 and more.
ZeroRun(bits, n) ==
  AddBits(bits \o [k \in 1 .. 2 * (n \div 3) |-> 1], n % 3, 2)

Absolute(c) == IF c < 0 THEN -c ELSE c
Shrunk(w) ==        \* as fewer cells remain, counts take fewer bits
  IF w.remaining >= w.threshold THEN w
  ELSE [w EXCEPT !.threshold = 2^Highbit(MostNat(w.remaining, 1)),
                 !.nbBits = Highbit(MostNat(w.remaining, 1)) + 1]

WriteCount(w, c) ==
  LET most  == 2 * w.threshold - 1 - w.remaining
      coded == IF c + 1 >= w.threshold THEN c + 1 + most ELSE c + 1
  IN Shrunk([w EXCEPT !.bits = AddBits(@, coded, w.nbBits - IF coded < most THEN 1 ELSE 0),
                      !.remaining = @ - Absolute(c), !.zeros = IF c = 0 THEN 0 ELSE -1])
WriteNext(w, c) ==
  CASE w.remaining <= 1 -> w
    [] w.remaining > 1 /\ w.zeros >= 0 /\ c = 0 -> [w EXCEPT !.zeros = @ + 1]
    [] OTHER -> WriteCount(IF w.zeros >= 0 THEN [w EXCEPT !.bits = ZeroRun(@, w.zeros)] ELSE w, c)
Written(w) == IF w.remaining = 1 THEN Padded(w.bits) ELSE <<>>
WriteNCount(norm, log) ==
  Written(FoldLeftDomain(LAMBDA w, i : WriteNext(w, norm[i - 1]),
            [bits |-> Bits(log - FSE_MIN_TABLELOG, 4), remaining |-> 2^log + 1,
             threshold |-> 2^log, nbBits |-> log + 1, zeros |-> -1],
            [i \in 1 .. Cardinality(DOMAIN norm) |-> 0]))

\* The n bits after position p, forwards; zeros after the end.
Peek(bits, p, n) ==
  LET val[k \in 1 .. n + 1] ==              \* of the bits from the k-th on
        IF k > n THEN 0
        ELSE 2 * val[k + 1] + IF p + k > Len(bits) THEN 0 ELSE bits[p + k]
  IN val[1]

\* The zeros announced at p, and where their digits end.
Zeros(bits, maxSymbol, p) ==
  LET digit == CHOOSE k \in 0 .. maxSymbol + 1 :
                 /\ Peek(bits, p + 2 * k, 2) # 3 \/ k = maxSymbol + 1
                 /\ \A j \in 0 .. k - 1 : Peek(bits, p + 2 * j, 2) = 3
  IN [n |-> 3 * digit + Peek(bits, p + 2 * digit, 2), pos |-> p + 2 * digit + 2]
TakeCount(r, short, full) ==
  LET most  == 2 * r.threshold - 1 - r.remaining
      coded == IF short < most THEN short ELSE IF full >= r.threshold THEN full - most ELSE full
  IN Shrunk([r EXCEPT !.norm = Append(@, coded - 1), !.remaining = @ - Absolute(coded - 1),
                      !.pos = @ + r.nbBits - IF short < most THEN 1 ELSE 0, !.zero = coded = 1])
ReadCount(bits, r) == TakeCount(r, Peek(bits, r.pos, r.nbBits - 1), Peek(bits, r.pos, r.nbBits))
AfterZero(bits, r, z) ==
  IF z.n > 0 THEN [r EXCEPT !.skip = z.n - 1, !.pos = z.pos, !.zero = FALSE, !.norm = Append(@, 0)]
  ELSE ReadCount(bits, [r EXCEPT !.pos = z.pos])
ReadNext(bits, maxSymbol, r) ==
  CASE r.remaining <= 1 \/ r.skip > 0 -> [r EXCEPT !.skip = @ - 1,
         !.norm = IF r.remaining <= 1 THEN @ ELSE Append(@, 0)]
    [] r.remaining > 1 /\ r.skip <= 0 /\ r.zero -> AfterZero(bits, r, Zeros(bits, maxSymbol, r.pos))
    [] OTHER -> ReadCount(bits, r)
NCountOf(log, bits, r) ==
  [ok |-> log <= 15 /\ r.remaining = 1 /\ r.pos <= Len(bits), log |-> log,
   norm |-> [s \in 0 .. Len(r.norm) - 1 |-> r.norm[s + 1]], bytes |-> (r.pos + 7) \div 8]
ReadNCount(bits, maxSymbol) ==
  LET log == Peek(bits, 0, 4) + FSE_MIN_TABLELOG
  IN NCountOf(log, bits, FoldLeftDomain(LAMBDA r, i : ReadNext(bits, maxSymbol, r),
       [norm |-> <<>>, remaining |-> 2^log + 1, threshold |-> 2^log, nbBits |-> log + 1,
        pos |-> 4, zero |-> FALSE, skip |-> 0],
       [i \in 1 .. maxSymbol + 1 |-> 0]))

(* ------------------------------- tables ------------------------------------ *)

\* The symbols of the cells: those of low probability at the end, from the last
\* cell down; each of the others as often as it counts, a step apart.
TableStep(size) == size \div 2 + size \div 8 + 3
Symbols(norm, log) ==
  LET size  == 2^log
      all   == [i \in 1 .. Cardinality(DOMAIN norm) |-> i - 1]
      rare  == SelectSeq(all, LAMBDA s : norm[s] = -1)
      order == SelectSeq([k \in 1 .. size |-> ((k - 1) * TableStep(size)) % size],
                         LAMBDA p : p < size - Len(rare))
      laid  == FoldLeft(LAMBDA q, s : q \o [k \in 1 .. MostNat(norm[s], 0) |-> s], <<>>, all)
  IN [full |-> Len(laid) = Len(order),
      cell |-> Tabulate([p \in 0 .. size - 1 |->
                  IF p >= size - Len(rare) THEN rare[size - p]
                  ELSE LET k == CHOOSE k \in 1 .. Len(order) : order[k] = p IN laid[k]])]
Cells(cell, s) ==
  SelectSeq([i \in 1 .. Cardinality(DOMAIN cell) |-> i - 1], LAMBDA p : cell[p] = s)

\* A state (size .. 2 * size - 1) gives up bits until it is in n .. 2n - 1; this then
\* selects one of the n cells of the symbol.
DeltaNbBits(c, log) ==
  CASE c = 0          -> (log + 1) * 2^16 - 2^log
    [] c \in {-1, 1}  -> log * 2^16 - 2^log
    [] OTHER          -> LET most == log - Highbit(c - 1) IN most * 2^16 - c * 2^most
BuildCTable(norm, log) ==
  LET cell == Symbols(norm, log).cell
  IN [log |-> log, max |-> Cardinality(DOMAIN norm) - 1,
      delta |-> Tabulate([s \in DOMAIN norm |-> DeltaNbBits(norm[s], log)]),
      cells |-> Tabulate([s \in DOMAIN norm |-> Cells(cell, s)])]
RleCTable(symbol) ==
  [log |-> 0, max |-> symbol, delta |-> [s \in 0 .. symbol |-> 0],
   cells |-> [s \in 0 .. symbol |-> IF s = symbol THEN <<0>> ELSE <<>>]]

NextState(ct, value, nb, symbol) ==
  2^ct.log + ct.cells[symbol][value \div 2^nb - Len(ct.cells[symbol]) + 1]
\* For a symbol that the table does not code, the entries read may hold anything: nothing
\* is written, and the state stays or is the first one.
Codes(ct, symbol) == symbol \in DOMAIN ct.cells /\ ct.cells[symbol] # <<>>
\* The first symbol of a state costs nothing.
InitCState(ct, symbol) ==
  IF ct.log = 0 \/ ~Codes(ct, symbol) THEN 2^ct.log
  ELSE LET nb == (ct.delta[symbol] + 2^15) \div 2^16
       IN NextState(ct, nb * 2^16 - ct.delta[symbol], nb, symbol)
\* e: [bits, state]
EncodeSymbol(e, ct, symbol) ==
  LET nb == (e.state + ct.delta[symbol]) \div 2^16
  IN IF ~Codes(ct, symbol) THEN e ELSE
     [bits |-> AddBits(e.bits, e.state, nb), state |-> NextState(ct, e.state, nb, symbol)]
FlushCState(bits, ct, state) == AddBits(bits, state, ct.log)

MaxNbBits(ct, symbol) == (ct.delta[symbol] + 2^16 - 1) \div 2^16
\* In 1/256 bits.
BitCost(ct, symbol) ==
  LET nb    == ct.delta[symbol] \div 2^16
      short == (nb + 1) * 2^16 - (ct.delta[symbol] + 2^ct.log)
  IN (nb + 1) * 256 - (short * 256) \div 2^ct.log

\* The decoder numbers the cells of a symbol n .. 2n - 1, in the same order.
DState(norm, cell, u) ==
  Absolute(norm[cell[u]]) + Cardinality({p \in 0 .. u - 1 : cell[p] = cell[u]})
DEntry(log, symbol, next) ==
  LET nb == log - Highbit(next) IN [symbol |-> symbol, nb |-> nb, base |-> next * 2^nb - 2^log]
DTableOf(norm, log, s) ==
  [ok |-> s.full, log |-> log,
   cell |-> IF s.full THEN Tabulate([u \in 0 .. 2^log - 1 |->
                             DEntry(log, s.cell[u], DState(norm, s.cell, u))])
            ELSE <<>>]
BuildDTable(norm, log) == DTableOf(norm, log, Symbols(norm, log))
RleDTable(symbol) ==
  [ok |-> TRUE, log |-> 0, cell |-> [u \in {0} |-> [symbol |-> symbol, nb |-> 0, base |-> 0]]]

InitDState(d, dt) == ReadBits(d, dt.log)
UpdateState(d, dt, state) ==
  LET r == ReadBits(d, dt.cell[state].nb)
  IN [val |-> dt.cell[state].base + r.val, d |-> r.d]

(* ---------------- a whole sequence with two states in turn ------------------ *)

\* Even positions (from 0) are state 1's; written from the last symbol to the first.
CompressUsingCTable(src, ct, capacity) ==
  LET n == Len(src)
      Turn(p) == 1 + (p % 2)
      start == [bits |-> <<>>,
                state |-> [t \in 1 .. 2 |-> InitCState(ct, src[IF Turn(n - 1) = t THEN n ELSE n - 1])]]
      done == FoldLeftDomain(LAMBDA e, i :
                LET p == n - 2 - i
                    r == EncodeSymbol([bits |-> e.bits, state |-> e.state[Turn(p)]], ct, src[p + 1])
                IN [bits |-> r.bits, state |-> [e.state EXCEPT ![Turn(p)] = r.state]],
              start, [i \in 1 .. n - 2 |-> 0])
  IN IF n <= 2 THEN <<>>
     ELSE CloseCStream(FlushCState(FlushCState(done.bits, ct, done.state[2]), ct, done.state[1]),
                       capacity)

\* The end is found by reading too far: then one symbol is left, of the other state.
DecodeNext(r, dt, capacity, t, u) ==
  LET out == Append(r.out, dt.cell[r.state[t]].symbol)
  IN IF Len(r.out) > capacity - 2 THEN [r EXCEPT !.end = TRUE, !.ok = FALSE]
     ELSE IF Overflowed(u.d)
     THEN [r EXCEPT !.end = TRUE, !.out = Append(out, dt.cell[r.state[3 - t]].symbol)]
     ELSE [r EXCEPT !.out = out, !.d = u.d, !.state[t] = u.val]
RECURSIVE DecodeOn(_, _, _)
DecodeOn(r, dt, capacity) ==
  LET t == 1 + (Len(r.out) % 2)
  IN IF r.end THEN r
     ELSE DecodeOn(DecodeNext(r, dt, capacity, t, UpdateState(r.d, dt, r.state[t])), dt, capacity)
DecodeSymbols(dt, capacity, s1, s2) ==
  DecodeOn([out |-> <<>>, d |-> s2.d, state |-> <<s1.val, s2.val>>, end |-> Overflowed(s2.d),
            ok |-> ~Overflowed(s2.d)], dt, capacity)
NoSymbols == [ok |-> FALSE, out |-> <<>>]
SecondState(dt, capacity, s1) == DecodeSymbols(dt, capacity, s1, InitDState(s1.d, dt))
FirstState(dt, capacity, d) ==
  IF d.ok THEN SecondState(dt, capacity, InitDState(d, dt)) ELSE NoSymbols
DecompressUsingDTable(stream, dt, capacity) ==
  IF dt.ok THEN FirstState(dt, capacity, InitDStream(stream)) ELSE NoSymbols

\* FSE_decompress_wksp: the header (h), the table, the symbols.
FseBody(bits, h, maxLog, capacity) ==
  IF ~h.ok \/ h.log > maxLog THEN NoSymbols
  ELSE DecompressUsingDTable(SubSeq(bits, 8 * h.bytes + 1, Len(bits)), BuildDTable(h.norm, h.log),
                             capacity)
FseDecompress(bits, maxSymbol, maxLog, capacity) ==
  FseBody(bits, ReadNCount(bits, maxSymbol), maxLog, capacity)
=============================================================================
