------------------------------ MODULE MCEntropy ------------------------------
(****************************************************************************)
(* Small frames for EntropyBlock: blocks that take new tables, that could   *)
(* repeat the last ones but for a symbol, that shrink only in part, that do *)
(* not shrink but use the last offsets, and one of equal bytes.             *)
(****************************************************************************)
EXTENDS EntropyBlock

CONSTANTS Strategies, WithDict

\* n literals, the more frequent the smaller, from symbol s on.
Skewed(n, s) ==
  [k \in 1 .. n |-> s + IF k % 2 = 1 THEN 0 ELSE IF k % 4 = 2 THEN 1
                        ELSE IF k % 8 = 4 THEN 2 ELSE 3 + (k % 3)]
Even(n, m) == [k \in 1 .. n |-> (k * 5) % m]
Store(seqs, lits) == [EmptyStore EXCEPT !.seqs = seqs, !.lits = lits]
Sq(ll, ob, ml) == [ll |-> ll, ob |-> ob, ml |-> ml]
Block(store) == [store |-> store, same |-> FALSE, tiny |-> FALSE]

Near == [i \in 1 .. 10 |-> Sq((i * 3) % 5, IF i % 3 = 0 THEN 1 + (i % 2) ELSE 6 + i, 4 + ((i * 7) % 11))]
Repeating == [i \in 1 .. 8 |-> Sq(i % 3, 1 + (i % 3), 3 + i)]
\* One offset reaches behind what a dictionary of DictSize could need in the first block.
Far == [i \in 1 .. 6 |-> Sq(0, IF i = 3 THEN 2^27 + 5 ELSE 1000 + 900 * i, 12)]
\* Two halves that have nothing in common; the first does not shrink.
Halves == [i \in 1 .. 12 |-> IF i <= 6 THEN Sq(5, 2^(20 + i), 0) ELSE Sq(0, 1 + (i % 3), 60)]
\* The parts that shrink have no literals.
Tailed == [i \in 1 .. 14 |-> IF i <= 6 THEN Sq(0, 1, 40) ELSE Sq(0, 2^26 + i, 0)]

First ==
  {Block(Store(Near, Skewed(72, 0))),
   Block(Store(Repeating, Skewed(30, 2))),
   Block(Store(Halves, Even(33, 32))),
   Block(Store(Tailed, Skewed(26, 0))),
   Block(Store(<<Sq(20, 90, 1), Sq(2, 2, 0)>>, Even(30, 15))),
   Block(Store(<<>>, Skewed(264, 0))),
   [store |-> Store(<<Sq(1, 4, 60)>>, <<5>>), same |-> TRUE, tiny |-> FALSE]}
Later ==
  {Block(Store(Near, Skewed(72, 1))),
   Block(Store(Repeating, Skewed(30, 2))),
   Block(Store(Far, Skewed(70, 0))),
   [store |-> Store(<<Sq(1, 4, 60)>>, <<5>>), same |-> TRUE, tiny |-> FALSE],
   [store |-> Store(<<>>, Even(5, 5)), same |-> FALSE, tiny |-> TRUE]}
MCBlocks == [k \in 1 .. NbBlocks |-> IF k = 1 THEN First ELSE Later]
MCSettings ==
  [flow : {"whole", "split", "super"}, strategy : Strategies, noLits : {FALSE}, target : {0}, slack : {6}]
DictCount == [s \in 0 .. 7 |-> 1 + (s * s)]
\* Its offsets and those of a first block have the codes 0 .. 26, and so has its table.
DictSize == 2^27 - 2^17 - 1
DictNorm ==
  [DefaultNorm EXCEPT !.of = [s \in 0 .. 26 |-> IF s \in {9, 10} THEN 2 ELSE DefaultNorm.of[s]]]
MCDictionaries ==
  {[none |-> TRUE]} \cup
  IF WithDict THEN {[none |-> FALSE, huf |-> WriteCTable(BuildHufTable(DictCount, 11), 128),
                     norm |-> DictNorm, log |-> DefaultNormLog, rep |-> <<7, 5, 3>>, size |-> DictSize]}
  ELSE {}
=============================================================================
