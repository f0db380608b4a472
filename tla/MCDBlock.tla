------------------------------ MODULE MCDBlock ------------------------------
(***************************************************************************)
(* Small blocks for DBlock: short and long runs of literals, offsets below *)
(* a copy unit, below a vector and beyond, into the prefix and the older   *)
(* segment; with too little room, just enough, and plenty.                 *)
(***************************************************************************)
EXTENDS DBlock

Seqs(lls, ofs, mls) == [ll : lls, of : ofs, ml : mls]
Few == Seqs({0, 5}, {1, 9}, {2, 7}) \cup {[ll |-> 17, of |-> 3, ml |-> 2]}
Lists ==
  {<<>>} \cup {<<s>> : s \in Seqs({0, 2, 5, 17, 20}, {1, 3, 9, 12}, {1, 4, 9})}
         \cup {<<s, t>> : s, t \in Few}
         \cup {<<s, t, u>> : s, t, u \in Seqs({0, 5}, {2}, {2, 4})}

Total(seqs, F(_)) == FoldLeft(LAMBDA t, s : t + F(s), 0, seqs)
LitLength(seqs) == Total(seqs, LAMBDA s : s.ll)
Content(seqs, n) == n + Total(seqs, LAMBDA s : s.ml)

Base ==
  {c \in [lit : {0, 5, 16, 17, 21}, seqs : Lists] :
     /\ LitLength(c.seqs) <= c.lit + 1
     /\ Content(c.seqs, c.lit) <= BlockMax + 1}
Rooms(c) ==
  LET n == Content(c.seqs, c.lit)
  IN {n - 1, n, n + 3, BlockMax, BlockMax + Overlength + c.lit + 1,
      BlockMax + 2 * Overlength + c.lit + 1} \cap Nat
AllBlocks ==
  UNION {[lit : {c.lit}, seqs : {c.seqs}, cap : Rooms(c), kind : {"huffman", "stored", "direct"},
          streaming : BOOLEAN, prefetch : BOOLEAN, prefix : {6}, ext : {4}] : c \in Base}
=============================================================================
