---------------------------- MODULE MCMatchFinder ----------------------------
(* Sessions of up to three chunks of at most twelve bytes of two values for each *)
(* finder: one after the other, over a ring of memory, in two frames, with each  *)
(* kind of dictionary.                                                           *)
EXTENDS MatchFinder

NoDict == [kind |-> "none", addr |-> 50, data |-> <<>>]
Dict(kind, d) == [kind |-> kind, addr |-> 50, data |-> d]
Dicts == {<<0, 1, 1, 0, 0, 1, 0, 1, 1, 0>>, <<0, 0, 0, 0, 0, 0, 0, 1, 0, 1>>}

Texts == {<< <<0,1,0,0,1,0,1,0,0,1,0,0>>, <<0,1,0,1,1,0,1,0,1,1>>, <<1,1,0,1,0,0,1,0,1,0,1,1>> >>,
          << <<0,0,0,0,0,0,1,1,0,0,0,0>>, <<1,0,0,0,0,0,0,1,0,0>>, <<0,0,1,1,1,1,1,1,0,0,1,1>> >>}

InputOf(shape, t) ==
  LET addr == CASE shape = "ring" -> <<100, 130, 104>>
                [] OTHER -> <<100, 100 + Len(t[1]), 150>>
  IN [i \in 1 .. Len(t) |->
        [kind |-> IF i = 1 \/ (i = 2 /\ shape = "frames") THEN "frame" ELSE "more",
         addr |-> addr[i], data |-> t[i]]]

Plan(finder, dict, input) ==
  [finder |-> finder, window |-> IF finder = "ldm" THEN 24 ELSE 12, dict |-> dict, input |-> input]

LongTexts == {<< <<0,1,0,0,1,0,1,0,0,1,0,0,1,1,0,0,1,1,1,0,1,1,0,1>>, <<1,1,0,1,1,0,1,0,1,1,0,0,1,0,1,1>> >>,
               << <<0,1,1,0,0,1,1,0,0,1,1,0,0,1,1,0,0,1,1,0,1,1,1,1>>, <<1,1,1,1,1,1,1,1,0,1,1,0,0,1,1,0>> >>,
               << <<0,0,1,1,0,1,0,1,1,0,0,1,1,0,1,1,1,0,1,0,1,1,0,0>>, <<1,0,1,0,1,1,0,0,1,0,1,1,0,1,0,0>> >>}

Finders == {"hc", "row", "dubt", "opt"}
PlansMC ==
  {Plan(f, NoDict, InputOf(sh, t)) : f \in Finders, sh \in {"contiguous", "ring", "frames"}, t \in Texts}
  \union {Plan(f, Dict(k, d), InputOf(sh, SubSeq(t, 1, 2))) :
            f \in Finders, k \in {"loaded", "attached"}, d \in Dicts, sh \in {"contiguous", "frames"}, t \in Texts}
  \union {Plan(f, Dict("dedicated", d), InputOf("contiguous", SubSeq(t, 1, 2))) :
            f \in {"hc", "row"}, d \in Dicts, t \in Texts}
  \union {Plan("ldm", d, InputOf(sh, t)) : d \in {NoDict} \union {Dict("loaded", e) : e \in Dicts},
                                            sh \in {"contiguous", "ring", "frames"}, t \in LongTexts}

RepChoicesMC == {[rep |-> <<1, 3, 5>>, ll0 |-> FALSE], [rep |-> <<2, 9, 7>>, ll0 |-> TRUE]}
=============================================================================
