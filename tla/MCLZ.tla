-------------------------------- MODULE MCLZ --------------------------------
(* Sessions of two or three blocks of at most eight bytes of two values, for *)
(* every block compressor, source of sequences and way to send a block.      *)
EXTENDS LZ

NoDict == [kind |-> "none", addr |-> 0, data |-> <<>>]
Dict(kind) == [kind |-> kind, addr |-> 50, data |-> <<0, 1, 1, 0, 0, 1, 0, 1>>]

Texts == {<< <<0,1,0,0,1,0,1,0>>, <<0,1,0,1,1,0,1,0>>, <<1,1,0,1,0,0,1,0>> >>,
          << <<0,0,0,0,0,0,1,1>>, <<1,0,0,0,0,0,0,1>>, <<0,0,1,1,1,1,1,1>> >>,
          << <<0,1,1,0,1,1,0,0>>, <<1,0,1,1,0,0,1,1>>, <<0,1,0,0,1,1,0,1>> >>}

ShortTexts == {<< <<0,1,0,1,1,0>>, <<1,0,1,0,0,1>> >>, << <<0,0,0,0,0,1>>, <<0,0,1,1,0,0>> >>}
LongTexts  == {<< <<0,1,0,0,1,0,1,0,0,1,0,1,1,0,1,0,1,0>>, <<1,1,0,1>> >>,
               << <<0,0,0,0,0,0,0,0,0,0,0,0,0,1,1,0,1,1>>, <<1,1,0,1>> >>}

(* The chunks of an input: one after the other in memory, elsewhere (the third *)
(* one over the first), in two frames, or in two jobs.                         *)
InputOf(shape, t) ==
  LET next == 100 + Len(t[1])
      addr == IF shape = "ring" THEN <<100, 120, 100>> ELSE <<100, next, 116>>
  IN [i \in 1 .. Len(t) |->
        [kind |-> CASE i = 1 \/ (i = 2 /\ shape = "frames") -> "frame"
                    [] i = 2 /\ shape = "job" -> "job"
                    [] OTHER -> "more",
         addr |-> addr[i], data |-> t[i]]]

Plan(strat, source, emit, dict, input) ==
  [strat |-> strat, source |-> source, emit |-> emit, dict |-> dict, input |-> input,
   search |-> TRUE, fallback |-> FALSE]
WithFallback(plans, search) ==
  {[p EXCEPT !.fallback = TRUE, !.search = search] : p \in plans}

PlansMC ==
  {Plan(st, "internal", "plain", NoDict, InputOf(sh, t)) :
     st \in {"fast", "dfast", "lazy"}, sh \in {"contiguous", "ring", "frames", "job"}, t \in Texts}
  \union {Plan("lazy", "internal", em, NoDict, InputOf("contiguous", t)) :
            em \in {"split", "super"}, t \in Texts}
  \union {Plan(st, "internal", "plain", Dict(k), InputOf("ring", t)) :
            st \in {"fast", "dfast", "lazy"}, k \in {"loaded", "attached"}, t \in Texts}
  \union {Plan("opt", so, em, NoDict, InputOf("contiguous", t)) :
            so \in {"internal", "ldm"}, em \in {"plain", "split"}, t \in ShortTexts}
  \union {Plan("opt", "internal", "plain", Dict(k), InputOf("ring", t)) :
            k \in {"loaded", "attached"}, t \in ShortTexts}
  \union {Plan(st, so, "plain", NoDict, InputOf("contiguous", t)) :
            st \in {"fast", "lazy"}, so \in {"ldm", "noDelim"}, t \in LongTexts}
  \union {Plan("fast", "producer", "plain", NoDict, InputOf("contiguous", t)) : t \in Texts}
  \union WithFallback({Plan("opt", "producer", "plain", NoDict, InputOf("contiguous", t)) :
                         t \in ShortTexts}, TRUE)
  \union WithFallback({Plan("lazy", "producer", "plain", NoDict, InputOf("contiguous", t)) :
                         t \in Texts}, FALSE)

\* A producer whose codes are searched, with a fallback that keeps two offsets only.
PlansFallback ==
  WithFallback({Plan("lazy", "producer", "plain", NoDict, InputOf("contiguous", t)) :
                  t \in Texts}, TRUE)
=============================================================================
