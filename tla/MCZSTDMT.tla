------------------------------ MODULE MCZSTDMT ------------------------------
EXTENDS ZSTDMT

Frame(len, workers, section, ops) ==
  [len |-> len, workers |-> workers, section |-> section, abandon |-> FALSE,
   fails |-> 0, sync |-> {}, ops |-> ops]

\* Two workers and input that runs around the round buffer; a resize and a
\* rolling hash that hits; an allocation that fails, with every directive; a frame
\* that is dropped while its job runs.
MCPlans == {
  << Frame(6, 2, 1, {"end"}) >>,
  << Frame(2, 1, 2, {"end"}),
     [Frame(4, 2, 3, {"continue", "end"}) EXCEPT !.sync = {2}] >>,
  << [Frame(2, 2, 1, {"end"}) EXCEPT !.fails = 1] >>,
  << [Frame(2, 1, 2, {"flush", "end"}) EXCEPT !.fails = 1] >>,
  << [Frame(1, 1, 1, {"continue"}) EXCEPT !.abandon = TRUE], Frame(2, 1, 1, {"end"}) >> }

\* Frames dropped with a job that is ready but not posted, and before a frame with
\* more workers.
MCDropped == {
  << [Frame(3, 1, 1, {"continue"}) EXCEPT !.abandon = TRUE], Frame(1, 1, 1, {"end"}) >> }
MCGrown == {
  << [Frame(1, 1, 1, {"continue"}) EXCEPT !.abandon = TRUE], Frame(1, 2, 1, {"end"}) >> }
=============================================================================
