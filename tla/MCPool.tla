------------------------------- MODULE MCPool -------------------------------
(****************************************************************************)
(* A main thread that adds, waits for its jobs, and frees the pool; another *)
(* one that adds without blocking and resizes.                              *)
(****************************************************************************)
EXTENDS Pool, TLC

CONSTANTS main, helper

MCCalls == (main :> {"add", "joinJobs", "free"}) @@ (helper :> {"tryAdd", "resize"})

\* Two that add, of which one also joins: they share the condition queuePushCond.
MCShared == (main :> {"add"}) @@ (helper :> {"add", "joinJobs"})

=============================================================================
