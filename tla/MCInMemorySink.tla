--------------------------- MODULE MCInMemorySink ---------------------------
(***************************************************************************)
(* A small instance of InMemorySink: two sequences that do not fit into    *)
(* the queue together, two single events, and an Anywise without a sink.   *)
(***************************************************************************)
EXTENDS InMemorySink, TLC

CONSTANTS c1, c2, c3, c4, c5

MCBatch == c1 :> 3 @@ c2 :> 2 @@ c3 :> 1 @@ c4 :> 1 @@ c5 :> 1
=============================================================================
