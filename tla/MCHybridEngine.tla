--------------------------- MODULE MCHybridEngine ---------------------------
(* Instances of HybridEngine for TLC.                                      *)
EXTENDS HybridEngine

Sync == [async |-> FALSE, free_cache_engine |-> TRUE, server |-> FALSE]
SyncServer == [Sync EXCEPT !.server = TRUE]
AsyncServer == [async |-> TRUE, free_cache_engine |-> TRUE, server |-> TRUE]

\* The configurations that free the engine's memory between rollouts, and the
\* same ones when they keep it.
Freeing == {Sync, SyncServer, AsyncServer}
All == Freeing \cup {[c EXCEPT !.free_cache_engine = FALSE] : c \in Freeing}

\* REMAX's second rollout, and validations of two batches.
Twice == [s \in RolloutStages |-> 2]
=============================================================================
