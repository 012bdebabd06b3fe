--------------------------- MODULE MCAsyncLogger ---------------------------
(* AsyncLogger for TLC: goroutines and entries are interchangeable. *)
EXTENDS AsyncLogger, TLC

Symmetry == Permutations(Producers) \cup Permutations(Syncers) \cup Permutations(Objs)

\* Each producer's first record panics in the handler chain.
FirstPanics == {<<p, 1>> : p \in Producers}
NonePanics  == {}
=============================================================================
