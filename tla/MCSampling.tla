----------------------------- MODULE MCSampling -----------------------------
(* Instances of Sampling for TLC. *)
EXTENDS Sampling, TLC

Symmetry == Permutations(Goroutines)    \* goroutines are interchangeable

=============================================================================
