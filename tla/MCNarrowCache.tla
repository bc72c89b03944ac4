--------------------------- MODULE MCNarrowCache ---------------------------
(* Instances of NarrowCache for TLC. *)
EXTENDS NarrowCache, TLC

\* Goroutine identities are interchangeable.
GoroutineSymmetry == Permutations(Goroutines)

=============================================================================
