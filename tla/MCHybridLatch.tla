--------------------------- MODULE MCHybridLatch ---------------------------
(* Model-checking instance of HybridLatch. *)
EXTENDS HybridLatch, TLC

\* Threads, words and values are interchangeable model values.
Symmetry == Permutations(Threads) \union Permutations(Words)
                                  \union Permutations(Values)
=============================================================================
