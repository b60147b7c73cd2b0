------------------------------ MODULE MCWalShard ------------------------------
(* Small instances of the WAL shard. *)
EXTENDS WalShard, TLC

CONSTANTS t1, t2, t3, p1, p2

TwoThreads == {t1, t2}
ThreeThreads == {t1, t2, t3}
OnePage == {p1}
TwoPages == {p1, p2}

\* Threads and pages are interchangeable (safety runs only).
Symmetry == Permutations(Threads) \union Permutations(Pages)
=============================================================================
