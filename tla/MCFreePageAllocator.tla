------------------------- MODULE MCFreePageAllocator -------------------------
(***************************************************************************)
(* FreePageAllocator on three threads and two shards.  The sizes of the    *)
(* code (nine buckets up to 256 pages, batches of 8, reservations of 256)  *)
(* are scaled down so that a batch is longer than the largest              *)
(* reservation's single page and every layer runs dry.                     *)
(***************************************************************************)
EXTENDS FreePageAllocator, TLC

CONSTANTS t1, t2, t3

HotBucketLimits == <<1, 2>>

\* thread_alloc_shard_hint with more threads than shards: t1 and t2 share
\* their home shard, t3 has the other one.
Homes == [t \in Threads |-> IF t = t3 THEN 1 ELSE 0]

\* t1 and t2 are interchangeable.
Twins == {[t \in Threads |-> t], (t1 :> t2) @@ (t2 :> t1) @@ (t3 :> t3)}
=============================================================================
