----------------------------- MODULE MCBufferPool -----------------------------
(* Small instances of the buffer pool. *)
EXTENDS BufferPool, TLC

CONSTANTS t1, t2, t3, f1, f2, p1, p2, p3

OneThread == {t1}
TwoThreads == {t1, t2}
ThreeThreads == {t1, t2, t3}
OneFrame == {f1}
TwoFrames == {f1, f2}
OnePage == {p1}
TwoPages == {p1, p2}
ThreePages == {p1, p2, p3}

Load(evicting, exist, pages, batches, writes, fails) ==
    [budget |-> evicting, exist |-> exist, pages |-> pages, batches |-> batches,
     writes |-> writes, fails |-> fails]
Exist(writes, fails) ==
    Load(1, Cardinality(Pages), Cardinality(Pages), 0, writes, fails)
\* Pages that exist are written; or they are read by a store that may fail.
PagesExist == {Exist(MaxWrites, FALSE), Exist(0, TRUE)}
OneBatch == {Load(1, 2, 2, 1, 1, FALSE)}
\* A page is allocated while two others are in use, or two pages are changed
\* twice, with a store that may fail; or a batch is evicted.
AllocationChangesOrBatch == {Load(2, 2, 3, 0, 1, TRUE), Load(1, 2, 2, 0, 2, TRUE)} \union OneBatch

Symmetry ==
    Permutations(Fixers) \union Permutations(Threads \ Fixers) \union Permutations(Frames)
        \union Permutations(Pages)
=============================================================================
