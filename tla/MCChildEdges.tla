------------------------------ MODULE MCChildEdges -----------------------------
(* Small instances of ChildEdges. *)
EXTENDS ChildEdges

CONSTANTS A, B, F1, F2, F3, F4, F5, R, P, Q, S, T

MCFrames == {F1, F2, F3, F4, F5}
MCPages == 1..6
MCInner == {R, P, Q, S, T}

NoLeaves == [n \in MCInner |-> <<>>]
Flat(leaves) == [NoLeaves EXCEPT ![R] = leaves]
Two(a, b) == [NoLeaves EXCEPT ![P] = a, ![Q] = b]
Three(a, b, c) == [NoLeaves EXCEPT ![P] = a, ![Q] = b, ![S] = c]
Mode(threads_, leaves, kids_, frames, cap_, chase_, ops_) ==
    [threads |-> threads_, leaves |-> leaves, kids |-> kids_, frames |-> frames, cap |-> cap_,
     chase |-> chase_, ops |-> ops_, ends |-> FALSE]

MCModes ==
    { \* more leaves than frames
      Mode({A}, Flat(<<1, 2>>), <<>>, {F1}, 2, FALSE, <<>>),
      Mode({A}, Flat(<<1, 2, 3>>), <<>>, {F1, F2}, 3, TRUE, <<>>),
      Mode({A, B}, Flat(<<1, 2>>), <<>>, {F1}, 2, FALSE, <<>>),
      \* a leaf split under the root and under a full root, and without a frame for
      \* the new leaf
      Mode({A}, Flat(<<1, 2>>), <<>>, {F1, F2}, 2, FALSE, <<"split">>),
      Mode({A}, Flat(<<1, 2>>), <<>>, {F1, F2, F3}, 2, FALSE, <<"split">>),
      Mode({A}, Flat(<<1, 2>>), <<>>, {F1}, 3, FALSE, <<"split">>),
      [Mode({A}, Flat(<<1, 2>>), <<>>, {F1, F2, F3}, 2, FALSE, <<"split", "merge", "split">>)
          EXCEPT !.ends = TRUE],
      \* a merge of the last two leaves
      Mode({A}, Flat(<<1, 2>>), <<>>, {F1, F2}, 2, FALSE, <<"merge">>),
      \* a leaf merge that collapses the tree
      Mode({A}, Two(<<1, 2>>, <<3>>), <<P, Q>>, {F1, F2}, 2, FALSE, <<"merge">>),
      \* without evictions: a leaf split under a full inner node, a leaf merge
      \* under the root, a merge of inner nodes, and two descents that split
      Mode({A}, Two(<<1, 2>>, <<3>>), <<P, Q>>, MCFrames, 2, FALSE, <<"split">>),
      Mode({A}, Flat(<<1, 2, 3>>), <<>>, MCFrames, 3, FALSE, <<"merge">>),
      Mode({A}, Three(<<1, 2>>, <<3>>, <<4>>), <<P, Q, S>>, {F1, F2}, 2, FALSE, <<"merge">>),
      Mode({A, B}, Flat(<<1, 2>>), <<>>, MCFrames, 3, FALSE, <<"split">>) }

\* Two threads that split, or merge, in a pool of two frames.
MCShared == {Mode({A, B}, Flat(<<1, 2>>), <<>>, {F1, F2}, 3, FALSE, <<kind>>) : kind \in {"split", "merge"}}

\* A merge of inner nodes while another thread evicts a leaf.
MCInnerMerge == {Mode({A, B}, Three(<<1, 2>>, <<3>>, <<4>>), <<P, Q, S>>, {F1, F2, F3}, 2, FALSE, <<"merge">>)}
================================================================================
