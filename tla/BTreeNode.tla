------------------------------- MODULE BTreeNode -------------------------------
(***************************************************************************)
(* The nodes of the B+tree (crates/btree/src/btree/node.rs, split_publish) *)
(* and the page rewrites of crates/btree/src/btree.rs, as values.  A node  *)
(* is the sorted slot array of its page: in a leaf the payload of a slot   *)
(* is a value, in an inner node the child to the left of the separator;    *)
(* `upper' is the rightmost child, `left' and `right' are the sibling page *)
(* ids of a leaf (0: none).                                                *)
(*                                                                         *)
(* A value is represented by the room its entry takes in a leaf, so that a *)
(* full leaf may have one, two or more entries; a separator takes one unit *)
(* of an inner node.  Swizzled and page-id forms of an edge are the same   *)
(* edge here: residency is the subject of BufferPool and ChildEdges.       *)
(***************************************************************************)
EXTENDS Integers, Sequences, FiniteSets, SequencesExt

CONSTANTS
    LeafCap,        \* units of entries a leaf page holds
    InnerCap        \* separators an inner page holds

ASSUME CapacityAssumption == LeafCap \in Nat \ {0} /\ InnerCap \in Nat \ {0, 1}

Leaf(ents, left, right) ==
    [leaf |-> TRUE, ents |-> ents, upper |-> 0, left |-> left, right |-> right]
Inner(ents, upper) ==
    [leaf |-> FALSE, ents |-> ents, upper |-> upper, left |-> 0, right |-> 0]

KeyAt(n, i) == n.ents[i][1]
Count(n) == Len(n.ents)
MinKey(n) == KeyAt(n, 1)
MaxKey(n) == KeyAt(n, Count(n))

LowerBound(n, k) == 1 + Cardinality({i \in 1..Count(n) : KeyAt(n, i) < k})
Exact(n, k) == LowerBound(n, k) <= Count(n) /\ KeyAt(n, LowerBound(n, k)) = k
ValueOf(n, k) == IF Exact(n, k) THEN n.ents[LowerBound(n, k)][2] ELSE 0

EdgeSet(n) == 1..(Count(n) + 1)
Child(n, i) == IF i <= Count(n) THEN n.ents[i][2] ELSE n.upper
Children(n) == {Child(n, i) : i \in EdgeSet(n)}
RouteToChild(n, k) == Child(n, LowerBound(n, k))
ChildEdgeFor(n, p) == {i \in EdgeSet(n) : ~n.leaf /\ Child(n, i) = p}

ShouldChaseRight(n, k) == n.right # 0 /\ (n.ents # <<>> => k > MaxKey(n))

Used(n) ==
    IF n.leaf THEN FoldSeq(LAMBDA e, sum : e[2] + sum, 0, n.ents) ELSE Count(n)
Capacity(n) == IF n.leaf THEN LeafCap ELSE InnerCap
Free(n) == Capacity(n) - Used(n)
IsUnderfull(n) == 10 * Free(n) > 6 * Capacity(n)
CanInsertSeparator(n) == Free(n) >= 1

-----------------------------------------------------------------------------
(* Leaf writes *)

\* What try_insert_leaf (or try_upsert_leaf) does with entry <<k, v>>.
LeafAction(n, upserting, k, v) ==
    IF Exact(n, k)
    THEN IF ~upserting THEN "exists"
         ELSE IF Free(n) + ValueOf(n, k) >= v THEN "updated" ELSE "split"
    ELSE IF Free(n) >= v THEN "inserted" ELSE "split"

InsertEntry(n, k, v) == [n EXCEPT !.ents = InsertAt(@, LowerBound(n, k), <<k, v>>)]
RemoveEntry(n, k) == [n EXCEPT !.ents = RemoveAt(@, LowerBound(n, k))]
WriteEntry(n, k, v) ==
    IF Exact(n, k) THEN [n EXCEPT !.ents[LowerBound(n, k)] = <<k, v>>]
    ELSE InsertEntry(n, k, v)

-----------------------------------------------------------------------------
(* Splits *)

\* A leaf with one entry: the pending entry becomes the other half.
SingleEntryHalves(n, k, v) ==
    IF k < MinKey(n)
    THEN [sep |-> k, left |-> << <<k, v>> >>, right |-> n.ents, done |-> TRUE]
    ELSE [sep |-> MinKey(n), left |-> n.ents, right |-> << <<k, v>> >>, done |-> TRUE]

\* A leaf with two entries: the side is chosen by the pending key, and the
\* pending entry is installed in it.
TwoEntryHalves(n, k, v) ==
    LET count == IF k >= KeyAt(n, 2) THEN 2 ELSE 1
        sep   == KeyAt(n, count)
        left  == Leaf(SubSeq(n.ents, 1, count), 0, 0)
        right == Leaf(SubSeq(n.ents, count + 1, 2), 0, 0)
    IN  [sep |-> sep, done |-> TRUE,
         left  |-> IF k <= sep THEN InsertEntry(left, k, v).ents ELSE left.ents,
         right |-> IF k <= sep THEN right.ents ELSE InsertEntry(right, k, v).ents]

\* Any other leaf: the midpoint; the pending entry is retried afterwards.
MidpointHalves(n) ==
    LET count == (Count(n) \div 2) + 1
    IN  [sep |-> KeyAt(n, count), done |-> FALSE,
         left |-> SubSeq(n.ents, 1, count),
         right |-> SubSeq(n.ents, count + 1, Count(n))]

LeafHalves(n, k, v) ==
    CASE Count(n) < 2 -> SingleEntryHalves(n, k, v)
      [] Count(n) = 2 -> TwoEntryHalves(n, k, v)
      [] OTHER        -> MidpointHalves(n)

\* The assertions of the split path: the pending entry of a two-entry leaf is
\* absent, and SlottedPage::insert has room for it.
HalvesAreSound(n, k, h) ==
    h.done => /\ Count(n) = 2 => ~Exact(n, k)
              /\ Used(Leaf(h.left, 0, 0)) <= LeafCap
              /\ Used(Leaf(h.right, 0, 0)) <= LeafCap

\* The midpoint separator of an inner node is promoted, not copied.
InnerHalves(n) ==
    LET mid == Count(n) \div 2
    IN  [sep   |-> KeyAt(n, mid + 1),
         left  |-> Inner(SubSeq(n.ents, 1, mid), Child(n, mid + 1)),
         right |-> Inner(SubSeq(n.ents, mid + 2, Count(n)), n.upper)]

\* apply_split_to_latched_parent: edge i led to `left'.
WithSplit(n, i, sep, left, right) ==
    IF i <= Count(n)
    THEN [n EXCEPT !.ents = InsertAt([@ EXCEPT ![i][2] = right], i, <<sep, left>>)]
    ELSE [n EXCEPT !.ents = Append(@, <<sep, left>>), !.upper = right]

-----------------------------------------------------------------------------
(* Merges *)

LeafPairIsMergeable(T, l, r) ==
    /\ l # r /\ T[l].right = r
    /\ (T[l].ents # <<>> /\ T[r].ents # <<>>) => MaxKey(T[l]) <= MinKey(T[r])
LeafPairFits(l, r) == Used(l) + Used(r) <= LeafCap
\* Mutant: the merged leaf keeps its old right link.
MergeLeafPagesKeepingLink(l, r) == Leaf(l.ents \o r.ents, l.left, l.right)
MergeLeafPagesIntoLeft(l, r) == Leaf(l.ents \o r.ents, l.left, r.right)

InnerPairFits(l, r) == Count(l) + 1 + Count(r) <= InnerCap
MergeInnerPagesIntoLeft(l, boundary, r) ==
    Inner(l.ents \o << <<boundary, l.upper>> >> \o r.ents, r.upper)

\* Mutant: the merged page keeps its old separator.
UnlinkMergedKeepingSeparator(n, i, merged, sep) ==
    IF i = Count(n)
    THEN [n EXCEPT !.ents = RemoveAt(@, i), !.upper = merged]
    ELSE [n EXCEPT !.ents = RemoveAt([@ EXCEPT ![i][2] = merged], i + 1)]

\* unlink_merged_*: edge i is page `merged', edge i + 1 led to the page that
\* was merged into it; sep is the separator of the merged page if it has one.
UnlinkMerged(n, i, merged, sep) ==
    IF i = Count(n)
    THEN [n EXCEPT !.ents = RemoveAt(@, i), !.upper = merged]
    ELSE [n EXCEPT !.ents = RemoveAt([@ EXCEPT ![i] = <<sep, merged>>], i + 1)]

SetSeparatorKey(n, i, k) == [n EXCEPT !.ents[i][1] = k]

-----------------------------------------------------------------------------
(* Reading a whole tree T (a function from page ids to nodes) *)

RECURSIVE DescendTo(_, _, _)
DescendTo(T, p, k) ==
    IF ~T[p].leaf THEN DescendTo(T, RouteToChild(T[p], k), k)
    ELSE IF ShouldChaseRight(T[p], k) THEN DescendTo(T, T[p].right, k)
    ELSE p

RECURSIVE LeftmostLeaf(_, _)
LeftmostLeaf(T, p) == IF T[p].leaf THEN p ELSE LeftmostLeaf(T, Child(T[p], 1))

RECURSIVE HeightOf(_, _)
HeightOf(T, p) == IF T[p].leaf THEN 0 ELSE 1 + HeightOf(T, T[p].upper)

\* owned_page_ids
RECURSIVE OwnedPageIds(_, _)
OwnedPageIds(T, p) ==
    IF T[p].leaf THEN {p} ELSE {p} \cup UNION {OwnedPageIds(T, c) : c \in Children(T[p])}

RECURSIVE ChainFrom(_, _)
ChainFrom(T, p) == IF T[p].right = 0 THEN <<p>> ELSE <<p>> \o ChainFrom(T, T[p].right)

\* Log records are page images in the order they were appended.
Replay(T, log) == FoldLeft(LAMBDA S, rec : [S EXCEPT ![rec.pid] = rec.page], T, log)
================================================================================
