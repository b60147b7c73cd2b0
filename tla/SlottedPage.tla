------------------------------ MODULE SlottedPage ------------------------------
(***************************************************************************)
(* The slotted page (crates/storage/src/slotted_page.rs), the set of byte  *)
(* ranges a mutation reports (PageMutation of buffer_pool.rs), and the     *)
(* replica that replaying those ranges over the last full image yields.    *)
(*                                                                         *)
(* A page has PageSize cells.  A slot takes one cell, growing up from cell *)
(* 1; key and value bytes take one cell each, growing down from the end;   *)
(* the last Suffix cells are reserved for the links of the B-tree node.    *)
(* The header is kept apart, as cell 0.  Cells keep what was last written  *)
(* to them: dead bytes and slots beyond num_slots stay in memory, in the   *)
(* page and in its replica alike.                                          *)
(***************************************************************************)
EXTENDS Integers, Sequences, FiniteSets, SequencesExt, FiniteSetsExt

CONSTANTS
    PageSize, Suffix,
    HeadLen,        \* bytes of a key cached in its slot (4)
    FixedLen,       \* key length with a search of its own (8)
    MaxRanges,      \* PAGE_MUTATION_MAX_RANGES
    MaxOps,         \* operations of one mutation
    Pairs,          \* the keys and values of the calls: pairs of byte strings
    Links           \* contents of the reserved suffix

ASSUME PageAssumption == PageSize \in Nat /\ Suffix \in 0..PageSize /\ MaxRanges \in Nat \ {0}

VARIABLES
    page,           \* the latched page
    mutation,       \* ranges changed since the last log record of the page
    replica,        \* the page as the log reproduces it
    entries,        \* history: the map the page stands for
    ops             \* operations in the mutation

vars == <<page, mutation, replica, entries, ops>>

Cells == 1..PageSize
Keys == {e[1] : e \in Pairs}
Byte(b) == <<"byte", b>>
Zeros(n) == [i \in 1..n |-> 0]

-----------------------------------------------------------------------------
(* Reading *)

Slot(off, key, val, head) == <<"slot", off, key, val, head>>
OffsetOf(s) == s[2]
KeyLen(s) == s[3]
ValLen(s) == s[4]
HeadOf(s) == s[5]
DataLen(s) == KeyLen(s) + ValLen(s)

BytesAt(p, from, n) == [i \in 1..n |-> p.mem[from + i - 1][2]]
GetKey(p, i) == BytesAt(p, OffsetOf(p.mem[i]), KeyLen(p.mem[i]))
GetValue(p, i) == BytesAt(p, OffsetOf(p.mem[i]) + KeyLen(p.mem[i]), ValLen(p.mem[i]))
LinkOf(p) == BytesAt(p, PageSize - Suffix + 1, Suffix)

AtLeastZero(n) == IF n < 0 THEN 0 ELSE n
FreeSpace(p) == AtLeastZero(p.dataOffset - 1 - p.numSlots)
FreeSpaceAfterCompaction(p) == AtLeastZero(PageSize - p.numSlots - p.spaceUsed)
Needed(k, v) == 1 + Len(k) + Len(v)
CanInsert(p, k, v) ==
    FreeSpace(p) >= Needed(k, v) \/ FreeSpaceAfterCompaction(p) >= Needed(k, v)

\* The order of byte strings.
Less(a, b) ==
    \/ \E i \in 1..Len(a) : i <= Len(b) /\ a[i] < b[i] /\ SubSeq(a, 1, i - 1) = SubSeq(b, 1, i - 1)
    \/ IsStrictPrefix(a, b)
MakeHead(k) == SubSeq(k \o Zeros(HeadLen), 1, HeadLen)

\* Mutant: equal heads are taken for equal keys.
HalveByHeadAlone(p, i, k) ==
    IF Less(HeadOf(p.mem[i]), MakeHead(k)) THEN "less"
    ELSE IF Less(MakeHead(k), HeadOf(p.mem[i])) THEN "greater" ELSE "equal"
\* How slot i compares with k: by its cached head, then by its key.
CompareSlot(p, i, k) ==
    IF Less(HeadOf(p.mem[i]), MakeHead(k)) THEN "less"
    ELSE IF Less(MakeHead(k), HeadOf(p.mem[i])) THEN "greater"
    ELSE IF Less(GetKey(p, i), k) THEN "less"
    ELSE IF GetKey(p, i) = k THEN "equal" ELSE "greater"

\* Slots lo..hi-1 are left (counted from 0, as in the code).
RECURSIVE SearchGeneric(_, _, _, _)
SearchGeneric(p, k, lo, hi) ==
    IF lo >= hi THEN <<lo, FALSE>>
    ELSE LET mid == lo + ((hi - lo) \div 2)
             c   == CompareSlot(p, mid + 1, k)
         IN  CASE c = "less"    -> SearchGeneric(p, k, mid + 1, hi)
               [] c = "greater" -> SearchGeneric(p, k, lo, mid)
               [] OTHER         -> <<mid, TRUE>>
LowerBoundGeneric(p, k) == SearchGeneric(p, k, 0, p.numSlots)

\* Keys of FixedLen bytes compare as integers; any other key met on the way
\* starts the search over.
RECURSIVE SearchFixed(_, _, _, _)
SearchFixed(p, k, lo, hi) ==
    IF lo >= hi THEN <<lo, FALSE>>
    ELSE LET mid == lo + ((hi - lo) \div 2)
             key == GetKey(p, mid + 1)
         IN  IF Len(key) # FixedLen THEN LowerBoundGeneric(p, k)
             ELSE IF key = k THEN <<mid, TRUE>>
             ELSE IF Less(key, k) THEN SearchFixed(p, k, mid + 1, hi)
             ELSE SearchFixed(p, k, lo, mid)

LowerBound(p, k) ==
    IF Len(k) = FixedLen THEN SearchFixed(p, k, 0, p.numSlots) ELSE LowerBoundGeneric(p, k)

-----------------------------------------------------------------------------
(* Writing *)

Written(mem, from, bytes) ==
    [i \in Cells |-> IF i \in from..(from + Len(bytes) - 1) THEN Byte(bytes[i - from + 1])
                     ELSE mem[i]]

\* init and reserve_suffix
FreshPage ==
    [numSlots |-> 0, dataOffset |-> PageSize + 1 - Suffix, spaceUsed |-> Suffix,
     garbage |-> FALSE, mem |-> [i \in Cells |-> Byte(0)]]

\* The bytes of the first n slots.
RECURSIVE DataOfFirst(_, _)
DataOfFirst(p, n) == IF n = 0 THEN 0 ELSE DataLen(p.mem[n]) + DataOfFirst(p, n - 1)
LiveData(p) == DataOfFirst(p, p.numSlots)
\* Where compaction puts the data of slot i.
PackedOffset(p, i) == PageSize + 1 - (p.spaceUsed - LiveData(p)) - DataOfFirst(p, i)

\* Mutant: the offsets are rewritten and the data is not moved.
CompactifyMisplaced(p) ==
    IF p.numSlots = 0
    THEN [p EXCEPT !.dataOffset = PageSize + 1 - p.spaceUsed, !.garbage = FALSE]
    ELSE [p EXCEPT !.garbage = FALSE, !.dataOffset = PackedOffset(p, p.numSlots),
                   !.mem = [c \in Cells |->
                      IF c <= p.numSlots
                      THEN Slot(PackedOffset(p, c), KeyLen(p.mem[c]), ValLen(p.mem[c]), HeadOf(p.mem[c]))
                      ELSE p.mem[c]]]
Compactify(p) ==
    IF p.numSlots = 0
    THEN [p EXCEPT !.dataOffset = PageSize + 1 - p.spaceUsed, !.garbage = FALSE]
    ELSE LET at   == [i \in 1..p.numSlots |-> PackedOffset(p, i)]
             Owner(c) == {i \in 1..p.numSlots : c \in at[i]..(at[i] + DataLen(p.mem[i]) - 1)}
             Moved(c, i) == p.mem[OffsetOf(p.mem[i]) + c - at[i]]
         IN  [p EXCEPT !.garbage = FALSE, !.dataOffset = at[p.numSlots],
                       !.mem = [c \in Cells |->
                          IF c <= p.numSlots
                          THEN Slot(at[c], KeyLen(p.mem[c]), ValLen(p.mem[c]), HeadOf(p.mem[c]))
                          ELSE IF Owner(c) = {} THEN p.mem[c]
                          ELSE Moved(c, CHOOSE i \in Owner(c) : TRUE)]]

\* insert at position pos (from 0); compacts when the gap is too small.
Insert(p, pos, k, v) ==
    LET q   == IF FreeSpace(p) < Needed(k, v) THEN Compactify(p) ELSE p
        off == q.dataOffset - Len(k) - Len(v)
        mem == Written(q.mem, off, k \o v)
    IN  [q EXCEPT !.numSlots = @ + 1, !.dataOffset = off,
                  !.spaceUsed = @ + Len(k) + Len(v),
                  !.mem = [i \in Cells |->
                     CASE i = pos + 1 -> Slot(off, Len(k), Len(v), MakeHead(k))
                       [] i > pos + 1 /\ i <= q.numSlots + 1 -> mem[i - 1]
                       [] OTHER -> mem[i]]]

\* Mutant: the bytes of the entry are given back to the gap.
RemoveGivingBack(p, pos) ==
    [p EXCEPT !.numSlots = @ - 1, !.garbage = TRUE,
              !.spaceUsed = @ - DataLen(p.mem[pos + 1]),
              !.dataOffset = @ + DataLen(p.mem[pos + 1]),
              !.mem = [i \in Cells |-> IF i > pos /\ i < p.numSlots THEN p.mem[i + 1] ELSE p.mem[i]]]
RemoveAtSlot(p, pos) ==
    [p EXCEPT !.numSlots = @ - 1, !.garbage = TRUE,
              !.spaceUsed = @ - DataLen(p.mem[pos + 1]),
              !.mem = [i \in Cells |-> IF i > pos /\ i < p.numSlots THEN p.mem[i + 1] ELSE p.mem[i]]]

Truncate(p, n) ==
    IF n = p.numSlots THEN p
    ELSE Compactify([p EXCEPT !.numSlots = n, !.garbage = TRUE,
                              !.spaceUsed = @ - (LiveData(p) - DataOfFirst(p, n))])

\* copy_key_value_range of slots from..to into a fresh page
CopyRange(p, from, to) ==
    FoldLeft(LAMBDA q, i : Insert(q, q.numSlots, GetKey(p, i), GetValue(p, i)),
             FreshPage, [i \in 1..(to - from + 1) |-> from + i - 1])

-----------------------------------------------------------------------------
(* Changed ranges: half-open intervals of cells, the header being cell 0 *)

NoMutation == [ranges |-> <<>>, full |-> FALSE]

\* Ranges that touch the new one are merged with it; one range too many
\* selects a full image.
AddRange(m, s, e) ==
    IF m.full \/ s >= e THEN m
    ELSE LET n     == Len(m.ranges)
             first == 1 + Cardinality({i \in 1..n : m.ranges[i][2] < s})
             met   == {i \in first..n : m.ranges[i][1] <= e}
         IN  IF met # {}
             THEN LET lo == Min({s} \cup {m.ranges[i][1] : i \in met})
                      hi == Max({e} \cup {m.ranges[i][2] : i \in met})
                  IN  [m EXCEPT !.ranges = SubSeq(@, 1, first - 1) \o << <<lo, hi>> >>
                                           \o SubSeq(@, Max(met) + 1, n)]
             ELSE IF n = MaxRanges THEN [ranges |-> <<>>, full |-> TRUE]
             ELSE [m EXCEPT !.ranges = InsertAt(@, first, <<s, e>>)]

WholePage(m) == AddRange(m, 0, PageSize + 1)

\* Mutant: compaction reports the shifted slots only.
InsertWithMutationUncompacted(p, m, pos, k, v) ==
    LET q == Insert(p, pos, k, v)
    IN  [page |-> q,
         mutation |-> AddRange(AddRange(AddRange(m, 0, 1), pos + 1, p.numSlots + 2),
                               q.dataOffset, q.dataOffset + Len(k) + Len(v))]
InsertWithMutation(p, m, pos, k, v) ==
    LET q         == Insert(p, pos, k, v)
        compacted == FreeSpace(p) < Needed(k, v)
        first     == IF compacted THEN 1 ELSE pos + 1
        dataEnd   == IF compacted THEN PageSize + 1 ELSE q.dataOffset + Len(k) + Len(v)
    IN  [page |-> q,
         mutation |-> AddRange(AddRange(AddRange(m, 0, 1), first, p.numSlots + 2),
                               q.dataOffset, dataEnd)]

RemoveWithMutation(p, m, pos) ==
    [page |-> RemoveAtSlot(p, pos),
     mutation |-> AddRange(AddRange(m, 0, 1), pos + 1, p.numSlots)]

InRanges(m, c) == m.full \/ \E i \in 1..Len(m.ranges) : m.ranges[i][1] <= c /\ c < m.ranges[i][2]
\* What replay makes of copy r when the ranges of m are logged from page p.
Patched(r, p, m) ==
    [(IF InRanges(m, 0) THEN p ELSE r) EXCEPT
        !.mem = [c \in Cells |-> IF InRanges(m, c) THEN p.mem[c] ELSE r.mem[c]]]

-----------------------------------------------------------------------------
(* The operations of a B-tree node on its page *)

Init ==
    /\ page = FreshPage /\ replica = FreshPage
    /\ mutation = NoMutation /\ ops = 0 /\ entries = <<>>

\* The history keeps the entries in key order.
Position(k) == 1 + Cardinality({i \in 1..Len(entries) : Less(entries[i][1], k)})

Change(p, m) == page' = p /\ mutation' = m /\ ops' = ops + 1 /\ UNCHANGED replica

\* leaf_insert_bound: the last key is tried before the search.
LeafInsertBound(p, k) ==
    LET n == p.numSlots
    IN  IF n = 0 THEN <<0, FALSE>>
        ELSE IF Less(GetKey(p, n), k) THEN <<n, FALSE>>
        ELSE IF GetKey(p, n) = k THEN <<n - 1, TRUE>> ELSE LowerBound(p, k)

\* insert_entry of a key that is not there
InsertEntry(k, v) ==
    /\ ops < MaxOps
    /\ LET b == LeafInsertBound(page, k)
       IN  /\ ~b[2] /\ CanInsert(page, k, v)
           /\ LET r == InsertWithMutation(page, mutation, b[1], k, v)
              IN  Change(r.page, r.mutation)
    /\ entries' = InsertAt(entries, Position(k), <<k, v>>)

\* try_upsert_leaf of a key that is there
UpdateEntry(k, v) ==
    /\ ops < MaxOps
    /\ LET b   == LeafInsertBound(page, k)
           s   == page.mem[b[1] + 1]
           at  == OffsetOf(s) + KeyLen(s)
       IN  /\ b[2]
           /\ IF ValLen(s) = Len(v)
              THEN Change([page EXCEPT !.mem = Written(@, at, v)],
                          AddRange(mutation, at, at + Len(v)))
              ELSE /\ FreeSpaceAfterCompaction(page) + DataLen(s) >= Len(k) + Len(v)
                   /\ LET d == RemoveWithMutation(page, mutation, b[1])
                          r == InsertWithMutation(d.page, d.mutation, b[1], k, v)
                      IN  Change(r.page, r.mutation)
    /\ entries' = [entries EXCEPT ![Position(k)] = <<k, v>>]

RemoveSlot(k) ==
    /\ ops < MaxOps
    /\ LET b == LowerBound(page, k)
       IN  /\ b[2]
           /\ LET r == RemoveWithMutation(page, mutation, b[1]) IN Change(r.page, r.mutation)
    /\ entries' = RemoveAt(entries, Position(k))

\* set_left_pid, set_upper: the reserved suffix
SetLink(link) ==
    /\ ops < MaxOps /\ link # LinkOf(page)
    /\ Change([page EXCEPT !.mem = Written(@, PageSize - Suffix + 1, link)],
              AddRange(mutation, PageSize - Suffix + 1, PageSize + 1))
    /\ UNCHANGED entries

\* A split rebuilds the page from the slots it keeps and replaces it whole.
KeepRange(from, to) ==
    /\ ops < MaxOps /\ from <= to /\ to <= page.numSlots
    /\ LET q == CopyRange(page, from, to)
       IN  Change([q EXCEPT !.mem = Written(@, PageSize - Suffix + 1, LinkOf(page))],
                  WholePage(mutation))
    /\ entries' = SubSeq(entries, from, to)

TruncatePage(n) ==
    /\ ops < MaxOps /\ n < page.numSlots
    /\ Change(Truncate(page, n), WholePage(mutation))
    /\ entries' = SubSeq(entries, 1, n)

\* finish_mutation: one log record for the whole mutation, none if it is empty.
FinishMutation ==
    /\ ops > 0
    /\ replica' = Patched(replica, page, mutation)
    /\ mutation' = NoMutation /\ ops' = 0
    /\ UNCHANGED <<page, entries>>

Next ==
    \/ \E e \in Pairs : InsertEntry(e[1], e[2])
    \/ \E e \in Pairs : UpdateEntry(e[1], e[2])
    \/ \E k \in Keys : RemoveSlot(k)
    \/ \E link \in Links : SetLink(link)
    \/ \E from, to \in 1..page.numSlots : KeepRange(from, to)
    \/ \E n \in 0..page.numSlots : TruncatePage(n)
    \/ FinishMutation

Spec == Init /\ [][Next]_vars

-----------------------------------------------------------------------------
(* Properties *)

\* The slot array and the data heap do not meet, and space_used counts the
\* live bytes and the suffix.  The bytes of two entries never share a cell, and
\* none is in the slot array, in the gap or in the reserved suffix; so
\* compaction finds the room that can_insert promises.
LiveDataIsApart ==
    LET Owned(i) == OffsetOf(page.mem[i])..(OffsetOf(page.mem[i]) + DataLen(page.mem[i]) - 1)
    IN  /\ page.numSlots + 1 <= page.dataOffset /\ page.dataOffset <= PageSize + 1 - Suffix
        /\ page.spaceUsed = Suffix + LiveData(page)
        /\ \A i \in 1..page.numSlots :
            /\ Owned(i) \subseteq page.dataOffset..(PageSize - Suffix)
            /\ \A j \in 1..page.numSlots : i # j => Owned(i) \cap Owned(j) = {}

\* Whatever was inserted, overwritten, removed, split off and compacted, the
\* slots are exactly the entries of the map in key order.
PageHoldsTheMap ==
    /\ page.numSlots = Len(entries)
    /\ \A i \in 1..page.numSlots : <<GetKey(page, i), GetValue(page, i)>> = entries[i]

\* Both searches, with cached heads and over keys of mixed lengths, find the
\* first slot whose key is not less.
LowerBoundIsExact ==
    \A k \in Keys :
        LowerBound(page, k) = <<Position(k) - 1, \E i \in 1..Len(entries) : entries[i][1] = k>>

\* The ranges of a mutation are ordered and apart, as the patch encoding
\* requires: a range that starts before the end of the previous one is refused.
RangesAreNormal ==
    /\ Len(mutation.ranges) <= MaxRanges
    /\ \A i \in 1..Len(mutation.ranges) : mutation.ranges[i][1] < mutation.ranges[i][2]
    /\ \A i \in 1..(Len(mutation.ranges) - 1) : mutation.ranges[i][2] < mutation.ranges[i + 1][1]

\* At every point of a mutation, however many operations and compactions it
\* has had, its ranges are normal and logging them over the last logged page
\* reproduces the page to the byte.
PatchReproducesThePage == RangesAreNormal /\ Patched(replica, page, mutation) = page
================================================================================
