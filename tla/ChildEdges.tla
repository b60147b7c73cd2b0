------------------------------- MODULE ChildEdges ------------------------------
(***************************************************************************)
(* The edges of inner nodes: swizzled while the child leaf is resident,    *)
(* unswizzled when it is evicted, and copied from page to page when the    *)
(* tree is restructured (crates/btree/src/btree.rs and node.rs over        *)
(* crates/storage/src/buffer_pool.rs and buffer_frame.rs).                 *)
(*                                                                         *)
(* An edge is a pair <<page, frame>>: HOT(frame), or EVICTED(page) when    *)
(* frame is NoFrame.  The page of a HOT edge is what the edge stands for;  *)
(* the code cannot see it and neither do the actions.  Nothing stores COOL *)
(* edges.  Inner index pages are never eviction candidates, so an inner    *)
(* node is its page and has a latch; leaves move between frames.  The tree *)
(* is a root over leaves, or over the inner nodes `kids'.  A frame's       *)
(* ParentLink is "None", "Unswizzled" or the hinted parent; the slot of    *)
(* the hint only decides where the search of the parent starts.            *)
(*                                                                         *)
(* A fix or an allocation that finds no free frame evicts one itself: `e'  *)
(* is where a thread is in pop_free_frame and in try_evict_one.  Evictions *)
(* are single evictions and leaves are clean (dirty pages, batches and the *)
(* resident budget: BufferPool).  An optimistic snapshot of a node is lost *)
(* when the node is latched exclusively.                                   *)
(***************************************************************************)
EXTENDS Integers, FiniteSets, Sequences, SequencesExt

CONSTANTS
    Threads,
    Frames, Pages, Inner, Root,
    NoFrame, NoPage, NoNode, NoThread,
    MinEdges,         \* an inner node with fewer is underfull
    StallLimit,       \* FRAME_CAPACITY_STALL_LIMIT
    MaxVisits,        \* MAX_EVICTION_UNSWIZZLE_VISITS
    MaxRestarts,      \* MAX_EVICTION_UNSWIZZLE_RESTARTS
    Modes             \* the instances, chosen in Init: the threads, the tree, the
                      \* frames, the edges of a full inner node (cap), the structural
                      \* changes (ops), whether descents chase right, and whether they
                      \* end with the last structural change

ASSUME EdgesAssumption ==
    /\ Root \in Inner /\ NoNode \notin Inner /\ NoFrame \notin Frames
    /\ NoPage \notin Pages /\ NoThread \notin Threads
    /\ MinEdges \in Nat /\ StallLimit \in Nat /\ MaxVisits \in Nat /\ MaxRestarts \in Nat
    /\ \A m \in Modes : /\ m.threads \subseteq Threads /\ m.frames \subseteq Frames
                        /\ m.ops \in Seq({"split", "merge"}) /\ m.cap \in Nat \ {0, 1}
                        /\ m.leaves \in [Inner -> Seq(Pages)]

VARIABLES
    mode,
    frame,        \* each frame's header
    latch,        \* the exclusive holder of each leaf frame's latch
    table,        \* page_table
    free,         \* free_list
    edges,        \* the child edges in each inner page
    kids,         \* the children of the root that are inner nodes
    nlatch,       \* the exclusive holder of each inner page's latch
    snap,         \* the nodes of each thread's unbroken optimistic snapshots: its
                  \* descent's, and that of its walk for an evicted leaf's parent
    readers,      \* threads inside the hot-pin fence (eviction_mu.read)
    pending,      \* threads that want eviction_mu.write
    ops,          \* structural changes to come
    d,            \* each thread's place in its descent and the locals
    e,            \* each thread's place in pop_free_frame and the locals
    lost          \* a load has stored its pin count over another thread's pin

vars == <<mode, frame, latch, table, free, edges, kids, nlatch, snap, readers, pending,
          ops, d, e, lost>>
pool == <<frame, latch, table, free>>
tree == <<edges, kids, nlatch>>
fence == <<readers, pending>>

FrameStates == {"Free", "Loading", "Resident", "Evicting"}
Nobody == [pc |-> "idle", node |-> NoNode, word |-> <<NoPage, NoFrame>>, frame |-> NoFrame,
           popped |-> FALSE, prev |-> NoFrame, right |-> <<NoPage, NoFrame>>, inner |-> NoNode]
\* Not in pop_free_frame, or between two of its rounds.
Waiting == [pc |-> "idle", rounds |-> 0, pass |-> 1, tried |-> {}, frame |-> NoFrame,
            page |-> NoPage, node |-> NoNode, stack |-> <<>>, visits |-> 0, restarts |-> 0]

Init ==
    /\ mode \in Modes
    /\ frame = [f \in Frames |-> [state |-> "Free", pid |-> NoPage, pins |-> 0, link |-> "None",
                                  ref |-> FALSE]]
    /\ latch = [f \in Frames |-> NoThread]
    /\ table = [p \in Pages |-> NoFrame] /\ free = mode.frames
    /\ edges = [n \in Inner |-> [i \in DOMAIN mode.leaves[n] |-> <<mode.leaves[n][i], NoFrame>>]]
    /\ kids = mode.kids
    /\ nlatch = [n \in Inner |-> NoThread]
    /\ snap = [t \in Threads |-> [descent |-> NoNode, walk |-> NoNode]]
    /\ readers = {} /\ pending = {} /\ ops = mode.ops
    /\ d = [t \in Threads |-> Nobody] /\ e = [t \in Threads |-> Waiting]
    /\ lost = FALSE

-----------------------------------------------------------------------------
(* Words *)

Hot(w) == w[2] # NoFrame
EvictedWord(p) == <<p, NoFrame>>
HotWord(p, f) == <<p, f>>

\* swip_page_id, and the conversion of a page that is copied or written: the
\* id of the page in the frame that a HOT word names.
PageOf(w) == IF Hot(w) THEN frame[w[2]].pid ELSE w[1]
Converted(words) == [i \in DOMAIN words |-> EvictedWord(PageOf(words[i]))]

\* The words that name this child: as the evictor's fast path, ChildRef and
\* the tree walk match them.
MatchesHot(w, f) == w[2] = f
MatchesChild(w, f, p) == IF Hot(w) THEN w[2] = f ELSE w[1] = p
EdgeFor(words, f, p) == {i \in DOMAIN words : MatchesChild(words[i], f, p)}
HotEdgeFor(words, f) == {i \in DOMAIN words : MatchesHot(words[i], f)}

\* The nodes of the tree; a new right half is one before it is linked.
Live == {Root} \cup ToSet(kids) \cup ({d[t].inner : t \in Threads} \ {NoNode})
InnerCap == mode.cap
\* Pages and nodes that no structural change has used yet.
FreshPages == {p \in Pages : /\ table[p] = NoFrame
                             /\ \A n \in Inner : \A i \in DOMAIN edges[n] : edges[n][i][1] # p}
FreshNodes == {n \in Inner \ Live : edges[n] = <<>>}
\* Frames, pages and nodes not in use are alike: any of them will do.
AnyOf(S) == CHOOSE x \in S : TRUE

-----------------------------------------------------------------------------
(* Latches, pins and the fence *)

\* Optimistic snapshots of the nodes in S end.
Bump(S) == snap' = [t \in Threads |-> [of \in {"descent", "walk"} |->
                        IF snap[t][of] \in S THEN NoNode ELSE snap[t][of]]]
SnapshotHolds(t) == snap[t].descent # NoNode

FenceOpen == pending = {}
Pinned(fr, f) == [fr EXCEPT ![f].pins = @ + 1]
Unpinned(fr, f) == [fr EXCEPT ![f].pins = @ - 1]
Referenced(fr, f) == [fr EXCEPT ![f].ref = TRUE]

At(t, pc) == d[t].pc = pc
Goto(t, pc) == d' = [d EXCEPT ![t].pc = pc]
Restart(t) == d' = [d EXCEPT ![t] = Nobody]

\* refresh_inner_child_parent_links: the resident, unlatched children of a
\* node get the new hint, the others keep theirs.
Refreshed(fr, n, words) ==
    [f \in Frames |->
        IF /\ HotEdgeFor(words, f) # {} /\ fr[f].state = "Resident" /\ latch[f] = NoThread
        THEN [fr[f] EXCEPT !.link = n] ELSE fr[f]]

-----------------------------------------------------------------------------
(* Descents *)

\* From the root to the inner node above the leaf: validated before it is used.
\* Bound: nothing new is begun once a pin has been lost, or after the last
\* structural change of a mode that ends with it.
Stopped == lost \/ (mode.ends /\ ops = <<>>)
Descend(t) ==
    /\ At(t, "idle") /\ t \in mode.threads /\ nlatch[Root] = NoThread /\ ~Stopped
    /\ \E n \in IF kids = <<>> THEN {Root} ELSE ToSet(kids) :
         d' = [d EXCEPT ![t].pc = "node", ![t].node = n]
    /\ UNCHANGED <<mode, pool, tree, snap, fence, ops, e, lost>>

\* route_to_child under an optimistic guard.  A root that has become a leaf is
\* the end of the descent.
RouteToChild(t) ==
    LET n == d[t].node IN
    /\ At(t, "node")
    /\ IF nlatch[n] # NoThread \/ (n = Root /\ kids # <<>>) \/ edges[n] = <<>>
       THEN Restart(t) /\ UNCHANGED snap
       ELSE \E i \in DOMAIN edges[n] :
              /\ d' = [d EXCEPT ![t].pc = IF Hot(edges[n][i]) THEN "pin" ELSE "find",
                                ![t].word = edges[n][i], ![t].frame = edges[n][i][2]]
              /\ snap' = [snap EXCEPT ![t].descent = n]
    /\ UNCHANGED <<mode, pool, tree, fence, ops, e, lost>>

\* pin_hot_or_cool_child_swip: the pin is taken first and given back if the
\* frame is not resident; the page in the frame is not looked at.
PinChild(t) ==
    /\ At(t, "pin") /\ FenceOpen
    /\ readers' = readers \cup {t}
    /\ frame' = Pinned(frame, d[t].frame)
    /\ Goto(t, "confirm")
    /\ UNCHANGED <<mode, latch, table, free, tree, snap, pending, ops, e, lost>>

ConfirmPin(t) ==
    LET f == d[t].frame IN
    /\ At(t, "confirm")
    /\ readers' = readers \ {t}
    /\ IF frame[f].state = "Resident"
       THEN Goto(t, "validate") /\ UNCHANGED frame
       ELSE Goto(t, "retry") /\ frame' = Unpinned(frame, f)
    /\ UNCHANGED <<mode, latch, table, free, tree, snap, pending, ops, e, lost>>

\* A frame that is Loading is waited for; one that is Evicting is retried
\* (a single evictor keeps its latch, so it cannot be rescued).
RetryPin(t) ==
    LET s == frame[d[t].frame].state IN
    /\ At(t, "retry") /\ s # "Loading"
    /\ IF s = "Free" THEN Restart(t) ELSE Goto(t, "pin")
    /\ UNCHANGED <<mode, pool, tree, snap, fence, ops, e, lost>>

-----------------------------------------------------------------------------
(* fix_orphan_raw: the page is found in the table or loaded *)

Want(t) == d[t].word[1]
\* A frame popped from the free list is pushed back when it is not used.
GiveBack(t) == IF d[t].popped THEN free \cup {d[t].frame} ELSE free
FindAgain(t) ==
    /\ free' = GiveBack(t)
    /\ d' = [d EXCEPT ![t].pc = "find", ![t].popped = FALSE, ![t].frame = NoFrame]

FindFrame(t) ==
    /\ At(t, "find")
    /\ d' = IF table[Want(t)] # NoFrame
            THEN [d EXCEPT ![t].pc = "look", ![t].frame = table[Want(t)]]
            ELSE [d EXCEPT ![t].pc = "pop"]
    /\ UNCHANGED <<mode, pool, tree, snap, fence, ops, e, lost>>

\* pop_free_frame, in a round that finds a free frame.
PopFrame(t) ==
    /\ At(t, "pop") /\ e[t].pc = "idle" /\ free # {}
    /\ free' = free \ {AnyOf(free)}
    /\ d' = [d EXCEPT ![t].pc = "look", ![t].frame = AnyOf(free), ![t].popped = TRUE]
    /\ e' = [e EXCEPT ![t] = Waiting]
    /\ UNCHANGED <<mode, frame, latch, table, tree, snap, fence, ops, lost>>

LookAtFrame(t) ==
    LET fr == frame[d[t].frame] IN
    /\ At(t, "look") /\ fr.state # "Loading"
    /\ IF fr.state = "Evicting" THEN FindAgain(t)
       ELSE /\ Goto(t, IF fr.state = "Resident" /\ fr.pid = Want(t) THEN "orphan pin" ELSE "latch")
            /\ UNCHANGED free
    /\ UNCHANGED <<mode, frame, latch, table, tree, snap, fence, ops, e, lost>>

PinOrphan(t) ==
    /\ At(t, "orphan pin") /\ FenceOpen
    /\ readers' = readers \cup {t}
    /\ frame' = Pinned(frame, d[t].frame)
    /\ Goto(t, "orphan confirm")
    /\ UNCHANGED <<mode, latch, table, free, tree, snap, pending, ops, e, lost>>

\* A descent through a sibling link (prev) has no parent edge to validate.
HavePin(t) == IF d[t].prev = NoFrame THEN "validate" ELSE "arrive"

ConfirmOrphan(t) ==
    LET f == d[t].frame IN
    /\ At(t, "orphan confirm")
    /\ readers' = readers \ {t}
    /\ IF frame[f].state = "Resident" /\ frame[f].pid = Want(t)
       THEN Goto(t, HavePin(t)) /\ frame' = Referenced(frame, f)
       ELSE Goto(t, "latch") /\ frame' = Unpinned(frame, f)
    /\ UNCHANGED <<mode, latch, table, free, tree, snap, pending, ops, e, lost>>

\* Under the frame's exclusive latch: pin it, claim it for loading, or retry.
ClaimFrame(t) ==
    LET f == d[t].frame
        p == Want(t)
    IN
    /\ At(t, "latch") /\ latch[f] = NoThread /\ FenceOpen
    /\ \/ /\ frame[f].state = "Resident" /\ frame[f].pid = p
          /\ frame' = Referenced(Pinned(frame, f), f) /\ Goto(t, HavePin(t))
          /\ UNCHANGED <<table, free>>
       \/ /\ d[t].popped /\ table[p] = NoFrame
          /\ table' = [table EXCEPT ![p] = f]
          /\ frame' = [frame EXCEPT ![f].state = "Loading", ![f].pid = p, ![f].link = "None",
                                      ![f].ref = TRUE]
          /\ d' = [d EXCEPT ![t].pc = "load", ![t].popped = FALSE]
          /\ UNCHANGED free
       \/ /\ ~(frame[f].state = "Resident" /\ frame[f].pid = p)
          /\ ~(d[t].popped /\ table[p] = NoFrame)
          /\ FindAgain(t) /\ UNCHANGED <<frame, table>>
    /\ UNCHANGED <<mode, latch, tree, snap, fence, ops, e, lost>>

\* Mutant: the loaded frame is not pinned for its loader.
LoadPageUnpinned(t) ==
    /\ At(t, "load")
    /\ frame' = [frame EXCEPT ![d[t].frame] =
                    [state |-> "Resident", pid |-> Want(t), pins |-> 0, link |-> "Unswizzled",
                     ref |-> TRUE]]
    /\ Goto(t, HavePin(t))
    /\ UNCHANGED <<mode, latch, table, free, tree, snap, fence, ops, e, lost>>

\* The pin count of a loaded frame is stored, not incremented.
LoadPage(t) ==
    /\ At(t, "load")
    /\ frame' = [frame EXCEPT ![d[t].frame] =
                    [state |-> "Resident", pid |-> Want(t), pins |-> 1, link |-> "Unswizzled",
                     ref |-> TRUE]]
    /\ lost' = (lost \/ frame[d[t].frame].pins # 0)
    /\ Goto(t, HavePin(t))
    /\ UNCHANGED <<mode, latch, table, free, tree, snap, fence, ops, e>>

-----------------------------------------------------------------------------
(* The parent is validated, and the edge of a loaded child made HOT *)

ValidateParent(t) ==
    /\ At(t, "validate")
    /\ IF SnapshotHolds(t)
       THEN Goto(t, IF Hot(d[t].word) THEN "leaf" ELSE "publish") /\ UNCHANGED <<frame, snap>>
       ELSE Restart(t) /\ frame' = Unpinned(frame, d[t].frame) /\ UNCHANGED snap
    /\ UNCHANGED <<mode, latch, table, free, tree, fence, ops, e, lost>>

\* Mutant: the child's link is left as the load installed it.
PublishUnlinked(t) ==
    LET n == d[t].node
        f == d[t].frame
    IN
    /\ At(t, "publish") /\ Goto(t, "leaf")
    /\ IF latch[f] = NoThread /\ SnapshotHolds(t)
       THEN /\ edges' = [edges EXCEPT ![n] = [i \in DOMAIN @ |->
                            IF @[i] = d[t].word THEN HotWord(Want(t), f) ELSE @[i]]]
            /\ Bump({n}) /\ UNCHANGED frame
       ELSE UNCHANGED <<frame, edges, snap>>
    /\ UNCHANGED <<mode, latch, table, free, kids, nlatch, fence, ops, e, lost>>

\* try_publish_loaded_child: both latches are tried, never waited for, and the
\* edge is the one that was read because the snapshot still holds.
Publish(t) ==
    LET n == d[t].node
        f == d[t].frame
    IN
    /\ At(t, "publish") /\ Goto(t, "leaf")
    /\ IF latch[f] = NoThread /\ SnapshotHolds(t)
       THEN /\ edges' = [edges EXCEPT ![n] = [i \in DOMAIN @ |->
                            IF @[i] = d[t].word THEN HotWord(Want(t), f) ELSE @[i]]]
            /\ frame' = [frame EXCEPT ![f].link = n]
            /\ Bump({n})
       ELSE UNCHANGED <<frame, edges, snap>>
    /\ UNCHANGED <<mode, latch, table, free, kids, nlatch, fence, ops, e, lost>>

\* A sibling was reached: the leaf before it is let go.
Arrive(t) ==
    /\ At(t, "arrive")
    /\ frame' = Unpinned(frame, d[t].prev)
    /\ d' = [d EXCEPT ![t].pc = "leaf", ![t].prev = NoFrame]
    /\ UNCHANGED <<mode, latch, table, free, tree, snap, fence, ops, e, lost>>

-----------------------------------------------------------------------------
(* At the leaf *)

\* The leaf's latch is taken, or the descent restarts from the root.
LatchLeaf(t) ==
    LET f == d[t].frame IN
    /\ At(t, "leaf")
    /\ IF latch[f] = NoThread
       THEN /\ latch' = [latch EXCEPT ![f] = t] /\ Goto(t, "latched")
            /\ UNCHANGED frame
       ELSE Restart(t) /\ frame' = Unpinned(frame, f) /\ UNCHANGED latch
    /\ snap' = [snap EXCEPT ![t].descent = NoNode]
    /\ UNCHANGED <<mode, table, free, tree, fence, ops, e, lost>>

\* should_chase_right: the right sibling is fixed by its page id while this
\* leaf stays pinned.
ChaseRight(t) ==
    /\ At(t, "leaf") /\ mode.chase
    /\ \E n \in Live : \E i \in 1..(Len(edges[n]) - 1) :
         /\ edges[n][i][1] = frame[d[t].frame].pid
         /\ d' = [d EXCEPT ![t] = [Nobody EXCEPT !.pc = "find", !.prev = d[t].frame,
                                      !.word = EvictedWord(edges[n][i + 1][1])]]
    /\ snap' = [snap EXCEPT ![t].descent = NoNode]
    /\ UNCHANGED <<mode, pool, tree, fence, ops, e, lost>>

LeaveLeaf(t) ==
    LET f == d[t].frame IN
    /\ At(t, "latched")
    /\ latch' = [latch EXCEPT ![f] = NoThread]
    /\ frame' = Unpinned(frame, f)
    /\ Restart(t)
    /\ UNCHANGED <<mode, table, free, tree, snap, fence, ops, e, lost>>

-----------------------------------------------------------------------------
(* Splits: the caller holds the structural lock from the allocation of the  *)
(* new page on, pins both halves and latches neither while it publishes     *)

Structural == {t \in Threads : d[t].pc \in {"allocate", "sibling", "split", "link inner",
                                            "hint left", "hint right", "merge", "merge inner"}}

\* A full (or underfull) leaf: its latch is dropped and its pin kept.
WantChange(t) ==
    /\ At(t, "latched") /\ ops # <<>> /\ d[t].node # NoNode
    /\ Goto(t, IF Head(ops) = "split" THEN "want split" ELSE "want merge")
    /\ ops' = Tail(ops)
    /\ latch' = [latch EXCEPT ![d[t].frame] = NoThread]
    /\ UNCHANGED <<mode, frame, table, free, tree, snap, fence, e, lost>>

\* The structural lock is taken; the leaf, looked at again, is still full.
BeginSplit(t) ==
    /\ At(t, "want split") /\ Structural = {} /\ latch[d[t].frame] = NoThread
    /\ Goto(t, "allocate")
    /\ UNCHANGED <<mode, pool, tree, snap, fence, ops, e, lost>>

\* allocate_unlinked, in a round of pop_free_frame that finds a free frame.
AllocateSibling(t) ==
    /\ At(t, "allocate") /\ e[t].pc = "idle" /\ free # {}
    /\ LET f == AnyOf(free)
           p == AnyOf(FreshPages)
       IN
         /\ latch[f] = NoThread
         /\ free' = free \ {f}
         /\ frame' = [frame EXCEPT ![f] =
                        [state |-> "Resident", pid |-> p, pins |-> 1, link |-> "None",
                         ref |-> TRUE]]
         /\ lost' = (lost \/ frame[f].pins # 0)
         /\ table' = [table EXCEPT ![p] = f]
         /\ d' = [d EXCEPT ![t].pc = "sibling", ![t].right = HotWord(p, f)]
         /\ e' = [e EXCEPT ![t] = Waiting]
    /\ UNCHANGED <<mode, latch, tree, snap, fence, ops>>

\* The leaf was changed or is latched: abort_unpublished_unlinked_frame.  The
\* frame's pin is dropped after the push, but before its latch, for which the
\* next loader waits.  A second pin, by a descent with the word of the page that
\* was in the frame, fails the assertion; the page keeps its frame.
GiveUpSplit(t) ==
    LET r == d[t].right
        kept == Unpinned(Unpinned(frame, d[t].frame), r[2])
    IN
    /\ At(t, "sibling") /\ latch[r[2]] = NoThread
    /\ IF frame[r[2]].pins = 1
       THEN /\ frame' = [kept EXCEPT ![r[2]].state = "Free", ![r[2]].ref = FALSE]
            /\ table' = [table EXCEPT ![r[1]] = NoFrame]
            /\ free' = free \cup {r[2]}
            /\ Restart(t)
       ELSE /\ frame' = kept /\ UNCHANGED <<table, free>>
            /\ d' = [d EXCEPT ![t] = [Nobody EXCEPT !.pc = "panic"]]
    /\ UNCHANGED <<mode, latch, tree, snap, fence, ops, e, lost>>

\* The leaf is found again from the root and divided under its latch, which
\* is dropped before the parent is looked for.
SplitLeaf(t) ==
    /\ At(t, "sibling") /\ latch[d[t].frame] = NoThread
    /\ Goto(t, "split")
    /\ UNCHANGED <<mode, pool, tree, snap, fence, ops, e, lost>>

\* The left half's page and its edge in the tree: the searches of
\* publish_leaf_split_to_parent.
LeftPage(t) == frame[d[t].frame].pid
IsParent(n, t) == EdgeFor(edges[n], d[t].frame, LeftPage(t)) # {}

\* apply_split_to_latched_parent: both edges become HOT.
PublishSplit(t) ==
    /\ At(t, "split")
    /\ \E n \in Live : \E i \in EdgeFor(edges[n], d[t].frame, LeftPage(t)) :
         /\ nlatch[n] = NoThread /\ Len(edges[n]) < InnerCap
         /\ edges' = [edges EXCEPT ![n] =
                        InsertAt([@ EXCEPT ![i] = HotWord(LeftPage(t), d[t].frame)],
                                 i + 1, d[t].right)]
         /\ d' = [d EXCEPT ![t].pc = "hint left", ![t].node = n]
         /\ Bump({n})
    /\ UNCHANGED <<mode, pool, kids, nlatch, fence, ops, e, lost>>

\* install_split_parent_hints, one child at a time.
HintLeft(t) ==
    /\ At(t, "hint left") /\ latch[d[t].frame] = NoThread
    /\ frame' = [frame EXCEPT ![d[t].frame].link = d[t].node]
    /\ Goto(t, "hint right")
    /\ UNCHANGED <<mode, latch, table, free, tree, snap, fence, ops, e, lost>>

HintRight(t) ==
    LET r == d[t].right[2] IN
    /\ At(t, "hint right") /\ latch[r] = NoThread
    /\ frame' = Unpinned(Unpinned([frame EXCEPT ![r].link = d[t].node], r), d[t].frame)
    /\ Restart(t)
    /\ UNCHANGED <<mode, latch, table, free, tree, snap, fence, ops, e, lost>>

\* split_stable_root: the two new nodes get page ids, the root two children.
SplitRoot(t) ==
    LET half == Len(edges[Root]) \div 2
        copy == Converted(edges[Root])
    IN
    /\ At(t, "split") /\ IsParent(Root, t)
    /\ nlatch[Root] = NoThread /\ Len(edges[Root]) >= InnerCap
    /\ LET a == AnyOf(FreshNodes)
           b == AnyOf(FreshNodes \ {a})
       IN
         /\ edges' = [edges EXCEPT ![Root] = <<>>,
                                   ![a] = SubSeq(copy, 1, half),
                                   ![b] = SubSeq(copy, half + 1, Len(copy))]
         /\ kids' = <<a, b>>
    /\ Bump({Root})
    /\ UNCHANGED <<mode, pool, nlatch, fence, ops, d, e, lost>>

\* Mutant: the child left of the promoted separator stays in both halves.
SplitInnerOverlapping(t) ==
    /\ At(t, "split") /\ FenceOpen
    /\ \E n \in Live \ {Root} :
         LET m    == AnyOf(FreshNodes)
             half == Len(edges[n]) \div 2
             low  == SubSeq(edges[n], 1, half)
             high == SubSeq(edges[n], half, Len(edges[n]))
         IN  /\ IsParent(n, t) /\ nlatch[n] = NoThread /\ Len(edges[n]) >= InnerCap
             /\ edges' = [edges EXCEPT ![n] = low, ![m] = high]
             /\ frame' = Refreshed(Refreshed(frame, n, low), m, high)
             /\ d' = [d EXCEPT ![t].pc = "link inner", ![t].node = n, ![t].inner = m]
             /\ Bump({n})
    /\ UNCHANGED <<mode, latch, table, free, kids, nlatch, fence, ops, e, lost>>

\* The split of a full inner node: the words move to the new node as they are
\* and the children that can be latched get their new hint.
SplitInner(t) ==
    /\ At(t, "split") /\ FenceOpen
    /\ \E n \in Live \ {Root} :
         LET m    == AnyOf(FreshNodes)
             half == Len(edges[n]) \div 2
             low  == SubSeq(edges[n], 1, half)
             high == SubSeq(edges[n], half + 1, Len(edges[n]))
         IN  /\ IsParent(n, t) /\ nlatch[n] = NoThread /\ Len(edges[n]) >= InnerCap
             /\ edges' = [edges EXCEPT ![n] = low, ![m] = high]
             /\ frame' = Refreshed(Refreshed(frame, n, low), m, high)
             /\ d' = [d EXCEPT ![t].pc = "link inner", ![t].node = n, ![t].inner = m]
             /\ Bump({n})
    /\ UNCHANGED <<mode, latch, table, free, kids, nlatch, fence, ops, e, lost>>

LinkInner(t) ==
    /\ At(t, "link inner") /\ nlatch[Root] = NoThread
    /\ \E i \in DOMAIN kids : /\ kids[i] = d[t].node
                              /\ kids' = InsertAt(kids, i + 1, d[t].inner)
    /\ d' = [d EXCEPT ![t].pc = "split", ![t].inner = NoNode]
    /\ Bump({Root})
    /\ UNCHANGED <<mode, pool, edges, nlatch, fence, ops, e, lost>>

-----------------------------------------------------------------------------
(* Merges: leaf, parent and sibling are latched *)

BeginMerge(t) ==
    LET f == d[t].frame IN
    /\ At(t, "want merge") /\ Structural = {} /\ latch[f] = NoThread
    /\ latch' = [latch EXCEPT ![f] = t]
    /\ Goto(t, "merge")
    /\ UNCHANGED <<mode, frame, table, free, tree, snap, fence, ops, e, lost>>

\* The frames in which try_pin_exclusive_resident_child can find or load the
\* sibling behind word w.
SiblingFrames(w) ==
    {f \in IF Hot(w) THEN {w[2]} ELSE IF table[w[1]] # NoFrame THEN {table[w[1]]}
          ELSE IF free = {} THEN {} ELSE {AnyOf(free)} :
        latch[f] = NoThread /\ frame[f].state \in {"Resident", "Free"}
                            /\ (Hot(w) => frame[f].state = "Resident")}
WithSibling(f, p) ==
    IF frame[f].state = "Resident" THEN frame
    ELSE [frame EXCEPT ![f] = [state |-> "Resident", pid |-> p, pins |-> 0,
                               link |-> "Unswizzled", ref |-> TRUE]]

\* unlink_merged_right_leaf and unlink_merged_left_leaf: edge i led to the
\* merged leaf, edge i + 1 to the removed one.
Unlinked(words, i, merged) ==
    RemoveAt(IF i + 1 = Len(words) THEN [words EXCEPT ![i] = merged] ELSE words, i + 1)

\* try_merge_leaf_with_path up to the merge of the parent: the right sibling
\* first, the left one if the pair on the right does not fit.  A root left with
\* one leaf becomes that leaf.
MergeLeaf(t) ==
    LET n == d[t].node
        f == d[t].frame
        p == frame[f].pid
        words == edges[n]
    IN
    /\ At(t, "merge") /\ nlatch[n] = NoThread /\ FenceOpen
    /\ \E i \in EdgeFor(words, f, p), step \in {1, -1} :
         /\ i + step \in DOMAIN words
         /\ (step = -1 /\ i < Len(words)) => SiblingFrames(words[i + 1]) # {}
         /\ \E s \in SiblingFrames(words[i + step]) :
              LET q == PageOf(words[i + step])
                  merged  == IF step = 1 THEN f ELSE s
                  removed == IF step = 1 THEN s ELSE f
                  at      == IF step = 1 THEN i ELSE i - 1
                  left    == Unlinked(words, at, HotWord(IF step = 1 THEN p ELSE q, merged))
                  collapses == n = Root /\ Len(left) = 1
              IN  /\ edges' = [edges EXCEPT ![n] = IF collapses THEN <<>> ELSE left]
                  /\ frame' = [Unpinned(WithSibling(s, q), f) EXCEPT
                                  ![merged].link = IF collapses THEN "None" ELSE n,
                                  ![removed].link = "None"]
                  /\ table' = [table EXCEPT ![q] = s] /\ free' = free \ {s}
                  /\ IF n # Root /\ Len(left) < MinEdges
                     THEN /\ nlatch' = [nlatch EXCEPT ![n] = t]
                          /\ d' = [d EXCEPT ![t] = [Nobody EXCEPT !.pc = "merge inner",
                                                                  !.node = n]]
                     ELSE Restart(t) /\ UNCHANGED nlatch
    /\ latch' = [latch EXCEPT ![f] = NoThread]
    /\ Bump({n})
    /\ UNCHANGED <<mode, kids, fence, ops, e, lost>>

\* No pair of siblings could be latched, or fits.
GiveUpMerge(t) ==
    /\ At(t, "merge") /\ nlatch[d[t].node] = NoThread
    /\ latch' = [latch EXCEPT ![d[t].frame] = NoThread]
    /\ frame' = Unpinned(frame, d[t].frame)
    /\ Bump({d[t].node})
    /\ Restart(t)
    /\ UNCHANGED <<mode, table, free, tree, fence, ops, e, lost>>

\* merge_inner_pages_into_left: the words are copied as they are and the
\* removed page keeps its own.  A root left with one child takes its content,
\* as page ids (collapse_empty_root_to_child).
MergeInner(t) ==
    LET n == d[t].node IN
    /\ At(t, "merge inner") /\ nlatch[Root] = NoThread /\ FenceOpen
    /\ \E i \in 1..(Len(kids) - 1) :
         LET l == kids[i]
             r == kids[i + 1]
             words == edges[l] \o edges[r]
         IN  /\ n \in {l, r} /\ Len(words) <= InnerCap
             /\ \A m \in {l, r} \ {n} : nlatch[m] = NoThread
             /\ frame' = Refreshed(frame, l, words)
             /\ IF Len(kids) = 2
                THEN /\ kids' = <<>>
                     /\ edges' = [edges EXCEPT ![l] = words, ![Root] = Converted(words)]
                ELSE /\ kids' = RemoveAt(kids, i + 1)
                     /\ edges' = [edges EXCEPT ![l] = words]
             /\ Bump({Root, l, r})
    /\ nlatch' = [nlatch EXCEPT ![n] = NoThread]
    /\ Restart(t)
    /\ UNCHANGED <<mode, latch, table, free, fence, ops, e, lost>>

GiveUpMergeInner(t) ==
    /\ At(t, "merge inner") /\ nlatch[Root] = NoThread
    /\ nlatch' = [nlatch EXCEPT ![d[t].node] = NoThread]
    /\ Bump({Root, d[t].node})
    /\ Restart(t)
    /\ UNCHANGED <<mode, pool, edges, kids, fence, ops, e, lost>>

-----------------------------------------------------------------------------
(* pop_free_frame: rounds of evictions until a frame is free *)

Popping(t) == d[t].pc \in {"pop", "allocate"} /\ e[t].pc = "idle"
EAt(t, pc) == e[t].pc = pc
EGoto(t, pc) == e' = [e EXCEPT ![t].pc = pc]

\* Permits: from before the frame is marked until it is free or Resident again.
EvictionBudget == IF Cardinality(mode.frames) < 8 THEN 1 ELSE Cardinality(mode.frames) \div 4
InFlight ==
    {t \in Threads : e[t].pc \in {"recheck", "unswizzle", "search", "visit", "upgrade", "free",
                                  "drain"}}

\* panic_pool_exhausted: the unwinding thread drops its pins and the structural
\* lock, and is gone.
Exhausted(t) ==
    LET kept == IF At(t, "pop") THEN d[t].prev ELSE d[t].frame IN
    /\ frame' = IF kept = NoFrame THEN frame ELSE Unpinned(frame, kept)
    /\ d' = [d EXCEPT ![t] = [Nobody EXCEPT !.pc = "panic"]]
    /\ e' = [e EXCEPT ![t] = Waiting]

\* A round of pop_free_frame that finds the free list empty.
Stall(t) ==
    LET rounds == e[t].rounds + 1
        next   == IF Cardinality(InFlight) >= EvictionBudget THEN "idle" ELSE "scan"
    IN
    /\ Popping(t) /\ free = {}
    /\ IF rounds >= StallLimit THEN Exhausted(t)
       ELSE /\ e' = [e EXCEPT ![t] = [Waiting EXCEPT !.rounds = rounds, !.pc = next]]
            /\ UNCHANGED <<frame, d>>
    /\ UNCHANGED <<mode, latch, table, free, tree, snap, fence, ops, lost>>

-----------------------------------------------------------------------------
(* try_evict_one: two passes over the frames with the parent hints alone, and *)
(* one with parent discovery                                                  *)

Evictable(f) == frame[f].state = "Resident" /\ latch[f] = NoThread /\ frame[f].pins = 0
Untried(t) == mode.frames \ e[t].tried
EvictionRoundDone(t) == e' = [e EXCEPT ![t] = [Waiting EXCEPT !.rounds = e[t].rounds]]

NextPass(t) ==
    /\ EAt(t, "scan") /\ Untried(t) = {}
    /\ IF e[t].pass = 3 THEN EvictionRoundDone(t)
       ELSE e' = [e EXCEPT ![t].pass = @ + 1, ![t].tried = {}]
    /\ UNCHANGED <<mode, pool, tree, snap, fence, ops, d, lost>>

\* Mutant: the second chance is given without being taken back.
LatchCandidateAlwaysReferenced(t) ==
    /\ EAt(t, "scan")
    /\ \E f \in Untried(t) :
         IF Evictable(f) /\ ~frame[f].ref
         THEN /\ latch' = [latch EXCEPT ![f] = t]
              /\ e' = [e EXCEPT ![t].pc = "mark", ![t].frame = f, ![t].page = frame[f].pid,
                                ![t].tried = @ \cup {f}]
         ELSE UNCHANGED latch /\ e' = [e EXCEPT ![t].tried = @ \cup {f}]
    /\ UNCHANGED <<mode, frame, table, free, tree, snap, fence, ops, d, lost>>

\* with_single_evict_candidate: each frame once, from the clock hand on.  The
\* latch is tried, the pins are looked at, a referenced frame is passed over.
LatchCandidate(t) ==
    /\ EAt(t, "scan")
    /\ \E f \in Untried(t) :
         /\ IF Evictable(f) /\ ~frame[f].ref
            THEN /\ latch' = [latch EXCEPT ![f] = t]
                 /\ e' = [e EXCEPT ![t].pc = "mark", ![t].frame = f, ![t].page = frame[f].pid,
                                   ![t].tried = @ \cup {f}]
            ELSE UNCHANGED latch /\ e' = [e EXCEPT ![t].tried = @ \cup {f}]
         /\ frame' = IF Evictable(f) THEN [frame EXCEPT ![f].ref = FALSE] ELSE frame
    /\ UNCHANGED <<mode, table, free, tree, snap, fence, ops, d, lost>>

\* On to the next candidate.
Skip(t) ==
    /\ latch' = [latch EXCEPT ![e[t].frame] = NoThread]
    /\ e' = [e EXCEPT ![t].pc = "scan", ![t].frame = NoFrame, ![t].page = NoPage,
                      ![t].node = NoNode, ![t].stack = <<>>, ![t].visits = 0, ![t].restarts = 0]
    /\ UNCHANGED <<table, free>>

\* try_acquire_eviction_permit, then the mark.
MarkEvicting(t) ==
    /\ EAt(t, "mark")
    /\ IF Cardinality(InFlight) >= EvictionBudget THEN Skip(t) /\ UNCHANGED frame
       ELSE /\ frame' = [frame EXCEPT ![e[t].frame].state = "Evicting"]
            /\ EGoto(t, "recheck")
            /\ UNCHANGED <<latch, table, free>>
    /\ UNCHANGED <<mode, tree, snap, fence, ops, d, lost>>

\* revert_frame_to_resident
Revert(t) == frame' = [frame EXCEPT ![e[t].frame].state = "Resident"] /\ Skip(t)

RecheckPins(t) ==
    /\ EAt(t, "recheck")
    /\ IF frame[e[t].frame].pins # 0 THEN Revert(t) ELSE EGoto(t, "unswizzle") /\ UNCHANGED pool
    /\ UNCHANGED <<mode, tree, snap, fence, ops, d, lost>>

\* unswizzle_parent_child_at, in a node whose latch is held for the write.
WriteEvicted(n, f, p) ==
    /\ edges' = [edges EXCEPT ![n] = [i \in DOMAIN @ |->
                    IF MatchesChild(@[i], f, p) THEN EvictedWord(p) ELSE @[i]]]
    /\ Bump({n})

\* The walk is left to the last pass.
Discover(t) ==
    /\ IF e[t].pass = 3
       THEN e' = [e EXCEPT ![t].pc = "search", ![t].stack = <<Root>>] /\ UNCHANGED pool
       ELSE Revert(t)
    /\ UNCHANGED <<edges, snap>>

\* unswizzle_parent_link by the kind of link: with a hint the parent's latch is
\* tried, and its edges are searched for the child (BTree does not override the
\* finder's own use of the hint, which answers None).
UnswizzleParent(t) ==
    LET f == e[t].frame
        link == frame[f].link
    IN
    /\ EAt(t, "unswizzle")
    /\ \/ link = "Unswizzled" /\ EGoto(t, "free") /\ UNCHANGED <<pool, edges, snap>>
       \/ link = "None" /\ Discover(t)
       \/ /\ link \in Inner
          /\ IF nlatch[link] # NoThread THEN Revert(t) /\ UNCHANGED <<edges, snap>>
             ELSE IF EdgeFor(edges[link], f, e[t].page) # {}
             THEN WriteEvicted(link, f, e[t].page) /\ EGoto(t, "free") /\ UNCHANGED pool
             ELSE Discover(t)
    /\ UNCHANGED <<mode, kids, nlatch, fence, ops, d, lost>>

\* eviction_unswizzle: the next node of the walk is opened optimistically, a
\* latched one is passed over; the walk is bounded.  (The leaves it pins in
\* passing are left out.)
Search(t) ==
    LET n == Head(e[t].stack) IN
    /\ EAt(t, "search")
    /\ IF \/ e[t].stack = <<>> \/ e[t].visits >= MaxVisits
          \/ e[t].restarts > MaxRestarts
       THEN Revert(t) /\ snap' = [snap EXCEPT ![t].walk = NoNode]
       ELSE /\ IF nlatch[n] # NoThread
               THEN e' = [e EXCEPT ![t].stack = Tail(@), ![t].visits = @ + 1] /\ UNCHANGED snap
               ELSE /\ e' = [e EXCEPT ![t].pc = "visit", ![t].node = n, ![t].stack = Tail(@),
                                      ![t].visits = @ + 1]
                    /\ snap' = [snap EXCEPT ![t].walk = n]
            /\ UNCHANGED pool
    /\ UNCHANGED <<mode, tree, fence, ops, d, lost>>

\* The node is validated: the walk starts again from the root if it changed,
\* ends here if an edge leads to the child, and goes on to its children.
Visit(t) ==
    LET n == e[t].node
        next == IF snap[t].walk = NoNode
                THEN [e[t] EXCEPT !.pc = "search", !.stack = <<Root>>, !.restarts = @ + 1]
                ELSE IF EdgeFor(edges[n], e[t].frame, e[t].page) # {}
                THEN [e[t] EXCEPT !.pc = "upgrade"]
                ELSE [e[t] EXCEPT !.pc = "search", !.stack = IF n = Root THEN kids \o @ ELSE @]
    IN
    /\ EAt(t, "visit")
    /\ e' = [e EXCEPT ![t] = next]
    /\ UNCHANGED <<mode, pool, tree, snap, fence, ops, d, lost>>

\* upgrade_to_exclusive waits for the parent's latch and fails if the snapshot
\* is broken.
UpgradeParent(t) ==
    /\ EAt(t, "upgrade") /\ nlatch[e[t].node] = NoThread
    /\ IF snap[t].walk # NoNode
       THEN WriteEvicted(e[t].node, e[t].frame, e[t].page) /\ EGoto(t, "free") /\ UNCHANGED pool
       ELSE Revert(t) /\ UNCHANGED <<edges, snap>>
    /\ UNCHANGED <<mode, kids, nlatch, fence, ops, d, lost>>

\* No new hot pin from here on.
CloseFence(t) ==
    /\ EAt(t, "free")
    /\ pending' = pending \cup {t}
    /\ EGoto(t, "drain")
    /\ UNCHANGED <<mode, pool, tree, snap, readers, ops, d, lost>>

\* can_free_evicting_frame and free_evicting_frame, with eviction_mu written.
FreeFrame(t) ==
    LET f == e[t].frame IN
    /\ EAt(t, "drain") /\ readers = {}
    /\ pending' = pending \ {t}
    /\ IF frame[f].pins # 0 THEN Revert(t)
       ELSE /\ frame' = [frame EXCEPT ![f].state = "Free", ![f].link = "None"]
            /\ table' = [table EXCEPT ![frame[f].pid] = NoFrame]
            /\ free' = free \cup {f}
            /\ latch' = [latch EXCEPT ![f] = NoThread]
            /\ EvictionRoundDone(t)
    /\ UNCHANGED <<mode, tree, snap, readers, ops, d, lost>>

-----------------------------------------------------------------------------
Descent(t) ==
    \/ Descend(t) \/ RouteToChild(t) \/ PinChild(t) \/ ConfirmPin(t) \/ RetryPin(t)
    \/ FindFrame(t) \/ PopFrame(t) \/ LookAtFrame(t) \/ PinOrphan(t) \/ ConfirmOrphan(t)
    \/ ClaimFrame(t) \/ LoadPage(t) \/ ValidateParent(t) \/ Publish(t) \/ Arrive(t)
    \/ LatchLeaf(t) \/ ChaseRight(t) \/ LeaveLeaf(t)
Restructuring(t) ==
    \/ WantChange(t) \/ BeginSplit(t) \/ AllocateSibling(t) \/ GiveUpSplit(t) \/ SplitLeaf(t)
    \/ PublishSplit(t) \/ HintLeft(t) \/ HintRight(t) \/ SplitRoot(t) \/ SplitInner(t)
    \/ LinkInner(t)
    \/ BeginMerge(t) \/ MergeLeaf(t) \/ GiveUpMerge(t) \/ MergeInner(t) \/ GiveUpMergeInner(t)
Eviction(t) ==
    \/ Stall(t) \/ NextPass(t) \/ LatchCandidate(t) \/ MarkEvicting(t) \/ RecheckPins(t)
    \/ UnswizzleParent(t) \/ Search(t) \/ Visit(t) \/ UpgradeParent(t) \/ CloseFence(t)
    \/ FreeFrame(t)

\* Every thread has panicked, or the bound of Descend is met.
Over ==
    /\ \A t \in mode.threads : At(t, "panic") \/ lost \/ (At(t, "idle") /\ Stopped)
    /\ UNCHANGED vars

Next ==
    \/ \E t \in Threads : Descent(t)
    \/ \E t \in Threads : Restructuring(t)
    \/ \E t \in Threads : Eviction(t)
    \/ Over

Spec == Init /\ [][Next]_vars

\* A thread goes on with the descent, structural change or eviction it is in; a
\* frame's latch and the fence are eventually fair to a waiter.
Finish(t) == d[t].pc # "idle" /\ (Descent(t) \/ Restructuring(t) \/ Eviction(t))
FairSpec == Spec /\ \A t \in Threads : WF_vars(Finish(t)) /\ SF_vars(ClaimFrame(t))

-----------------------------------------------------------------------------
(* Properties *)

Words == (Pages \cup {NoPage}) \X (Frames \cup {NoFrame})
TypeOK ==
    /\ frame \in [Frames -> [state : FrameStates,
                             pid : Pages \cup {NoPage}, pins : 0..(Cardinality(Threads) + 1),
                             link : {"None", "Unswizzled"} \cup Inner, ref : BOOLEAN]]
    /\ latch \in [Frames -> Threads \cup {NoThread}]
    /\ table \in [Pages -> Frames \cup {NoFrame}] /\ free \subseteq mode.frames
    /\ \A n \in Inner : Len(edges[n]) <= InnerCap /\ ToSet(edges[n]) \subseteq Words
    /\ ToSet(kids) \subseteq Inner \ {Root} /\ nlatch \in [Inner -> Threads \cup {NoThread}]
    /\ snap \in [Threads -> [descent : Inner \cup {NoNode}, walk : Inner \cup {NoNode}]]
    /\ readers \subseteq Threads /\ pending \subseteq Threads /\ IsSuffix(ops, mode.ops)

\* A HOT edge of the tree leads to its page: the frame it names holds that page
\* until the edge has been rewritten, whatever was published, evicted or copied
\* (pin_hot_or_cool_child_swip does not compare page ids).  A frame that
\* eviction may free without touching a parent, because its link says that no
\* edge is swizzled, is behind no HOT edge unless it is still pinned.
HotChildIsResident ==
    ~lost => \A n \in Live : \A i \in DOMAIN edges[n] :
        LET w == edges[n][i] IN
        Hot(w) => /\ frame[w[2]].state \in {"Resident", "Evicting"}
                  /\ frame[w[2]].pid = w[1] /\ table[w[1]] = w[2]
                  /\ frame[w[2]].link = "Unswizzled" => frame[w[2]].pins > 0

\* A descent that passed its validation stands on the page it was routed to,
\* and that page stays in its frame while the descent uses it.
DescentReachesItsPage ==
    ~lost => \A t \in Threads :
        d[t].pc \in {"publish", "leaf", "latched", "arrive"} =>
            /\ frame[d[t].frame].state # "Free" /\ frame[d[t].frame].pid = Want(t)
            /\ frame[d[t].frame].pins > 0

\* Writing an inner page back at any moment stores the ids of its children:
\* convert_hot_swips_to_evicted finds in each frame the page the edge means,
\* and no leaf has two edges in the tree.
WritebackKeepsTheTree ==
    LET slots == UNION {{<<n, i>> : i \in DOMAIN edges[n]} : n \in Live}
        pages == {edges[s[1]][s[2]][1] : s \in slots}
    IN  ~lost =>
        /\ \A s \in slots : PageOf(edges[s[1]][s[2]]) = edges[s[1]][s[2]][1]
        /\ Cardinality(pages) = Cardinality(slots)

\* A blocking fix returns: a thread that finds no free frame evicts a leaf, with
\* the parent's hint or by the walk, before the stall limit ends it in a panic,
\* or the page's own frame settles.  Only another thread can make the rounds run
\* out (pop_free_frame counts the rounds in which others hold the frames), and
\* only one that goes on evicting can make fix_orphan_raw retry for ever.
EveryFixReturns ==
    \A t \in Threads :
        d[t].pc \in {"find", "pop", "look", "orphan pin", "orphan confirm", "latch", "load"} ~>
            \/ d[t].pc \in {"validate", "arrive"} \/ lost
            \/ d[t].pc = "panic" /\ mode.threads # {t}
            \/ \E u \in mode.threads \ {t} : e[u].pc = "drain"
================================================================================
