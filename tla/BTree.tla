--------------------------------- MODULE BTree ---------------------------------
(***************************************************************************)
(* The concurrent B+tree of crates/btree/src/btree.rs.  Threads insert,    *)
(* upsert, remove, look up and scan.  One step is one section under a page *)
(* latch, or one validated optimistic read of a page: a descent holds no   *)
(* latch from one page to the next, a split releases the node before its   *)
(* neighbour and its parent are updated, and a remove releases the leaf    *)
(* before it rebalances.  The structural lock serialises splits and merges *)
(* but neither leaf writes nor separator repairs.                          *)
(*                                                                         *)
(* A failed validation restarts a descent at the root; a thread that does  *)
(* not move until the page is stable again reaches the same states, so     *)
(* only the restarts that change the outcome are steps.  Residency is the  *)
(* subject of BufferPool and ChildEdges: here a child may simply fail to   *)
(* be pinned (ChildIsMissed).                                              *)
(*                                                                         *)
(* Every page rewrite appends its image to the write-ahead log; a strict   *)
(* store flushes the log before an operation returns.  Crash keeps any     *)
(* prefix of what was appended since.                                      *)
(***************************************************************************)
EXTENDS BTreeNode

CONSTANTS
    Threads,
    Keys,           \* a set 1..K; 0 is the empty key that starts a scan
    PageIds,        \* 1..N; page 1 is the root, which never moves
    MaxTries,       \* WRITE_BLOCKING_FALLBACK_THRESHOLD: restarts before a
                    \* descent uses the latched fallback
    Workloads,      \* what the threads do: see Init
    Nobody

Root == 1
Inf == Cardinality(Keys) + 1    \* an unbounded scan limit

ASSUME KeysAssumption == Keys = 1..Cardinality(Keys) /\ PageIds = 1..Cardinality(PageIds)
ASSUME NobodyAssumption == Nobody \notin Threads

VARIABLES
    tree,       \* the nodes, by page id
    npages,     \* page ids handed out by the pool
    height,     \* BTree::height
    reachable,  \* BTree::reachable_pages
    lock,       \* holder of structural_lock
    th,         \* local state of each thread
    todo,       \* operations each thread still has to call
    setup,      \* the operations that run, alone, before the threads start
    mode,       \* what the workload allows: see Init
    log,        \* page images appended since the last flush
    base,       \* the tree as of the last flush
    crashes,
    abs,        \* ghost: the map the callers should see (0: absent)
    seen        \* ghost: the values each key had while a thread's call ran

pageVars == <<tree, npages, height, reachable, log>>
callVars == <<todo, setup, mode, base, crashes>>
ghostVars == <<abs, seen>>
vars == <<pageVars, lock, th, callVars, ghostVars>>

NoOp == [kind |-> "none", key |-> 0, val |-> 0, hi |-> 0]
Idle == [pc |-> "idle", op |-> NoOp, cur |-> 0, path |-> <<>>, pub |-> <<>>,
         relink |-> <<>>, tries |-> 0, wasMax |-> FALSE, newMax |-> 0,
         start |-> 0, got |-> <<>>, res |-> 0]
NothingSeen == [k \in Keys |-> {}]

\* A workload: the calls made before the threads start, the calls of each
\* thread, whether a sibling's try-latch may fail (contend), whether the log
\* is followed so that the tree can be recovered (logged), how many crashes
\* may happen and how often a child cannot be pinned (misses).
Init ==
    /\ tree = [p \in PageIds |-> Leaf(<<>>, 0, 0)]
    /\ npages = 1 /\ height = 0 /\ reachable = 1
    /\ lock = Nobody /\ th = [t \in Threads |-> Idle]
    /\ \E w \in Workloads : /\ setup = w.setup /\ todo = w.todo
                            /\ mode = [contend |-> w.contend, logged |-> w.logged,
                                       crashes |-> w.crashes, misses |-> w.misses]
    /\ log = <<>> /\ base = tree /\ crashes = 0
    /\ abs = [k \in Keys |-> 0] /\ seen = [t \in Threads |-> NothingSeen]

-----------------------------------------------------------------------------
(* Helpers *)

Op(t) == th[t].op
Node(t) == tree[th[t].cur]
Rec(p, n) == [pid |-> p, page |-> n]
NoParentEdge(t) ==
    th[t].path # <<>> => ChildEdgeFor(tree[Last(th[t].path)], th[t].cur) = {}
EdgeOf(p, c) == CHOOSE e \in EdgeSet(tree[p]) : Child(tree[p], e) = c

\* Mutant: the images of one change are logged in the opposite order.
InstallReversed(recs) ==
    /\ tree' = Replay(tree, recs)
    /\ log' = IF mode.logged THEN log \o Reverse(recs) ELSE log

\* mark_dirty, mark_dirty_ranges and finish_mutation, in this order.
Install(recs) ==
    /\ tree' = Replay(tree, recs)
    /\ log' = IF mode.logged THEN log \o recs ELSE log

Goto(t, fields) == th' = [th EXCEPT ![t] = fields @@ @]
Finish(t, res) == Goto(t, [pc |-> "ret", res |-> res])
UnlockIfHeld(t) == lock' = IF lock = t THEN Nobody ELSE lock
Panic(t) == Goto(t, [pc |-> "panic"]) /\ UnlockIfHeld(t)
RestartFromRoot(t, pc) ==
    Goto(t, [pc |-> pc, cur |-> Root, path |-> <<>>,
                tries |-> IF th[t].tries < MaxTries THEN th[t].tries + 1 ELSE MaxTries])

\* The moment a call takes effect.
Effect(k, v) ==
    /\ abs' = [abs EXCEPT ![k] = v]
    /\ seen' = [u \in Threads |-> IF th[u].pc = "idle" THEN seen[u]
                                  ELSE [seen[u] EXCEPT ![k] = @ \cup {v}]]
NoEffect == UNCHANGED ghostVars
NoPageChange == UNCHANGED pageVars

\* One level of a descent: the child that key k is routed to.
Descend(t, k) == ~Node(t).leaf /\ Goto(t, [cur |-> RouteToChild(Node(t), k)])

\* A leaf whose keys are all below k is passed.
MoveRight(t, k) ==
    /\ Node(t).leaf /\ ShouldChaseRight(Node(t), k)
    /\ Goto(t, [cur |-> Node(t).right])

\* An inner merge keeps the parent of the leaf merge latched.
IsLatched(t, p) == \E u \in Threads \ {t} : th[u].pc = "mergeInner" /\ th[u].cur = p
MayRead(t) == ~IsLatched(t, th[t].cur)

\* A child whose frame is being evicted or loaded, or whose page is not resident
\* and finds no frame at once, cannot be pinned without waiting.
ChildIsMissed(t) ==
    /\ mode.misses > 0 /\ ~Node(t).leaf /\ MayRead(t)
    /\ mode' = [mode EXCEPT !.misses = @ - 1]
    /\ UNCHANGED <<pageVars, todo, setup, base, crashes, ghostVars>>

\* A descent that misses a child starts again; under the structural lock the
\* whole call does.
DescentRestarts(t) ==
    /\ th[t].pc \in {"write", "splitPath", "remove", "scan"} /\ ChildIsMissed(t)
    /\ RestartFromRoot(t, IF th[t].pc = "splitPath" THEN "write" ELSE th[t].pc)
    /\ UnlockIfHeld(t)

FirstPc(kind) ==
    CASE kind \in {"insert", "upsert"} -> "write"
      [] kind = "remove" -> "remove"
      [] kind = "lookup" -> "lookup"
      [] kind = "scan"   -> "scan"
      [] kind = "asc"    -> "ascFind"
      [] kind = "desc"   -> "descFind"

Call(t, o) ==
    /\ th[t].pc = "idle"
    /\ Goto(t, [pc |-> FirstPc(o.kind), op |-> o, cur |-> Root,
                start |-> IF o.kind = "desc" THEN o.hi ELSE o.key])
    /\ seen' = [seen EXCEPT ![t] = [k \in Keys |-> {abs[k]}]]
    /\ UNCHANGED <<pageVars, lock, mode, base, crashes, abs>>

Setup(t) ==
    /\ setup # <<>> /\ \A u \in Threads : th[u].pc = "idle"
    /\ t = CHOOSE u \in Threads : TRUE
    /\ Call(t, Head(setup)) /\ setup' = Tail(setup) /\ UNCHANGED todo

Begin(t) ==
    /\ setup = <<>> /\ todo[t] # <<>>
    /\ Call(t, Head(todo[t])) /\ todo' = [todo EXCEPT ![t] = Tail(@)]
    /\ UNCHANGED setup

\* The call returns; a strict store has flushed the log.
Return(t) ==
    /\ th[t].pc = "ret"
    /\ th' = [th EXCEPT ![t] = Idle]
    /\ seen' = [seen EXCEPT ![t] = NothingSeen]
    /\ base' = IF mode.logged THEN tree ELSE base
    /\ log' = <<>>
    /\ UNCHANGED <<tree, npages, height, reachable, lock, todo, setup, mode, crashes, abs>>

-----------------------------------------------------------------------------
(* insert, upsert *)

WriteAction(t) == LeafAction(Node(t), Op(t).kind = "upsert", Op(t).key, Op(t).val)

\* One page of find_leaf_exclusive*: an inner node, or a leaf to be passed.
FindLeafExclusive(t) ==
    /\ th[t].pc = "write" /\ MayRead(t)
    /\ Descend(t, Op(t).key) \/ MoveRight(t, Op(t).key)
    /\ UNCHANGED <<pageVars, lock, callVars, ghostVars>>

\* The write succeeded, or found the key: the call returns.
WriteLeaf(t) ==
    /\ WriteAction(t) # "split"
    /\ IF WriteAction(t) = "exists" THEN UNCHANGED <<tree, log>> /\ NoEffect
       ELSE /\ Install(<<Rec(th[t].cur, WriteEntry(Node(t), Op(t).key, Op(t).val))>>)
            /\ Effect(Op(t).key, Op(t).val)
    /\ Finish(t, IF WriteAction(t) = "inserted" THEN 1 ELSE 0)
    /\ UnlockIfHeld(t)
    /\ UNCHANGED <<npages, height, reachable, callVars>>

AtLeaf(t) == Node(t).leaf /\ ~ShouldChaseRight(Node(t), Op(t).key)

TryWrite(t) ==
    /\ th[t].pc = "write" /\ MayRead(t) /\ AtLeaf(t)
    /\ \/ WriteLeaf(t)
       \/ /\ WriteAction(t) = "split" /\ Goto(t, [pc |-> "lockToSplit"])
          /\ UNCHANGED <<pageVars, lock, callVars, ghostVars>>

TakeStructuralLock(t) ==
    /\ lock = Nobody /\ th[t].pc \in {"lockToSplit", "lockToMerge"}
    /\ lock' = t
    /\ Goto(t, [pc |-> IF th[t].pc = "lockToSplit" THEN "recheck" ELSE "merge"])
    /\ UNCHANGED <<pageVars, callVars, ghostVars>>

\* The leaf that was full, latched again under the lock.
Recheck(t) ==
    /\ th[t].pc = "recheck" /\ MayRead(t)
    /\ \/ /\ ~AtLeaf(t) /\ lock' = Nobody /\ RestartFromRoot(t, "write")
          /\ UNCHANGED <<pageVars, callVars, ghostVars>>
       \/ AtLeaf(t) /\ WriteLeaf(t)
       \/ /\ AtLeaf(t) /\ WriteAction(t) = "split"
          /\ Goto(t, [pc |-> "splitPath", cur |-> Root])
          /\ UNCHANGED <<pageVars, lock, callVars, ghostVars>>

\* Mutant: the latched fallback is never used.
OptimisticForever(t) == th[t].tries <= MaxTries

\* find_leaf_exclusive_with_path takes an empty leaf that it should pass, and
\* restarts at any other; its fallback moves right.
Optimistic(t) == th[t].tries < MaxTries
TakesLeaf(t) ==
    /\ Node(t).leaf
    /\ ~ShouldChaseRight(Node(t), Op(t).key) \/ (Optimistic(t) /\ Node(t).ents = <<>>)

FindLeafWithPath(t) ==
    /\ th[t].pc = "splitPath" /\ MayRead(t) /\ ~TakesLeaf(t)
    /\ \/ Descend(t, Op(t).key) /\ UNCHANGED lock
       \/ /\ Node(t).leaf /\ Optimistic(t)
          /\ lock' = Nobody /\ RestartFromRoot(t, "write")
       \/ /\ Node(t).leaf /\ ~Optimistic(t) /\ Goto(t, [cur |-> Node(t).right])
          /\ UNCHANGED lock
    /\ UNCHANGED <<pageVars, callVars, ghostVars>>

WriteAfterPath(t) ==
    /\ th[t].pc = "splitPath" /\ MayRead(t) /\ TakesLeaf(t) /\ WriteLeaf(t)

-----------------------------------------------------------------------------
(* Splits: the caller holds the structural lock *)

\* Mutant: the old right neighbour is not linked back to the new leaf.
AfterSplitWithoutRelink(t, pub, relink, done) ==
    Goto(t, [pc |-> "relink", pub |-> pub, relink |-> <<0, relink[2]>>,
             res |-> IF done THEN 1 ELSE 0])
AfterSplit(t, pub, relink, done) ==
    Goto(t, [pc |-> "relink", pub |-> pub, relink |-> relink, res |-> IF done THEN 1 ELSE 0])

SplitEffect(t, done) == IF done THEN Effect(Op(t).key, Op(t).val) ELSE NoEffect

\* split_stable_root and split_single_entry_stable_root: both halves move to
\* new pages, and the root page is rewritten as their parent.
SplitStableRootLeaf(t, h) ==
    LET l == npages + 1
        r == npages + 2
    IN  /\ r \in PageIds /\ npages' = r
        /\ Install(<<Rec(l, Leaf(h.left, Node(t).left, r)),
                     Rec(r, Leaf(h.right, l, Node(t).right)),
                     Rec(Root, Inner(<< <<h.sep, l>> >>, r))>>)
        /\ height' = height + 1 /\ reachable' = reachable + 2
        /\ AfterSplit(t, <<>>, <<Node(t).right, r>>, h.done)

\* split_node and split_single_entry_leaf: the node keeps the lower half, a
\* new page gets the upper one and is logged first.
SplitLeafNode(t, h) ==
    LET r == npages + 1
    IN  /\ r \in PageIds /\ npages' = r
        /\ Install(<<Rec(r, Leaf(h.right, th[t].cur, Node(t).right)),
                     Rec(th[t].cur, Leaf(h.left, Node(t).left, r))>>)
        /\ reachable' = reachable + 1 /\ UNCHANGED height
        /\ AfterSplit(t, <<[sep |-> h.sep, left |-> th[t].cur, right |-> r]>>,
                      <<Node(t).right, r>>, h.done)

SplitLeaf(t) ==
    LET h == LeafHalves(Node(t), Op(t).key, Op(t).val)
    IN  /\ th[t].pc = "splitPath" /\ MayRead(t) /\ TakesLeaf(t)
        /\ WriteAction(t) = "split"
        /\ IF ~HalvesAreSound(Node(t), Op(t).key, h)
           THEN Panic(t) /\ NoPageChange /\ NoEffect
           ELSE /\ IF th[t].cur = Root THEN SplitStableRootLeaf(t, h) ELSE SplitLeafNode(t, h)
                /\ SplitEffect(t, h.done) /\ UNCHANGED lock
        /\ UNCHANGED callVars

\* The structural change is complete: the lock is dropped, and the call
\* returns or, when the pending entry was not installed, starts again.
SplitDone(t, pub) ==
    IF pub # <<>> THEN Goto(t, [pc |-> "publish", pub |-> pub, relink |-> <<>>]) /\ UNCHANGED lock
    ELSE /\ lock' = Nobody
         /\ IF Op(t).kind = "remove" \/ th[t].res = 1
            THEN Goto(t, [pc |-> "ret", res |-> 1, pub |-> pub, relink |-> <<>>])
            ELSE Goto(t, [pc |-> "write", cur |-> Root, pub |-> pub, relink |-> <<>>])

\* update_leaf_left_sibling
UpdateLeafLeftSibling(t) ==
    LET leaf == th[t].relink[1]
        left == th[t].relink[2]
    IN  /\ th[t].pc = "relink"
        /\ IF leaf = 0 THEN UNCHANGED <<tree, log>>
           ELSE Install(<<Rec(leaf, [tree[leaf] EXCEPT !.left = left])>>)
        /\ SplitDone(t, th[t].pub)
        /\ UNCHANGED <<npages, height, reachable, callVars, ghostVars>>

\* The pages a search by page identity finds to be a parent of p.
ParentsOf(p) == {q \in OwnedPageIds(tree, Root) : ChildEdgeFor(tree[q], p) # {}}

\* try_publish_leaf_split_via_*: the parent has room.
PublishSplit(t, p, f) ==
    /\ CanInsertSeparator(tree[p])
    /\ Install(<<Rec(p, WithSplit(tree[p], EdgeOf(p, f.left), f.sep, f.left, f.right))>>)
    /\ SplitDone(t, Tail(th[t].pub))
    /\ UNCHANGED <<npages, height, reachable>>

\* split_full_root_after_release
SplitFullRoot(t, p) ==
    LET h == InnerHalves(tree[p])
        l == npages + 1
        r == npages + 2
    IN  /\ ~CanInsertSeparator(tree[p]) /\ p = Root
        /\ r \in PageIds /\ npages' = r
        /\ Install(<<Rec(l, h.left), Rec(r, h.right), Rec(Root, Inner(<< <<h.sep, l>> >>, r))>>)
        /\ height' = height + 1 /\ reachable' = reachable + 2
        /\ UNCHANGED <<th, lock>>

\* split_full_inner_after_release: the parent's own split is published first.
SplitFullInner(t, p) ==
    LET h == InnerHalves(tree[p])
        r == npages + 1
    IN  /\ ~CanInsertSeparator(tree[p]) /\ p # Root
        /\ r \in PageIds /\ npages' = r
        /\ Install(<<Rec(r, h.right), Rec(p, h.left)>>)
        /\ reachable' = reachable + 1
        /\ Goto(t, [pub |-> <<[sep |-> h.sep, left |-> p, right |-> r]>> \o th[t].pub])
        /\ UNCHANGED <<height, lock>>

\* Searches that find no parent are repeated until the retry budget is used up.
Publish(t) ==
    /\ th[t].pc = "publish"
    /\ IF ParentsOf(Head(th[t].pub).left) = {} THEN Panic(t) /\ NoPageChange
       ELSE \E p \in ParentsOf(Head(th[t].pub).left) :
               /\ ~IsLatched(t, p)
               /\ \/ PublishSplit(t, p, Head(th[t].pub))
                  \/ SplitFullRoot(t, p)
                  \/ SplitFullInner(t, p)
    /\ UNCHANGED <<callVars, ghostVars>>

-----------------------------------------------------------------------------
(* remove *)

FindLeafToRemove(t) ==
    /\ th[t].pc = "remove" /\ MayRead(t) /\ ~TakesLeaf(t)
    /\ \/ ~Node(t).leaf /\ Goto(t, [cur |-> RouteToChild(Node(t), Op(t).key),
                                    path |-> Append(th[t].path, th[t].cur)])
       \/ Node(t).leaf /\ Optimistic(t) /\ RestartFromRoot(t, "remove")
       \/ Node(t).leaf /\ ~Optimistic(t) /\ Goto(t, [cur |-> Node(t).right])
    /\ UNCHANGED <<pageVars, lock, callVars, ghostVars>>

\* What is known of the leaf when its latch is released decides what follows.
RemoveFromLeaf(t) ==
    LET n == RemoveEntry(Node(t), Op(t).key)
        wasMax == MaxKey(Node(t)) = Op(t).key
    IN  /\ th[t].pc = "remove" /\ MayRead(t) /\ TakesLeaf(t)
        /\ IF ~Exact(Node(t), Op(t).key)
           THEN Finish(t, 0) /\ UNCHANGED <<tree, log>> /\ NoEffect
           ELSE /\ Install(<<Rec(th[t].cur, n)>>) /\ Effect(Op(t).key, 0)
                /\ IF ~IsUnderfull(n) /\ ~wasMax THEN Finish(t, 1)
                   ELSE Goto(t, [pc |-> IF IsUnderfull(n) THEN "lockToMerge" ELSE "repair",
                                 wasMax |-> wasMax,
                                 newMax |-> IF wasMax /\ n.ents # <<>> THEN MaxKey(n) ELSE 0])
        /\ UNCHANGED <<npages, height, reachable, lock, callVars>>

\* repair_separators_after_delete, one ancestor at a time; a merge that was
\* tried and failed has already taken the leaf's parent from the path.
RepairDone(t) == UnlockIfHeld(t) /\ Finish(t, 1)
RepairSeparators(t) ==
    /\ th[t].pc = "repair"
    /\ IF NoParentEdge(t) THEN RepairDone(t) /\ UNCHANGED <<tree, log>>
       ELSE LET p == Last(th[t].path)
                i == EdgeOf(p, th[t].cur)
            IN  /\ ~IsLatched(t, p)
                /\ IF i > Count(tree[p])
                   THEN /\ Goto(t, [cur |-> p, path |-> Front(th[t].path)])
                        /\ UNCHANGED <<tree, log, lock>>
                   ELSE /\ IF th[t].newMax \in {0, KeyAt(tree[p], i)} THEN UNCHANGED <<tree, log>>
                           ELSE Install(<<Rec(p, SetSeparatorKey(tree[p], i, th[t].newMax))>>)
                        /\ RepairDone(t)
    /\ UNCHANGED <<npages, height, reachable, callVars, ghostVars>>

-----------------------------------------------------------------------------
(* Merges: the caller holds the structural lock *)

LeavesMerge(l, r) == LeafPairIsMergeable(tree, l, r) /\ LeafPairFits(tree[l], tree[r])
InnersMerge(l, r) == InnerPairFits(tree[l], tree[r])

\* The pair of neighbouring edges <<i, i + 1>> of p over which the child c is
\* merged: with its right neighbour, or else with its left one, or not at all.
MergePair(p, c) ==
    LET Fits(l, r) == IF tree[l].leaf THEN LeavesMerge(l, r) ELSE InnersMerge(l, r)
        Merges(i) == i \in 1..Count(tree[p]) /\ Fits(Child(tree[p], i), Child(tree[p], i + 1))
        edge == EdgeOf(p, c)
    IN  {i \in {edge - 1, edge} : Merges(i) /\ (i # edge => ~Merges(edge))}

\* try_merge_leaf_with_path gave up: its parent is gone from the path.
MergeGaveUp(t) ==
    /\ IF th[t].wasMax THEN Goto(t, [pc |-> "repair", path |-> Front(th[t].path)])
                            /\ UNCHANGED lock
       ELSE Finish(t, 1) /\ UnlockIfHeld(t)
    /\ NoPageChange

\* Page l, on edge i of its parent p, takes over the page on the next edge; m
\* is the merged page.  A root left with one child becomes that child; any other parent that
\* is now underfull is merged in turn, and stays latched.
Merged(t, p, i, l, m, sep, relink) ==
    LET pn == UnlinkMerged(tree[p], i, l, sep)
        collapse == p = Root /\ Count(pn) = 0
    IN  /\ Install(<<Rec(l, m), Rec(p, IF collapse THEN m ELSE pn)>>)
        /\ height' = IF collapse THEN height - 1 ELSE height
        /\ reachable' = reachable - (IF collapse THEN 2 ELSE 1)
        /\ IF p # Root /\ IsUnderfull(pn)
           THEN Goto(t, [pc |-> "mergeInner", cur |-> p, path |-> Front(th[t].path), relink |-> relink])
           ELSE Goto(t, [pc |-> "relink", path |-> <<>>, relink |-> relink])
        /\ UNCHANGED <<npages, lock>>

MergeLeaf(t) ==
    /\ th[t].pc = "merge"
    /\ \/ (NoParentEdge(t) \/ mode.contend) /\ MergeGaveUp(t)
       \/ /\ ~NoParentEdge(t)
          /\ LET p == Last(th[t].path)
                 pair == MergePair(p, th[t].cur)
             IN  \/ pair = {} /\ MergeGaveUp(t)
                 \/ \E i \in pair :
                       LET l == Child(tree[p], i)
                           r == Child(tree[p], i + 1)
                           m == MergeLeafPagesIntoLeft(tree[l], tree[r])
                           sep == IF m.ents = <<>> THEN KeyAt(tree[p], i) ELSE MaxKey(m)
                       IN  Merged(t, p, i, l, m, sep, <<tree[r].right, l>>)
    /\ UNCHANGED <<callVars, ghostVars>>

\* try_merge_inner_with_path gave up: the merges so far stand.
InnerMergeStops(t) ==
    Goto(t, [pc |-> "relink", path |-> <<>>]) /\ NoPageChange /\ UNCHANGED lock

MergeInner(t) ==
    /\ th[t].pc = "mergeInner"
    /\ \/ (NoParentEdge(t) \/ mode.contend) /\ InnerMergeStops(t)
       \/ /\ ~NoParentEdge(t)
          /\ LET p == Last(th[t].path)
                 pair == MergePair(p, th[t].cur)
             IN  \/ pair = {} /\ InnerMergeStops(t)
                 \/ \E i \in pair :
                       LET l == Child(tree[p], i)
                           r == Child(tree[p], i + 1)
                           m == MergeInnerPagesIntoLeft(tree[l], KeyAt(tree[p], i), tree[r])
                           sep == IF i < Count(tree[p]) THEN KeyAt(tree[p], i + 1) ELSE 0
                       IN  Merged(t, p, i, l, m, sep, th[t].relink)
    /\ UNCHANGED <<callVars, ghostVars>>

-----------------------------------------------------------------------------
(* lookup: an optimistic descent, repeated under shared latches if it misses. *)
(* A descent that fails to validate too often goes there as well.            *)

Lookup(t) ==
    /\ th[t].pc = "lookup" /\ MayRead(t)
    /\ \/ Descend(t, Op(t).key) \/ MoveRight(t, Op(t).key)
       \/ /\ AtLeaf(t) /\ Exact(Node(t), Op(t).key)
          /\ Finish(t, ValueOf(Node(t), Op(t).key))
       \/ /\ AtLeaf(t) /\ ~Exact(Node(t), Op(t).key)
          /\ Goto(t, [pc |-> "lookupFallback", cur |-> Root, tries |-> 0])
    /\ UNCHANGED <<pageVars, lock, callVars, ghostVars>>

LookupFallback(t) ==
    /\ th[t].pc = "lookupFallback" /\ MayRead(t)
    /\ \/ Descend(t, Op(t).key) \/ MoveRight(t, Op(t).key)
       \/ AtLeaf(t) /\ Finish(t, ValueOf(Node(t), Op(t).key))
    /\ UNCHANGED <<pageVars, lock, callVars, ghostVars>>

\* After LOOKUP_OPTIMISTIC_RESTART_LIMIT misses an optimistic lookup becomes a
\* latched one, and a latched one answers None.
LookupMisses(t) ==
    /\ th[t].pc \in {"lookup", "lookupFallback"} /\ ChildIsMissed(t)
    /\ \/ th[t].tries < MaxTries /\ RestartFromRoot(t, th[t].pc)
       \/ /\ th[t].tries = MaxTries
          /\ IF th[t].pc = "lookupFallback" THEN Finish(t, 0)
             ELSE Goto(t, [pc |-> "lookupFallback", cur |-> Root, tries |-> 0])
    /\ UNCHANGED lock

-----------------------------------------------------------------------------
(* Scans *)

\* Mutant: a descent is continued behind the key it was started with.
FromBehind(n, k) == SelectSeq(n.ents, LAMBDA e : e[1] > k)
From(n, k) == SelectSeq(n.ents, LAMBDA e : e[1] >= k)
UpTo(n, k) == SelectSeq(n.ents, LAMBDA e : e[1] <= k)

Rightmost(t) == Op(t).kind = "desc" /\ th[t].start = Inf

\* A descent to the leaf of key `start'.
ScanFind(t) ==
    /\ th[t].pc \in {"scan", "ascFind", "descFind"} /\ MayRead(t) /\ ~Rightmost(t)
    /\ Descend(t, th[t].start) \/ MoveRight(t, th[t].start)
    /\ UNCHANGED <<pageVars, lock, callVars, ghostVars>>

\* A range or prefix scan whose first descent misses a child ends there.
ScanGivesUp(t) ==
    /\ th[t].pc \in {"ascFind", "descFind"} /\ ChildIsMissed(t)
    /\ Finish(t, 0) /\ UNCHANGED lock

\* An unbounded descending scan follows the upper edges and does not move right.
FindRightmostLeaf(t) ==
    /\ th[t].pc = "descFind" /\ MayRead(t) /\ Rightmost(t)
    /\ ~Node(t).leaf /\ Goto(t, [cur |-> Node(t).upper])
    /\ UNCHANGED <<pageVars, lock, callVars, ghostVars>>

\* scan: the entries of one leaf, then a new descent behind the last of them.
ScanLeaf(t) ==
    LET found == From(Node(t), th[t].start)
    IN  /\ th[t].pc = "scan" /\ MayRead(t)
        /\ Node(t).leaf /\ ~ShouldChaseRight(Node(t), th[t].start)
        /\ IF found = <<>> THEN Finish(t, 0)
           ELSE Goto(t, [got |-> th[t].got \o found, start |-> Last(found)[1] + 1, cur |-> Root])
        /\ UNCHANGED <<pageVars, lock, callVars, ghostVars>>

\* scan_range_until, scan_prefix_borrowed_until: along the right links.
ScanAscending(t) ==
    LET first == th[t].pc = "ascFind"
        ents  == IF first THEN From(Node(t), Op(t).key) ELSE Node(t).ents
        found == SelectSeq(ents, LAMBDA e : e[1] <= Op(t).hi)
    IN  /\ th[t].pc \in {"ascFind", "asc"} /\ MayRead(t)
        /\ Node(t).leaf /\ ~(first /\ ShouldChaseRight(Node(t), th[t].start))
        /\ IF found # ents \/ Node(t).right = 0
           THEN Goto(t, [pc |-> "ret", got |-> th[t].got \o found])
           ELSE Goto(t, [pc |-> "asc", got |-> th[t].got \o found, cur |-> Node(t).right])
        /\ UNCHANGED <<pageVars, lock, callVars, ghostVars>>

\* scan_range_desc_until: along the left links.
ScanDescending(t) ==
    LET first == th[t].pc = "descFind"
        ents  == IF first THEN UpTo(Node(t), Op(t).hi) ELSE Node(t).ents
        found == Reverse(SelectSeq(ents, LAMBDA e : e[1] >= Op(t).key))
    IN  /\ th[t].pc \in {"descFind", "desc"} /\ MayRead(t)
        /\ Node(t).leaf
        /\ ~(first /\ ~Rightmost(t) /\ ShouldChaseRight(Node(t), th[t].start))
        /\ IF Len(found) # Len(ents) \/ Node(t).left = 0
           THEN Goto(t, [pc |-> "ret", got |-> th[t].got \o found])
           ELSE Goto(t, [pc |-> "desc", got |-> th[t].got \o found, cur |-> Node(t).left])
        /\ UNCHANGED <<pageVars, lock, callVars, ghostVars>>

-----------------------------------------------------------------------------
(* A crash and the next open: the log's durable prefix is replayed, and the *)
(* height and the page count are derived from the root.                     *)

Contents(T) == [k \in Keys |-> ValueOf(T[DescendTo(T, Root, k)], k)]

Crash ==
    /\ crashes < mode.crashes /\ setup = <<>>
    /\ \E n \in 0..Len(log) :
          LET T == Replay(base, SubSeq(log, 1, n))
          IN  /\ tree' = T /\ base' = T /\ abs' = Contents(T)
              /\ height' = HeightOf(T, Root)
              /\ reachable' = Cardinality(OwnedPageIds(T, Root))
    /\ log' = <<>> /\ crashes' = crashes + 1
    /\ lock' = Nobody /\ th' = [t \in Threads |-> Idle]
    /\ seen' = [t \in Threads |-> NothingSeen]
    /\ UNCHANGED <<npages, todo, setup, mode>>

Finished ==
    /\ setup = <<>> /\ \A t \in Threads : todo[t] = <<>> /\ th[t].pc = "idle"
    /\ UNCHANGED vars

ThreadStep(t) ==
    \/ Setup(t) \/ Begin(t) \/ Return(t) \/ DescentRestarts(t)
    \/ FindLeafExclusive(t) \/ TryWrite(t) \/ TakeStructuralLock(t) \/ Recheck(t)
    \/ FindLeafWithPath(t) \/ WriteAfterPath(t) \/ SplitLeaf(t)
    \/ UpdateLeafLeftSibling(t) \/ Publish(t)
    \/ FindLeafToRemove(t) \/ RemoveFromLeaf(t) \/ RepairSeparators(t)
    \/ MergeLeaf(t) \/ MergeInner(t)
    \/ Lookup(t) \/ LookupFallback(t) \/ LookupMisses(t)
    \/ ScanFind(t) \/ ScanGivesUp(t) \/ FindRightmostLeaf(t)
    \/ ScanLeaf(t) \/ ScanAscending(t) \/ ScanDescending(t)

Next == (\E t \in Threads : ThreadStep(t)) \/ Crash \/ Finished

Spec == Init /\ [][Next]_vars
FairSpec == Spec /\ \A t \in Threads : WF_vars(ThreadStep(t))

-----------------------------------------------------------------------------
(* Properties *)

Ops == [kind : {"none", "insert", "upsert", "remove", "lookup", "scan", "asc", "desc"},
        key : 0..Inf, val : 0..LeafCap, hi : 0..Inf]
NodeOK(n) ==
    /\ n.leaf \in BOOLEAN /\ n.upper \in PageIds \cup {0}
    /\ n.left \in PageIds \cup {0} /\ n.right \in PageIds \cup {0}
    /\ \A i \in 1..Count(n) : KeyAt(n, i) \in Keys
    /\ \A i \in 1..(Count(n) - 1) : KeyAt(n, i) < KeyAt(n, i + 1)

\* Every page is a sorted slot array; the counters of the
\* tree, the lock and the local state of the threads are in range.
TypeOK ==
    /\ \A p \in PageIds : NodeOK(tree[p])
    /\ npages \in PageIds /\ height \in 0..Cardinality(PageIds) /\ reachable \in PageIds
    /\ lock \in Threads \cup {Nobody}
    /\ \A t \in Threads : /\ th[t].op \in Ops /\ th[t].cur \in PageIds \cup {0}
                           /\ \A i \in 1..Len(th[t].path) : th[t].path[i] \in PageIds
    /\ abs \in [Keys -> 0..LeafCap]

\* At every moment, also between the steps of a split, a merge or a separator
\* repair of some thread, a descent from the root (route_to_child, then
\* should_chase_right) ends in the leaf that holds the key if any leaf does:
\* what the callers wrote is what the tree contains.
EveryKeyIsFound == Contents(tree) = abs

Inserting(t) == Op(t).kind \in {"insert", "upsert"}
ScansOf(t) == Op(t).kind \in {"scan", "asc", "desc"}
Got(t) == {th[t].got[i][1] : i \in 1..Len(th[t].got)}
Limit(t) == IF Op(t).kind = "scan" THEN Inf ELSE Op(t).hi

\* What a call returns agrees with some moment between its call and its return:
\* insert and upsert report a new key only if the key was absent, remove reports
\* a hit only if it was there, lookup returns a value the key had; a scan
\* returns its keys in order, once, with values they had, and leaves out only
\* keys that were absent at some moment of the scan.
ResultsAreLinearizable ==
    \A t \in Threads : th[t].pc = "ret" =>
        LET s == seen[t][Op(t).key] IN
        /\ Inserting(t) => (th[t].res = 1 => 0 \in s) /\ (th[t].res = 0 => s # {0})
        /\ Op(t).kind = "remove" => (th[t].res = 1 => s # {0}) /\ (th[t].res = 0 => 0 \in s)
        /\ Op(t).kind = "lookup" => th[t].res \in s
        /\ ScansOf(t) =>
             /\ \A i \in 1..(Len(th[t].got) - 1) :
                   IF Op(t).kind = "desc" THEN th[t].got[i][1] > th[t].got[i + 1][1]
                   ELSE th[t].got[i][1] < th[t].got[i + 1][1]
             /\ \A i \in 1..Len(th[t].got) : th[t].got[i][2] \in seen[t][th[t].got[i][1]]
             /\ \A k \in Keys : (Op(t).key <= k /\ k <= Limit(t) /\ k \notin Got(t))
                                => 0 \in seen[t][k]

\* The right links of the leaves, which the ascending range scans follow, pass
\* through every entry of the tree exactly once and in key order.
LeafChainIsOrdered ==
    LET chain == ChainFrom(tree, LeftmostLeaf(tree, Root))
        all   == FlattenSeq([i \in 1..Len(chain) |-> tree[chain[i]].ents])
    IN  /\ \A i \in 1..(Len(all) - 1) : all[i][1] < all[i + 1][1]
        /\ {all[i][1] : i \in 1..Len(all)} = {k \in Keys : abs[k] # 0}

\* No page ever holds more than it has room for.  When no split or merge is in
\* progress (the structural lock is free) the left link of every leaf leads
\* back along its right link, unless a crash cut a split short, and the height
\* and page counters, which splits and merges maintain incrementally, agree
\* with the tree.
StructureSettles ==
    /\ \A p \in PageIds : Used(tree[p]) <= Capacity(tree[p])
    /\ lock = Nobody =>
        /\ height = HeightOf(tree, Root)
        /\ reachable = Cardinality(OwnedPageIds(tree, Root))
        /\ crashes = 0 =>
              LET chain == ChainFrom(tree, LeftmostLeaf(tree, Root))
              IN  /\ tree[chain[1]].left = 0
                  /\ \A i \in 2..Len(chain) : tree[chain[i]].left = chain[i - 1]

RECURSIVE ScanFrom(_, _)
ScanFrom(T, k) ==
    LET found == From(T[DescendTo(T, Root, k)], k)
    IN  IF found = <<>> THEN <<>> ELSE found \o ScanFrom(T, Last(found)[1] + 1)

\* Whatever prefix of the page images appended by the running operation is
\* durable when the process dies, the reopened tree has the contents from
\* before or from after the operation, through lookups and through scans, and
\* the height from before or from after it.
EveryDurablePrefixRecovers ==
    mode.logged => \A T \in {Replay(base, SubSeq(log, 1, n)) : n \in 1..Len(log)} :
        \E c \in {Contents(base), abs} :
            LET scan == ScanFrom(T, 0)
            IN  /\ Contents(T) = c
                /\ \A i \in 1..(Len(scan) - 1) : scan[i][1] < scan[i + 1][1]
                /\ ToSet(scan) = {<<k, c[k]>> : k \in {j \in Keys : c[j] # 0}}
                /\ HeightOf(T, Root) \in {HeightOf(base, Root), height}

\* A split that has to be published finds the parent that routes to the node
\* that was split: publish_leaf_split_to_parent gives up, and panics, only when
\* no parent has such an edge.
PublicationFindsItsParent ==
    \A t \in Threads : th[t].pc = "publish" => ParentsOf(Head(th[t].pub).left) # {}

\* Every call returns: splits that wait for the structural lock get it, and no
\* restarted descent is repeated for ever.
EveryCallReturns == \A t \in Threads : (th[t].pc # "idle") ~> (th[t].pc = "idle")
================================================================================
