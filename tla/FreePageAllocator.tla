-------------------------- MODULE FreePageAllocator --------------------------
(***************************************************************************)
(* The sharded page allocator of crates/storage/src/free_page_allocator.rs *)
(* as BufferPool uses it (one page per allocation).  An allocation tries,  *)
(* in order: the hot buckets of the caller's shard, a refill of them from  *)
(* the central freelist, the hot buckets of the other shards, the central  *)
(* freelist, and the shard's monotonic reservation, which is refilled from *)
(* a global cursor.                                                        *)
(*                                                                         *)
(* Every queue operation, every section under the central mutex and every  *)
(* access to an atomic of the monotonic range is a step of its own.        *)
(***************************************************************************)
EXTENDS Integers, Sequences, FiniteSets

CONSTANTS
    Threads,        \* the threads that allocate
    NumShards,      \* FreePageAllocator::shards.len()
    Home,           \* shard_hint % shards.len() of each thread
    BucketLimits,   \* HOT_BUCKET_LIMITS
    RefillBatch,    \* HOT_REFILL_BATCH
    ReserveLen,     \* MONOTONIC_REFILL_BASE_PAGES
    FirstPage,      \* next_page_number given to FreePageAllocator::new
    MaxPage,        \* bound: the global cursor is not moved beyond it
    NoThread        \* "nobody holds the refill lock"

Shards == 0..(NumShards - 1)
Buckets == 1..Len(BucketLimits)

ASSUME ShardsAssumption == NumShards \in Nat \ {0} /\ Home \in [Threads -> Shards]
ASSUME PagesAssumption ==
    FirstPage \in Nat \ {0} /\ ReserveLen \in Nat \ {0} /\ MaxPage \in Nat
ASSUME BucketsAssumption ==
    /\ BucketLimits \in Seq(Nat \ {0}) /\ Len(BucketLimits) > 0
    /\ BucketLimits[1] = 1 /\ RefillBatch \in Nat \ {0}
ASSUME NoThreadAssumption == NoThread \notin Threads

VARIABLES
    globalNext,     \* global_next_page_number
    next, end,      \* MonotonicRange of each shard
    refillLock,     \* holder of each shard's refill_lock
    buckets,        \* the hot buckets: one queue of extents per shard and size
    central,        \* by_start_page_number: the set of extents in the freelist
    freeBasePages,  \* free_base_pages: the freelist's own count
    pc,             \* where each allocation stands
    probe,          \* the hot bucket each allocation looks at: the shard's
                    \* offset from the thread's own, and the bucket
    hand,           \* the extent, page or cursor value a thread has in hand
    live,           \* pages handed out and not given back
    crossed         \* history: a page number of one reservation was about to be
                    \* compared with the end of another

vars == <<globalNext, next, end, refillLock, buckets, central, freeBasePages,
          pc, probe, hand, live, crossed>>
reuseVars == <<buckets, central, freeBasePages>>
monotonicVars == <<globalNext, next, end, refillLock, crossed>>

Extent(start, len) == [start |-> start, len |-> len]
NoExtent == Extent(0, 0)
EndOf(e) == e.start + e.len
PagesOf(e) == e.start..(EndOf(e) - 1)

-----------------------------------------------------------------------------
(* CentralInner: the freelist, always called under its mutex. *)

\* Mutant: a freed extent is not merged with the one that ends where it starts.
InsertForgetsLeft(c, e) ==
    LET right == {x \in c : x.start = EndOf(e)}
        stop == IF right = {} THEN EndOf(e) ELSE EndOf(CHOOSE x \in right : TRUE)
    IN  (c \ right) \union {Extent(e.start, stop - e.start)}

\* insert: coalesce with the neighbour on either side.
CentralInsert(c, e) ==
    LET left == {x \in c : EndOf(x) = e.start}
        right == {x \in c : x.start = EndOf(e)}
        start == IF left = {} THEN e.start ELSE (CHOOSE x \in left : TRUE).start
        stop == IF right = {} THEN EndOf(e) ELSE EndOf(CHOOSE x \in right : TRUE)
    IN  (c \ (left \union right)) \union {Extent(start, stop - start)}

Fits(c, len) == {x \in c : x.len >= len}

\* min_by_key over the map in key order: the smallest that fits, leftmost first.
BestFit(c, len) ==
    CHOOSE x \in Fits(c, len) : \A y \in Fits(c, len) :
        x.len < y.len \/ (x.len = y.len /\ x.start <= y.start)

\* Mutant: the remainder of a split extent is dropped.
TakeDropsRemainder(c, len) == c \ {BestFit(c, len)}

\* allocate_best_fit: take the head of the best fit, put the remainder back.
CentralTake(c, len) ==
    LET x == BestFit(c, len)
        rest == Extent(x.start + len, x.len - len)
    IN  (c \ {x}) \union (IF x.len > len THEN {rest} ELSE {})

-----------------------------------------------------------------------------
(* FreePageShard: the hot buckets. *)

HotBucketForLen(len) ==
    CHOOSE b \in Buckets : len <= BucketLimits[b] /\
        \A a \in Buckets : len <= BucketLimits[a] => b <= a

\* push: only called with extents short enough for some bucket.
Push(s, e) ==
    buckets' = [buckets EXCEPT ![s][HotBucketForLen(e.len)] = Append(@, e)]

-----------------------------------------------------------------------------
FirstProbe == [offset |-> 0, bucket |-> 1]

Init ==
    /\ globalNext = FirstPage
    /\ next = [s \in Shards |-> 0]
    /\ end = [s \in Shards |-> 0]
    /\ refillLock = [s \in Shards |-> NoThread]
    /\ buckets = [s \in Shards |-> [b \in Buckets |-> <<>>]]
    /\ central = {}
    /\ freeBasePages = 0
    /\ pc = [t \in Threads |-> "idle"]
    /\ probe = [t \in Threads |-> FirstProbe]
    /\ hand = [t \in Threads |-> NoExtent]
    /\ live = {}
    /\ crossed = FALSE

Goto(t, to) == pc' = [pc EXCEPT ![t] = to]
Hold(t, e) == hand' = [hand EXCEPT ![t] = e]

\* The allocation has its page; Deliver hands it to the caller.
Return(t, p) == Goto(t, "return") /\ Hold(t, Extent(p, 1))

Active == {t \in Threads : pc[t] # "idle"}

\* A thread is admitted only while every thread under way could still reserve.
RoomForOneMore ==
    globalNext + ReserveLen * (Cardinality(Active) + 1) <= MaxPage + 1

AllocatePage(t) ==
    /\ pc[t] = "idle"
    /\ RoomForOneMore
    /\ Goto(t, "popOwn")
    /\ UNCHANGED <<probe, hand, live, reuseVars, monotonicVars>>

ProbedShard(t) == (Home[t] + probe[t].offset) % NumShards
ProbedQueue(t) == buckets[ProbedShard(t)][probe[t].bucket]
Popping(t) == pc[t] \in {"popOwn", "popAgain", "steal"}

\* allocate_from_shard(_, 1) finds an extent in the bucket it looks at.  The
\* page is the head of the extent; ReturnRemainder pushes the rest back.
Pop(t) ==
    LET e == Head(ProbedQueue(t))
    IN  /\ Popping(t)
        /\ ProbedQueue(t) # <<>>
        /\ buckets' = [buckets EXCEPT ![ProbedShard(t)][probe[t].bucket] = Tail(@)]
        /\ IF e.len = 1 THEN Return(t, e.start)
                        ELSE Goto(t, "remainder") /\ Hold(t, e)
        /\ UNCHANGED <<probe, central, freeBasePages, live, monotonicVars>>

\* The bucket is empty: on to the shard's next bucket, or from the own shard to
\* the refill, or to the next sibling shard, or to the freelist.
PopMisses(t) ==
    /\ Popping(t)
    /\ ProbedQueue(t) = <<>>
    /\ \/ /\ probe[t].bucket < Len(BucketLimits)
          /\ probe' = [probe EXCEPT ![t].bucket = @ + 1]
          /\ UNCHANGED pc
       \/ /\ probe[t].bucket = Len(BucketLimits) /\ pc[t] = "popOwn"
          /\ probe' = [probe EXCEPT ![t] = FirstProbe]
          /\ Goto(t, "refillBatch")
       \/ /\ probe[t].bucket = Len(BucketLimits) /\ pc[t] # "popOwn"
          /\ probe[t].offset + 1 < NumShards
          /\ probe' = [probe EXCEPT ![t] = [offset |-> @.offset + 1, bucket |-> 1]]
          /\ Goto(t, "steal")
       \/ /\ probe[t].bucket = Len(BucketLimits) /\ pc[t] # "popOwn"
          /\ probe[t].offset + 1 = NumShards
          /\ probe' = [probe EXCEPT ![t] = FirstProbe]
          /\ Goto(t, "bestFit")
    /\ UNCHANGED <<hand, live, reuseVars, monotonicVars>>

\* return_remainder, to the shard the extent was popped from.  An extent with
\* its head split off is always short enough for a hot bucket.
ReturnRemainder(t) ==
    /\ pc[t] = "remainder"
    /\ Push(ProbedShard(t), Extent(hand[t].start + 1, hand[t].len - 1))
    /\ Return(t, hand[t].start)
    /\ UNCHANGED <<probe, central, freeBasePages, live, monotonicVars>>

LongestHot == BucketLimits[Len(BucketLimits)]

\* refill_shard asks the freelist for a batch, then for a single page.
RefillLen(step) ==
    IF step = "refillOne" THEN 1
    ELSE IF RefillBatch < LongestHot THEN RefillBatch ELSE LongestHot

RefillShard(t) ==
    LET len == RefillLen(pc[t])
    IN  /\ pc[t] \in {"refillBatch", "refillOne"}
        /\ \/ /\ Fits(central, len) # {}
              /\ Hold(t, Extent(BestFit(central, len).start, len))
              /\ central' = CentralTake(central, len)
              /\ freeBasePages' = freeBasePages - len
              /\ Goto(t, "refillPush")
           \/ /\ Fits(central, len) = {}
              /\ Goto(t, IF pc[t] = "refillBatch" THEN "refillOne" ELSE "popAgain")
              /\ UNCHANGED <<hand, central, freeBasePages>>
        /\ UNCHANGED <<probe, buckets, live, monotonicVars>>

RefillPush(t) ==
    /\ pc[t] = "refillPush"
    /\ Push(Home[t], hand[t])
    /\ Hold(t, NoExtent)
    /\ Goto(t, "popAgain")
    /\ UNCHANGED <<probe, central, freeBasePages, live, monotonicVars>>

\* The last resort of allocate_extent: one page straight from the freelist.
AllocateBestFit(t) ==
    /\ pc[t] = "bestFit"
    /\ \/ /\ Fits(central, 1) # {}
          /\ Return(t, BestFit(central, 1).start)
          /\ central' = CentralTake(central, 1)
          /\ freeBasePages' = freeBasePages - 1
       \/ /\ Fits(central, 1) = {}
          /\ Goto(t, "try")
          /\ UNCHANGED <<hand, central, freeBasePages>>
    /\ UNCHANGED <<probe, buckets, live, monotonicVars>>

-----------------------------------------------------------------------------
(* Monotonic growth.  A refill installs a reservation with two stores, and an *)
(* allocation reads the two fields with two loads: two threads with the same *)
(* home shard can interleave so that a page number fetched from one          *)
(* reservation is compared with the end of another.  crossed records that.   *)

OthersAtHome(t) == {u \in Threads \ {t} : Home[u] = Home[t]}

\* try_allocate, first half: fetch_add on next_page_number.  "try" is the
\* attempt without the refill lock, "retry" the one under it.
FetchNext(t) ==
    LET s == Home[t]
    IN  /\ pc[t] \in {"try", "retry"}
        /\ next' = [next EXCEPT ![s] = @ + 1]
        /\ Hold(t, Extent(next[s], 1))
        /\ Goto(t, CASE next[s] # 0 -> (IF pc[t] = "try" THEN "check" ELSE "recheck")
                     [] next[s] = 0 -> (IF pc[t] = "try" THEN "lock" ELSE "reserve"))
        /\ crossed' = (crossed \/ \E u \in OthersAtHome(t) : pc[u] = "storeNext")
        /\ UNCHANGED <<globalNext, end, refillLock, live, probe, reuseVars>>

\* try_allocate, second half: compare with end_page_number.
CheckEnd(t) ==
    LET s == Home[t]
    IN  /\ pc[t] \in {"check", "recheck"}
        /\ \/ /\ hand[t].start + 1 <= end[s]
              /\ Return(t, hand[t].start)
              /\ refillLock' = [refillLock EXCEPT ![s] =
                                   IF pc[t] = "recheck" THEN NoThread ELSE @]
           \/ /\ hand[t].start + 1 > end[s]
              /\ Goto(t, IF pc[t] = "check" THEN "lock" ELSE "reserve")
              /\ UNCHANGED <<hand, refillLock>>
        /\ UNCHANGED <<globalNext, next, end, live, probe, crossed, reuseVars>>

LockRefill(t) ==
    LET s == Home[t]
    IN  /\ pc[t] = "lock"
        /\ refillLock[s] = NoThread
        /\ refillLock' = [refillLock EXCEPT ![s] = t]
        /\ Goto(t, "retry")
        /\ UNCHANGED <<globalNext, next, end, hand, live, probe, crossed, reuseVars>>

\* The refill takes ReserveLen fresh pages from the global cursor.
Reserve(t) ==
    /\ pc[t] = "reserve"
    /\ globalNext' = globalNext + ReserveLen
    /\ Hold(t, Extent(globalNext, ReserveLen))
    /\ Goto(t, "storeEnd")
    /\ UNCHANGED <<next, end, refillLock, live, probe, crossed, reuseVars>>

\* install_reserved_tail stores end_page_number first ...
StoreEnd(t) ==
    /\ pc[t] = "storeEnd"
    /\ end' = [end EXCEPT ![Home[t]] = EndOf(hand[t])]
    /\ Goto(t, "storeNext")
    /\ crossed' = (crossed \/ \E u \in OthersAtHome(t) :
                                  pc[u] = "check" /\ hand[u].start >= end[Home[t]])
    /\ UNCHANGED <<globalNext, next, refillLock, hand, live, probe, reuseVars>>

\* ... and next_page_number second; then the refill lock is dropped.
StoreNext(t) ==
    LET s == Home[t]
    IN  /\ pc[t] = "storeNext"
        /\ next' = [next EXCEPT ![s] = hand[t].start + 1]
        /\ refillLock' = [refillLock EXCEPT ![s] = NoThread]
        /\ Return(t, hand[t].start)
        /\ UNCHANGED <<globalNext, end, live, probe, crossed, reuseVars>>

-----------------------------------------------------------------------------
\* allocate_page returns to its caller.
Deliver(t) ==
    /\ pc[t] = "return"
    /\ live' = live \union {hand[t].start}
    /\ Hold(t, NoExtent)
    /\ probe' = [probe EXCEPT ![t] = FirstProbe]
    /\ Goto(t, "idle")
    /\ UNCHANGED <<reuseVars, monotonicVars>>

\* promote_reusable_extent, as the pool calls it for a retired page.
PromoteReusableExtent(p) ==
    /\ p \in live
    /\ live' = live \ {p}
    /\ central' = CentralInsert(central, Extent(p, 1))
    /\ freeBasePages' = freeBasePages + 1
    /\ UNCHANGED <<buckets, pc, probe, hand, monotonicVars>>

\* The end of a bounded behaviour: every page came back and none is left.
Exhausted ==
    /\ live = {} /\ Active = {} /\ ~RoomForOneMore
    /\ UNCHANGED vars

Allocate(t) ==
    \/ AllocatePage(t) \/ Pop(t) \/ PopMisses(t) \/ ReturnRemainder(t)
    \/ RefillShard(t) \/ RefillPush(t) \/ AllocateBestFit(t)
    \/ FetchNext(t) \/ CheckEnd(t) \/ LockRefill(t)
    \/ Reserve(t) \/ StoreEnd(t) \/ StoreNext(t) \/ Deliver(t)

Next ==
    \/ \E t \in Threads : Allocate(t)
    \/ \E p \in live : PromoteReusableExtent(p)
    \/ Exhausted

Spec == Init /\ [][Next]_vars

-----------------------------------------------------------------------------
(* Properties. *)

Steps == {"idle", "popOwn", "popAgain", "steal", "remainder", "refillBatch",
          "refillOne", "refillPush", "bestFit", "try", "retry", "check",
          "recheck", "lock", "reserve", "storeEnd", "storeNext", "return"}

Pages == FirstPage..MaxPage
Extents == {e \in [start : Pages, len : 1..MaxPage] : EndOf(e) <= MaxPage + 1}

\* Every variable has its type: in particular free extents are never empty and
\* never contain page 0, and hot buckets hold extents of their own size class.
TypeOK ==
    /\ globalNext \in FirstPage..(MaxPage + 1)
    /\ next \in [Shards -> Nat] /\ end \in [Shards -> 0..(MaxPage + 1)]
    /\ refillLock \in [Shards -> Threads \union {NoThread}]
    /\ \A s \in Shards, b \in Buckets : \A i \in DOMAIN buckets[s][b] :
           buckets[s][b][i] \in Extents /\ HotBucketForLen(buckets[s][b][i].len) = b
    /\ central \subseteq Extents
    /\ freeBasePages \in 0..MaxPage
    /\ pc \in [Threads -> Steps]
    /\ probe \in [Threads -> [offset : Shards, bucket : Buckets]]
    /\ hand \in [Threads -> [start : Nat, len : Nat]]
    /\ live \subseteq Pages
    /\ crossed \in BOOLEAN

\* A page id that allocate_page returns is owned by nobody else: it is not
\* live already and no other thread is about to return it ("Page IDs returned
\* by `allocate_page` are unique").
PageIdsUnique ==
    \A t \in Threads : pc[t] = "return" =>
        /\ hand[t].start \notin live
        /\ \A u \in Threads \ {t} : pc[u] = "return" => hand[u].start # hand[t].start

\* The pages an allocation under way has taken out of the shared structures.
Held(t) ==
    CASE pc[t] \in {"remainder", "refillPush", "storeEnd", "return"} -> PagesOf(hand[t])
      [] pc[t] = "storeNext" -> {hand[t].start}
      [] pc[t] \in {"check", "recheck"} -> {hand[t].start} \intersect 0..(end[Home[t]] - 1)
      [] OTHER -> {}

\* What is left of a shard's reservation.  Between the two stores of
\* install_reserved_tail only the new end is visible.
ReservedTail(s) ==
    LET installing == {t \in Threads : pc[t] = "storeNext" /\ Home[t] = s}
        from == IF installing = {} THEN next[s]
                ELSE hand[CHOOSE t \in installing : TRUE].start + 1
    IN  from..(end[s] - 1)

Queued == UNION {{<<s, b, i>> : i \in DOMAIN buckets[s][b]} : s \in Shards, b \in Buckets}

OwnersOf(p) ==
      Cardinality({q \in live : q = p})
    + Cardinality({e \in central : p \in PagesOf(e)})
    + Cardinality({x \in Queued : p \in PagesOf(buckets[x[1]][x[2]][x[3]])})
    + Cardinality({t \in Threads : p \in Held(t)})
    + Cardinality({s \in Shards : p \in ReservedTail(s) /\ p > 0})

\* No page is lost and none is in two places: every page the global cursor has
\* passed is live, in the freelist, in one hot bucket, in the hands of one
\* thread or in one reserved tail; pages beyond the cursor are nowhere.  So it
\* is, with any number of threads on a shard, until two of them cross.
EveryPageHasOneOwner ==
    ~crossed => \A p \in Pages : OwnersOf(p) = IF p < globalNext THEN 1 ELSE 0

\* insert keeps the freelist coalesced and allocate_best_fit keeps it so: no
\* two free extents overlap or touch, and free_base_pages is their total.  This
\* rests on pages being given back once, so on no two threads having crossed.
FreelistIsCoalesced ==
    ~crossed =>
        /\ \A x, y \in central : x # y => EndOf(x) < y.start \/ EndOf(y) < x.start
        /\ freeBasePages = Cardinality(UNION {PagesOf(e) : e \in central})
=============================================================================
