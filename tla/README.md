# Pagebox: a verification development

Pagebox is a page-based storage stack in Rust: a swizzling buffer pool, a
write-ahead log, a page store, a B+tree on top of them and a small key-value
store that composes the four. This directory holds TLA+ models of its parts,
the TLC runs that check them on small instances, and TLAPS proofs of some of
the properties for every instance.

## 1. The system and its parts

| Part | Source (`src/crates/...`) | State | Operations |
|---|---|---|---|
| Hybrid latch | `hybrid-latch/src/{latch,helpers,lock}.rs` | version word, inner reader-writer lock | optimistic snapshot and validate, shared, exclusive, upgrades, drops |
| Free page allocator | `storage/src/free_page_allocator.rs` | central freelist, per-shard hot buckets, per-shard monotonic range, global cursor | `allocate_page`, `promote_reusable_extent` |
| Frame kernel, swips | `frame-kernel/src/frame.rs`, `swip-kernel/src/word.rs` | frame state and pin count, swizzle word | state transitions, pin, hot/cool/evicted encoding |
| Buffer pool | `storage/src/buffer_pool.rs`, `buffer_frame.rs` | frames, page table, free list, resident budget, eviction permits, dirty set, retired extents | fix, pin, unfix, allocate, mark dirty, retire, evict, flush, prefetch |
| Page provider | `storage/src/page_provider.rs` | background thread | dirty cleaning |
| Page store | `storage/src/page_store.rs` | data file, header page | read, write, allocate, sync, checkpoint LSN, user metadata |
| Slotted page | `storage/src/slotted_page.rs` | slot array, heap, fragmented space | insert, remove, update, compact, truncate |
| WAL | `wal/src/{wal_impl,backend,format,io,io_uring}.rs` | LSN counter, per-shard buffers, submitted writes, durable LSNs, file | append image, patch or logical record, overwrite, commit, flush, reset, recover |
| B+tree | `btree/src/btree.rs`, `btree/src/btree/*.rs` | pages linked by swips, sibling links, stable root | lookup, insert, upsert, remove, scan, split, merge |
| KV store | `kvstore/src/lib.rs` | tree, pool, WAL, store | open and recover, put, del, flush, sync, checkpoint, close |
| Threading | `threading/src/lib.rs` | thread affinity and roles | spawn helpers |
| kvbench | `kvbench/src/*` | benchmark harness | none of the system's state |

How they interact. The KV store opens the page store and the log, replays the
log into the store, builds a buffer pool over the store and a tree over the
pool. A mutation descends the tree with optimistic latches, latches a leaf
exclusively, changes it and marks its frame dirty, which claims an LSN and
appends a page image or patch to a log shard. The pool writes a dirty page back
only after its LSN is durable. A checkpoint flushes log and pool, writes the
store's header and resets the log. Page ids come from the free page allocator.

Each module leaves to its neighbours what they model:

```
KvStore  --implements-->  DurableStore
   |  log contents            |  pages                 |  residency
   v                          v                        v
WalShard (who waits for     BTree over BTreeNode     BufferPool (stable edges,
  whom, what is durable)      (splits, merges, scans,   budget, batches, cleaning)
WalLog (blocks, torn          logging)                ChildEdges (edges of inner
  tails, replay)            SlottedPage (bytes of       nodes, parent hints)
                              a page, log patches)    HybridLatch, FreePageAllocator
```

## 2. Modules

A step is an atomic operation, or a section under a mutex or an exclusive latch
inside which no other thread can tell the order. The memory model is sequential
consistency: relaxed atomics are not reordered. Where one instance must cover
several set-ups, a constant (`Modes`, `Loads`, `Workloads`) is a set of records
that `Init` chooses from: it says which threads run, which calls they make and
how many crashes may happen, and so also names every bound.

**HybridLatch** (`latch.rs`, `helpers.rs`, `lock.rs`). `version` is the version
word, `writer` and `readers` the inner lock, `pc` and `guard` each thread's
guard. `page`, `seen` and `snap` are the protected data, what a reader has read
and the page when its guard was made. Each method is split at its atomic steps:
`LockExclusive`/`AcquireExclusive`, `EnterExclusive`, then `PublishVersion` and
`ReleaseExclusive` for the drop; upgrades likewise. `ClaimWriterBit` is
parking_lot's writer bit, which keeps new readers out. `MaxVersion` stands for
`u64::MAX`.

**FreePageAllocator** (`free_page_allocator.rs`). `buckets`, `central`,
`next`/`end` and `globalNext` are the four sources an allocation tries; `pc` and
`probe` say where it stands. `Home` gives each thread its shard.

**WalShard** (`wal_impl.rs`, `backend.rs`, `io_uring.rs`). `active`, `spares`,
`pending` and `inFlight` are a buffer's stations, `lsns` the watermarks, `file`
the log file with each position a hole, written or stable. Clients, the driver,
the syncer, the ring and its reaper are separate processes. `backend` names the
one it was opened with. A failed write or sync (`MayFail`) sets `failed` for
good, as `backend_failure` does. `ResetIsAlone` restricts `reset` to moments
when no client is active. A record is a page image.

**WalLog** (`wal_impl.rs`, `format.rs`). The same shard as a stream of blocks:
how images, patches, packed short records and multi-chunk long records are laid
out in batches, what a crash leaves of the unsynced tail (`Tears`), and what
`scan_valid_records` and `replay_records` make of it (`Opened`, `Replayed`,
`Recovered`). A checksum is modelled by what it establishes: a data block is
valid iff it is the one its metadata slot was written for. A page's contents are
the set of LSNs of the updates it reflects. What is left in the file when the
process dies counts as on disk after it; blocks behind a truncation read as
zero.

**BufferPool** (`buffer_pool.rs`, `buffer_frame.rs`, `frame.rs`). `frame` holds
a frame's state, page id, pins, dirty flag and generation, link and value;
`latch` and `guards` abstract the hybrid latch to its owner and the optimistic
guards an exclusive section breaks. `edge` is a stable swip, HOT or EVICTED.
`freeList` counts how often a frame is on the free list, so that a double push
shows. `th` is each thread's place in a fix, allocation, flush or eviction.
`blind` records that a batch eviction set a frame Resident that it no longer
owned (finding F6 below). Abstractions: a page's contents are the number of
writes it has had; the page-table insert and the budget reservation are one
step; a flush or batch works on one page; the referenced bit and clock hand are
left out, so any frame may be picked; the hot-pin fence is always taken; a new
page is installed as it is and its id is one never used before.

**ChildEdges** (`btree.rs`, `node.rs` over `buffer_pool.rs`). The edges of inner
nodes: `edges[n]` is the list of child words of an inner page, HOT(frame) or
EVICTED(page). Descents (`d`) read an edge optimistically, pin its frame or fault
the leaf in, publish the HOT word and the frame's parent hint under the parent's
latch, chase right, split and merge; evictors (`e`) take a candidate, find its
parent by the hint or by searching from the root, and unswizzle the edge. The
page of a HOT word is a ghost: no action reads it. Abstractions: inner pages are
never evicted and have no frame here; the root's edges to inner nodes are
resident; the slot of a hint only decides where a search starts; leaves are
clean; the re-descent before a split is one step; the repair of the successor's
left link is left to `BTree`.

**BTreeNode, BTree** (`btree.rs`, `btree/{node,split_publish}.rs`). A node is
the sorted slot array of its page. A step is one section under a page latch or
one validated optimistic read, so descents hold nothing between pages, a split
releases the node before its neighbour and its parent are updated, and a remove
releases the leaf before it rebalances. `lock` is the structural lock, `pub` the
splits still to be published, `log` the page images appended since the last
flush, `base` the tree as of then. A value stands for the room its entry takes,
so that full leaves with one, two and three entries all occur.

**SlottedPage** (`slotted_page.rs`, `PageMutation` of `buffer_pool.rs`). The
page as an array of cells with slots growing up and data growing down, dead
bytes included; the searches with cached key heads; and the set of byte ranges a
mutation reports, with the replica that replaying them yields.

**KvStore** (`kvstore/src/lib.rs`, `page_store.rs`, and the parts of
`buffer_pool.rs` and `wal_impl.rs` that order log and data writes). `os` is the
data file as it reads, `maybe` what a power loss may leave of each page, `log`
and `logs` likewise for the log; `buf` the active log buffer, `mem`, `dirty`,
`base`, `img` the frames, `bg` the page the background cleaner is writing. A
crash (of the process or of the power) may happen at any step, in recovery too.
`hist` numbers the mutations; every mutation writes a value of its own.

**DurableStore** is what `KvStore` promises: the store is a list of mutations,
a durable call fixes a prefix of it, and a crash drops a suffix that was not
promised. `KvStore` instantiates it with the history read back from what a
caller sees now or would see after recovery (`Visible`), so the refinement
mapping covers recovery itself.

## 3. Runs

| Run | Instance (distinct states) | Shows |
|---|---|---|
| `latch` | 2 threads, 2 words, 2 values, `MaxVersion` 5 (203,560) | snapshots, exclusion, upgrades, no overflow at the word's end, waiters served. Two words make a torn read possible |
| `allocator` | 2 threads on their own shards, 8 pages (335,389) | ownership and coalescing, with stealing and refills |
| `wal` | each of the 3 backends: 2 clients, 1 page, buffers of 2 records, 2 writes in flight on the ring, 4 LSNs, failures (904,194) | durability, gaps, clean shutdown |
| `wal_live` | each of the 3 backends: 2 clients, 1 page, buffers of 1 record, 2 LSNs, failures (26,886) | flushes answer; shutdown ends where there is no syncer |
| `wal_log` | 6 modes: 1 or 2 appenders, 1 or 2 pages, batches of 1 to 4 blocks, 2 to 4 LSNs, a crash (102,462) | replay of every possible torn tail |
| `pool_fixers` | 2 threads that fix, 2 frames, 2 pages (1,588,744) | page table, edges, free list |
| `pool_pressure` | 1 fixer and 2 evicting threads, 2 frames; 3 pages of which 1 is allocated, or 2 pages and a batch eviction (1,076,946) | no lost write, pinned frames stay, budget exact |
| `edges` | 8 modes of 1 or 2 descents and an evictor, 1 to 5 frames, 2 to 4 leaves under a root or 2 to 3 inner nodes (339,866) | HOT edges, routing, write-back of inner pages, fixes return |
| `btree` | 2 threads, 7 keys, leaves of 3 units, inner nodes of 3 separators; writers, removers, contended siblings, one thread with its log and crashes (82,713) | contents, results, links, counters, recovery of every log prefix, calls return |
| `slotted` | a page of 6 cells, 3 keys, 5 pairs, 2 operations to a mutation, 2 ranges (389,112) | regions, contents, searches, patches |
| `kv` | 6 modes: 1 or 2 callers, 3 keys on 2 pages, up to 3 mutations, 2 crashes, with cleaner, checkpoint, sync, close (133,614) | WAL before data, recoverability, refinement, calls and recovery finish |
| `kv_checkpoint_race` | 2 callers, a checkpoint beside a strict put | violated: finding K1 |

Bounds. They are large enough for each action to fire, for buffers to fill and
wrap, for frames to be reused by another page, for leaves and inner nodes to
split, merge and collapse, for a crash in every phase of recovery, and for a
third party to act between two others. `MaxTries = 1` makes the B+tree use its
latched fallback after one restart. Each module also has a `TypeOK`, which holds
on these instances and is left out of the configurations; adding
`INVARIANT TypeOK` to one of them checks it.

Deadlock is checked in every run except those of the log shard, where clients
may stop calling and a closed log does nothing.

Fairness. Latch: a thread in a section finishes it (weak), and a waiter that can
be admitted again and again is (strong): parking_lot's queue is eventually fair.
Log shard: strong fairness of a client and of the driver, which compete for the
shard's mutex with others, and weak fairness of the syncer, ring, sync and close,
which nothing disables once they are ready. B+tree and store: weak fairness of
each thread that is in a call, of recovery, of the log driver and of a cleaner
that has taken a copy. `edges`: weak fairness of each descent and of the evictor.
No thread is assumed to start an operation, except the page provider's evictor,
which starts when no frame is free, as a fix that finds none makes it do.

What the passing runs assume. They are chosen so that the findings of section 4
do not mask other questions, and this limits what they say:

- `allocator` gives each thread its own shard (F1).
- `AckedIsStable` passes with a single page, where a later image covers an
  earlier one (F2). Passing shard runs call `reset` alone (F3), and shutdown is
  shown to end for `uring` and `dsync` only (F4).
- `NoWriteLost` and `PinnedFrameStays` pass with one fixer (F5). Properties of
  the pool other than `PinnedFrameStays` are claimed only as long as `blind` is
  FALSE (F6), and allocation is in `pool_pressure` alone.
- `wal_log` appends long records from one thread at a time (W1); that survivors
  are a prefix in LSN order is claimed for one appender and one-batch buffers.
- `btree` has no upsert that grows a key of a full two-entry leaf (B1), no
  writer that races a merge (B2, B3), descending scans only without concurrency
  (B4), no continuation of a split that a crash cut short (B5). Range bounds are
  inclusive.
- `edges` runs inner-node splits, inner-node merges and two descents without
  evictions (E1), and claims liveness for the blocking fix: a descent may restart
  for as long as the evictor keeps taking the leaf it is about to reach.
- `kv` lets a checkpoint start only while its caller is alone (K1), runs the
  cleaner without `sync`, `flush_wal` and `checkpoint` (K2, K3), has log writes
  that are not yet synced only where the power stays on, and opens a new store
  only without crashes (K5).

## 4. Where the code and its own words differ

One of these is a run (`kv_checkpoint_race`); those with a configuration named
are reproduced by it, `tlc -config <name>.cfg` on the MC module it is named
after. The others were found while translating the code or with a variant of a
workload, and are what the assumptions above keep out.

Allocator and log:

- F1 (`MCFreePageAllocatorShared`, `PageIdsUnique`). Two threads on one shard:
  the cursor value fetched before a refill is compared with the end stored by it
  (`free_page_allocator.rs:223`, `235`), so a page id is handed out twice.
- F2 (`MCWalShardInversion`, `AckedIsStable`). LSNs are claimed before the mutex
  is taken (`wal_impl.rs:1790`): a flush returns while its record is still in the
  active buffer, because a later LSN was appended first.
- F3. `wal_live` with `ResetIsAlone = FALSE`, `MaxLsn = 3`, `MayFail = FALSE` and
  only `fdatasync` violates `FlushAnswers`: a record appended between `reset`'s
  flush and its truncation is dropped (`wal_impl.rs:2751`) and its flush never
  returns. The comment at `wal_impl.rs:2748` says appenders "observe the
  truncation point consistently".
- F4. `wal_live` with only `fdatasync` and `MayFail = FALSE` violates
  `ShutdownCompletes`: `handle_completion` notifies outside the mutex
  (`wal_impl.rs:3394`), the syncer misses it and parks without a timeout
  (`backend.rs:364`), and `stop_shard` joins it for ever.
- W1 (`MCWalLogChunks`, `SurvivorsAreReplayed`). The mutex is released between
  the chunks of a long record when the buffer fills (`wal_impl.rs:1825`), another
  record lands in between, and replay stops at it (`wal_impl.rs:3612`).
  `wal_impl.rs:2652`: "Each complete caller-defined record above
  `checkpoint_lsn` is passed once to `apply_logical` after chunk reassembly."

Buffer pool:

- F5 (`MCBufferPoolPin`, `PinnedFrameStays`). A loader stores a pin count of one
  over the transient pin of a fix that is about to notice its mistake
  (`buffer_pool.rs:1590`), and that fix's unpin then releases a holder's pin.
  `allocate_and_fix` stores its pin count in the same way (`buffer_pool.rs:3747`):
  with allocation and two fixers `HotEdgeLeadsToItsPage` fails too, and with one
  frame a pin count wraps below zero and the pool deadlocks.
- F6 (`MCBufferPoolRevert`, `FreeFramesAccounted`). A batch that fails to latch a
  frame stores Resident although another thread may have rescued and evicted it
  (`buffer_pool.rs:5371`), so a frame on the free list is Resident. An allocation
  uses a popped frame without looking at its state (`buffer_pool.rs:3740`), which
  carries this further.
- F7. A batch drops its permits while its frames are still Evicting
  (`buffer_pool.rs:5314`), against `buffer_pool.rs:4885`, "The permit must be held
  for the entire lifetime of the Evicting state" (`EvictingBounded` on
  `pool_fixers` with one batch).
- E1 (`MCChildEdgesMerge`, `HotChildIsResident`). When two inner nodes merge, the
  hints of the right node's children still name it; an evictor follows such a hint
  to a page that is no longer in the tree and frees the frame behind a HOT edge.
  `btree.rs:1617`: "there is never a second HOT owner whose parent backlink an
  evictor could update independently".
- E2. A leaf that was merged away keeps its frame: it is never evictable and never
  retired. E3. `btree.rs:2233` says "Eviction must stay non-blocking here", and
  `upgrade_to_exclusive` blocks. E4. `abort_unpublished_unlinked_frame`
  (`buffer_pool.rs:3642`) does not give the page id back.

B+tree:

- B1. An upsert that grows an existing key of a full two-entry leaf reaches the
  assertion that the pending key is absent (`btree.rs:1449`, `1587`); and the
  pending entry may be assigned to the half in which it does not fit.
- B2. `find_leaf_exclusive_with_path` takes an empty leaf it should pass
  (`btree.rs:934`). B3. A writer routed to a leaf that is merged into its left
  neighbour before the writer latches it inserts into the dead page, and the
  acknowledged insert is lost. `repair_separators_after_delete` uses a maximum
  read before the leaf was released (`btree.rs:2375`), and `set_separator_key` has
  no check for room.
- B4. A descending scan misses a new sibling before `update_leaf_left_sibling`
  (`btree.rs:1514`), and an ascending one can return a key twice beside a merge;
  `scan_range` and `scan_prefix` end silently on Restart (`btree.rs:3792`, `3876`).
- B5 (`MCBTreeCrashSplit`, `PublicationFindsItsParent`). After a crash between a
  leaf split's images and the parent's separator, a later split of the right leaf
  finds no parent with an edge to it, retries and panics (`btree.rs:1866`), against
  `kvstore/tests/structural_crash_recovery.rs`, "prefix {prefix_len} must permit
  continued insertion". A crash between a merged left leaf's image and the
  parent's leaves the right leaf routed.

KV store:

- K1 (run `kv_checkpoint_race`, `PromisedIsRecoverable`). A strict put whose page is
  dirtied after the checkpoint's flush pass and whose record is durable before
  `wal.reset` returns, its record is truncated, and a crash loses it. The reset also
  discards the active buffer, so that the put may wait for ever.
- K2. A cleaner's write between the flush and the checkpoint's fsync leaves a header
  that is newer than the pages it speaks for. K3. A cleaner's stale copy reaches the
  file after `pool.flush` has written the page; and flush's dirty check takes no latch.
- K4. A process crash followed by a power loss during recovery loses log writes
  that were read back but never synced.
- K5. A store's first opening syncs a header that names the root before the root's
  image is in the log.
- K6. An overwritten image takes a newer LSN at its old place in the log, so that a
  torn tail may keep it and lose a record between. With more than one shard, a
  shard's loss is not noticed by the others.

## 5. Proofs

TLAPS checks these theorems for every value of the constants, under the named
assumptions of each module (`ASSUME`) and the hypotheses given here.

| Module | Theorems | Hypothesis |
|---|---|---|
| `HybridLatchProofs` | `TypeCorrect`, `MutualExclusion`, `OptimisticConsistency`, `SharedStability`, `NoReleaseOverflow`, `UpgradeSoundness`, `SeqlockDiscipline` | none |
| `FreePageAllocatorSteps`, `FreePageAllocatorProofs` | `AllocatorInvariant`, `PageIdsStayUnique`, `PagesKeepOneOwner`, `FreelistStaysCoalesced` | `HomesDiffer`: no two threads have the same home shard (F1) |
| `BufferPoolSteps`, `BufferPoolProofs` | `PoolInvariant`, `PageTableStaysExact`, `FreeFramesStayAccounted` | none; the claims are for states with `blind` FALSE (F6) |
| | `SingleEvictionsKeepTable`, `SingleEvictionsKeepFrames` | `~Batched`: frames are evicted one at a time |
| `KvStoreSteps`, `KvStoreProofs` | `StoreInvariant`, `WalBeforeDataAlways` | every mode is `Cautious`: excludes K1, K4 and K5 |
| `DurableStoreProofs` | `PromisesFit`, `PromisesKept` | none |

A `Steps` module has the inductive invariant, the lemmas about its operators and
one lemma per action (`...Step`, `...Keeps`); the `Proofs` module has the rest of
the actions and the theorems.

**Latch.** The inductive invariant is `TypeOK` with `LockInv` (who holds the inner
lock at each place), `VersionInv` (the word is odd exactly while a thread is in its
exclusive section, and never beyond its bound) and `GuardInv` (a guard's version is
even and not in the future, and while it is the word's value the page is what it
was when the guard was made). Exclusion alone does not say that a validated read is
a snapshot; the tie between word and page does.

**Allocator.** `EveryPageHasOneOwner` counts owners; the invariant names them. A
page is in one of the `Places` (live, freelist, one hot bucket, one thread's
hands, one shard's reservation), their areas part the pages the cursor has
passed (`Owned`), and each step carries pages from one place to another
(`Carried`) while the rest stays. What makes it inductive is `HandOk`: a claimed
page lies below the shard's `next`, and a new range is stored only when the old
one is used up, which is false when two threads install into one shard. The
freelist's count (`Counted`) follows from what a take and an insert do to the set
of its pages.

**Pool.** `PageTableIsExact` is not inductive: it needs to know whose move it is.
`Sound` adds that a Loading frame has one loader, which alone moves it on; that
the holder of an evicted frame's latch is the only one to free it; that a popped
frame is Free and in one hand, or on the list once; that a fix is about a page
that exists and an allocation about a page nobody else has. Pins play no part, so
the theorem holds although pins are lost (F5). A batch that reverts a frame it no
longer has (F6) breaks the invariant, which is why the general theorems speak of
`~blind`; without batches they hold in every state.

**Store.** An LSN is *covered* when each header and log that a crash may leave
together account for it. The invariant says that all that is or may get into the
data file is covered: durable LSNs, checkpoints, the pages that flush has
latched, the cleaner's copy. Each step leaves headers and logs that account for
at least as much. The two steps that empty the log need `Order` and
`CheckpointOk`: their header is on disk, synced and at or above every record.

**Induction.** The proofs need that a nonempty set of natural numbers has a least
element, for the maximum in `Upper` and for the places of an extent in a queue.
The `Steps` modules take this as the hypothesis `LeastNumber`; the `Proofs`
modules prove it from the well-foundedness of the natural numbers, so no theorem
keeps it as a hypothesis.

Only model-checked: liveness and everything that needs fairness or ENABLED (the
prover has neither); what recursive definitions compute (`BTree`, `BTreeNode`,
`WalLog`, `SlottedPage`), which would need induction over data; the refinement of
`DurableStore` by `KvStore` and `PromisedIsRecoverable`, which rest on the replay
of a whole log, a recursion over its records; `HotEdgeLeadsToItsPage`, `NoWriteLost`, `PinnedFrameStays` and
`BudgetIsExact` of the pool; `WalShard` and `ChildEdges`.

## 6. Not modelled

- Buffer pool: `prefetch` (its only caller, `prefetch_root_children`, is never
  called, and its frames never enter the page table); retirement of pages (the
  tree never calls `retire_stable`); `try_fix_resident_page` through EVICTED inner
  edges (`buffer_pool.rs:3191`); the COOL form of a swip; delta pages; metrics.
- WAL: several shards and their merged replay, the shared ring, the relaxed flush
  timer.
- Page store: its own free-space bookkeeping and file locking.
- Page provider: when it runs and how much it cleans per round; any moment is
  allowed.
- B+tree: exclusive scan bounds and prefix scans. The order in which a flush
  latches several frames is not combined with splits.
- KV store: `hist` stands for the mutations applied; values are their numbers.
- Weak memory: atomics are sequentially consistent in every module.
- `threading` and `kvbench` hold none of the system's state.
