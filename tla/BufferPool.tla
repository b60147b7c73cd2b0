------------------------------ MODULE BufferPool ------------------------------
(***************************************************************************)
(* Residency in the buffer pool: how pages are faulted into frames, pinned,*)
(* written, cleaned and evicted by threads that share no lock.             *)
(*                                                                         *)
(* A page is reached through its stable edge (fix_raw: an atomic swip that *)
(* is HOT(frame) or EVICTED) or by its id (fix_orphan_raw: the page table).*)
(* Pins are plain counters.  A frame's latch is taken exclusively to load, *)
(* write, clean and evict; optimistic holders notice that by validation,   *)
(* so guards holds the threads whose snapshot of their frame is unbroken.  *)
(*                                                                         *)
(* A call that fails (a read or a write error, or no room after            *)
(* FRAME_CAPACITY_STALL_LIMIT rounds) panics: its thread unwinds and is    *)
(* idle, as another thread in its place would be.  The referenced bit only *)
(* postpones an eviction and is left out, as are inner-node parents, which *)
(* ChildEdges is about.                                                    *)
(***************************************************************************)
EXTENDS Integers, FiniteSets

CONSTANTS
    Threads,
    Fixers,           \* the threads that fix pages; the others clean and evict
    Frames,
    Pages,
    NoFrame, NoPage, NoThread,
    FenceBelow,       \* try_lock_hot_pin: with more budget the fence is not taken
    MaxWrites,        \* bound: writes to a page under any load
    Loads             \* one of them is chosen in Init: eviction_budget, and the bounds: the
                      \* pages that exist, those that may exist, the calls of
                      \* try_evict_batch, the writes to a page, and whether reads and
                      \* writes of the store may fail

ASSUME PoolAssumption ==
    /\ Fixers \subseteq Threads /\ IsFiniteSet(Threads)
    /\ IsFiniteSet(Frames) /\ IsFiniteSet(Pages)
    /\ NoFrame \notin Frames /\ NoPage \notin Pages /\ NoThread \notin Threads
ASSUME BoundsAssumption ==
    /\ MaxWrites \in Nat /\ FenceBelow \in Nat
    /\ Loads \subseteq [budget : Nat \ {0}, exist : 0..Cardinality(Pages), pages : Nat,
                        batches : Nat, writes : 0..MaxWrites, fails : BOOLEAN]

VARIABLES
    frame,        \* each frame's header and content
    latch,        \* the exclusive holder of each frame's latch
    guards,       \* threads whose optimistic snapshot is still valid
    edge,         \* each page's stable swip: HOT(frame), or NoFrame for EVICTED
    pageTable,    \* page_table
    freeList,     \* free_list, as the number of copies of each frame
    budget,       \* resident_base_pages_available
    permits,      \* eviction_in_flight
    store,        \* the page store
    latest,       \* what each page should contain
    allocated,    \* pages that have a stable edge
    load,         \* the load; its batches are the calls of try_evict_batch still to come
    blind,        \* history: a batch set a frame Resident that it no longer had Evicting
    th            \* each thread's place and locals

vars == <<frame, latch, guards, edge, pageTable, freeList, budget, permits, store, latest,
          allocated, load, blind, th>>
outside == <<store, latest, allocated, load, blind>>

Idle == [pc |-> "idle", page |-> NoPage, frame |-> NoFrame, popped |-> FALSE,
         back |-> "idle", claim |-> NoPage, copy |-> 0, gen |-> 0, ret |-> "idle", permit |-> 0]

Init ==
    /\ frame = [f \in Frames |-> [state |-> "Free", pid |-> NoPage, pins |-> 0,
                                  dirty |-> FALSE, gen |-> 0, link |-> "None", val |-> 0]]
    /\ latch = [f \in Frames |-> NoThread] /\ guards = {}
    /\ edge = [p \in Pages |-> NoFrame] /\ pageTable = [p \in Pages |-> NoFrame]
    /\ freeList = [f \in Frames |-> 1] /\ budget = Cardinality(Frames) /\ permits = 0
    /\ store = [p \in Pages |-> 0] /\ latest = [p \in Pages |-> 0]
    /\ \E l \in Loads :
         allocated \in {S \in SUBSET Pages : Cardinality(S) = l.exist} /\ load = l
    /\ blind = FALSE
    /\ th = [t \in Threads |-> Idle]

At(t, pc) == th[t].pc = pc
Goto(t, pc) == th' = [th EXCEPT ![t].pc = pc]
Hold(t, f, p) == th' = [th EXCEPT ![t] = [Idle EXCEPT !.pc = "held", !.page = p, !.frame = f]]
Set(f, header) == frame' = [frame EXCEPT ![f] = header]
AddPins(f, n) == Set(f, [frame[f] EXCEPT !.pins = @ + n])

\* Taking a latch exclusively breaks every optimistic snapshot of the frame.
Latchable(f) == latch[f] = NoThread
BreakGuards(f) == guards' = {u \in guards : th[u].frame # f}
Take(t, f) == Latchable(f) /\ latch' = [latch EXCEPT ![f] = t] /\ BreakGuards(f)
Release(f) == latch' = [latch EXCEPT ![f] = NoThread]

\* Mutant: the frame in hand is forgotten.
PushBackNever(t, f) == UNCHANGED freeList

\* The frame in hand goes back to the list if it came from there.
PushBack(t, f) == freeList' = IF th[t].popped THEN [freeList EXCEPT ![f] = @ + 1] ELSE freeList

\* page_table.remove and release_resident_budget
RemoveEntry(p) == pageTable' = [pageTable EXCEPT ![p] = NoFrame]
ReleaseBudget == budget' = budget + 1

\* page_table.try_insert and try_reserve_resident_budget; without budget the
\* entry is taken out again.
MayLoad(p) == pageTable[p] = NoFrame /\ budget > 0
ReserveFor(p, f) ==
    /\ pageTable' = [pageTable EXCEPT ![p] = f]
    /\ budget' = budget - 1

\* try_rescue_evicting_orphan, under the latch.
CanRescue(f, p) ==
    Latchable(f) /\ frame[f].state = "Evicting" /\ frame[f].pins = 0 /\ frame[f].pid = p

-----------------------------------------------------------------------------
(* fix_raw: a page through its stable edge. *)

FixStable(t, p) ==
    /\ At(t, "idle") /\ t \in Fixers /\ p \in allocated
    /\ th' = [th EXCEPT ![t] = [Idle EXCEPT !.pc = "fix", !.page = p, !.back = "fix"]]
    /\ UNCHANGED <<frame, latch, guards, edge, pageTable, freeList, budget, permits, outside>>

\* swip.load: a HOT swip leads to its frame, an EVICTED one to the page table,
\* and a page that is not there needs a frame from the free list.
LoadSwip(t) ==
    /\ At(t, "fix")
    /\ LET p == th[t].page
           f == IF edge[p] # NoFrame THEN edge[p] ELSE pageTable[p]
       IN th' = [th EXCEPT ![t].frame = f, ![t].popped = FALSE,
                           ![t].pc = CASE edge[p] # NoFrame -> "hot"
                                       [] pageTable[p] # NoFrame -> "latch"
                                       [] OTHER -> "pop"]
    /\ UNCHANGED <<frame, latch, guards, edge, pageTable, freeList, budget, permits, outside>>

\* A HOT swip: the frame must be Resident, an optimistic snapshot is taken and
\* the swip read again; a frame caught Evicting is rescued; a Loading one is
\* waited for.
FixHot(t) ==
    /\ At(t, "hot")
    /\ LET f == th[t].frame
           p == th[t].page
       IN \/ /\ frame[f].state = "Resident" /\ Latchable(f) /\ edge[p] = f
             /\ guards' = guards \union {t}
             /\ Goto(t, "pin")
             /\ UNCHANGED <<frame>>
          \/ /\ frame[f].state = "Resident" /\ (~Latchable(f) \/ edge[p] # f)
             /\ Goto(t, "fix")
             /\ UNCHANGED <<frame, guards>>
          \/ /\ frame[f].state # "Resident"
             /\ IF edge[p] = f /\ CanRescue(f, frame[f].pid)
                THEN BreakGuards(f) /\ Set(f, [frame[f] EXCEPT !.state = "Resident"])
                ELSE UNCHANGED <<frame, guards>>
             /\ Goto(t, "fix")
    /\ UNCHANGED <<latch, edge, pageTable, freeList, budget, permits, outside>>

\* pin_count.fetch_add
PinHot(t) ==
    /\ At(t, "pin")
    /\ AddPins(th[t].frame, 1)
    /\ Goto(t, "pinned")
    /\ UNCHANGED <<latch, guards, edge, pageTable, freeList, budget, permits, outside>>

\* Mutant: the pin counts at once.
ConfirmHotAtOnce(t) ==
    /\ At(t, "pinned")
    /\ Hold(t, th[t].frame, th[t].page) /\ guards' = guards \ {t}
    /\ UNCHANGED <<frame, latch, edge, pageTable, freeList, budget, permits, outside>>

\* The pin counts only if the frame is still Resident and the snapshot valid;
\* otherwise it is taken back, a frame caught Evicting is rescued, and the fix
\* starts again.
ConfirmHot(t) ==
    /\ At(t, "pinned")
    /\ LET f == th[t].frame
           rescue == frame[f].pins = 1 /\ frame[f].state = "Evicting" /\ Latchable(f)
       IN IF frame[f].state = "Resident" /\ t \in guards
          THEN Hold(t, f, th[t].page) /\ guards' = guards \ {t} /\ UNCHANGED frame
          ELSE /\ Set(f, [frame[f] EXCEPT !.pins = @ - 1,
                                          !.state = IF rescue THEN "Resident" ELSE @])
               /\ guards' = (IF rescue THEN {u \in guards : th[u].frame # f} ELSE guards) \ {t}
               /\ Goto(t, "fix")
    /\ UNCHANGED <<latch, edge, pageTable, freeList, budget, permits, outside>>

\* pop_free_frame: any frame of the list (an empty list is what eviction is for).
PopFreeFrame(t) ==
    /\ th[t].pc \in {"pop", "oPop", "aPop"}
    /\ \E f \in Frames :
          /\ freeList[f] > 0
          /\ freeList' = [freeList EXCEPT ![f] = @ - 1]
          /\ th' = [th EXCEPT ![t].frame = f, ![t].popped = TRUE,
                              ![t].pc = CASE @ = "pop" -> "latch" [] @ = "oPop" -> "oState"
                                          [] OTHER -> "aInstall"]
    /\ UNCHANGED <<frame, latch, guards, edge, pageTable, budget, permits, outside>>

\* reswizzle_stable_resident_locked: the edge is swung only if it is still
\* EVICTED.
PinAndReswizzle(p, f) ==
    IF edge[p] = NoFrame
    THEN /\ edge' = [edge EXCEPT ![p] = f]
         /\ Set(f, [frame[f] EXCEPT !.pins = @ + 1, !.link = "Stable"])
    ELSE AddPins(f, 1) /\ UNCHANGED edge

\* Under the exclusive latch: the page became resident (pin it and make the
\* edge HOT again), or the frame is not ours to load (start again), or another
\* thread registered the page first or there is no resident budget (give the
\* frame back), or the load starts, keeping the latch.
FixCold(t) ==
    /\ At(t, "latch")
    /\ LET f == th[t].frame
           p == th[t].page
           h == frame[f]
       IN /\ Latchable(f) /\ BreakGuards(f)
          /\ \/ /\ h.state = "Resident" /\ h.pid = p
                /\ PinAndReswizzle(p, f)
                /\ Hold(t, f, p)
                /\ UNCHANGED <<latch, pageTable, freeList, budget>>
             \/ /\ \/ h.state = "Resident" /\ h.pid # p
                   \/ h.state \in {"Loading", "Evicting"}
                   \/ h.state = "Free" /\ ~th[t].popped
                /\ Goto(t, "fix")
                /\ UNCHANGED <<frame, latch, edge, pageTable, freeList, budget>>
             \/ /\ h.state = "Free" /\ th[t].popped
                /\ ~MayLoad(p)
                /\ PushBack(t, f)
                /\ th' = [th EXCEPT ![t].popped = FALSE, ![t].frame = NoFrame,
                                    ![t].pc = IF pageTable[p] # NoFrame THEN "fix" ELSE "budget"]
                /\ UNCHANGED <<frame, latch, edge, pageTable, budget>>
             \/ /\ h.state = "Free" /\ th[t].popped
                /\ MayLoad(p) /\ ReserveFor(p, f)
                /\ Set(f, [h EXCEPT !.pid = p, !.state = "Loading"])
                /\ latch' = [latch EXCEPT ![f] = t]
                /\ th' = [th EXCEPT ![t].pc = "load", ![t].popped = FALSE]
                /\ UNCHANGED <<edge, freeList>>
    /\ UNCHANGED <<permits, outside>>

\* A panic: what the thread holds by a guard is dropped, and a token of the budget
\* that an allocation reserved before its frame is not, there being no guard for it.
Unwound(t) ==
    th' = [th EXCEPT ![t] = [Idle EXCEPT !.pc = IF "aPop" \in {th[t].pc, th[t].ret}
                                                THEN "leaked" ELSE "idle"]]

\* page_store.read_page
ReadPage(t) ==
    /\ th[t].pc \in {"load", "oLoad"}
    /\ Set(th[t].frame, [frame[th[t].frame] EXCEPT !.val = store[th[t].page]])
    /\ Goto(t, IF At(t, "load") THEN "install" ELSE "oInstall")
    /\ UNCHANGED <<latch, guards, edge, pageTable, freeList, budget, permits, outside>>

\* install_loaded_frame_metadata stores a pin count of one whatever it was.
Installed(f, link) ==
    [frame[f] EXCEPT !.state = "Resident", !.pins = 1, !.dirty = FALSE, !.link = link]

\* release_loading_frame
ReleaseLoadingFrame(f, p) ==
    /\ Set(f, [Installed(f, "None") EXCEPT !.state = "Free", !.pins = 0])
    /\ RemoveEntry(p) /\ ReleaseBudget
    /\ freeList' = [freeList EXCEPT ![f] = @ + 1]

\* The page cannot be read: LoadingFrameReservation gives the frame back, and the
\* latch is dropped.
ReadFailed(t) ==
    /\ th[t].pc \in {"load", "oLoad"}
    /\ ReleaseLoadingFrame(th[t].frame, th[t].page)
    /\ IF At(t, "load") THEN Release(th[t].frame) ELSE UNCHANGED latch
    /\ load.fails
    /\ Unwound(t)
    /\ UNCHANGED <<guards, edge, permits, outside>>

\* The edge is swung from EVICTED to HOT; when it has changed meanwhile the
\* frame is given up and the fix starts again.
InstallStable(t) ==
    /\ At(t, "install")
    /\ LET f == th[t].frame
           p == th[t].page
       IN /\ IF edge[p] = NoFrame
             THEN /\ Set(f, Installed(f, "Stable"))
                  /\ edge' = [edge EXCEPT ![p] = f]
                  /\ Hold(t, f, p)
                  /\ UNCHANGED <<pageTable, freeList, budget>>
             ELSE /\ ReleaseLoadingFrame(f, p)
                  /\ th' = [th EXCEPT ![t].pc = "fix", ![t].frame = NoFrame]
                  /\ UNCHANGED edge
          /\ Release(f)
    /\ UNCHANGED <<guards, permits, outside>>

-----------------------------------------------------------------------------
(* fix_orphan_raw: a page by its id. *)

FixOrphan(t, p) ==
    /\ At(t, "idle") /\ t \in Fixers /\ p \in allocated
    /\ th' = [th EXCEPT ![t] = [Idle EXCEPT !.pc = "orphan", !.page = p, !.back = "orphan"]]
    /\ UNCHANGED <<frame, latch, guards, edge, pageTable, freeList, budget, permits, outside>>

OrphanLookup(t) ==
    /\ At(t, "orphan")
    /\ LET f == pageTable[th[t].page]
       IN th' = [th EXCEPT ![t].frame = f, ![t].popped = FALSE,
                           ![t].pc = IF f = NoFrame THEN "oPop" ELSE "oState"]
    /\ UNCHANGED <<frame, latch, guards, edge, pageTable, freeList, budget, permits, outside>>

Retry(t) == th' = [th EXCEPT ![t].pc = "orphan", ![t].popped = FALSE, ![t].frame = NoFrame]

\* Without a latch: wait for a Loading frame, rescue an Evicting one, try to
\* pin a Resident one (try_lock_hot_pin: without the fence if there is budget
\* enough) and go for the latch otherwise.
OrphanState(t) ==
    /\ At(t, "oState")
    /\ LET f == th[t].frame
       IN \/ /\ frame[f].state \in {"Loading", "Evicting"}
             /\ IF CanRescue(f, th[t].page)
                THEN BreakGuards(f) /\ Set(f, [frame[f] EXCEPT !.state = "Resident"])
                ELSE UNCHANGED <<frame, guards>>
             /\ PushBack(t, f) /\ Retry(t)
          \/ /\ frame[f].state \in {"Free", "Resident"}
             /\ Goto(t, IF frame[f].state = "Free" THEN "oLatch"
                        ELSE IF budget > FenceBelow THEN "oOpen" ELSE "oPin")
             /\ UNCHANGED <<frame, guards, freeList>>
    /\ UNCHANGED <<latch, edge, pageTable, budget, permits, outside>>

\* with_fix_orphan_hot_pin: count the pin and look again, inside the fence
\* that keeps frames from being freed meanwhile, or in the open.
OrphanPin(t) ==
    /\ th[t].pc \in {"oPin", "oOpen"}
    /\ IF frame[th[t].frame].pid = th[t].page
       THEN AddPins(th[t].frame, 1) /\ Goto(t, IF At(t, "oPin") THEN "oPinned" ELSE "oBare")
       ELSE UNCHANGED frame /\ Goto(t, "oLatch")
    /\ UNCHANGED <<latch, guards, edge, pageTable, freeList, budget, permits, outside>>

OrphanConfirm(t) ==
    /\ th[t].pc \in {"oPinned", "oBare"}
    /\ LET f == th[t].frame
       IN IF frame[f].state = "Resident" /\ frame[f].pid = th[t].page
          THEN PushBack(t, f) /\ Hold(t, f, th[t].page) /\ UNCHANGED frame
          ELSE AddPins(f, -1) /\ Goto(t, "oLatch") /\ UNCHANGED freeList
    /\ UNCHANGED <<latch, guards, edge, pageTable, budget, permits, outside>>

FenceHeld == \E t \in Threads : At(t, "oPinned")

\* The section under the exclusive latch.  A load starts with the frame marked
\* Loading and the latch released.
OrphanExclusive(t) ==
    /\ At(t, "oLatch")
    /\ LET f == th[t].frame
           p == th[t].page
           h == frame[f]
           mine == h.state = "Free" /\ th[t].popped
       IN /\ Latchable(f) /\ BreakGuards(f)
          /\ \/ /\ h.state = "Resident" /\ h.pid = p
                /\ AddPins(f, 1) /\ Hold(t, f, p)
                /\ UNCHANGED <<pageTable, freeList, budget>>
             \/ /\ ~mine /\ ~(h.state = "Resident" /\ h.pid = p)
                /\ PushBack(t, f) /\ Retry(t)
                /\ UNCHANGED <<frame, pageTable, budget>>
             \/ /\ mine /\ ~MayLoad(p)
                /\ PushBack(t, f)
                /\ th' = [th EXCEPT ![t].popped = FALSE, ![t].frame = NoFrame,
                             ![t].pc = IF pageTable[p] # NoFrame THEN "orphan" ELSE "budget"]
                /\ UNCHANGED <<frame, pageTable, budget>>
             \/ /\ mine /\ MayLoad(p) /\ ReserveFor(p, f)
                /\ Set(f, [h EXCEPT !.pid = p, !.link = "None", !.state = "Loading"])
                /\ th' = [th EXCEPT ![t].pc = "oLoad", ![t].popped = FALSE]
                /\ UNCHANGED freeList
    /\ UNCHANGED <<latch, edge, permits, outside>>

InstallOrphan(t) ==
    /\ At(t, "oInstall")
    /\ Set(th[t].frame, Installed(th[t].frame, "Unswizzled"))
    /\ Hold(t, th[t].frame, th[t].page)
    /\ UNCHANGED <<latch, guards, edge, pageTable, freeList, budget, permits, outside>>

\* wait_for_resident_budget returns once a page may become resident.
BudgetReturned(t) ==
    /\ At(t, "budget") /\ budget > 0
    /\ Goto(t, th[t].back)
    /\ UNCHANGED <<frame, latch, guards, edge, pageTable, freeList, budget, permits, outside>>

-----------------------------------------------------------------------------
(* allocate_stable: a new page, resident from the start. *)

\* allocate_page_id; the allocator hands an id out once (FreePageAllocator).
Allocate(t, p) ==
    /\ At(t, "idle") /\ t \in Fixers
    /\ Cardinality(allocated) < load.pages
    /\ p \notin allocated /\ \A u \in Threads : th[u].page # p
    /\ th' = [th EXCEPT ![t] = [Idle EXCEPT !.pc = "reserve", !.page = p, !.back = "reserve"]]
    /\ UNCHANGED <<frame, latch, guards, edge, pageTable, freeList, budget, permits, outside>>

\* Mutant: the wait found budget, and none is taken after it.
ReserveBudgetUnpaid(t) ==
    /\ At(t, "reserve")
    /\ Goto(t, IF budget > 0 THEN "aPop" ELSE "budget")
    /\ UNCHANGED <<frame, latch, guards, edge, pageTable, freeList, budget, permits, outside>>

\* reserve_resident_budget, which comes before the frame here.
ReserveBudget(t) ==
    /\ At(t, "reserve")
    /\ IF budget > 0 THEN budget' = budget - 1 /\ Goto(t, "aPop")
                     ELSE UNCHANGED budget /\ Goto(t, "budget")
    /\ UNCHANGED <<frame, latch, guards, edge, pageTable, freeList, permits, outside>>

\* The frame is filled in under its latch, the pin count stored as in a load,
\* and the page registered.
AllocateAndFix(t) ==
    /\ At(t, "aInstall")
    /\ LET f == th[t].frame
       IN /\ Latchable(f) /\ BreakGuards(f)
          /\ Set(f, [Installed(f, "None") EXCEPT !.pid = th[t].page, !.val = 0])
          /\ pageTable' = [pageTable EXCEPT ![th[t].page] = f]
    /\ th' = [th EXCEPT ![t].pc = "aLink", ![t].popped = FALSE]
    /\ UNCHANGED <<latch, edge, freeList, budget, permits, outside>>

\* stable_frame under the latch, and NewStablePage::install, which makes the
\* edge known and drops latch and pin.
InstallNewPage(t) ==
    /\ At(t, "aLink")
    /\ LET f == th[t].frame
       IN /\ Latchable(f) /\ BreakGuards(f)
          /\ Set(f, [frame[f] EXCEPT !.link = "Stable", !.pins = @ - 1])
          /\ edge' = [edge EXCEPT ![th[t].page] = f]
    /\ allocated' = allocated \union {th[t].page}
    /\ th' = [th EXCEPT ![t] = Idle]
    /\ UNCHANGED <<latch, pageTable, freeList, budget, permits, store, latest, load,
                   blind>>

-----------------------------------------------------------------------------
(* The holder of a pin. *)

\* A change of the page under its exclusive latch, and finish_dirty_mark.
WritePage(t) ==
    /\ At(t, "held")
    /\ LET f == th[t].frame
           p == th[t].page
       IN /\ latest[p] < load.writes
          /\ Latchable(f) /\ BreakGuards(f)
          /\ latest' = [latest EXCEPT ![p] = @ + 1]
          /\ Set(f, [frame[f] EXCEPT !.val = latest'[p], !.dirty = TRUE, !.gen = @ + 1])
    /\ UNCHANGED <<latch, edge, pageTable, freeList, budget, permits, store, th, allocated,
                   load, blind>>

\* unfix_raw
Unfix(t) ==
    /\ At(t, "held")
    /\ AddPins(th[t].frame, -1)
    /\ th' = [th EXCEPT ![t] = Idle]
    /\ UNCHANGED <<latch, guards, edge, pageTable, freeList, budget, permits, outside>>

-----------------------------------------------------------------------------
(* try_flush_dirty_batch: clean a dirty page without evicting it. *)

\* Frames are cleaned and evicted by a fix that found no frame or no budget; they
\* are cleaned by the page provider as well, and evicted by whoever calls
\* try_evict_one or try_evict_batch.
MakesRoom(t) ==
    \/ At(t, "idle")
    \/ th[t].pc \in {"pop", "oPop", "aPop"} /\ \A f \in Frames : freeList[f] = 0
    \/ At(t, "budget") /\ budget = 0

\* Room was made, or not; a fix goes on where it stood.
Done(t) ==
    th' = [th EXCEPT ![t].pc = th[t].ret, ![t].ret = "idle", ![t].frame = NoFrame,
                     ![t].claim = NoPage, ![t].copy = 0, ![t].gen = 0, ![t].permit = 0]

\* panic_pool_exhausted, after FRAME_CAPACITY_STALL_LIMIT rounds of
\* pop_free_frame or wait_for_resident_budget.
PoolExhausted(t) ==
    /\ MakesRoom(t) /\ ~At(t, "idle")
    /\ Unwound(t)
    /\ UNCHANGED <<frame, latch, guards, edge, pageTable, freeList, budget, permits, outside>>

\* Under the latch: claim the page, pin the frame, copy its content and
\* remember its dirty generation.
CopyDirtyPage(t, f) ==
    /\ MakesRoom(t)
    /\ frame[f].state = "Resident" /\ frame[f].dirty
    /\ \A u \in Threads : th[u].claim # frame[f].pid
    /\ Latchable(f) /\ BreakGuards(f)
    /\ AddPins(f, 1)
    /\ th' = [th EXCEPT ![t].pc = "write", ![t].ret = th[t].pc, ![t].frame = f,
                        ![t].claim = frame[f].pid, ![t].copy = frame[f].val,
                        ![t].gen = frame[f].gen]
    /\ UNCHANGED <<latch, edge, pageTable, freeList, budget, permits, outside>>

\* page_store.write_pages
WriteBack(t) ==
    /\ At(t, "write")
    /\ store' = [store EXCEPT ![th[t].claim] = th[t].copy]
    /\ Goto(t, "clean")
    /\ UNCHANGED <<frame, latch, guards, edge, pageTable, freeList, budget, permits, latest,
                   allocated, load, blind>>

\* The write fails, after it reached the store or before: the claim and the pin
\* are dropped, the page stays dirty, and flush_dirty_for_capacity and the page
\* provider panic.
FlushFailed(t) ==
    /\ At(t, "write")
    /\ AddPins(th[t].frame, -1)
    /\ store' \in {store, [store EXCEPT ![th[t].claim] = th[t].copy]}
    /\ load.fails
    /\ Unwound(t)
    /\ UNCHANGED <<latch, guards, edge, pageTable, freeList, budget, permits, latest,
                   allocated, load, blind>>

\* Mutant: the dirty bit is cleared whatever happened since the copy.
MarkCleanAlways(t) ==
    /\ At(t, "clean")
    /\ LET f == th[t].frame
       IN /\ Latchable(f) /\ BreakGuards(f)
          /\ Set(f, [frame[f] EXCEPT !.dirty = FALSE, !.pins = @ - 1])
    /\ Done(t)
    /\ UNCHANGED <<latch, edge, pageTable, freeList, budget, permits, outside>>

\* Under the latch again: clean, unless the page was changed since the copy;
\* then the pin and the claim are dropped.
MarkClean(t) ==
    /\ At(t, "clean")
    /\ LET f == th[t].frame
           unchanged == /\ frame[f].state = "Resident" /\ frame[f].pid = th[t].claim
                        /\ frame[f].dirty /\ frame[f].gen = th[t].gen
       IN /\ Latchable(f) /\ BreakGuards(f)
          /\ Set(f, [frame[f] EXCEPT !.dirty = IF unchanged THEN FALSE ELSE @, !.pins = @ - 1])
    /\ Done(t)
    /\ UNCHANGED <<latch, edge, pageTable, freeList, budget, permits, outside>>

-----------------------------------------------------------------------------
(* Eviction. *)

Evictable(f) ==
    /\ Latchable(f) /\ frame[f].state = "Resident" /\ frame[f].pins = 0 /\ ~frame[f].dirty
    /\ permits < load.budget

\* with_single_evict_candidate: latch, permit, Resident -> Evicting.
EvictOne(t, f) ==
    /\ MakesRoom(t) /\ Evictable(f) /\ Take(t, f)
    /\ permits' = permits + 1
    /\ Set(f, [frame[f] EXCEPT !.state = "Evicting"])
    /\ th' = [th EXCEPT ![t].pc = "recheck", ![t].ret = th[t].pc, ![t].frame = f,
                        ![t].permit = 1]
    /\ UNCHANGED <<edge, pageTable, freeList, budget, outside>>

\* The eviction is given up: back to Resident, then the latch and the permit
\* (a batch no longer has one) are dropped.
Revert(t, f) ==
    /\ Set(f, [frame[f] EXCEPT !.state = "Resident"])
    /\ Release(f)
    /\ permits' = permits - th[t].permit
    /\ Done(t)

\* A reader may have counted a pin before the frame was Evicting.
RecheckPins(t) ==
    /\ At(t, "recheck")
    /\ IF frame[th[t].frame].pins # 0
       THEN Revert(t, th[t].frame)
       ELSE Goto(t, "unswizzle") /\ UNCHANGED <<frame, latch, permits>>
    /\ UNCHANGED <<guards, edge, pageTable, freeList, budget, outside>>

\* try_select_evict_candidate and release(): the frame is left Evicting, but
\* its latch and its permit are already given back.
SelectForBatch(t, f) ==
    /\ load.batches > 0 /\ load' = [load EXCEPT !.batches = @ - 1]
    /\ MakesRoom(t) /\ Evictable(f) /\ BreakGuards(f)
    /\ Set(f, [frame[f] EXCEPT !.state = "Evicting"])
    /\ th' = [th EXCEPT ![t].pc = "finalize", ![t].ret = th[t].pc, ![t].frame = f]
    /\ UNCHANGED <<latch, edge, pageTable, freeList, budget, permits, store, latest,
                   allocated, blind>>

\* try_finalize_evicting_candidate: without the latch the frame is set back to
\* Resident at once; with it, the candidate is checked again.
FinalizeBatch(t) ==
    /\ At(t, "finalize")
    /\ LET f == th[t].frame
       IN \/ /\ ~Latchable(f)
             /\ Set(f, [frame[f] EXCEPT !.state = "Resident"])
             /\ blind' = (blind \/ frame[f].state # "Evicting")
             /\ Done(t)
             /\ UNCHANGED <<latch, guards>>
          \/ /\ Latchable(f) /\ frame[f].state # "Evicting"
             /\ BreakGuards(f) /\ Done(t)
             /\ UNCHANGED <<frame, latch, blind>>
          \/ /\ frame[f].state = "Evicting" /\ (frame[f].pins # 0 \/ frame[f].dirty)
             /\ Latchable(f) /\ BreakGuards(f)
             /\ Set(f, [frame[f] EXCEPT !.state = "Resident"])
             /\ Done(t)
             /\ UNCHANGED <<latch, blind>>
          \/ /\ frame[f].state = "Evicting" /\ frame[f].pins = 0 /\ ~frame[f].dirty
             /\ Take(t, f)
             /\ Goto(t, "unswizzle")
             /\ UNCHANGED <<frame, blind>>
    /\ UNCHANGED <<edge, pageTable, freeList, budget, permits, store, latest, allocated,
                   load>>

\* Mutant: the edge keeps pointing at the frame.
LeaveParentHot(t) ==
    /\ At(t, "unswizzle")
    /\ Goto(t, "final")
    /\ UNCHANGED <<frame, latch, guards, edge, pageTable, freeList, budget, permits, outside>>

\* unswizzle_parent: the stable edge becomes EVICTED.
UnswizzleParent(t) ==
    /\ At(t, "unswizzle")
    /\ edge' = IF frame[th[t].frame].link = "Stable"
               THEN [edge EXCEPT ![frame[th[t].frame].pid] = NoFrame] ELSE edge
    /\ Goto(t, "final")
    /\ UNCHANGED <<frame, latch, guards, pageTable, freeList, budget, permits, outside>>

Freeable(f) == frame[f].pins = 0 /\ ~frame[f].dirty /\ frame[f].state = "Evicting"

\* Mutant: the page table keeps its entry.
FreeKeepsEntry(t) ==
    /\ At(t, "final") /\ ~FenceHeld /\ Freeable(th[t].frame)
    /\ Set(th[t].frame, [frame[th[t].frame] EXCEPT !.state = "Free", !.link = "None"])
    /\ budget' = budget + 1
    /\ freeList' = [freeList EXCEPT ![th[t].frame] = @ + 1]
    /\ Goto(t, "release")
    /\ UNCHANGED <<latch, guards, edge, pageTable, permits, outside>>

\* Inside the fence: free the frame unless a pin or a change came in.  The
\* frame is on the free list before its latch is dropped.
FreeEvicting(t) ==
    /\ At(t, "final") /\ ~FenceHeld
    /\ LET f == th[t].frame
       IN IF Freeable(f)
          THEN /\ RemoveEntry(frame[f].pid) /\ ReleaseBudget
               /\ Set(f, [frame[f] EXCEPT !.state = "Free", !.link = "None"])
               /\ freeList' = [freeList EXCEPT ![f] = @ + 1]
               /\ Goto(t, "release")
               /\ UNCHANGED <<latch, permits>>
          ELSE Revert(t, f) /\ UNCHANGED <<pageTable, freeList, budget>>
    /\ UNCHANGED <<guards, edge, outside>>

ReleaseEvicted(t) ==
    /\ At(t, "release")
    /\ Release(th[t].frame)
    /\ permits' = permits - th[t].permit
    /\ Done(t)
    /\ UNCHANGED <<frame, guards, edge, pageTable, freeList, budget, outside>>

-----------------------------------------------------------------------------
Next ==
    \E t \in Threads :
        \/ \E p \in Pages : FixStable(t, p) \/ FixOrphan(t, p) \/ Allocate(t, p)
        \/ ReserveBudget(t) \/ AllocateAndFix(t) \/ InstallNewPage(t)
        \/ LoadSwip(t) \/ FixHot(t) \/ PinHot(t) \/ ConfirmHot(t)
        \/ PopFreeFrame(t) \/ FixCold(t) \/ ReadPage(t) \/ InstallStable(t)
        \/ ReadFailed(t) \/ FlushFailed(t) \/ PoolExhausted(t)
        \/ OrphanLookup(t) \/ OrphanState(t) \/ OrphanPin(t) \/ OrphanConfirm(t)
        \/ OrphanExclusive(t) \/ InstallOrphan(t) \/ BudgetReturned(t)
        \/ WritePage(t) \/ Unfix(t)
        \/ \E f \in Frames : CopyDirtyPage(t, f) \/ EvictOne(t, f) \/ SelectForBatch(t, f)
        \/ WriteBack(t) \/ MarkClean(t)
        \/ RecheckPins(t) \/ FinalizeBatch(t) \/ UnswizzleParent(t) \/ FreeEvicting(t)
        \/ ReleaseEvicted(t)

Spec == Init /\ [][Next]_vars
-----------------------------------------------------------------------------
Locals ==
    [pc : {"idle", "fix", "hot", "pin", "pinned", "pop", "latch", "load", "install", "budget",
           "orphan", "oState", "oPin", "oPinned", "oOpen", "oBare", "oPop", "oLatch", "oLoad",
           "oInstall", "held", "reserve", "aPop", "aInstall", "aLink", "leaked",
           "write", "clean", "recheck", "finalize", "unswizzle", "final", "release"},
     page : Pages \union {NoPage}, frame : Frames \union {NoFrame}, popped : BOOLEAN,
     back : {"idle", "fix", "orphan", "reserve"}, claim : Pages \union {NoPage},
     copy : 0..MaxWrites,
     gen : Nat, ret : {"idle", "pop", "oPop", "aPop", "budget"}, permit : {0, 1}]

\* The types, with the counters in their ranges: fetch_sub never takes a pin
\* count, the budget or the permits below zero (unfix_raw's debug_assert).
TypeOK ==
    /\ frame \in [Frames -> [state : {"Free", "Loading", "Resident", "Evicting"},
                             pid : Pages \union {NoPage}, pins : Nat, dirty : BOOLEAN,
                             gen : Nat, link : {"None", "Stable", "Unswizzled"},
                             val : 0..MaxWrites]]
    /\ latch \in [Frames -> Threads \union {NoThread}] /\ guards \subseteq Threads
    /\ edge \in [Pages -> Frames \union {NoFrame}]
    /\ pageTable \in [Pages -> Frames \union {NoFrame}]
    /\ freeList \in [Frames -> Nat]
    /\ budget \in Nat /\ permits \in 0..load.budget
    /\ store \in [Pages -> 0..MaxWrites] /\ latest \in [Pages -> 0..MaxWrites]
    /\ allocated \subseteq Pages /\ load.batches \in Nat /\ blind \in BOOLEAN
    /\ th \in [Threads -> Locals]

Occupied(f) == frame[f].state # "Free"

\* The page table is exactly the map from the pages in frames to their frames:
\* however fixes, give-ups and evictions overlap, no page is in two frames and
\* no frame that holds a page is lost to the table.
PageTableIsExact ==
    \A f \in Frames, p \in Pages : pageTable[p] = f <=> Occupied(f) /\ frame[f].pid = p

\* A stable edge that is HOT leads to the frame that holds its page, never to a
\* frame that was recycled: eviction unswizzles before it frees.
HotEdgeLeadsToItsPage ==
    \A p \in Pages : edge[p] # NoFrame =>
        /\ frame[edge[p]].pid = p /\ frame[edge[p]].state \in {"Resident", "Evicting"}
        /\ frame[edge[p]].link = "Stable"

\* A Free frame is on the free list once, or in the hands of the one thread that
\* popped it, and a frame that holds a page is in neither place: no frame is
\* leaked and none is handed out twice (FreeList::push's precondition).
FreeFramesAccounted ==
    \A f \in Frames :
        freeList[f] + Cardinality({t \in Threads : th[t].popped /\ th[t].frame = f})
            = IF Occupied(f) THEN 0 ELSE 1

\* The resident budget is the number of frames without a page, less those an
\* allocation has reserved before it has a frame or lost by a panic there: no
\* other token is lost and none is doubled, whatever fails, as long as no batch
\* reverts a frame it has lost to another thread.
BudgetIsExact ==
    ~blind =>
    budget + Cardinality({t \in Threads : th[t].pc \in {"aPop", "aInstall", "leaked"}
                                             \/ th[t].ret = "aPop"})
        = Cardinality({f \in Frames : ~Occupied(f)})

\* The latest content of a page is in the frame that holds it, and in the store
\* whenever that frame may be dropped: it is clean, or there is none (no-steal
\* eviction, and MarkClean's generation check), again without a blind revert.
NoWriteLost ==
    ~blind =>
    \A p \in Pages :
        IF \E f \in Frames : frame[f].pid = p /\ frame[f].state \in {"Resident", "Evicting"}
        THEN \A f \in Frames : frame[f].pid = p /\ frame[f].state \in {"Resident", "Evicting"} =>
                 frame[f].val = latest[p] /\ (~frame[f].dirty => store[p] = latest[p])
        ELSE store[p] = latest[p]

\* PinnedFrame: "The frame cannot be evicted for the lifetime of this guard".
\* What a fix or an allocation returned holds its page until the pin is dropped.
PinnedFrameStays ==
    \A t \in Threads :
        th[t].pc \in {"held", "aLink"} =>
            Occupied(th[t].frame) /\ frame[th[t].frame].pid = th[t].page

\* At most eviction_budget frames are Evicting at a time.
EvictingBounded == Cardinality({f \in Frames : frame[f].state = "Evicting"}) <= load.budget
=============================================================================
