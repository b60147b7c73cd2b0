--------------------------- MODULE BufferPoolProofs ---------------------------
(***************************************************************************)
(* PageTableIsExact and FreeFramesAccounted for any threads, frames, pages *)
(* and loads: the steps that move a frame between the free list, a hand    *)
(* and the page table, and the theorems.                                   *)
(***************************************************************************)
EXTENDS BufferPoolSteps

-----------------------------------------------------------------------------
(* Steps that move a frame between the list, a hand and the page table. *)

\* Thread t acts on frame f, which nobody else loads or evicts.
Hard(t, f) ==
    /\ Types'
    /\ \A u \in Threads \ {t} : th'[u] = th[u]
    /\ LocalOk(th'[t])
    /\ allocated' = allocated
    /\ th'[t].back = "idle" \/ (th'[t].back = th[t].back /\ th'[t].page = th[t].page)
    /\ \A g \in Frames \ {f} : frame'[g] = frame[g] /\ latch'[g] = latch[g]
    /\ latch'[f] = latch[f] \/ latch[f] \in {NoThread, t}
    /\ \A u \in Threads \ {t} : th[u].pc \in Loaders \union Evictors => th[u].frame # f
    /\ th'[t].pc \in Latched => th'[t].frame = f /\ latch'[f] = t
    /\ th'[t].pc \in Loaders =>
         th'[t].frame = f /\ frame'[f].state = "Loading" /\ frame'[f].pid = th'[t].page
    /\ th'[t].pc \notin Evictors

\* What every step keeps that changes the page table, the free list or the
\* state of one frame its thread owns.
LEMMA HardKeeps ==
    ASSUME Sound, NEW t \in Threads, NEW f \in Frames, Hard(t, f)
    PROVE  /\ Types' /\ Locality' /\ OwnPages' /\ Latching' /\ Loading' /\ Evicting'
<1> USE DEF Sound, Hard
<1>1. Types' /\ Locality'
  BY Zenon DEF Locality
<1>2. OwnPages'
  BY DEF OwnPages
<1>3. Latching'
  <2> SUFFICES ASSUME NEW u \in Threads, th'[u].pc \in Latched
               PROVE  latch'[th'[u].frame] = u
    BY Zenon DEF Latching
  <2>1. CASE u = t
    BY <2>1, Zenon
  <2>2. CASE u # t
    <3>1. th[u].frame \in Frames
      BY <2>2 DEF Locality, LocalOk, Latched, Evictors, Framed
    <3> QED
      BY <2>2, <3>1, PoolAssumption DEF Latching
  <2> QED
    BY <2>1, <2>2, Zenon
<1>4. Loading'
  <2> SUFFICES ASSUME NEW u \in Threads, th'[u].pc \in Loaders
               PROVE  /\ frame'[th'[u].frame].state = "Loading"
                      /\ frame'[th'[u].frame].pid = th'[u].page
                      /\ \A w \in Threads \ {u} : th'[w].pc \in Loaders => th'[w].frame # th'[u].frame
    BY Zenon DEF Loading
  <2>1. CASE u = t
    BY <2>1, Zenon
  <2>2. CASE u # t
    <3>1. th[u].frame \in Frames \ {f}
      BY <2>2 DEF Locality, LocalOk, Loaders, Framed
    <3> QED
      BY <2>2, <3>1 DEF Loading
  <2> QED
    BY <2>1, <2>2, Zenon
<1>5. Evicting'
  <2> SUFFICES ASSUME NEW u \in Threads \ {t}, th[u].pc \in Evictors
               PROVE  frame'[th[u].frame].state \in {"Resident", "Evicting"}
    BY DEF Evicting
  <2>1. th[u].frame \in Frames \ {f}
    BY Zenon DEF Locality, LocalOk, Evictors, Framed
  <2> QED
    BY <2>1, Zenon DEF Evicting
<1> QED
  BY <1>1, <1>2, <1>3, <1>4, <1>5, Zenon

\* Why nobody else loads or evicts it.
LEMMA Alone ==
    ASSUME Sound, NEW t \in Threads, NEW f \in Frames,
           \/ frame[f].state = "Free"
           \/ th[t].pc \in Loaders \union Evictors /\ th[t].frame = f
    PROVE  \A u \in Threads \ {t} : th[u].pc \in Loaders \union Evictors => th[u].frame # f
<1> SUFFICES ASSUME NEW u \in Threads \ {t}, th[u].pc \in Loaders \union Evictors, th[u].frame = f
             PROVE  FALSE
  OBVIOUS
<1>1. frame[f].state # "Free"
  BY Zenon DEF Sound, Loading, Evicting
<1>2. CASE th[t].pc \in Loaders /\ th[t].frame = f
  BY <1>2, Zenon DEF Sound, Loading, Evicting
<1>3. CASE th[t].pc \in Evictors /\ th[t].frame = f
  <2>1. th[u].pc \in Evictors
    BY <1>3, Zenon DEF Sound, Loading, Evicting
  <2> QED
    BY <1>3, <2>1 DEF Sound, Latching, Latched
<1> QED
  BY <1>1, <1>2, <1>3

\* The table is left alone, and the step is not an allocation's last.
LEMMA StillRegistered ==
    ASSUME Sound, NEW t \in Threads, th[t].pc # "aLink",
           \A u \in Threads \ {t} : th'[u] = th[u], allocated' = allocated,
           \A p \in Pages : pageTable'[p] \in {pageTable[p], NoFrame}
    PROVE  Registered'
BY DEF Sound, Registered

\* Popping a frame of the free list.
LEMMA PopFreeFrameKeeps ==
    ASSUME Sound, NEW t \in Threads, PopFreeFrame(t)
    PROVE  Sound'
<1> DEFINE v == CASE th[t].pc = "pop" -> "latch" [] th[t].pc = "oPop" -> "oState"
                  [] OTHER -> "aInstall"
<1>1. PICK f \in Frames :
        /\ freeList[f] > 0 /\ freeList' = [freeList EXCEPT ![f] = @ - 1]
        /\ th' = [th EXCEPT ![t].frame = f, ![t].popped = TRUE, ![t].pc = v]
  BY Zenon DEF PopFreeFrame, Sound, Types, Places
<1>2. /\ th[t].pc \in {"pop", "oPop", "aPop"} /\ v \in {"latch", "oState", "aInstall"}
      /\ v \in {"latch", "oState"} => th[t].pc \in Fixing
      /\ v = "aInstall" => th[t].pc \in Allocating
  BY Zenon DEF PopFreeFrame, Fixing, Allocating
<1>3. v \in PlaceNames
  BY <1>2 DEF PlaceNames, Framed
<1> HIDE DEF v
<1>4. Moved(th', t, v, th[t].page, f, TRUE, th[t].back, th[t].ret)
  BY <1>1, <1>3, PopMoves, Zenon DEF Sound, Types
<1>5. LocalOk(th'[t])
  BY <1>2, <1>4, Zenon DEF Moved, Sound, Locality, LocalOk, Framed, Fixing, Allocating
<1>6. frame[f].state = "Free" /\ freeList[f] = 1 /\ freeList'[f] = 0
  BY <1>1 DEF Sound, Types, Popping
<1>7. Types'
  BY <1>1, <1>4 DEF Moved, Sound, Types, PopFreeFrame, outside
<1>8. Hard(t, f)
  BY <1>2, <1>4, <1>5, <1>6, <1>7, Alone
     DEF Hard, Moved, PopFreeFrame, outside, Latched, Loaders, Evictors
<1>9. Popping'
  <2>1. /\ ~th[t].popped /\ \A u \in Threads \ {t} : th'[u] = th[u]
        /\ th'[t].popped /\ th'[t].frame = f
    BY <1>2, <1>4, Zenon DEF Moved, Sound, Locality, LocalOk
  <2>2. \A u \in Threads \ {t} : th[u].popped => th[u].frame # f /\ th[u].frame \in Frames
    BY <1>6 DEF Sound, Popping, Locality, LocalOk, Framed
  <2>3. \A g \in Frames \ {f} : freeList'[g] = freeList[g]
    BY <1>1 DEF Sound, Types
  <2>4. frame' = frame
    BY Zenon DEF PopFreeFrame
  <2> QED
    BY <1>6, <2>1, <2>2, <2>3, <2>4 DEF Sound, Popping
<1>10. Registered' /\ PageTableIsExact'
  <2>1. Registered'
    BY <1>2, <1>4, StillRegistered, Zenon DEF Moved, PopFreeFrame, outside
  <2> QED
    BY <2>1 DEF Sound, PageTableIsExact, Occupied, PopFreeFrame
<1> QED
  BY <1>8, <1>9, <1>10, HardKeeps DEF Sound

\* What the frame in a thread's hand is.
LEMMA InHand ==
    ASSUME Sound, NEW t \in Threads, th[t].popped
    PROVE  /\ th[t].frame \in Frames /\ frame[th[t].frame].state = "Free"
           /\ freeList[th[t].frame] = 0
           /\ \A u \in Threads \ {t} : th[u].popped => th[u].frame # th[t].frame
           /\ \A u \in Threads : th[u].popped => th[u].frame \in Frames
           /\ \A p \in Pages : pageTable[p] # th[t].frame
<1>1. \A u \in Threads : th[u].popped => th[u].frame \in Frames
  BY Zenon DEF Sound, Locality, LocalOk, Framed
<1>2. /\ frame[th[t].frame].state = "Free" /\ freeList[th[t].frame] = 0
      /\ \A u \in Threads \ {t} : th[u].popped => th[u].frame # th[t].frame
  BY Zenon DEF Sound, Popping
<1> QED
  BY <1>1, <1>2 DEF Sound, PageTableIsExact, Occupied

\* The page is there already, or may not be: the frame goes back to the list.
LEMMA GiveBackKeeps ==
    ASSUME Sound, NEW t \in Threads, th[t].popped, th[t].back \in {"fix", "orphan"},
           th[t].pc # "aLink", NEW v \in {"fix", "orphan", "budget"}, PushBack(t, th[t].frame),
           Moved(th', t, v, th[t].page, NoFrame, FALSE, th[t].back, th[t].ret),
           UNCHANGED <<frame, latch, edge, pageTable, outside>>
    PROVE  Sound'
<1> DEFINE f == th[t].frame
<1>1. f \in Frames /\ frame[f].state = "Free" /\ freeList[f] = 0
  BY InHand, Zenon
<1>2. freeList' = [freeList EXCEPT ![f] = @ + 1]
  BY Zenon DEF PushBack
<1>3. Moved(th', t, v, th[t].page, NoFrame, FALSE, th[t].back, th[t].ret)
  BY Zenon
<1>4. LocalOk(th'[t])
  BY <1>3, Zenon DEF Moved, Sound, Locality, LocalOk, Framed, Fixing, Allocating
<1>5. Types'
  BY <1>1, <1>2, <1>3 DEF Moved, Sound, Types, outside
<1>6. Hard(t, f)
  BY <1>1, <1>3, <1>4, <1>5, Alone, Zenon DEF Hard, Moved, outside, Latched, Loaders, Evictors
<1>7. Popping'
  <2>1. (\A u \in Threads \ {t} : th'[u] = th[u]) /\ ~th'[t].popped
    BY <1>3, Zenon DEF Moved
  <2>2. \A g \in Frames : freeList'[g] = IF g = f THEN 1 ELSE freeList[g]
    BY <1>1, <1>2 DEF Sound, Types
  <2>3. \A u \in Threads \ {t} : th[u].popped => th[u].frame # f /\ th[u].frame \in Frames
    BY InHand, Zenon
  <2> QED
    BY <1>1, <2>1, <2>2, <2>3 DEF Sound, Popping
<1>8. Registered'
  BY <1>3, StillRegistered, Zenon DEF Moved, outside
<1>9. PageTableIsExact'
  BY Zenon DEF Sound, PageTableIsExact, Occupied
<1> QED
  BY <1>1, <1>6, <1>7, <1>8, <1>9, HardKeeps, Zenon DEF Sound

\* The page is registered for the frame f in hand, and its load starts.
StartsLoad(t, f, v) ==
    /\ th[t].popped /\ th[t].pc \in {"latch", "oLatch"} /\ th[t].frame = f
    /\ Headed(f, "Loading", th[t].page) /\ pageTable[th[t].page] = NoFrame
    /\ pageTable' = [pageTable EXCEPT ![th[t].page] = f]
    /\ v \in {"load", "oLoad"}
    /\ Moved(th', t, v, th[t].page, f, FALSE, th[t].back, th[t].ret)
    /\ v = "load" => latch[f] = NoThread /\ latch' = [latch EXCEPT ![f] = t]
    /\ v = "oLoad" => latch' = latch
    /\ UNCHANGED <<edge, freeList, outside>>

\* Registering a popped frame in the page table as Loading.
LEMMA StartLoadKeeps ==
    ASSUME Sound, NEW t \in Threads, NEW f, NEW v, StartsLoad(t, f, v)
    PROVE  Sound'
<1> DEFINE p == th[t].page
<1>0. th[t].popped /\ th[t].pc \in {"latch", "oLatch"} /\ th[t].frame = f
  BY Zenon DEF StartsLoad
<1>1. /\ f \in Frames /\ frame[f].state = "Free" /\ freeList[f] = 0
      /\ \A u \in Threads \ {t} : th[u].popped => th[u].frame # f /\ th[u].frame \in Frames
  BY <1>0, InHand, Zenon
<1>2. p \in allocated /\ p \in Pages /\ th[t].back \in {"fix", "orphan"}
  BY <1>0, Zenon DEF Sound, Locality, LocalOk, Fixing, OwnPages
<1> HIDE DEF p
<1>3. /\ Headed(f, "Loading", p) /\ pageTable[p] = NoFrame /\ v \in {"load", "oLoad"}
      /\ Moved(th', t, v, p, f, FALSE, th[t].back, th[t].ret)
      /\ UNCHANGED <<edge, freeList, outside>>
  BY Zenon DEF StartsLoad, p
<1>4. /\ latch' \in [Frames -> Threads \union {NoThread}]
      /\ \A g \in Frames \ {f} : latch'[g] = latch[g]
      /\ v = "load" => latch'[f] = t
      /\ latch'[f] = latch[f] \/ latch[f] \in {NoThread, t}
  BY <1>1, <1>3 DEF StartsLoad, Sound, Types
<1>5. /\ pageTable' \in [Pages -> Frames \union {NoFrame}]
      /\ \A q \in Pages : pageTable'[q] = IF q = p THEN f ELSE pageTable[q]
  BY <1>1, <1>2, Zenon DEF StartsLoad, Sound, Types, p
<1>6. LocalOk(th'[t])
  BY <1>1, <1>2, <1>3, Zenon DEF Moved, Sound, Locality, LocalOk, Framed, Fixing, Allocating
<1>7. Types'
  BY <1>3, <1>4, <1>5, Zenon DEF Moved, Headed, Sound, Types, outside
<1>8. Hard(t, f)
  <2>1. \A u \in Threads \ {t} : th[u].pc \in Loaders \union Evictors => th[u].frame # f
    BY <1>1, Alone, Zenon
  <2> QED
    BY <1>3, <1>4, <1>6, <1>7, <2>1, Zenon DEF Hard, Moved, Headed, outside, Latched, Loaders, Evictors, p
<1>9. /\ \A u \in Threads \ {t} : th'[u] = th[u]
      /\ ~th'[t].popped /\ freeList' = freeList
      /\ \A g \in Frames \ {f} : frame'[g] = frame[g]
      /\ frame'[f].state = "Loading" /\ frame'[f].pid = p
  BY <1>3, Zenon DEF Moved, Headed
<1>10. Popping'
  BY <1>1, <1>9 DEF Sound, Popping
<1>11. Registered'
  <2>1. allocated' = allocated /\ th'[t].pc # "aLink" /\ th[t].pc # "aLink"
    BY <1>0, <1>3, Zenon DEF Moved, outside
  <2> QED
    BY <1>2, <1>5, <1>9, <2>1 DEF Sound, Registered
<1>12. PageTableIsExact'
  BY <1>1, <1>2, <1>3, <1>5, <1>9, PoolAssumption DEF Sound, PageTableIsExact, Occupied
<1> QED
  BY <1>1, <1>8, <1>10, <1>11, <1>12, HardKeeps, Zenon DEF Sound

\* Under the exclusive latch of an EVICTED edge's frame: pinning a page that
\* became resident, starting again, giving the frame back, or starting a load.
LEMMA FixColdKeeps ==
    ASSUME Sound, NEW t \in Threads, FixCold(t)
    PROVE  Sound'
<1> DEFINE f == th[t].frame
           p == th[t].page
           h == frame[f]
<1>0. th[t].pc = "latch" /\ latch[f] = NoThread
  BY Zenon DEF FixCold, At, Latchable
<1>1. /\ th[t].pc = "latch" /\ f \in Frames /\ p \in Pages /\ th[t].back \in {"fix", "orphan"}
      /\ h \in Headers /\ h.pins + 1 \in Int /\ latch[f] = NoThread
      /\ th[t].popped => h.state = "Free"
  BY <1>0 DEF Sound, Types, Headers, Locality, LocalOk, Framed, Fixing, Popping
<1>2. CASE /\ h.state = "Resident" /\ PinAndReswizzle(p, f) /\ Hold(t, f, p)
           /\ UNCHANGED <<latch, pageTable, freeList, outside>>
  <2>1. Headed(f, h.state, h.pid) /\ edge' \in [Pages -> Frames \union {NoFrame}]
    <3>1. CASE /\ edge' = [edge EXCEPT ![p] = f]
               /\ frame' = [frame EXCEPT ![f] = [h EXCEPT !.pins = h.pins + 1, !.link = "Stable"]]
      <4>1. Shows([h EXCEPT !.pins = h.pins + 1, !.link = "Stable"], h.state, h.pid)
        BY <1>1, PinsAndLink, Zenon DEF Links
      <4> QED
        BY <1>1, <3>1, <4>1, SetHeader, Zenon DEF Sound, Types
    <3>2. CASE AddPins(f, 1) /\ UNCHANGED edge
      BY <1>1, <3>2, AddPinsHeads DEF Sound, Types
    <3> QED
      BY <1>2, <3>1, <3>2, Zenon DEF PinAndReswizzle, Set
  <2>2. Gentle(t)
    BY <1>1, <1>2, <2>1, HeadedIsGentle, Zenon DEF Sound, Types, outside
  <2> QED
    BY <1>1, <1>2, <2>2, HoldKeeps, Zenon
<1>3. CASE /\ h.state = "Free" => ~th[t].popped
           /\ Goto(t, "fix") /\ UNCHANGED <<frame, latch, edge, pageTable, freeList, outside>>
  <2>1. Gentle(t)
    BY <1>3, StillIsGentle, Zenon DEF Sound, Types, outside
  <2> QED
    BY <1>1, <1>3, <2>1, GotoKeeps, Zenon
       DEF PlaceNames, Framed, Fixing, Allocating, Latched, Evictors, Loaders
<1>4. ASSUME NEW v \in {"fix", "budget"}, th[t].popped, PushBack(t, f),
             th' = [th EXCEPT ![t].popped = FALSE, ![t].frame = NoFrame, ![t].pc = v],
             UNCHANGED <<frame, latch, edge, pageTable, outside>>
      PROVE  Sound'
  <2>1. Moved(th', t, v, p, NoFrame, FALSE, th[t].back, th[t].ret)
    BY <1>4, FrameMoves, Zenon DEF Sound, Types, PlaceNames
  <2> QED
    BY <1>1, <1>4, <2>1, GiveBackKeeps, Zenon
<1>5. CASE /\ th[t].popped /\ MayLoad(p) /\ ReserveFor(p, f)
           /\ Set(f, [h EXCEPT !.pid = p, !.state = "Loading"])
           /\ latch' = [latch EXCEPT ![f] = t]
           /\ th' = [th EXCEPT ![t].pc = "load", ![t].popped = FALSE]
           /\ UNCHANGED <<edge, freeList, outside>>
  <2>1. Shows([h EXCEPT !.pid = p, !.state = "Loading"], "Loading", p)
    BY <1>1, PageAndState, Zenon DEF States, Links
  <2>2. Headed(f, "Loading", p)
    BY <1>1, <1>5, <2>1, SetHeader, ZenonT(30) DEF Sound, Types, Set
  <2>3. Moved(th', t, "load", p, f, FALSE, th[t].back, th[t].ret)
    BY <1>5, LoadMoves, Zenon DEF Sound, Types, PlaceNames, Framed
  <2>4. /\ pageTable[p] = NoFrame /\ pageTable' = [pageTable EXCEPT ![p] = f]
        /\ latch' = [latch EXCEPT ![f] = t] /\ UNCHANGED <<edge, freeList, outside>>
        /\ th[t].popped
    BY <1>5, Zenon DEF MayLoad, ReserveFor
  <2> QED
    <3>1. StartsLoad(t, f, "load")
      BY <1>1, <2>2, <2>3, <2>4, Zenon DEF StartsLoad
    <3> QED
      BY <3>1, StartLoadKeeps, Zenon
<1>6. \/ /\ h.state = "Resident" /\ PinAndReswizzle(p, f) /\ Hold(t, f, p)
         /\ UNCHANGED <<latch, pageTable, freeList, outside>>
      \/ /\ h.state = "Free" => ~th[t].popped
         /\ Goto(t, "fix") /\ UNCHANGED <<frame, latch, edge, pageTable, freeList, outside>>
      \/ /\ th[t].popped /\ PushBack(t, f)
         /\ th' = [th EXCEPT ![t].popped = FALSE, ![t].frame = NoFrame,
                             ![t].pc = IF pageTable[p] # NoFrame THEN "fix" ELSE "budget"]
         /\ UNCHANGED <<frame, latch, edge, pageTable, outside>>
      \/ /\ th[t].popped /\ MayLoad(p) /\ ReserveFor(p, f)
         /\ Set(f, [h EXCEPT !.pid = p, !.state = "Loading"])
         /\ latch' = [latch EXCEPT ![f] = t]
         /\ th' = [th EXCEPT ![t].pc = "load", ![t].popped = FALSE]
         /\ UNCHANGED <<edge, freeList, outside>>
  BY Zenon DEF FixCold
<1> QED
  BY <1>2, <1>3, <1>4, <1>5, <1>6, Zenon

\* The same for a fix by page id.
LEMMA OrphanExclusiveKeeps ==
    ASSUME Sound, NEW t \in Threads, OrphanExclusive(t)
    PROVE  Sound'
<1> DEFINE f == th[t].frame
           p == th[t].page
           h == frame[f]
<1>0. th[t].pc = "oLatch"
  BY Zenon DEF OrphanExclusive, At
<1>1. /\ th[t].pc = "oLatch" /\ f \in Frames /\ p \in Pages /\ th[t].back \in {"fix", "orphan"}
      /\ h \in Headers
      /\ th[t].popped => h.state = "Free"
  BY <1>0 DEF Sound, Types, Locality, LocalOk, Framed, Fixing, Popping
<1>2. CASE /\ h.state = "Resident" /\ AddPins(f, 1) /\ Hold(t, f, p)
           /\ UNCHANGED <<latch, edge, pageTable, freeList, outside>>
  <2>1. Headed(f, h.state, h.pid)
    BY <1>1, <1>2, AddPinsHeads DEF Sound, Types
  <2>2. Gentle(t)
    BY <1>1, <1>2, <2>1, HeadedIsGentle, Zenon DEF Sound, Types, outside
  <2> QED
    BY <1>1, <1>2, <2>2, HoldKeeps, Zenon
<1>3. CASE /\ ~(h.state = "Free" /\ th[t].popped) /\ PushBack(t, f) /\ Retry(t)
           /\ UNCHANGED <<frame, latch, edge, pageTable, outside>>
  <2>1. ~th[t].popped /\ freeList' = freeList
    BY <1>1, <1>3, Zenon DEF PushBack
  <2>2. Gentle(t)
    BY <1>3, <2>1, StillIsGentle, Zenon DEF Sound, Types, outside
  <2> QED
    BY <1>1, <1>3, <2>1, <2>2, RetryKeeps, Zenon
<1>4. ASSUME NEW v \in {"orphan", "budget"}, th[t].popped, PushBack(t, f),
             th' = [th EXCEPT ![t].popped = FALSE, ![t].frame = NoFrame, ![t].pc = v],
             UNCHANGED <<frame, latch, edge, pageTable, outside>>
      PROVE  Sound'
  <2>1. Moved(th', t, v, p, NoFrame, FALSE, th[t].back, th[t].ret)
    BY <1>4, FrameMoves, Zenon DEF Sound, Types, PlaceNames
  <2> QED
    BY <1>1, <1>4, <2>1, GiveBackKeeps, Zenon
<1>5. CASE /\ th[t].popped /\ MayLoad(p) /\ ReserveFor(p, f)
           /\ Set(f, [h EXCEPT !.pid = p, !.link = "None", !.state = "Loading"])
           /\ th' = [th EXCEPT ![t].pc = "oLoad", ![t].popped = FALSE]
           /\ UNCHANGED <<latch, edge, freeList, outside>>
  <2>1. Shows([h EXCEPT !.pid = p, !.link = "None", !.state = "Loading"], "Loading", p)
    BY <1>1, PageAndState, Zenon DEF States, Links
  <2>2. Headed(f, "Loading", p)
    BY <1>1, <1>5, <2>1, SetHeader, Zenon DEF Sound, Types, Set
  <2>3. Moved(th', t, "oLoad", p, f, FALSE, th[t].back, th[t].ret)
    BY <1>5, LoadMoves, Zenon DEF Sound, Types, PlaceNames, Framed
  <2>4. /\ pageTable[p] = NoFrame /\ pageTable' = [pageTable EXCEPT ![p] = f]
        /\ UNCHANGED <<latch, edge, freeList, outside>> /\ th[t].popped
    BY <1>5, Zenon DEF MayLoad, ReserveFor
  <2> QED
    <3>1. StartsLoad(t, f, "oLoad")
      BY <1>1, <2>2, <2>3, <2>4, Zenon DEF StartsLoad
    <3> QED
      BY <3>1, StartLoadKeeps, Zenon
<1>6. \/ /\ h.state = "Resident" /\ AddPins(f, 1) /\ Hold(t, f, p)
         /\ UNCHANGED <<latch, edge, pageTable, freeList, outside>>
      \/ /\ ~(h.state = "Free" /\ th[t].popped) /\ PushBack(t, f) /\ Retry(t)
         /\ UNCHANGED <<frame, latch, edge, pageTable, outside>>
      \/ /\ th[t].popped /\ PushBack(t, f)
         /\ th' = [th EXCEPT ![t].popped = FALSE, ![t].frame = NoFrame,
                             ![t].pc = IF pageTable[p] # NoFrame THEN "orphan" ELSE "budget"]
         /\ UNCHANGED <<frame, latch, edge, pageTable, outside>>
      \/ /\ th[t].popped /\ MayLoad(p) /\ ReserveFor(p, f)
         /\ Set(f, [h EXCEPT !.pid = p, !.link = "None", !.state = "Loading"])
         /\ th' = [th EXCEPT ![t].pc = "oLoad", ![t].popped = FALSE]
         /\ UNCHANGED <<latch, edge, freeList, outside>>
  BY Zenon DEF OrphanExclusive
<1> QED
  BY <1>2, <1>3, <1>4, <1>5, <1>6, Zenon

\* A load of the frame f that ends in a pin.
EndsLoad(t, f) ==
    /\ th[t].pc \in {"install", "oInstall"} /\ th[t].frame = f
    /\ Headed(f, "Resident", frame[f].pid) /\ Hold(t, f, th[t].page)
    /\ edge' \in [Pages -> Frames \union {NoFrame}]
    /\ \/ latch' = latch
       \/ latch[f] = t /\ latch' = [latch EXCEPT ![f] = NoThread]
    /\ UNCHANGED <<pageTable, freeList, outside>>

\* Nobody has in hand a frame that is not Free.
LEMMA NotInHand ==
    ASSUME Sound, NEW f, frame[f].state # "Free"
    PROVE  \A u \in Threads : th[u].popped => th[u].frame # f /\ th[u].frame \in Frames
<1>1. \A u \in Threads : th[u].popped => th[u].frame \in Frames
  BY Zenon DEF Sound, Locality, LocalOk, Framed
<1> QED
  BY <1>1 DEF Sound, Popping

\* Publishing a loaded frame as Resident.
LEMMA FinishLoadKeeps ==
    ASSUME Sound, NEW t \in Threads, NEW f, EndsLoad(t, f)
    PROVE  Sound'
<1>0. th[t].pc \in {"install", "oInstall"} /\ th[t].frame = f
  BY DEF EndsLoad
<1>1. /\ f \in Frames /\ th[t].page \in Pages /\ frame[f].state = "Loading"
      /\ th[t].pc \in Loaders /\ th[t].pc # "aLink"
  BY <1>0, Zenon DEF Sound, Locality, LocalOk, Framed, Fixing, Loading, Loaders
<1>2. /\ Headed(f, "Resident", frame[f].pid) /\ Hold(t, f, th[t].page)
      /\ edge' \in [Pages -> Frames \union {NoFrame}] /\ UNCHANGED <<pageTable, freeList, outside>>
  BY DEF EndsLoad
<1>3. Moved(th', t, "held", th[t].page, f, FALSE, "idle", "idle")
  BY <1>1, <1>2, HoldMoves, Zenon DEF Sound, Types
<1>4. /\ latch' \in [Frames -> Threads \union {NoThread}]
      /\ \A g \in Frames \ {f} : latch'[g] = latch[g]
      /\ latch'[f] = latch[f] \/ latch[f] \in {NoThread, t}
  BY Zenon DEF EndsLoad, Sound, Types
<1>5. LocalOk(th'[t])
  BY <1>1, <1>3, Zenon DEF Moved, LocalOk, Framed, Fixing, Allocating
<1>6. Types'
  BY <1>2, <1>3, <1>4, Zenon DEF Moved, Headed, Sound, Types, outside
<1>7. Hard(t, f)
  <2>1. \A u \in Threads \ {t} : th[u].pc \in Loaders \union Evictors => th[u].frame # f
    BY <1>0, <1>1, Alone, Zenon
  <2> QED
    BY <1>2, <1>3, <1>4, <1>5, <1>6, <2>1, Zenon
       DEF Hard, Moved, Headed, outside, Latched, Loaders, Evictors
<1>8. /\ \A u \in Threads \ {t} : th'[u] = th[u]
      /\ ~th'[t].popped /\ freeList' = freeList /\ pageTable' = pageTable
      /\ \A g \in Frames \ {f} : frame'[g] = frame[g]
      /\ frame'[f].state = "Resident" /\ frame'[f].pid = frame[f].pid
  BY <1>2, <1>3, Zenon DEF Moved, Headed
<1>9. Popping'
  <2>1. \A u \in Threads : th[u].popped => th[u].frame # f /\ th[u].frame \in Frames
    BY <1>1, NotInHand
  <2> QED
    BY <1>0, <1>1, <1>8, <2>1 DEF Sound, Popping
<1>10. Registered'
  BY <1>1, <1>2, <1>8, StillRegistered, Zenon DEF outside
<1>11. PageTableIsExact'
  BY <1>1, <1>8 DEF Sound, PageTableIsExact, Occupied
<1> QED
  BY <1>1, <1>7, <1>9, <1>10, <1>11, HardKeeps, Zenon DEF Sound

\* Publishing a page fixed by its id.
LEMMA InstallOrphanKeeps ==
    ASSUME Sound, NEW t \in Threads, InstallOrphan(t)
    PROVE  Sound'
<1> DEFINE f == th[t].frame
<1>1. /\ f \in Frames /\ frame[f] \in Headers /\ "Unswizzled" \in Links
      /\ th[t].page \in Pages
  BY Zenon DEF Sound, Types, Locality, LocalOk, Framed, Fixing, Links, InstallOrphan, At
<1>2. Shows(Installed(f, "Unswizzled"), "Resident", frame[f].pid)
  BY <1>1, InstalledHeader, Zenon
<1>3. Headed(f, "Resident", frame[f].pid)
  BY <1>1, <1>2, SetHeader, Zenon DEF Sound, Types, InstallOrphan, Set
<1>4. th[t].pc = "oInstall" /\ Hold(t, f, th[t].page)
  BY DEF InstallOrphan, At
<1>5. UNCHANGED <<latch, edge, pageTable, freeList, outside>>
  BY DEF InstallOrphan
<1>6. edge' \in [Pages -> Frames \union {NoFrame}]
  BY <1>5 DEF Sound, Types
<1> QED
  <2>1. EndsLoad(t, f)
    BY <1>3, <1>4, <1>5, <1>6, Zenon DEF EndsLoad
  <2> QED
    BY <2>1, FinishLoadKeeps, Zenon

\* The frame f, which held or was to hold a page, goes to the free list and its
\* page leaves the table; thread t goes on at v.
Frees(t, f, v, page, g, back, ret) ==
    /\ th[t].pc \in Loaders \union {"final"} /\ th[t].frame = f
    /\ Headed(f, "Free", frame[f].pid)
    /\ pageTable' = [pageTable EXCEPT ![frame[f].pid] = NoFrame]
    /\ freeList' = [freeList EXCEPT ![f] = @ + 1]
    /\ Moved(th', t, v, page, g, FALSE, back, ret) /\ LocalOk(th'[t])
    /\ v \in {"idle", "leaked", "fix", "release"}
    /\ back = "idle" \/ (back = th[t].back /\ page = th[t].page)
    /\ latch' = latch \/ (latch[f] = t /\ latch' = [latch EXCEPT ![f] = NoThread])
    /\ v = "release" => g = f /\ latch'[f] = t
    /\ UNCHANGED <<edge, outside>>

\* Giving a frame back to the free list.
LEMMA FreedKeeps ==
    ASSUME Sound, NEW t \in Threads, NEW f, NEW v, NEW page, NEW g, NEW back, NEW ret,
           Frees(t, f, v, page, g, back, ret)
    PROVE  Sound'
<1>0. th[t].pc \in Loaders \union {"final"} /\ th[t].frame = f
  BY Zenon DEF Frees
<1>1. /\ f \in Frames /\ frame[f].state # "Free"
      /\ th[t].pc \in Loaders \union Evictors /\ th[t].pc # "aLink"
  BY <1>0, Zenon DEF Sound, Locality, LocalOk, Framed, Loading, Loaders, Evicting, Evictors
<1>2. freeList[f] = 0
  BY <1>1, Zenon DEF Sound, Popping
<1>3. /\ Headed(f, "Free", frame[f].pid) /\ v \in {"idle", "leaked", "fix", "release"}
      /\ Moved(th', t, v, page, g, FALSE, back, ret) /\ LocalOk(th'[t])
      /\ back = "idle" \/ (back = th[t].back /\ page = th[t].page)
      /\ v = "release" => g = f /\ latch'[f] = t
      /\ UNCHANGED <<edge, outside>>
  BY Zenon DEF Frees
<1>4. /\ latch' \in [Frames -> Threads \union {NoThread}]
      /\ \A k \in Frames \ {f} : latch'[k] = latch[k]
      /\ latch'[f] = latch[f] \/ latch[f] \in {NoThread, t}
  BY Zenon DEF Frees, Sound, Types
<1>5. /\ freeList' \in [Frames -> Int]
      /\ \A k \in Frames : freeList'[k] = IF k = f THEN 1 ELSE freeList[k]
  BY <1>1, <1>2 DEF Frees, Sound, Types
<1>6. /\ pageTable' \in [Pages -> Frames \union {NoFrame}]
      /\ \A q \in Pages : pageTable'[q] = IF q = frame[f].pid THEN NoFrame ELSE pageTable[q]
  BY Zenon DEF Frees, Sound, Types
<1>8. Types'
  BY <1>3, <1>4, <1>5, <1>6, Zenon DEF Moved, Headed, Sound, Types, outside
<1>9. Hard(t, f)
  <2>1. \A u \in Threads \ {t} : th[u].pc \in Loaders \union Evictors => th[u].frame # f
    BY <1>0, <1>1, Alone, Zenon
  <2> QED
    BY <1>1, <1>3, <1>4, <1>8, <2>1, Zenon
       DEF Hard, Moved, Headed, outside, Latched, Loaders, Evictors
<1>10. /\ \A u \in Threads \ {t} : th'[u] = th[u]
       /\ ~th'[t].popped /\ frame'[f].state = "Free"
       /\ \A k \in Frames \ {f} : frame'[k] = frame[k]
  BY <1>3, Zenon DEF Moved, Headed
<1>11. Popping'
  <2>1. \A u \in Threads : th[u].popped => th[u].frame # f /\ th[u].frame \in Frames
    BY <1>1, NotInHand
  <2> QED
    BY <1>0, <1>1, <1>5, <1>10, <2>1 DEF Sound, Popping
<1>12. Registered'
  BY <1>1, <1>3, <1>6, <1>10, StillRegistered, Zenon DEF outside
<1>13. PageTableIsExact'
  BY <1>1, <1>6, <1>10, PoolAssumption DEF Sound, PageTableIsExact, Occupied
<1> QED
  BY <1>1, <1>9, <1>11, <1>12, <1>13, HardKeeps, Zenon DEF Sound

\* What an abandoned load does with its frame.
LEMMA AbandonedLoad ==
    ASSUME Sound, NEW t \in Threads, th[t].pc \in Loaders,
           ReleaseLoadingFrame(th[t].frame, th[t].page)
    PROVE  /\ Headed(th[t].frame, "Free", frame[th[t].frame].pid)
           /\ pageTable' = [pageTable EXCEPT ![frame[th[t].frame].pid] = NoFrame]
           /\ freeList' = [freeList EXCEPT ![th[t].frame] = @ + 1]
<1> DEFINE f == th[t].frame
           p == th[t].page
<1>1. /\ f \in Frames /\ frame[f] \in Headers /\ p \in Pages /\ frame[f].pid = p
      /\ "None" \in Links
  BY Zenon DEF Sound, Types, Locality, LocalOk, Framed, Fixing, Loading, Loaders, Links
<1>2. Shows([Installed(f, "None") EXCEPT !.state = "Free", !.pins = 0], "Free", frame[f].pid)
  BY <1>1, InstalledHeader, Zenon
<1>3. frame' = [frame EXCEPT ![f] = [Installed(f, "None") EXCEPT !.state = "Free", !.pins = 0]]
  BY Zenon DEF ReleaseLoadingFrame, Set
<1>4. Headed(f, "Free", frame[f].pid)
  BY <1>1, <1>2, <1>3, SetHeader, Zenon DEF Sound, Types
<1> QED
  BY <1>1, <1>4, Zenon DEF ReleaseLoadingFrame, RemoveEntry

\* A read of the store that fails.
LEMMA ReadFailedKeeps ==
    ASSUME Sound, NEW t \in Threads, ReadFailed(t)
    PROVE  Sound'
<1> DEFINE f == th[t].frame
<1>1. th[t].pc \in Loaders /\ (th[t].pc = "load" => latch[f] = t)
  BY Zenon DEF Sound, Latching, Latched, Loaders, ReadFailed
<1>2. PICK v \in {"idle", "leaked"} : Moved(th', t, v, NoPage, NoFrame, FALSE, "idle", "idle")
  BY UnwoundMoves, Zenon DEF Sound, Types, ReadFailed
<1>3. LocalOk(th'[t])
  BY <1>2, Zenon DEF Moved, LocalOk, Framed, Fixing, Allocating
<1>4. latch' = latch \/ (latch[f] = t /\ latch' = [latch EXCEPT ![f] = NoThread])
  BY <1>1, Zenon DEF ReadFailed, Release, At
<1>5. Frees(t, f, v, NoPage, NoFrame, "idle", "idle")
  BY <1>1, <1>2, <1>3, <1>4, AbandonedLoad, Zenon DEF Frees, ReadFailed
<1> QED
  BY <1>5, FreedKeeps, Zenon

\* Publishing a page fixed by its edge, or giving the frame back when the edge
\* has changed.
LEMMA InstallStableKeeps ==
    ASSUME Sound, NEW t \in Threads, InstallStable(t)
    PROVE  Sound'
<1> DEFINE f == th[t].frame
           p == th[t].page
<1>1. /\ th[t].pc = "install" /\ f \in Frames /\ frame[f] \in Headers /\ p \in Pages
      /\ frame[f].pid = p /\ latch[f] = t /\ th[t].popped = FALSE
  BY Zenon DEF Sound, Types, Places, Locality, LocalOk, Framed, Fixing, Loading, Loaders, Latching,
         Latched, InstallStable, At
<1>2. /\ latch' = [latch EXCEPT ![f] = NoThread] /\ UNCHANGED outside
      /\ "Stable" \in Links /\ "None" \in Links
  BY Zenon DEF InstallStable, Release, Links
<1>3. CASE /\ Set(f, Installed(f, "Stable")) /\ edge' = [edge EXCEPT ![p] = f]
           /\ Hold(t, f, p) /\ UNCHANGED <<pageTable, freeList>>
  <2>1. Shows(Installed(f, "Stable"), "Resident", frame[f].pid)
    BY <1>1, <1>2, InstalledHeader, Zenon
  <2>2. Headed(f, "Resident", frame[f].pid)
    BY <1>1, <1>3, <2>1, SetHeader, Zenon DEF Sound, Types, Set
  <2>3. edge' \in [Pages -> Frames \union {NoFrame}]
    BY <1>1, <1>3, Zenon DEF Sound, Types
  <2> QED
    <3>1. EndsLoad(t, f)
      BY <1>1, <1>2, <1>3, <2>2, <2>3, Zenon DEF EndsLoad
    <3> QED
      BY <3>1, FinishLoadKeeps, Zenon
<1>4. CASE /\ ReleaseLoadingFrame(f, p) /\ UNCHANGED edge
           /\ th' = [th EXCEPT ![t].pc = "fix", ![t].frame = NoFrame]
  <2>1. Moved(th', t, "fix", p, NoFrame, FALSE, th[t].back, th[t].ret)
    BY <1>1, <1>4, LoadMoves, Zenon DEF Sound, Types, PlaceNames
  <2>2. LocalOk(th'[t])
    BY <1>1, <2>1, Zenon DEF Moved, Sound, Locality, LocalOk, Framed, Fixing, Allocating
  <2>3. Frees(t, f, "fix", p, NoFrame, th[t].back, th[t].ret)
    BY <1>1, <1>2, <1>4, <2>1, <2>2, AbandonedLoad, Zenon DEF Frees, Loaders
  <2> QED
    BY <2>3, FreedKeeps, Zenon
<1> QED
  BY <1>3, <1>4, Zenon DEF InstallStable

\* Freeing an evicted frame: out of the page table and on the free list, unless
\* a pin or a change came in.
LEMMA FreeEvictingKeeps ==
    ASSUME Sound, NEW t \in Threads, FreeEvicting(t)
    PROVE  Sound'
<1> DEFINE f == th[t].frame
<1>1. /\ th[t].pc = "final" /\ f \in Frames /\ frame[f] \in Headers /\ th[t].popped = FALSE
  BY Zenon DEF Sound, Types, Places, Locality, LocalOk, Framed, FreeEvicting, At
<1>2. CASE /\ RemoveEntry(frame[f].pid) /\ Goto(t, "release") /\ UNCHANGED latch
           /\ Set(f, [frame[f] EXCEPT !.state = "Free", !.link = "None"])
           /\ freeList' = [freeList EXCEPT ![f] = @ + 1]
  <2>1. Shows([frame[f] EXCEPT !.state = "Free", !.link = "None"], "Free", frame[f].pid)
    BY <1>1, StateAndLink, Zenon DEF States, Links
  <2>2. Headed(f, "Free", frame[f].pid)
    BY <1>1, <1>2, <2>1, SetHeader, Zenon DEF Sound, Types, Set
  <2>3. Moved(th', t, "release", th[t].page, f, FALSE, th[t].back, th[t].ret)
    BY <1>1, <1>2, GotoMoves, Zenon DEF Sound, Types, PlaceNames, Framed
  <2>4. /\ pageTable' = [pageTable EXCEPT ![frame[f].pid] = NoFrame]
        /\ freeList' = [freeList EXCEPT ![f] = @ + 1] /\ UNCHANGED <<latch, edge, outside>>
    BY <1>2, Zenon DEF FreeEvicting, RemoveEntry
  <2> QED
    <3>1. LocalOk(th'[t])
      BY <1>1, <2>3, Zenon DEF Moved, Sound, Locality, LocalOk, Framed, Fixing, Allocating
    <3>2. latch[f] = t
      BY <1>1, Zenon DEF Sound, Latching, Latched, Evictors
    <3>3. Frees(t, f, "release", th[t].page, f, th[t].back, th[t].ret)
      BY <1>1, <2>2, <2>3, <2>4, <3>1, <3>2, Zenon DEF Frees
    <3> QED
      BY <3>3, FreedKeeps, Zenon
<1>3. CASE Revert(t, f) /\ UNCHANGED <<pageTable, freeList, budget>>
  BY <1>1, <1>3, RevertKeeps, Zenon DEF FreeEvicting
<1> QED
  BY <1>2, <1>3, Zenon DEF FreeEvicting

\* Setting up a popped frame for a new page.
LEMMA AllocateAndFixKeeps ==
    ASSUME Sound, NEW t \in Threads, AllocateAndFix(t)
    PROVE  Sound'
<1> DEFINE f == th[t].frame
           p == th[t].page
<1>1. /\ th[t].pc = "aInstall" /\ th[t].popped /\ p \in Pages
      /\ th[t].back = "reserve" /\ p \notin allocated
  BY Zenon DEF Sound, Locality, LocalOk, Allocating, OwnPages, AllocateAndFix, At
<1>2. /\ f \in Frames /\ frame[f].state = "Free" /\ freeList[f] = 0 /\ frame[f] \in Headers
      /\ \A u \in Threads \ {t} : th[u].popped => th[u].frame # f /\ th[u].frame \in Frames
  BY <1>1, InHand, Zenon DEF Sound, Types
<1>3. pageTable[p] = NoFrame
  <2>1. \A u \in Threads : th[u].pc = "aLink" => th[u].back = "reserve"
    BY Zenon DEF Sound, Locality, LocalOk, Allocating
  <2> QED
    BY <1>1, <2>1 DEF Sound, Registered, OwnPages
<1>4. Headed(f, "Resident", p)
  <2>1. Shows([Installed(f, "None") EXCEPT !.pid = p, !.val = 0], "Resident", p)
    BY <1>1, <1>2, InstalledHeader, Zenon DEF Links
  <2>2. frame' = [frame EXCEPT ![f] = [Installed(f, "None") EXCEPT !.pid = p, !.val = 0]]
    BY Zenon DEF AllocateAndFix, Set
  <2> QED
    BY <1>2, <2>1, <2>2, SetHeader, Zenon DEF Sound, Types
<1>5. Moved(th', t, "aLink", p, f, FALSE, th[t].back, th[t].ret)
  BY LoadMoves, Zenon DEF Sound, Types, PlaceNames, Framed, AllocateAndFix
<1>6. /\ pageTable' = [pageTable EXCEPT ![p] = f]
      /\ UNCHANGED <<latch, edge, freeList, outside>>
  BY Zenon DEF AllocateAndFix
<1> HIDE DEF f, p
<1>7. LocalOk(th'[t])
  BY <1>1, <1>2, <1>5, Zenon DEF Moved, Sound, Locality, LocalOk, Framed, Fixing, Allocating
<1>8. Types'
  BY <1>2, <1>4, <1>5, <1>6, Zenon DEF Moved, Headed, Sound, Types, outside
<1>9. Hard(t, f)
  BY <1>2, <1>4, <1>5, <1>6, <1>7, <1>8, Alone, ZenonT(30)
     DEF Hard, Moved, Headed, outside, Latched, Loaders, Evictors, p
<1>10. Popping'
  <2>1. /\ \A u \in Threads \ {t} : th'[u] = th[u]
        /\ ~th'[t].popped /\ frame'[f].state = "Resident" /\ freeList' = freeList
        /\ \A g \in Frames \ {f} : frame'[g] = frame[g]
    BY <1>4, <1>5, <1>6, Zenon DEF Moved, Headed
  <2> QED
    BY <1>2, <2>1 DEF Sound, Popping
<1>11. \A q \in Pages : pageTable'[q] = IF q = p THEN f ELSE pageTable[q]
  BY <1>6 DEF Sound, Types
<1>12. Registered'
  <2>1. allocated' = allocated /\ th'[t].pc = "aLink" /\ th'[t].page = p
    BY <1>5, <1>6 DEF Moved, outside
  <2>2. \A u \in Threads : th[u].pc = "aLink" => th'[u] = th[u]
    BY <1>1, <1>5 DEF Moved
  <2> QED
    BY <1>11, <2>1, <2>2 DEF Sound, Registered
<1>13. PageTableIsExact'
  BY <1>2, <1>3, <1>4, <1>11, PoolAssumption DEF Headed, Sound, PageTableIsExact, Occupied
<1> QED
  BY <1>2, <1>9, <1>10, <1>12, <1>13, HardKeeps, Zenon DEF Sound

\* The last step of an allocation, which makes its page exist.
LEMMA InstallNewPageKeeps ==
    ASSUME Sound, NEW t \in Threads, InstallNewPage(t)
    PROVE  Sound'
<1> DEFINE f == th[t].frame
           p == th[t].page
           h == frame[f]
<1>0. th[t].pc = "aLink" /\ th[t].back = "reserve"
  BY ZenonT(30) DEF Sound, Locality, LocalOk, Allocating, InstallNewPage, At
<1>1. /\ th[t].pc = "aLink" /\ f \in Frames /\ p \in Pages /\ th[t].popped = FALSE
      /\ th[t].back = "reserve" /\ h \in Headers /\ h.pins - 1 \in Int
  BY <1>0 DEF Sound, Types, Places, Headers, Locality, LocalOk, Framed
<1>2. Headed(f, h.state, h.pid)
  <2>1. Shows([h EXCEPT !.link = "Stable", !.pins = h.pins - 1], h.state, h.pid)
    BY <1>1, PinsAndLink, Zenon DEF Links
  <2>2. frame' = [frame EXCEPT ![f] = [h EXCEPT !.link = "Stable", !.pins = h.pins - 1]]
    BY Zenon DEF InstallNewPage, Set
  <2> QED
    BY <1>1, <2>1, <2>2, SetHeader, Zenon DEF Sound, Types
<1>3. Moved(th', t, "idle", NoPage, NoFrame, FALSE, "idle", "idle")
  BY IdleMoves, Zenon DEF Sound, Types, InstallNewPage
<1>4. /\ edge' = [edge EXCEPT ![p] = f] /\ allocated' = allocated \union {p}
      /\ UNCHANGED <<latch, pageTable, freeList, store, latest, load>>
  BY Zenon DEF InstallNewPage
<1> HIDE DEF f
<1>5. Types'
  BY <1>1, <1>2, <1>3, <1>4, Zenon DEF Moved, Headed, Sound, Types
<1>6. /\ \A u \in Threads \ {t} : th'[u] = th[u]
      /\ th'[t].pc = "idle" /\ th'[t].back = "idle" /\ ~th'[t].popped
      /\ LocalOk(th'[t])
  BY <1>3 DEF Moved, LocalOk, Framed, Fixing, Allocating
<1>7. \A g \in Frames : frame'[g].state = frame[g].state /\ frame'[g].pid = frame[g].pid
  BY <1>2 DEF Headed
<1>8. Locality' /\ OwnPages'
  <2>1. Locality'
    BY <1>6 DEF Sound, Locality
  <2>2. \A u \in Threads \ {t} : th[u].back = "reserve" => th[u].page # p
    BY <1>1 DEF Sound, OwnPages
  <2>3. OwnPages'
    BY <1>4, <1>6, <2>2 DEF Sound, OwnPages
  <2> QED
    BY <2>1, <2>3
<1>9. Latching' /\ Loading' /\ Evicting'
  <2>1. \A u \in Threads : th'[u].pc \in Latched \union Loaders =>
          u # t /\ th[u].frame \in Frames
    BY <1>6 DEF Sound, Locality, LocalOk, Latched, Loaders, Evictors, Framed
  <2>2. Latching'
    BY <1>4, <1>6, <2>1, Zenon DEF Sound, Latching
  <2>3. Loading'
    BY <1>6, <1>7, <2>1 DEF Sound, Loading
  <2>4. Evicting'
    BY <1>6, <1>7, <2>1 DEF Sound, Evicting, Latched
  <2> QED
    BY <2>2, <2>3, <2>4
<1>10. Popping'
  <2>1. \A u \in Threads : /\ th'[u].popped <=> th[u].popped
                           /\ th[u].popped => th'[u].frame = th[u].frame /\ th[u].frame \in Frames
    BY <1>1, <1>6, Zenon DEF Sound, Locality, LocalOk, Framed
  <2> QED
    BY <1>4, <1>7, <2>1 DEF Sound, Popping
<1>11. Registered'
  BY <1>4, <1>6 DEF Sound, Registered
<1>12. PageTableIsExact'
  BY <1>4, <1>7 DEF Sound, PageTableIsExact, Occupied
<1> QED
  BY <1>5, <1>8, <1>9, <1>10, <1>11, <1>12 DEF Sound

-----------------------------------------------------------------------------
(* The invariant, and what follows from it. *)

\* An empty pool satisfies the invariant.
LEMMA InitSound ==
    ASSUME Init
    PROVE  Sound
<1>1. \A t \in Threads : th[t] = Idle
  BY Zenon DEF Init
<1>2. \A t \in Threads : /\ th[t].pc = "idle" /\ th[t].back = "idle" /\ th[t].ret = "idle"
                         /\ ~th[t].popped /\ th[t] \in Places
  BY <1>1, IdleStands DEF Stands
<1>3. \A f \in Frames : /\ frame[f] \in Headers /\ frame[f].state = "Free"
                        /\ freeList[f] = 1
  BY DEF Init, Headers, States, Links
<1>4. Types
  <2>1. frame \in [Frames -> Headers] /\ th \in [Threads -> Places]
    BY <1>2, <1>3, Zenon DEF Init
  <2>2. allocated \subseteq Pages
    BY Zenon DEF Init
  <2>3. /\ latch \in [Frames -> Threads \union {NoThread}] /\ freeList \in [Frames -> Int]
        /\ edge \in [Pages -> Frames \union {NoFrame}]
        /\ pageTable \in [Pages -> Frames \union {NoFrame}]
        /\ store \in [Pages -> Int] /\ latest \in [Pages -> Int]
    BY DEF Init
  <2> QED
    BY <2>1, <2>2, <2>3 DEF Types
<1>5. Locality /\ OwnPages
  BY <1>2 DEF Locality, LocalOk, OwnPages, Framed, Fixing, Allocating
<1>6. Latching /\ Loading /\ Evicting
  BY <1>2, Zenon DEF Latching, Loading, Evicting, Latched, Loaders, Evictors
<1>7. Popping
  BY <1>2, <1>3 DEF Popping
<1>8. Registered /\ PageTableIsExact
  BY <1>3, PoolAssumption, Zenon DEF Init, Registered, PageTableIsExact, Occupied
<1> QED
  BY <1>4, <1>5, <1>6, <1>7, <1>8 DEF Sound

\* The actions, by what they do with a frame.
LEMMA NextKeeps ==
    ASSUME Sound, Next, ~blind'
    PROVE  Sound'
<1> SUFFICES ASSUME NEW t \in Threads,
               \/ \E p \in Pages : FixStable(t, p) \/ FixOrphan(t, p) \/ Allocate(t, p)
               \/ ReserveBudget(t) \/ AllocateAndFix(t) \/ InstallNewPage(t)
               \/ LoadSwip(t) \/ FixHot(t) \/ PinHot(t) \/ ConfirmHot(t)
               \/ PopFreeFrame(t) \/ FixCold(t) \/ ReadPage(t) \/ InstallStable(t)
               \/ ReadFailed(t) \/ FlushFailed(t) \/ PoolExhausted(t)
               \/ OrphanLookup(t) \/ OrphanState(t) \/ OrphanPin(t) \/ OrphanConfirm(t)
               \/ OrphanExclusive(t) \/ InstallOrphan(t) \/ BudgetReturned(t)
               \/ WritePage(t) \/ Unfix(t)
               \/ \E f \in Frames : CopyDirtyPage(t, f) \/ EvictOne(t, f) \/ SelectForBatch(t, f)
               \/ WriteBack(t) \/ MarkClean(t)
               \/ RecheckPins(t) \/ FinalizeBatch(t) \/ UnswizzleParent(t) \/ FreeEvicting(t)
               \/ ReleaseEvicted(t)
             PROVE  Sound'
  BY Zenon DEF Next
<1>1. CASE \E p \in Pages : FixStable(t, p) \/ FixOrphan(t, p) \/ Allocate(t, p)
  BY <1>1, FixStableKeeps, FixOrphanKeeps, AllocateKeeps, Zenon
<1>2. CASE ReserveBudget(t) \/ AllocateAndFix(t) \/ InstallNewPage(t)
  BY <1>2, ReserveBudgetKeeps, AllocateAndFixKeeps, InstallNewPageKeeps, Zenon
<1>3. CASE LoadSwip(t) \/ FixHot(t) \/ PinHot(t) \/ ConfirmHot(t)
  BY <1>3, LoadSwipKeeps, FixHotKeeps, PinHotKeeps, ConfirmHotKeeps, Zenon
<1>4. CASE PopFreeFrame(t) \/ FixCold(t) \/ ReadPage(t) \/ InstallStable(t)
  BY <1>4, PopFreeFrameKeeps, FixColdKeeps, ReadPageKeeps, InstallStableKeeps, Zenon
<1>5. CASE OrphanLookup(t) \/ OrphanState(t) \/ OrphanPin(t) \/ OrphanConfirm(t)
  BY <1>5, OrphanLookupKeeps, OrphanStateKeeps, OrphanPinKeeps, OrphanConfirmKeeps, Zenon
<1>6. CASE OrphanExclusive(t) \/ InstallOrphan(t) \/ BudgetReturned(t)
  BY <1>6, OrphanExclusiveKeeps, InstallOrphanKeeps, BudgetReturnedKeeps, Zenon
<1>7. CASE WritePage(t) \/ Unfix(t) \/ WriteBack(t) \/ MarkClean(t)
  BY <1>7, WritePageKeeps, UnfixKeeps, WriteBackKeeps, MarkCleanKeeps, Zenon
<1>8. CASE \E f \in Frames : CopyDirtyPage(t, f) \/ EvictOne(t, f) \/ SelectForBatch(t, f)
  BY <1>8, CopyDirtyPageKeeps, EvictOneKeeps, SelectForBatchKeeps, Zenon
<1>9. CASE RecheckPins(t) \/ FinalizeBatch(t) \/ UnswizzleParent(t)
  BY <1>9, RecheckPinsKeeps, FinalizeBatchKeeps, UnswizzleParentKeeps, Zenon
<1>10. CASE FreeEvicting(t) \/ ReleaseEvicted(t)
  BY <1>10, FreeEvictingKeeps, ReleaseEvictedKeeps, Zenon
<1>11. CASE ReadFailed(t) \/ FlushFailed(t) \/ PoolExhausted(t)
  BY <1>11, ReadFailedKeeps, FlushFailedKeeps, PoolExhaustedKeeps, Zenon
<1> QED
  BY <1>1, <1>2, <1>3, <1>4, <1>5, <1>6, <1>7, <1>8, <1>9, <1>10, <1>11, Zenon

\* What the history says stays said.
LEMMA HistoryStays ==
    ASSUME Next
    PROVE  blind => blind'
<1> USE DEF outside
<1>1. PICK t \in Threads :
               \/ \E p \in Pages : FixStable(t, p) \/ FixOrphan(t, p) \/ Allocate(t, p)
               \/ ReserveBudget(t) \/ AllocateAndFix(t) \/ InstallNewPage(t)
               \/ LoadSwip(t) \/ FixHot(t) \/ PinHot(t) \/ ConfirmHot(t)
               \/ PopFreeFrame(t) \/ FixCold(t) \/ ReadPage(t) \/ InstallStable(t)
               \/ ReadFailed(t) \/ FlushFailed(t) \/ PoolExhausted(t)
               \/ OrphanLookup(t) \/ OrphanState(t) \/ OrphanPin(t) \/ OrphanConfirm(t)
               \/ OrphanExclusive(t) \/ InstallOrphan(t) \/ BudgetReturned(t)
               \/ WritePage(t) \/ Unfix(t)
               \/ \E f \in Frames : CopyDirtyPage(t, f) \/ EvictOne(t, f) \/ SelectForBatch(t, f)
               \/ WriteBack(t) \/ MarkClean(t)
               \/ RecheckPins(t) \/ FinalizeBatch(t) \/ UnswizzleParent(t) \/ FreeEvicting(t)
               \/ ReleaseEvicted(t)
  BY Zenon DEF Next
<1>2. CASE \E p \in Pages : FixStable(t, p) \/ FixOrphan(t, p) \/ Allocate(t, p)
  BY <1>2 DEF FixStable, FixOrphan, Allocate
<1>3. CASE ReserveBudget(t) \/ AllocateAndFix(t) \/ InstallNewPage(t)
  BY <1>3 DEF ReserveBudget, AllocateAndFix, InstallNewPage
<1>4. CASE LoadSwip(t) \/ FixHot(t) \/ PinHot(t) \/ ConfirmHot(t)
  <2>1. LoadSwip(t) => UNCHANGED blind
    BY Zenon DEF LoadSwip
  <2>2. FixHot(t) => UNCHANGED blind
    BY Zenon DEF FixHot
  <2>3. PinHot(t) => UNCHANGED blind
    BY Zenon DEF PinHot
  <2>4. ConfirmHot(t) => UNCHANGED blind
    BY Zenon DEF ConfirmHot
  <2> QED
    BY <1>4, <2>1, <2>2, <2>3, <2>4
<1>5. CASE PopFreeFrame(t) \/ FixCold(t) \/ ReadPage(t) \/ InstallStable(t)
  <2>1. PopFreeFrame(t) => UNCHANGED blind
    BY Zenon DEF PopFreeFrame
  <2>2. FixCold(t) => UNCHANGED blind
    BY Zenon DEF FixCold
  <2>3. ReadPage(t) => UNCHANGED blind
    BY Zenon DEF ReadPage
  <2>4. InstallStable(t) => UNCHANGED blind
    BY Zenon DEF InstallStable
  <2> QED
    BY <1>5, <2>1, <2>2, <2>3, <2>4
<1>6. CASE OrphanLookup(t) \/ OrphanState(t) \/ OrphanPin(t) \/ OrphanConfirm(t)
  <2>1. OrphanLookup(t) => UNCHANGED blind
    BY Zenon DEF OrphanLookup
  <2>2. OrphanState(t) => UNCHANGED blind
    BY Zenon DEF OrphanState
  <2>3. OrphanPin(t) => UNCHANGED blind
    BY Zenon DEF OrphanPin
  <2>4. OrphanConfirm(t) => UNCHANGED blind
    BY Zenon DEF OrphanConfirm
  <2> QED
    BY <1>6, <2>1, <2>2, <2>3, <2>4
<1>7. CASE OrphanExclusive(t) \/ InstallOrphan(t) \/ BudgetReturned(t)
  BY <1>7 DEF OrphanExclusive, InstallOrphan, BudgetReturned
<1>8. CASE WritePage(t) \/ Unfix(t) \/ WriteBack(t) \/ MarkClean(t)
  BY <1>8 DEF WritePage, Unfix, WriteBack, MarkClean
<1>9. CASE \E f \in Frames : CopyDirtyPage(t, f) \/ EvictOne(t, f) \/ SelectForBatch(t, f)
  BY <1>9 DEF CopyDirtyPage, EvictOne, SelectForBatch
<1>10. CASE FinalizeBatch(t)
  <2>2. \/ blind' = blind
        \/ blind' = (blind \/ frame[th[t].frame].state # "Evicting")
    BY <1>10, Zenon DEF FinalizeBatch
  <2> QED
    BY <2>2, Zenon
<1>11. CASE RecheckPins(t) \/ UnswizzleParent(t) \/ FreeEvicting(t) \/ ReleaseEvicted(t)
  BY <1>11 DEF RecheckPins, UnswizzleParent, FreeEvicting, ReleaseEvicted
<1>12. CASE ReadFailed(t) \/ FlushFailed(t) \/ PoolExhausted(t)
  BY <1>12 DEF ReadFailed, FlushFailed, PoolExhausted
<1> QED
  BY <1>1, <1>2, <1>3, <1>4, <1>5, <1>6, <1>7, <1>8, <1>9, <1>10, <1>11, <1>12, ZenonT(30)

\* The inductive invariant holds in every behaviour of the pool.
THEOREM PoolInvariant == Spec => []PoolInv
<1>1. Init => PoolInv
  BY InitSound DEF PoolInv
<1>2. PoolInv /\ [Next]_vars => PoolInv'
  <2> SUFFICES ASSUME PoolInv, [Next]_vars, ~blind'
               PROVE  Sound'
    BY DEF PoolInv
  <2>1. CASE Next
    BY <2>1, HistoryStays, NextKeeps DEF PoolInv
  <2>2. CASE UNCHANGED vars
    <3>1. Sound
      BY <2>2 DEF PoolInv, vars
    <3> USE <2>2 DEF vars
    <3>2. Types' /\ Locality' /\ OwnPages'
      BY <3>1, Zenon DEF Sound, Types, Locality, LocalOk, OwnPages
    <3>3. Latching' /\ Loading' /\ Evicting'
      BY <3>1, ZenonT(30) DEF Sound, Latching, Loading, Evicting
    <3>4. Popping' /\ Registered' /\ PageTableIsExact'
      BY <3>1 DEF Sound, Popping, Registered, PageTableIsExact, Occupied
    <3> QED
      BY <3>2, <3>3, <3>4 DEF Sound
  <2> QED
    BY <2>1, <2>2
<1> QED
  BY <1>1, <1>2, PTL DEF Spec

\* However fixes by edge and by id, allocations, cleanings and evictions of any
\* number of threads overlap, the page table is the map from the pages in frames
\* to their frames: until a batch sets a frame Resident that it no longer had
\* Evicting, no page is in two frames and no occupied frame is missing.
THEOREM PageTableStaysExact == Spec => [](~blind => PageTableIsExact)
<1>1. PoolInv => (~blind => PageTableIsExact)
  BY DEF PoolInv, Sound
<1> QED
  BY <1>1, PoolInvariant, PTL

-----------------------------------------------------------------------------
(* The free frames, counted. *)

INSTANCE FiniteSetTheorems

\* A Free frame is on the list or in one hand, never both: counted.
LEMMA SoundAccounts ==
    ASSUME Sound
    PROVE  FreeFramesAccounted
<1> SUFFICES ASSUME NEW f \in Frames
             PROVE  freeList[f] + Cardinality({t \in Threads : th[t].popped /\ th[t].frame = f})
                      = IF Occupied(f) THEN 0 ELSE 1
  BY DEF FreeFramesAccounted
<1> DEFINE hands == {t \in Threads : th[t].popped /\ th[t].frame = f}
<1>1. freeList[f] \in {0, 1} /\ (freeList[f] = 1 => ~Occupied(f))
  BY Zenon DEF Sound, Popping, Occupied
<1>2. \A t \in hands : /\ freeList[f] = 0 /\ ~Occupied(f)
                      /\ \A u \in hands : u = t
  BY DEF Sound, Popping, Occupied
<1>3. freeList[f] = 0 /\ ~Occupied(f) => hands # {}
  BY Zenon DEF Sound, Popping, Occupied
<1>4. CASE hands = {}
  <2>1. Cardinality(hands) = 0
    BY <1>4, FS_EmptySet, Zenon
  <2> QED
    BY <1>1, <1>3, <1>4, <2>1
<1>5. CASE hands # {}
  <2>1. PICK t \in hands : TRUE
    BY <1>5
  <2>2. hands = {t}
    BY <1>2, <2>1
  <2>3. Cardinality(hands) = 1
    BY <2>2, FS_Singleton, ZenonT(30)
  <2> QED
    BY <1>2, <2>1, <2>3
<1> QED
  BY <1>4, <1>5

\* As long as no batch reverts blindly, no free frame is lost or listed twice:
\* it is on free_list once, or in the hand of the one thread that popped it.
THEOREM FreeFramesStayAccounted == Spec => [](~blind => FreeFramesAccounted)
<1>1. PoolInv => (~blind => FreeFramesAccounted)
  BY SoundAccounts DEF PoolInv
<1> QED
  BY <1>1, PoolInvariant, PTL
=============================================================================
