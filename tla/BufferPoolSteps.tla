---------------------------- MODULE BufferPoolSteps ----------------------------
(***************************************************************************)
(* The inductive invariant of the buffer pool and the steps that leave the *)
(* page table and the free list alone, for any threads, frames, pages and  *)
(* loads.  BufferPoolProofs has the other steps and the theorems.          *)
(*                                                                         *)
(* As long as no batch has reverted a frame it had lost (~blind), the page *)
(* table is the map from pages to the frames that hold them and every free *)
(* frame is in one place.  The argument: the loader of a frame is the only *)
(* thread that moves it out of Loading, the holder of an evicted frame's   *)
(* latch the only one that frees it, and a popped frame stays Free until   *)
(* the thread that popped it registers a page for it.                      *)
(***************************************************************************)
EXTENDS BufferPool, TLAPS

\* Steps at which a thread's frame is a frame, and those of one kind.
Framed == {"hot", "pin", "pinned", "latch", "load", "install", "oState", "oPin", "oPinned",
           "oOpen", "oBare", "oLatch", "oLoad", "oInstall", "held", "aInstall", "aLink", "write", "clean",
           "recheck", "finalize", "unswizzle", "final", "release"}
Fixing == {"fix", "hot", "pin", "pinned", "pop", "latch", "load", "install",
           "orphan", "oState", "oPin", "oPinned", "oOpen", "oBare", "oPop", "oLatch", "oLoad",
           "oInstall"}
Allocating == {"reserve", "aPop", "aInstall", "aLink"}
Loaders == {"load", "install", "oLoad", "oInstall"}
Evictors == {"recheck", "unswizzle", "final"}
Latched == {"load", "install", "release"} \union Evictors

States == {"Free", "Loading", "Resident", "Evicting"}
Links == {"None", "Stable", "Unswizzled"}
Headers == [state : States, pid : Pages \union {NoPage}, pins : Int, dirty : BOOLEAN,
            gen : Int, link : Links, val : Int]
PlaceNames ==
    Framed \union {"idle", "fix", "pop", "orphan", "oPop", "reserve", "aPop", "budget", "leaked"}
Backs == {"idle", "fix", "orphan", "reserve"}
Places == [pc : PlaceNames, page : Pages \union {NoPage}, frame : Frames \union {NoFrame},
           popped : BOOLEAN, back : Backs,
           claim : Pages \union {NoPage}, copy : Int, gen : Int, ret : PlaceNames, permit : Int]

Types ==
    /\ frame \in [Frames -> Headers]
    /\ latch \in [Frames -> Threads \union {NoThread}]
    /\ edge \in [Pages -> Frames \union {NoFrame}]
    /\ pageTable \in [Pages -> Frames \union {NoFrame}]
    /\ freeList \in [Frames -> Int]
    /\ store \in [Pages -> Int] /\ latest \in [Pages -> Int]
    /\ allocated \subseteq Pages
    /\ th \in [Threads -> Places]

\* What a thread's place says of its locals.
LocalOk(x) ==
    /\ x.pc \in Framed => x.frame \in Frames
    /\ x.popped => x.pc \in {"latch", "oState", "oLatch", "aInstall"}
    /\ x.pc = "aInstall" => x.popped
    /\ x.pc \in Fixing \/ x.ret \in {"pop", "oPop"} => x.back \in {"fix", "orphan"}
    /\ x.pc \in Allocating \/ x.ret = "aPop" => x.back = "reserve"
    /\ x.pc = "budget" \/ x.ret = "budget" => x.back # "idle"
    /\ x.back # "idle" \/ x.pc = "held" => x.page \in Pages
    /\ x.ret \in {"idle", "pop", "oPop", "aPop", "budget"}
Locality == \A t \in Threads : LocalOk(th[t])

\* A fix is about a page that exists, an allocation about a page of its own.
OwnPages ==
    \A t \in Threads :
        /\ th[t].back \in {"fix", "orphan"} => th[t].page \in allocated
        /\ th[t].back = "reserve" =>
             /\ th[t].page \notin allocated
             /\ \A u \in Threads \ {t} : th[u].back = "reserve" => th[u].page # th[t].page

\* A latch is held by the thread whose place says so.
Latching == \A t \in Threads : th[t].pc \in Latched => latch[th[t].frame] = t

\* A Loading frame belongs to one loader.
Loading ==
    \A t \in Threads : th[t].pc \in Loaders =>
        /\ frame[th[t].frame].state = "Loading" /\ frame[th[t].frame].pid = th[t].page
        /\ \A u \in Threads \ {t} : th[u].pc \in Loaders => th[u].frame # th[t].frame

\* A frame under eviction is not freed by anybody else.
Evicting ==
    \A t \in Threads : th[t].pc \in Evictors =>
        frame[th[t].frame].state \in {"Resident", "Evicting"}

\* A Free frame is on the list or in one hand.
Popping ==
    /\ \A t \in Threads : th[t].popped =>
         /\ frame[th[t].frame].state = "Free" /\ freeList[th[t].frame] = 0
         /\ \A u \in Threads \ {t} : th[u].popped => th[u].frame # th[t].frame
    /\ \A f \in Frames :
         /\ freeList[f] \in {0, 1}
         /\ freeList[f] = 1 => frame[f].state = "Free"
         /\ frame[f].state = "Free" /\ freeList[f] = 0 =>
              \E t \in Threads : th[t].popped /\ th[t].frame = f

\* The table has pages that exist and those an allocation has just installed.
Registered ==
    \A p \in Pages : pageTable[p] # NoFrame =>
        p \in allocated \/ \E t \in Threads : th[t].pc = "aLink" /\ th[t].page = p

\* The inductive invariant.
Sound ==
    /\ Types /\ Locality /\ OwnPages /\ Latching /\ Loading /\ Evicting
    /\ Popping /\ Registered /\ PageTableIsExact
PoolInv == ~blind => Sound

-----------------------------------------------------------------------------
(* Records. *)

\* The header g shows the state s and the page p.
Shows(g, s, p) == g \in Headers /\ g.state = s /\ g.pid = p

\* What an update of one field does to a header.
LEMMA HeaderField ==
    ASSUME NEW h \in Headers
    PROVE  /\ \A v \in States : Shows([h EXCEPT !.state = v], v, h.pid)
           /\ \A v \in Pages \union {NoPage} : Shows([h EXCEPT !.pid = v], h.state, v)
           /\ \A v \in Int : Shows([h EXCEPT !.pins = v], h.state, h.pid)
           /\ \A v \in BOOLEAN : Shows([h EXCEPT !.dirty = v], h.state, h.pid)
           /\ \A v \in Int : Shows([h EXCEPT !.gen = v], h.state, h.pid)
           /\ \A v \in Links : Shows([h EXCEPT !.link = v], h.state, h.pid)
           /\ \A v \in Int : Shows([h EXCEPT !.val = v], h.state, h.pid)
<1>1. \A v \in States : Shows([h EXCEPT !.state = v], v, h.pid)
  BY DEF Headers, Shows
<1>2. \A v \in Pages \union {NoPage} : Shows([h EXCEPT !.pid = v], h.state, v)
  BY DEF Headers, Shows
<1>3. \A v \in Int : Shows([h EXCEPT !.pins = v], h.state, h.pid)
  BY DEF Headers, Shows
<1>4. \A v \in BOOLEAN : Shows([h EXCEPT !.dirty = v], h.state, h.pid)
  BY DEF Headers, Shows
<1>5. \A v \in Int : Shows([h EXCEPT !.gen = v], h.state, h.pid)
  BY DEF Headers, Shows
<1>6. \A v \in Links : Shows([h EXCEPT !.link = v], h.state, h.pid)
  BY DEF Headers, Shows
<1>7. \A v \in Int : Shows([h EXCEPT !.val = v], h.state, h.pid)
  BY DEF Headers, Shows
<1> QED
  BY <1>1, <1>2, <1>3, <1>4, <1>5, <1>6, <1>7, Zenon

\* The threads S differ from th at most in thread t, whose place and locals
\* are these.
Moved(S, t, pc, page, f, popped, back, ret) ==
    /\ S \in [Threads -> Places]
    /\ \A u \in Threads \ {t} : S[u] = th[u]
    /\ S[t].pc = pc /\ S[t].page = page /\ S[t].frame = f
    /\ S[t].popped = popped /\ S[t].back = back /\ S[t].ret = ret

\* Assigning one field of a thread's place changes that field and no other.
LEMMA LocalField ==
    ASSUME NEW t \in Threads, NEW S, NEW pc, NEW page, NEW f, NEW popped, NEW back, NEW ret,
           Moved(S, t, pc, page, f, popped, back, ret)
    PROVE  /\ \A v \in PlaceNames :
                Moved([S EXCEPT ![t].pc = v], t, v, page, f, popped, back, ret)
           /\ \A v \in Frames \union {NoFrame} :
                Moved([S EXCEPT ![t].frame = v], t, pc, page, v, popped, back, ret)
           /\ \A v \in BOOLEAN :
                Moved([S EXCEPT ![t].popped = v], t, pc, page, f, v, back, ret)
           /\ \A v \in PlaceNames :
                Moved([S EXCEPT ![t].ret = v], t, pc, page, f, popped, back, v)
           /\ \A v \in Pages \union {NoPage} :
                Moved([S EXCEPT ![t].claim = v], t, pc, page, f, popped, back, ret)
           /\ \A v \in Int :
                Moved([S EXCEPT ![t].copy = v], t, pc, page, f, popped, back, ret)
           /\ \A v \in Int :
                Moved([S EXCEPT ![t].gen = v], t, pc, page, f, popped, back, ret)
           /\ \A v \in Int :
                Moved([S EXCEPT ![t].permit = v], t, pc, page, f, popped, back, ret)
<1>1. \A v \in PlaceNames : Moved([S EXCEPT ![t].pc = v], t, v, page, f, popped, back, ret)
  BY DEF Places, Moved
<1>2. \A v \in Frames \union {NoFrame} :
        Moved([S EXCEPT ![t].frame = v], t, pc, page, v, popped, back, ret)
  BY DEF Places, Moved
<1>3. \A v \in BOOLEAN : Moved([S EXCEPT ![t].popped = v], t, pc, page, f, v, back, ret)
  BY DEF Places, Moved
<1>4. \A v \in PlaceNames : Moved([S EXCEPT ![t].ret = v], t, pc, page, f, popped, back, v)
  BY DEF Places, Moved
<1>5. \A v \in Pages \union {NoPage} :
        Moved([S EXCEPT ![t].claim = v], t, pc, page, f, popped, back, ret)
  BY DEF Places, Moved
<1>6. \A v \in Int : Moved([S EXCEPT ![t].copy = v], t, pc, page, f, popped, back, ret)
  BY DEF Places, Moved
<1>7. \A v \in Int : Moved([S EXCEPT ![t].gen = v], t, pc, page, f, popped, back, ret)
  BY DEF Places, Moved
<1>8. \A v \in Int : Moved([S EXCEPT ![t].permit = v], t, pc, page, f, popped, back, ret)
  BY DEF Places, Moved
<1> QED
  BY <1>1, <1>2, <1>3, <1>4, <1>5, <1>6, <1>7, <1>8, Zenon

\* Frame f now shows the state s and the page p; the others are as they were.
Headed(f, s, p) ==
    /\ frame' \in [Frames -> Headers]
    /\ frame'[f].state = s /\ frame'[f].pid = p
    /\ \A g \in Frames \ {f} : frame'[g] = frame[g]

\* Storing a header with a given state and page id in a frame.
LEMMA SetHeader ==
    ASSUME frame \in [Frames -> Headers], NEW f \in Frames, NEW g, NEW s, NEW p,
           Shows(g, s, p), frame' = [frame EXCEPT ![f] = g]
    PROVE  Headed(f, s, p)
BY DEF Shows, Headed

\* The updates of two and more fields that the actions make, a field at a time.
LEMMA PinsAndState ==
    ASSUME NEW h \in Headers, NEW n \in Int, NEW v \in States
    PROVE  Shows([h EXCEPT !.pins = n, !.state = v], v, h.pid)
<1>1. Shows([h EXCEPT !.pins = n], h.state, h.pid)
  BY HeaderField, Zenon
<1>2. Shows([[h EXCEPT !.pins = n] EXCEPT !.state = v], v, h.pid)
  BY <1>1, HeaderField, Zenon DEF Shows
<1> QED
  BY <1>2

\* Headers whose pin count and link change keep state and page id.
LEMMA PinsAndLink ==
    ASSUME NEW h \in Headers, NEW n \in Int, NEW v \in Links
    PROVE  /\ Shows([h EXCEPT !.pins = n, !.link = v], h.state, h.pid)
           /\ Shows([h EXCEPT !.link = v, !.pins = n], h.state, h.pid)
<1>1. Shows([h EXCEPT !.pins = n], h.state, h.pid)
  BY HeaderField, Zenon
<1>2. Shows([[h EXCEPT !.pins = n] EXCEPT !.link = v], h.state, h.pid)
  BY <1>1, HeaderField, Zenon DEF Shows
<1>3. Shows([h EXCEPT !.link = v], h.state, h.pid)
  BY HeaderField, Zenon
<1>4. Shows([[h EXCEPT !.link = v] EXCEPT !.pins = n], h.state, h.pid)
  BY <1>3, HeaderField, Zenon DEF Shows
<1> QED
  BY <1>2, <1>4

\* Headers whose page id and state are stored.
LEMMA PageAndState ==
    ASSUME NEW h \in Headers, NEW q \in Pages, NEW v \in States, NEW l \in Links
    PROVE  /\ Shows([h EXCEPT !.pid = q, !.state = v], v, q)
           /\ Shows([h EXCEPT !.pid = q, !.link = l, !.state = v], v, q)
<1>1. Shows([h EXCEPT !.pid = q], h.state, q)
  BY HeaderField, Zenon
<1>2. Shows([[h EXCEPT !.pid = q] EXCEPT !.state = v], v, q)
  BY <1>1, HeaderField, Zenon DEF Shows
<1>3. Shows([[h EXCEPT !.pid = q] EXCEPT !.link = l], h.state, q)
  BY <1>1, HeaderField, Zenon DEF Shows
<1>4. Shows([[[h EXCEPT !.pid = q] EXCEPT !.link = l] EXCEPT !.state = v], v, q)
  BY <1>3, HeaderField, Zenon DEF Shows
<1> QED
  BY <1>2, <1>4

\* Headers whose dirty flag and pin count change keep state and page id.
LEMMA DirtyAndPins ==
    ASSUME NEW h \in Headers, NEW n \in Int, NEW b \in BOOLEAN
    PROVE  Shows([h EXCEPT !.dirty = b, !.pins = n], h.state, h.pid)
<1>1. Shows([h EXCEPT !.dirty = b], h.state, h.pid)
  BY HeaderField, Zenon
<1>2. Shows([[h EXCEPT !.dirty = b] EXCEPT !.pins = n], h.state, h.pid)
  BY <1>1, HeaderField, Zenon DEF Shows
<1> QED
  BY <1>2

\* Headers whose contents change keep state and page id.
LEMMA Contents ==
    ASSUME NEW h \in Headers, NEW v \in Int, NEW n \in Int, NEW b \in BOOLEAN
    PROVE  Shows([h EXCEPT !.val = v, !.dirty = b, !.gen = n], h.state, h.pid)
<1>1. Shows([h EXCEPT !.val = v], h.state, h.pid)
  BY HeaderField, Zenon
<1>2. Shows([[h EXCEPT !.val = v] EXCEPT !.dirty = b], h.state, h.pid)
  BY <1>1, HeaderField, Zenon DEF Shows
<1>3. Shows([[[h EXCEPT !.val = v] EXCEPT !.dirty = b] EXCEPT !.gen = n], h.state, h.pid)
  BY <1>2, HeaderField, Zenon DEF Shows
<1> QED
  BY <1>3

\* Headers whose state and link are stored keep the page id.
LEMMA StateAndLink ==
    ASSUME NEW h \in Headers, NEW v \in States, NEW l \in Links
    PROVE  Shows([h EXCEPT !.state = v, !.link = l], v, h.pid)
<1>1. Shows([h EXCEPT !.state = v], v, h.pid)
  BY HeaderField, Zenon
<1>2. Shows([[h EXCEPT !.state = v] EXCEPT !.link = l], v, h.pid)
  BY <1>1, HeaderField, Zenon DEF Shows
<1> QED
  BY <1>2

\* install_loaded_frame_metadata, alone and with what an abandoned load or an
\* allocation adds to it.
LEMMA InstalledHeader ==
    ASSUME NEW f \in Frames, frame[f] \in Headers, NEW l \in Links, NEW q \in Pages
    PROVE  /\ Shows(Installed(f, l), "Resident", frame[f].pid)
           /\ Shows([Installed(f, l) EXCEPT !.state = "Free", !.pins = 0], "Free", frame[f].pid)
           /\ Shows([Installed(f, l) EXCEPT !.pid = q, !.val = 0], "Resident", q)
<1> DEFINE h == frame[f]
<1>1. Shows([h EXCEPT !.state = "Resident"], "Resident", h.pid)
  BY HeaderField, Zenon DEF States
<1>2. Shows([[h EXCEPT !.state = "Resident"] EXCEPT !.pins = 1], "Resident", h.pid)
  <2>1. 1 \in Int
    OBVIOUS
  <2> QED
    BY <1>1, <2>1, HeaderField, Zenon DEF Shows
<1>3. Shows([[[h EXCEPT !.state = "Resident"] EXCEPT !.pins = 1] EXCEPT !.dirty = FALSE],
            "Resident", h.pid)
  BY <1>2, HeaderField, Zenon DEF Shows
<1>4. Shows([[[[h EXCEPT !.state = "Resident"] EXCEPT !.pins = 1] EXCEPT !.dirty = FALSE]
             EXCEPT !.link = l], "Resident", h.pid)
  BY <1>3, HeaderField, Zenon DEF Shows
<1>5. Shows(Installed(f, l), "Resident", h.pid)
  BY <1>4 DEF Installed
<1>6. /\ Installed(f, l) \in Headers
      /\ Installed(f, l).state = "Resident" /\ Installed(f, l).pid = h.pid
  BY <1>5, Zenon DEF Shows
<1>7. Shows([Installed(f, l) EXCEPT !.state = "Free"], "Free", h.pid)
  BY <1>6, HeaderField, Zenon DEF States
<1>8. Shows([[Installed(f, l) EXCEPT !.state = "Free"] EXCEPT !.pins = 0], "Free", h.pid)
  <2>1. 0 \in Int
    OBVIOUS
  <2> QED
    BY <1>7, <2>1, HeaderField, Zenon DEF Shows
<1>9. Shows([Installed(f, l) EXCEPT !.pid = q], "Resident", q)
  <2>1. q \in Pages \union {NoPage}
    OBVIOUS
  <2> QED
    BY <1>6, <2>1, HeaderField, Zenon
<1>10. Shows([[Installed(f, l) EXCEPT !.pid = q] EXCEPT !.val = 0], "Resident", q)
  <2>1. 0 \in Int
    OBVIOUS
  <2> QED
    BY <1>9, <2>1, HeaderField, Zenon DEF Shows
<1> QED
  BY <1>5, <1>8, <1>10

\* What the writes to a header that several actions share leave to see.
LEMMA AddPinsHeads ==
    ASSUME frame \in [Frames -> Headers], NEW f \in Frames, NEW n \in Int, AddPins(f, n)
    PROVE  Headed(f, frame[f].state, frame[f].pid)
<1>1. frame[f] \in Headers /\ frame[f].pins + n \in Int
  BY DEF Headers
<1>2. Shows([frame[f] EXCEPT !.pins = frame[f].pins + n], frame[f].state, frame[f].pid)
  BY <1>1, HeaderField, Zenon
<1> QED
  BY <1>2, SetHeader, Zenon DEF AddPins, Set

\* A step that stores only a frame's state.
LEMMA StateHeads ==
    ASSUME frame \in [Frames -> Headers], NEW f \in Frames, NEW v \in States,
           Set(f, [frame[f] EXCEPT !.state = v])
    PROVE  Headed(f, v, frame[f].pid)
<1>1. frame[f] \in Headers
  OBVIOUS
<1>2. Shows([frame[f] EXCEPT !.state = v], v, frame[f].pid)
  BY <1>1, HeaderField, Zenon
<1> QED
  BY <1>2, SetHeader, Zenon DEF Set

\* Where a thread stands before it moves.
LEMMA Standing ==
    ASSUME th \in [Threads -> Places], NEW t \in Threads
    PROVE  /\ Moved(th, t, th[t].pc, th[t].page, th[t].frame, th[t].popped, th[t].back, th[t].ret)
           /\ th[t].pc \in PlaceNames /\ th[t].ret \in PlaceNames
BY DEF Places, Moved

\* A thread goes to another place with the locals it has.
LEMMA GotoMoves ==
    ASSUME th \in [Threads -> Places], NEW t \in Threads, NEW v \in PlaceNames, Goto(t, v)
    PROVE  Moved(th', t, v, th[t].page, th[t].frame, th[t].popped, th[t].back, th[t].ret)
BY Standing, LocalField, Zenon DEF Goto

\* The locals x of a thread at a place.
Stands(x, pc, page, f, popped, back, ret) ==
    /\ x \in Places
    /\ x.pc = pc /\ x.page = page /\ x.frame = f
    /\ x.popped = popped /\ x.back = back /\ x.ret = ret

\* Assigning one field of a place changes that field and no other.
LEMMA PlaceField ==
    ASSUME NEW x, NEW pc, NEW page, NEW f, NEW popped, NEW back, NEW ret,
           Stands(x, pc, page, f, popped, back, ret)
    PROVE  /\ \A v \in PlaceNames : Stands([x EXCEPT !.pc = v], v, page, f, popped, back, ret)
           /\ \A v \in Pages : Stands([x EXCEPT !.page = v], pc, v, f, popped, back, ret)
           /\ \A v \in Frames : Stands([x EXCEPT !.frame = v], pc, page, v, popped, back, ret)
           /\ \A v \in Backs :
                Stands([x EXCEPT !.back = v], pc, page, f, popped, v, ret)
<1>1. \A v \in PlaceNames : Stands([x EXCEPT !.pc = v], v, page, f, popped, back, ret)
  BY DEF Stands, Places
<1>2. \A v \in Pages : Stands([x EXCEPT !.page = v], pc, v, f, popped, back, ret)
  BY DEF Stands, Places
<1>3. \A v \in Frames : Stands([x EXCEPT !.frame = v], pc, page, v, popped, back, ret)
  BY DEF Stands, Places
<1>4. \A v \in Backs :
        Stands([x EXCEPT !.back = v], pc, page, f, popped, v, ret)
  BY DEF Stands, Places
<1> QED
  BY <1>1, <1>2, <1>3, <1>4, Zenon

\* A thread between two calls holds no frame.
LEMMA IdleStands == Stands(Idle, "idle", NoPage, NoFrame, FALSE, "idle", "idle")
BY DEF Stands, Idle, Places, PlaceNames, Backs

\* A thread's place replaced by another.
LEMMA SetPlace ==
    ASSUME th \in [Threads -> Places], NEW t \in Threads, NEW x, NEW pc, NEW page, NEW f,
           NEW popped, NEW back, NEW ret, Stands(x, pc, page, f, popped, back, ret),
           th' = [th EXCEPT ![t] = x]
    PROVE  Moved(th', t, pc, page, f, popped, back, ret)
BY DEF Stands, Moved

\* A fix returns its pin.
LEMMA HoldMoves ==
    ASSUME th \in [Threads -> Places], NEW t \in Threads, NEW f \in Frames, NEW p \in Pages,
           Hold(t, f, p)
    PROVE  Moved(th', t, "held", p, f, FALSE, "idle", "idle")
<1>0. "held" \in PlaceNames
  BY DEF PlaceNames, Framed
<1>1. Stands([Idle EXCEPT !.pc = "held"], "held", NoPage, NoFrame, FALSE, "idle", "idle")
  BY <1>0, IdleStands, PlaceField, Zenon
<1>2. Stands([[Idle EXCEPT !.pc = "held"] EXCEPT !.page = p],
             "held", p, NoFrame, FALSE, "idle", "idle")
  BY <1>1, PlaceField, Zenon
<1>3. Stands([[[Idle EXCEPT !.pc = "held"] EXCEPT !.page = p] EXCEPT !.frame = f],
             "held", p, f, FALSE, "idle", "idle")
  BY <1>2, PlaceField, Zenon
<1>4. Stands([Idle EXCEPT !.pc = "held", !.page = p, !.frame = f],
             "held", p, f, FALSE, "idle", "idle")
  BY <1>3, Zenon
<1> QED
  BY <1>4, SetPlace, Zenon DEF Hold

\* A call starts.
LEMMA StartMoves ==
    ASSUME th \in [Threads -> Places], NEW t \in Threads, NEW p \in Pages,
           NEW v \in {"fix", "orphan", "reserve"},
           th' = [th EXCEPT ![t] = [Idle EXCEPT !.pc = v, !.page = p, !.back = v]]
    PROVE  Moved(th', t, v, p, NoFrame, FALSE, v, "idle")
<1>0. v \in PlaceNames /\ v \in Backs
  BY DEF PlaceNames, Backs
<1>1. Stands([Idle EXCEPT !.pc = v], v, NoPage, NoFrame, FALSE, "idle", "idle")
  BY <1>0, IdleStands, PlaceField, Zenon
<1>2. Stands([[Idle EXCEPT !.pc = v] EXCEPT !.page = p], v, p, NoFrame, FALSE, "idle", "idle")
  BY <1>1, PlaceField, Zenon
<1>3. Stands([[[Idle EXCEPT !.pc = v] EXCEPT !.page = p] EXCEPT !.back = v],
             v, p, NoFrame, FALSE, v, "idle")
  BY <1>0, <1>2, PlaceField, Zenon
<1>4. Stands([Idle EXCEPT !.pc = v, !.page = p, !.back = v], v, p, NoFrame, FALSE, v, "idle")
  BY <1>3, Zenon
<1> QED
  BY <1>4, SetPlace, Zenon

\* A call returns.
LEMMA IdleMoves ==
    ASSUME th \in [Threads -> Places], NEW t \in Threads, th' = [th EXCEPT ![t] = Idle]
    PROVE  Moved(th', t, "idle", NoPage, NoFrame, FALSE, "idle", "idle")
BY IdleStands, SetPlace, Zenon

\* A thread unwinds after a panic.
LEMMA UnwoundMoves ==
    ASSUME th \in [Threads -> Places], NEW t \in Threads, Unwound(t)
    PROVE  \E v \in {"idle", "leaked"} : Moved(th', t, v, NoPage, NoFrame, FALSE, "idle", "idle")
<1> DEFINE v == IF "aPop" \in {th[t].pc, th[t].ret} THEN "leaked" ELSE "idle"
<1>1. v \in {"idle", "leaked"} /\ v \in PlaceNames
  BY DEF PlaceNames
<1>2. th' = [th EXCEPT ![t] = [Idle EXCEPT !.pc = v]]
  BY Zenon DEF Unwound
<1> HIDE DEF v
<1>3. Stands([Idle EXCEPT !.pc = v], v, NoPage, NoFrame, FALSE, "idle", "idle")
  BY <1>1, IdleStands, PlaceField, Zenon
<1>4. Moved(th', t, v, NoPage, NoFrame, FALSE, "idle", "idle")
  BY <1>2, <1>3, SetPlace, Zenon
<1> QED
  BY <1>1, <1>4, Zenon

\* Room has been made, or not.
LEMMA DoneMoves ==
    ASSUME th \in [Threads -> Places], NEW t \in Threads, Done(t)
    PROVE  Moved(th', t, th[t].ret, th[t].page, NoFrame, th[t].popped, th[t].back, "idle")
<1> DEFINE S1 == [th EXCEPT ![t].pc = th[t].ret]
           S2 == [S1 EXCEPT ![t].ret = "idle"]
           S3 == [S2 EXCEPT ![t].frame = NoFrame]
           S4 == [S3 EXCEPT ![t].claim = NoPage]
           S5 == [S4 EXCEPT ![t].copy = 0]
           S6 == [S5 EXCEPT ![t].gen = 0]
           S7 == [S6 EXCEPT ![t].permit = 0]
           Place(S, f, r) == Moved(S, t, th[t].ret, th[t].page, f, th[t].popped, th[t].back, r)
<1>0. "idle" \in PlaceNames /\ 0 \in Int
  BY DEF PlaceNames
<1>1. Place(S1, th[t].frame, th[t].ret)
  BY Standing, LocalField, Zenon
<1>2. Place(S2, th[t].frame, "idle")
  BY <1>0, <1>1, LocalField, Zenon
<1>3. Place(S3, NoFrame, "idle")
  BY <1>2, LocalField, Zenon
<1>4. Place(S4, NoFrame, "idle")
  BY <1>3, LocalField, ZenonT(30)
<1> HIDE DEF S4
<1>5. Place(S5, NoFrame, "idle")
  BY <1>0, <1>4, LocalField, Zenon
<1>6. Place(S6, NoFrame, "idle")
  BY <1>0, <1>5, LocalField, Zenon
<1>7. Place(S7, NoFrame, "idle")
  BY <1>0, <1>6, LocalField, Zenon
<1>8. th' = S7
  BY Zenon DEF Done, S4
<1> QED
  BY <1>7, <1>8, Zenon

\* A thread takes frame f, or none, without having popped it.
LEMMA FrameMoves ==
    ASSUME th \in [Threads -> Places], NEW t \in Threads, NEW f \in Frames \union {NoFrame},
           NEW v \in PlaceNames,
           \/ th' = [th EXCEPT ![t].frame = f, ![t].popped = FALSE, ![t].pc = v]
           \/ th' = [th EXCEPT ![t].popped = FALSE, ![t].frame = f, ![t].pc = v]
           \/ th' = [th EXCEPT ![t].pc = v, ![t].popped = FALSE, ![t].frame = f]
    PROVE  Moved(th', t, v, th[t].page, f, FALSE, th[t].back, th[t].ret)
<1> DEFINE To(S, pc, g, c) == Moved(S, t, pc, th[t].page, g, c, th[t].back, th[t].ret)
<1>1. CASE th' = [th EXCEPT ![t].frame = f, ![t].popped = FALSE, ![t].pc = v]
  <2>1. To([th EXCEPT ![t].frame = f], th[t].pc, f, th[t].popped)
    BY Standing, LocalField, Zenon
  <2>2. To([[th EXCEPT ![t].frame = f] EXCEPT ![t].popped = FALSE], th[t].pc, f, FALSE)
    BY <2>1, LocalField, Zenon
  <2>3. To([[[th EXCEPT ![t].frame = f] EXCEPT ![t].popped = FALSE] EXCEPT ![t].pc = v], v, f, FALSE)
    BY <2>2, LocalField, Zenon
  <2> QED
    BY <1>1, <2>3, Zenon
<1>2. CASE th' = [th EXCEPT ![t].popped = FALSE, ![t].frame = f, ![t].pc = v]
  <2>1. To([th EXCEPT ![t].popped = FALSE], th[t].pc, th[t].frame, FALSE)
    BY Standing, LocalField, Zenon
  <2>2. To([[th EXCEPT ![t].popped = FALSE] EXCEPT ![t].frame = f], th[t].pc, f, FALSE)
    BY <2>1, LocalField, Zenon
  <2>3. To([[[th EXCEPT ![t].popped = FALSE] EXCEPT ![t].frame = f] EXCEPT ![t].pc = v], v, f, FALSE)
    BY <2>2, LocalField, Zenon
  <2> QED
    BY <1>2, <2>3, Zenon
<1>3. CASE th' = [th EXCEPT ![t].pc = v, ![t].popped = FALSE, ![t].frame = f]
  <2>1. To([th EXCEPT ![t].pc = v], v, th[t].frame, th[t].popped)
    BY Standing, LocalField, Zenon
  <2>2. To([[th EXCEPT ![t].pc = v] EXCEPT ![t].popped = FALSE], v, th[t].frame, FALSE)
    BY <2>1, LocalField, Zenon
  <2>3. To([[[th EXCEPT ![t].pc = v] EXCEPT ![t].popped = FALSE] EXCEPT ![t].frame = f], v, f, FALSE)
    BY <2>2, LocalField, Zenon
  <2> QED
    BY <1>3, <2>3, Zenon
<1> QED
  BY <1>1, <1>2, <1>3, Zenon

\* A thread pops frame f.
LEMMA PopMoves ==
    ASSUME th \in [Threads -> Places], NEW t \in Threads, NEW f \in Frames,
           NEW v \in PlaceNames,
           th' = [th EXCEPT ![t].frame = f, ![t].popped = TRUE, ![t].pc = v]
    PROVE  Moved(th', t, v, th[t].page, f, TRUE, th[t].back, th[t].ret)
<1> DEFINE To(S, pc, c) == Moved(S, t, pc, th[t].page, f, c, th[t].back, th[t].ret)
<1>1. To([th EXCEPT ![t].frame = f], th[t].pc, th[t].popped)
  BY Standing, LocalField, Zenon
<1>2. To([[th EXCEPT ![t].frame = f] EXCEPT ![t].popped = TRUE], th[t].pc, TRUE)
  BY <1>1, LocalField, Zenon
<1>3. To([[[th EXCEPT ![t].frame = f] EXCEPT ![t].popped = TRUE] EXCEPT ![t].pc = v], v, TRUE)
  BY <1>2, LocalField, Zenon
<1> QED
  BY <1>3, Zenon

\* A load or an allocation begins, or a load is given up.
LEMMA LoadMoves ==
    ASSUME th \in [Threads -> Places], NEW t \in Threads, NEW v \in PlaceNames
    PROVE  /\ th' = [th EXCEPT ![t].pc = v, ![t].popped = FALSE] =>
                Moved(th', t, v, th[t].page, th[t].frame, FALSE, th[t].back, th[t].ret)
           /\ th' = [th EXCEPT ![t].pc = v, ![t].frame = NoFrame] =>
                Moved(th', t, v, th[t].page, NoFrame, th[t].popped, th[t].back, th[t].ret)
<1> DEFINE To(S, g, c) == Moved(S, t, v, th[t].page, g, c, th[t].back, th[t].ret)
<1>1. To([th EXCEPT ![t].pc = v], th[t].frame, th[t].popped)
  BY Standing, LocalField, Zenon
<1>2. To([[th EXCEPT ![t].pc = v] EXCEPT ![t].popped = FALSE], th[t].frame, FALSE)
  BY <1>1, LocalField, Zenon
<1>3. To([[th EXCEPT ![t].pc = v] EXCEPT ![t].frame = NoFrame], NoFrame, th[t].popped)
  BY <1>1, LocalField, Zenon
<1> QED
  BY <1>2, <1>3, Zenon

\* A thread starts to clean a page, or to evict one.
LEMMA RoomMoves ==
    ASSUME th \in [Threads -> Places], NEW t \in Threads, NEW f \in Frames, NEW v \in PlaceNames,
           NEW q \in Pages \union {NoPage}, NEW c \in Int, NEW g \in Int,
           \/ th' = [th EXCEPT ![t].pc = v, ![t].ret = th[t].pc, ![t].frame = f]
           \/ th' = [th EXCEPT ![t].pc = v, ![t].ret = th[t].pc, ![t].frame = f, ![t].permit = 1]
           \/ th' = [th EXCEPT ![t].pc = v, ![t].ret = th[t].pc, ![t].frame = f,
                               ![t].claim = q, ![t].copy = c, ![t].gen = g]
    PROVE  Moved(th', t, v, th[t].page, f, th[t].popped, th[t].back, th[t].pc)
<1> DEFINE S1 == [th EXCEPT ![t].pc = v]
           S2 == [S1 EXCEPT ![t].ret = th[t].pc]
           S3 == [S2 EXCEPT ![t].frame = f]
           S4 == [S3 EXCEPT ![t].claim = q]
           S5 == [S4 EXCEPT ![t].copy = c]
           To(S, h, r) == Moved(S, t, v, th[t].page, h, th[t].popped, th[t].back, r)
<1>0. 1 \in Int /\ f \in Frames \union {NoFrame}
  OBVIOUS
<1>1. To(S1, th[t].frame, th[t].ret)
  BY Standing, LocalField, Zenon
<1>2. To(S2, th[t].frame, th[t].pc)
  BY <1>1, Standing, LocalField, Zenon
<1>3. To(S3, f, th[t].pc)
  BY <1>0, <1>2, LocalField, Zenon
<1>4. To([S3 EXCEPT ![t].permit = 1], f, th[t].pc)
  BY <1>0, <1>3, LocalField, Zenon
<1>5. To(S4, f, th[t].pc)
  BY <1>3, LocalField, Zenon
<1>6. To(S5, f, th[t].pc)
  BY <1>5, LocalField, Zenon
<1>7. To([S5 EXCEPT ![t].gen = g], f, th[t].pc)
  BY <1>6, LocalField, Zenon
<1>8. \/ th' = S3 \/ th' = [S3 EXCEPT ![t].permit = 1] \/ th' = [S5 EXCEPT ![t].gen = g]
  OBVIOUS
<1> QED
  BY <1>3, <1>4, <1>7, <1>8, Zenon

-----------------------------------------------------------------------------
(* Steps that leave every page in its frame. *)

\* Such a step of thread t: headers keep their page, and change their state only
\* between Resident and Evicting; a latch changes only if it was free or t's own;
\* the frame in t's hand stays there; the new place of t is one its locals allow.
Soft(t) ==
    /\ Types'
    /\ \A u \in Threads \ {t} : th'[u] = th[u]
    /\ LocalOk(th'[t])
    /\ pageTable' = pageTable /\ freeList' = freeList /\ allocated' = allocated
    /\ \A f \in Frames :
         /\ frame'[f].pid = frame[f].pid
         /\ \/ frame'[f].state = frame[f].state
            \/ /\ frame[f].state \in {"Resident", "Evicting"}
               /\ frame'[f].state \in {"Resident", "Evicting"}
         /\ latch'[f] = latch[f] \/ latch[f] \in {NoThread, t}
    /\ th'[t].popped = th[t].popped /\ (th[t].popped => th'[t].frame = th[t].frame)
    /\ th'[t].pc \in Latched => latch'[th'[t].frame] = t
    /\ th'[t].pc \in Loaders =>
         th[t].pc \in Loaders /\ th'[t].frame = th[t].frame /\ th'[t].page = th[t].page
    /\ th'[t].pc \in Evictors => frame'[th'[t].frame].state \in {"Resident", "Evicting"}
    /\ \/ th'[t].back = "idle"
       \/ th'[t].back = th[t].back /\ th'[t].page = th[t].page
       \/ th'[t].back \in {"fix", "orphan"} /\ th'[t].page \in allocated
       \/ /\ th'[t].back = "reserve" /\ th'[t].page \notin allocated
          /\ \A u \in Threads : th[u].page # th'[t].page
    /\ th[t].pc # "aLink"

\* A step that frees no frame, takes none off the free list and leaves the page
\* table alone keeps the invariant when its thread goes on at a place that
\* fits.
LEMMA SoftKeeps ==
    ASSUME Sound, NEW t \in Threads, Soft(t)
    PROVE  Sound'
<1> USE DEF Sound, Soft
<1>1. Locality'
  BY Zenon DEF Locality
<1>2. OwnPages'
  BY DEF OwnPages
<1>3. Latching'
  <2> SUFFICES ASSUME NEW u \in Threads, th'[u].pc \in Latched
               PROVE  latch'[th'[u].frame] = u
    BY Zenon DEF Latching
  <2>1. CASE u = t
    BY <2>1, Zenon
  <2>2. CASE u # t
    <3>1. th[u].frame \in Frames
      BY <2>2 DEF Locality, LocalOk, Latched, Evictors, Framed
    <3> QED
      BY <2>2, <3>1, PoolAssumption, Zenon DEF Latching
  <2> QED
    BY <2>1, <2>2, Zenon
<1>4. Loading'
  <2> SUFFICES ASSUME NEW u \in Threads, th'[u].pc \in Loaders
               PROVE  /\ frame'[th'[u].frame].state = "Loading"
                      /\ frame'[th'[u].frame].pid = th'[u].page
                      /\ \A w \in Threads \ {u} : th'[w].pc \in Loaders => th'[w].frame # th'[u].frame
    BY Zenon DEF Loading
  <2>1. \A w \in Threads : th'[w].pc \in Loaders =>
          th[w].pc \in Loaders /\ th'[w].frame = th[w].frame /\ th'[w].page = th[w].page
    OBVIOUS
  <2>2. th[u].frame \in Frames
    BY <2>1, Zenon DEF Locality, LocalOk, Loaders, Framed
  <2> QED
    BY <2>1, <2>2 DEF Loading
<1>5. Evicting'
  <2> SUFFICES ASSUME NEW u \in Threads \ {t}, th[u].pc \in Evictors
               PROVE  frame'[th[u].frame].state \in {"Resident", "Evicting"}
    BY DEF Evicting
  <2>1. th[u].frame \in Frames
    BY Zenon DEF Locality, LocalOk, Evictors, Framed
  <2> QED
    BY <2>1, Zenon DEF Evicting
<1>6. Popping'
  <2>1. \A u \in Threads : /\ th'[u].popped = th[u].popped
                           /\ th[u].popped => th'[u].frame = th[u].frame /\ th[u].frame \in Frames
    BY Zenon DEF Locality, LocalOk, Framed
  <2> QED
    BY <2>1 DEF Popping
<1>7. Registered'
  BY DEF Registered
<1>8. PageTableIsExact'
  BY DEF PageTableIsExact, Occupied, Types
<1> QED
  BY <1>1, <1>2, <1>3, <1>4, <1>5, <1>6, <1>7, <1>8, Zenon

\* The part of a soft step that concerns what the threads share.
Gentle(t) ==
    /\ frame' \in [Frames -> Headers] /\ latch' \in [Frames -> Threads \union {NoThread}]
    /\ edge' \in [Pages -> Frames \union {NoFrame}]
    /\ store' \in [Pages -> Int] /\ latest' \in [Pages -> Int]
    /\ pageTable' = pageTable /\ freeList' = freeList /\ allocated' = allocated
    /\ \A f \in Frames :
         /\ frame'[f].pid = frame[f].pid
         /\ \/ frame'[f].state = frame[f].state
            \/ /\ frame[f].state \in {"Resident", "Evicting"}
               /\ frame'[f].state \in {"Resident", "Evicting"}
         /\ latch'[f] = latch[f] \/ latch[f] \in {NoThread, t}

\* A step that changes no header disturbs no other thread.
LEMMA StillIsGentle ==
    ASSUME Sound, NEW t \in Threads,
           UNCHANGED <<frame, latch, pageTable, freeList, allocated>>,
           edge' \in [Pages -> Frames \union {NoFrame}],
           store' \in [Pages -> Int], latest' \in [Pages -> Int]
    PROVE  Gentle(t)
BY Zenon DEF Sound, Types, Gentle

\* A step that keeps a frame where it is, or moves it between Resident and
\* Evicting, disturbs no other thread.
LEMMA HeadedIsGentle ==
    ASSUME Sound, NEW t \in Threads, NEW f \in Frames, NEW s,
           Headed(f, s, frame[f].pid),
           \/ s = frame[f].state
           \/ frame[f].state \in {"Resident", "Evicting"} /\ s \in {"Resident", "Evicting"},
           latch' = latch \/ (latch[f] \in {NoThread, t} /\ \E u \in {NoThread, t} : latch' = [latch EXCEPT ![f] = u]),
           UNCHANGED <<pageTable, freeList, allocated>>,
           edge' \in [Pages -> Frames \union {NoFrame}],
           store' \in [Pages -> Int], latest' \in [Pages -> Int]
    PROVE  Gentle(t)
BY DEF Sound, Types, Gentle, Headed

\* A thread without a frame in its hand steps softly to a place with neither
\* latch nor load.
LEMMA SoftMove ==
    ASSUME Sound, NEW t \in Threads, Gentle(t), th[t].pc # "aLink",
           NEW pc \in PlaceNames \ (Latched \union Loaders), NEW page, NEW f, NEW popped, NEW back, NEW ret,
           Moved(th', t, pc, page, f, popped, back, ret),
           popped = th[t].popped, popped => f = th[t].frame,
           LocalOk(th'[t]),
           \/ back = "idle"
           \/ back = th[t].back /\ page = th[t].page
           \/ back \in {"fix", "orphan"} /\ page \in allocated
           \/ /\ back = "reserve" /\ page \notin allocated
              /\ \A u \in Threads : th[u].page # page
    PROVE  Sound'
<1>1. Types'
  BY Zenon DEF Sound, Types, Gentle, Moved
<1>2. Soft(t)
  BY <1>1, Zenon DEF Gentle, Moved, Soft, Latched
<1> QED
  BY <1>2, SoftKeeps, Zenon

\* The same to any place, with what that place demands.
LEMMA LatchedMove ==
    ASSUME Sound, NEW t \in Threads, Gentle(t), th[t].pc # "aLink",
           NEW pc \in PlaceNames, NEW page, NEW f, NEW back, NEW ret,
           Moved(th', t, pc, page, f, FALSE, back, ret), th[t].popped = FALSE,
           LocalOk(th'[t]),
           pc \in Latched => latch'[f] = t,
           pc \in Loaders => th[t].pc \in Loaders /\ f = th[t].frame,
           pc \in Evictors => frame'[f].state \in {"Resident", "Evicting"},
           back = th[t].back /\ page = th[t].page
    PROVE  Sound'
<1>1. Types'
  BY Zenon DEF Sound, Types, Gentle, Moved
<1>2. Soft(t)
  BY <1>1, Zenon DEF Gentle, Moved, Soft
<1> QED
  BY <1>2, SoftKeeps, Zenon

\* The same for the four ways the actions move a thread.
LEMMA GotoKeeps ==
    ASSUME Sound, NEW t \in Threads, Gentle(t), th[t].pc # "aLink",
           NEW v \in PlaceNames \ (Latched \union Loaders), Goto(t, v),
           v \in Framed => th[t].frame \in Frames,
           th[t].popped => v \in {"latch", "oState", "oLatch"},
           v \notin {"aInstall", "held"},
           v \in Fixing => th[t].back \in {"fix", "orphan"},
           v \in Allocating => th[t].back = "reserve",
           v = "budget" => th[t].back # "idle"
    PROVE  Sound'
<1>1. Moved(th', t, v, th[t].page, th[t].frame, th[t].popped, th[t].back, th[t].ret)
  BY GotoMoves, Zenon DEF Sound, Types
<1>2. LocalOk(th'[t])
  BY <1>1, Zenon DEF Moved, Sound, Locality, LocalOk
<1> QED
  BY <1>1, <1>2, SoftMove, Zenon

\* A fix that returns a frame keeps the invariant.
LEMMA HoldKeeps ==
    ASSUME Sound, NEW t \in Threads, Gentle(t), th[t].pc # "aLink",
           NEW f \in Frames, NEW p \in Pages, Hold(t, f, p), ~th[t].popped
    PROVE  Sound'
<1>1. Moved(th', t, "held", p, f, FALSE, "idle", "idle")
  BY HoldMoves, Zenon DEF Sound, Types
<1>2. LocalOk(th'[t])
  BY <1>1, Zenon DEF Moved, LocalOk, Framed, Fixing, Allocating
<1>3. th[t].popped = FALSE
  BY Zenon DEF Sound, Types, Places
<1>4. "held" \in PlaceNames \ (Latched \union Loaders)
  BY DEF PlaceNames, Framed, Latched, Evictors, Loaders
<1> QED
  BY <1>1, <1>2, <1>3, <1>4, SoftMove, Zenon

\* A call that returns without a frame keeps the invariant.
LEMMA IdleKeeps ==
    ASSUME Sound, NEW t \in Threads, Gentle(t), th[t].pc # "aLink",
           th' = [th EXCEPT ![t] = Idle], ~th[t].popped
    PROVE  Sound'
<1>1. Moved(th', t, "idle", NoPage, NoFrame, FALSE, "idle", "idle")
  BY IdleMoves, Zenon DEF Sound, Types
<1>2. LocalOk(th'[t])
  BY <1>1, Zenon DEF Moved, LocalOk, Framed, Fixing, Allocating
<1>3. th[t].popped = FALSE
  BY Zenon DEF Sound, Types, Places
<1>4. "idle" \in PlaceNames \ (Latched \union Loaders)
  BY DEF PlaceNames, Framed, Latched, Evictors, Loaders
<1> QED
  BY <1>1, <1>2, <1>3, <1>4, SoftMove, Zenon

\* A panic keeps the invariant.
LEMMA UnwoundKeeps ==
    ASSUME Sound, NEW t \in Threads, Gentle(t), th[t].pc # "aLink", Unwound(t), ~th[t].popped
    PROVE  Sound'
<1>1. PICK v \in {"idle", "leaked"} : Moved(th', t, v, NoPage, NoFrame, FALSE, "idle", "idle")
  BY UnwoundMoves, Zenon DEF Sound, Types
<1>2. LocalOk(th'[t])
  BY <1>1, Zenon DEF Moved, LocalOk, Framed, Fixing, Allocating
<1>3. th[t].popped = FALSE
  BY Zenon DEF Sound, Types, Places
<1>4. v \in PlaceNames \ (Latched \union Loaders)
  BY DEF PlaceNames, Framed, Latched, Evictors, Loaders
<1> QED
  BY <1>1, <1>2, <1>3, <1>4, SoftMove, Zenon

\* An eviction or a cleaning that returns to what its thread was doing keeps
\* the invariant.
LEMMA DoneKeeps ==
    ASSUME Sound, NEW t \in Threads, Gentle(t), th[t].pc # "aLink", Done(t), ~th[t].popped
    PROVE  Sound'
<1>0. th[t].popped = FALSE
  BY Zenon DEF Sound, Types, Places
<1>1. Moved(th', t, th[t].ret, th[t].page, NoFrame, FALSE, th[t].back, "idle")
  BY <1>0, DoneMoves, Zenon DEF Sound, Types
<1>2. th[t].ret \in {"idle", "pop", "oPop", "aPop", "budget"}
  BY Zenon DEF Sound, Locality, LocalOk
<1>3. LocalOk(th'[t])
  BY <1>1, <1>2 DEF Moved, Sound, Locality, LocalOk, Framed, Fixing, Allocating
<1>4. th[t].ret \in PlaceNames \ (Latched \union Loaders)
  BY <1>2 DEF PlaceNames, Latched, Evictors, Loaders
<1> QED
  BY <1>0, <1>1, <1>2, <1>3, <1>4, SoftMove, Zenon

\* Entering the fix of a stable edge.
LEMMA FixStableKeeps ==
    ASSUME Sound, NEW t \in Threads, NEW p \in Pages, FixStable(t, p)
    PROVE  Sound'
<1>1. Moved(th', t, "fix", p, NoFrame, FALSE, "fix", "idle")
  BY StartMoves, Zenon DEF Sound, Types, FixStable
<1>2. Gentle(t)
  BY StillIsGentle, Zenon DEF Sound, Types, FixStable, outside
<1>3. ~th[t].popped /\ th[t].popped \in BOOLEAN
  BY Zenon DEF Sound, Types, Places, Locality, LocalOk, FixStable, At
<1>4. LocalOk(th'[t])
  BY <1>1 DEF Moved, LocalOk, Framed, Fixing, Allocating
<1>5. "fix" \in PlaceNames \ (Latched \union Loaders) /\ "fix" # "finalize"
  BY DEF PlaceNames, Framed, Latched, Evictors, Loaders
<1> QED
  BY <1>1, <1>2, <1>3, <1>4, <1>5, SoftMove, Zenon DEF FixStable, At

\* Entering the fix of a page by its id.
LEMMA FixOrphanKeeps ==
    ASSUME Sound, NEW t \in Threads, NEW p \in Pages, FixOrphan(t, p)
    PROVE  Sound'
<1>1. Moved(th', t, "orphan", p, NoFrame, FALSE, "orphan", "idle")
  BY StartMoves, Zenon DEF Sound, Types, FixOrphan
<1>2. Gentle(t)
  BY StillIsGentle, Zenon DEF Sound, Types, FixOrphan, outside
<1>3. ~th[t].popped /\ th[t].popped \in BOOLEAN
  BY Zenon DEF Sound, Types, Places, Locality, LocalOk, FixOrphan, At
<1>4. LocalOk(th'[t])
  BY <1>1 DEF Moved, LocalOk, Framed, Fixing, Allocating
<1>5. "orphan" \in PlaceNames \ (Latched \union Loaders) /\ "orphan" # "finalize"
  BY DEF PlaceNames, Framed, Latched, Evictors, Loaders
<1> QED
  BY <1>1, <1>2, <1>3, <1>4, <1>5, SoftMove, Zenon DEF FixOrphan, At

\* Entering allocate_and_fix.
LEMMA AllocateKeeps ==
    ASSUME Sound, NEW t \in Threads, NEW p \in Pages, Allocate(t, p)
    PROVE  Sound'
<1>1. Moved(th', t, "reserve", p, NoFrame, FALSE, "reserve", "idle")
  BY StartMoves, Zenon DEF Sound, Types, Allocate
<1>2. Gentle(t)
  BY StillIsGentle, Zenon DEF Sound, Types, Allocate, outside
<1>3. ~th[t].popped /\ th[t].popped \in BOOLEAN
  BY Zenon DEF Sound, Types, Places, Locality, LocalOk, Allocate, At
<1>4. LocalOk(th'[t])
  BY <1>1 DEF Moved, LocalOk, Framed, Fixing, Allocating
<1>5. "reserve" \in PlaceNames \ (Latched \union Loaders) /\ "reserve" # "finalize"
  BY DEF PlaceNames, Framed, Latched, Evictors, Loaders
<1> QED
  BY <1>1, <1>2, <1>3, <1>4, <1>5, SoftMove, Zenon DEF Allocate, At

\* Reserving a resident frame for a new page, or waiting for one.
LEMMA ReserveBudgetKeeps ==
    ASSUME Sound, NEW t \in Threads, ReserveBudget(t)
    PROVE  Sound'
<1>1. PICK v \in {"aPop", "budget"} : Goto(t, v)
  BY DEF ReserveBudget
<1>2. Gentle(t)
  BY StillIsGentle, Zenon DEF Sound, Types, ReserveBudget, outside
<1>3. th[t].pc = "reserve" /\ th[t].back = "reserve" /\ ~th[t].popped
  BY Zenon DEF Sound, Locality, LocalOk, Allocating, ReserveBudget, At
<1> QED
  BY <1>1, <1>2, <1>3, GotoKeeps, Zenon
     DEF PlaceNames, Framed, Fixing, Allocating, Latched, Evictors, Loaders

\* Loading the edge and, when it is EVICTED, looking the page up in the page
\* table.
LEMMA LoadSwipKeeps ==
    ASSUME Sound, NEW t \in Threads, LoadSwip(t)
    PROVE  Sound'
<1> DEFINE p == th[t].page
           f == IF edge[p] # NoFrame THEN edge[p] ELSE pageTable[p]
           v == CASE edge[p] # NoFrame -> "hot"
                  [] pageTable[p] # NoFrame -> "latch"
                  [] OTHER -> "pop"
<1>1. p \in Pages /\ ~th[t].popped /\ th[t].popped \in BOOLEAN
  BY Zenon DEF Sound, Types, Places, Locality, LocalOk, Fixing, LoadSwip, At
<1>2. /\ f \in Frames \union {NoFrame} /\ v \in {"hot", "latch", "pop"}
      /\ v # "pop" => f \in Frames
  BY <1>1, Zenon DEF Sound, Types
<1>3. Moved(th', t, v, p, f, FALSE, th[t].back, th[t].ret)
  <2> HIDE DEF f, v
  <2>1. th' = [th EXCEPT ![t].frame = f, ![t].popped = FALSE, ![t].pc = v]
    BY Zenon DEF LoadSwip, f, v
  <2>2. v \in PlaceNames
    BY <1>2 DEF PlaceNames, Framed
  <2> QED
    BY <1>2, <2>1, <2>2, FrameMoves, Zenon DEF Sound, Types
<1>4. Gentle(t)
  BY StillIsGentle, Zenon DEF Sound, Types, LoadSwip, outside
<1> HIDE DEF f, v
<1>5. LocalOk(th'[t])
  BY <1>1, <1>2, <1>3, Zenon DEF Moved, Sound, Locality, LocalOk, Framed, Fixing, Allocating, LoadSwip, At
<1>6. v \in PlaceNames \ (Latched \union Loaders)
  BY <1>2 DEF PlaceNames, Framed, Latched, Evictors, Loaders
<1> QED
  BY <1>1, <1>2, <1>3, <1>4, <1>5, <1>6, SoftMove, Zenon DEF LoadSwip, At

\* Looking at the state of a hot edge's frame, and rescuing one that is being
\* evicted.
LEMMA FixHotKeeps ==
    ASSUME Sound, NEW t \in Threads, FixHot(t)
    PROVE  Sound'
<1> DEFINE f == th[t].frame
<1>1. /\ th[t].pc = "hot" /\ f \in Frames /\ ~th[t].popped
      /\ th[t].back \in {"fix", "orphan"}
  BY Zenon DEF Sound, Locality, LocalOk, Framed, Fixing, FixHot, At
<1>2. PICK v \in {"pin", "fix"} : Goto(t, v)
  BY Zenon DEF FixHot
<1>3. Gentle(t)
  <2>1. CASE UNCHANGED frame
    BY <2>1, StillIsGentle, Zenon DEF Sound, Types, FixHot, outside
  <2>2. CASE frame[f].state = "Evicting" /\ Set(f, [frame[f] EXCEPT !.state = "Resident"])
    <3>1. Headed(f, "Resident", frame[f].pid)
      BY <1>1, <2>2, StateHeads, Zenon DEF Sound, Types, States
    <3> QED
      BY <1>1, <2>2, <3>1, HeadedIsGentle, Zenon DEF Sound, Types, FixHot, outside
  <2> QED
    BY <2>1, <2>2, Zenon DEF FixHot, CanRescue
<1> QED
  BY <1>1, <1>2, <1>3, GotoKeeps, Zenon
     DEF PlaceNames, Framed, Fixing, Allocating, Latched, Evictors, Loaders

\* Pinning the frame of a hot edge.
LEMMA PinHotKeeps ==
    ASSUME Sound, NEW t \in Threads, PinHot(t)
    PROVE  Sound'
<1>1. /\ th[t].pc = "pin" /\ th[t].frame \in Frames /\ ~th[t].popped
      /\ th[t].back \in {"fix", "orphan"}
  BY Zenon DEF Sound, Locality, LocalOk, Framed, Fixing, PinHot, At
<1>2. Headed(th[t].frame, frame[th[t].frame].state, frame[th[t].frame].pid)
  BY <1>1, AddPinsHeads DEF Sound, Types, PinHot
<1>3. Gentle(t)
  BY <1>1, <1>2, HeadedIsGentle, Zenon DEF Sound, Types, PinHot, outside
<1> QED
  BY <1>1, <1>3, GotoKeeps, Zenon
     DEF PinHot, PlaceNames, Framed, Fixing, Allocating, Latched, Evictors, Loaders

\* Validating the snapshot and the frame after the pin.
LEMMA ConfirmHotKeeps ==
    ASSUME Sound, NEW t \in Threads, ConfirmHot(t)
    PROVE  Sound'
<1> DEFINE f == th[t].frame
           h == frame[f]
           rescue == h.pins = 1 /\ h.state = "Evicting" /\ Latchable(f)
           s == IF rescue THEN "Resident" ELSE h.state
<1>1. /\ th[t].pc = "pinned" /\ f \in Frames /\ ~th[t].popped
      /\ th[t].back \in {"fix", "orphan"} /\ th[t].page \in Pages
  BY Zenon DEF Sound, Locality, LocalOk, Framed, Fixing, ConfirmHot, At
<1>2. CASE Hold(t, f, th[t].page) /\ UNCHANGED frame
  <2>1. Gentle(t)
    BY <1>2, StillIsGentle, Zenon DEF Sound, Types, ConfirmHot, outside
  <2> QED
    BY <1>1, <1>2, <2>1, HoldKeeps
<1>3. CASE Goto(t, "fix") /\ Set(f, [h EXCEPT !.pins = @ - 1, !.state = s])
  <2>1. h \in Headers /\ h.pins - 1 \in Int /\ s \in States
    BY <1>1 DEF Sound, Types, Headers, States
  <2> HIDE DEF s
  <2>2. Shows([h EXCEPT !.pins = h.pins - 1, !.state = s], s, h.pid)
    BY <2>1, PinsAndState, Zenon
  <2>3. frame' = [frame EXCEPT ![f] = [h EXCEPT !.pins = h.pins - 1, !.state = s]]
    BY <1>3 DEF Set
  <2>4. Headed(f, s, h.pid)
    BY <1>1, <2>2, <2>3, SetHeader, Zenon DEF Sound, Types
  <2>5. s = h.state \/ (h.state = "Evicting" /\ s = "Resident")
    BY Zenon DEF s
  <2>6. Gentle(t)
    BY <1>1, <2>4, <2>5, HeadedIsGentle, Zenon DEF Sound, Types, ConfirmHot, outside
  <2> QED
    BY <1>1, <1>3, <2>6, GotoKeeps, Zenon
       DEF PlaceNames, Framed, Fixing, Allocating, Latched, Evictors, Loaders
<1> QED
  BY <1>2, <1>3, Zenon DEF ConfirmHot

\* Trying again once a page may become resident.
LEMMA BudgetReturnedKeeps ==
    ASSUME Sound, NEW t \in Threads, BudgetReturned(t)
    PROVE  Sound'
<1>1. /\ th[t].pc = "budget" /\ ~th[t].popped
      /\ th[t].back \in {"fix", "orphan", "reserve"}
  BY Zenon DEF Sound, Types, Places, Backs, Locality, LocalOk, BudgetReturned, At
<1>2. Gentle(t)
  BY StillIsGentle, Zenon DEF Sound, Types, BudgetReturned, outside
<1> QED
  BY <1>1, <1>2, GotoKeeps, Zenon
     DEF BudgetReturned, PlaceNames, Framed, Fixing, Allocating, Latched, Evictors, Loaders

\* Dropping a pin.
LEMMA UnfixKeeps ==
    ASSUME Sound, NEW t \in Threads, Unfix(t)
    PROVE  Sound'
<1>1. th[t].pc = "held" /\ th[t].frame \in Frames /\ ~th[t].popped
  BY Zenon DEF Sound, Locality, LocalOk, Framed, Unfix, At
<1>2. Headed(th[t].frame, frame[th[t].frame].state, frame[th[t].frame].pid)
  BY <1>1, AddPinsHeads DEF Sound, Types, Unfix
<1>3. Gentle(t)
  BY <1>1, <1>2, HeadedIsGentle, Zenon DEF Sound, Types, Unfix, outside
<1> QED
  BY <1>1, <1>3, IdleKeeps, Zenon DEF Unfix

\* Looking a page up in the page table for a fix by id.
LEMMA OrphanLookupKeeps ==
    ASSUME Sound, NEW t \in Threads, OrphanLookup(t)
    PROVE  Sound'
<1> DEFINE f == pageTable[th[t].page]
           v == IF f = NoFrame THEN "oPop" ELSE "oState"
<1>1. /\ th[t].pc = "orphan" /\ th[t].page \in Pages /\ th[t].popped = FALSE
      /\ th[t].back \in {"fix", "orphan"}
  BY Zenon DEF Sound, Types, Places, Locality, LocalOk, Fixing, OrphanLookup, At
<1>2. f \in Frames \union {NoFrame} /\ v \in {"oPop", "oState"} /\ (v = "oState" => f \in Frames)
  BY <1>1, Zenon DEF Sound, Types
<1>3. th' = [th EXCEPT ![t].frame = f, ![t].popped = FALSE, ![t].pc = v]
  BY Zenon DEF OrphanLookup
<1> HIDE DEF f, v
<1>4. v \in PlaceNames \ (Latched \union Loaders)
  BY <1>2 DEF PlaceNames, Framed, Latched, Evictors, Loaders
<1>5. Moved(th', t, v, th[t].page, f, FALSE, th[t].back, th[t].ret)
  BY <1>2, <1>3, <1>4, FrameMoves, Zenon DEF Sound, Types
<1>6. Gentle(t)
  BY StillIsGentle, Zenon DEF Sound, Types, OrphanLookup, outside
<1>7. LocalOk(th'[t])
  BY <1>1, <1>2, <1>5, Zenon DEF Moved, Sound, Locality, LocalOk, Framed, Fixing, Allocating
<1> QED
  BY <1>1, <1>2, <1>4, <1>5, <1>6, <1>7, SoftMove, Zenon

\* A fix by id starts again without a frame in its hand.
LEMMA RetryKeeps ==
    ASSUME Sound, NEW t \in Threads, Gentle(t), Retry(t), ~th[t].popped,
           th[t].pc \in {"oState", "oLatch"}
    PROVE  Sound'
<1>1. th[t].popped = FALSE /\ th[t].back \in {"fix", "orphan"}
  BY Zenon DEF Sound, Types, Places, Locality, LocalOk, Fixing
<1>2. "orphan" \in PlaceNames \ (Latched \union Loaders)
  BY DEF PlaceNames, Latched, Evictors, Loaders
<1>3. Moved(th', t, "orphan", th[t].page, NoFrame, FALSE, th[t].back, th[t].ret)
  BY <1>2, FrameMoves, Zenon DEF Sound, Types, Retry
<1>4. LocalOk(th'[t])
  BY <1>1, <1>3, Zenon DEF Moved, Sound, Locality, LocalOk, Framed, Fixing, Allocating
<1> QED
  BY <1>1, <1>2, <1>3, <1>4, SoftMove, Zenon

\* Looking at the state of the frame the page table names.
LEMMA OrphanStateKeeps ==
    ASSUME Sound, NEW t \in Threads, OrphanState(t)
    PROVE  Sound'
<1> DEFINE f == th[t].frame
<1>1. /\ th[t].pc = "oState" /\ f \in Frames /\ th[t].back \in {"fix", "orphan"}
      /\ th[t].popped => frame[f].state = "Free"
  BY Zenon DEF Sound, Locality, LocalOk, Framed, Fixing, Popping, OrphanState, At
<1>2. CASE frame[f].state \in {"Free", "Resident"}
  <2>1. PICK v \in {"oPin", "oOpen", "oLatch"} :
          Goto(t, v) /\ (v # "oLatch" => frame[f].state = "Resident")
    BY <1>2, Zenon DEF OrphanState
  <2>2. Gentle(t)
    BY <1>2, StillIsGentle, Zenon DEF Sound, Types, OrphanState, outside
  <2> QED
    BY <1>1, <2>1, <2>2, GotoKeeps, Zenon
       DEF PlaceNames, Framed, Fixing, Allocating, Latched, Evictors, Loaders
<1>3. CASE frame[f].state \in {"Loading", "Evicting"}
  <2>1. ~th[t].popped /\ Retry(t) /\ freeList' = freeList
    BY <1>1, <1>3, Zenon DEF OrphanState, PushBack
  <2>2. CASE UNCHANGED frame
    <3>1. Gentle(t)
      BY <2>1, <2>2, StillIsGentle, Zenon DEF Sound, Types, OrphanState, outside
    <3> QED
      BY <1>1, <2>1, <3>1, RetryKeeps, Zenon
  <2>3. CASE frame[f].state = "Evicting" /\ Set(f, [frame[f] EXCEPT !.state = "Resident"])
    <3>1. Headed(f, "Resident", frame[f].pid)
      BY <1>1, <2>3, StateHeads, Zenon DEF Sound, Types, States
    <3>2. Gentle(t)
      BY <1>1, <2>1, <2>3, <3>1, HeadedIsGentle, Zenon DEF Sound, Types, OrphanState, outside
    <3> QED
      BY <1>1, <2>1, <3>2, RetryKeeps, Zenon
  <2> QED
    BY <1>3, <2>2, <2>3, Zenon DEF OrphanState, CanRescue
<1> QED
  BY <1>2, <1>3, Zenon DEF OrphanState

\* Pinning the frame the page table names.
LEMMA OrphanPinKeeps ==
    ASSUME Sound, NEW t \in Threads, OrphanPin(t)
    PROVE  Sound'
<1> DEFINE f == th[t].frame
<1>1. /\ th[t].pc \in {"oPin", "oOpen"} /\ f \in Frames /\ ~th[t].popped
      /\ th[t].back \in {"fix", "orphan"}
  BY Zenon DEF Sound, Locality, LocalOk, Framed, Fixing, OrphanPin, At
<1>2. Gentle(t)
  <2>1. CASE UNCHANGED frame
    BY <2>1, StillIsGentle, Zenon DEF Sound, Types, OrphanPin, outside
  <2>2. CASE AddPins(f, 1)
    <3>1. Headed(f, frame[f].state, frame[f].pid)
      BY <1>1, <2>2, AddPinsHeads DEF Sound, Types
    <3> QED
      BY <1>1, <3>1, HeadedIsGentle, Zenon DEF Sound, Types, OrphanPin, outside
  <2> QED
    BY <2>1, <2>2 DEF OrphanPin
<1>3. PICK v \in {"oPinned", "oBare", "oLatch"} : Goto(t, v)
  BY DEF OrphanPin
<1> QED
  BY <1>1, <1>2, <1>3, GotoKeeps, Zenon
     DEF PlaceNames, Framed, Fixing, Allocating, Latched, Evictors, Loaders

\* Confirming the frame after that pin.
LEMMA OrphanConfirmKeeps ==
    ASSUME Sound, NEW t \in Threads, OrphanConfirm(t)
    PROVE  Sound'
<1> DEFINE f == th[t].frame
<1>1. /\ th[t].pc \in {"oPinned", "oBare"} /\ f \in Frames /\ ~th[t].popped
      /\ th[t].back \in {"fix", "orphan"} /\ th[t].page \in Pages
  BY Zenon DEF Sound, Locality, LocalOk, Framed, Fixing, OrphanConfirm, At
<1>2. CASE PushBack(t, f) /\ Hold(t, f, th[t].page) /\ UNCHANGED frame
  <2>1. Gentle(t)
    BY <1>1, <1>2, StillIsGentle, Zenon DEF Sound, Types, OrphanConfirm, PushBack, outside
  <2> QED
    BY <1>1, <1>2, <2>1, HoldKeeps, Zenon
<1>3. CASE AddPins(f, -1) /\ Goto(t, "oLatch") /\ UNCHANGED freeList
  <2>1. Headed(f, frame[f].state, frame[f].pid)
    BY <1>1, <1>3, AddPinsHeads DEF Sound, Types
  <2>2. Gentle(t)
    BY <1>1, <1>3, <2>1, HeadedIsGentle, Zenon DEF Sound, Types, OrphanConfirm, outside
  <2> QED
    BY <1>1, <1>3, <2>2, GotoKeeps, Zenon
       DEF PlaceNames, Framed, Fixing, Allocating, Latched, Evictors, Loaders
<1> QED
  BY <1>2, <1>3, Zenon DEF OrphanConfirm

\* Writing a held page and marking it dirty.
LEMMA WritePageKeeps ==
    ASSUME Sound, NEW t \in Threads, WritePage(t)
    PROVE  Sound'
<1> DEFINE f == th[t].frame
           h == frame[f]
           p == th[t].page
           n == latest[p] + 1
<1>1. th[t].pc = "held" /\ f \in Frames /\ p \in Pages /\ th[t].popped = FALSE
  BY Zenon DEF Sound, Types, Places, Locality, LocalOk, Framed, WritePage, At
<1>2. h \in Headers /\ h.gen + 1 \in Int /\ n \in Int /\ TRUE \in BOOLEAN
  BY <1>1 DEF Sound, Types, Headers
<1>3. latest' = [latest EXCEPT ![p] = n] /\ latest'[p] = n
  BY <1>1, Zenon DEF Sound, Types, WritePage
<1> HIDE DEF n
<1>4. Shows([h EXCEPT !.val = n, !.dirty = TRUE, !.gen = h.gen + 1], h.state, h.pid)
  BY <1>2, Contents, Zenon
<1>5. frame' = [frame EXCEPT ![f] = [h EXCEPT !.val = n, !.dirty = TRUE, !.gen = h.gen + 1]]
  BY <1>3, Zenon DEF WritePage, Set
<1>6. Headed(f, h.state, h.pid)
  BY <1>1, <1>4, <1>5, SetHeader, Zenon DEF Sound, Types
<1>7. latest' \in [Pages -> Int]
  BY <1>1, <1>2, <1>3, Zenon DEF Sound, Types
<1>8. Gentle(t)
  BY <1>1, <1>6, <1>7, HeadedIsGentle, Zenon DEF Sound, Types, WritePage
<1>9. /\ Moved(th', t, "held", p, f, FALSE, th[t].back, th[t].ret)
      /\ LocalOk(th'[t])
  BY <1>1, Standing, Zenon DEF Sound, Types, Locality, WritePage
<1> QED
  BY <1>1, <1>8, <1>9, SoftMove, Zenon DEF PlaceNames, Framed, Latched, Evictors, Loaders

\* What a thread that makes room was doing.
LEMMA RoomPlaces ==
    ASSUME Sound, NEW t \in Threads, MakesRoom(t)
    PROVE  th[t].pc \in {"idle", "pop", "oPop", "aPop", "budget"} /\ th[t].popped = FALSE
BY Zenon DEF Sound, Types, Places, Locality, LocalOk, MakesRoom, At

\* Copying a dirty page under the frame's latch.
LEMMA CopyDirtyPageKeeps ==
    ASSUME Sound, NEW t \in Threads, NEW f \in Frames, CopyDirtyPage(t, f)
    PROVE  Sound'
<1>1. th[t].pc \in {"idle", "pop", "oPop", "aPop", "budget"} /\ th[t].popped = FALSE
  BY RoomPlaces, Zenon DEF CopyDirtyPage
<1>2. Headed(f, frame[f].state, frame[f].pid)
  BY AddPinsHeads DEF Sound, Types, CopyDirtyPage
<1>3. Gentle(t)
  BY <1>2, HeadedIsGentle, Zenon DEF Sound, Types, CopyDirtyPage, outside
<1>4. "write" \in PlaceNames \ (Latched \union Loaders)
  BY DEF PlaceNames, Framed, Latched, Evictors, Loaders
<1>5. Moved(th', t, "write", th[t].page, f, FALSE, th[t].back, th[t].pc)
  <2>1. /\ frame[f].pid \in Pages \union {NoPage}
        /\ frame[f].val \in Int /\ frame[f].gen \in Int
    BY DEF Sound, Types, Headers
  <2>2. Moved(th', t, "write", th[t].page, f, th[t].popped, th[t].back, th[t].pc)
    BY <1>4, <2>1, RoomMoves, Zenon DEF Sound, Types, CopyDirtyPage
  <2> QED
    BY <1>1, <2>2, Zenon
<1>6. LocalOk(th'[t])
  BY <1>1, <1>5, Zenon DEF Moved, Sound, Locality, LocalOk, Framed, Fixing, Allocating
<1> QED
  BY <1>1, <1>3, <1>4, <1>5, <1>6, SoftMove, Zenon

\* Writing the copy to the store.
LEMMA WriteBackKeeps ==
    ASSUME Sound, NEW t \in Threads, WriteBack(t)
    PROVE  Sound'
<1>1. th[t].pc = "write" /\ th[t].frame \in Frames /\ ~th[t].popped /\ th[t].copy \in Int
  BY Zenon DEF Sound, Types, Places, Locality, LocalOk, Framed, WriteBack, At
<1>2. Gentle(t)
  BY <1>1, StillIsGentle, Zenon DEF Sound, Types, WriteBack
<1> QED
  BY <1>1, <1>2, GotoKeeps, Zenon
     DEF WriteBack, PlaceNames, Framed, Fixing, Allocating, Latched, Evictors, Loaders

\* A write of the copy that fails.
LEMMA FlushFailedKeeps ==
    ASSUME Sound, NEW t \in Threads, FlushFailed(t)
    PROVE  Sound'
<1> DEFINE f == th[t].frame
<1>1. th[t].pc = "write" /\ f \in Frames /\ ~th[t].popped /\ th[t].copy \in Int
  BY Zenon DEF Sound, Types, Places, Locality, LocalOk, Framed, FlushFailed, At
<1>2. Headed(f, frame[f].state, frame[f].pid)
  BY <1>1, AddPinsHeads DEF Sound, Types, FlushFailed
<1>3. store' \in [Pages -> Int]
  BY <1>1, Zenon DEF Sound, Types, FlushFailed
<1>4. Gentle(t)
  BY <1>1, <1>2, <1>3, HeadedIsGentle, Zenon DEF Sound, Types, FlushFailed
<1> QED
  BY <1>1, <1>4, UnwoundKeeps, Zenon DEF FlushFailed

\* A wait for a frame or for budget that panics.
LEMMA PoolExhaustedKeeps ==
    ASSUME Sound, NEW t \in Threads, PoolExhausted(t)
    PROVE  Sound'
<1>1. th[t].pc \in {"idle", "pop", "oPop", "aPop", "budget"} /\ th[t].popped = FALSE
  BY RoomPlaces, Zenon DEF PoolExhausted
<1>2. Gentle(t)
  BY StillIsGentle, Zenon DEF Sound, Types, PoolExhausted, outside
<1> QED
  BY <1>1, <1>2, UnwoundKeeps, Zenon DEF PoolExhausted

\* Clearing the dirty flag of a frame that has not changed since the copy.
LEMMA MarkCleanKeeps ==
    ASSUME Sound, NEW t \in Threads, MarkClean(t)
    PROVE  Sound'
<1> DEFINE f == th[t].frame
           h == frame[f]
           b == IF h.state = "Resident" /\ h.pid = th[t].claim /\ h.dirty /\ h.gen = th[t].gen
                THEN FALSE ELSE h.dirty
<1>1. th[t].pc = "clean" /\ f \in Frames /\ ~th[t].popped
  BY Zenon DEF Sound, Locality, LocalOk, Framed, MarkClean, At
<1>2. h \in Headers /\ h.pins - 1 \in Int /\ b \in BOOLEAN
  <2>1. h \in Headers /\ h.pins - 1 \in Int
    BY <1>1 DEF Sound, Types, Headers
  <2>2. h.dirty \in BOOLEAN
    BY <2>1, Zenon DEF Headers
  <2>3. b = FALSE \/ b = h.dirty
    BY Zenon
  <2> HIDE DEF b
  <2> QED
    BY <2>1, <2>2, <2>3, Zenon
<1>3. frame' = [frame EXCEPT ![f] = [h EXCEPT !.dirty = b, !.pins = h.pins - 1]]
  BY Zenon DEF MarkClean, Set
<1> HIDE DEF b
<1>4. Shows([h EXCEPT !.dirty = b, !.pins = h.pins - 1], h.state, h.pid)
  BY <1>2, DirtyAndPins, Zenon
<1>5. Headed(f, h.state, h.pid)
  BY <1>1, <1>3, <1>4, SetHeader, Zenon DEF Sound, Types
<1>6. Gentle(t)
  BY <1>1, <1>5, HeadedIsGentle, Zenon DEF Sound, Types, MarkClean, outside
<1> QED
  BY <1>1, <1>6, DoneKeeps, Zenon DEF MarkClean

\* Reading a page of the store into a Loading frame.
LEMMA ReadPageKeeps ==
    ASSUME Sound, NEW t \in Threads, ReadPage(t)
    PROVE  Sound'
<1> DEFINE f == th[t].frame
           h == frame[f]
           v == IF At(t, "load") THEN "install" ELSE "oInstall"
<1>1. /\ th[t].pc \in {"load", "oLoad"} /\ f \in Frames /\ th[t].page \in Pages
      /\ th[t].back \in {"fix", "orphan"} /\ th[t].popped = FALSE
  BY Zenon DEF Sound, Types, Places, Locality, LocalOk, Framed, Fixing, ReadPage
<1>2. /\ v \in PlaceNames /\ v \in {"install", "oInstall"}
      /\ v = "install" => th[t].pc = "load"
  BY <1>1 DEF PlaceNames, Framed, At
<1>3. Goto(t, v) /\ latch' = latch
  BY Zenon DEF ReadPage
<1> HIDE DEF v
<1>4. Headed(f, h.state, h.pid)
  <2>1. h \in Headers /\ store[th[t].page] \in Int
    BY <1>1, Zenon DEF Sound, Types
  <2>2. Shows([h EXCEPT !.val = store[th[t].page]], h.state, h.pid)
    BY <2>1, HeaderField, Zenon
  <2> QED
    BY <1>1, <2>2, SetHeader, Zenon DEF Sound, Types, ReadPage, Set
<1>5. Gentle(t)
  BY <1>1, <1>4, HeadedIsGentle, Zenon DEF Sound, Types, ReadPage, outside
<1>6. Moved(th', t, v, th[t].page, f, FALSE, th[t].back, th[t].ret)
  BY <1>1, <1>2, <1>3, GotoMoves, Zenon DEF Sound, Types
<1>7. LocalOk(th'[t])
  BY <1>1, <1>2, <1>6, Zenon DEF Moved, Sound, Locality, LocalOk, Framed, Fixing, Allocating
<1>8. v \in Latched => latch'[f] = t
  BY <1>1, <1>2, <1>3, Zenon DEF Sound, Latching, Latched, Evictors
<1>9. v \notin Evictors /\ th[t].pc \in Loaders /\ th[t].pc # "aLink"
  BY <1>1, <1>2 DEF Evictors, Loaders
<1> QED
  BY <1>1, <1>2, <1>5, <1>6, <1>7, <1>8, <1>9, LatchedMove, Zenon

\* Latching a clean unpinned frame and marking it Evicting.
LEMMA EvictOneKeeps ==
    ASSUME Sound, NEW t \in Threads, NEW f \in Frames, EvictOne(t, f)
    PROVE  Sound'
<1>1. th[t].pc \in {"idle", "pop", "oPop", "aPop", "budget"} /\ th[t].popped = FALSE
  BY RoomPlaces, Zenon DEF EvictOne
<1>2. Headed(f, "Evicting", frame[f].pid)
  BY StateHeads, Zenon DEF Sound, Types, States, EvictOne
<1>3. /\ latch[f] = NoThread /\ latch' = [latch EXCEPT ![f] = t]
      /\ frame[f].state = "Resident"
  BY Zenon DEF EvictOne, Evictable, Latchable, Take
<1>4. Gentle(t)
  BY <1>2, <1>3, HeadedIsGentle, Zenon DEF Sound, Types, EvictOne, outside
<1>5. "recheck" \in PlaceNames /\ "recheck" \notin Loaders
  BY DEF PlaceNames, Framed, Loaders
<1>6. Moved(th', t, "recheck", th[t].page, f, FALSE, th[t].back, th[t].pc)
  <2>1. NoPage \in Pages \union {NoPage} /\ 0 \in Int
    OBVIOUS
  <2>2. Moved(th', t, "recheck", th[t].page, f, th[t].popped, th[t].back, th[t].pc)
    BY <1>5, <2>1, RoomMoves, Zenon DEF Sound, Types, EvictOne
  <2> QED
    BY <1>1, <2>2, Zenon
<1>7. LocalOk(th'[t])
  BY <1>1, <1>6 DEF Moved, Sound, Locality, LocalOk, Framed, Fixing, Allocating
<1>8. latch'[f] = t /\ frame'[f].state = "Evicting"
  BY <1>2, <1>3 DEF Headed, Sound, Types
<1> QED
  BY <1>1, <1>4, <1>5, <1>6, <1>7, <1>8, LatchedMove, Zenon

\* An eviction that gives up leaves the frame Resident.
LEMMA RevertKeeps ==
    ASSUME Sound, NEW t \in Threads, th[t].pc \in {"recheck", "final"}, Revert(t, th[t].frame),
           UNCHANGED <<edge, pageTable, freeList, outside>>
    PROVE  Sound'
<1> DEFINE f == th[t].frame
<1>1. /\ f \in Frames /\ ~th[t].popped /\ latch[f] = t
      /\ frame[f].state \in {"Resident", "Evicting"}
  BY Zenon DEF Sound, Locality, LocalOk, Framed, Latching, Latched, Evicting, Evictors
<1>2. Headed(f, "Resident", frame[f].pid)
  BY <1>1, StateHeads, Zenon DEF Sound, Types, States, Revert
<1>3. Gentle(t)
  BY <1>1, <1>2, HeadedIsGentle, Zenon DEF Sound, Types, Revert, Release, outside
<1> QED
  BY <1>1, <1>3, DoneKeeps, Zenon DEF Revert

\* Looking at the pins again before an eviction goes on.
LEMMA RecheckPinsKeeps ==
    ASSUME Sound, NEW t \in Threads, RecheckPins(t)
    PROVE  Sound'
<1> DEFINE f == th[t].frame
<1>1. CASE Revert(t, f)
  BY <1>1, RevertKeeps, Zenon DEF RecheckPins, At
<1>2. CASE Goto(t, "unswizzle") /\ UNCHANGED <<frame, latch, permits>>
  <2>1. /\ th[t].pc = "recheck" /\ f \in Frames /\ th[t].popped = FALSE /\ latch[f] = t
        /\ frame[f].state \in {"Resident", "Evicting"}
    BY Zenon DEF Sound, Types, Places, Locality, LocalOk, Framed, Latching, Latched, Evicting, Evictors,
           RecheckPins, At
  <2>2. Gentle(t)
    BY <1>2, StillIsGentle, Zenon DEF Sound, Types, RecheckPins, outside
  <2>3. "unswizzle" \in PlaceNames /\ "unswizzle" \notin Loaders
    BY DEF PlaceNames, Framed, Loaders
  <2>4. Moved(th', t, "unswizzle", th[t].page, f, FALSE, th[t].back, th[t].ret)
    BY <1>2, <2>1, <2>3, GotoMoves, ZenonT(30) DEF Sound, Types
  <2>5. LocalOk(th'[t])
    BY <2>1, <2>4 DEF Moved, Sound, Locality, LocalOk, Framed, Fixing, Allocating
  <2> QED
    BY <1>2, <2>1, <2>2, <2>3, <2>4, <2>5, LatchedMove, Zenon
<1> QED
  BY <1>1, <1>2, Zenon DEF RecheckPins

\* Marking a frame Evicting for a batch, without its latch.
LEMMA SelectForBatchKeeps ==
    ASSUME Sound, NEW t \in Threads, NEW f \in Frames, SelectForBatch(t, f)
    PROVE  Sound'
<1>1. th[t].pc \in {"idle", "pop", "oPop", "aPop", "budget"} /\ th[t].popped = FALSE
  BY RoomPlaces, Zenon DEF SelectForBatch
<1>2. Headed(f, "Evicting", frame[f].pid)
  BY StateHeads, Zenon DEF Sound, Types, States, SelectForBatch
<1>3. Gentle(t)
  BY <1>2, HeadedIsGentle, Zenon DEF Sound, Types, SelectForBatch, Evictable
<1>4. "finalize" \in PlaceNames \ (Latched \union Loaders)
  BY DEF PlaceNames, Framed, Latched, Evictors, Loaders
<1>5. Moved(th', t, "finalize", th[t].page, f, FALSE, th[t].back, th[t].pc)
  <2>1. NoPage \in Pages \union {NoPage} /\ 0 \in Int
    OBVIOUS
  <2>2. Moved(th', t, "finalize", th[t].page, f, th[t].popped, th[t].back, th[t].pc)
    BY <1>4, <2>1, RoomMoves, Zenon DEF Sound, Types, SelectForBatch
  <2> QED
    BY <1>1, <2>2, Zenon
<1>6. LocalOk(th'[t])
  BY <1>1, <1>5, Zenon DEF Moved, Sound, Locality, LocalOk, Framed, Fixing, Allocating
<1> QED
  BY <1>1, <1>3, <1>4, <1>5, <1>6, SoftMove, Zenon

\* A batch that still has its frame Evicting; a blind revert is what the
\* invariant excludes.
LEMMA FinalizeBatchKeeps ==
    ASSUME Sound, NEW t \in Threads, FinalizeBatch(t), ~blind'
    PROVE  Sound'
<1> DEFINE f == th[t].frame
<1>1. th[t].pc = "finalize" /\ f \in Frames /\ th[t].popped = FALSE
  BY Zenon DEF Sound, Types, Places, Locality, LocalOk, Framed, FinalizeBatch, At
<1>2. CASE /\ frame[f].state = "Evicting" /\ Set(f, [frame[f] EXCEPT !.state = "Resident"])
           /\ Done(t) /\ UNCHANGED latch
  <2>1. Headed(f, "Resident", frame[f].pid)
    BY <1>1, <1>2, StateHeads, Zenon DEF Sound, Types, States
  <2>2. Gentle(t)
    BY <1>1, <1>2, <2>1, HeadedIsGentle, Zenon DEF Sound, Types, FinalizeBatch
  <2> QED
    BY <1>1, <1>2, <2>2, DoneKeeps, Zenon
<1>3. CASE Done(t) /\ UNCHANGED <<frame, latch>>
  <2>1. Gentle(t)
    BY <1>3, StillIsGentle, Zenon DEF Sound, Types, FinalizeBatch
  <2> QED
    BY <1>1, <1>3, <2>1, DoneKeeps
<1>4. CASE /\ frame[f].state = "Evicting" /\ Take(t, f) /\ Goto(t, "unswizzle")
           /\ UNCHANGED frame
  <2>1. latch[f] = NoThread /\ latch' = [latch EXCEPT ![f] = t]
    BY <1>4, Zenon DEF Take, Latchable
  <2>2. Headed(f, frame[f].state, frame[f].pid)
    BY <1>1, <1>4, Zenon DEF Headed, Sound, Types
  <2>3. Gentle(t)
    BY <1>1, <2>1, <2>2, HeadedIsGentle, Zenon DEF Sound, Types, FinalizeBatch
  <2>4. "unswizzle" \in PlaceNames /\ "unswizzle" \notin Loaders
    BY DEF PlaceNames, Framed, Loaders
  <2>5. Moved(th', t, "unswizzle", th[t].page, f, FALSE, th[t].back, th[t].ret)
    BY <1>1, <1>4, <2>4, GotoMoves, Zenon DEF Sound, Types
  <2>6. LocalOk(th'[t])
    BY <1>1, <2>5 DEF Moved, Sound, Locality, LocalOk, Framed, Fixing, Allocating
  <2>7. latch'[f] = t /\ frame'[f].state = "Evicting"
    BY <1>1, <1>4, <2>1, Zenon DEF Sound, Types
  <2> QED
    BY <1>1, <2>3, <2>4, <2>5, <2>6, <2>7, LatchedMove, Zenon
<1> QED
  BY <1>2, <1>3, <1>4, Zenon DEF FinalizeBatch

\* Making the stable edge to an evicted page EVICTED.
LEMMA UnswizzleParentKeeps ==
    ASSUME Sound, NEW t \in Threads, UnswizzleParent(t)
    PROVE  Sound'
<1> DEFINE f == th[t].frame
<1>1. /\ th[t].pc = "unswizzle" /\ f \in Frames /\ th[t].popped = FALSE /\ latch[f] = t
      /\ frame[f].state \in {"Resident", "Evicting"}
  BY Zenon DEF Sound, Types, Places, Locality, LocalOk, Framed, Latching, Latched, Evicting, Evictors,
         UnswizzleParent, At
<1>2. edge' \in [Pages -> Frames \union {NoFrame}]
  BY Zenon DEF Sound, Types, UnswizzleParent
<1>3. Gentle(t)
  BY <1>2, StillIsGentle, Zenon DEF Sound, Types, UnswizzleParent, outside
<1>4. "final" \in PlaceNames /\ "final" \notin Loaders
  BY DEF PlaceNames, Framed, Loaders
<1>5. Moved(th', t, "final", th[t].page, f, FALSE, th[t].back, th[t].ret)
  BY <1>1, <1>4, GotoMoves, ZenonT(30) DEF Sound, Types, UnswizzleParent
<1>6. LocalOk(th'[t])
  BY <1>1, <1>5 DEF Moved, Sound, Locality, LocalOk, Framed, Fixing, Allocating
<1>7. latch'[f] = t /\ frame' = frame
  BY <1>1, Zenon DEF UnswizzleParent
<1> QED
  BY <1>1, <1>3, <1>4, <1>5, <1>6, <1>7, LatchedMove, Zenon

\* Dropping the latch and the permit of a frame that is already on the free
\* list.
LEMMA ReleaseEvictedKeeps ==
    ASSUME Sound, NEW t \in Threads, ReleaseEvicted(t)
    PROVE  Sound'
<1> DEFINE f == th[t].frame
<1>1. th[t].pc = "release" /\ f \in Frames /\ ~th[t].popped /\ latch[f] = t
  BY Zenon DEF Sound, Locality, LocalOk, Framed, Latching, Latched, ReleaseEvicted, At
<1>2. Headed(f, frame[f].state, frame[f].pid)
  BY <1>1, Zenon DEF Headed, Sound, Types, ReleaseEvicted
<1>3. Gentle(t)
  BY <1>1, <1>2, HeadedIsGentle, Zenon DEF Sound, Types, ReleaseEvicted, Release, outside
<1> QED
  BY <1>1, <1>3, DoneKeeps, Zenon DEF ReleaseEvicted
================================================================================
