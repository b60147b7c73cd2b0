-------------------------------- MODULE KvStore --------------------------------
(***************************************************************************)
(* The durable key-value store (crates/kvstore/src/lib.rs) composed with   *)
(* what makes it durable: the page store and its header (page_store.rs),   *)
(* the redo log and recovery (wal_impl.rs), and the write-back and logging *)
(* of the buffer pool (buffer_pool.rs).                                    *)
(*                                                                         *)
(* Files.  `os' is what a read of the data file returns, `maybe' what a    *)
(* power loss may leave of it: for each page, any version written since    *)
(* the last fsync, or the one that fsync made safe.  Page 0 is the header. *)
(* The log file is a sequence of records, `log' as it reads and `logs' the *)
(* contents it may have after a power loss.  A torn batch is dropped whole *)
(* when the log is opened, so the active buffer `buf' reaches the file as  *)
(* a whole or not at all; how a buffer is filled, sealed, written and      *)
(* synced is the subject of WalShard.                                      *)
(*                                                                         *)
(* Data.  A page holds the keys PageOf maps to it; where a key lives and   *)
(* how pages split is the subject of BTree.  Every mutation, a put or a    *)
(* delete, writes a value of its own: a number that is never used again.   *)
(***************************************************************************)
EXTENDS Integers, Sequences, FiniteSets, TLC

CONSTANTS
    Threads,        \* callers of the store
    Keys,
    Pages,          \* page ids of the data file, from 1
    PageOf,         \* the page a key lives on
    Root,           \* the page BTree::new allocates
    Modes           \* the settings Init chooses from, with bounds on the
                    \* mutations, other calls and crashes of a behaviour

ASSUME PagesAssumption == /\ Pages \subseteq Nat \ {0} /\ Root \in Pages
                          /\ PageOf \in [Keys -> Pages]
ASSUME ModesAssumption ==
    \A m \in Modes : /\ m.callers \subseteq Threads
                     /\ m.calls \subseteq {"flush_wal", "sync", "checkpoint", "close"}

VARIABLES
    mode,       \* what the environment does in this behaviour
    phase,      \* where KvStore::open is, or "open"
    os, maybe,  \* the data file
    hdr,        \* the header fields FilePageStore holds in memory
    log, logs,  \* the log file
    buf,        \* the active log buffer
    nextLsn, durable,
    scan,       \* records of the log recovery has applied
    mem, dirty, base,   \* the frames: contents, dirty, has_page_image_base
    img,        \* position in buf of the frame's own image, 0: none
    bg,         \* the page copy the background cleaner is writing
    pc, op,     \* per caller: its place in the call, and the call
    latched,    \* per caller: frames flush holds exclusively
    hist, low,  \* the mutations applied, and how many are promised
    puts, calls, crashes

fileVars == <<os, maybe, hdr>>
logVars  == <<log, logs, buf, nextLsn, durable>>
poolVars == <<mem, dirty, base, img>>
callVars == <<pc, op, latched, hist, low>>
counters == <<puts, calls, crashes>>
vars == <<mode, phase, fileVars, logVars, scan, poolVars, bg, callVars, counters>>

Header == 0
Files == Pages \cup {Header}
KeysOf(p) == {k \in Keys : PageOf[k] = p}
Blank(p) == [lsn |-> 0, val |-> [k \in KeysOf(p) |-> 0]]
NoCopy == [pid |-> 0]
NoCall == [kind |-> "none"]
Upper(S, least) == CHOOSE m \in S \cup {least} : \A n \in S \cup {least} : n <= m
Lsns(recs) == {recs[i].lsn : i \in DOMAIN recs}

\* The data files a power loss may leave.
Platters ==
    {F \in [Files -> UNION {maybe[f] : f \in Files}] : \A f \in Files : F[f] \in maybe[f]}

-----------------------------------------------------------------------------
(* Recovery of one record, and of a log *)

\* recover_page_image, recover_page_patch: what replaying rec makes of a page.
RecoverPage(page, ckpt, rec) ==
    IF rec.lsn <= ckpt \/ page.lsn >= rec.lsn THEN page
    ELSE [lsn |-> rec.lsn,
          val |-> IF rec.image THEN rec.val ELSE rec.val @@ page.val]

RecoverRecord(F, ckpt, rec) == [F EXCEPT ![rec.pid] = RecoverPage(@, ckpt, rec)]

\* The data file F after recovery from records recs.
Recovered(F, recs) ==
    LET after[n \in 0..Len(recs)] ==
          IF n = 0 THEN F ELSE RecoverRecord(after[n - 1], F[Header].ckpt, recs[n])
    IN  after[Len(recs)]

\* The value of each key, in the file or in the frames.
Contents(F) == [k \in Keys |-> F[PageOf[k]].val[k]]

-----------------------------------------------------------------------------
Init ==
    /\ mode \in Modes
    /\ phase = "closed"
    \* A store that has never been opened, or one created and closed.
    /\ os = [f \in Files |->
                IF f = Header THEN [ckpt |-> IF mode.fresh THEN 0 ELSE 1,
                                    root |-> IF mode.fresh THEN 0 ELSE Root]
                ELSE IF f = Root /\ ~mode.fresh THEN [Blank(f) EXCEPT !.lsn = 1]
                ELSE Blank(f)]
    /\ maybe = [f \in Files |-> {os[f]}]
    /\ hdr = os[Header]
    /\ log = <<>> /\ logs = {<<>>} /\ buf = <<>> /\ nextLsn = 1 /\ durable = 0
    /\ scan = 0
    /\ mem = [p \in Pages |-> Blank(p)]
    /\ dirty = [p \in Pages |-> FALSE]
    /\ base = [p \in Pages |-> FALSE]
    /\ img = [p \in Pages |-> 0]
    /\ bg = NoCopy
    /\ pc = [t \in Threads |-> "idle"] /\ op = [t \in Threads |-> NoCall]
    /\ latched = [t \in Threads |-> {}]
    /\ hist = <<>> /\ low = 0
    /\ puts = 0 /\ calls = 0 /\ crashes = 0

-----------------------------------------------------------------------------
(* The page store: page_store.rs *)

WriteFile(f, data) ==
    /\ os' = [os EXCEPT ![f] = data]
    /\ maybe' = [maybe EXCEPT ![f] = @ \cup {data}]

FSync == maybe' = [f \in Files |-> {os[f]}]

SyncHeader == WriteFile(Header, hdr)

-----------------------------------------------------------------------------
(* The log *)

\* The driver writes the active buffer and makes it durable.
WalDrain ==
    /\ buf # <<>>
    /\ log' = log \o buf
    /\ logs' = {log \o buf}
    /\ durable' = Upper(Lsns(buf), durable)
    /\ buf' = <<>>
    /\ img' = [p \in Pages |-> 0]
    /\ UNCHANGED <<mode, phase, fileVars, nextLsn, scan, mem, dirty, base, bg, callVars, counters>>

\* append_full_page_image_with_lsn: the frame's own image is rewritten in
\* place while it is still in the active buffer.
LogImage(p, page) ==
    LET rec == [pid |-> p, lsn |-> page.lsn, image |-> TRUE, val |-> page.val] IN
    IF dirty[p] /\ img[p] # 0
    THEN buf' = [buf EXCEPT ![img[p]] = rec] /\ UNCHANGED img
    ELSE buf' = Append(buf, rec) /\ img' = [img EXCEPT ![p] = Len(buf) + 1]

\* mark_dirty_ranges_raw: the changed bytes only, for a page with a base.
LogPatch(p, page, k) ==
    /\ buf' = Append(buf, [pid |-> p, lsn |-> page.lsn, image |-> FALSE,
                           val |-> [x \in {k} |-> page.val[k]]])
    /\ img' = [img EXCEPT ![p] = 0]

\* Wal::reset, once the appends before it are durable: ftruncate without a
\* sync; the active buffer is discarded.
WalReset ==
    /\ log' = <<>>
    /\ logs' = logs \cup {<<>>}
    /\ buf' = <<>>
    /\ img' = [p \in Pages |-> 0]

-----------------------------------------------------------------------------
(* KvStore::open_with *)

\* FilePageStore::open and Wal::open.
OpenFiles ==
    /\ phase = "closed"
    /\ hdr' = os[Header]
    /\ nextLsn' = Upper(Lsns(log), 0) + 1
    /\ durable' = Upper(Lsns(log), 0)
    /\ scan' = 0
    /\ phase' = "replay"
    /\ UNCHANGED <<mode, os, maybe, log, logs, buf, poolVars, bg, callVars, counters>>

\* recover_pages: the next record of the log.
ReplayRecord ==
    /\ phase = "replay" /\ scan < Len(log)
    /\ LET rec == log[scan + 1]
       IN  WriteFile(rec.pid, RecoverPage(os[rec.pid], hdr.ckpt, rec))
    /\ scan' = scan + 1
    /\ UNCHANGED <<mode, phase, hdr, logVars, poolVars, bg, callVars, counters>>

\* Mutant: recovery starts over until the log holds nothing new.
ReplayAgain ==
    /\ phase = "replay" /\ scan = Len(log)
    /\ phase' = IF Upper(Lsns(log), 0) > hdr.ckpt THEN "replay" ELSE "tree"
    /\ scan' = 0
    /\ UNCHANGED <<mode, fileVars, logVars, poolVars, bg, callVars, counters>>

\* The end of the log: records above the checkpoint make a new one.
ReplayDone ==
    /\ phase = "replay" /\ scan = Len(log)
    /\ phase' = IF Upper(Lsns(log), 0) > hdr.ckpt THEN "sync" ELSE "tree"
    /\ UNCHANGED <<mode, fileVars, logVars, scan, poolVars, bg, callVars, counters>>

\* Mutant: the recovered pages are not synced before the checkpoint is set.
SyncRecoveredLate ==
    /\ phase = "sync"
    /\ phase' = "checkpoint"
    /\ UNCHANGED <<mode, fileVars, logVars, scan, poolVars, bg, callVars, counters>>

SyncRecovered ==
    /\ phase = "sync"
    /\ FSync
    /\ phase' = "checkpoint"
    /\ UNCHANGED <<mode, os, hdr, logVars, scan, poolVars, bg, callVars, counters>>

SetRecoveredCheckpoint ==
    /\ phase = "checkpoint"
    /\ LET h == [hdr EXCEPT !.ckpt = Upper(Lsns(log), 0)]
       IN  hdr' = h /\ WriteFile(Header, h)
    /\ phase' = "sync_checkpoint"
    /\ UNCHANGED <<mode, logVars, scan, poolVars, bg, callVars, counters>>

SyncRecoveredCheckpoint ==
    /\ phase = "sync_checkpoint"
    /\ FSync
    /\ phase' = "reset"
    /\ UNCHANGED <<mode, os, hdr, logVars, scan, poolVars, bg, callVars, counters>>

ResetRecoveredLog ==
    /\ phase = "reset"
    /\ WalReset
    /\ scan' = 0
    /\ phase' = "tree"
    /\ UNCHANGED <<mode, fileVars, nextLsn, durable, mem, dirty, base, bg, callVars, counters>>

\* The mutations that contents stand for: those up to the newest value in them.
\* Contents that are no prefix of what was applied stand for no history.
ContentsOf(h) ==
    [k \in Keys |-> Upper({h[i].stamp : i \in {j \in DOMAIN h : h[j].key = k}}, 0)]
NoHistory == <<[key |-> 0, stamp |-> 0]>>
HistoryOf(contents) ==
    CHOOSE h \in {IF ContentsOf(g) = contents THEN g ELSE NoHistory :
                  g \in {SelectSeq(hist, LAMBDA e : e.stamp <= top) :
                         top \in {Upper({contents[k] : k \in Keys}, 0)}}} : TRUE

\* advance_lsn_past, then BTree::open: frames are loaded from the file.
OpenTree ==
    /\ phase = "tree" /\ hdr.root # 0
    /\ nextLsn' = Upper({nextLsn}, hdr.ckpt + 1)
    /\ durable' = Upper({durable}, hdr.ckpt)
    /\ mem' = [p \in Pages |-> os[p]]
    /\ base' = [p \in Pages |-> os[p].lsn # 0]
    /\ hist' = HistoryOf(Contents(os))
    /\ phase' = "open"
    /\ UNCHANGED <<mode, fileVars, log, logs, buf, scan, dirty, img, bg,
                   pc, op, latched, low, counters>>

\* BTree::new: the root page's image is appended, then the header is synced.
CreateTree ==
    /\ phase = "tree" /\ hdr.root = 0
    /\ LET page == [Blank(Root) EXCEPT !.lsn = nextLsn] IN
       /\ LogImage(Root, page)
       /\ mem' = [p \in Pages |-> IF p = Root THEN page ELSE os[p]]
    /\ dirty' = [dirty EXCEPT ![Root] = TRUE]
    /\ base' = [base EXCEPT ![Root] = TRUE]
    /\ nextLsn' = nextLsn + 1
    /\ hdr' = [hdr EXCEPT !.root = Root]
    /\ phase' = "create"
    /\ UNCHANGED <<mode, os, maybe, log, logs, durable, scan, bg, callVars, counters>>

SyncCreated ==
    /\ phase = "create"
    /\ os' = [os EXCEPT ![Header] = hdr]
    /\ maybe' = [f \in Files |-> {os'[f]}]
    /\ phase' = "open"
    /\ UNCHANGED <<mode, hdr, logVars, scan, poolVars, bg, callVars, counters>>

Opening ==
    \/ OpenFiles \/ ReplayRecord \/ ReplayDone
    \/ SyncRecovered \/ SetRecoveredCheckpoint \/ SyncRecoveredCheckpoint \/ ResetRecoveredLog
    \/ OpenTree \/ CreateTree \/ SyncCreated

-----------------------------------------------------------------------------
(* Calls *)

Busy == {t \in Threads : pc[t] # "idle"}
Locked(p) == \E t \in Threads : p \in latched[t]

Goto(t, where) ==
    /\ pc' = [pc EXCEPT ![t] = where]
    /\ op' = [op EXCEPT ![t].target = nextLsn - 1]

\* The call returns with everything applied before it promised.
Return(t) ==
    /\ pc' = [pc EXCEPT ![t] = "idle"]
    /\ op' = [op EXCEPT ![t] = NoCall]
    /\ low' = Upper({low}, op[t].upto)

\* put and del up to finish_mutation: the leaf is changed and logged under
\* its exclusive latch.
Put(t, k) ==
    LET p    == PageOf[k]
        page == [lsn |-> nextLsn, val |-> [mem[p].val EXCEPT ![k] = puts + 1]]
    IN  /\ phase = "open" /\ pc[t] = "idle" /\ puts < mode.puts
        /\ mode.alone => \A u \in Busy : op[u].kind # "checkpoint"
        /\ \A u \in Busy : op[u].kind # "close"
        /\ ~Locked(p)
        /\ \/ LogImage(p, page) /\ base' = [base EXCEPT ![p] = TRUE]
           \/ base[p] /\ LogPatch(p, page, k) /\ UNCHANGED base
        /\ mem' = [mem EXCEPT ![p] = page]
        /\ dirty' = [dirty EXCEPT ![p] = TRUE]
        /\ nextLsn' = nextLsn + 1
        /\ hist' = Append(hist, [key |-> k, stamp |-> puts + 1])
        /\ puts' = puts + 1
        /\ IF mode.strict
           THEN /\ pc' = [pc EXCEPT ![t] = "flush"]
                /\ op' = [op EXCEPT ![t] = [kind |-> "put", target |-> nextLsn,
                                            ckpt |-> 0, upto |-> Len(hist) + 1, todo |-> {}]]
           ELSE UNCHANGED <<pc, op>>
        /\ UNCHANGED <<mode, phase, fileVars, log, logs, durable, scan, bg,
                       latched, low, calls, crashes>>

\* flush_wal, sync, checkpoint, and dropping the store.
Call(t, kind) ==
    /\ phase = "open" /\ pc[t] = "idle" /\ calls < mode.ncalls
    /\ kind \in mode.calls
    /\ kind = "close" => Busy = {}
    /\ (mode.alone /\ kind = "checkpoint") => Busy = {}
    /\ \A u \in Busy : op[u].kind # "close" /\ (mode.alone => op[u].kind # "checkpoint")
    /\ calls' = calls + 1
    /\ pc' = [pc EXCEPT ![t] = IF kind = "close" THEN "pool_flush" ELSE "flush"]
    /\ op' = [op EXCEPT ![t] = [kind |-> kind, target |-> nextLsn - 1, ckpt |-> 0,
                                upto |-> Len(hist), todo |-> {}]]
    /\ UNCHANGED <<mode, phase, fileVars, logVars, scan, poolVars, bg,
                   latched, hist, low, puts, crashes>>

\* Wal::flush: wait until what was appended when it began is durable.
Flushed(t, where) == pc[t] = where /\ durable >= op[t].target

FlushWal(t) ==
    /\ Flushed(t, "flush")
    /\ IF op[t].kind \in {"put", "flush_wal"}
       THEN Return(t)
       ELSE /\ pc' = [pc EXCEPT ![t] = "pool_flush"]
            /\ op' = [op EXCEPT ![t].ckpt = durable, ![t].target = nextLsn - 1]
            /\ UNCHANGED low
    /\ UNCHANGED <<mode, phase, fileVars, logVars, scan, poolVars, bg, latched, hist, counters>>

-----------------------------------------------------------------------------
(* BufferPool::flush *)

PoolFlush(t) ==
    /\ Flushed(t, "pool_flush")
    /\ pc' = [pc EXCEPT ![t] = "collect"]
    /\ op' = [op EXCEPT ![t].todo = Pages]
    /\ UNCHANGED <<mode, phase, fileVars, logVars, scan, poolVars, bg, latched, hist, low, counters>>

AfterPoolFlush(t) ==
    CASE op[t].kind = "sync"       -> Return(t)
      [] op[t].kind = "checkpoint" -> Goto(t, "meta") /\ UNCHANGED low
      [] op[t].kind = "close"      -> Goto(t, "drop") /\ UNCHANGED low

\* The next frame: a dirty one is latched, its log record being durable.
Collect(t) ==
    /\ pc[t] = "collect" /\ op[t].todo # {}
    /\ LET p == CHOOSE q \in op[t].todo : \A r \in op[t].todo : q <= r IN
       /\ dirty[p] => ~Locked(p) /\ durable >= mem[p].lsn
       /\ latched' = IF dirty[p] THEN [latched EXCEPT ![t] = @ \cup {p}] ELSE latched
       /\ op' = [op EXCEPT ![t].todo = @ \ {p}]
    /\ UNCHANGED <<mode, phase, fileVars, logVars, scan, poolVars, bg, pc, hist, low, counters>>

\* No dirty frame: return without a sync.
Collected(t) ==
    /\ pc[t] = "collect" /\ op[t].todo = {}
    /\ IF latched[t] = {} THEN AfterPoolFlush(t)
       ELSE /\ pc' = [pc EXCEPT ![t] = "write"]
            /\ op' = [op EXCEPT ![t].todo = latched[t]]
            /\ UNCHANGED low
    /\ UNCHANGED <<mode, phase, fileVars, logVars, scan, poolVars, bg, latched, hist, counters>>

\* write_pages_and_sync: the pages, the header, fsync.
WritePage(t) ==
    /\ pc[t] = "write" /\ op[t].todo # {}
    /\ \E p \in op[t].todo :
          WriteFile(p, mem[p]) /\ op' = [op EXCEPT ![t].todo = @ \ {p}]
    /\ UNCHANGED <<mode, phase, hdr, logVars, scan, poolVars, bg, pc, latched, hist, low, counters>>

WriteHeader(t) ==
    /\ pc[t] = "write" /\ op[t].todo = {}
    /\ SyncHeader
    /\ pc' = [pc EXCEPT ![t] = "sync"]
    /\ UNCHANGED <<mode, phase, hdr, logVars, scan, poolVars, bg, op, latched, hist, low, counters>>

SyncPages(t) ==
    /\ pc[t] = "sync"
    /\ FSync
    /\ dirty' = [p \in Pages |-> dirty[p] /\ p \notin latched[t]]
    /\ base' = [p \in Pages |-> base[p] \/ p \in latched[t]]
    /\ img' = [p \in Pages |-> IF p \in latched[t] THEN 0 ELSE img[p]]
    /\ latched' = [latched EXCEPT ![t] = {}]
    /\ AfterPoolFlush(t)
    /\ UNCHANGED <<mode, phase, os, hdr, logVars, scan, mem, bg, hist, counters>>

-----------------------------------------------------------------------------
(* The rest of checkpoint, and of the drop *)

SetMeta(t) ==
    /\ pc[t] = "meta"
    /\ hdr' = [hdr EXCEPT !.root = Root, !.ckpt = op[t].ckpt]
    /\ Goto(t, "header")
    /\ UNCHANGED <<mode, phase, os, maybe, logVars, scan, poolVars, bg, latched, hist, low, counters>>

WriteCheckpoint(t) ==
    /\ pc[t] = "header"
    /\ SyncHeader
    /\ Goto(t, "header_sync")
    /\ UNCHANGED <<mode, phase, hdr, logVars, scan, poolVars, bg, latched, hist, low, counters>>

SyncCheckpoint(t) ==
    /\ pc[t] = "header_sync"
    /\ FSync
    /\ Goto(t, "reset_flush")
    /\ UNCHANGED <<mode, phase, os, hdr, logVars, scan, poolVars, bg, latched, hist, low, counters>>

FlushBeforeReset(t) ==
    /\ Flushed(t, "reset_flush")
    /\ Goto(t, "reset")
    /\ UNCHANGED <<mode, phase, fileVars, logVars, scan, poolVars, bg, latched, hist, low, counters>>

ResetLog(t) ==
    /\ pc[t] = "reset"
    /\ WalReset
    /\ Return(t)
    /\ UNCHANGED <<mode, phase, fileVars, nextLsn, durable, scan, mem, dirty, base, bg,
                   latched, hist, counters>>

\* Drop of Wal (drains and syncs the log) and of FilePageStore.
DropStore(t) ==
    /\ pc[t] = "drop" /\ buf = <<>>
    /\ os' = [os EXCEPT ![Header] = hdr]
    /\ maybe' = [f \in Files |-> {os'[f]}]
    /\ logs' = {log}
    /\ Return(t)
    /\ phase' = "closed"
    /\ UNCHANGED <<mode, hdr, log, buf, nextLsn, durable, scan, poolVars, bg, latched, hist, counters>>

CallStep(t) ==
    \/ FlushWal(t) \/ PoolFlush(t) \/ Collect(t) \/ Collected(t)
    \/ WritePage(t) \/ WriteHeader(t) \/ SyncPages(t)
    \/ SetMeta(t) \/ WriteCheckpoint(t) \/ SyncCheckpoint(t) \/ FlushBeforeReset(t) \/ ResetLog(t)
    \/ DropStore(t)

-----------------------------------------------------------------------------
(* The background cleaner and eviction *)

\* Mutant: a page is copied before its log record is durable.
BgCopyEarly(p) ==
    /\ phase = "open" /\ mode.cleaner /\ bg = NoCopy
    /\ dirty[p] /\ ~Locked(p)
    /\ bg' = [pid |-> p, page |-> mem[p], written |-> FALSE]
    /\ UNCHANGED <<mode, phase, fileVars, logVars, scan, poolVars, callVars, counters>>

\* try_flush_dirty_batch_inner: copy a dirty page whose record is durable.
BgCopy(p) ==
    /\ phase = "open" /\ mode.cleaner /\ bg = NoCopy
    /\ dirty[p] /\ ~Locked(p) /\ durable >= mem[p].lsn
    /\ bg' = [pid |-> p, page |-> mem[p], written |-> FALSE]
    /\ UNCHANGED <<mode, phase, fileVars, logVars, scan, poolVars, callVars, counters>>

\* write_pages: without the latch and without a sync.
BgWrite ==
    /\ phase = "open" /\ bg # NoCopy /\ ~bg.written
    /\ WriteFile(bg.pid, bg.page)
    /\ bg' = [bg EXCEPT !.written = TRUE]
    /\ UNCHANGED <<mode, phase, hdr, logVars, scan, poolVars, callVars, counters>>

\* Mutant: the frame is marked clean even if it changed since the copy.
BgCleanAlways ==
    /\ phase = "open" /\ bg # NoCopy /\ bg.written /\ ~Locked(bg.pid)
    /\ dirty' = [dirty EXCEPT ![bg.pid] = FALSE]
    /\ bg' = NoCopy
    /\ UNCHANGED <<mode, phase, fileVars, logVars, scan, mem, base, img, callVars, counters>>

\* Clean, if not dirtied since the copy.  Every dirty mark takes a new LSN,
\* so the page's LSN stands for the dirty generation.
BgClean ==
    /\ phase = "open" /\ bg # NoCopy /\ bg.written /\ ~Locked(bg.pid)
    /\ LET p == bg.pid
           unchanged == dirty[p] /\ mem[p].lsn = bg.page.lsn
       IN  /\ dirty' = [dirty EXCEPT ![p] = @ /\ ~unchanged]
           /\ base' = [base EXCEPT ![p] = @ \/ unchanged]
           /\ img' = [img EXCEPT ![p] = IF unchanged THEN 0 ELSE @]
    /\ bg' = NoCopy
    /\ UNCHANGED <<mode, phase, fileVars, logVars, scan, mem, callVars, counters>>

\* Eviction of a clean frame nobody holds, and its reload.
Reload(p) ==
    /\ phase = "open" /\ ~dirty[p] /\ ~Locked(p) /\ bg.pid # p
    /\ mem' = [mem EXCEPT ![p] = os[p]]
    /\ base' = [base EXCEPT ![p] = os[p].lsn # 0]
    /\ UNCHANGED <<mode, phase, fileVars, logVars, scan, dirty, img, bg, callVars, counters>>

-----------------------------------------------------------------------------
(* Crashes: what is in memory is lost *)

Restart ==
    /\ phase' = "closed"
    /\ buf' = <<>>
    /\ scan' = 0
    /\ mem' = [p \in Pages |-> Blank(p)]
    /\ dirty' = [p \in Pages |-> FALSE] /\ base' = [p \in Pages |-> FALSE]
    /\ img' = [p \in Pages |-> 0]
    /\ bg' = NoCopy
    /\ pc' = [t \in Threads |-> "idle"] /\ op' = [t \in Threads |-> NoCall]
    /\ latched' = [t \in Threads |-> {}]
    /\ crashes' = crashes + 1
    /\ UNCHANGED <<mode, hdr, nextLsn, durable, hist, low, puts, calls>>

\* The process dies: its writes stay; the buffer's may have been made.
ProcessCrash ==
    /\ crashes < mode.crashes
    /\ \E written \in {log} \cup {log \o b : b \in {b \in {buf} : mode.unsynced}} :
          log' = written /\ logs' = logs \cup {written}
    /\ UNCHANGED <<os, maybe>>
    /\ Restart

\* The machine dies: of each page, a version not yet replaced by an fsync.
PowerLoss ==
    /\ mode.power /\ crashes < mode.crashes
    /\ os' \in Platters
    /\ maybe' = [f \in Files |-> {os'[f]}]
    /\ log' \in logs \cup {log \o buf}
    /\ logs' = {log'}
    /\ Restart

Crash == ProcessCrash \/ PowerLoss

-----------------------------------------------------------------------------
Finished ==
    /\ phase = "open" /\ Busy = {} /\ puts = mode.puts /\ calls = mode.ncalls
    /\ UNCHANGED vars

Next ==
    \/ Opening
    \/ WalDrain
    \/ \E t \in mode.callers, k \in Keys : Put(t, k)
    \/ \E t \in mode.callers, kind \in mode.calls : Call(t, kind)
    \/ \E t \in Threads : CallStep(t)
    \/ \E p \in Pages : BgCopy(p) \/ Reload(p)
    \/ BgWrite \/ BgClean
    \/ Crash
    \/ Finished

Spec == Init /\ [][Next]_vars

\* The log's driver, recovery, the cleaner and each caller keep running.
FairSpec ==
    /\ Spec
    /\ WF_vars(Opening) /\ WF_vars(WalDrain) /\ WF_vars(BgWrite \/ BgClean)
    /\ \A t \in Threads : WF_vars(CallStep(t))

-----------------------------------------------------------------------------
(* Properties *)

\* Every variable has its type; the frames flush has latched are disjoint.
TypeOK ==
    /\ phase \in {"closed", "replay", "sync", "checkpoint", "sync_checkpoint", "reset",
                  "tree", "create", "open"}
    /\ \A f \in Files : os[f] \in maybe[f]
    /\ log \in logs
    /\ nextLsn \in Nat \ {0} /\ durable \in 0..(nextLsn - 1)
    /\ \A p \in Pages : img[p] \in 0..Len(buf) /\ (img[p] # 0 => buf[img[p]].pid = p)
    /\ \A t, u \in Threads : t # u => latched[t] \cap latched[u] = {}
    /\ low \in 0..Len(hist)

\* The contents a caller sees, or would see after recovery from the files as
\* they read now.
Visible == IF phase = "open" THEN Contents(mem) ELSE Contents(Recovered(os, log))

\* KvStore implements DurableStore: through log buffering, patches and in-place
\* image rewrites, write-back, eviction and reload, checkpoints, crashes (also
\* in recovery) and reopening, callers see the mutations in order, and a crash
\* loses none that strict put, flush_wal, sync or checkpoint has promised.
Abstract == INSTANCE DurableStore WITH
    hist <- HistoryOf(Visible), Entries <- [key : Keys, stamp : Nat \ {0}]
ImplementsDurableStore == Abstract!Spec

\* What a crash may leave: the files as they read, or after a power loss any
\* mixture of the versions not yet replaced by an fsync.
FilesLeft == IF mode.power THEN Platters ELSE {os}
LogsLeft == IF mode.power THEN logs ELSE {log}

\* WAL before data: no page that a write-back or recovery has put in the data
\* file is newer than what a log left by a crash, or the checkpoint in a header
\* left with it, accounts for.
WalBeforeData ==
    \A F \in FilesLeft, l \in LogsLeft : \A p \in Pages :
        F[p].lsn <= Upper(Lsns(l), F[Header].ckpt)

\* At every moment, in the middle of a checkpoint or a recovery too, recovery
\* from whatever a crash would leave gives a prefix of the mutations applied
\* that contains the promised ones: no header has a checkpoint above a page
\* that could survive with it unless a log record still covers the gap.
PromisedIsRecoverable ==
    \A F \in FilesLeft, l \in LogsLeft :
        \E h \in {HistoryOf(Contents(Recovered(F, l)))} : h # NoHistory /\ Len(h) >= low

\* Every call returns unless the process crashes, and a store that crashed,
\* also during recovery, is open again.
CallsAndRecoveryFinish ==
    /\ \A t \in Threads : pc[t] # "idle" ~> pc[t] = "idle"
    /\ phase # "open" ~> phase = "open"
================================================================================
